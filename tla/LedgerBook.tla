----------------------------- MODULE LedgerBook -----------------------------
(***************************************************************************)
(* What the ledger promises: a settlement is one indivisible step that     *)
(* completes the payment, writes its entries and moves its accounts.       *)
(* Neither transactions nor locks nor connections appear here.             *)
(***************************************************************************)
EXTENDS LedgerRules

CONSTANTS
  Calls,
  PayOf      \* [Calls -> Payments]

VARIABLES
  completed,  \* the payments whose row says COMPLETED
  balance,    \* [Books -> [Codes -> Nat]]
  entries     \* rows of ledger_entries

bookVars == <<completed, balance, entries>>

BookInit ==
  /\ completed = {}
  /\ balance = [b \in Books |-> [code \in Codes |-> 0]]
  /\ entries = {}

SettleAtOnce(c) ==
  LET p == PayOf[c] IN
  /\ \A e \in entries : e.call # c
  /\ completed' = completed \cup {p}
  /\ balance' = [balance EXCEPT ![BookOf[p]] =
                   [code \in Codes |-> balance[BookOf[p]][code] + Moved(p, code)]]
  /\ entries' = entries \cup EntriesOf(c, p, LegsOf(p))

BookSpec == BookInit /\ [][\E c \in Calls : SettleAtOnce(c)]_bookVars
=============================================================================
