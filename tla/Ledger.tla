------------------------------- MODULE Ledger -------------------------------
(***************************************************************************)
(* The settlements of payments, statement by statement: the interactive    *)
(* transaction of PaymentsService.settlePayment (confirmPaymentManually    *)
(* opens the same one), the lookups and the lazy provisioning of           *)
(* LedgerService.settlePaymentWithTx, which go through other connections   *)
(* of the pool, and the two balance updates and one insert of each         *)
(* LedgerRepository.writeEntry.                                            *)
(*                                                                         *)
(* PostgreSQL at READ COMMITTED is external: an UPDATE waits for the row's *)
(* lock, then computes from the committed row (or from the transaction's   *)
(* own version of it) and keeps the lock until the transaction ends.  What *)
(* a transaction wrote is in "view" and "drafts" until it commits.         *)
(***************************************************************************)
EXTENDS Integers, FiniteSets, FiniteSetsExt, LedgerRules

CONSTANTS
  Calls,      \* attempts to settle: confirmation jobs, manual confirmations
  PayOf,      \* [Calls -> Payments]; two calls may settle one payment
  PoolSize,   \* connections of the Prisma pool
  MaxTries,   \* bound: times one call opens a transaction
  NoCall

ASSUME CallAssumption == PayOf \in [Calls -> Payments] /\ NoCall \notin Calls
ASSUME BoundAssumption == PoolSize \in Nat /\ MaxTries \in Nat

VARIABLES
  completed,  \* payments whose committed row says COMPLETED
  accounts,   \* [Books -> SUBSET Codes]: ledger_accounts rows, committed
  balance,    \* [Books -> [Codes -> Nat]]: their balance, 0 when absent
  entries,    \* ledger_entries, committed
  locks,      \* [Books -> [Codes -> Calls or NoCall]]: account row locks
  rowLock,    \* [Payments -> Calls or NoCall]: payment row locks
  at,         \* [Calls -> the statement the call is about to run]
  leg,        \* [Calls -> Legs]: the entry being written
  todo,       \* [Calls -> SUBSET Codes]: accounts still to look up or create
  found,      \* [Calls -> SUBSET Codes]: accounts the lookup returned
  view,       \* [Calls -> [Codes -> Nat]]: the transaction's account versions
  drafts,     \* [Calls -> entries inserted and not committed]
  tries       \* [Calls -> Nat]

tables == <<completed, balance, entries>>
held == <<locks, rowLock, view, drafts>>
search == <<todo, found>>
vars == <<completed, accounts, balance, entries, locks, rowLock, at, leg, todo,
          found, view, drafts, tries>>

Zero == [code \in Codes |-> 0]
BookFor(c) == BookOf[PayOf[c]]

\* The statements a call runs while its transaction is open.
InsideTx == {"row", "look", "create", "relook", "debit", "credit", "insert", "commit"}
InTx == {c \in Calls : at[c] \in InsideTx}

\* An open transaction keeps a connection; a lookup or an upsert needs another.
ConnectionFree == Cardinality(InTx) < PoolSize

Init ==
  /\ completed = {} /\ entries = {}
  /\ accounts = [b \in Books |-> {}]
  /\ balance = [b \in Books |-> Zero]
  /\ locks = [b \in Books |-> [code \in Codes |-> NoCall]]
  /\ rowLock = [p \in Payments |-> NoCall]
  /\ at = [c \in Calls |-> "idle"] /\ leg = [c \in Calls |-> "gross"]
  /\ todo = [c \in Calls |-> {}] /\ found = [c \in Calls |-> {}]
  /\ view = [c \in Calls |-> Zero] /\ drafts = [c \in Calls |-> {}]
  /\ tries = [c \in Calls |-> 0]

Goto(c, statement) == at' = [at EXCEPT ![c] = statement]

----------------------------------------------------------------------------
\* The caller reads the payment; one that is COMPLETED already is left alone.
Begin(c) ==
  /\ at[c] = "idle"
  /\ Goto(c, IF PayOf[c] \in completed THEN "done" ELSE "open")
  /\ UNCHANGED <<tables, accounts, held, leg, search, tries>>

\* $transaction takes a connection of the pool.
OpenTx(c) ==
  /\ at[c] = "open" /\ ConnectionFree
  /\ tries' = [tries EXCEPT ![c] = @ + 1]
  /\ Goto(c, "row")
  /\ UNCHANGED <<tables, accounts, held, leg, search>>

\* transition() without the transaction client: the row commits at once.
MutMarkRow(c) ==
  /\ at[c] = "row" /\ rowLock[PayOf[c]] = NoCall
  /\ rowLock' = [rowLock EXCEPT ![PayOf[c]] = c]
  /\ completed' = completed \cup {PayOf[c]}
  /\ todo' = [todo EXCEPT ![c] = Codes] /\ found' = [found EXCEPT ![c] = {}]
  /\ Goto(c, "look")
  /\ UNCHANGED <<balance, entries, accounts, locks, view, drafts, leg, tries>>

\* transition(COMPLETED) by primary key and the event, inside the transaction.
MarkRow(c) ==
  /\ at[c] = "row" /\ rowLock[PayOf[c]] = NoCall
  /\ rowLock' = [rowLock EXCEPT ![PayOf[c]] = c]
  /\ todo' = [todo EXCEPT ![c] = Codes] /\ found' = [found EXCEPT ![c] = {}]
  /\ Goto(c, "look")
  /\ UNCHANGED <<tables, accounts, locks, view, drafts, leg, tries>>

\* findAccount: one of three concurrent reads on a connection of the pool.
Look(c, code) ==
  /\ at[c] \in {"look", "relook"} /\ code \in todo[c] /\ ConnectionFree
  /\ todo' = [todo EXCEPT ![c] = @ \ {code}]
  /\ found' = [found EXCEPT ![c] = @ \cup ({code} \cap accounts[BookFor(c)])]
  /\ UNCHANGED <<tables, accounts, held, at, leg, tries>>

\* upsertAccount: ON CONFLICT it keeps the account as it is.
UpsertAccount(b, code) ==
  /\ accounts' = [accounts EXCEPT ![b] = @ \cup {code}]
  /\ balance' = [balance EXCEPT ![b][code] = IF code \in accounts[b] THEN @ ELSE 0]

\* ensureWalletAccounts out of the settlement: three concurrent upserts, each
\* committed at once, outside the open transaction.
Create(c, code) ==
  /\ at[c] = "create" /\ code \in todo[c] /\ ConnectionFree
  /\ UpsertAccount(BookFor(c), code)
  /\ todo' = [todo EXCEPT ![c] = @ \ {code}]
  /\ UNCHANGED <<completed, entries, held, at, leg, found, tries>>

\* ensureWalletAccounts out of provisionTenantWallet, for a wallet that exists
\* and may have payments already.
Provision(b, code) ==
  /\ ConnectionFree
  /\ UpsertAccount(b, code)
  /\ UNCHANGED <<completed, entries, held, at, leg, search, tries>>

\* All three reads, or all three upserts, have returned.
Resolve(c) ==
  /\ at[c] \in {"look", "create"} /\ todo[c] = {}
  /\ \/ /\ at[c] = "look" /\ found[c] = Codes
        /\ Goto(c, "debit") /\ leg' = [leg EXCEPT ![c] = "gross"]
        /\ UNCHANGED search
     \/ /\ at[c] = "look" /\ found[c] # Codes
        /\ Goto(c, "create") /\ todo' = [todo EXCEPT ![c] = Codes]
        /\ UNCHANGED <<leg, found>>
     \/ /\ at[c] = "create"
        /\ Goto(c, "relook")
        /\ todo' = [todo EXCEPT ![c] = Codes] /\ found' = [found EXCEPT ![c] = {}]
        /\ UNCHANGED leg
  /\ UNCHANGED <<tables, accounts, held, tries>>

\* A rollback that leaves the connection's locks behind.
MutRelease(c) ==
  /\ drafts' = [drafts EXCEPT ![c] = {}]
  /\ UNCHANGED <<locks, rowLock, view>>

\* The end of c's transaction, committed or not, frees what it holds.
Release(c) ==
  /\ locks' = [b \in Books |-> [code \in Codes |->
                 IF locks[b][code] = c THEN NoCall ELSE locks[b][code]]]
  /\ rowLock' = [p \in Payments |-> IF rowLock[p] = c THEN NoCall ELSE rowLock[p]]
  /\ drafts' = [drafts EXCEPT ![c] = {}]
  /\ UNCHANGED view

\* The accounts were looked up again: all are there, or the call throws.
ResolveAgain(c) ==
  /\ at[c] = "relook" /\ todo[c] = {}
  /\ \/ /\ found[c] = Codes
        /\ Goto(c, "debit") /\ leg' = [leg EXCEPT ![c] = "gross"]
        /\ UNCHANGED held
     \/ /\ found[c] # Codes
        /\ Goto(c, "failed") /\ Release(c)
        /\ UNCHANGED leg
  /\ UNCHANGED <<tables, accounts, search, tries>>

----------------------------------------------------------------------------
\* A read and a write instead of the increment in SQL.
MutAddTo(c, code, amount) ==
  LET b == BookFor(c) IN
  /\ locks' = [locks EXCEPT ![b][code] = c]
  /\ view' = [view EXCEPT ![c][code] = balance[b][code] + amount]
  /\ UNCHANGED <<rowLock, drafts>>

\* UPDATE ledger_accounts SET balance = balance + amount, under the row's lock.
AddTo(c, code, amount) ==
  LET b == BookFor(c)
      base == IF locks[b][code] = c THEN view[c][code] ELSE balance[b][code]
  IN
  /\ locks[b][code] \in {NoCall, c}
  /\ locks' = [locks EXCEPT ![b][code] = c]
  /\ view' = [view EXCEPT ![c][code] = base + amount]
  /\ UNCHANGED <<rowLock, drafts>>

Debit(c) ==
  /\ at[c] = "debit"
  /\ AddTo(c, DebitOf(leg[c]), LegAmount(PayOf[c], leg[c]))
  /\ Goto(c, "credit")
  /\ UNCHANGED <<tables, accounts, leg, search, tries>>

Credit(c) ==
  /\ at[c] = "credit"
  /\ AddTo(c, CreditOf(leg[c]), LegAmount(PayOf[c], leg[c]))
  /\ Goto(c, "insert")
  /\ UNCHANGED <<tables, accounts, leg, search, tries>>

\* The fee entry is written in a transaction of its own, later or never.
MutInsert(c) ==
  /\ at[c] = "insert"
  /\ drafts' = [drafts EXCEPT ![c] = @ \cup {Entry(c, PayOf[c], leg[c])}]
  /\ Goto(c, "commit")
  /\ UNCHANGED <<tables, accounts, locks, rowLock, view, leg, search, tries>>

\* The entry is inserted; the fee follows the gross amount if there is one.
Insert(c) ==
  /\ at[c] = "insert"
  /\ drafts' = [drafts EXCEPT ![c] = @ \cup {Entry(c, PayOf[c], leg[c])}]
  /\ \/ /\ leg[c] = "gross" /\ Fee(PayOf[c]) > 0
        /\ leg' = [leg EXCEPT ![c] = "fee"] /\ Goto(c, "debit")
     \/ /\ leg[c] = "fee" \/ Fee(PayOf[c]) = 0
        /\ Goto(c, "commit") /\ UNCHANGED leg
  /\ UNCHANGED <<tables, accounts, locks, rowLock, view, search, tries>>

Commit(c) ==
  /\ at[c] = "commit"
  /\ completed' = completed \cup {PayOf[c]}
  /\ balance' = [b \in Books |-> [code \in Codes |->
                   IF locks[b][code] = c THEN view[c][code] ELSE balance[b][code]]]
  /\ entries' = entries \cup drafts[c]
  /\ Release(c)
  /\ Goto(c, "done")
  /\ UNCHANGED <<accounts, leg, search, tries>>

\* Prisma's timeout, a lost connection, a unique violation of two upserts, a
\* crash: whatever ends the call before its commit rolls everything back.
RollBack(c) ==
  /\ at[c] \in InsideTx \cup {"open"}
  /\ Release(c)
  /\ Goto(c, "failed")
  /\ UNCHANGED <<tables, accounts, leg, search, tries>>

\* The job's next attempt, or the client's.
Retry(c) ==
  /\ at[c] = "failed" /\ tries[c] < MaxTries
  /\ Goto(c, "idle")
  /\ UNCHANGED <<tables, accounts, held, leg, search, tries>>

----------------------------------------------------------------------------
Step(c) ==
  \/ Begin(c) \/ OpenTx(c) \/ MarkRow(c) \/ Resolve(c) \/ ResolveAgain(c)
  \/ Debit(c) \/ Credit(c) \/ Insert(c) \/ Commit(c)
  \/ \E code \in Codes : Look(c, code) \/ Create(c, code)

Next ==
  \/ \E c \in Calls : Step(c) \/ RollBack(c) \/ Retry(c)
  \/ \E b \in Books, code \in Codes : Provision(b, code)

Spec == Init /\ [][Next]_vars

\* node runs every continuation and PostgreSQL answers.  Nothing forces a
\* rollback: FairSpec does not lean on the timeout.
FairSpec == Spec /\ \A c \in Calls : WF_vars(Step(c))

----------------------------------------------------------------------------
Rows == {Entry(c, PayOf[c], l) : c \in Calls, l \in Legs}

TypeOK ==
  /\ completed \subseteq Payments
  /\ accounts \in [Books -> SUBSET Codes]
  /\ balance \in [Books -> [Codes -> Nat]]
  /\ entries \subseteq Rows
  /\ locks \in [Books -> [Codes -> Calls \cup {NoCall}]]
  /\ rowLock \in [Payments -> Calls \cup {NoCall}]
  /\ at \in [Calls -> InsideTx \cup {"idle", "open", "failed", "done"}]
  /\ leg \in [Calls -> Legs]
  /\ todo \in [Calls -> SUBSET Codes] /\ found \in [Calls -> SUBSET Codes]
  /\ view \in [Calls -> [Codes -> Nat]]
  /\ drafts \in [Calls -> SUBSET Rows]
  /\ tries \in [Calls -> Nat]

(* The inductive invariant. *)

\* How far the transaction of c has come with its account updates.
GrossDebited(c) == leg[c] = "fee" \/ at[c] \in {"credit", "insert", "commit"}
GrossCredited(c) == leg[c] = "fee" \/ at[c] \in {"insert", "commit"}
FeeDebited(c) == leg[c] = "fee" /\ at[c] \in {"credit", "insert", "commit"}
FeeCredited(c) == leg[c] = "fee" /\ at[c] \in {"insert", "commit"}

Posting(c) == at[c] \in {"debit", "credit", "insert", "commit"}

\* The accounts c has updated, and by how much so far.
Touches(c, code) ==
  /\ Posting(c)
  /\ \/ code = "asset" /\ GrossDebited(c)
     \/ code = "liability" /\ GrossCredited(c)
     \/ code = "revenue" /\ FeeCredited(c)
Pending(c, code) ==
  LET p == PayOf[c] IN
  CASE code = "asset" -> Amount[p]
    [] code = "liability" -> Amount[p] + IF FeeDebited(c) THEN Fee(p) ELSE 0
    [] OTHER -> Fee(p)

\* A transaction holds the lock of an account exactly if it has updated it.
LocksAreUpdates ==
  \A b \in Books, code \in Codes, c \in Calls :
    locks[b][code] = c <=> b = BookFor(c) /\ Touches(c, code)

\* It holds its payment's row from the first statement on.
RowsAreHeld ==
  \A p \in Payments, c \in Calls :
    rowLock[p] = c <=> p = PayOf[c] /\ at[c] \in InsideTx \ {"row"}

\* A locked account is what was committed plus what this transaction added.
ViewsAreCurrent ==
  \A c \in Calls, code \in Codes : Touches(c, code) =>
    view[c][code] = balance[BookFor(c)][code] + Pending(c, code)

\* The entries a transaction has inserted so far.
Written(c) ==
  IF at[c] = "commit" THEN LegsOf(PayOf[c])
  ELSE IF Posting(c) /\ leg[c] = "fee" THEN {"gross"} ELSE {}
DraftsFollow ==
  \A c \in Calls : drafts[c] = EntriesOf(c, PayOf[c], Written(c))

\* Only a call that settled has entries, and the fee leg is left at commit.
EntriesAreOfDone ==
  /\ \A e \in entries : at[e.call] = "done"
  /\ \A c \in Calls : leg[c] = "fee" => Fee(PayOf[c]) > 0
  /\ \A c \in Calls : at[c] = "commit" => leg[c] = IF Fee(PayOf[c]) > 0 THEN "fee" ELSE "gross"

\* Accounts a second lookup may not find are those it has not come to.
LookupIsTrue(c) ==
  /\ found[c] \subseteq accounts[BookFor(c)]
  /\ at[c] = "create" => Codes \ todo[c] \subseteq accounts[BookFor(c)]
  /\ at[c] = "relook" => Codes \subseteq accounts[BookFor(c)] /\ found[c] = Codes \ todo[c]
  /\ Posting(c) => Codes \subseteq accounts[BookFor(c)]
LookupsAreTrue == \A c \in Calls : LookupIsTrue(c)

\* Two settlements at work at once, on one book or on one payment, keep their
\* locks, views and drafts apart, and provisioning keeps up with the lookups.
Inductive ==
  /\ LocksAreUpdates /\ RowsAreHeld /\ ViewsAreCurrent
  /\ DraftsFollow /\ EntriesAreOfDone /\ LookupsAreTrue

----------------------------------------------------------------------------
(* Safety. *)

\* No update is lost: however settlements and provisioning interleave, every
\* balance is the sum of the entries that name the account (writeEntry; "to
\* prevent lost-update race conditions under concurrent load").
BalancesAreSums ==
  \A b \in Books, code \in Codes :
    balance[b][code] =
      MapThenSumSet(LAMBDA e : e.amount,
                    {e \in entries : BookOf[e.payment] = b /\ code \in {e.debit, e.credit}})

\* A COMPLETED row and its entries come together or not at all: the row of a
\* payment is COMPLETED exactly if some call wrote its gross entry, and a call
\* has all the entries of its settlement or none (settlePayment is "Atomic").
AllOrNothing ==
  /\ \A p \in Payments : p \in completed <=> \E e \in entries : e.payment = p
  /\ \A e \in entries : \A l \in LegsOf(e.payment) :
       Entry(e.call, e.payment, l) \in entries

\* "This ensures the trial balance always zeros out" (ledger.service.ts): what the
\* accounts with a debit balance hold is what those with a credit balance hold.
\* It does not hold: the fee is taken out of the liability (DR) and raises it.
TrialBalance ==
  \A b \in Books :
    balance[b]["asset"] = balance[b]["liability"] + balance[b]["revenue"]

\* The platform never takes more than its rate of what came in, although every
\* fee is rounded on its own.
FeesWithinRate ==
  \A b \in Books : balance[b]["revenue"] * 10000 <= balance[b]["asset"] * FeeBps

\* An account is never moved before it exists: an UPDATE of an account that is
\* not there would touch no row and lose the amount silently.
NoMissingAccount ==
  \A b \in Books, code \in Codes : balance[b][code] > 0 => code \in accounts[b]

\* A settlement never gives up for want of accounts: after ensureWalletAccounts
\* the second lookup finds all three (the throw in settlePaymentWithTx).
SecondLookupSucceeds ==
  \A c \in Calls : at[c] = "relook" /\ todo[c] = {} => found[c] = Codes

\* Seen from outside, a settlement is one step of LedgerBook.
Book == INSTANCE LedgerBook
ImplementsBook == Book!BookSpec

----------------------------------------------------------------------------
(* Liveness. *)

\* The locks never deadlock: as long as the pool has a connection more than
\* there are settlements, every settlement ends by itself.
EverySettlementEnds ==
  \A c \in Calls : at[c] = "open" ~> at[c] \in {"done", "failed"}

=============================================================================
