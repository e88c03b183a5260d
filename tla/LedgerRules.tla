---------------------------- MODULE LedgerRules ----------------------------
(***************************************************************************)
(* The chart of accounts and the arithmetic of a settlement                *)
(* (ledger.service.ts): which accounts each of its two entries touches and *)
(* by how much.  A book is the chart of one tenant on one chain; amounts   *)
(* are in the smallest unit of USDC, six decimals, so that rounding down   *)
(* to six decimals is integer division.                                    *)
(***************************************************************************)
EXTENDS Integers

CONSTANTS
  Payments,
  Books,
  BookOf,    \* [Payments -> Books]: the payment's tenant and chain
  Amount     \* [Payments -> Nat]: amountUsdc

ASSUME PaymentAssumption ==
  BookOf \in [Payments -> Books] /\ Amount \in [Payments -> Nat]

Codes == {"asset", "liability", "revenue"}   \* 1010, 2010, 4010

Legs == {"gross", "fee"}

FeeBps == 50

Fee(p) == (Amount[p] * FeeBps) \div 10000

DebitOf(leg) == IF leg = "gross" THEN "asset" ELSE "liability"
CreditOf(leg) == IF leg = "gross" THEN "liability" ELSE "revenue"
LegAmount(p, leg) == IF leg = "gross" THEN Amount[p] ELSE Fee(p)

\* A fee that rounds to nothing has no entry.
LegsOf(p) == IF Fee(p) > 0 THEN Legs ELSE {"gross"}

\* The row of ledger_entries that the call writes for one leg.
Entry(call, p, leg) ==
  [call |-> call, payment |-> p, leg |-> leg,
   debit |-> DebitOf(leg), credit |-> CreditOf(leg), amount |-> LegAmount(p, leg)]

EntriesOf(call, p, legs) == {Entry(call, p, l) : l \in legs}

\* What a settlement of p adds to each account.
Moved(p, code) ==
  CASE code = "asset" -> Amount[p]
    [] code = "liability" -> Amount[p] + Fee(p)
    [] OTHER -> Fee(p)
=============================================================================
