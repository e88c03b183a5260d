----------------------------- MODULE MCPayments -----------------------------
(***************************************************************************)
(* Small instances of Payments: two intents of five that wait on the same  *)
(* deposit address, transfers that pay in full, short or in parts.         *)
(***************************************************************************)
EXTENDS Payments, TLC

CONSTANTS p1, p2, h1, h2, h3, j1, j2

OneWallet == [p \in Payments |-> "w"]
AmountOf5 == [p \in Payments |-> 5]

\* A payment in full and one that is short: 4 would do.
Full == [tx |-> h1, at |-> 1, to |-> "w", value |-> 5]
Short(h, amount) == [tx |-> h, at |-> 2, to |-> "w", value |-> amount]

\* One transaction with both, or each in a transaction of its own.
FullAndShort == {Full, Short(h1, 1)}
FullThenShort == {Full, Short(h2, 3)}
JobsFullAndShort == [j \in Jobs |-> IF j = j2 THEN Short(h1, 1) ELSE Full]
JobsFullThenShort == [j \in Jobs |-> IF j = j2 THEN Short(h2, 3) ELSE Full]

\* Parts that pay an intent only together.
Part(h, position, amount) == [tx |-> h, at |-> position, to |-> "w", value |-> amount]
Parts == {Part(h1, 1, 3), Part(h2, 2, 2), Part(h3, 3, 1)}
NoJobs == [j \in Jobs |-> Full]

\* The two intents are alike.
AnyOrder == Permutations(Payments)
=============================================================================
