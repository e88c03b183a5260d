--------------------------- MODULE MCWithdrawals ---------------------------
(***************************************************************************)
(* Small instances of Withdrawals.                                         *)
(***************************************************************************)
EXTENDS Withdrawals, TLC

CONSTANTS k1, j1, j2, c1, s1

OneAmount == k1 :> 1
=============================================================================
