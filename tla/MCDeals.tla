------------------------------ MODULE MCDeals -------------------------------
(***************************************************************************)
(* Small instances of Deals.                                               *)
(***************************************************************************)
EXTENDS Deals

CONSTANTS r1, r2, r3
=============================================================================
