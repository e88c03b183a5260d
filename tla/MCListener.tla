----------------------------- MODULE MCListener -----------------------------
(***************************************************************************)
(* Small instances of Listener.                                            *)
(***************************************************************************)
EXTENDS Listener

CONSTANTS l1, l2, t1, A, B

\* Each listener in a process of its own.
Apart == [l \in Listeners |-> IF l = l1 THEN A ELSE B]
=============================================================================
