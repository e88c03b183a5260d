-------------------------- MODULE MCLeaderElection --------------------------
(***************************************************************************)
(* LeaderElection as the backend deploys it: two listener services in each *)
(* process, configured for one chain.                                      *)
(***************************************************************************)
EXTENDS LeaderElection

CONSTANTS event1, payment1, event2, payment2, A, B

\* BlockchainListenerService and PaymentListenerService of two replicas.
OneIdentityEach == [l \in Listeners |-> IF l \in {event1, payment1} THEN A ELSE B]
=============================================================================
