---------------------------- MODULE MCAiRequests ----------------------------
(***************************************************************************)
(* A small instance of AiRequests: two requests, of one user or of two, on *)
(* one replica or on two, with one key or two.                             *)
(***************************************************************************)
EXTENDS AiRequests, TLC

CONSTANTS r1, r2, u1, u2, A, B

Form(u, p, k, kind) == [user |-> u, replica |-> p, key |-> k, kind |-> kind]
Pairs ==
  LET Pair(a, b) == r1 :> a @@ r2 :> b IN
  {Pair(Form(u1, A, "x", "copilot"), Form(u1, B, "y", "agent")),
   Pair(Form(u1, A, "x", "copilot"), Form(u2, A, "y", "agent")),
   Pair(Form(u1, A, "x", "query"), Form(u1, A, "x", "query")),
   Pair(Form(u2, A, "x", "copilot"), Form(u2, B, "y", "query"))}

Tiers == u1 :> 2 @@ u2 :> 1
=============================================================================
