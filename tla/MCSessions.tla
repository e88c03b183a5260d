----------------------------- MODULE MCSessions -----------------------------
(***************************************************************************)
(* A small instance of Sessions: a tab with two requests next to a tab     *)
(* with one, for each mix of requests that meet.                           *)
(***************************************************************************)
EXTENDS Sessions

CONSTANTS t1, t2, r1, r2, r3

TwoAndOne == [r \in Requests |-> IF r = r3 THEN t2 ELSE t1]

Mix(a, b, c) == [r \in Requests |-> CASE r = r1 -> a [] r = r2 -> b [] r = r3 -> c]

\* The queue of one tab; the refreshes of two; a logout among them; a login, or
\* a mistyped password, after the tab was sent to the login page.
FewMixes ==
  { Mix("api", "api", "ai"), Mix("logout", "login", "api"), Mix("api", "login", "api"),
    Mix("api", "mistyped", "logout"), Mix("api", "ai", "mistyped") }
=============================================================================
