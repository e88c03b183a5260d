------------------------ MODULE PaymentStateMachine ------------------------
(***************************************************************************)
(* The transition table every payment handler consults before it writes   *)
(* a status (payment-state-machine.ts).  The table is pure: it is asked    *)
(* about a status the handler READ, never about the row it will write.     *)
(***************************************************************************)

\* enum PaymentStatus of the database schema.
Status ==
  {"PENDING", "PARTIAL", "CONFIRMING", "COMPLETED", "FAILED", "REFUNDED",
   "EXPIRED"}

\* VALID_TRANSITIONS, as pairs <<from, to>>.
ValidTransitions ==
  ({"PENDING"} \X {"PARTIAL", "CONFIRMING", "EXPIRED", "FAILED"})
    \union ({"PARTIAL"} \X {"CONFIRMING", "EXPIRED", "FAILED"})
    \union ({"CONFIRMING"} \X {"COMPLETED", "FAILED"})
    \union {<<"COMPLETED", "REFUNDED">>}

\* TERMINAL_STATES.  COMPLETED is listed although it can still be refunded.
TerminalStates == {"COMPLETED", "FAILED", "REFUNDED", "EXPIRED"}

\* Mutant: only the target is looked up.
MutCanTransition(from, to) == \E s \in Status : <<s, to>> \in ValidTransitions

\* assertTransition: it returns normally exactly when this holds.
CanTransition(from, to) == from = to \/ <<from, to>> \in ValidTransitions

IsTerminal(status) == status \in TerminalStates

CanAcceptDeposit(status) == status \in {"PENDING", "PARTIAL"}

=============================================================================
