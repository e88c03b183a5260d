--------------------------- MODULE CircuitBreaker ---------------------------
(***************************************************************************)
(* CircuitBreakerService: one circuit whose record and failures live in    *)
(* Redis and are shared by all replicas.  The steps are those of           *)
(* execute(); a caller runs them between awaits of its own, so that what   *)
(* one caller read may be overtaken by what another writes.                *)
(*                                                                         *)
(* Of time the model keeps whether an open circuit has been open for       *)
(* openDurationMs ("cooled") and that failures leave the window.           *)
(***************************************************************************)
EXTENDS Naturals

CONSTANT Threshold  \* failureThreshold of the circuit

ASSUME ThresholdAssumption == Threshold \in Nat \ {0}

VARIABLES
  circuit,   \* state of the record; CLOSED also when there is none
  cooled,    \* the record's openedAt is older than openDurationMs
  failures   \* failures in the window, counted up to the threshold

circuitVars == <<circuit, cooled, failures>>

CircuitTypeOK ==
  /\ circuit \in {"CLOSED", "OPEN", "HALF_OPEN"} /\ cooled \in BOOLEAN
  /\ failures \in 0 .. Threshold

CircuitInit == circuit = "CLOSED" /\ cooled = FALSE /\ failures = 0

\* getState() turns a call away, or has it write HALF_OPEN first.
FastFails == circuit = "OPEN" /\ ~cooled
WantsProbe == circuit = "OPEN" /\ cooled

\* The write overtakes whatever happened to the record since it was read.
WriteHalfOpen == circuit' = "HALF_OPEN" /\ cooled' = TRUE /\ UNCHANGED failures

\* onSuccess() of a call that was let through half open, in two steps.
DeleteRecord == circuit' = "CLOSED" /\ cooled' = FALSE /\ UNCHANGED failures
DeleteFailures == failures' = 0 /\ UNCHANGED <<circuit, cooled>>

\* onFailure(): the failure is counted, and the circuit opened if that was one
\* too many.
TripsNow == failures + 1 >= Threshold
CountFailure ==
  /\ failures' = IF TripsNow THEN Threshold ELSE failures + 1
  /\ UNCHANGED <<circuit, cooled>>
WriteOpen == circuit' = "OPEN" /\ cooled' = FALSE /\ UNCHANGED failures

\* Time passes: the open circuit may be probed, a failure leaves the window,
\* the record reaches the end of its time to live, twice or three times
\* openDurationMs.
Cool ==
  /\ circuit = "OPEN" /\ ~cooled
  /\ cooled' = TRUE /\ UNCHANGED <<circuit, failures>>
FailureLeaves ==
  /\ failures > 0
  /\ failures' = failures - 1 /\ UNCHANGED <<circuit, cooled>>
RecordExpires == circuit # "CLOSED" /\ cooled /\ DeleteRecord

CircuitTime == Cool \/ FailureLeaves \/ RecordExpires
=============================================================================
