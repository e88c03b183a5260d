-------------------------- MODULE PaymentLifecycle --------------------------
(***************************************************************************)
(* What the payment rail promises about one payment, without its handlers: *)
(* the status moves along the table of PaymentStateMachine, and only a     *)
(* settlement reaches COMPLETED and credits the ledger.  The promise has   *)
(* one exception, because a status is written by primary key alone: a      *)
(* handler that decided on an outdated status overwrites the current one.  *)
(* Such a write marks the payment as raced for good.                       *)
(***************************************************************************)
EXTENDS Naturals, PaymentStateMachine

CONSTANT Payments

VARIABLES
  status,   \* [Payments -> Status or NONE]
  credits,  \* [Payments -> Nat]: ledger settlements of the payment
  raced     \* [Payments -> BOOLEAN]

lifecycleVars == <<status, credits, raced>>

LifecycleInit ==
  /\ status = [p \in Payments |-> "NONE"]
  /\ credits = [p \in Payments |-> 0]
  /\ raced = [p \in Payments |-> FALSE]

Open(p) ==
  /\ status[p] = "NONE"
  /\ status' = [status EXCEPT ![p] = "PENDING"]
  /\ UNCHANGED <<credits, raced>>

Move(p, to) ==
  /\ <<status[p], to>> \in ValidTransitions /\ to # "COMPLETED"
  /\ status' = [status EXCEPT ![p] = to]
  /\ UNCHANGED <<credits, raced>>

\* From CONFIRMING, or from PENDING through CONFIRMING in one transaction.
Settle(p) ==
  /\ status[p] \in {"PENDING", "CONFIRMING"}
  /\ status' = [status EXCEPT ![p] = "COMPLETED"]
  /\ credits' = [credits EXCEPT ![p] = @ + 1]
  /\ UNCHANGED raced

\* The exception: a write decided on an outdated status.  It still credits the
\* ledger exactly when it writes COMPLETED, and never invents a refund.
Overwrite(p, to) ==
  /\ status[p] # "NONE"
  /\ to = "REFUNDED" => credits[p] > 0
  /\ status' = [status EXCEPT ![p] = to]
  /\ credits' = [credits EXCEPT ![p] = IF to = "COMPLETED" THEN @ + 1 ELSE @]
  /\ raced' = [raced EXCEPT ![p] = TRUE]

LifecycleNext ==
  \E p \in Payments :
    \/ Open(p) \/ Settle(p)
    \/ \E to \in Status : Move(p, to) \/ Overwrite(p, to)

LifecycleSpec == LifecycleInit /\ [][LifecycleNext]_lifecycleVars

=============================================================================
