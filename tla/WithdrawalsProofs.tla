-------------------------- MODULE WithdrawalsProofs --------------------------
(***************************************************************************)
(* Theorems about Withdrawals, for every set of keys, jobs and calls, both *)
(* providers and any number of faults.                                     *)
(***************************************************************************)
EXTENDS Withdrawals, TLAPS

Reported == dlq \union alerted \union unreported

\* Where a job is in the queue and where its handler is agree, and a job is
\* reported exactly from the moment its report is made or lost.
Placed ==
  /\ \A j \in Jobs :
       /\ (job[j].state = "active") <=> (at[j] \in Busy)
       /\ at[j] = "report" => job[j].state = "failed"
       /\ job[j].state = "none" => job[j].tries = 0
       /\ job[j].state \in {"waiting", "active"} => job[j].tries < MaxAttempts
       /\ job[j].state # "none" => keyOf[j] \in Keys
       /\ at[j] = "report" => job[j].stalls <= MaxStalls
       /\ job[j].stalls > MaxStalls => job[j].state = "failed"
       /\ (job[j].state = "failed" /\ at[j] # "report" /\ job[j].stalls <= MaxStalls)
            <=> j \in Reported
  /\ \A c \in Calls : at[c] \in {"idle", "check", "transfer"}

\* What the mark protects: one actor at a time pays under the key, and once it
\* has paid it either is about to set the mark or the mark is set.
Protects(k) ==
  /\ \A a, b \in Paying(k) : a = b
  /\ paid[k] \in {0, 1}
  /\ paid[k] = 1 => k \in marks \/ \E a \in Paying(k) : at[a] = "mark"
  /\ k \in marks => Paying(k) = {}

Protected ==
  /\ \A k \in Keys \ unguarded : Protects(k)
  /\ provider = "fireblocks" => \A k \in Keys : paid[k] \in {0, 1}
  /\ \A c \in Calls : at[c] \in Inside => keyOf[c] \in unguarded

\* Whoever is about to set a mark has its answer.
Known ==
  /\ marks \subseteq answered
  /\ \A a \in Actors : at[a] = "mark" => keyOf[a] \in answered

Inductive == TypeOK /\ Placed /\ Protected /\ Known

-----------------------------------------------------------------------------
\* Every step keeps types and places.
LEMMA TypePlacedStep ==
  ASSUME TypeOK, Placed, [Next]_vars
  PROVE  TypeOK' /\ Placed'
<1> USE ProviderAssumption, AmountAssumption, ActorAssumption, BoundAssumption
    DEF TypeOK, Placed, Reported, Actors, Inside, Busy, vars, queueVars, handlerVars, moneyVars, balanceVars, custodyVars
<1>1. ASSUME NEW j \in Jobs, NEW k \in Keys, AdminRetry(j, k) PROVE TypeOK' /\ Placed'
  BY <1>1 DEF AdminRetry
<1>2. ASSUME NEW j \in Jobs, Start(j) PROVE TypeOK' /\ Placed'
  BY <1>2 DEF Start, Goto
<1>3. ASSUME NEW j \in Jobs, Guard(j) PROVE TypeOK' /\ Placed'
  BY <1>3 DEF Guard, Goto, Complete, Paying
<1>4. ASSUME NEW j \in Jobs, GuardErrs(j) PROVE TypeOK' /\ Placed'
  BY <1>4 DEF GuardErrs, Fault, Attempt, Goto, Exhausted
<1>5. ASSUME NEW j \in Jobs, Mark(j) PROVE TypeOK' /\ Placed'
  BY <1>5 DEF Mark, Complete, Goto
<1>6. ASSUME NEW j \in Jobs, MarkErrs(j) PROVE TypeOK' /\ Placed'
  BY <1>6 DEF MarkErrs, Fault, Attempt, Goto, Exhausted
<1>7. ASSUME NEW j \in Jobs, Report(j) PROVE TypeOK' /\ Placed'
  BY <1>7 DEF Report, Goto
<1>8. ASSUME NEW j \in Jobs, ReportErrs(j) PROVE TypeOK' /\ Placed'
  BY <1>8 DEF ReportErrs, Goto, Fault
<1>9. ASSUME NEW j \in Jobs, Alert(j) PROVE TypeOK' /\ Placed'
  BY <1>9 DEF Alert
<1>10. ASSUME NEW c \in Calls, NEW k \in Keys, Call(c, k) PROVE TypeOK' /\ Placed'
  BY <1>10 DEF Call, Goto
<1>11. ASSUME NEW a \in Actors, Check(a) PROVE TypeOK' /\ Placed'
  BY <1>11 DEF Check, Goto, Throw, Attempt, Exhausted, Affordable
<1>12. ASSUME NEW a \in Actors, Transfer(a) PROVE TypeOK' /\ Placed'
  BY <1>12 DEF Transfer, Pay, Duplicate, Answered, Goto
<1>13. ASSUME NEW a \in Actors, TransferErrs(a) PROVE TypeOK' /\ Placed'
  BY <1>13 DEF TransferErrs, Fault, Pay, Duplicate, Answered, Throw, Attempt, Exhausted, Goto
<1>14. ASSUME NEW a \in Actors, TransferUnknown(a) PROVE TypeOK' /\ Placed'
  BY <1>14 DEF TransferUnknown, Throw, Attempt, Exhausted, Goto
<1>15. ASSUME NEW k \in Keys, MarkExpires(k) PROVE TypeOK' /\ Placed'
  BY <1>15 DEF MarkExpires, Fault
<1>16. ASSUME NEW s \in Syncs, SyncRead(s) PROVE TypeOK' /\ Placed'
  BY <1>16 DEF SyncRead
<1>17. ASSUME NEW s \in Syncs, SyncWrite(s) PROVE TypeOK' /\ Placed'
  BY <1>17 DEF SyncWrite
<1>18. CASE Crash
  <2>1. ASSUME NEW j \in Jobs
        PROVE  /\ job'[j] \in [state : {"none", "waiting", "active", "done", "failed"},
                               tries : 0 .. MaxAttempts, stalls : 0 .. MaxStalls + 1]
               /\ job[j].state # "active" => job'[j] = job[j]
               /\ job[j].state = "active" =>
                    /\ job'[j].tries = job[j].tries
                    /\ IF job[j].stalls < MaxStalls
                       THEN job'[j].state = "waiting" /\ job'[j].stalls <= MaxStalls
                       ELSE job'[j].state = "failed" /\ job'[j].stalls > MaxStalls
    <3>1. job[j].state = "active" => job[j].stalls \in 0 .. MaxStalls
      OBVIOUS
    <3>2. job[j] \in [state : {"none", "waiting", "active", "done", "failed"},
                      tries : 0 .. MaxAttempts, stalls : 0 .. MaxStalls + 1]
      OBVIOUS
    <3>3. job'[j] = IF job[j].state = "active" THEN Stall(j) ELSE job[j]
      BY <1>18 DEF Crash
    <3> HIDE DEF TypeOK, Placed
    <3>4. CASE job[j].state # "active"
      BY <3>2, <3>3, <3>4
    <3>5. CASE job[j].state = "active" /\ job[j].stalls < MaxStalls
      <4>1. Stall(j) = [state |-> "waiting", tries |-> job[j].tries, stalls |-> job[j].stalls + 1]
        BY <3>2, <3>5 DEF Stall
      <4>2. job[j].tries \in 0 .. MaxAttempts /\ job[j].stalls + 1 \in 0 .. MaxStalls + 1
        BY <3>1, <3>2, <3>5
      <4> QED
        BY <3>1, <3>3, <3>5, <4>1, <4>2
    <3>6. CASE job[j].state = "active" /\ ~(job[j].stalls < MaxStalls)
      <4>1. Stall(j) = [state |-> "failed", tries |-> job[j].tries, stalls |-> job[j].stalls + 1]
        BY <3>2, <3>6 DEF Stall
      <4>2. job[j].tries \in 0 .. MaxAttempts /\ job[j].stalls + 1 \in 0 .. MaxStalls + 1
        BY <3>1, <3>2, <3>6
      <4> QED
        BY <3>1, <3>3, <3>6, <4>1, <4>2
    <3> QED
      BY <3>4, <3>5, <3>6
  <2>2. TypeOK'
    BY <1>18, <2>1 DEF Crash, Fault
  <2>3. Placed'
    BY <1>18, <2>1 DEF Crash
  <2> QED
    BY <2>2, <2>3
<1>19. CASE Deposit
  BY <1>19 DEF Deposit
<1>20. CASE UNCHANGED vars
  BY <1>20 DEF Paying
<1> QED
  BY <1>1, <1>2, <1>3, <1>4, <1>5, <1>6, <1>7, <1>8, <1>9, <1>10, <1>11, <1>12, <1>13, <1>14, <1>15, <1>16, <1>17, <1>18, <1>19, <1>20 DEF Next

\* No mark without an answer.
LEMMA KnownStep ==
  ASSUME TypeOK, Placed, Known, [Next]_vars
  PROVE  Known'
<1> USE ProviderAssumption, AmountAssumption, ActorAssumption, BoundAssumption
    DEF TypeOK, Placed, Known, Actors, Inside, Busy, vars, queueVars, handlerVars, moneyVars, balanceVars, custodyVars
<1>1. ASSUME NEW j \in Jobs, NEW k \in Keys, AdminRetry(j, k) PROVE Known'
  BY <1>1 DEF AdminRetry
<1>2. ASSUME NEW j \in Jobs, Start(j) PROVE Known'
  BY <1>2 DEF Start, Goto
<1>3. ASSUME NEW j \in Jobs, Guard(j) PROVE Known'
  BY <1>3 DEF Guard, Goto, Complete, Paying
<1>4. ASSUME NEW j \in Jobs, GuardErrs(j) PROVE Known'
  BY <1>4 DEF GuardErrs, Fault, Attempt, Goto, Exhausted
<1>5. ASSUME NEW j \in Jobs, Mark(j) PROVE Known'
  BY <1>5 DEF Mark, Complete, Goto
<1>6. ASSUME NEW j \in Jobs, MarkErrs(j) PROVE Known'
  BY <1>6 DEF MarkErrs, Fault, Attempt, Goto, Exhausted
<1>7. ASSUME NEW j \in Jobs, Report(j) PROVE Known'
  BY <1>7 DEF Report, Goto
<1>8. ASSUME NEW j \in Jobs, ReportErrs(j) PROVE Known'
  BY <1>8 DEF ReportErrs, Goto, Fault
<1>9. ASSUME NEW j \in Jobs, Alert(j) PROVE Known'
  BY <1>9 DEF Alert
<1>10. ASSUME NEW c \in Calls, NEW k \in Keys, Call(c, k) PROVE Known'
  BY <1>10 DEF Call, Goto
<1>11. ASSUME NEW a \in Actors, Check(a) PROVE Known'
  BY <1>11 DEF Check, Goto, Throw, Attempt, Exhausted, Affordable
<1>12. ASSUME NEW a \in Actors, Transfer(a) PROVE Known'
  BY <1>12 DEF Transfer, Pay, Duplicate, Answered, Goto
<1>13. ASSUME NEW a \in Actors, TransferErrs(a) PROVE Known'
  BY <1>13 DEF TransferErrs, Fault, Pay, Duplicate, Answered, Throw, Attempt, Exhausted, Goto
<1>14. ASSUME NEW a \in Actors, TransferUnknown(a) PROVE Known'
  BY <1>14 DEF TransferUnknown, Throw, Attempt, Exhausted, Goto
<1>15. ASSUME NEW k \in Keys, MarkExpires(k) PROVE Known'
  BY <1>15 DEF MarkExpires, Fault
<1>16. ASSUME NEW s \in Syncs, SyncRead(s) PROVE Known'
  BY <1>16 DEF SyncRead
<1>17. ASSUME NEW s \in Syncs, SyncWrite(s) PROVE Known'
  BY <1>17 DEF SyncWrite
<1>18. CASE Crash
  BY <1>18 DEF Crash, Fault
<1>19. CASE Deposit
  BY <1>19 DEF Deposit
<1>20. CASE UNCHANGED vars
  BY <1>20 DEF Paying
<1> QED
  BY <1>1, <1>2, <1>3, <1>4, <1>5, <1>6, <1>7, <1>8, <1>9, <1>10, <1>11, <1>12, <1>13, <1>14, <1>15, <1>16, <1>17, <1>18, <1>19, <1>20 DEF Next

\* Every step keeps the protection of the keys that still have it.
LEMMA ProtectedStep ==
  ASSUME TypeOK, Placed, Protected, [Next]_vars
  PROVE  Protected'
<1> USE ProviderAssumption, AmountAssumption, ActorAssumption, BoundAssumption
    DEF TypeOK, Placed, Protected, Protects, Paying, Actors, Inside, Busy, vars, queueVars, handlerVars, moneyVars, balanceVars, custodyVars
<1>1. ASSUME NEW j \in Jobs, NEW k \in Keys, AdminRetry(j, k) PROVE Protected'
  BY <1>1 DEF AdminRetry
<1>2. ASSUME NEW j \in Jobs, Start(j) PROVE Protected'
  BY <1>2 DEF Start, Goto
<1>3. ASSUME NEW j \in Jobs, Guard(j) PROVE Protected'
  BY <1>3 DEF Guard, Goto, Complete, Paying
<1>4. ASSUME NEW j \in Jobs, GuardErrs(j) PROVE Protected'
  BY <1>4 DEF GuardErrs, Fault, Attempt, Goto, Exhausted
<1>5. ASSUME NEW j \in Jobs, Mark(j) PROVE Protected'
  BY <1>5 DEF Mark, Complete, Goto
<1>6. ASSUME NEW j \in Jobs, MarkErrs(j) PROVE Protected'
  BY <1>6 DEF MarkErrs, Fault, Attempt, Goto, Exhausted
<1>7. ASSUME NEW j \in Jobs, Report(j) PROVE Protected'
  BY <1>7 DEF Report, Goto
<1>8. ASSUME NEW j \in Jobs, ReportErrs(j) PROVE Protected'
  BY <1>8 DEF ReportErrs, Goto, Fault
<1>9. ASSUME NEW j \in Jobs, Alert(j) PROVE Protected'
  BY <1>9 DEF Alert
<1>10. ASSUME NEW c \in Calls, NEW k \in Keys, Call(c, k) PROVE Protected'
  BY <1>10 DEF Call, Goto
<1>11. ASSUME NEW a \in Actors, Check(a) PROVE Protected'
  BY <1>11 DEF Check, Goto, Throw, Attempt, Exhausted, Affordable
<1>12. ASSUME NEW a \in Actors, Transfer(a) PROVE Protected'
  BY <1>12 DEF Transfer, Pay, Duplicate, Answered, Goto
<1>13. ASSUME NEW a \in Actors, TransferErrs(a) PROVE Protected'
  BY <1>13 DEF TransferErrs, Fault, Pay, Duplicate, Answered, Throw, Attempt, Exhausted, Goto
<1>14. ASSUME NEW a \in Actors, TransferUnknown(a) PROVE Protected'
  BY <1>14 DEF TransferUnknown, Throw, Attempt, Exhausted, Goto
<1>15. ASSUME NEW k \in Keys, MarkExpires(k) PROVE Protected'
  BY <1>15 DEF MarkExpires, Fault
<1>16. ASSUME NEW s \in Syncs, SyncRead(s) PROVE Protected'
  BY <1>16 DEF SyncRead
<1>17. ASSUME NEW s \in Syncs, SyncWrite(s) PROVE Protected'
  BY <1>17 DEF SyncWrite
<1>18. CASE Crash
  BY <1>18 DEF Crash, Fault
<1>19. CASE Deposit
  BY <1>19 DEF Deposit
<1>20. CASE UNCHANGED vars
  BY <1>20 DEF Paying
<1> QED
  BY <1>1, <1>2, <1>3, <1>4, <1>5, <1>6, <1>7, <1>8, <1>9, <1>10, <1>11, <1>12, <1>13, <1>14, <1>15, <1>16, <1>17, <1>18, <1>19, <1>20 DEF Next

LEMMA InductiveInit == Init => Inductive
<1> SUFFICES ASSUME Init PROVE Inductive
    OBVIOUS
<1> USE ProviderAssumption, AmountAssumption, ActorAssumption, BoundAssumption
    DEF Init, Actors, Inside, Busy
<1>1. TypeOK
  BY DEF TypeOK
<1>2. Placed
  BY DEF Placed, Reported
<1>3. Protected
  BY DEF Protected, Protects, Paying
<1>4. Known
  BY DEF Known
<1> QED
  BY <1>1, <1>2, <1>3, <1>4 DEF Inductive

\* Types, places and protection are kept for ever.
THEOREM InductiveInvariant == Spec => []Inductive
<1>1. Inductive /\ [Next]_vars => Inductive'
  BY TypePlacedStep, KnownStep, ProtectedStep DEF Inductive
<1> QED
  BY InductiveInit, <1>1, PTL DEF Spec

\* A request pays once behind Fireblocks, and behind the local adapter as long
\* as its mark protects it (withdrawal.worker.ts:82-100, adapters' transfer).
THEOREM RequestsPayOnce == Spec => []PaidOnce
<1>1. Inductive => PaidOnce
  BY ProviderAssumption DEF Inductive, TypeOK, Protected, Protects, PaidOnce
<1> QED
  BY InductiveInvariant, <1>1, PTL

\* No job is turned away for a key the provider has not answered for.
THEOREM MarksAreAnswers == Spec => []MarkedIsAnswered
<1>1. Inductive => MarkedIsAnswered
  BY DEF Inductive, Known, MarkedIsAnswered
<1> QED
  BY InductiveInvariant, <1>1, PTL

\* Dead letters are the jobs that failed for good, lost reports and jobs that
\* stalled too often aside (dlq-publisher.service.ts:56).
THEOREM ReportsAreFailures == Spec => []FailuresAreReported
<1>1. Inductive => FailuresAreReported
  BY DEF Inductive, Placed, Reported, FailuresAreReported
<1> QED
  BY InductiveInvariant, <1>1, PTL
=============================================================================
