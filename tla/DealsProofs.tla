---------------------------- MODULE DealsProofs -----------------------------
(***************************************************************************)
(* Safety of Deals and Notary for any number of calls, attempts, stalls    *)
(* and failures.                                                           *)
(*                                                                         *)
(* Two chains of facts carry the results.  Marked: whoever is about to     *)
(* write has a copy that allows it, so a row that differs from the copy is *)
(* the only way to overrule a win.  InLine: the row is PENDING with the    *)
(* job's hash from the upsert on, so the transaction that is mined last    *)
(* and the row carry the same hash when the row is confirmed.              *)
(***************************************************************************)
EXTENDS Deals, SequenceTheorems, TLAPS

\* What was asked for fits the place the call is at, and the copy of a call
\* that is about to write allows the write.
Placed ==
  \A r \in Requests :
    /\ at[r] \in {"first", "write"} => target[r] \in Stages
    /\ at[r] = "amend" => target[r] \in Statuses
    /\ at[r] = "write" => CanMove(seen[r].status, target[r])
    /\ at[r] = "erase" => seen[r].status # "WON"

\* A trace of a win, in the history or on its way to the chain.
Trace ==
  \/ \E h \in history : h.to = Won /\ h.from # NoStage
  \/ \E r \in Requests : at[r] = "register"
  \/ job.state # "none" \/ record.status # "none"
Marked == (Trace /\ ~raced /\ ~reopened) =>
            deal.status = "WON" /\ deal.kept = "yes"

\* A stage is never NoStage once the row is there.
Staged ==
  /\ deal.kept # "no" => deal.stage \in Stages
  /\ \A r \in Requests : seen[r].kept # "no" => seen[r].stage \in Stages

LastSent == mempool # <<>> /\ mempool[Len(mempool)] = job.hash
InLine ==
  /\ worker # "idle" => job.state = "active" /\ job.hash \in Hashes
  /\ worker \in {"submit", "wait", "fail"} =>
       record.status = "PENDING" /\ record.hash = job.hash
  /\ (worker = "wait" /\ sent = "pending") => LastSent
  /\ (worker = "wait" /\ sent = "mined") => mempool = <<>> /\ chain = job.hash
  /\ record.status = "CONFIRMED" => mempool = <<>> /\ chain = record.hash
  /\ job.state \in {"waiting",
       "active"} => job.hash \in Hashes /\ job.tries < Attempts
  /\ job.state = "active" => worker # "idle"

\* As long as the row does not have the job's hash the worker has not got past
\* its upsert, and each try and each stall of the job cost a failure.
Owed ==
  record.hash # job.hash =>
    /\ job.state # "done"
    /\ job.tries + job.stalls <= faults
    /\ job.state = "failed" => GivenUp

\* Hashes are those of calls that have ended, and there is one exactly where
\* there is a job or a row.
Fresh ==
  /\ job.state = "none" <=> job.hash = NoHash
  /\ record.status = "none" <=> record.hash = NoHash
  /\ job.state = "none" => job.tries = 0 /\ job.stalls = 0
  /\ \A r \in Requests : r \in {job.hash, record.hash} => at[r] = "done"

\* Two wins that both go for a registration have been told apart by a write
\* over a row that was not read or by an update that reopened the deal.
Claims(r) == at[r] = "register" \/ r \in {job.hash, record.hash}
Single ==
  (~raced /\ ~reopened) =>
    \A r, q \in Requests : Claims(r) /\ Claims(q) => r = q

Inductive ==
  /\ TypeOK /\ Placed /\ Staged /\ Marked /\ InLine
  /\ Fresh /\ Single /\ Owed /\ WinsAreRegistered

-----------------------------------------------------------------------------
\* Adding, failing and stalling keep the job a job.
LEMMA JobThrown ==
  ASSUME job \in JobRows, job.tries \in 0 .. Attempts - 1, Thrown
  PROVE  job' \in JobRows
PROOF
<1>1. job.tries + 1 \in 0 .. Attempts
  BY NotaryBounds
<1>2. job' = [state |-> job'.state, hash |-> job.hash, tries |-> job.tries + 1,
              stalls |-> job.stalls]
  BY DEF Thrown, JobRows
<1>3. job'.state \in {"waiting", "failed"}
  BY DEF Thrown, JobRows
<1> QED
  BY <1>1, <1>2, <1>3 DEF JobRows

LEMMA JobStalled ==
  ASSUME job \in JobRows, WorkerDies
  PROVE  job' \in JobRows
PROOF
<1>1. CASE job.stalls < MaxStalls
  <2>1. job.stalls + 1 \in 0 .. MaxStalls
    BY <1>1, NotaryBounds DEF JobRows
  <2>2. job' = [state |-> "waiting", hash |-> job.hash, tries |-> job.tries,
                stalls |-> job.stalls + 1]
    BY <1>1 DEF WorkerDies, JobRows
  <2> QED
    BY <2>1, <2>2 DEF JobRows
<1>2. CASE ~(job.stalls < MaxStalls)
  BY <1>2 DEF WorkerDies, JobRows
<1> QED
  BY <1>1, <1>2

LEMMA JobAdded ==
  ASSUME job \in JobRows, NEW h \in Hashes, AddJob(h)
  PROVE  job' \in JobRows
PROOF
<1>1. CASE job.state = "none"
  <2>1. job' = [state |-> "waiting", hash |-> h, tries |-> 0, stalls |-> 0]
    BY <1>1 DEF AddJob, NoJob
  <2> QED
    BY <2>1, NotaryBounds DEF JobRows
<1>2. CASE job.state # "none"
  BY <1>2 DEF AddJob
<1> QED
  BY <1>1, <1>2

\* Adding stores a job of its own or marks the hash.
LEMMA JobStored ==
  ASSUME job \in JobRows, NEW h \in Hashes, AddJob(h)
  PROVE  \/ /\ job.state = "none" /\ fate' = fate
            /\ job' = [state |-> "waiting", hash |-> h, tries |-> 0, stalls |-> 0]
         \/ /\ job.state # "none" /\ job' = job
            /\ fate' = [fate EXCEPT ![h] = "dropped"]
PROOF
<1>1. CASE job.state = "none"
  BY <1>1 DEF AddJob, NoJob
<1>2. CASE job.state # "none"
  BY <1>2 DEF AddJob
<1> QED
  BY <1>1, <1>2

\* What a mined transaction leaves in line.
LEMMA Shift ==
  ASSUME NEW S, NEW q \in Seq(S), q # <<>>
  PROVE  /\ Len(q) > 1 => Tail(q) # <<>> /\ Tail(q)[Len(Tail(q))] = q[Len(q)]
         /\ Len(q) = 1 => Tail(q) = <<>> /\ Head(q) = q[Len(q)]
         /\ Len(q) = 1 \/ Len(q) > 1
PROOF
<1>1. Len(q) \in Nat \ {0}
  BY EmptySeq
<1>2. Len(Tail(q)) = Len(q) - 1
  BY HeadTailProperties, Zenon
<1>3. Tail(q) \in Seq(S)
  BY HeadTailProperties, Zenon
<1>4. \A i \in 1 .. Len(Tail(q)) : Tail(q)[i] = q[i + 1]
  BY HeadTailProperties, Zenon
<1>5. Head(q) = q[1]
  OBVIOUS
<1>6. ASSUME Len(q) > 1
      PROVE  Tail(q) # <<>> /\ Tail(q)[Len(Tail(q))] = q[Len(q)]
  <2>1. Len(Tail(q)) \in 1 .. Len(Tail(q)) /\ Len(Tail(q)) + 1 = Len(q)
    BY <1>1, <1>2, <1>6
  <2>2. ASSUME Tail(q) = <<>>
        PROVE  FALSE
    <3>1. Len(Tail(q)) = 0
      BY <2>2, EmptySeq, Zenon
    <3> QED
      BY <2>1, <3>1, <1>1, <1>2
  <2> QED
    BY <2>1, <2>2, <1>4
<1>7. ASSUME Len(q) = 1
      PROVE  Tail(q) = <<>> /\ Head(q) = q[Len(q)]
  <2>1. Len(Tail(q)) = 0
    BY <1>2, <1>7
  <2>2. Tail(q) = <<>>
    BY <2>1, <1>3, EmptySeq
  <2> QED
    BY <2>2, <1>5, <1>7
<1>8. \A n \in Nat \ {0} : n = 1 \/ n > 1
  OBVIOUS
<1>9. Len(q) = 1 \/ Len(q) > 1
  BY <1>1, <1>8, Zenon
<1> QED
  BY <1>6, <1>7, <1>9

\* Every step keeps the variables in their types.
LEMMA TypesKept ==
  ASSUME TypeOK, Placed, InLine, [Next]_vars
  PROVE  TypeOK'
PROOF
<1> USE NotaryBounds, HashAssumption, RequestAssumption, StageAssumption,
       AskedAssumption DEF TypeOK, NotaryTypeOK, JobRows, Rows, Stages,
       Statuses, Decided, Unborn, Placed, InLine, vars, notaryVars, callVars,
       rowVars
<1>1. ASSUME NEW r \in Requests, NEW s \in Stages, Create(r, s)
      PROVE  TypeOK'
  BY <1>1 DEF Create, Goto
<1>2. ASSUME NEW r \in Requests, NEW s \in Stages, LoadMove(r, s)
      PROVE  TypeOK'
  BY <1>2 DEF LoadMove, Load, Goto, CanMove, Exists
<1>3. ASSUME NEW r \in Requests, NEW s \in Asked, LoadUpdate(r, s)
      PROVE  TypeOK'
  BY <1>3 DEF LoadUpdate, Load, Goto, Exists
<1>4. ASSUME NEW r \in Requests, LoadDelete(r)
      PROVE  TypeOK'
  BY <1>4 DEF LoadDelete, Load, Goto, Exists
<1>5. ASSUME NEW r \in Requests, RecordFirst(r)
      PROVE  TypeOK'
  BY <1>5 DEF RecordFirst, Forward, Goto, Recorded, Exists
<1>6. ASSUME NEW r \in Requests, Write(r)
      PROVE  TypeOK'
  <2>1. target[r] \in Stages
    BY <1>6 DEF Write
  <2>2. deal' \in Rows
    BY <1>6, <2>1 DEF Write, Written
  <2>3. seen[r].stage \in Stages \union {NoStage}
    BY <1>6
  <2>4. history' \subseteq [from : Stages \union {NoStage}, to : Stages,
       by : Requests]
    BY <1>6, <2>1, <2>3 DEF Write, Recorded
  <2> QED
    BY <1>6, <2>2, <2>4 DEF Write, Forward, Goto
<1>7. ASSUME NEW r \in Requests, Register(r)
      PROVE  TypeOK'
  <2>1. job' \in JobRows
    BY <1>7, JobAdded DEF Register
  <2>2. fate' = fate \/ fate' = [fate EXCEPT ![r] = "dropped"]
    BY <1>7, JobStored DEF Register
  <2>3. fate' \in [Hashes -> {"none", "unqueued", "dropped", "abandoned",
       "replaced"}]
    BY <2>2
  <2>4. NotaryTypeOK'
    BY <1>7, <2>1, <2>3 DEF Register
  <2>5. at' = [at EXCEPT ![r] = "done"] /\ seen' = [seen EXCEPT ![r] = Unborn]
        /\ target' = [target EXCEPT ![r] = NoStage]
    BY <1>7 DEF Register, Forward, Goto
  <2> QED
    BY <1>7, <2>4, <2>5 DEF Register
<1>8. ASSUME NEW r \in Requests, RegisterErrs(r)
      PROVE  TypeOK'
  BY <1>8 DEF RegisterErrs, Forward, Goto, Fault
<1>9. ASSUME NEW r \in Requests, Amend(r)
      PROVE  TypeOK'
  BY <1>9 DEF Amend, Forward, Goto, Exists
<1>10. ASSUME NEW r \in Requests, Erase(r)
      PROVE  TypeOK'
  BY <1>10 DEF Erase, Forward, Goto, Exists
<1>11. ASSUME NEW r \in Requests, TooLate(r)
      PROVE  TypeOK'
  BY <1>11 DEF TooLate, Forward, Goto
<1>12. ASSUME NEW S \in SUBSET Underway, Crash(S)
      PROVE  TypeOK'
  BY <1>12 DEF Crash, Fault, Underway
<1>13. ASSUME Take, UNCHANGED <<callVars, rowVars>>
      PROVE  TypeOK'
  BY <1>13 DEF Take
<1>14. ASSUME Upsert, UNCHANGED <<callVars, rowVars>>
      PROVE  TypeOK'
  <2>1. job.hash \in Hashes
    BY <1>14 DEF Upsert
  <2>2. fate' = fate \/ fate' = [fate EXCEPT ![record.hash] = "replaced"]
    BY <1>14 DEF Upsert
  <2>3. fate' \in [Hashes -> {"none", "unqueued", "dropped", "abandoned",
       "replaced"}]
    BY <2>2
  <2> QED
    BY <1>14, <2>1, <2>3 DEF Upsert
<1>15. ASSUME UpsertErrs, UNCHANGED <<callVars, rowVars>>
      PROVE  TypeOK'
  <2>1. job.state = "active" /\ job.tries \in 0 .. Attempts - 1
    BY <1>15 DEF UpsertErrs
  <2>2. job' \in JobRows
    BY <1>15, <2>1, JobThrown DEF UpsertErrs
  <2> QED
    BY <1>15, <2>2 DEF UpsertErrs, Fault
<1>16. ASSUME Skip, UNCHANGED <<callVars, rowVars>>
      PROVE  TypeOK'
  BY <1>16 DEF Skip
<1>17. ASSUME Submit, UNCHANGED <<callVars, rowVars>>
      PROVE  TypeOK'
  BY <1>17 DEF Submit
<1>18. ASSUME SubmitErrs, UNCHANGED <<callVars, rowVars>>
      PROVE  TypeOK'
  BY <1>18 DEF SubmitErrs, Fault
<1>19. ASSUME Mine, UNCHANGED <<callVars, rowVars>>
      PROVE  TypeOK'
  BY <1>19 DEF Mine, LastInLine
<1>20. ASSUME Revert, UNCHANGED <<callVars, rowVars>>
      PROVE  TypeOK'
  BY <1>20 DEF Revert, Fault, LastInLine
<1>21. ASSUME Drop, UNCHANGED <<callVars, rowVars>>
      PROVE  TypeOK'
  BY <1>21 DEF Drop, Fault
<1>22. ASSUME Confirm, UNCHANGED <<callVars, rowVars>>
      PROVE  TypeOK'
  BY <1>22 DEF Confirm, Confirmed
<1>23. ASSUME ConfirmErrs, UNCHANGED <<callVars, rowVars>>
      PROVE  TypeOK'
  BY <1>23 DEF ConfirmErrs, Confirmed, Fault
<1>24. ASSUME GiveUp, UNCHANGED <<callVars, rowVars>>
      PROVE  TypeOK'
  BY <1>24 DEF GiveUp
<1>25. ASSUME Fail, UNCHANGED <<callVars, rowVars>>
      PROVE  TypeOK'
  <2>1. job.state = "active" /\ job.tries \in 0 .. Attempts - 1
    BY <1>25 DEF Fail
  <2>2. job' \in JobRows
    BY <1>25, <2>1, JobThrown DEF Fail
  <2> QED
    BY <1>25, <2>2 DEF Fail
<1>26. ASSUME FailErrs, UNCHANGED <<callVars, rowVars>>
      PROVE  TypeOK'
  <2>1. job.state = "active" /\ job.tries \in 0 .. Attempts - 1
    BY <1>26 DEF FailErrs
  <2>2. job' \in JobRows
    BY <1>26, <2>1, JobThrown DEF FailErrs
  <2> QED
    BY <1>26, <2>2 DEF FailErrs, Fault
<1>27. ASSUME WorkerDies, UNCHANGED <<callVars, rowVars>>
      PROVE  TypeOK'
  <2>1. job' \in JobRows
    BY <1>27, JobStalled
  <2> QED
    BY <1>27, <2>1 DEF WorkerDies, Fault
<1>28. ASSUME Forget, UNCHANGED <<callVars, rowVars>>
      PROVE  TypeOK'
  <2>1. fate' = fate \/ fate' = [fate EXCEPT ![job.hash] = "abandoned"]
    BY <1>28 DEF Forget
  <2>2. fate' \in [Hashes -> {"none", "unqueued", "dropped", "abandoned",
       "replaced"}]
    BY <2>1
  <2>3. job' \in JobRows
    BY <1>28 DEF Forget, NoJob
  <2> QED
    BY <1>28, <2>2, <2>3 DEF Forget
<1>29. CASE UNCHANGED vars
  BY <1>29
<1> QED
  BY <1>1, <1>2, <1>3, <1>4, <1>5, <1>6, <1>7, <1>8, <1>9, <1>10, <1>11,
       <1>12, <1>13, <1>14, <1>15, <1>16, <1>17, <1>18, <1>19, <1>20, <1>21,
       <1>22, <1>23, <1>24, <1>25, <1>26, <1>27, <1>28, <1>29
  DEF Next, Call, Step, Notarise, NotaryNext, Work

\* Every step keeps the copies of the calls that are about to write.
LEMMA PlacesKept ==
  ASSUME TypeOK, Placed, [Next]_vars
  PROVE  Placed'
PROOF
<1> USE NotaryBounds, HashAssumption, RequestAssumption, StageAssumption,
       AskedAssumption DEF TypeOK, NotaryTypeOK, JobRows, Rows, Stages,
       Statuses, Decided, Unborn, Placed, CanMove, vars, notaryVars,
       callVars, rowVars
<1>1. ASSUME NEW r \in Requests, NEW s \in Stages, Create(r, s)
      PROVE  Placed'
  BY <1>1 DEF Create, Goto
<1>2. ASSUME NEW r \in Requests, NEW s \in Stages, LoadMove(r, s)
      PROVE  Placed'
  BY <1>2 DEF LoadMove, Load, Goto, CanMove, Exists
<1>3. ASSUME NEW r \in Requests, NEW s \in Asked, LoadUpdate(r, s)
      PROVE  Placed'
  BY <1>3 DEF LoadUpdate, Load, Goto, Exists
<1>4. ASSUME NEW r \in Requests, LoadDelete(r)
      PROVE  Placed'
  BY <1>4 DEF LoadDelete, Load, Goto, Exists
<1>5. ASSUME NEW r \in Requests, RecordFirst(r)
      PROVE  Placed'
  BY <1>5 DEF RecordFirst, Forward, Goto, Recorded, Exists
<1>6. ASSUME NEW r \in Requests, Write(r)
      PROVE  Placed'
  BY <1>6 DEF Write, Forward, Goto, Recorded, Written, Exists
<1>7. ASSUME NEW r \in Requests, Register(r)
      PROVE  Placed'
  BY <1>7 DEF Register, Forward, Goto, AddJob, NoJob
<1>8. ASSUME NEW r \in Requests, RegisterErrs(r)
      PROVE  Placed'
  BY <1>8 DEF RegisterErrs, Forward, Goto, Fault
<1>9. ASSUME NEW r \in Requests, Amend(r)
      PROVE  Placed'
  BY <1>9 DEF Amend, Forward, Goto, Exists
<1>10. ASSUME NEW r \in Requests, Erase(r)
      PROVE  Placed'
  BY <1>10 DEF Erase, Forward, Goto, Exists
<1>11. ASSUME NEW r \in Requests, TooLate(r)
      PROVE  Placed'
  BY <1>11 DEF TooLate, Forward, Goto
<1>12. ASSUME NEW S \in SUBSET Underway, Crash(S)
      PROVE  Placed'
  BY <1>12 DEF Crash, Fault, Underway
<1>13. ASSUME Take, UNCHANGED <<callVars, rowVars>>
      PROVE  Placed'
  BY <1>13 DEF Take
<1>14. ASSUME Upsert, UNCHANGED <<callVars, rowVars>>
      PROVE  Placed'
  BY <1>14 DEF Upsert
<1>15. ASSUME UpsertErrs, UNCHANGED <<callVars, rowVars>>
      PROVE  Placed'
  BY <1>15 DEF UpsertErrs, Thrown, Fault
<1>16. ASSUME Skip, UNCHANGED <<callVars, rowVars>>
      PROVE  Placed'
  BY <1>16 DEF Skip
<1>17. ASSUME Submit, UNCHANGED <<callVars, rowVars>>
      PROVE  Placed'
  BY <1>17 DEF Submit
<1>18. ASSUME SubmitErrs, UNCHANGED <<callVars, rowVars>>
      PROVE  Placed'
  BY <1>18 DEF SubmitErrs, Fault
<1>19. ASSUME Mine, UNCHANGED <<callVars, rowVars>>
      PROVE  Placed'
  BY <1>19 DEF Mine, LastInLine
<1>20. ASSUME Revert, UNCHANGED <<callVars, rowVars>>
      PROVE  Placed'
  BY <1>20 DEF Revert, Fault, LastInLine
<1>21. ASSUME Drop, UNCHANGED <<callVars, rowVars>>
      PROVE  Placed'
  BY <1>21 DEF Drop, Fault
<1>22. ASSUME Confirm, UNCHANGED <<callVars, rowVars>>
      PROVE  Placed'
  BY <1>22 DEF Confirm, Confirmed
<1>23. ASSUME ConfirmErrs, UNCHANGED <<callVars, rowVars>>
      PROVE  Placed'
  BY <1>23 DEF ConfirmErrs, Confirmed, Fault
<1>24. ASSUME GiveUp, UNCHANGED <<callVars, rowVars>>
      PROVE  Placed'
  BY <1>24 DEF GiveUp
<1>25. ASSUME Fail, UNCHANGED <<callVars, rowVars>>
      PROVE  Placed'
  BY <1>25 DEF Fail, Thrown
<1>26. ASSUME FailErrs, UNCHANGED <<callVars, rowVars>>
      PROVE  Placed'
  BY <1>26 DEF FailErrs, Thrown, Fault
<1>27. ASSUME WorkerDies, UNCHANGED <<callVars, rowVars>>
      PROVE  Placed'
  BY <1>27 DEF WorkerDies, Fault
<1>28. ASSUME Forget, UNCHANGED <<callVars, rowVars>>
      PROVE  Placed'
  BY <1>28 DEF Forget, NoJob
<1>29. CASE UNCHANGED vars
  BY <1>29
<1> QED
  BY <1>1, <1>2, <1>3, <1>4, <1>5, <1>6, <1>7, <1>8, <1>9, <1>10, <1>11,
       <1>12, <1>13, <1>14, <1>15, <1>16, <1>17, <1>18, <1>19, <1>20, <1>21,
       <1>22, <1>23, <1>24, <1>25, <1>26, <1>27, <1>28, <1>29
  DEF Next, Call, Step, Notarise, NotaryNext, Work

\* Every step keeps the deal in a stage.
LEMMA StagesKept ==
  ASSUME TypeOK, Placed, Staged, [Next]_vars
  PROVE  Staged'
PROOF
<1> USE NotaryBounds, HashAssumption, RequestAssumption, StageAssumption,
       AskedAssumption DEF TypeOK, NotaryTypeOK, JobRows, Rows, Stages,
       Statuses, Decided, Unborn, Placed, Staged, vars, notaryVars, callVars,
       rowVars
<1>1. ASSUME NEW r \in Requests, NEW s \in Stages, Create(r, s)
      PROVE  Staged'
  BY <1>1 DEF Create, Goto
<1>2. ASSUME NEW r \in Requests, NEW s \in Stages, LoadMove(r, s)
      PROVE  Staged'
  BY <1>2 DEF LoadMove, Load, Goto, CanMove, Exists
<1>3. ASSUME NEW r \in Requests, NEW s \in Asked, LoadUpdate(r, s)
      PROVE  Staged'
  BY <1>3 DEF LoadUpdate, Load, Goto, Exists
<1>4. ASSUME NEW r \in Requests, LoadDelete(r)
      PROVE  Staged'
  BY <1>4 DEF LoadDelete, Load, Goto, Exists
<1>5. ASSUME NEW r \in Requests, RecordFirst(r)
      PROVE  Staged'
  BY <1>5 DEF RecordFirst, Forward, Goto, Recorded, Exists
<1>6. ASSUME NEW r \in Requests, Write(r)
      PROVE  Staged'
  BY <1>6 DEF Write, Forward, Goto, Recorded, Written, Exists
<1>7. ASSUME NEW r \in Requests, Register(r)
      PROVE  Staged'
  BY <1>7 DEF Register, Forward, Goto, AddJob, NoJob
<1>8. ASSUME NEW r \in Requests, RegisterErrs(r)
      PROVE  Staged'
  BY <1>8 DEF RegisterErrs, Forward, Goto, Fault
<1>9. ASSUME NEW r \in Requests, Amend(r)
      PROVE  Staged'
  BY <1>9 DEF Amend, Forward, Goto, Exists
<1>10. ASSUME NEW r \in Requests, Erase(r)
      PROVE  Staged'
  BY <1>10 DEF Erase, Forward, Goto, Exists
<1>11. ASSUME NEW r \in Requests, TooLate(r)
      PROVE  Staged'
  BY <1>11 DEF TooLate, Forward, Goto
<1>12. ASSUME NEW S \in SUBSET Underway, Crash(S)
      PROVE  Staged'
  BY <1>12 DEF Crash, Fault, Underway
<1>13. ASSUME Take, UNCHANGED <<callVars, rowVars>>
      PROVE  Staged'
  BY <1>13 DEF Take
<1>14. ASSUME Upsert, UNCHANGED <<callVars, rowVars>>
      PROVE  Staged'
  BY <1>14 DEF Upsert
<1>15. ASSUME UpsertErrs, UNCHANGED <<callVars, rowVars>>
      PROVE  Staged'
  BY <1>15 DEF UpsertErrs, Thrown, Fault
<1>16. ASSUME Skip, UNCHANGED <<callVars, rowVars>>
      PROVE  Staged'
  BY <1>16 DEF Skip
<1>17. ASSUME Submit, UNCHANGED <<callVars, rowVars>>
      PROVE  Staged'
  BY <1>17 DEF Submit
<1>18. ASSUME SubmitErrs, UNCHANGED <<callVars, rowVars>>
      PROVE  Staged'
  BY <1>18 DEF SubmitErrs, Fault
<1>19. ASSUME Mine, UNCHANGED <<callVars, rowVars>>
      PROVE  Staged'
  BY <1>19 DEF Mine, LastInLine
<1>20. ASSUME Revert, UNCHANGED <<callVars, rowVars>>
      PROVE  Staged'
  BY <1>20 DEF Revert, Fault, LastInLine
<1>21. ASSUME Drop, UNCHANGED <<callVars, rowVars>>
      PROVE  Staged'
  BY <1>21 DEF Drop, Fault
<1>22. ASSUME Confirm, UNCHANGED <<callVars, rowVars>>
      PROVE  Staged'
  BY <1>22 DEF Confirm, Confirmed
<1>23. ASSUME ConfirmErrs, UNCHANGED <<callVars, rowVars>>
      PROVE  Staged'
  BY <1>23 DEF ConfirmErrs, Confirmed, Fault
<1>24. ASSUME GiveUp, UNCHANGED <<callVars, rowVars>>
      PROVE  Staged'
  BY <1>24 DEF GiveUp
<1>25. ASSUME Fail, UNCHANGED <<callVars, rowVars>>
      PROVE  Staged'
  BY <1>25 DEF Fail, Thrown
<1>26. ASSUME FailErrs, UNCHANGED <<callVars, rowVars>>
      PROVE  Staged'
  BY <1>26 DEF FailErrs, Thrown, Fault
<1>27. ASSUME WorkerDies, UNCHANGED <<callVars, rowVars>>
      PROVE  Staged'
  BY <1>27 DEF WorkerDies, Fault
<1>28. ASSUME Forget, UNCHANGED <<callVars, rowVars>>
      PROVE  Staged'
  BY <1>28 DEF Forget, NoJob
<1>29. CASE UNCHANGED vars
  BY <1>29
<1> QED
  BY <1>1, <1>2, <1>3, <1>4, <1>5, <1>6, <1>7, <1>8, <1>9, <1>10, <1>11,
       <1>12, <1>13, <1>14, <1>15, <1>16, <1>17, <1>18, <1>19, <1>20, <1>21,
       <1>22, <1>23, <1>24, <1>25, <1>26, <1>27, <1>28, <1>29
  DEF Next, Call, Step, Notarise, NotaryNext, Work

\* Every step keeps a win that left a trace, or is seen to overrule it.
LEMMA MarkKept ==
  ASSUME TypeOK, Placed, Staged, Marked, InLine, [Next]_vars
  PROVE  Marked'
PROOF
<1> USE NotaryBounds, HashAssumption, RequestAssumption, StageAssumption,
       AskedAssumption DEF TypeOK, NotaryTypeOK, JobRows, Rows, Stages,
       Statuses, Decided, Unborn, Placed, Staged, Marked, Trace, InLine,
       CanMove, vars, notaryVars, callVars, rowVars
<1>1. ASSUME NEW r \in Requests, NEW s \in Stages, Create(r, s)
      PROVE  Marked'
  BY <1>1 DEF Create, Goto
<1>2. ASSUME NEW r \in Requests, NEW s \in Stages, LoadMove(r, s)
      PROVE  Marked'
  BY <1>2 DEF LoadMove, Load, Goto, CanMove, Exists
<1>3. ASSUME NEW r \in Requests, NEW s \in Asked, LoadUpdate(r, s)
      PROVE  Marked'
  BY <1>3 DEF LoadUpdate, Load, Goto, Exists
<1>4. ASSUME NEW r \in Requests, LoadDelete(r)
      PROVE  Marked'
  BY <1>4 DEF LoadDelete, Load, Goto, Exists
<1>5. ASSUME NEW r \in Requests, RecordFirst(r)
      PROVE  Marked'
  BY <1>5 DEF RecordFirst, Forward, Goto, Recorded, Exists
<1>6. ASSUME NEW r \in Requests, Write(r)
      PROVE  Marked'
  <2>1. CASE deal = seen[r] /\ Trace
    <3>1. deal.status = "WON" => raced \/ reopened
      BY <1>6, <2>1 DEF Write
    <3> QED
      BY <1>6, <2>1, <3>1 DEF Write, Forward, Goto
  <2>2. CASE deal = seen[r] /\ ~Trace
    <3>1. deal'.kept = "yes"
      BY <1>6 DEF Write, Written, Exists
    <3>2. target[r] = Won => deal'.status = "WON"
      BY <1>6 DEF Write, Written
    <3>3. target[r] # Won => ~Trace'
      BY <1>6, <2>2 DEF Write, Forward, Goto, Recorded
    <3> QED
      BY <1>6, <3>1, <3>2, <3>3
  <2>3. CASE deal # seen[r]
    BY <1>6, <2>3 DEF Write
  <2> QED
    BY <2>1, <2>2, <2>3
<1>7. ASSUME NEW r \in Requests, Register(r)
      PROVE  Marked'
  BY <1>7 DEF Register, Forward, Goto, AddJob, NoJob
<1>8. ASSUME NEW r \in Requests, RegisterErrs(r)
      PROVE  Marked'
  BY <1>8 DEF RegisterErrs, Forward, Goto, Fault
<1>9. ASSUME NEW r \in Requests, Amend(r)
      PROVE  Marked'
  BY <1>9 DEF Amend, Forward, Goto, Exists
<1>10. ASSUME NEW r \in Requests, Erase(r)
      PROVE  Marked'
  BY <1>10 DEF Erase, Forward, Goto, Exists
<1>11. ASSUME NEW r \in Requests, TooLate(r)
      PROVE  Marked'
  BY <1>11 DEF TooLate, Forward, Goto
<1>12. ASSUME NEW S \in SUBSET Underway, Crash(S)
      PROVE  Marked'
  BY <1>12 DEF Crash, Fault, Underway
<1>13. ASSUME Take, UNCHANGED <<callVars, rowVars>>
      PROVE  Marked'
  BY <1>13 DEF Take
<1>14. ASSUME Upsert, UNCHANGED <<callVars, rowVars>>
      PROVE  Marked'
  BY <1>14 DEF Upsert
<1>15. ASSUME UpsertErrs, UNCHANGED <<callVars, rowVars>>
      PROVE  Marked'
  BY <1>15 DEF UpsertErrs, Thrown, Fault
<1>16. ASSUME Skip, UNCHANGED <<callVars, rowVars>>
      PROVE  Marked'
  BY <1>16 DEF Skip
<1>17. ASSUME Submit, UNCHANGED <<callVars, rowVars>>
      PROVE  Marked'
  BY <1>17 DEF Submit
<1>18. ASSUME SubmitErrs, UNCHANGED <<callVars, rowVars>>
      PROVE  Marked'
  BY <1>18 DEF SubmitErrs, Fault
<1>19. ASSUME Mine, UNCHANGED <<callVars, rowVars>>
      PROVE  Marked'
  BY <1>19 DEF Mine, LastInLine
<1>20. ASSUME Revert, UNCHANGED <<callVars, rowVars>>
      PROVE  Marked'
  BY <1>20 DEF Revert, Fault, LastInLine
<1>21. ASSUME Drop, UNCHANGED <<callVars, rowVars>>
      PROVE  Marked'
  BY <1>21 DEF Drop, Fault
<1>22. ASSUME Confirm, UNCHANGED <<callVars, rowVars>>
      PROVE  Marked'
  BY <1>22 DEF Confirm, Confirmed
<1>23. ASSUME ConfirmErrs, UNCHANGED <<callVars, rowVars>>
      PROVE  Marked'
  BY <1>23 DEF ConfirmErrs, Confirmed, Fault
<1>24. ASSUME GiveUp, UNCHANGED <<callVars, rowVars>>
      PROVE  Marked'
  BY <1>24 DEF GiveUp
<1>25. ASSUME Fail, UNCHANGED <<callVars, rowVars>>
      PROVE  Marked'
  BY <1>25 DEF Fail, Thrown
<1>26. ASSUME FailErrs, UNCHANGED <<callVars, rowVars>>
      PROVE  Marked'
  BY <1>26 DEF FailErrs, Thrown, Fault
<1>27. ASSUME WorkerDies, UNCHANGED <<callVars, rowVars>>
      PROVE  Marked'
  BY <1>27 DEF WorkerDies, Fault
<1>28. ASSUME Forget, UNCHANGED <<callVars, rowVars>>
      PROVE  Marked'
  BY <1>28 DEF Forget, NoJob
<1>29. CASE UNCHANGED vars
  BY <1>29
<1> QED
  BY <1>1, <1>2, <1>3, <1>4, <1>5, <1>6, <1>7, <1>8, <1>9, <1>10, <1>11,
       <1>12, <1>13, <1>14, <1>15, <1>16, <1>17, <1>18, <1>19, <1>20, <1>21,
       <1>22, <1>23, <1>24, <1>25, <1>26, <1>27, <1>28, <1>29
  DEF Next, Call, Step, Notarise, NotaryNext, Work

\* Every step keeps the job, the row and the last transaction together.
LEMMA LineKept ==
  ASSUME TypeOK, InLine, [Next]_vars
  PROVE  InLine'
PROOF
<1> USE NotaryBounds, HashAssumption, RequestAssumption, StageAssumption,
       AskedAssumption DEF TypeOK, NotaryTypeOK, JobRows, Rows, Stages,
       Statuses, Decided, Unborn, InLine, LastSent, vars, notaryVars,
       callVars, rowVars
<1>1. ASSUME NEW r \in Requests, NEW s \in Stages, Create(r, s)
      PROVE  InLine'
  BY <1>1 DEF Create, Goto
<1>2. ASSUME NEW r \in Requests, NEW s \in Stages, LoadMove(r, s)
      PROVE  InLine'
  BY <1>2 DEF LoadMove, Load, Goto, CanMove, Exists
<1>3. ASSUME NEW r \in Requests, NEW s \in Asked, LoadUpdate(r, s)
      PROVE  InLine'
  BY <1>3 DEF LoadUpdate, Load, Goto, Exists
<1>4. ASSUME NEW r \in Requests, LoadDelete(r)
      PROVE  InLine'
  BY <1>4 DEF LoadDelete, Load, Goto, Exists
<1>5. ASSUME NEW r \in Requests, RecordFirst(r)
      PROVE  InLine'
  BY <1>5 DEF RecordFirst, Forward, Goto, Recorded, Exists
<1>6. ASSUME NEW r \in Requests, Write(r)
      PROVE  InLine'
  BY <1>6 DEF Write, Forward, Goto, Recorded, Written, Exists
<1>7. ASSUME NEW r \in Requests, Register(r)
      PROVE  InLine'
  <2>1. CASE job.state = "none"
    <3>1. job' = [state |-> "waiting", hash |-> r, tries |-> 0, stalls |-> 0]
      BY <1>7, <2>1, JobStored DEF Register
    <3> QED
      BY <1>7, <2>1, <3>1 DEF Register, Forward, Goto
  <2>2. CASE job.state # "none"
    <3>1. job' = job
      BY <1>7, <2>2, JobStored DEF Register
    <3> QED
      BY <1>7, <2>2, <3>1 DEF Register, Forward, Goto
  <2> QED
    BY <2>1, <2>2
<1>8. ASSUME NEW r \in Requests, RegisterErrs(r)
      PROVE  InLine'
  BY <1>8 DEF RegisterErrs, Forward, Goto, Fault
<1>9. ASSUME NEW r \in Requests, Amend(r)
      PROVE  InLine'
  BY <1>9 DEF Amend, Forward, Goto, Exists
<1>10. ASSUME NEW r \in Requests, Erase(r)
      PROVE  InLine'
  BY <1>10 DEF Erase, Forward, Goto, Exists
<1>11. ASSUME NEW r \in Requests, TooLate(r)
      PROVE  InLine'
  BY <1>11 DEF TooLate, Forward, Goto
<1>12. ASSUME NEW S \in SUBSET Underway, Crash(S)
      PROVE  InLine'
  BY <1>12 DEF Crash, Fault, Underway
<1>13. ASSUME Take, UNCHANGED <<callVars, rowVars>>
      PROVE  InLine'
  BY <1>13 DEF Take
<1>14. ASSUME Upsert, UNCHANGED <<callVars, rowVars>>
      PROVE  InLine'
  BY <1>14 DEF Upsert
<1>15. ASSUME UpsertErrs, UNCHANGED <<callVars, rowVars>>
      PROVE  InLine'
  BY <1>15 DEF UpsertErrs, Thrown, Fault
<1>16. ASSUME Skip, UNCHANGED <<callVars, rowVars>>
      PROVE  InLine'
  BY <1>16 DEF Skip
<1>17. ASSUME Submit, UNCHANGED <<callVars, rowVars>>
      PROVE  InLine'
  BY <1>17 DEF Submit
<1>18. ASSUME SubmitErrs, UNCHANGED <<callVars, rowVars>>
      PROVE  InLine'
  BY <1>18 DEF SubmitErrs, Fault
<1>19. ASSUME Mine, UNCHANGED <<callVars, rowVars>>
      PROVE  InLine'
  <2>1. mempool \in Seq(Hashes) /\ mempool # <<>>
    BY <1>19 DEF Mine
  <2>2. Len(mempool) > 1 =>
          Tail(mempool) # <<>> /\ Tail(mempool)[Len(Tail(mempool))] = mempool[Len(mempool)]
    BY <2>1, Shift
  <2>3. Len(mempool) = 1 =>
          Tail(mempool) = <<>> /\ Head(mempool) = mempool[Len(mempool)]
    BY <2>1, Shift
  <2>4. Len(mempool) = 1 \/ Len(mempool) > 1
    BY <2>1, Shift
  <2>5. CASE Len(mempool) = 1
    BY <1>19, <2>1, <2>3, <2>5 DEF Mine, LastInLine
  <2>6. CASE Len(mempool) > 1
    BY <1>19, <2>1, <2>2, <2>6 DEF Mine, LastInLine
  <2> QED
    BY <2>4, <2>5, <2>6
<1>20. ASSUME Revert, UNCHANGED <<callVars, rowVars>>
      PROVE  InLine'
  <2>1. mempool \in Seq(Hashes) /\ mempool # <<>>
    BY <1>20 DEF Revert
  <2>2. Len(mempool) > 1 =>
          Tail(mempool) # <<>> /\ Tail(mempool)[Len(Tail(mempool))] = mempool[Len(mempool)]
    BY <2>1, Shift
  <2>3. Len(mempool) = 1 =>
          Tail(mempool) = <<>> /\ Head(mempool) = mempool[Len(mempool)]
    BY <2>1, Shift
  <2>4. Len(mempool) = 1 \/ Len(mempool) > 1
    BY <2>1, Shift
  <2>5. CASE Len(mempool) = 1
    BY <1>20, <2>1, <2>3, <2>5 DEF Revert, Fault, LastInLine
  <2>6. CASE Len(mempool) > 1
    BY <1>20, <2>1, <2>2, <2>6 DEF Revert, Fault, LastInLine
  <2> QED
    BY <2>4, <2>5, <2>6
<1>21. ASSUME Drop, UNCHANGED <<callVars, rowVars>>
      PROVE  InLine'
  BY <1>21 DEF Drop, Fault
<1>22. ASSUME Confirm, UNCHANGED <<callVars, rowVars>>
      PROVE  InLine'
  BY <1>22 DEF Confirm, Confirmed
<1>23. ASSUME ConfirmErrs, UNCHANGED <<callVars, rowVars>>
      PROVE  InLine'
  BY <1>23 DEF ConfirmErrs, Confirmed, Fault
<1>24. ASSUME GiveUp, UNCHANGED <<callVars, rowVars>>
      PROVE  InLine'
  BY <1>24 DEF GiveUp
<1>25. ASSUME Fail, UNCHANGED <<callVars, rowVars>>
      PROVE  InLine'
  BY <1>25 DEF Fail, Thrown
<1>26. ASSUME FailErrs, UNCHANGED <<callVars, rowVars>>
      PROVE  InLine'
  BY <1>26 DEF FailErrs, Thrown, Fault
<1>27. ASSUME WorkerDies, UNCHANGED <<callVars, rowVars>>
      PROVE  InLine'
  BY <1>27 DEF WorkerDies, Fault
<1>28. ASSUME Forget, UNCHANGED <<callVars, rowVars>>
      PROVE  InLine'
  BY <1>28 DEF Forget, NoJob
<1>29. CASE UNCHANGED vars
  BY <1>29
<1> QED
  BY <1>1, <1>2, <1>3, <1>4, <1>5, <1>6, <1>7, <1>8, <1>9, <1>10, <1>11,
       <1>12, <1>13, <1>14, <1>15, <1>16, <1>17, <1>18, <1>19, <1>20, <1>21,
       <1>22, <1>23, <1>24, <1>25, <1>26, <1>27, <1>28, <1>29
  DEF Next, Call, Step, Notarise, NotaryNext, Work

\* Every step keeps the hashes those of calls that have ended.
LEMMA FreshKept ==
  ASSUME TypeOK, InLine, Fresh, [Next]_vars
  PROVE  Fresh'
PROOF
<1> USE NotaryBounds, HashAssumption, RequestAssumption, StageAssumption,
       AskedAssumption DEF TypeOK, NotaryTypeOK, JobRows, Rows, Stages,
       Statuses, Decided, Unborn, InLine, vars, notaryVars,
       callVars, rowVars, Fresh
<1>1. ASSUME NEW r \in Requests, NEW s \in Stages, Create(r, s)
      PROVE  Fresh'
  BY <1>1 DEF Create, Goto
<1>2. ASSUME NEW r \in Requests, NEW s \in Stages, LoadMove(r, s)
      PROVE  Fresh'
  BY <1>2 DEF LoadMove, Load, Goto, CanMove, Exists
<1>3. ASSUME NEW r \in Requests, NEW s \in Asked, LoadUpdate(r, s)
      PROVE  Fresh'
  BY <1>3 DEF LoadUpdate, Load, Goto, Exists
<1>4. ASSUME NEW r \in Requests, LoadDelete(r)
      PROVE  Fresh'
  BY <1>4 DEF LoadDelete, Load, Goto, Exists
<1>5. ASSUME NEW r \in Requests, RecordFirst(r)
      PROVE  Fresh'
  BY <1>5 DEF RecordFirst, Forward, Goto, Recorded, Exists
<1>6. ASSUME NEW r \in Requests, Write(r)
      PROVE  Fresh'
  BY <1>6 DEF Write, Forward, Goto, Recorded, Written, Exists
<1>7. ASSUME NEW r \in Requests, Register(r)
      PROVE  Fresh'
  <2>1. CASE job.state = "none"
    <3>1. job' = [state |-> "waiting", hash |-> r, tries |-> 0, stalls |-> 0]
      BY <1>7, <2>1, JobStored DEF Register
    <3> QED
      BY <1>7, <2>1, <3>1 DEF Register, Forward, Goto
  <2>2. CASE job.state # "none"
    <3>1. job' = job
      BY <1>7, <2>2, JobStored DEF Register
    <3> QED
      BY <1>7, <2>2, <3>1 DEF Register, Forward, Goto
  <2> QED
    BY <2>1, <2>2
<1>8. ASSUME NEW r \in Requests, RegisterErrs(r)
      PROVE  Fresh'
  BY <1>8 DEF RegisterErrs, Forward, Goto, Fault
<1>9. ASSUME NEW r \in Requests, Amend(r)
      PROVE  Fresh'
  BY <1>9 DEF Amend, Forward, Goto, Exists
<1>10. ASSUME NEW r \in Requests, Erase(r)
      PROVE  Fresh'
  BY <1>10 DEF Erase, Forward, Goto, Exists
<1>11. ASSUME NEW r \in Requests, TooLate(r)
      PROVE  Fresh'
  BY <1>11 DEF TooLate, Forward, Goto
<1>12. ASSUME NEW S \in SUBSET Underway, Crash(S)
      PROVE  Fresh'
  BY <1>12 DEF Crash, Fault, Underway
<1>13. ASSUME Take, UNCHANGED <<callVars, rowVars>>
      PROVE  Fresh'
  BY <1>13 DEF Take
<1>14. ASSUME Upsert, UNCHANGED <<callVars, rowVars>>
      PROVE  Fresh'
  BY <1>14 DEF Upsert
<1>15. ASSUME UpsertErrs, UNCHANGED <<callVars, rowVars>>
      PROVE  Fresh'
  BY <1>15 DEF UpsertErrs, Thrown, Fault
<1>16. ASSUME Skip, UNCHANGED <<callVars, rowVars>>
      PROVE  Fresh'
  BY <1>16 DEF Skip
<1>17. ASSUME Submit, UNCHANGED <<callVars, rowVars>>
      PROVE  Fresh'
  BY <1>17 DEF Submit
<1>18. ASSUME SubmitErrs, UNCHANGED <<callVars, rowVars>>
      PROVE  Fresh'
  BY <1>18 DEF SubmitErrs, Fault
<1>19. ASSUME Mine, UNCHANGED <<callVars, rowVars>>
      PROVE  Fresh'
  BY <1>19 DEF Mine
<1>20. ASSUME Revert, UNCHANGED <<callVars, rowVars>>
      PROVE  Fresh'
  BY <1>20 DEF Revert, Fault
<1>21. ASSUME Drop, UNCHANGED <<callVars, rowVars>>
      PROVE  Fresh'
  BY <1>21 DEF Drop, Fault
<1>22. ASSUME Confirm, UNCHANGED <<callVars, rowVars>>
      PROVE  Fresh'
  BY <1>22 DEF Confirm, Confirmed
<1>23. ASSUME ConfirmErrs, UNCHANGED <<callVars, rowVars>>
      PROVE  Fresh'
  BY <1>23 DEF ConfirmErrs, Confirmed, Fault
<1>24. ASSUME GiveUp, UNCHANGED <<callVars, rowVars>>
      PROVE  Fresh'
  BY <1>24 DEF GiveUp
<1>25. ASSUME Fail, UNCHANGED <<callVars, rowVars>>
      PROVE  Fresh'
  BY <1>25 DEF Fail, Thrown
<1>26. ASSUME FailErrs, UNCHANGED <<callVars, rowVars>>
      PROVE  Fresh'
  BY <1>26 DEF FailErrs, Thrown, Fault
<1>27. ASSUME WorkerDies, UNCHANGED <<callVars, rowVars>>
      PROVE  Fresh'
  BY <1>27 DEF WorkerDies, Fault
<1>28. ASSUME Forget, UNCHANGED <<callVars, rowVars>>
      PROVE  Fresh'
  BY <1>28 DEF Forget, NoJob
<1>29. CASE UNCHANGED vars
  BY <1>29
<1> QED
  BY <1>1, <1>2, <1>3, <1>4, <1>5, <1>6, <1>7, <1>8, <1>9, <1>10, <1>11,
       <1>12, <1>13, <1>14, <1>15, <1>16, <1>17, <1>18, <1>19, <1>20, <1>21,
       <1>22, <1>23, <1>24, <1>25, <1>26, <1>27, <1>28, <1>29
  DEF Next, Call, Step, Notarise, NotaryNext, Work

\* Every step keeps a second claim from going unnoticed.
LEMMA SingleKept ==
  ASSUME TypeOK, Placed, Marked, InLine, Fresh, Single, [Next]_vars
  PROVE  Single'
PROOF
<1> USE NotaryBounds, HashAssumption, RequestAssumption, StageAssumption,
       AskedAssumption DEF TypeOK, NotaryTypeOK, JobRows, Rows, Stages,
       Statuses, Decided, Unborn, InLine, vars, notaryVars,
       callVars, rowVars, Placed, Fresh, Single, Claims
<1>1. ASSUME NEW r \in Requests, NEW s \in Stages, Create(r, s)
      PROVE  Single'
  BY <1>1 DEF Create, Goto
<1>2. ASSUME NEW r \in Requests, NEW s \in Stages, LoadMove(r, s)
      PROVE  Single'
  BY <1>2 DEF LoadMove, Load, Goto, CanMove, Exists
<1>3. ASSUME NEW r \in Requests, NEW s \in Asked, LoadUpdate(r, s)
      PROVE  Single'
  BY <1>3 DEF LoadUpdate, Load, Goto, Exists
<1>4. ASSUME NEW r \in Requests, LoadDelete(r)
      PROVE  Single'
  BY <1>4 DEF LoadDelete, Load, Goto, Exists
<1>5. ASSUME NEW r \in Requests, RecordFirst(r)
      PROVE  Single'
  BY <1>5 DEF RecordFirst, Forward, Goto, Recorded, Exists
<1>6. ASSUME NEW r \in Requests, Write(r)
      PROVE  Single'
  <2> SUFFICES ASSUME ~raced', ~reopened'
               PROVE  \A p, q \in Requests : Claims(p)' /\ Claims(q)' => p = q
    BY DEF Single
  <2>1. deal = seen[r] /\ ~raced /\ ~reopened
    BY <1>6 DEF Write
  <2>2. CASE target[r] # Won
    BY <1>6, <2>1, <2>2 DEF Write, Forward, Goto
  <2>3. CASE target[r] = Won
    <3>1. seen[r].status = "OPEN"
      BY <1>6, <2>3 DEF Write, CanMove
    <3>2. ~Trace
      BY <2>1, <3>1 DEF Marked
    <3>3. \A q \in Requests : ~Claims(q)
      BY <3>2 DEF Trace
    <3>4. \A q \in Requests : Claims(q)' => q = r
      BY <1>6, <3>3 DEF Write, Forward, Goto
    <3> QED
      BY <3>4
  <2> QED
    BY <2>2, <2>3
<1>7. ASSUME NEW r \in Requests, Register(r)
      PROVE  Single'
  BY <1>7 DEF Register, Forward, Goto, AddJob, NoJob
<1>8. ASSUME NEW r \in Requests, RegisterErrs(r)
      PROVE  Single'
  BY <1>8 DEF RegisterErrs, Forward, Goto, Fault
<1>9. ASSUME NEW r \in Requests, Amend(r)
      PROVE  Single'
  BY <1>9 DEF Amend, Forward, Goto, Exists
<1>10. ASSUME NEW r \in Requests, Erase(r)
      PROVE  Single'
  BY <1>10 DEF Erase, Forward, Goto, Exists
<1>11. ASSUME NEW r \in Requests, TooLate(r)
      PROVE  Single'
  BY <1>11 DEF TooLate, Forward, Goto
<1>12. ASSUME NEW S \in SUBSET Underway, Crash(S)
      PROVE  Single'
  BY <1>12 DEF Crash, Fault, Underway
<1>13. ASSUME Take, UNCHANGED <<callVars, rowVars>>
      PROVE  Single'
  BY <1>13 DEF Take
<1>14. ASSUME Upsert, UNCHANGED <<callVars, rowVars>>
      PROVE  Single'
  BY <1>14 DEF Upsert
<1>15. ASSUME UpsertErrs, UNCHANGED <<callVars, rowVars>>
      PROVE  Single'
  BY <1>15 DEF UpsertErrs, Thrown, Fault
<1>16. ASSUME Skip, UNCHANGED <<callVars, rowVars>>
      PROVE  Single'
  BY <1>16 DEF Skip
<1>17. ASSUME Submit, UNCHANGED <<callVars, rowVars>>
      PROVE  Single'
  BY <1>17 DEF Submit
<1>18. ASSUME SubmitErrs, UNCHANGED <<callVars, rowVars>>
      PROVE  Single'
  BY <1>18 DEF SubmitErrs, Fault
<1>19. ASSUME Mine, UNCHANGED <<callVars, rowVars>>
      PROVE  Single'
  BY <1>19 DEF Mine
<1>20. ASSUME Revert, UNCHANGED <<callVars, rowVars>>
      PROVE  Single'
  BY <1>20 DEF Revert, Fault
<1>21. ASSUME Drop, UNCHANGED <<callVars, rowVars>>
      PROVE  Single'
  BY <1>21 DEF Drop, Fault
<1>22. ASSUME Confirm, UNCHANGED <<callVars, rowVars>>
      PROVE  Single'
  BY <1>22 DEF Confirm, Confirmed
<1>23. ASSUME ConfirmErrs, UNCHANGED <<callVars, rowVars>>
      PROVE  Single'
  BY <1>23 DEF ConfirmErrs, Confirmed, Fault
<1>24. ASSUME GiveUp, UNCHANGED <<callVars, rowVars>>
      PROVE  Single'
  BY <1>24 DEF GiveUp
<1>25. ASSUME Fail, UNCHANGED <<callVars, rowVars>>
      PROVE  Single'
  BY <1>25 DEF Fail, Thrown
<1>26. ASSUME FailErrs, UNCHANGED <<callVars, rowVars>>
      PROVE  Single'
  BY <1>26 DEF FailErrs, Thrown, Fault
<1>27. ASSUME WorkerDies, UNCHANGED <<callVars, rowVars>>
      PROVE  Single'
  BY <1>27 DEF WorkerDies, Fault
<1>28. ASSUME Forget, UNCHANGED <<callVars, rowVars>>
      PROVE  Single'
  BY <1>28 DEF Forget, NoJob
<1>29. CASE UNCHANGED vars
  BY <1>29
<1> QED
  BY <1>1, <1>2, <1>3, <1>4, <1>5, <1>6, <1>7, <1>8, <1>9, <1>10, <1>11,
       <1>12, <1>13, <1>14, <1>15, <1>16, <1>17, <1>18, <1>19, <1>20, <1>21,
       <1>22, <1>23, <1>24, <1>25, <1>26, <1>27, <1>28, <1>29
  DEF Next, Call, Step, Notarise, NotaryNext, Work

\* Every step keeps what a row without the job's hash says of the job.
LEMMA OwedKept ==
  ASSUME TypeOK, InLine, Fresh, Owed, [Next]_vars
  PROVE  Owed'
PROOF
<1> USE NotaryBounds, HashAssumption, RequestAssumption, StageAssumption,
       AskedAssumption DEF TypeOK, NotaryTypeOK, JobRows, Rows, Stages,
       Statuses, Decided, Unborn, InLine, vars, notaryVars,
       callVars, rowVars, Fresh, Owed, GivenUp
<1>1. ASSUME NEW r \in Requests, NEW s \in Stages, Create(r, s)
      PROVE  Owed'
  BY <1>1 DEF Create, Goto
<1>2. ASSUME NEW r \in Requests, NEW s \in Stages, LoadMove(r, s)
      PROVE  Owed'
  BY <1>2 DEF LoadMove, Load, Goto, CanMove, Exists
<1>3. ASSUME NEW r \in Requests, NEW s \in Asked, LoadUpdate(r, s)
      PROVE  Owed'
  BY <1>3 DEF LoadUpdate, Load, Goto, Exists
<1>4. ASSUME NEW r \in Requests, LoadDelete(r)
      PROVE  Owed'
  BY <1>4 DEF LoadDelete, Load, Goto, Exists
<1>5. ASSUME NEW r \in Requests, RecordFirst(r)
      PROVE  Owed'
  BY <1>5 DEF RecordFirst, Forward, Goto, Recorded, Exists
<1>6. ASSUME NEW r \in Requests, Write(r)
      PROVE  Owed'
  BY <1>6 DEF Write, Forward, Goto, Recorded, Written, Exists
<1>7. ASSUME NEW r \in Requests, Register(r)
      PROVE  Owed'
  <2>1. CASE job.state = "none"
    <3>1. job' = [state |-> "waiting", hash |-> r, tries |-> 0, stalls |-> 0]
      BY <1>7, <2>1, JobStored DEF Register
    <3> QED
      BY <1>7, <2>1, <3>1 DEF Register, Forward, Goto
  <2>2. CASE job.state # "none"
    <3>1. job' = job
      BY <1>7, <2>2, JobStored DEF Register
    <3> QED
      BY <1>7, <2>2, <3>1 DEF Register, Forward, Goto
  <2> QED
    BY <2>1, <2>2
<1>8. ASSUME NEW r \in Requests, RegisterErrs(r)
      PROVE  Owed'
  BY <1>8 DEF RegisterErrs, Forward, Goto, Fault
<1>9. ASSUME NEW r \in Requests, Amend(r)
      PROVE  Owed'
  BY <1>9 DEF Amend, Forward, Goto, Exists
<1>10. ASSUME NEW r \in Requests, Erase(r)
      PROVE  Owed'
  BY <1>10 DEF Erase, Forward, Goto, Exists
<1>11. ASSUME NEW r \in Requests, TooLate(r)
      PROVE  Owed'
  BY <1>11 DEF TooLate, Forward, Goto
<1>12. ASSUME NEW S \in SUBSET Underway, Crash(S)
      PROVE  Owed'
  BY <1>12 DEF Crash, Fault, Underway
<1>13. ASSUME Take, UNCHANGED <<callVars, rowVars>>
      PROVE  Owed'
  BY <1>13 DEF Take
<1>14. ASSUME Upsert, UNCHANGED <<callVars, rowVars>>
      PROVE  Owed'
  BY <1>14 DEF Upsert
<1>15. ASSUME UpsertErrs, UNCHANGED <<callVars, rowVars>>
      PROVE  Owed'
  BY <1>15 DEF UpsertErrs, Thrown, Fault
<1>16. ASSUME Skip, UNCHANGED <<callVars, rowVars>>
      PROVE  Owed'
  BY <1>16 DEF Skip
<1>17. ASSUME Submit, UNCHANGED <<callVars, rowVars>>
      PROVE  Owed'
  BY <1>17 DEF Submit
<1>18. ASSUME SubmitErrs, UNCHANGED <<callVars, rowVars>>
      PROVE  Owed'
  BY <1>18 DEF SubmitErrs, Fault
<1>19. ASSUME Mine, UNCHANGED <<callVars, rowVars>>
      PROVE  Owed'
  BY <1>19 DEF Mine
<1>20. ASSUME Revert, UNCHANGED <<callVars, rowVars>>
      PROVE  Owed'
  BY <1>20 DEF Revert, Fault
<1>21. ASSUME Drop, UNCHANGED <<callVars, rowVars>>
      PROVE  Owed'
  BY <1>21 DEF Drop, Fault
<1>22. ASSUME Confirm, UNCHANGED <<callVars, rowVars>>
      PROVE  Owed'
  BY <1>22 DEF Confirm, Confirmed
<1>23. ASSUME ConfirmErrs, UNCHANGED <<callVars, rowVars>>
      PROVE  Owed'
  BY <1>23 DEF ConfirmErrs, Confirmed, Fault
<1>24. ASSUME GiveUp, UNCHANGED <<callVars, rowVars>>
      PROVE  Owed'
  BY <1>24 DEF GiveUp
<1>25. ASSUME Fail, UNCHANGED <<callVars, rowVars>>
      PROVE  Owed'
  BY <1>25 DEF Fail, Thrown
<1>26. ASSUME FailErrs, UNCHANGED <<callVars, rowVars>>
      PROVE  Owed'
  BY <1>26 DEF FailErrs, Thrown, Fault
<1>27. ASSUME WorkerDies, UNCHANGED <<callVars, rowVars>>
      PROVE  Owed'
  BY <1>27 DEF WorkerDies, Fault
<1>28. ASSUME Forget, UNCHANGED <<callVars, rowVars>>
      PROVE  Owed'
  BY <1>28 DEF Forget, NoJob
<1>29. CASE UNCHANGED vars
  BY <1>29
<1> QED
  BY <1>1, <1>2, <1>3, <1>4, <1>5, <1>6, <1>7, <1>8, <1>9, <1>10, <1>11,
       <1>12, <1>13, <1>14, <1>15, <1>16, <1>17, <1>18, <1>19, <1>20, <1>21,
       <1>22, <1>23, <1>24, <1>25, <1>26, <1>27, <1>28, <1>29
  DEF Next, Call, Step, Notarise, NotaryNext, Work

\* A step of worker or chain that leaves the hashes alone unregisters nothing.
LEMMA HashesStay ==
  ASSUME WinsAreRegistered, NotaryTypeOK, UNCHANGED <<fate, callVars, rowVars>>,
         job'.hash = job.hash, record'.hash = record.hash,
         faults' = faults \/ faults' = faults + 1
  PROVE  WinsAreRegistered'
PROOF
<1>1. GivenUp => GivenUp'
  BY NotaryBounds DEF GivenUp, NotaryTypeOK
<1>2. \A r : Excused(r) => Excused(r)'
  BY <1>1 DEF Excused, rowVars
<1>3. Winners' = Winners
  BY DEF Winners, rowVars
<1> QED
  BY <1>2, <1>3 DEF WinsAreRegistered, callVars


\* Every step keeps a win registered, or its loss accounted for.
LEMMA RegistrationKept ==
  ASSUME TypeOK, InLine, Fresh, Single, Owed, WinsAreRegistered, [Next]_vars
  PROVE  WinsAreRegistered'
PROOF
<1> USE NotaryBounds, HashAssumption, RequestAssumption, StageAssumption,
       AskedAssumption DEF TypeOK, NotaryTypeOK, JobRows, Rows, Stages,
       Statuses, Decided, Unborn, InLine, vars, notaryVars,
       callVars, rowVars, Fresh, Single, Claims, Owed, GivenUp, Excused,
       WinsAreRegistered, Winners
<1>1. ASSUME NEW r \in Requests, NEW s \in Stages, Create(r, s)
      PROVE  WinsAreRegistered'
  BY <1>1 DEF Create, Goto
<1>2. ASSUME NEW r \in Requests, NEW s \in Stages, LoadMove(r, s)
      PROVE  WinsAreRegistered'
  BY <1>2 DEF LoadMove, Load, Goto, CanMove, Exists
<1>3. ASSUME NEW r \in Requests, NEW s \in Asked, LoadUpdate(r, s)
      PROVE  WinsAreRegistered'
  BY <1>3 DEF LoadUpdate, Load, Goto, Exists
<1>4. ASSUME NEW r \in Requests, LoadDelete(r)
      PROVE  WinsAreRegistered'
  BY <1>4 DEF LoadDelete, Load, Goto, Exists
<1>5. ASSUME NEW r \in Requests, RecordFirst(r)
      PROVE  WinsAreRegistered'
  BY <1>5 DEF RecordFirst, Forward, Goto, Recorded, Exists
<1>6. ASSUME NEW r \in Requests, Write(r)
      PROVE  WinsAreRegistered'
  BY <1>6 DEF Write, Forward, Goto, Recorded, Written, Exists
<1>7. ASSUME NEW r \in Requests, Register(r)
      PROVE  WinsAreRegistered'
  <2> SUFFICES ASSUME NEW q \in Winners'
               PROVE  \/ at'[q] = "register" \/ q \in {job'.hash, record'.hash}
                      \/ Excused(q)'
    BY DEF WinsAreRegistered
  <2>1. q \in Winners /\ q \in Requests
    BY <1>7 DEF Register
  <2>2. at'[q] = at[q] \/ q = r
    BY <1>7, <2>1 DEF Register, Forward, Goto
  <2>3. CASE job.state = "none"
    <3>1. job' = [state |-> "waiting", hash |-> r, tries |-> 0, stalls |-> 0]
          /\ fate' = fate
      BY <1>7, <2>3, JobStored DEF Register
    <3> QED
      BY <1>7, <2>1, <2>2, <2>3, <3>1 DEF Register
  <2>4. CASE job.state # "none"
    <3>1. job' = job /\ fate' = [fate EXCEPT ![r] = "dropped"]
      BY <1>7, <2>4, JobStored DEF Register
    <3>2. q # r => fate'[q] = fate[q]
      BY <3>1, <2>1
    <3>3. q # r => q \in {job.hash, record.hash} \/ at[q] = "register" \/ Excused(q)
      BY <2>1
    <3>4. CASE q # r
      BY <1>7, <2>2, <3>1, <3>2, <3>3, <3>4 DEF Register
    <3>5. CASE q = r
      <4>1. fate'[q] = "dropped"
        BY <3>1, <3>5
      <4>2. job.hash \in Requests /\ job.hash # r
        BY <1>7, <2>4 DEF Register
      <4>3. raced \/ reopened
        BY <1>7, <4>2 DEF Register
      <4> QED
        BY <1>7, <4>1, <4>3 DEF Register
    <3> QED
      BY <3>4, <3>5
  <2> QED
    BY <2>3, <2>4
<1>8. ASSUME NEW r \in Requests, RegisterErrs(r)
      PROVE  WinsAreRegistered'
  BY <1>8 DEF RegisterErrs, Forward, Goto, Fault
<1>9. ASSUME NEW r \in Requests, Amend(r)
      PROVE  WinsAreRegistered'
  BY <1>9 DEF Amend, Forward, Goto, Exists
<1>10. ASSUME NEW r \in Requests, Erase(r)
      PROVE  WinsAreRegistered'
  BY <1>10 DEF Erase, Forward, Goto, Exists
<1>11. ASSUME NEW r \in Requests, TooLate(r)
      PROVE  WinsAreRegistered'
  BY <1>11 DEF TooLate, Forward, Goto
<1>12. ASSUME NEW S \in SUBSET Underway, Crash(S)
      PROVE  WinsAreRegistered'
  BY <1>12 DEF Crash, Fault, Underway
<1>13. ASSUME Take, UNCHANGED <<callVars, rowVars>>
      PROVE  WinsAreRegistered'
  <2>1. /\ job'.hash = job.hash /\ record'.hash = record.hash /\ fate' = fate
        /\ faults' = faults \/ faults' = faults + 1
    BY <1>13 DEF Take
  <2> QED
    BY <1>13, <2>1, HashesStay
<1>14. ASSUME Upsert, UNCHANGED <<callVars, rowVars>>
      PROVE  WinsAreRegistered'
  <2> SUFFICES ASSUME NEW q \in Winners'
               PROVE  \/ at'[q] = "register" \/ q \in {job'.hash, record'.hash}
                      \/ Excused(q)'
    BY DEF WinsAreRegistered
  <2>1. q \in Winners /\ q \in Requests
    BY <1>14
  <2>2. job' = job /\ record'.hash = job.hash /\ at' = at
    BY <1>14 DEF Upsert
  <2>3. CASE record.hash = NoHash \/ record.hash = job.hash
    <3>1. fate' = fate
      BY <1>14, <2>3 DEF Upsert, Replaces
    <3> QED
      BY <1>14, <2>1, <2>2, <2>3, <3>1 DEF Upsert
  <2>4. CASE record.hash # NoHash /\ record.hash # job.hash
    <3>1. fate' = [fate EXCEPT ![record.hash] = "replaced"]
      BY <1>14, <2>4 DEF Upsert, Replaces
    <3>2. raced \/ reopened
      <4>1. job.hash \in Requests /\ record.hash \in Requests
        BY <1>14, <2>4 DEF Upsert
      <4>2. Claims(job.hash) /\ Claims(record.hash)
        OBVIOUS
      <4> QED
        BY <2>4, <4>1, <4>2
    <3>3. CASE q = record.hash
      <4>1. fate'[q] = "replaced"
        BY <2>1, <3>1, <3>3
      <4> QED
        BY <1>14, <3>2, <4>1
    <3>4. CASE q # record.hash
      <4>1. fate'[q] = fate[q]
        BY <2>1, <3>1, <3>4
      <4> QED
        BY <1>14, <2>1, <2>2, <3>4, <4>1 DEF Upsert
    <3> QED
      BY <3>3, <3>4
  <2> QED
    BY <2>3, <2>4
<1>15. ASSUME UpsertErrs, UNCHANGED <<callVars, rowVars>>
      PROVE  WinsAreRegistered'
  <2>1. /\ job'.hash = job.hash /\ record'.hash = record.hash /\ fate' = fate
        /\ faults' = faults \/ faults' = faults + 1
    BY <1>15 DEF UpsertErrs, Thrown, Fault
  <2> QED
    BY <1>15, <2>1, HashesStay
<1>16. ASSUME Skip, UNCHANGED <<callVars, rowVars>>
      PROVE  WinsAreRegistered'
  <2>1. /\ job'.hash = job.hash /\ record'.hash = record.hash /\ fate' = fate
        /\ faults' = faults \/ faults' = faults + 1
    BY <1>16 DEF Skip
  <2> QED
    BY <1>16, <2>1, HashesStay
<1>17. ASSUME Submit, UNCHANGED <<callVars, rowVars>>
      PROVE  WinsAreRegistered'
  <2>1. /\ job'.hash = job.hash /\ record'.hash = record.hash /\ fate' = fate
        /\ faults' = faults \/ faults' = faults + 1
    BY <1>17 DEF Submit
  <2> QED
    BY <1>17, <2>1, HashesStay
<1>18. ASSUME SubmitErrs, UNCHANGED <<callVars, rowVars>>
      PROVE  WinsAreRegistered'
  <2>1. /\ job'.hash = job.hash /\ record'.hash = record.hash /\ fate' = fate
        /\ faults' = faults \/ faults' = faults + 1
    BY <1>18 DEF SubmitErrs, Fault
  <2> QED
    BY <1>18, <2>1, HashesStay
<1>19. ASSUME Mine, UNCHANGED <<callVars, rowVars>>
      PROVE  WinsAreRegistered'
  <2>1. /\ job'.hash = job.hash /\ record'.hash = record.hash /\ fate' = fate
        /\ faults' = faults \/ faults' = faults + 1
    BY <1>19 DEF Mine
  <2> QED
    BY <1>19, <2>1, HashesStay
<1>20. ASSUME Revert, UNCHANGED <<callVars, rowVars>>
      PROVE  WinsAreRegistered'
  <2>1. /\ job'.hash = job.hash /\ record'.hash = record.hash /\ fate' = fate
        /\ faults' = faults \/ faults' = faults + 1
    BY <1>20 DEF Revert, Fault
  <2> QED
    BY <1>20, <2>1, HashesStay
<1>21. ASSUME Drop, UNCHANGED <<callVars, rowVars>>
      PROVE  WinsAreRegistered'
  <2>1. /\ job'.hash = job.hash /\ record'.hash = record.hash /\ fate' = fate
        /\ faults' = faults \/ faults' = faults + 1
    BY <1>21 DEF Drop, Fault
  <2> QED
    BY <1>21, <2>1, HashesStay
<1>22. ASSUME Confirm, UNCHANGED <<callVars, rowVars>>
      PROVE  WinsAreRegistered'
  <2>1. /\ job'.hash = job.hash /\ record'.hash = record.hash /\ fate' = fate
        /\ faults' = faults \/ faults' = faults + 1
    BY <1>22 DEF Confirm
  <2> QED
    BY <1>22, <2>1, HashesStay
<1>23. ASSUME ConfirmErrs, UNCHANGED <<callVars, rowVars>>
      PROVE  WinsAreRegistered'
  <2>1. /\ job'.hash = job.hash /\ record'.hash = record.hash /\ fate' = fate
        /\ faults' = faults \/ faults' = faults + 1
    BY <1>23 DEF ConfirmErrs, Fault
  <2> QED
    BY <1>23, <2>1, HashesStay
<1>24. ASSUME GiveUp, UNCHANGED <<callVars, rowVars>>
      PROVE  WinsAreRegistered'
  <2>1. /\ job'.hash = job.hash /\ record'.hash = record.hash /\ fate' = fate
        /\ faults' = faults \/ faults' = faults + 1
    BY <1>24 DEF GiveUp
  <2> QED
    BY <1>24, <2>1, HashesStay
<1>25. ASSUME Fail, UNCHANGED <<callVars, rowVars>>
      PROVE  WinsAreRegistered'
  <2>1. /\ job'.hash = job.hash /\ record'.hash = record.hash /\ fate' = fate
        /\ faults' = faults \/ faults' = faults + 1
    BY <1>25 DEF Fail, Thrown
  <2> QED
    BY <1>25, <2>1, HashesStay
<1>26. ASSUME FailErrs, UNCHANGED <<callVars, rowVars>>
      PROVE  WinsAreRegistered'
  <2>1. /\ job'.hash = job.hash /\ record'.hash = record.hash /\ fate' = fate
        /\ faults' = faults \/ faults' = faults + 1
    BY <1>26 DEF FailErrs, Thrown, Fault
  <2> QED
    BY <1>26, <2>1, HashesStay
<1>27. ASSUME WorkerDies, UNCHANGED <<callVars, rowVars>>
      PROVE  WinsAreRegistered'
  <2>1. /\ job'.hash = job.hash /\ record'.hash = record.hash /\ fate' = fate
        /\ faults' = faults \/ faults' = faults + 1
    BY <1>27 DEF WorkerDies, Fault
  <2> QED
    BY <1>27, <2>1, HashesStay
<1>28. ASSUME Forget, UNCHANGED <<callVars, rowVars>>
      PROVE  WinsAreRegistered'
  BY <1>28 DEF Forget, NoJob
<1>29. CASE UNCHANGED vars
  BY <1>29
<1> QED
  BY <1>1, <1>2, <1>3, <1>4, <1>5, <1>6, <1>7, <1>8, <1>9, <1>10, <1>11,
       <1>12, <1>13, <1>14, <1>15, <1>16, <1>17, <1>18, <1>19, <1>20, <1>21,
       <1>22, <1>23, <1>24, <1>25, <1>26, <1>27, <1>28, <1>29
  DEF Next, Call, Step, Notarise, NotaryNext, Work

-----------------------------------------------------------------------------
\* The inductive invariant: the copies calls act on, the traces of a win and
\* the order of job, row and transactions.
THEOREM InductiveInvariant == Spec => []Inductive
PROOF
<1>1. Init => Inductive
  <2> SUFFICES ASSUME Init PROVE Inductive
    OBVIOUS
  <2> USE NotaryBounds, HashAssumption, StageAssumption DEF Init, NotaryInit,
       NoJob, Unborn
  <2>1. NotaryTypeOK
    BY EmptySeq DEF NotaryTypeOK, JobRows
  <2>2. TypeOK
    <3>1. deal \in Rows /\ Unborn \in Rows
      BY DEF Rows, Stages, Statuses
    <3>2. seen \in [Requests -> Rows]
      BY <3>1
    <3> QED
      BY <2>1, <3>1, <3>2 DEF TypeOK
  <2>3. Placed /\ Staged
    BY DEF Placed, Staged, Stages
  <2>4. Marked /\ InLine
    BY DEF Marked, Trace, InLine, LastSent
  <2>5. Fresh /\ Single
    BY RequestAssumption DEF Fresh, Single, Claims
  <2>6. Owed /\ WinsAreRegistered
    BY DEF Owed, WinsAreRegistered, Winners
  <2> QED
    BY <2>2, <2>3, <2>4, <2>5, <2>6 DEF Inductive
<1>2. Inductive /\ [Next]_vars => Inductive'
  BY TypesKept, PlacesKept, StagesKept, MarkKept, LineKept, FreshKept, SingleKept,
     OwedKept, RegistrationKept
  DEF Inductive
<1> QED
  BY <1>1, <1>2, PTL DEF Spec

\* DealStatus calls WON terminal: a win in the history keeps the deal WON
\* unless a call wrote over a row it had not read or the generic update
\* overruled it.
THEOREM WinsAreTerminal == Spec => []WonStays
PROOF
<1>1. Inductive => WonStays
  BY DEF Inductive, Marked, Trace, WonStays, Winners, Exists
<1> QED
  BY <1>1, InductiveInvariant, PTL

\* DeleteDealUseCase protects deals with a registration, with the same two
\* exceptions.
THEOREM NotarisedAreKept == Spec => []NotarisedIsKept
PROOF
<1>1. Inductive => NotarisedIsKept
  BY DEF Inductive, Marked, Trace, NotarisedIsKept, Exists
<1> QED
  BY <1>1, InductiveInvariant, PTL

\* A confirmed row names the hash the contract holds, through time-outs,
\* late and lost transactions, stalled jobs and a second registration.
THEOREM ConfirmationsAreTrue == Spec => []ConfirmedIsOnChain
PROOF
<1>1. Inductive => ConfirmedIsOnChain
  BY DEF Inductive, InLine, ConfirmedIsOnChain
<1> QED
  BY <1>1, InductiveInvariant, PTL

\* Each win that MoveDealStageUseCase has committed has its own hash in the
\* queue or in the row: what loses one is a failure between the commit and the
\* queue, one at each attempt or stall of the worker before its upsert, or, if
\* the deal was reopened or a call wrote over a row it had not read, another win.
THEOREM WinsReachTheNotary == Spec => []WinsAreRegistered
PROOF
<1>1. Inductive => WinsAreRegistered
  BY DEF Inductive
<1> QED
  BY <1>1, InductiveInvariant, PTL
=============================================================================
