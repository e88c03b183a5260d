------------------------------- MODULE Deals --------------------------------
(***************************************************************************)
(* One deal of a pipeline: CreateDeal, MoveDealStage, UpdateDeal and       *)
(* DeleteDeal, run by concurrent HTTP calls on several replicas, the       *)
(* registration a win queues (Notary).  What a call publishes at its end,  *)
(* jobs of the automation and webhook queues, is left out.                 *)
(*                                                                         *)
(* Every call reads the row, decides on that copy and writes by id later.  *)
(* A call that is refused changes nothing and is left out.                 *)
(***************************************************************************)
EXTENDS Notary

CONSTANTS
  Requests,       \* HTTP calls; the hash of a win is named by its call
  Regular,        \* stages that are neither won nor lost
  Won, Lost,      \* stages with isWon, isLost
  NoStage,
  Asked           \* bound: the statuses generic updates ask for

ASSUME RequestAssumption == Hashes = Requests
ASSUME StageAssumption ==
  Won # Lost /\ Won \notin Regular /\ Lost \notin Regular
  /\ NoStage \notin Regular \union {Won, Lost}
ASSUME AskedAssumption == Asked \subseteq {"OPEN", "WON", "LOST", "ON_HOLD"}

VARIABLES
  deal,         \* [kept, status, stage]: the row of deals
  history,      \* rows of deal_stage_history, in no order
  at,           \* [Requests -> where the use case is]
  seen,         \* [Requests -> the row as it was loaded]
  target,       \* [Requests -> the stage or the status asked for]
  raced,        \* observation: a call wrote over a row it had not read
  reopened      \* observation: the generic update overruled WON or LOST

callVars == <<at, seen, target>>
rowVars == <<deal, history, raced, reopened>>
vars == <<notaryVars, callVars, rowVars>>

Stages == Regular \union {Won, Lost}
Statuses == {"OPEN", "WON", "LOST", "ON_HOLD"}
Decided == {"WON", "LOST"}
Unborn == [kept |-> "no", status |-> "OPEN", stage |-> NoStage]

Rows == [kept : {"no", "yes", "deleted"}, status : Statuses, stage : Stages \union {NoStage}]

TypeOK ==
  /\ NotaryTypeOK
  /\ deal \in Rows
  /\ history \subseteq [from : Stages \union {NoStage}, to : Stages, by : Requests]
  /\ at \in [Requests -> {"idle", "first", "write", "register", "amend", "erase", "done"}]
  /\ seen \in [Requests -> Rows]
  /\ target \in [Requests -> Stages \union Statuses \union {NoStage}]
  /\ raced \in BOOLEAN /\ reopened \in BOOLEAN

Init ==
  /\ NotaryInit
  /\ \/ deal = Unborn
     \/ \E s \in Regular : deal = [kept |-> "yes", status |-> "OPEN", stage |-> s]
  /\ history = {}
  /\ at = [r \in Requests |-> "idle"]
  /\ seen = [r \in Requests |-> Unborn]
  /\ target = [r \in Requests |-> NoStage]
  /\ raced = FALSE /\ reopened = FALSE

\* A call keeps the copy and what was asked for only until it has written.
Goto(r, place, row, what) ==
  /\ at' = [at EXCEPT ![r] = place]
  /\ seen' = [seen EXCEPT ![r] = row]
  /\ target' = [target EXCEPT ![r] = what]
Forward(r, place) == Goto(r, place, Unborn, NoStage)
Exists == deal.kept = "yes"
Recorded(from, to, r) ==
  history' = history \union {[from |-> from, to |-> to, by |-> r]}

-----------------------------------------------------------------------------
\* CreateDealUseCase: the row and its first history entry are two writes.
Create(r, s) ==
  /\ at[r] = "idle" /\ deal = Unborn
  /\ deal' = [kept |-> "yes", status |-> "OPEN", stage |-> s]
  /\ Goto(r, "first", Unborn, s)
  /\ UNCHANGED <<notaryVars, history, raced, reopened>>

RecordFirst(r) ==
  /\ at[r] = "first"
  /\ IF Exists THEN Recorded(NoStage, target[r], r) ELSE UNCHANGED history
  /\ Forward(r, "done")
  /\ UNCHANGED <<notaryVars, deal, raced, reopened>>

-----------------------------------------------------------------------------
\* DealEntity.transitionToStage.
CanMove(status, s) ==
  CASE s = Won -> status = "OPEN"
    [] s = Lost -> status \in {"OPEN", "ON_HOLD"}
    [] OTHER -> status \notin Decided

\* A regular move writes the status only if the copy was on hold.
Written(r) ==
  [deal EXCEPT !.stage = target[r],
               !.status = CASE target[r] = Won -> "WON"
                            [] target[r] = Lost -> "LOST"
                            [] OTHER -> IF seen[r].status = "ON_HOLD" THEN "OPEN" ELSE @]

\* Load a copy of the row and go on with it.
Load(r, place, what) ==
  /\ at[r] = "idle" /\ Exists
  /\ Goto(r, place, deal, what)
  /\ UNCHANGED <<notaryVars, rowVars>>

MutLoadMove(r, s) == Load(r, "write", s)
LoadMove(r, s) == CanMove(deal.status, s) /\ Load(r, "write", s)

\* updateInTransaction: the row by its id, and a history entry that starts
\* from the stage the copy was in.
MutWrite(r) ==
  /\ at[r] = "write" /\ Exists
  /\ deal' = Written(r)
  /\ Recorded(seen[r].stage, target[r], r)
  /\ raced' = (raced \/ deal # seen[r])
  /\ Forward(r, "done")
  /\ UNCHANGED <<notaryVars, reopened>>
Write(r) ==
  /\ at[r] = "write" /\ Exists
  /\ deal' = Written(r)
  /\ Recorded(seen[r].stage, target[r], r)
  /\ raced' = (raced \/ deal # seen[r])
  /\ Forward(r, IF target[r] = Won THEN "register" ELSE "done")
  /\ UNCHANGED <<notaryVars, reopened>>

Register(r) ==
  /\ at[r] = "register"
  /\ AddJob(r)
  /\ Forward(r, "done")
  /\ UNCHANGED <<configured, record, worker, mempool, sent, chain, faults, rowVars>>

\* Redis refuses the job: the caller gets an error for a deal that is won.
RegisterErrs(r) ==
  /\ at[r] = "register" /\ Fault
  /\ Forward(r, "done")
  /\ fate' = [fate EXCEPT ![r] = "unqueued"]
  /\ UNCHANGED <<configured, job, record, worker, mempool, sent, chain, rowVars>>

-----------------------------------------------------------------------------
\* UpdateDealUseCase with a status: any of the four, whatever the row says.
LoadUpdate(r, status) == Load(r, "amend", status)
Amend(r) ==
  /\ at[r] = "amend" /\ Exists
  /\ deal' = [deal EXCEPT !.status = target[r]]
  /\ reopened' = (reopened \/ (deal.status \in Decided /\ deal.status # target[r]))
  /\ Forward(r, "done")
  /\ UNCHANGED <<notaryVars, history, raced>>

\* DeleteDealUseCase: the check is on the copy; the history goes with the row.
MutLoadDelete(r) == Load(r, "erase", NoStage)
LoadDelete(r) == deal.status # "WON" /\ Load(r, "erase", NoStage)
Erase(r) ==
  /\ at[r] = "erase" /\ Exists
  /\ deal' = [deal EXCEPT !.kept = "deleted"]
  /\ history' = {}
  /\ raced' = (raced \/ deal # seen[r])
  /\ Forward(r, "done")
  /\ UNCHANGED <<notaryVars, reopened>>

\* The row is gone by the time it is written: the call throws.
TooLate(r) ==
  /\ at[r] \in {"write", "amend", "erase"} /\ ~Exists
  /\ Forward(r, "done")
  /\ UNCHANGED <<notaryVars, rowVars>>

\* The replica of some calls dies: what they have not done stays undone.
Underway == {r \in Requests : at[r] \notin {"idle", "done"}}
Crash(S) ==
  /\ S # {} /\ Fault
  /\ at' = [r \in Requests |-> IF r \in S THEN "done" ELSE at[r]]
  /\ seen' = [r \in Requests |-> IF r \in S THEN Unborn ELSE seen[r]]
  /\ target' = [r \in Requests |-> IF r \in S THEN NoStage ELSE target[r]]
  /\ fate' = [h \in Hashes |-> IF h \in S /\ at[h] = "register" THEN "unqueued" ELSE fate[h]]
  /\ UNCHANGED <<configured, job, record, worker, mempool, sent, chain, rowVars>>

-----------------------------------------------------------------------------
Step(r) ==
  \/ RecordFirst(r) \/ Write(r) \/ Register(r) \/ RegisterErrs(r)
  \/ Amend(r) \/ Erase(r) \/ TooLate(r)

Call(r) ==
  \/ \E s \in Stages : Create(r, s) \/ LoadMove(r, s)
  \/ \E status \in Asked : LoadUpdate(r, status)
  \/ LoadDelete(r)

Notarise == NotaryNext /\ UNCHANGED <<callVars, rowVars>>

Next ==
  \/ \E r \in Requests : Call(r) \/ Step(r)
  \/ \E S \in SUBSET Underway : Crash(S)
  \/ Notarise

Spec == Init /\ [][Next]_vars

\* The event loops of replicas and worker go on, the chain mines.
FairSpec ==
  /\ Spec
  /\ \A r \in Requests : WF_vars(Step(r))
  /\ WF_vars(Work /\ UNCHANGED <<callVars, rowVars>>)
  /\ WF_vars(Mine /\ UNCHANGED <<callVars, rowVars>>)

-----------------------------------------------------------------------------
\* Calls that moved the deal to its won stage.
Winners == {h.by : h \in {g \in history : g.to = Won /\ g.from # NoStage}}

\* "WON (terminal)": what was won stays won as long as no call writes over a
\* row it has not read and no generic update overrules the state machine.
WonStays ==
  (Winners # {} /\ ~raced /\ ~reopened) => deal.status = "WON" /\ Exists

\* A deal whose registration reached the database is not deleted, with the
\* same two exceptions.
NotarisedIsKept ==
  (record.status # "none" /\ ~raced /\ ~reopened) => Exists

\* Enough has failed for BullMQ to give a job up.
GivenUp == faults >= Attempts \/ faults > MaxStalls

\* What may keep the hash of a win from the row: the process died or Redis
\* refused the job after the commit; the worker failed before its upsert at
\* every attempt or stall; and, for a win of a deal that was won before, the
\* stored job of the earlier win or the row passing to a later one.
Excused(r) ==
  \/ fate[r] = "unqueued"
  \/ fate[r] = "abandoned" /\ GivenUp
  \/ fate[r] \in {"dropped", "replaced"} /\ (raced \/ reopened)

\* Each win has a registration with its own hash, in the queue or in the row,
\* from the end of its call on.  As long as no call writes over a row it has
\* not read and no generic update reopens the deal, only failures lose one.
WinsAreRegistered ==
  \A r \in Winners :
    at[r] = "register" \/ r \in {job.hash, record.hash} \/ Excused(r)

\* A pending registration is decided, or its job is given up by the queue.
NotarisationEnds ==
  record.status = "PENDING" ~> (record.status # "PENDING" \/ job.state \in {"none", "failed"})
=============================================================================
