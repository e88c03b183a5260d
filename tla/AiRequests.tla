----------------------------- MODULE AiRequests -----------------------------
(***************************************************************************)
(* An AI request from its arrival to its response, on several replicas:    *)
(* the slots of TenantThrottlerGuard and AiConcurrencyInterceptor, the     *)
(* user's lock in AiService, the circuit breaker, and AiExecutorService    *)
(* with its chain per process and its semaphore across replicas.           *)
(*                                                                         *)
(* All counters and locks are Redis keys with a time to live.  A key whose *)
(* holders are gone may expire at any time; that it expires under a        *)
(* request that still runs is a fault, as is an error of Redis.            *)
(***************************************************************************)
EXTENDS Integers, FiniteSets, Sequences, CircuitBreaker

CONSTANTS
  Requests, Users, Replicas,
  Mixes,        \* set of functions, what each request may be
  MaxSlots,     \* [Users -> concurrent requests of the user's tier]
  GlobalLimit,  \* GLOBAL_CONCURRENCY_LIMIT
  MaxDepth,     \* MAX_QUEUE_DEPTH
  MaxRetries,   \* RETRY_DELAYS_MS.length
  MaxTurns,     \* MAX_ITERATIONS of the agent loop
  MaxFaults     \* bound: errors, crashes, early expiries and disconnections

\* copilot: one call, awaited.  query: RAG with a history, whose promise
\* ragQuery returns without awaiting it.  agent: a loop of calls, no circuit.
Kinds == {"copilot", "query", "agent"}

\* key identifies the call for the executor's dedup.
Forms == [user : Users, replica : Replicas, key : STRING, kind : Kinds]

ASSUME RequestAssumption == Mixes \subseteq [Requests -> Forms] /\ IsFiniteSet(Requests)
ASSUME LimitAssumption ==
  /\ MaxSlots \in [Users -> Nat] /\ GlobalLimit \in Nat \ {0} /\ MaxDepth \in Nat
  /\ MaxRetries \in Nat /\ MaxTurns \in Nat \ {0} /\ MaxFaults \in Nat

VARIABLES
  of,        \* what each request is
  pc,        \* [Requests -> where the request is]
  prior,     \* [Requests -> state of the circuit it was let through with]
  tries,     \* [Requests -> 429s of the call it makes]
  turns,     \* [Requests -> turns of the agent loop]
  aborted,   \* requests whose client has gone
  chain,     \* [Replicas -> Seq(Requests)]: tail, and queueDepth as its length
  slots,     \* [Users -> Nat]: ai:concurrent:<user>
  lock,      \* users with ai:lock:user:<user>
  holding,   \* requests that have yet to call the release() of that lock
  count,     \* ai:global:concurrency
  lease,     \* that key has a time to live
  faults,
  strays,    \* observation: users whose slots were not counted or expired early
  unlocked,  \* observation: users whose lock expired under its holder
  skewed     \* observation: the semaphore was passed by, or expired early

callVars == <<of, pc, prior, tries, turns, aborted>>
slotVars == <<slots, strays>>
lockVars == <<lock, holding, unlocked>>
semVars == <<count, lease, skewed>>
vars == <<callVars, chain, slotVars, lockVars, semVars, circuitVars, faults>>

\* The user's lock is held, or should be, in these places.
InChain == {"waiting", "acquire", "calling", "free", "clamp"}
Working == {"gate", "probe", "submit", "joined", "think", "won", "reset", "lost",
            "open"} \union InChain
\* The slot of the guard is held in these.
Inside == {"route", "lock", "unlock", "release"} \union Working
Calling == {"calling", "free"}

TypeOK ==
  /\ CircuitTypeOK
  /\ of \in Mixes
  /\ pc \in [Requests -> {"idle", "done"} \union Inside]
  /\ prior \in [Requests -> {"CLOSED", "OPEN", "HALF_OPEN"}]
  /\ tries \in [Requests -> 0 .. MaxRetries] /\ turns \in [Requests -> 0 .. MaxTurns]
  /\ aborted \subseteq Requests
  /\ chain \in [Replicas -> Seq(Requests)]
  /\ slots \in [Users -> Nat] /\ \A u \in Users : slots[u] <= MaxSlots[u]
  /\ lock \subseteq Users /\ holding \subseteq Requests
  /\ count \in Int /\ count <= GlobalLimit /\ lease \in BOOLEAN
  /\ faults \in 0 .. MaxFaults
  /\ strays \subseteq Users /\ unlocked \subseteq Users /\ skewed \in BOOLEAN

Init ==
  /\ CircuitInit
  /\ of \in Mixes
  /\ pc = [r \in Requests |-> "idle"]
  /\ prior = [r \in Requests |-> "CLOSED"]
  /\ tries = [r \in Requests |-> 0] /\ turns = [r \in Requests |-> 0]
  /\ aborted = {}
  /\ chain = [p \in Replicas |-> <<>>]
  /\ slots = [u \in Users |-> 0]
  /\ lock = {} /\ holding = {}
  /\ count = 0 /\ lease = FALSE
  /\ faults = 0
  /\ strays = {} /\ unlocked = {} /\ skewed = FALSE

-----------------------------------------------------------------------------
UserOf(r) == of[r].user
ReplicaOf(r) == of[r].replica
KeyOf(r) == of[r].key
Kind(r) == of[r].kind

Goto(r, to) == pc' = [pc EXCEPT ![r] = to]
Fault == faults < MaxFaults /\ faults' = faults + 1
NoFault == UNCHANGED faults

(* TenantThrottlerGuard.handleAiRequest and AiConcurrencyInterceptor.      *)

\* ACQUIRE_SCRIPT; at the limit the request is answered 503.
Enter(r) ==
  LET u == UserOf(r) IN
  /\ pc[r] = "idle"
  /\ \/ /\ slots[u] < MaxSlots[u]
        /\ slots' = [slots EXCEPT ![u] = @ + 1]
        /\ Goto(r, "route")
     \/ /\ slots[u] = MaxSlots[u]
        /\ Goto(r, "done") /\ UNCHANGED slots
  /\ NoFault
  /\ UNCHANGED <<of, prior, tries, turns, aborted, chain, strays, lockVars, semVars,
                 circuitVars>>

\* Redis fails: the request is let in, and marked for a release all the same.
EnterErrs(r) ==
  /\ pc[r] = "idle" /\ Fault
  /\ Goto(r, "route")
  /\ strays' = strays \union {UserOf(r)}
  /\ UNCHANGED <<of, prior, tries, turns, aborted, chain, slots, lockVars, semVars,
                 circuitVars>>

\* The roles guard of the route runs after the global one and before the
\* interceptors: whom it turns away keeps the slot.
Route(r) ==
  /\ pc[r] = "route"
  /\ Goto(r, "lock") \/ Goto(r, "done")
  /\ NoFault
  /\ UNCHANGED <<of, prior, tries, turns, aborted, chain, slotVars, lockVars,
                 semVars, circuitVars>>

\* RELEASE_SCRIPT in finalize(): never below zero.
Leave(r) ==
  /\ pc[r] = "release"
  /\ slots' = [slots EXCEPT ![UserOf(r)] = IF @ > 0 THEN @ - 1 ELSE 0]
  /\ Goto(r, "done")
  /\ NoFault
  /\ UNCHANGED <<of, prior, tries, turns, aborted, chain, strays, lockVars, semVars,
                 circuitVars>>
LeaveErrs(r) ==
  /\ pc[r] = "release" /\ Fault
  /\ Goto(r, "done")
  /\ UNCHANGED <<of, prior, tries, turns, aborted, chain, slotVars, lockVars,
                 semVars, circuitVars>>

SlotsExpire(u) ==
  /\ slots[u] > 0
  /\ IF \E r \in Requests : UserOf(r) = u /\ pc[r] \in Inside
       THEN Fault /\ strays' = strays \union {u}
       ELSE NoFault /\ UNCHANGED strays
  /\ slots' = [slots EXCEPT ![u] = 0]
  /\ UNCHANGED <<callVars, chain, lockVars, semVars, circuitVars>>

-----------------------------------------------------------------------------
(* AiService: acquireUserSlot() around the work.                           *)

\* SET NX; a second request of the user is answered 429.
LockUser(r) ==
  LET u == UserOf(r) IN
  /\ pc[r] = "lock"
  /\ \/ /\ u \notin lock
        /\ lock' = lock \union {u} /\ holding' = holding \union {r}
        /\ Goto(r, IF Kind(r) = "agent" THEN "submit" ELSE "gate")
     \/ /\ u \in lock
        /\ Goto(r, "release") /\ UNCHANGED <<lock, holding>>
  /\ NoFault
  /\ UNCHANGED <<of, prior, tries, turns, aborted, chain, slotVars, unlocked,
                 semVars, circuitVars>>
LockErrs(r) ==
  /\ pc[r] = "lock" /\ Fault
  /\ Goto(r, "release")
  /\ UNCHANGED <<of, prior, tries, turns, aborted, chain, slotVars, lockVars,
                 semVars, circuitVars>>

\* The finally block deletes the key, whoever holds it by now.  It runs when
\* the work is over, but for a query as soon as its promise exists.
MutMayUnlock(r) == pc[r] = "unlock" \/ pc[r] \in InChain
MayUnlock(r) == pc[r] = "unlock" \/ (Kind(r) = "query" /\ pc[r] \in Working)
Unlock(r) ==
  /\ r \in holding /\ MayUnlock(r)
  /\ lock' = lock \ {UserOf(r)} /\ holding' = holding \ {r}
  /\ NoFault
  /\ UNCHANGED <<callVars, chain, slotVars, unlocked, semVars, circuitVars>>
UnlockErrs(r) ==
  /\ r \in holding /\ MayUnlock(r) /\ Fault
  /\ holding' = holding \ {r}
  /\ UNCHANGED <<callVars, chain, slotVars, lock, unlocked, semVars, circuitVars>>
Respond(r) ==
  /\ pc[r] = "unlock" /\ r \notin holding
  /\ Goto(r, "release")
  /\ NoFault
  /\ UNCHANGED <<of, prior, tries, turns, aborted, chain, slotVars, lockVars,
                 semVars, circuitVars>>

LockExpires(u) ==
  /\ u \in lock
  /\ IF \E r \in Requests : UserOf(r) = u /\ (r \in holding \/ pc[r] \in Working)
       THEN Fault /\ unlocked' = unlocked \union {u}
       ELSE NoFault /\ UNCHANGED unlocked
  /\ lock' = lock \ {u}
  /\ UNCHANGED <<callVars, chain, slotVars, holding, semVars, circuitVars>>

-----------------------------------------------------------------------------
(* CircuitBreakerService.execute around the executor.                      *)

Gate(r) ==
  /\ pc[r] = "gate"
  /\ Goto(r, IF FastFails THEN "unlock" ELSE IF WantsProbe THEN "probe" ELSE "submit")
  /\ prior' = [prior EXCEPT ![r] = circuit]
  /\ NoFault
  /\ UNCHANGED <<of, tries, turns, aborted, chain, slotVars, lockVars, semVars,
                 circuitVars>>
Probe(r) ==
  /\ pc[r] = "probe"
  /\ WriteHalfOpen
  /\ prior' = [prior EXCEPT ![r] = "HALF_OPEN"]
  /\ Goto(r, "submit")
  /\ NoFault
  /\ UNCHANGED <<of, tries, turns, aborted, chain, slotVars, lockVars, semVars>>

\* One step of onSuccess or onFailure.
CircuitStep(r, from, write, to) ==
  /\ pc[r] = from /\ write
  /\ Goto(r, to)
  /\ NoFault
  /\ UNCHANGED <<of, prior, tries, turns, aborted, chain, slotVars, lockVars, semVars>>
Won(r) == CircuitStep(r, "won", DeleteRecord, "reset")
Reset(r) == CircuitStep(r, "reset", DeleteFailures, "unlock")
Lost(r) == CircuitStep(r, "lost", CountFailure, IF TripsNow THEN "open" ELSE "unlock")
Open(r) == CircuitStep(r, "open", WriteOpen, "unlock")

\* Redis fails in the breaker.  In onSuccess the catch block takes it for a
\* failure of the call.
CircuitErrs(r) ==
  /\ pc[r] \in {"gate", "probe", "won", "reset", "lost", "open"} /\ Fault
  /\ Goto(r, IF pc[r] \in {"won", "reset"} THEN "lost" ELSE "unlock")
  /\ UNCHANGED <<of, prior, tries, turns, aborted, chain, slotVars, lockVars,
                 semVars, circuitVars>>

-----------------------------------------------------------------------------
(* AiExecutorService.execute.                                              *)

\* Where a call goes when its promise resolves or rejects.
AfterCall(r, ok) ==
  IF Kind(r) = "agent" THEN IF ok THEN "think" ELSE "unlock"
  ELSE IF ~ok THEN "lost"
  ELSE IF prior[r] = "HALF_OPEN" THEN "won" ELSE "unlock"

InFlight(r) ==
  {q \in Requests : ReplicaOf(q) = ReplicaOf(r) /\ KeyOf(q) = KeyOf(r)
                    /\ pc[q] \in InChain}

Submit(r) ==
  LET p == ReplicaOf(r) IN
  /\ pc[r] = "submit"
  /\ \/ /\ r \notin aborted /\ InFlight(r) # {}
        /\ Goto(r, "joined") /\ UNCHANGED chain
     \/ /\ r \in aborted \/ (InFlight(r) = {} /\ Len(chain[p]) >= MaxDepth)
        /\ Goto(r, AfterCall(r, FALSE)) /\ UNCHANGED chain
     \/ /\ r \notin aborted /\ InFlight(r) = {} /\ Len(chain[p]) < MaxDepth
        /\ Goto(r, "waiting")
        /\ chain' = [chain EXCEPT ![p] = Append(@, r)]
  /\ tries' = [tries EXCEPT ![r] = 0]
  /\ NoFault
  /\ UNCHANGED <<of, prior, turns, aborted, slotVars, lockVars, semVars, circuitVars>>

\* The promise of r resolves, for r and for the calls that share it, and the
\* chain goes on.
Settle(r) ==
  /\ pc' = [q \in Requests |->
              IF q = r \/ (pc[q] = "joined" /\ r \in InFlight(q))
                THEN AfterCall(q, TRUE) ELSE pc[q]]
  /\ chain' = [chain EXCEPT ![ReplicaOf(r)] = Tail(@)]

AtHead(r) == chain[ReplicaOf(r)] # <<>> /\ Head(chain[ReplicaOf(r)]) = r

Run(r) ==
  /\ pc[r] = "waiting" /\ AtHead(r) /\ r \notin aborted
  /\ Goto(r, "acquire")
  /\ NoFault
  /\ UNCHANGED <<of, prior, tries, turns, aborted, chain, slotVars, lockVars, semVars,
                 circuitVars>>

\* ACQUIRE_SLOT_LUA: the first holder sets the time to live.
MutHasRoom(n) == n <= GlobalLimit
HasRoom(n) == n < GlobalLimit
MutLeased(n) == lease
Leased(n) == IF n = 1 THEN TRUE ELSE lease
Acquire(r) ==
  /\ pc[r] = "acquire" /\ HasRoom(count)
  /\ count' = count + 1
  /\ lease' = Leased(count + 1)
  /\ Goto(r, "calling")
  /\ NoFault
  /\ UNCHANGED <<of, prior, tries, turns, aborted, chain, slotVars, lockVars, skewed,
                 circuitVars>>
\* Redis fails: the call is let through, and released all the same.
AcquireErrs(r) ==
  /\ pc[r] = "acquire" /\ Fault
  /\ Goto(r, "calling") /\ skewed' = TRUE
  /\ UNCHANGED <<of, prior, tries, turns, aborted, chain, slotVars, lockVars, count,
                 lease, circuitVars>>

\* The model answers or fails; a 429 is repeated MaxRetries times unless the
\* client has gone.
CallEnds(r) ==
  /\ pc[r] = "calling"
  /\ Goto(r, "free")
  /\ NoFault
  /\ UNCHANGED <<of, prior, tries, turns, aborted, chain, slotVars, lockVars, semVars,
                 circuitVars>>
RateLimited(r) ==
  /\ pc[r] = "calling" /\ tries[r] < MaxRetries /\ r \notin aborted
  /\ tries' = [tries EXCEPT ![r] = @ + 1]
  /\ NoFault
  /\ UNCHANGED <<of, pc, prior, turns, aborted, chain, slotVars, lockVars, semVars,
                 circuitVars>>

\* The finally block: DECR, and SET 0 (which drops the time to live) if that
\* went below zero.
Free(r) ==
  /\ pc[r] = "free"
  /\ count' = count - 1
  /\ \/ /\ count' < 0
        /\ Goto(r, "clamp") /\ UNCHANGED chain
     \/ /\ count' >= 0
        /\ Settle(r)
  /\ NoFault
  /\ UNCHANGED <<of, prior, tries, turns, aborted, slotVars, lockVars, lease, skewed,
                 circuitVars>>
FreeErrs(r) ==
  /\ pc[r] \in {"free", "clamp"} /\ Fault
  /\ Settle(r)
  /\ UNCHANGED <<of, prior, tries, turns, aborted, slotVars, lockVars, semVars,
                 circuitVars>>
Clamp(r) ==
  /\ pc[r] = "clamp"
  /\ count' = 0 /\ lease' = FALSE
  /\ Settle(r)
  /\ NoFault
  /\ UNCHANGED <<of, prior, tries, turns, aborted, slotVars, lockVars, skewed,
                 circuitVars>>

\* A process ends, with its requests; what they hold in Redis stays there.
Dies(p) ==
  /\ pc' = [r \in Requests |->
              IF ReplicaOf(r) = p /\ pc[r] \in Inside THEN "done" ELSE pc[r]]
  /\ chain' = [chain EXCEPT ![p] = <<>>]
  /\ holding' = {r \in holding : ReplicaOf(r) # p}

\* The promise of r rejects, and so does the second one that
\* `void promise.finally(...)` makes, which nobody handles: node ends the
\* process.  What r sends before that may reach Redis: a failure of the
\* circuit, or an agent's unlock.
Unhandled(r) ==
  /\ Dies(ReplicaOf(r))
  /\ \/ UNCHANGED <<lock, circuitVars>>
     \/ Kind(r) = "agent" /\ lock' = lock \ {UserOf(r)} /\ UNCHANGED circuitVars
     \/ Kind(r) # "agent" /\ CountFailure /\ UNCHANGED lock
  /\ UNCHANGED <<of, prior, tries, turns, aborted, slotVars, unlocked>>

\* The client has gone, there is no capacity, or the call failed.
Reject(r) ==
  /\ \/ pc[r] = "waiting" /\ AtHead(r) /\ r \in aborted /\ UNCHANGED semVars
     \/ pc[r] = "acquire" /\ ~HasRoom(count) /\ UNCHANGED semVars
     \/ pc[r] = "free" /\ count > 0 /\ count' = count - 1 /\ UNCHANGED <<lease, skewed>>
     \/ pc[r] = "clamp" /\ count' = 0 /\ lease' = FALSE /\ UNCHANGED skewed
  /\ Unhandled(r)
  /\ NoFault
RejectErrs(r) ==
  /\ pc[r] \in {"free", "clamp"} /\ Fault
  /\ Unhandled(r)
  /\ UNCHANGED semVars

LeaseExpires ==
  /\ lease
  /\ IF \E r \in Requests : pc[r] \in Calling
       THEN Fault /\ skewed' = TRUE
       ELSE NoFault /\ UNCHANGED skewed
  /\ count' = 0 /\ lease' = FALSE
  /\ UNCHANGED <<callVars, chain, slotVars, lockVars, circuitVars>>

-----------------------------------------------------------------------------
\* AgentService.runReactive: the model ends its turn, or uses tools and is
\* called again, MaxTurns times at most and only while the client is there.
MutNextTurn(n) == n
NextTurn(n) == n + 1
Think(r) ==
  /\ pc[r] = "think"
  /\ \/ Goto(r, "unlock") /\ UNCHANGED turns
     \/ /\ NextTurn(turns[r]) < MaxTurns /\ r \notin aborted
        /\ turns' = [turns EXCEPT ![r] = NextTurn(@)]
        /\ Goto(r, "submit")
  /\ NoFault
  /\ UNCHANGED <<of, prior, tries, aborted, chain, slotVars, lockVars, semVars,
                 circuitVars>>

\* The client disconnects; only ragQuery has a signal.
Abort(r) ==
  /\ Kind(r) \in {"query", "agent"} /\ pc[r] \in Inside /\ r \notin aborted
  /\ Fault
  /\ aborted' = aborted \union {r}
  /\ UNCHANGED <<of, pc, prior, tries, turns, chain, slotVars, lockVars, semVars,
                 circuitVars>>

\* A replica dies.
Crash(p) ==
  /\ Fault
  /\ \E r \in Requests : ReplicaOf(r) = p /\ pc[r] \in Inside
  /\ Dies(p)
  /\ UNCHANGED <<of, prior, tries, turns, aborted, slotVars, lock, unlocked, semVars,
                 circuitVars>>

TimePasses ==
  /\ CircuitTime
  /\ NoFault
  /\ UNCHANGED <<callVars, chain, slotVars, lockVars, semVars>>

\* What node does with a request that has arrived, without anybody's help.
Serve(r) ==
  \/ Route(r) \/ LockUser(r) \/ Unlock(r) \/ Respond(r) \/ Leave(r)
  \/ Gate(r) \/ Probe(r) \/ Won(r) \/ Reset(r) \/ Lost(r) \/ Open(r)
  \/ Submit(r) \/ Run(r) \/ Acquire(r) \/ CallEnds(r) \/ Free(r) \/ Clamp(r)
  \/ Reject(r) \/ Think(r)

Next ==
  \/ \E r \in Requests :
       \/ Enter(r) \/ EnterErrs(r) \/ Serve(r)
       \/ LeaveErrs(r) \/ LockErrs(r) \/ UnlockErrs(r) \/ CircuitErrs(r)
       \/ AcquireErrs(r) \/ RateLimited(r) \/ FreeErrs(r) \/ RejectErrs(r)
       \/ Abort(r)
  \/ \E u \in Users : SlotsExpire(u) \/ LockExpires(u)
  \/ LeaseExpires \/ TimePasses
  \/ \E p \in Replicas : Crash(p)

Spec == Init /\ [][Next]_vars
FairSpec == Spec /\ \A r \in Requests : WF_vars(Serve(r))

-----------------------------------------------------------------------------
CallingNow == {r \in Requests : pc[r] \in Calling}
InsideOf(u) == {r \in Requests : UserOf(r) = u /\ pc[r] \in Inside}

\* A user has one request at work, on all replicas and endpoints together;
\* except that a query gives the lock back at once, and that a lock may run
\* out under its holder.
OneRequestPerUser ==
  \A q, r \in Requests :
    (q # r /\ UserOf(q) = UserOf(r) /\ {pc[q], pc[r]} \subseteq Working)
      => ("query" \in {Kind(q), Kind(r)} \/ UserOf(r) \in unlocked)

\* No more calls to the model than the semaphore admits, no more requests of a
\* user than its slots, as long as neither counter was passed by or lost.
LimitsHold ==
  /\ ~skewed => Cardinality(CallingNow) <= GlobalLimit
  /\ \A u \in Users \ strays : Cardinality(InsideOf(u)) <= MaxSlots[u]

\* Capacity that a dead holder keeps comes back: whenever the semaphore counts
\* one, its key has a time to live, also after the clamp has dropped it.
CounterHasLease == count > 0 => lease

\* Every request that was let in is answered (or dies with its replica): no
\* wait for the chain, the semaphore, a shared promise or the tools is endless.
RequestsEnd == \A r \in Requests : pc[r] = "route" ~> pc[r] = "done"
=============================================================================
