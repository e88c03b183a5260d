-------------------------- MODULE AiRequestsProofs --------------------------
(***************************************************************************)
(* Theorems about AiRequests, for every finite set of requests, every      *)
(* distribution over users, replicas and kinds, and all limits.            *)
(***************************************************************************)
EXTENDS AiRequests, FiniteSetTheorems, TLAPS

\* What the lock of a user protects as long as it never expires early: one
\* request holds it, the key is there, and whoever works holds it, unless it
\* is a query.
Locked ==
  \A u \in Users \ unlocked :
    /\ \A r \in holding : UserOf(r) = u => u \in lock
    /\ \A q, r \in holding : UserOf(q) = u /\ UserOf(r) = u => q = r
    /\ \A r \in Requests :
         (UserOf(r) = u /\ pc[r] \in Working /\ Kind(r) # "query") => r \in holding

\* The semaphore counts at least the calls under way and is never clamped.
Counted ==
  ~skewed => /\ Cardinality(CallingNow) <= count
             /\ \A r \in Requests : pc[r] # "clamp"

\* So do the slots of a user for its requests.
Slotted == \A u \in Users \ strays : Cardinality(InsideOf(u)) <= slots[u]

\* Who is past its turn in the chain of a replica is its head.
Heads ==
  \A r \in Requests :
    pc[r] \in {"acquire", "calling", "free", "clamp"} => AtHead(r)

Inductive == TypeOK /\ Heads /\ Locked /\ Counted /\ Slotted /\ CounterHasLease

-----------------------------------------------------------------------------
FormsTyped ==
  \A r \in Requests : of[r].user \in Users /\ of[r].replica \in Replicas

LEMMA FormTypes ==
  ASSUME TypeOK
  PROVE  FormsTyped
BY RequestAssumption DEF TypeOK, Forms, FormsTyped

ChainsTyped == chain \in [Replicas -> Seq(Requests)]
Appended(p, r) == chain' = [chain EXCEPT ![p] = Append(@, r)]
Shifted(p) == chain' = [chain EXCEPT ![p] = Tail(@)]

\* Where a settled promise leaves its caller, and those that share it.
Settled == {"think", "unlock", "won", "lost"}
SettleMoves(r) ==
  /\ pc' \in [Requests -> {"idle", "done"} \union Inside]
  /\ pc'[r] \in Settled
  /\ \A q \in Requests \ {r} :
       pc'[q] = pc[q] \/ (pc[q] = "joined" /\ pc'[q] \in Settled)
  /\ Shifted(ReplicaOf(r))

LEMMA AppendTypes ==
  ASSUME ChainsTyped, NEW p \in Replicas, NEW r \in Requests, Appended(p, r)
  PROVE  ChainsTyped'
BY DEF ChainsTyped, Appended

LEMMA ShiftTypes ==
  ASSUME ChainsTyped, NEW p \in Replicas, chain[p] # <<>>, Shifted(p)
  PROVE  ChainsTyped'
BY DEF ChainsTyped, Shifted

LEMMA ChainHeads ==
  ASSUME ChainsTyped, NEW p \in Replicas, NEW r \in Requests, Appended(p, r),
         NEW q \in Replicas, chain[q] # <<>>
  PROVE  chain'[q] # <<>> /\ Head(chain'[q]) = Head(chain[q])
<1>1. chain[q] \in Seq(Requests)
  BY DEF ChainsTyped
<1>2. Append(chain[q], r) # <<>> /\ Head(Append(chain[q], r)) = Head(chain[q])
  BY <1>1
<1>3. chain'[q] = chain[q] \/ chain'[q] = Append(chain[q], r)
  BY DEF ChainsTyped, Appended
<1> QED
  BY <1>2, <1>3

LEMMA AcquireTypes ==
  ASSUME count \in Int, count <= GlobalLimit, lease \in BOOLEAN, NEW r, Acquire(r)
  PROVE  /\ count' \in Int /\ count' <= GlobalLimit
         /\ lease' \in BOOLEAN
         /\ CounterHasLease => CounterHasLease'
<1>1. count' = count + 1 /\ lease' = Leased(count + 1) /\ count < GlobalLimit
  BY DEF Acquire, HasRoom
<1>2. GlobalLimit \in Int
  BY LimitAssumption
<1>3. count' \in Int /\ count' <= GlobalLimit
  BY <1>1, <1>2
<1>4. lease' = TRUE \/ (count + 1 # 1 /\ lease' = lease)
  BY <1>1, Zenon DEF Leased
<1>5. count + 1 # 1 => ~(count' > 0) \/ count > 0
  BY <1>1
<1> QED
  BY <1>3, <1>4, <1>5, Zenon DEF CounterHasLease

LEMMA NoneTypes ==
  ASSUME count' = 0
  PROVE  count' \in Int /\ count' <= GlobalLimit
BY LimitAssumption

LEMMA TurnTypes ==
  ASSUME turns \in [Requests -> 0 .. MaxTurns], NEW r \in Requests, Think(r)
  PROVE  turns' \in [Requests -> 0 .. MaxTurns]
BY LimitAssumption DEF Think, NextTurn

LEMMA SlotTypes ==
  ASSUME slots \in [Users -> Nat], \A u \in Users : slots[u] <= MaxSlots[u],
         FormsTyped, NEW r \in Requests, Enter(r)
  PROVE  slots' \in [Users -> Nat] /\ \A u \in Users : slots'[u] <= MaxSlots[u]
BY LimitAssumption DEF Enter, FormsTyped, UserOf

LEMMA FailureTypes ==
  ASSUME CircuitTypeOK, CircuitTime
  PROVE  CircuitTypeOK'
<1>1. CASE FailureLeaves
  <2>1. failures' \in 0 .. Threshold
    BY <1>1, ThresholdAssumption DEF CircuitTypeOK, FailureLeaves
  <2> QED
    BY <1>1, <2>1 DEF CircuitTypeOK, FailureLeaves
<1>2. CASE Cool \/ RecordExpires
  BY <1>2 DEF CircuitTypeOK, Cool, RecordExpires, DeleteRecord
<1> QED
  BY <1>1, <1>2 DEF CircuitTime

LEMMA AfterCallEnds ==
  ASSUME NEW r, NEW ok \in BOOLEAN
  PROVE  AfterCall(r, ok) \in Settled
BY DEF AfterCall, Settled

LEMMA SettleFacts ==
  ASSUME TypeOK, NEW r \in Requests, Settle(r)
  PROVE  SettleMoves(r)
<1>1. \A q \in Requests : AfterCall(q, TRUE) \in Settled
  BY AfterCallEnds
<1>2. pc' \in [Requests -> {"idle", "done"} \union Inside]
  BY <1>1 DEF Settle, TypeOK, Settled, Inside, Working, InChain
<1>3. pc'[r] \in Settled
  BY <1>1 DEF Settle
<1>4. \A q \in Requests \ {r} :
        pc'[q] = pc[q] \/ (pc[q] = "joined" /\ pc'[q] \in Settled)
  BY <1>1 DEF Settle
<1> QED
  BY <1>2, <1>3, <1>4 DEF SettleMoves, Settle, Shifted

LEMMA UnhandledTypes ==
  ASSUME TypeOK, NEW r \in Requests, Unhandled(r)
  PROVE  /\ CircuitTypeOK'
         /\ pc' \in [Requests -> {"idle", "done"} \union Inside]
         /\ ChainsTyped'
         /\ lock' \subseteq Users /\ holding' \subseteq Requests
         /\ UNCHANGED <<of, prior, tries, turns, aborted, slots, strays, unlocked>>
<1>1. CircuitTypeOK'
  <2>1. CASE UNCHANGED circuitVars
    BY <2>1 DEF TypeOK, CircuitTypeOK, circuitVars
  <2>2. CASE CountFailure
    <3>1. failures' \in 0 .. Threshold
      BY <2>2, ThresholdAssumption DEF TypeOK, CircuitTypeOK, CountFailure, TripsNow
    <3> QED
      BY <2>2, <3>1 DEF TypeOK, CircuitTypeOK, CountFailure
  <2> QED
    BY <2>1, <2>2 DEF Unhandled
<1>2. pc' \in [Requests -> {"idle", "done"} \union Inside]
  BY DEF TypeOK, Unhandled, Dies
<1>3. ChainsTyped'
  <2>1. chain' = [chain EXCEPT ![ReplicaOf(r)] = <<>>]
    BY DEF Unhandled, Dies
  <2>2. chain \in [Replicas -> Seq(Requests)] /\ <<>> \in Seq(Requests)
    BY DEF TypeOK
  <2> HIDE DEF ReplicaOf
  <2> QED
    BY <2>1, <2>2 DEF ChainsTyped
<1>4. lock' \subseteq Users /\ holding' \subseteq Requests
  BY DEF TypeOK, Unhandled, Dies
<1> QED
  BY <1>1, <1>2, <1>3, <1>4 DEF Unhandled, slotVars

\* Every step keeps the types.
LEMMA TypeStep ==
  ASSUME TypeOK, Heads, [Next]_vars
  PROVE  TypeOK'
<1>0. FormsTyped
  BY FormTypes
<1> USE <1>0, LimitAssumption, ThresholdAssumption
    DEF TypeOK, CircuitTypeOK, FormsTyped, UserOf, ReplicaOf, KeyOf, Kind, InChain, Working, Inside, Calling, vars, callVars, slotVars, lockVars, semVars, circuitVars
<1>1. ASSUME NEW r \in Requests, Enter(r) PROVE TypeOK'
  <2>1. slots' \in [Users -> Nat] /\ \A u \in Users : slots'[u] <= MaxSlots[u]
    BY <1>1, SlotTypes DEF Enter
  <2> QED
    BY <1>1, <2>1 DEF Enter, Goto, NoFault
<1>2. ASSUME NEW r \in Requests, EnterErrs(r) PROVE TypeOK'
  BY <1>2 DEF EnterErrs, Goto, Fault
<1>3. ASSUME NEW r \in Requests, Route(r) PROVE TypeOK'
  BY <1>3 DEF Route, Goto, NoFault
<1>4. ASSUME NEW r \in Requests, LockUser(r) PROVE TypeOK'
  BY <1>4 DEF LockUser, Goto, NoFault
<1>5. ASSUME NEW r \in Requests, Unlock(r) PROVE TypeOK'
  BY <1>5 DEF Unlock, Goto, NoFault, MayUnlock
<1>6. ASSUME NEW r \in Requests, Respond(r) PROVE TypeOK'
  BY <1>6 DEF Respond, Goto, NoFault
<1>7. ASSUME NEW r \in Requests, Leave(r) PROVE TypeOK'
  BY <1>7 DEF Leave, Goto, NoFault
<1>8. ASSUME NEW r \in Requests, Gate(r) PROVE TypeOK'
  BY <1>8 DEF Gate, Goto, NoFault, FastFails, WantsProbe
<1>9. ASSUME NEW r \in Requests, Probe(r) PROVE TypeOK'
  BY <1>9 DEF Probe, Goto, NoFault, WriteHalfOpen
<1>10. ASSUME NEW r \in Requests, Won(r) PROVE TypeOK'
  BY <1>10 DEF Won, CircuitStep, Goto, NoFault, DeleteRecord
<1>11. ASSUME NEW r \in Requests, Reset(r) PROVE TypeOK'
  BY <1>11 DEF Reset, CircuitStep, Goto, NoFault, DeleteFailures
<1>12. ASSUME NEW r \in Requests, Lost(r) PROVE TypeOK'
  BY <1>12 DEF Lost, CircuitStep, Goto, NoFault, CountFailure, TripsNow
<1>13. ASSUME NEW r \in Requests, Open(r) PROVE TypeOK'
  BY <1>13 DEF Open, CircuitStep, Goto, NoFault, WriteOpen
<1>14. ASSUME NEW r \in Requests, Submit(r) PROVE TypeOK'
  <2>1. \E to \in Settled \union {"joined", "waiting"} : Goto(r, to)
    BY <1>14, AfterCallEnds DEF Submit
  <2>2. UNCHANGED chain \/ Appended(ReplicaOf(r), r)
    BY <1>14 DEF Submit, Appended
  <2>3. ChainsTyped'
    <3>1. ChainsTyped /\ ReplicaOf(r) \in Replicas
      BY DEF ChainsTyped
    <3> HIDE DEF ReplicaOf
    <3> QED
      BY <2>2, <3>1, AppendTypes DEF ChainsTyped
  <2> QED
    BY <1>14, <2>1, <2>3 DEF ChainsTyped, Submit, Goto, NoFault, Settled
<1>15. ASSUME NEW r \in Requests, Run(r) PROVE TypeOK'
  BY <1>15 DEF Run, Goto, NoFault
<1>16. ASSUME NEW r \in Requests, Acquire(r) PROVE TypeOK'
  <2>1. count' \in Int /\ count' <= GlobalLimit /\ lease' \in BOOLEAN
    BY <1>16, AcquireTypes
  <2> QED
    BY <1>16, <2>1 DEF Acquire, Goto, NoFault
<1>17. ASSUME NEW r \in Requests, CallEnds(r) PROVE TypeOK'
  BY <1>17 DEF CallEnds, Goto, NoFault
<1>18. ASSUME NEW r \in Requests, Free(r) PROVE TypeOK'
  <2>1. IF count' < 0 THEN Goto(r, "clamp") /\ UNCHANGED chain ELSE SettleMoves(r)
    BY <1>18, SettleFacts DEF Free
  <2>2. AtHead(r)
    BY <1>18 DEF Free, Heads
  <2>3. ChainsTyped'
    <3>1. ChainsTyped /\ ReplicaOf(r) \in Replicas /\ chain[ReplicaOf(r)] # <<>>
      BY <2>2 DEF ChainsTyped, AtHead
    <3> HIDE DEF ReplicaOf
    <3> QED
      BY <2>1, <3>1, ShiftTypes DEF ChainsTyped, SettleMoves
  <2>4. count' \in Int /\ count' <= GlobalLimit
    BY <1>18, LimitAssumption DEF Free
  <2> QED
    BY <1>18, <2>1, <2>3, <2>4 DEF ChainsTyped, Free, Goto, NoFault, SettleMoves, Settled
<1>19. ASSUME NEW r \in Requests, Clamp(r) PROVE TypeOK'
  <2>1. SettleMoves(r)
    BY <1>19, SettleFacts DEF Clamp
  <2>2. AtHead(r)
    BY <1>19 DEF Clamp, Heads
  <2>3. ChainsTyped'
    <3>1. ChainsTyped /\ ReplicaOf(r) \in Replicas /\ chain[ReplicaOf(r)] # <<>>
      BY <2>2 DEF ChainsTyped, AtHead
    <3> HIDE DEF ReplicaOf
    <3> QED
      BY <2>1, <3>1, ShiftTypes DEF ChainsTyped, SettleMoves
  <2>4. count' \in Int /\ count' <= GlobalLimit
    BY <1>19, NoneTypes DEF Clamp
  <2> QED
    BY <1>19, <2>4, <2>1, <2>3 DEF ChainsTyped, Clamp, Goto, NoFault, SettleMoves, Settled
<1>20. ASSUME NEW r \in Requests, Think(r) PROVE TypeOK'
  <2>1. turns' \in [Requests -> 0 .. MaxTurns]
    BY <1>20, TurnTypes DEF Think
  <2> QED
    BY <1>20, <2>1 DEF Think, Goto, NoFault
<1>21. ASSUME NEW r \in Requests, LeaveErrs(r) PROVE TypeOK'
  BY <1>21 DEF LeaveErrs, Goto, Fault
<1>22. ASSUME NEW r \in Requests, LockErrs(r) PROVE TypeOK'
  BY <1>22 DEF LockErrs, Goto, Fault
<1>23. ASSUME NEW r \in Requests, UnlockErrs(r) PROVE TypeOK'
  BY <1>23 DEF UnlockErrs, Fault, MayUnlock
<1>24. ASSUME NEW r \in Requests, CircuitErrs(r) PROVE TypeOK'
  BY <1>24 DEF CircuitErrs, Goto, Fault
<1>25. ASSUME NEW r \in Requests, AcquireErrs(r) PROVE TypeOK'
  BY <1>25 DEF AcquireErrs, Goto, Fault
<1>26. ASSUME NEW r \in Requests, RateLimited(r) PROVE TypeOK'
  BY <1>26 DEF RateLimited, NoFault
<1>27. ASSUME NEW r \in Requests, FreeErrs(r) PROVE TypeOK'
  <2>1. SettleMoves(r)
    BY <1>27, SettleFacts DEF FreeErrs
  <2>2. AtHead(r)
    BY <1>27 DEF FreeErrs, Heads
  <2>3. ChainsTyped'
    <3>1. ChainsTyped /\ ReplicaOf(r) \in Replicas /\ chain[ReplicaOf(r)] # <<>>
      BY <2>2 DEF ChainsTyped, AtHead
    <3> HIDE DEF ReplicaOf
    <3> QED
      BY <2>1, <3>1, ShiftTypes DEF ChainsTyped, SettleMoves
  <2> QED
    BY <1>27, <2>1, <2>3 DEF ChainsTyped, FreeErrs, Fault, Goto, SettleMoves, Settled
<1>28. ASSUME NEW r \in Requests, Abort(r) PROVE TypeOK'
  BY <1>28 DEF Abort, Fault
<1>29. ASSUME NEW u \in Users, SlotsExpire(u) PROVE TypeOK'
  BY <1>29 DEF SlotsExpire, Fault, NoFault
<1>30. ASSUME NEW u \in Users, LockExpires(u) PROVE TypeOK'
  BY <1>30 DEF LockExpires, Fault, NoFault
<1>31. CASE LeaseExpires
  <2>1. count' \in Int /\ count' <= GlobalLimit
    BY <1>31, NoneTypes DEF LeaseExpires
  <2>2. lease' \in BOOLEAN /\ skewed' \in BOOLEAN
    BY <1>31 DEF LeaseExpires
  <2>3. faults' \in 0 .. MaxFaults
    BY <1>31 DEF LeaseExpires, Fault, NoFault
  <2> QED
    BY <1>31, <2>1, <2>2, <2>3 DEF LeaseExpires
<1>32. CASE TimePasses
  <2>1. CircuitTypeOK'
    BY <1>32, FailureTypes DEF TimePasses
  <2> QED
    BY <1>32, <2>1 DEF TimePasses, NoFault
<1>33. ASSUME NEW p \in Replicas, Crash(p) PROVE TypeOK'
  BY <1>33 DEF Crash, Dies, Fault
<1>34. ASSUME NEW r \in Requests, Reject(r) PROVE TypeOK'
  <2>1. count' \in Int /\ count' <= GlobalLimit
    <3>1. GlobalLimit \in Nat
      BY LimitAssumption
    <3>2. count' \in {count, count - 1, 0}
      BY <1>34 DEF Reject
    <3> QED
      BY <3>1, <3>2
  <2>2. lease' \in BOOLEAN /\ skewed' \in BOOLEAN
    BY <1>34 DEF Reject
  <2>3. Unhandled(r) /\ UNCHANGED faults
    BY <1>34 DEF Reject, NoFault
  <2> QED
    BY <2>1, <2>2, <2>3, UnhandledTypes DEF ChainsTyped
<1>35. ASSUME NEW r \in Requests, RejectErrs(r) PROVE TypeOK'
  <2>1. Unhandled(r) /\ UNCHANGED semVars /\ faults' \in 0 .. MaxFaults
    BY <1>35 DEF RejectErrs, Fault
  <2> QED
    BY <2>1, UnhandledTypes DEF ChainsTyped
<1>36. CASE UNCHANGED vars
  BY <1>36
<1> QED
  BY <1>1, <1>2, <1>3, <1>4, <1>5, <1>6, <1>7, <1>8, <1>9, <1>10, <1>11, <1>12, <1>13, <1>14, <1>15, <1>16, <1>17, <1>18, <1>19, <1>20, <1>21, <1>22, <1>23, <1>24, <1>25, <1>26, <1>27, <1>28, <1>29, <1>30, <1>31, <1>32, <1>33, <1>34, <1>35, <1>36 DEF Next, Serve

LEMMA HeadsSettle ==
  ASSUME ChainsTyped, FormsTyped, Heads, NEW r \in Requests, AtHead(r), SettleMoves(r),
         of' = of
  PROVE  Heads'
<1>1. SUFFICES ASSUME NEW q \in Requests,
                      pc'[q] \in {"acquire", "calling", "free", "clamp"}
               PROVE  AtHead(q)'
  BY DEF Heads
<1>2. q # r /\ pc'[q] = pc[q]
  BY <1>1 DEF SettleMoves, Settled
<1>3. AtHead(q)
  BY <1>1, <1>2 DEF Heads
<1>4. ReplicaOf(q) # ReplicaOf(r)
  BY <1>2, <1>3 DEF AtHead
<1>5. chain'[ReplicaOf(q)] = chain[ReplicaOf(q)]
  BY <1>4 DEF SettleMoves, Shifted, ChainsTyped, FormsTyped, ReplicaOf
<1> QED
  BY <1>3, <1>5 DEF AtHead, ReplicaOf

\* Who leaves the chain is its head, so the next one is alone past its turn.
LEMMA HeadsStep ==
  ASSUME TypeOK, Heads, [Next]_vars
  PROVE  Heads'
<1>0. FormsTyped
  BY FormTypes
<1> USE <1>0, LimitAssumption, ThresholdAssumption
    DEF TypeOK, Heads, AtHead, FormsTyped, UserOf, ReplicaOf, KeyOf, Kind, InChain, Working, Inside, Calling, vars, callVars, slotVars, lockVars, semVars, circuitVars
<1>1. ASSUME NEW r \in Requests, Enter(r) PROVE Heads'
  BY <1>1 DEF Enter, Goto, NoFault
<1>2. ASSUME NEW r \in Requests, EnterErrs(r) PROVE Heads'
  BY <1>2 DEF EnterErrs, Goto, Fault
<1>3. ASSUME NEW r \in Requests, Route(r) PROVE Heads'
  BY <1>3 DEF Route, Goto, NoFault
<1>4. ASSUME NEW r \in Requests, LockUser(r) PROVE Heads'
  BY <1>4 DEF LockUser, Goto, NoFault
<1>5. ASSUME NEW r \in Requests, Unlock(r) PROVE Heads'
  BY <1>5 DEF Unlock, Goto, NoFault, MayUnlock
<1>6. ASSUME NEW r \in Requests, Respond(r) PROVE Heads'
  BY <1>6 DEF Respond, Goto, NoFault
<1>7. ASSUME NEW r \in Requests, Leave(r) PROVE Heads'
  BY <1>7 DEF Leave, Goto, NoFault
<1>8. ASSUME NEW r \in Requests, Gate(r) PROVE Heads'
  BY <1>8 DEF Gate, Goto, NoFault, FastFails, WantsProbe
<1>9. ASSUME NEW r \in Requests, Probe(r) PROVE Heads'
  BY <1>9 DEF Probe, Goto, NoFault, WriteHalfOpen
<1>10. ASSUME NEW r \in Requests, Won(r) PROVE Heads'
  BY <1>10 DEF Won, CircuitStep, Goto, NoFault, DeleteRecord
<1>11. ASSUME NEW r \in Requests, Reset(r) PROVE Heads'
  BY <1>11 DEF Reset, CircuitStep, Goto, NoFault, DeleteFailures
<1>12. ASSUME NEW r \in Requests, Lost(r) PROVE Heads'
  BY <1>12 DEF Lost, CircuitStep, Goto, NoFault, CountFailure, TripsNow
<1>13. ASSUME NEW r \in Requests, Open(r) PROVE Heads'
  BY <1>13 DEF Open, CircuitStep, Goto, NoFault, WriteOpen
<1>14. ASSUME NEW r \in Requests, Submit(r) PROVE Heads'
  <2>1. \E to \in Settled \union {"joined", "waiting"} : Goto(r, to)
    BY <1>14, AfterCallEnds DEF Submit
  <2>2. UNCHANGED chain \/ Appended(ReplicaOf(r), r)
    BY <1>14 DEF Submit, Appended
  <2>3. \A p \in Replicas : chain[p] # <<>> =>
                             chain'[p] # <<>> /\ Head(chain'[p]) = Head(chain[p])
    <3>1. ChainsTyped /\ ReplicaOf(r) \in Replicas
      BY DEF ChainsTyped
    <3> HIDE DEF ReplicaOf
    <3> QED
      BY <2>2, <3>1, ChainHeads
  <2>4. \A q \in Requests : AtHead(q) => AtHead(q)'
    BY <1>14, <2>3 DEF Submit
  <2> QED
    BY <1>14, <2>1, <2>4 DEF Submit, Goto, Settled
<1>15. ASSUME NEW r \in Requests, Run(r) PROVE Heads'
  BY <1>15 DEF Run, Goto, NoFault
<1>16. ASSUME NEW r \in Requests, Acquire(r) PROVE Heads'
  BY <1>16 DEF Acquire, Goto, NoFault
<1>17. ASSUME NEW r \in Requests, CallEnds(r) PROVE Heads'
  BY <1>17 DEF CallEnds, Goto, NoFault
<1>18. ASSUME NEW r \in Requests, Free(r) PROVE Heads'
  <2>1. IF count' < 0 THEN Goto(r, "clamp") /\ UNCHANGED chain ELSE SettleMoves(r)
    BY <1>18, SettleFacts DEF Free
  <2>2. AtHead(r) /\ of' = of
    BY <1>18 DEF Free
  <2>3. CASE SettleMoves(r)
    BY <2>2, <2>3, HeadsSettle DEF ChainsTyped
  <2>4. CASE UNCHANGED chain /\ Goto(r, "clamp")
    BY <2>2, <2>4 DEF Goto, AtHead
  <2> QED
    BY <2>1, <2>3, <2>4
<1>19. ASSUME NEW r \in Requests, Clamp(r) PROVE Heads'
  <2>1. SettleMoves(r)
    BY <1>19, SettleFacts DEF Clamp
  <2>2. AtHead(r) /\ of' = of
    BY <1>19 DEF Clamp
  <2>3. CASE SettleMoves(r)
    BY <2>2, <2>3, HeadsSettle DEF ChainsTyped
  <2> QED
    BY <2>1, <2>3
<1>20. ASSUME NEW r \in Requests, Think(r) PROVE Heads'
  BY <1>20 DEF Think, Goto, NoFault, NextTurn
<1>21. ASSUME NEW r \in Requests, LeaveErrs(r) PROVE Heads'
  BY <1>21 DEF LeaveErrs, Goto, Fault
<1>22. ASSUME NEW r \in Requests, LockErrs(r) PROVE Heads'
  BY <1>22 DEF LockErrs, Goto, Fault
<1>23. ASSUME NEW r \in Requests, UnlockErrs(r) PROVE Heads'
  BY <1>23 DEF UnlockErrs, Fault, MayUnlock
<1>24. ASSUME NEW r \in Requests, CircuitErrs(r) PROVE Heads'
  BY <1>24 DEF CircuitErrs, Goto, Fault
<1>25. ASSUME NEW r \in Requests, AcquireErrs(r) PROVE Heads'
  BY <1>25 DEF AcquireErrs, Goto, Fault
<1>26. ASSUME NEW r \in Requests, RateLimited(r) PROVE Heads'
  BY <1>26 DEF RateLimited, NoFault
<1>27. ASSUME NEW r \in Requests, FreeErrs(r) PROVE Heads'
  <2>1. SettleMoves(r)
    BY <1>27, SettleFacts DEF FreeErrs
  <2>2. AtHead(r) /\ of' = of
    BY <1>27 DEF FreeErrs
  <2>3. CASE SettleMoves(r)
    BY <2>2, <2>3, HeadsSettle DEF ChainsTyped
  <2> QED
    BY <2>1, <2>3
<1>28. ASSUME NEW r \in Requests, Abort(r) PROVE Heads'
  BY <1>28 DEF Abort, Fault
<1>29. ASSUME NEW u \in Users, SlotsExpire(u) PROVE Heads'
  BY <1>29 DEF SlotsExpire, Fault, NoFault
<1>30. ASSUME NEW u \in Users, LockExpires(u) PROVE Heads'
  BY <1>30 DEF LockExpires, Fault, NoFault
<1>31. CASE LeaseExpires
  BY <1>31 DEF LeaseExpires, Fault, NoFault
<1>32. CASE TimePasses
  BY <1>32 DEF TimePasses, NoFault, CircuitTime, Cool, FailureLeaves, RecordExpires, DeleteRecord
<1>33. ASSUME NEW p \in Replicas, Crash(p) PROVE Heads'
  BY <1>33 DEF Crash, Dies, Fault
<1>34. ASSUME NEW r \in Requests, Reject(r) PROVE Heads'
  BY <1>34 DEF Reject, NoFault, Dies, Unhandled, CountFailure
<1>35. ASSUME NEW r \in Requests, RejectErrs(r) PROVE Heads'
  BY <1>35 DEF RejectErrs, Fault, Dies, Unhandled, CountFailure
<1>36. CASE UNCHANGED vars
  BY <1>36
<1> QED
  BY <1>1, <1>2, <1>3, <1>4, <1>5, <1>6, <1>7, <1>8, <1>9, <1>10, <1>11, <1>12, <1>13, <1>14, <1>15, <1>16, <1>17, <1>18, <1>19, <1>20, <1>21, <1>22, <1>23, <1>24, <1>25, <1>26, <1>27, <1>28, <1>29, <1>30, <1>31, <1>32, <1>33, <1>34, <1>35, <1>36 DEF Next, Serve

\* A counted holder has a lease.
LEMMA LeaseStep ==
  ASSUME TypeOK, CounterHasLease, [Next]_vars
  PROVE  CounterHasLease'
<1>0. FormsTyped
  BY FormTypes
<1> USE <1>0, LimitAssumption, ThresholdAssumption
    DEF TypeOK, CounterHasLease, vars, semVars
<1>1. ASSUME NEW r \in Requests, Enter(r) PROVE CounterHasLease'
  BY <1>1 DEF Enter, Goto, NoFault
<1>2. ASSUME NEW r \in Requests, EnterErrs(r) PROVE CounterHasLease'
  BY <1>2 DEF EnterErrs, Goto, Fault
<1>3. ASSUME NEW r \in Requests, Route(r) PROVE CounterHasLease'
  BY <1>3 DEF Route, Goto, NoFault
<1>4. ASSUME NEW r \in Requests, LockUser(r) PROVE CounterHasLease'
  BY <1>4 DEF LockUser, Goto, NoFault
<1>5. ASSUME NEW r \in Requests, Unlock(r) PROVE CounterHasLease'
  BY <1>5 DEF Unlock, Goto, NoFault, MayUnlock
<1>6. ASSUME NEW r \in Requests, Respond(r) PROVE CounterHasLease'
  BY <1>6 DEF Respond, Goto, NoFault
<1>7. ASSUME NEW r \in Requests, Leave(r) PROVE CounterHasLease'
  BY <1>7 DEF Leave, Goto, NoFault
<1>8. ASSUME NEW r \in Requests, Gate(r) PROVE CounterHasLease'
  BY <1>8 DEF Gate, Goto, NoFault, FastFails, WantsProbe
<1>9. ASSUME NEW r \in Requests, Probe(r) PROVE CounterHasLease'
  BY <1>9 DEF Probe, Goto, NoFault, WriteHalfOpen
<1>10. ASSUME NEW r \in Requests, Won(r) PROVE CounterHasLease'
  BY <1>10 DEF Won, CircuitStep, Goto, NoFault, DeleteRecord
<1>11. ASSUME NEW r \in Requests, Reset(r) PROVE CounterHasLease'
  BY <1>11 DEF Reset, CircuitStep, Goto, NoFault, DeleteFailures
<1>12. ASSUME NEW r \in Requests, Lost(r) PROVE CounterHasLease'
  BY <1>12 DEF Lost, CircuitStep, Goto, NoFault, CountFailure, TripsNow
<1>13. ASSUME NEW r \in Requests, Open(r) PROVE CounterHasLease'
  BY <1>13 DEF Open, CircuitStep, Goto, NoFault, WriteOpen
<1>14. ASSUME NEW r \in Requests, Submit(r) PROVE CounterHasLease'
  BY <1>14 DEF Submit, AfterCall, InFlight, Goto, NoFault
<1>15. ASSUME NEW r \in Requests, Run(r) PROVE CounterHasLease'
  BY <1>15 DEF Run, Goto, NoFault
<1>16. ASSUME NEW r \in Requests, Acquire(r) PROVE CounterHasLease'
  BY <1>16, AcquireTypes
<1>17. ASSUME NEW r \in Requests, CallEnds(r) PROVE CounterHasLease'
  BY <1>17 DEF CallEnds, Goto, NoFault
<1>18. ASSUME NEW r \in Requests, Free(r) PROVE CounterHasLease'
  BY <1>18 DEF Free, Goto, NoFault
<1>19. ASSUME NEW r \in Requests, Clamp(r) PROVE CounterHasLease'
  BY <1>19 DEF Clamp, Goto, NoFault
<1>20. ASSUME NEW r \in Requests, Think(r) PROVE CounterHasLease'
  BY <1>20 DEF Think, Goto, NoFault, NextTurn
<1>21. ASSUME NEW r \in Requests, LeaveErrs(r) PROVE CounterHasLease'
  BY <1>21 DEF LeaveErrs, Goto, Fault
<1>22. ASSUME NEW r \in Requests, LockErrs(r) PROVE CounterHasLease'
  BY <1>22 DEF LockErrs, Goto, Fault
<1>23. ASSUME NEW r \in Requests, UnlockErrs(r) PROVE CounterHasLease'
  BY <1>23 DEF UnlockErrs, Fault, MayUnlock
<1>24. ASSUME NEW r \in Requests, CircuitErrs(r) PROVE CounterHasLease'
  BY <1>24 DEF CircuitErrs, Goto, Fault
<1>25. ASSUME NEW r \in Requests, AcquireErrs(r) PROVE CounterHasLease'
  BY <1>25 DEF AcquireErrs, Goto, Fault
<1>26. ASSUME NEW r \in Requests, RateLimited(r) PROVE CounterHasLease'
  BY <1>26 DEF RateLimited, NoFault
<1>27. ASSUME NEW r \in Requests, FreeErrs(r) PROVE CounterHasLease'
  BY <1>27 DEF FreeErrs, Fault, Goto
<1>28. ASSUME NEW r \in Requests, Abort(r) PROVE CounterHasLease'
  BY <1>28 DEF Abort, Fault
<1>29. ASSUME NEW u \in Users, SlotsExpire(u) PROVE CounterHasLease'
  BY <1>29 DEF SlotsExpire, Fault, NoFault
<1>30. ASSUME NEW u \in Users, LockExpires(u) PROVE CounterHasLease'
  BY <1>30 DEF LockExpires, Fault, NoFault
<1>31. CASE LeaseExpires
  BY <1>31 DEF LeaseExpires, Fault, NoFault
<1>32. CASE TimePasses
  BY <1>32 DEF TimePasses, NoFault, CircuitTime, Cool, FailureLeaves, RecordExpires, DeleteRecord
<1>33. ASSUME NEW p \in Replicas, Crash(p) PROVE CounterHasLease'
  BY <1>33 DEF Crash, Dies, Fault
<1>34. ASSUME NEW r \in Requests, Reject(r) PROVE CounterHasLease'
  BY <1>34 DEF Reject, NoFault, Dies, Unhandled, CountFailure
<1>35. ASSUME NEW r \in Requests, RejectErrs(r) PROVE CounterHasLease'
  BY <1>35 DEF RejectErrs, Fault, Dies, Unhandled, CountFailure
<1>36. CASE UNCHANGED vars
  BY <1>36
<1> QED
  BY <1>1, <1>2, <1>3, <1>4, <1>5, <1>6, <1>7, <1>8, <1>9, <1>10, <1>11, <1>12, <1>13, <1>14, <1>15, <1>16, <1>17, <1>18, <1>19, <1>20, <1>21, <1>22, <1>23, <1>24, <1>25, <1>26, <1>27, <1>28, <1>29, <1>30, <1>31, <1>32, <1>33, <1>34, <1>35, <1>36 DEF Next, Serve

\* A promise that rejects takes its lock with it, or leaves it without a holder.
LEMMA UnhandledLocked ==
  ASSUME TypeOK, FormsTyped, Locked, NEW r \in Requests, pc[r] \in InChain, Unhandled(r)
  PROVE  Locked'
<1> USE DEF FormsTyped, UserOf, ReplicaOf, Kind
<1>1. /\ holding' = {q \in holding : ReplicaOf(q) # ReplicaOf(r)}
      /\ \A q \in Requests : pc'[q] \in Working =>
           pc[q] \in Working /\ ReplicaOf(q) # ReplicaOf(r)
      /\ of' = of /\ unlocked' = unlocked
  BY DEF Unhandled, Dies, TypeOK, Working, InChain
<1>2. lock' = lock \/ (Kind(r) = "agent" /\ lock' = lock \ {UserOf(r)})
  BY DEF Unhandled
<1>3. holding \subseteq Requests
  BY DEF TypeOK
<1>4. SUFFICES ASSUME NEW u \in Users \ unlocked
               PROVE  /\ \A q \in holding' : UserOf(q) = u => u \in lock'
                      /\ \A q, t \in holding' : UserOf(q) = u /\ UserOf(t) = u => q = t
                      /\ \A q \in Requests :
                           (UserOf(q) = u /\ pc'[q] \in Working /\ Kind(q) # "query")
                              => q \in holding'
  BY <1>1 DEF Locked
<1>5. ASSUME NEW q \in holding', UserOf(q) = u PROVE u \in lock'
  <2>1. q \in holding /\ u \in lock /\ q # r
    BY <1>1, <1>5 DEF Locked
  <2>2. (Kind(r) = "agent" /\ UserOf(r) = u) => r \in holding
    BY DEF Locked, Working
  <2>3. ~(Kind(r) = "agent" /\ UserOf(r) = u)
    BY <1>5, <2>1, <2>2 DEF Locked
  <2> QED
    BY <1>2, <2>1, <2>3
<1>6. ASSUME NEW q \in holding', NEW t \in holding', UserOf(q) = u, UserOf(t) = u
      PROVE  q = t
  BY <1>1, <1>6 DEF Locked
<1>7. ASSUME NEW q \in Requests, UserOf(q) = u, pc'[q] \in Working, Kind(q) # "query"
      PROVE  q \in holding'
  BY <1>1, <1>7 DEF Locked
<1> QED
  BY <1>5, <1>6, <1>7

\* A step leaves the lock with its one holder.
LEMMA LockedStep ==
  ASSUME TypeOK, Locked, [Next]_vars
  PROVE  Locked'
<1>0. FormsTyped
  BY FormTypes
<1> USE <1>0, LimitAssumption, ThresholdAssumption
    DEF TypeOK, Locked, FormsTyped, UserOf, ReplicaOf, KeyOf, Kind, InChain, Working, Inside, Calling, vars, callVars, slotVars, lockVars, semVars, circuitVars
<1>1. ASSUME NEW r \in Requests, Enter(r) PROVE Locked'
  BY <1>1 DEF Enter, Goto, NoFault
<1>2. ASSUME NEW r \in Requests, EnterErrs(r) PROVE Locked'
  BY <1>2 DEF EnterErrs, Goto, Fault
<1>3. ASSUME NEW r \in Requests, Route(r) PROVE Locked'
  BY <1>3 DEF Route, Goto, NoFault
<1>4. ASSUME NEW r \in Requests, LockUser(r) PROVE Locked'
  BY <1>4 DEF LockUser, Goto, NoFault
<1>5. ASSUME NEW r \in Requests, Unlock(r) PROVE Locked'
  BY <1>5 DEF Unlock, Goto, NoFault, MayUnlock
<1>6. ASSUME NEW r \in Requests, Respond(r) PROVE Locked'
  BY <1>6 DEF Respond, Goto, NoFault
<1>7. ASSUME NEW r \in Requests, Leave(r) PROVE Locked'
  BY <1>7 DEF Leave, Goto, NoFault
<1>8. ASSUME NEW r \in Requests, Gate(r) PROVE Locked'
  BY <1>8 DEF Gate, Goto, NoFault, FastFails, WantsProbe
<1>9. ASSUME NEW r \in Requests, Probe(r) PROVE Locked'
  BY <1>9 DEF Probe, Goto, NoFault, WriteHalfOpen
<1>10. ASSUME NEW r \in Requests, Won(r) PROVE Locked'
  BY <1>10 DEF Won, CircuitStep, Goto, NoFault, DeleteRecord
<1>11. ASSUME NEW r \in Requests, Reset(r) PROVE Locked'
  BY <1>11 DEF Reset, CircuitStep, Goto, NoFault, DeleteFailures
<1>12. ASSUME NEW r \in Requests, Lost(r) PROVE Locked'
  BY <1>12 DEF Lost, CircuitStep, Goto, NoFault, CountFailure, TripsNow
<1>13. ASSUME NEW r \in Requests, Open(r) PROVE Locked'
  BY <1>13 DEF Open, CircuitStep, Goto, NoFault, WriteOpen
<1>14. ASSUME NEW r \in Requests, Submit(r) PROVE Locked'
  BY <1>14 DEF Submit, AfterCall, InFlight, Goto, NoFault
<1>15. ASSUME NEW r \in Requests, Run(r) PROVE Locked'
  BY <1>15 DEF Run, Goto, NoFault
<1>16. ASSUME NEW r \in Requests, Acquire(r) PROVE Locked'
  BY <1>16 DEF Acquire, Goto, NoFault
<1>17. ASSUME NEW r \in Requests, CallEnds(r) PROVE Locked'
  BY <1>17 DEF CallEnds, Goto, NoFault
<1>18. ASSUME NEW r \in Requests, Free(r) PROVE Locked'
  <2>1. IF count' < 0 THEN Goto(r, "clamp") /\ UNCHANGED chain ELSE SettleMoves(r)
    BY <1>18, SettleFacts DEF Free
  <2> QED
    BY <1>18, <2>1 DEF Free, Goto, NoFault, SettleMoves, Settled
<1>19. ASSUME NEW r \in Requests, Clamp(r) PROVE Locked'
  <2>1. SettleMoves(r)
    BY <1>19, SettleFacts DEF Clamp
  <2> QED
    BY <1>19, <2>1 DEF Clamp, Goto, NoFault, SettleMoves, Settled
<1>20. ASSUME NEW r \in Requests, Think(r) PROVE Locked'
  BY <1>20 DEF Think, Goto, NoFault, NextTurn
<1>21. ASSUME NEW r \in Requests, LeaveErrs(r) PROVE Locked'
  BY <1>21 DEF LeaveErrs, Goto, Fault
<1>22. ASSUME NEW r \in Requests, LockErrs(r) PROVE Locked'
  BY <1>22 DEF LockErrs, Goto, Fault
<1>23. ASSUME NEW r \in Requests, UnlockErrs(r) PROVE Locked'
  BY <1>23 DEF UnlockErrs, Fault, MayUnlock
<1>24. ASSUME NEW r \in Requests, CircuitErrs(r) PROVE Locked'
  BY <1>24 DEF CircuitErrs, Goto, Fault
<1>25. ASSUME NEW r \in Requests, AcquireErrs(r) PROVE Locked'
  BY <1>25 DEF AcquireErrs, Goto, Fault
<1>26. ASSUME NEW r \in Requests, RateLimited(r) PROVE Locked'
  BY <1>26 DEF RateLimited, NoFault
<1>27. ASSUME NEW r \in Requests, FreeErrs(r) PROVE Locked'
  <2>1. SettleMoves(r)
    BY <1>27, SettleFacts DEF FreeErrs
  <2> QED
    BY <1>27, <2>1 DEF FreeErrs, Fault, Goto, SettleMoves, Settled
<1>28. ASSUME NEW r \in Requests, Abort(r) PROVE Locked'
  BY <1>28 DEF Abort, Fault
<1>29. ASSUME NEW u \in Users, SlotsExpire(u) PROVE Locked'
  BY <1>29 DEF SlotsExpire, Fault, NoFault
<1>30. ASSUME NEW u \in Users, LockExpires(u) PROVE Locked'
  BY <1>30 DEF LockExpires, Fault, NoFault
<1>31. CASE LeaseExpires
  BY <1>31 DEF LeaseExpires, Fault, NoFault
<1>32. CASE TimePasses
  BY <1>32 DEF TimePasses, NoFault, CircuitTime, Cool, FailureLeaves, RecordExpires, DeleteRecord
<1>33. ASSUME NEW p \in Replicas, Crash(p) PROVE Locked'
  BY <1>33 DEF Crash, Dies, Fault
<1>34. ASSUME NEW r \in Requests, Reject(r) PROVE Locked'
  <2>1. pc[r] \in InChain /\ Unhandled(r)
    BY <1>34 DEF Reject
  <2> QED
    BY <2>1, UnhandledLocked
<1>35. ASSUME NEW r \in Requests, RejectErrs(r) PROVE Locked'
  <2>1. pc[r] \in InChain /\ Unhandled(r)
    BY <1>35 DEF RejectErrs
  <2> QED
    BY <2>1, UnhandledLocked
<1>36. CASE UNCHANGED vars
  BY <1>36
<1> QED
  BY <1>1, <1>2, <1>3, <1>4, <1>5, <1>6, <1>7, <1>8, <1>9, <1>10, <1>11, <1>12, <1>13, <1>14, <1>15, <1>16, <1>17, <1>18, <1>19, <1>20, <1>21, <1>22, <1>23, <1>24, <1>25, <1>26, <1>27, <1>28, <1>29, <1>30, <1>31, <1>32, <1>33, <1>34, <1>35, <1>36 DEF Next, Serve

\* What one step does to the calls under way and to their counter.
CallsMove ==
  \/ CallingNow' \subseteq CallingNow /\ count' = count
  \/ \E r \in Requests \ CallingNow :
       CallingNow' = CallingNow \union {r} /\ count' = count + 1
  \/ \E r \in CallingNow : CallingNow' \subseteq CallingNow \ {r} /\ count' = count - 1
  \/ CallingNow' = {} /\ count' = 0

\* As long as nothing is skewed, calls and counter move together.
LEMMA CallsMoveStep ==
  ASSUME TypeOK, Counted, CounterHasLease, [Next]_vars, ~skewed', Cardinality(CallingNow) \in Nat,
         CallingNow # {} => Cardinality(CallingNow) > 0
  PROVE  CallsMove /\ ~skewed /\ \A q \in Requests : pc'[q] # "clamp"
<1>0. FormsTyped
  BY FormTypes
<1> USE <1>0, LimitAssumption, ThresholdAssumption
    DEF TypeOK, CallsMove, Counted, CounterHasLease, CallingNow, FormsTyped, UserOf, ReplicaOf, KeyOf, Kind, InChain, Working, Inside, Calling, vars, callVars, slotVars, lockVars, semVars, circuitVars
<1>1. ASSUME NEW r \in Requests, Enter(r) PROVE CallsMove /\ ~skewed /\ \A q \in Requests : pc'[q] # "clamp"
  BY <1>1 DEF Enter, Goto, NoFault
<1>2. ASSUME NEW r \in Requests, EnterErrs(r) PROVE CallsMove /\ ~skewed /\ \A q \in Requests : pc'[q] # "clamp"
  BY <1>2 DEF EnterErrs, Goto, Fault
<1>3. ASSUME NEW r \in Requests, Route(r) PROVE CallsMove /\ ~skewed /\ \A q \in Requests : pc'[q] # "clamp"
  BY <1>3 DEF Route, Goto, NoFault
<1>4. ASSUME NEW r \in Requests, LockUser(r) PROVE CallsMove /\ ~skewed /\ \A q \in Requests : pc'[q] # "clamp"
  BY <1>4 DEF LockUser, Goto, NoFault
<1>5. ASSUME NEW r \in Requests, Unlock(r) PROVE CallsMove /\ ~skewed /\ \A q \in Requests : pc'[q] # "clamp"
  BY <1>5 DEF Unlock, Goto, NoFault, MayUnlock
<1>6. ASSUME NEW r \in Requests, Respond(r) PROVE CallsMove /\ ~skewed /\ \A q \in Requests : pc'[q] # "clamp"
  BY <1>6 DEF Respond, Goto, NoFault
<1>7. ASSUME NEW r \in Requests, Leave(r) PROVE CallsMove /\ ~skewed /\ \A q \in Requests : pc'[q] # "clamp"
  BY <1>7 DEF Leave, Goto, NoFault
<1>8. ASSUME NEW r \in Requests, Gate(r) PROVE CallsMove /\ ~skewed /\ \A q \in Requests : pc'[q] # "clamp"
  BY <1>8 DEF Gate, Goto, NoFault, FastFails, WantsProbe
<1>9. ASSUME NEW r \in Requests, Probe(r) PROVE CallsMove /\ ~skewed /\ \A q \in Requests : pc'[q] # "clamp"
  BY <1>9 DEF Probe, Goto, NoFault, WriteHalfOpen
<1>10. ASSUME NEW r \in Requests, Won(r) PROVE CallsMove /\ ~skewed /\ \A q \in Requests : pc'[q] # "clamp"
  BY <1>10 DEF Won, CircuitStep, Goto, NoFault, DeleteRecord
<1>11. ASSUME NEW r \in Requests, Reset(r) PROVE CallsMove /\ ~skewed /\ \A q \in Requests : pc'[q] # "clamp"
  BY <1>11 DEF Reset, CircuitStep, Goto, NoFault, DeleteFailures
<1>12. ASSUME NEW r \in Requests, Lost(r) PROVE CallsMove /\ ~skewed /\ \A q \in Requests : pc'[q] # "clamp"
  BY <1>12 DEF Lost, CircuitStep, Goto, NoFault, CountFailure, TripsNow
<1>13. ASSUME NEW r \in Requests, Open(r) PROVE CallsMove /\ ~skewed /\ \A q \in Requests : pc'[q] # "clamp"
  BY <1>13 DEF Open, CircuitStep, Goto, NoFault, WriteOpen
<1>14. ASSUME NEW r \in Requests, Submit(r) PROVE CallsMove /\ ~skewed /\ \A q \in Requests : pc'[q] # "clamp"
  BY <1>14 DEF Submit, AfterCall, InFlight, Goto, NoFault
<1>15. ASSUME NEW r \in Requests, Run(r) PROVE CallsMove /\ ~skewed /\ \A q \in Requests : pc'[q] # "clamp"
  BY <1>15 DEF Run, Goto, NoFault
<1>16. ASSUME NEW r \in Requests, Acquire(r) PROVE CallsMove /\ ~skewed /\ \A q \in Requests : pc'[q] # "clamp"
  <2>1. pc[r] = "acquire" /\ count' = count + 1 /\ skewed' = skewed /\ Goto(r, "calling")
    BY <1>16 DEF Acquire
  <2>2. CallingNow' = CallingNow \union {r} /\ r \notin CallingNow
    BY <2>1 DEF Goto
  <2> QED
    BY <2>1, <2>2 DEF Goto
<1>17. ASSUME NEW r \in Requests, CallEnds(r) PROVE CallsMove /\ ~skewed /\ \A q \in Requests : pc'[q] # "clamp"
  BY <1>17 DEF CallEnds, Goto, NoFault
<1>18. ASSUME NEW r \in Requests, Free(r) PROVE CallsMove /\ ~skewed /\ \A q \in Requests : pc'[q] # "clamp"
  <2>1. skewed' = skewed /\ pc[r] = "free" /\ count' = count - 1
    BY <1>18 DEF Free
  <2>2. r \in CallingNow /\ count > 0
    BY <2>1
  <2>3. SettleMoves(r)
    BY <1>18, <2>1, <2>2, SettleFacts DEF Free
  <2>4. CallingNow' = CallingNow \ {r}
    BY <2>1, <2>3 DEF SettleMoves, Settled
  <2> QED
    BY <2>1, <2>2, <2>3, <2>4 DEF SettleMoves, Settled
<1>19. ASSUME NEW r \in Requests, Clamp(r) PROVE CallsMove /\ ~skewed /\ \A q \in Requests : pc'[q] # "clamp"
  <2>1. SettleMoves(r)
    BY <1>19, SettleFacts DEF Clamp
  <2> QED
    BY <1>19, <2>1 DEF Clamp, Goto, NoFault, SettleMoves, Settled
<1>20. ASSUME NEW r \in Requests, Think(r) PROVE CallsMove /\ ~skewed /\ \A q \in Requests : pc'[q] # "clamp"
  BY <1>20 DEF Think, Goto, NoFault, NextTurn
<1>21. ASSUME NEW r \in Requests, LeaveErrs(r) PROVE CallsMove /\ ~skewed /\ \A q \in Requests : pc'[q] # "clamp"
  BY <1>21 DEF LeaveErrs, Goto, Fault
<1>22. ASSUME NEW r \in Requests, LockErrs(r) PROVE CallsMove /\ ~skewed /\ \A q \in Requests : pc'[q] # "clamp"
  BY <1>22 DEF LockErrs, Goto, Fault
<1>23. ASSUME NEW r \in Requests, UnlockErrs(r) PROVE CallsMove /\ ~skewed /\ \A q \in Requests : pc'[q] # "clamp"
  BY <1>23 DEF UnlockErrs, Fault, MayUnlock
<1>24. ASSUME NEW r \in Requests, CircuitErrs(r) PROVE CallsMove /\ ~skewed /\ \A q \in Requests : pc'[q] # "clamp"
  BY <1>24 DEF CircuitErrs, Goto, Fault
<1>25. ASSUME NEW r \in Requests, AcquireErrs(r) PROVE CallsMove /\ ~skewed /\ \A q \in Requests : pc'[q] # "clamp"
  BY <1>25 DEF AcquireErrs, Goto, Fault
<1>26. ASSUME NEW r \in Requests, RateLimited(r) PROVE CallsMove /\ ~skewed /\ \A q \in Requests : pc'[q] # "clamp"
  BY <1>26 DEF RateLimited, NoFault
<1>27. ASSUME NEW r \in Requests, FreeErrs(r) PROVE CallsMove /\ ~skewed /\ \A q \in Requests : pc'[q] # "clamp"
  <2>1. SettleMoves(r)
    BY <1>27, SettleFacts DEF FreeErrs
  <2> QED
    BY <1>27, <2>1 DEF FreeErrs, Fault, Goto, SettleMoves, Settled
<1>28. ASSUME NEW r \in Requests, Abort(r) PROVE CallsMove /\ ~skewed /\ \A q \in Requests : pc'[q] # "clamp"
  BY <1>28 DEF Abort, Fault
<1>29. ASSUME NEW u \in Users, SlotsExpire(u) PROVE CallsMove /\ ~skewed /\ \A q \in Requests : pc'[q] # "clamp"
  BY <1>29 DEF SlotsExpire, Fault, NoFault
<1>30. ASSUME NEW u \in Users, LockExpires(u) PROVE CallsMove /\ ~skewed /\ \A q \in Requests : pc'[q] # "clamp"
  BY <1>30 DEF LockExpires, Fault, NoFault
<1>31. CASE LeaseExpires
  BY <1>31 DEF LeaseExpires, Fault, NoFault
<1>32. CASE TimePasses
  BY <1>32 DEF TimePasses, NoFault, CircuitTime, Cool, FailureLeaves, RecordExpires, DeleteRecord
<1>33. ASSUME NEW p \in Replicas, Crash(p) PROVE CallsMove /\ ~skewed /\ \A q \in Requests : pc'[q] # "clamp"
  BY <1>33 DEF Crash, Dies, Fault
<1>34. ASSUME NEW r \in Requests, Reject(r) PROVE CallsMove /\ ~skewed /\ \A q \in Requests : pc'[q] # "clamp"
  <2>1. CallingNow' \subseteq CallingNow /\ skewed' = skewed
    BY <1>34 DEF Reject, Unhandled, Dies
  <2>2. pc[r] # "clamp" /\ \A q \in Requests : pc'[q] # "clamp"
    BY <1>34, <2>1 DEF Reject, Unhandled, Dies
  <2>3. CASE pc[r] = "free"
    <3>1. count' = count - 1 /\ r \in CallingNow /\ r \notin CallingNow'
      BY <1>34, <2>3 DEF Reject, Unhandled, Dies
    <3> QED
      BY <2>1, <2>2, <3>1
  <2>4. CASE pc[r] # "free"
    <3>1. count' = count
      BY <1>34, <2>2, <2>4 DEF Reject
    <3> QED
      BY <2>1, <2>2, <3>1
  <2> QED
    BY <2>3, <2>4
<1>35. ASSUME NEW r \in Requests, RejectErrs(r) PROVE CallsMove /\ ~skewed /\ \A q \in Requests : pc'[q] # "clamp"
  BY <1>35 DEF RejectErrs, Fault, Dies, Unhandled, CountFailure
<1>36. CASE UNCHANGED vars
  BY <1>36
<1> QED
  BY <1>1, <1>2, <1>3, <1>4, <1>5, <1>6, <1>7, <1>8, <1>9, <1>10, <1>11, <1>12, <1>13, <1>14, <1>15, <1>16, <1>17, <1>18, <1>19, <1>20, <1>21, <1>22, <1>23, <1>24, <1>25, <1>26, <1>27, <1>28, <1>29, <1>30, <1>31, <1>32, <1>33, <1>34, <1>35, <1>36 DEF Next, Serve

\* What one step does to the requests a user has inside and to its slots.
SlotsMove(u) ==
  \/ InsideOf(u)' \subseteq InsideOf(u) /\ slots'[u] = slots[u]
  \/ \E r \in Requests \ InsideOf(u) :
       InsideOf(u)' = InsideOf(u) \union {r} /\ slots'[u] = slots[u] + 1
  \/ \E r \in InsideOf(u) :
       InsideOf(u)' = InsideOf(u) \ {r} /\ slots'[u] = slots[u] - 1
  \/ InsideOf(u)' = {}

\* As long as a user's slots are not passed by, they move with its requests.
LEMMA SlotsMoveStep ==
  ASSUME TypeOK, [Next]_vars, NEW u \in Users \ strays', InsideOf(u) # {} => slots[u] > 0
  PROVE  SlotsMove(u) /\ u \notin strays
<1>0. FormsTyped
  BY FormTypes
<1> USE <1>0, LimitAssumption, ThresholdAssumption
    DEF TypeOK, SlotsMove, InsideOf, FormsTyped, UserOf, ReplicaOf, KeyOf, Kind, InChain, Working, Inside, Calling, vars, callVars, slotVars, lockVars, semVars, circuitVars
<1>1. ASSUME NEW r \in Requests, Enter(r) PROVE SlotsMove(u) /\ u \notin strays
  <2>1. CASE UserOf(r) = u /\ Goto(r, "route")
    <3>1. slots'[u] = slots[u] + 1 /\ of' = of /\ pc[r] = "idle"
      BY <1>1, <2>1 DEF Enter, Goto
    <3>2. InsideOf(u)' = InsideOf(u) \union {r} /\ r \notin InsideOf(u)
      BY <2>1, <3>1 DEF Goto
    <3>3. strays' = strays
      BY <1>1 DEF Enter
    <3> QED
      BY <3>1, <3>2, <3>3
  <2>2. CASE ~(UserOf(r) = u /\ Goto(r, "route"))
    BY <1>1, <2>2 DEF Enter, Goto
  <2> QED
    BY <2>1, <2>2
<1>2. ASSUME NEW r \in Requests, EnterErrs(r) PROVE SlotsMove(u) /\ u \notin strays
  BY <1>2 DEF EnterErrs, Goto, Fault
<1>3. ASSUME NEW r \in Requests, Route(r) PROVE SlotsMove(u) /\ u \notin strays
  BY <1>3 DEF Route, Goto, NoFault
<1>4. ASSUME NEW r \in Requests, LockUser(r) PROVE SlotsMove(u) /\ u \notin strays
  BY <1>4 DEF LockUser, Goto, NoFault
<1>5. ASSUME NEW r \in Requests, Unlock(r) PROVE SlotsMove(u) /\ u \notin strays
  BY <1>5 DEF Unlock, Goto, NoFault, MayUnlock
<1>6. ASSUME NEW r \in Requests, Respond(r) PROVE SlotsMove(u) /\ u \notin strays
  BY <1>6 DEF Respond, Goto, NoFault
<1>7. ASSUME NEW r \in Requests, Leave(r) PROVE SlotsMove(u) /\ u \notin strays
  <2>1. CASE UserOf(r) = u
    <3>1. r \in InsideOf(u) /\ slots[u] > 0
      BY <1>7, <2>1 DEF Leave
    <3>2. slots'[u] = slots[u] - 1 /\ of' = of /\ Goto(r, "done")
      BY <1>7, <2>1, <3>1 DEF Leave
    <3>3. InsideOf(u)' = InsideOf(u) \ {r}
      BY <3>1, <3>2 DEF Goto
    <3>4. strays' = strays
      BY <1>7 DEF Leave
    <3> QED
      BY <3>1, <3>2, <3>3, <3>4
  <2>2. CASE ~(UserOf(r) = u)
    BY <1>7, <2>2 DEF Leave, Goto
  <2> QED
    BY <2>1, <2>2
<1>8. ASSUME NEW r \in Requests, Gate(r) PROVE SlotsMove(u) /\ u \notin strays
  BY <1>8 DEF Gate, Goto, NoFault, FastFails, WantsProbe
<1>9. ASSUME NEW r \in Requests, Probe(r) PROVE SlotsMove(u) /\ u \notin strays
  BY <1>9 DEF Probe, Goto, NoFault, WriteHalfOpen
<1>10. ASSUME NEW r \in Requests, Won(r) PROVE SlotsMove(u) /\ u \notin strays
  BY <1>10 DEF Won, CircuitStep, Goto, NoFault, DeleteRecord
<1>11. ASSUME NEW r \in Requests, Reset(r) PROVE SlotsMove(u) /\ u \notin strays
  BY <1>11 DEF Reset, CircuitStep, Goto, NoFault, DeleteFailures
<1>12. ASSUME NEW r \in Requests, Lost(r) PROVE SlotsMove(u) /\ u \notin strays
  BY <1>12 DEF Lost, CircuitStep, Goto, NoFault, CountFailure, TripsNow
<1>13. ASSUME NEW r \in Requests, Open(r) PROVE SlotsMove(u) /\ u \notin strays
  BY <1>13 DEF Open, CircuitStep, Goto, NoFault, WriteOpen
<1>14. ASSUME NEW r \in Requests, Submit(r) PROVE SlotsMove(u) /\ u \notin strays
  BY <1>14 DEF Submit, AfterCall, InFlight, Goto, NoFault
<1>15. ASSUME NEW r \in Requests, Run(r) PROVE SlotsMove(u) /\ u \notin strays
  BY <1>15 DEF Run, Goto, NoFault
<1>16. ASSUME NEW r \in Requests, Acquire(r) PROVE SlotsMove(u) /\ u \notin strays
  BY <1>16 DEF Acquire, Goto, NoFault
<1>17. ASSUME NEW r \in Requests, CallEnds(r) PROVE SlotsMove(u) /\ u \notin strays
  BY <1>17 DEF CallEnds, Goto, NoFault
<1>18. ASSUME NEW r \in Requests, Free(r) PROVE SlotsMove(u) /\ u \notin strays
  <2>1. IF count' < 0 THEN Goto(r, "clamp") /\ UNCHANGED chain ELSE SettleMoves(r)
    BY <1>18, SettleFacts DEF Free
  <2> QED
    BY <1>18, <2>1 DEF Free, Goto, NoFault, SettleMoves, Settled
<1>19. ASSUME NEW r \in Requests, Clamp(r) PROVE SlotsMove(u) /\ u \notin strays
  <2>1. SettleMoves(r)
    BY <1>19, SettleFacts DEF Clamp
  <2> QED
    BY <1>19, <2>1 DEF Clamp, Goto, NoFault, SettleMoves, Settled
<1>20. ASSUME NEW r \in Requests, Think(r) PROVE SlotsMove(u) /\ u \notin strays
  BY <1>20 DEF Think, Goto, NoFault, NextTurn
<1>21. ASSUME NEW r \in Requests, LeaveErrs(r) PROVE SlotsMove(u) /\ u \notin strays
  BY <1>21 DEF LeaveErrs, Goto, Fault
<1>22. ASSUME NEW r \in Requests, LockErrs(r) PROVE SlotsMove(u) /\ u \notin strays
  BY <1>22 DEF LockErrs, Goto, Fault
<1>23. ASSUME NEW r \in Requests, UnlockErrs(r) PROVE SlotsMove(u) /\ u \notin strays
  BY <1>23 DEF UnlockErrs, Fault, MayUnlock
<1>24. ASSUME NEW r \in Requests, CircuitErrs(r) PROVE SlotsMove(u) /\ u \notin strays
  BY <1>24 DEF CircuitErrs, Goto, Fault
<1>25. ASSUME NEW r \in Requests, AcquireErrs(r) PROVE SlotsMove(u) /\ u \notin strays
  BY <1>25 DEF AcquireErrs, Goto, Fault
<1>26. ASSUME NEW r \in Requests, RateLimited(r) PROVE SlotsMove(u) /\ u \notin strays
  BY <1>26 DEF RateLimited, NoFault
<1>27. ASSUME NEW r \in Requests, FreeErrs(r) PROVE SlotsMove(u) /\ u \notin strays
  <2>1. SettleMoves(r)
    BY <1>27, SettleFacts DEF FreeErrs
  <2> QED
    BY <1>27, <2>1 DEF FreeErrs, Fault, Goto, SettleMoves, Settled
<1>28. ASSUME NEW r \in Requests, Abort(r) PROVE SlotsMove(u) /\ u \notin strays
  BY <1>28 DEF Abort, Fault
<1>29. ASSUME NEW v \in Users, SlotsExpire(v) PROVE SlotsMove(u) /\ u \notin strays
  BY <1>29 DEF SlotsExpire, Fault, NoFault
<1>30. ASSUME NEW v \in Users, LockExpires(v) PROVE SlotsMove(u) /\ u \notin strays
  BY <1>30 DEF LockExpires, Fault, NoFault
<1>31. CASE LeaseExpires
  BY <1>31 DEF LeaseExpires, Fault, NoFault
<1>32. CASE TimePasses
  BY <1>32 DEF TimePasses, NoFault, CircuitTime, Cool, FailureLeaves, RecordExpires, DeleteRecord
<1>33. ASSUME NEW p \in Replicas, Crash(p) PROVE SlotsMove(u) /\ u \notin strays
  BY <1>33 DEF Crash, Dies, Fault
<1>34. ASSUME NEW r \in Requests, Reject(r) PROVE SlotsMove(u) /\ u \notin strays
  BY <1>34 DEF Reject, NoFault, Dies, Unhandled, CountFailure
<1>35. ASSUME NEW r \in Requests, RejectErrs(r) PROVE SlotsMove(u) /\ u \notin strays
  BY <1>35 DEF RejectErrs, Fault, Dies, Unhandled, CountFailure
<1>36. CASE UNCHANGED vars
  BY <1>36
<1> QED
  BY <1>1, <1>2, <1>3, <1>4, <1>5, <1>6, <1>7, <1>8, <1>9, <1>10, <1>11, <1>12, <1>13, <1>14, <1>15, <1>16, <1>17, <1>18, <1>19, <1>20, <1>21, <1>22, <1>23, <1>24, <1>25, <1>26, <1>27, <1>28, <1>29, <1>30, <1>31, <1>32, <1>33, <1>34, <1>35, <1>36 DEF Next, Serve

LEMMA Counts ==
  ASSUME NEW S \in SUBSET Requests
  PROVE  /\ IsFiniteSet(S) /\ Cardinality(S) \in Nat /\ (S # {} => Cardinality(S) > 0)
         /\ \A T \in SUBSET S : Cardinality(T) <= Cardinality(S)
         /\ \A r \in Requests \ S : Cardinality(S \union {r}) = Cardinality(S) + 1
         /\ \A r \in S : Cardinality(S \ {r}) = Cardinality(S) - 1
<1>1. IsFiniteSet(S)
  BY RequestAssumption, FS_Subset
<1>2. Cardinality(S) \in Nat
  BY <1>1, FS_CardinalityType
<1>3. S # {} => Cardinality(S) > 0
  BY <1>1, <1>2, FS_EmptySet
<1>4. \A T \in SUBSET S : Cardinality(T) <= Cardinality(S)
  BY <1>1, FS_Subset
<1>5. \A r \in Requests \ S : Cardinality(S \union {r}) = Cardinality(S) + 1
  BY <1>1, FS_AddElement
<1>6. \A r \in S : Cardinality(S \ {r}) = Cardinality(S) - 1
  BY <1>1, FS_RemoveElement
<1> QED
  BY <1>1, <1>2, <1>3, <1>4, <1>5, <1>6

LEMMA CountedStep ==
  ASSUME TypeOK, Counted, CounterHasLease, [Next]_vars
  PROVE  Counted'
<1>1. SUFFICES ASSUME ~skewed'
               PROVE  Cardinality(CallingNow') <= count'
                      /\ \A r \in Requests : pc'[r] # "clamp"
  BY DEF Counted, CallingNow
<1>2. /\ CallingNow \in SUBSET Requests
      /\ count \in Int
  BY DEF CallingNow, TypeOK
<1>3. Cardinality(CallingNow) \in Nat /\ (CallingNow # {} => Cardinality(CallingNow) > 0)
  BY <1>2, Counts
<1>4. CallsMove /\ ~skewed /\ \A q \in Requests : pc'[q] # "clamp"
  BY <1>1, <1>3, CallsMoveStep
<1>5. Cardinality(CallingNow) <= count
  BY <1>4 DEF Counted
<1>6. CASE CallingNow' \subseteq CallingNow /\ count' = count
  <2>1. Cardinality(CallingNow') <= Cardinality(CallingNow)
    BY <1>2, <1>6, Counts
  <2>2. Cardinality(CallingNow') \in Nat
    BY <1>2, <1>6, Counts
  <2> QED
    BY <1>2, <1>3, <1>4, <1>5, <1>6, <2>1, <2>2
<1>7. ASSUME NEW r \in Requests \ CallingNow,
             CallingNow' = CallingNow \union {r}, count' = count + 1
      PROVE  Cardinality(CallingNow') <= count'
  BY <1>2, <1>3, <1>5, <1>7, Counts
<1>8. ASSUME NEW r \in CallingNow,
             CallingNow' \subseteq CallingNow \ {r}, count' = count - 1
      PROVE  Cardinality(CallingNow') <= count'
  <2>1. Cardinality(CallingNow \ {r}) = Cardinality(CallingNow) - 1
    BY <1>2, <1>8, Counts
  <2>2. Cardinality(CallingNow') <= Cardinality(CallingNow \ {r})
    BY <1>2, <1>8, Counts
  <2>3. Cardinality(CallingNow') \in Nat
    <3>1. CallingNow' \in SUBSET Requests
      BY DEF CallingNow
    <3> QED
      BY <3>1, Counts
  <2> QED
    BY <1>2, <1>3, <1>5, <1>8, <2>1, <2>2, <2>3
<1>9. CASE CallingNow' = {} /\ count' = 0
  <2>1. Cardinality(CallingNow') = 0
    BY <1>9, FS_EmptySet
  <2> QED
    BY <1>4, <1>9, <2>1
<1> QED
  BY <1>4, <1>6, <1>7, <1>8, <1>9 DEF CallsMove

\* A stray user stays one.
LEMMA StraysGrow ==
  ASSUME [Next]_vars
  PROVE  strays \subseteq strays'
<1> USE DEF vars, slotVars
<1>1. ASSUME NEW r \in Requests, Enter(r) PROVE strays \subseteq strays'
  BY <1>1 DEF Enter, Goto, NoFault
<1>2. ASSUME NEW r \in Requests, EnterErrs(r) PROVE strays \subseteq strays'
  BY <1>2 DEF EnterErrs, Goto, Fault
<1>3. ASSUME NEW r \in Requests, Route(r) PROVE strays \subseteq strays'
  BY <1>3 DEF Route, Goto, NoFault
<1>4. ASSUME NEW r \in Requests, LockUser(r) PROVE strays \subseteq strays'
  BY <1>4 DEF LockUser, Goto, NoFault
<1>5. ASSUME NEW r \in Requests, Unlock(r) PROVE strays \subseteq strays'
  BY <1>5 DEF Unlock, Goto, NoFault, MayUnlock
<1>6. ASSUME NEW r \in Requests, Respond(r) PROVE strays \subseteq strays'
  BY <1>6 DEF Respond, Goto, NoFault
<1>7. ASSUME NEW r \in Requests, Leave(r) PROVE strays \subseteq strays'
  BY <1>7 DEF Leave, Goto, NoFault
<1>8. ASSUME NEW r \in Requests, Gate(r) PROVE strays \subseteq strays'
  BY <1>8 DEF Gate, Goto, NoFault, FastFails, WantsProbe
<1>9. ASSUME NEW r \in Requests, Probe(r) PROVE strays \subseteq strays'
  BY <1>9 DEF Probe, Goto, NoFault, WriteHalfOpen
<1>10. ASSUME NEW r \in Requests, Won(r) PROVE strays \subseteq strays'
  BY <1>10 DEF Won, CircuitStep, Goto, NoFault, DeleteRecord
<1>11. ASSUME NEW r \in Requests, Reset(r) PROVE strays \subseteq strays'
  BY <1>11 DEF Reset, CircuitStep, Goto, NoFault, DeleteFailures
<1>12. ASSUME NEW r \in Requests, Lost(r) PROVE strays \subseteq strays'
  BY <1>12 DEF Lost, CircuitStep, Goto, NoFault, CountFailure, TripsNow
<1>13. ASSUME NEW r \in Requests, Open(r) PROVE strays \subseteq strays'
  BY <1>13 DEF Open, CircuitStep, Goto, NoFault, WriteOpen
<1>14. ASSUME NEW r \in Requests, Submit(r) PROVE strays \subseteq strays'
  BY <1>14 DEF Submit, AfterCall, InFlight, Goto, NoFault
<1>15. ASSUME NEW r \in Requests, Run(r) PROVE strays \subseteq strays'
  BY <1>15 DEF Run, Goto, NoFault
<1>16. ASSUME NEW r \in Requests, Acquire(r) PROVE strays \subseteq strays'
  BY <1>16 DEF Acquire, Goto, NoFault
<1>17. ASSUME NEW r \in Requests, CallEnds(r) PROVE strays \subseteq strays'
  BY <1>17 DEF CallEnds, Goto, NoFault
<1>18. ASSUME NEW r \in Requests, Free(r) PROVE strays \subseteq strays'
  BY <1>18 DEF Free, Goto, NoFault
<1>19. ASSUME NEW r \in Requests, Clamp(r) PROVE strays \subseteq strays'
  BY <1>19 DEF Clamp, Goto, NoFault
<1>20. ASSUME NEW r \in Requests, Think(r) PROVE strays \subseteq strays'
  BY <1>20 DEF Think, Goto, NoFault, NextTurn
<1>21. ASSUME NEW r \in Requests, LeaveErrs(r) PROVE strays \subseteq strays'
  BY <1>21 DEF LeaveErrs, Goto, Fault
<1>22. ASSUME NEW r \in Requests, LockErrs(r) PROVE strays \subseteq strays'
  BY <1>22 DEF LockErrs, Goto, Fault
<1>23. ASSUME NEW r \in Requests, UnlockErrs(r) PROVE strays \subseteq strays'
  BY <1>23 DEF UnlockErrs, Fault, MayUnlock
<1>24. ASSUME NEW r \in Requests, CircuitErrs(r) PROVE strays \subseteq strays'
  BY <1>24 DEF CircuitErrs, Goto, Fault
<1>25. ASSUME NEW r \in Requests, AcquireErrs(r) PROVE strays \subseteq strays'
  BY <1>25 DEF AcquireErrs, Goto, Fault
<1>26. ASSUME NEW r \in Requests, RateLimited(r) PROVE strays \subseteq strays'
  BY <1>26 DEF RateLimited, NoFault
<1>27. ASSUME NEW r \in Requests, FreeErrs(r) PROVE strays \subseteq strays'
  BY <1>27 DEF FreeErrs, Fault, Goto
<1>28. ASSUME NEW r \in Requests, Abort(r) PROVE strays \subseteq strays'
  BY <1>28 DEF Abort, Fault
<1>29. ASSUME NEW u \in Users, SlotsExpire(u) PROVE strays \subseteq strays'
  BY <1>29 DEF SlotsExpire, Fault, NoFault
<1>30. ASSUME NEW u \in Users, LockExpires(u) PROVE strays \subseteq strays'
  BY <1>30 DEF LockExpires, Fault, NoFault
<1>31. CASE LeaseExpires
  BY <1>31 DEF LeaseExpires, Fault, NoFault
<1>32. CASE TimePasses
  BY <1>32 DEF TimePasses, NoFault, CircuitTime, Cool, FailureLeaves, RecordExpires, DeleteRecord
<1>33. ASSUME NEW p \in Replicas, Crash(p) PROVE strays \subseteq strays'
  BY <1>33 DEF Crash, Dies, Fault
<1>34. ASSUME NEW r \in Requests, Reject(r) PROVE strays \subseteq strays'
  BY <1>34 DEF Reject, NoFault, Dies, Unhandled, CountFailure
<1>35. ASSUME NEW r \in Requests, RejectErrs(r) PROVE strays \subseteq strays'
  BY <1>35 DEF RejectErrs, Fault, Dies, Unhandled, CountFailure
<1>36. CASE UNCHANGED vars
  BY <1>36
<1> QED
  BY <1>1, <1>2, <1>3, <1>4, <1>5, <1>6, <1>7, <1>8, <1>9, <1>10, <1>11, <1>12, <1>13, <1>14, <1>15, <1>16, <1>17, <1>18, <1>19, <1>20, <1>21, <1>22, <1>23, <1>24, <1>25, <1>26, <1>27, <1>28, <1>29, <1>30, <1>31, <1>32, <1>33, <1>34, <1>35, <1>36 DEF Next, Serve

LEMMA SlottedStep ==
  ASSUME TypeOK, Slotted, [Next]_vars, TypeOK'
  PROVE  Slotted'
<1>1. SUFFICES ASSUME NEW u \in Users \ strays'
               PROVE  Cardinality(InsideOf(u)') <= slots'[u]
  BY DEF Slotted
<1>2. /\ InsideOf(u) \in SUBSET Requests /\ InsideOf(u)' \in SUBSET Requests
      /\ slots[u] \in Nat /\ slots'[u] \in Nat
  BY DEF InsideOf, TypeOK
<1>3. /\ Cardinality(InsideOf(u)) \in Nat
      /\ InsideOf(u) # {} => Cardinality(InsideOf(u)) > 0
  BY <1>2, Counts
<1>4. u \in Users \ strays => Cardinality(InsideOf(u)) <= slots[u]
  BY DEF Slotted
<1>5. u \notin strays
  BY StraysGrow
<1>6. InsideOf(u) # {} => slots[u] > 0
  BY <1>2, <1>3, <1>4, <1>5
<1>7. SlotsMove(u)
  BY <1>6, SlotsMoveStep
<1>8. CASE InsideOf(u)' \subseteq InsideOf(u) /\ slots'[u] = slots[u]
  BY <1>2, <1>3, <1>4, <1>5, <1>8, Counts
<1>9. ASSUME NEW r \in Requests \ InsideOf(u),
             InsideOf(u)' = InsideOf(u) \union {r}, slots'[u] = slots[u] + 1
      PROVE  Cardinality(InsideOf(u)') <= slots'[u]
  BY <1>2, <1>3, <1>4, <1>5, <1>9, Counts
<1>10. ASSUME NEW r \in InsideOf(u),
              InsideOf(u)' = InsideOf(u) \ {r}, slots'[u] = slots[u] - 1
       PROVE  Cardinality(InsideOf(u)') <= slots'[u]
  BY <1>2, <1>3, <1>4, <1>5, <1>10, Counts
<1>11. CASE InsideOf(u)' = {}
  BY <1>2, <1>11, FS_EmptySet
<1> QED
  BY <1>7, <1>8, <1>9, <1>10, <1>11 DEF SlotsMove

-----------------------------------------------------------------------------
\* The types and what the properties rest on hold in every reachable state.
THEOREM InductiveInvariant == Spec => []Inductive
<1>1. Init => Inductive
  <2> SUFFICES ASSUME Init PROVE Inductive
    OBVIOUS
  <2> USE DEF Init, CircuitInit
  <2>1. TypeOK
    <3>1. CircuitTypeOK
      <4>1. 0 \in 0 .. Threshold
        BY ThresholdAssumption
      <4> QED
        BY <4>1, Zenon DEF CircuitTypeOK
    <3>2. /\ 0 \in 0 .. MaxRetries /\ 0 \in 0 .. MaxTurns /\ 0 \in 0 .. MaxFaults
          /\ 0 <= GlobalLimit /\ \A u \in Users : 0 <= MaxSlots[u]
      BY LimitAssumption
    <3>3. /\ slots \in [Users -> Nat] /\ \A u \in Users : slots[u] <= MaxSlots[u]
          /\ count \in Int /\ count <= GlobalLimit
      BY <3>2
    <3>4. chain \in [Replicas -> Seq(Requests)]
      OBVIOUS
    <3>5. /\ pc \in [Requests -> {"idle", "done"} \union Inside]
          /\ prior \in [Requests -> {"CLOSED", "OPEN", "HALF_OPEN"}]
      OBVIOUS
    <3> QED
      BY <3>1, <3>2, <3>3, <3>4, <3>5 DEF TypeOK
  <2>2. Heads /\ Locked /\ CounterHasLease
    BY DEF Heads, Locked, CounterHasLease, Working, InChain
  <2>3. CallingNow = {} /\ \A u \in Users : InsideOf(u) = {}
    BY DEF CallingNow, InsideOf, Calling, Inside, Working, InChain
  <2>4. Counted /\ Slotted
    <3>1. Cardinality({}) = 0
      BY FS_EmptySet
    <3>2. Cardinality(CallingNow) = 0 /\ \A u \in Users : Cardinality(InsideOf(u)) = 0
      BY <2>3, <3>1, Zenon
    <3>3. count = 0 /\ \A u \in Users : slots[u] = 0
      OBVIOUS
    <3>4. \A r \in Requests : pc[r] # "clamp"
      OBVIOUS
    <3> QED
      BY <3>2, <3>3, <3>4 DEF Counted, Slotted
  <2> QED
    BY <2>1, <2>2, <2>4 DEF Inductive
<1>2. Inductive /\ [Next]_vars => Inductive'
  BY TypeStep, HeadsStep, LeaseStep, LockedStep, CountedStep, SlottedStep DEF Inductive
<1> QED
  BY <1>1, <1>2, PTL DEF Spec

\* A user has one request at work at a time, unless one of them is a query with
\* a history or the lock expired under its holder.
THEOREM UsersTakeTurns == Spec => []OneRequestPerUser
<1>1. Inductive => OneRequestPerUser
  BY RequestAssumption DEF Inductive, TypeOK, Locked, OneRequestPerUser, Forms, UserOf, Kind
<1> QED
  BY <1>1, InductiveInvariant, PTL

\* The semaphore and the slots bound what runs, on any number of replicas.
THEOREM LimitsAreKept == Spec => []LimitsHold
<1>1. Inductive => LimitsHold
  <2> SUFFICES ASSUME Inductive PROVE LimitsHold
    OBVIOUS
  <2>1. ASSUME ~skewed PROVE Cardinality(CallingNow) <= GlobalLimit
    <3>1. CallingNow \in SUBSET Requests
      BY DEF CallingNow
    <3>2. Cardinality(CallingNow) \in Nat
      BY <3>1, Counts
    <3>3. Cardinality(CallingNow) <= count /\ count \in Int /\ count <= GlobalLimit
      BY <2>1 DEF Inductive, Counted, TypeOK
    <3> QED
      BY <3>2, <3>3, LimitAssumption
  <2>2. ASSUME NEW u \in Users \ strays PROVE Cardinality(InsideOf(u)) <= MaxSlots[u]
    <3>1. InsideOf(u) \in SUBSET Requests
      BY DEF InsideOf
    <3>2. Cardinality(InsideOf(u)) \in Nat
      BY <3>1, Counts
    <3>3. Cardinality(InsideOf(u)) <= slots[u] /\ slots[u] \in Nat /\ slots[u] <= MaxSlots[u]
      BY DEF Inductive, Slotted, TypeOK
    <3> QED
      BY <3>2, <3>3, LimitAssumption
  <2> QED
    BY <2>1, <2>2 DEF LimitsHold
<1> QED
  BY <1>1, InductiveInvariant, PTL

\* A counted holder of the semaphore always has a lease that ends.
THEOREM CapacityIsLeased == Spec => []CounterHasLease
<1>1. Inductive => CounterHasLease
  BY DEF Inductive
<1> QED
  BY <1>1, InductiveInvariant, PTL
=============================================================================
