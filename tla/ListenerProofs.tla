--------------------------- MODULE ListenerProofs ---------------------------
(***************************************************************************)
(* Theorems of Listener, for any number of listeners, processes, transfers *)
(* and overlapping calls, any depth and chunk, and any number of faults.   *)
(***************************************************************************)
EXTENDS Listener, TLAPS

QueueTypeOK ==
  /\ adds \in [Transfers -> Nat] /\ block \in [Transfers -> Nat]
  /\ work \subseteq Jobs /\ seen \subseteq Transfers /\ tip \in Nat

ToAdd(t) == {w \in work : w.t = t /\ w.stage = "add"}

\* Whoever is about to add a transfer is alone in that, has marked it, and it
\* is not in the queue; what is in the queue is marked, and is there once.
MarkGuards(t) ==
  /\ adds[t] <= 1
  /\ adds[t] > 0 => t \in seen
  /\ \A w \in ToAdd(t) : t \in seen /\ adds[t] = 0
  /\ \A v, w \in ToAdd(t) : v = w

MarkedFirst == \A t \in Transfers \ slips : MarkGuards(t)

\* Whoever is about to save an anchor has added its transfer.
SavedIsAdded == \A w \in work : w.stage = "save" => adds[w.t] > 0

Inductive == MarkedFirst /\ SeenIsQueued /\ SavedIsAdded /\ AnchorIsQueued

queue == <<lastBlock, seen, adds, work, slips, lost, block, tip>>

----------------------------------------------------------------------------
(* Steps that do not concern the queue. *)

\* The part of a step that is the election's never touches the queue, and what
\* the listener does with its calls does not either.
LEMMA CallsAreQuiet ==
  ASSUME NEW l \in Listeners, NEW k \in Slots,
         \/ Reconnect(l, k) \/ ReadTip(l, k) \/ LoadLastBlock(l, k) \/ FetchChunk(l, k)
         \/ EndChunk(l, k) \/ Subscribe(l, k) \/ LateClose(l, k)
         \/ CallFails(l, k)
  PROVE  UNCHANGED queue
<1> USE DEF queue, queueVars, observers, callVars
<1>1. CASE Reconnect(l, k) \/ ReconnectEarly(l, k)
  BY <1>1 DEF Reconnect, ReconnectEarly, TimerFires
<1>2. CASE ReadTip(l, k) \/ ReadTipErrs(l, k)
  BY <1>2 DEF ReadTip, ReadTipErrs
<1>3. CASE LoadLastBlock(l, k) \/ LoadLastBlockErrs(l, k)
  BY <1>3 DEF LoadLastBlock, LoadLastBlockErrs
<1>4. CASE FetchChunk(l, k) \/ FetchChunkErrs(l, k)
  BY <1>4 DEF FetchChunk, FetchChunkErrs
<1>5. CASE EndChunk(l, k) \/ Subscribe(l, k)
  BY <1>5 DEF EndChunk, Subscribe
<1>6. CASE LateClose(l, k) \/ SocketCloses(l, k) \/ SocketErrs(l, k)
  BY <1>6 DEF LateClose, SocketCloses, SocketErrs, Closed
<1> QED
  BY <1>1, <1>2, <1>3, <1>4, <1>5, <1>6 DEF CallFails

LEMMA RolesAreQuiet ==
  ASSUME \/ \E l \in Listeners : RoleStep(l) \/ DemoteInVain(l)
         \/ Expire
  PROVE  UNCHANGED queue
<1> USE DEF queue, queueVars, observers, callVars
<1>1. ASSUME NEW l \in Listeners, StartFirst(l) \/ StopCalls(l)
      PROVE  UNCHANGED queue
  BY <1>1 DEF StartFirst, StopCalls
<1> QED
  BY <1>1 DEF RoleStep, Boot, TakeOver, Demote, DemoteInVain, Expire

\* A replayed log and a live event only bring calls that have yet to mark.
Arrive(jobs) ==
  /\ work' = work \union jobs
  /\ jobs \subseteq Jobs /\ \A w \in jobs : w.stage = "mark"
  /\ UNCHANGED <<lastBlock, seen, adds, slips, lost>>

LEMMA LogsArrive ==
  ASSUME NEW l \in Listeners, NEW k \in Slots, NEW t \in Transfers, ProcessLog(l, k, t)
  PROVE  /\ \E jobs : Arrive(jobs)
         /\ UNCHANGED <<block, tip>>
<1>1. /\ UNCHANGED <<lastBlock, seen, adds, slips, lost, block, tip>>
      /\ work' = work \union {Job(l, k, FALSE, t)} \/ work' = work \union {}
  BY DEF ProcessLog, queueVars
<1>2. Job(l, k, FALSE, t) \in Jobs /\ Job(l, k, FALSE, t).stage = "mark"
  BY DEF Job, Jobs
<1>3. CASE work' = work \union {Job(l, k, FALSE, t)}
  <2>1. Arrive({Job(l, k, FALSE, t)})
    BY <1>1, <1>2, <1>3 DEF Arrive
  <2> QED
    BY <1>1, <2>1
<1>4. CASE work' = work \union {}
  <2>1. Arrive({})
    BY <1>1, <1>4 DEF Arrive
  <2> QED
    BY <1>1, <2>1
<1> QED
  BY <1>1, <1>3, <1>4

LEMMA EventsArrive ==
  ASSUME QueueTypeOK, NEW ts \in SUBSET Transfers, Mine(ts)
  PROVE  /\ \E jobs : Arrive(jobs)
         /\ tip' \in Nat /\ tip <= tip' /\ block' \in [Transfers -> Nat]
         /\ \A t \in Transfers : block'[t] = block[t] \/ (block[t] = 0 /\ block'[t] > tip)
<1>1. \A w \in Heard(ts) : w \in Jobs /\ w.stage = "mark"
  BY DEF Heard
<1>2. Arrive(Heard(ts))
  BY <1>1 DEF Arrive, Mine, queueVars, observers
<1>3. tip' \in Nat /\ tip + 1 \in Nat /\ tip <= tip' /\ tip + 1 > tip
  BY DEF Mine, QueueTypeOK
<1>4. block' = [t \in Transfers |-> IF t \in ts THEN tip + 1 ELSE block[t]]
  BY DEF Mine
<1>5. \A t \in Transfers : block[t] # 0 => t \notin ts
  BY DEF Mine
<1> QED
  BY <1>2, <1>3, <1>4, <1>5 DEF QueueTypeOK

----------------------------------------------------------------------------
(* Steps that do. *)

QueueStep ==
  \/ \E jobs : Arrive(jobs)
  \/ \E p \in Processes : Forget(p)
  \/ \E w \in work : Mark(w) \/ Add(w) \/ Save(w)
  \/ WorkFails \/ LastBlockExpires
  \/ \E t \in Transfers : SeenExpires(t)

\* What becomes of the blocks in any step: they are mined above the tip.
BlocksGrow ==
  /\ tip' \in Nat /\ tip <= tip' /\ block' \in [Transfers -> Nat]
  /\ \A t \in Transfers : block'[t] = block[t] \/ (block[t] = 0 /\ block'[t] > tip)

LEMMA EveryStep ==
  ASSUME QueueTypeOK, [Next]_vars
  PROVE  /\ QueueStep \/ UNCHANGED <<lastBlock, seen, adds, work, slips, lost>>
         /\ BlocksGrow
<1>1. UNCHANGED queue => UNCHANGED <<lastBlock, seen, adds, work, slips, lost>> /\ BlocksGrow
  BY DEF queue, BlocksGrow, QueueTypeOK
<1>2. CASE UNCHANGED vars
  BY <1>1, <1>2 DEF vars, queue, queueVars, observers
<1>3. ASSUME NEW ts \in SUBSET Transfers, Mine(ts)
      PROVE  QueueStep /\ BlocksGrow
  BY <1>3, EventsArrive DEF QueueStep, BlocksGrow
<1>4. CASE \E l \in Listeners : RoleStep(l) \/ DemoteInVain(l)
  BY <1>1, <1>4, RolesAreQuiet
<1>5. ASSUME NEW l \in Listeners, WorkStep(l)
      PROVE  QueueStep /\ BlocksGrow
  <2>1. PICK w \in work : Mark(w) \/ Add(w) \/ Save(w)
    BY <1>5 DEF WorkStep
  <2>2. UNCHANGED <<tip, block>>
    BY <2>1 DEF Mark, Add, Save, Around
  <2> QED
    BY <2>1, <2>2 DEF QueueStep, BlocksGrow, QueueTypeOK
<1>6. ASSUME NEW l \in Listeners, NEW k \in Slots, CallStep(l, k)
      PROVE  (QueueStep \/ UNCHANGED <<lastBlock, seen, adds, work, slips, lost>>) /\ BlocksGrow
  <2>1. ASSUME NEW t \in Transfers, ProcessLog(l, k, t)
        PROVE  QueueStep /\ BlocksGrow
    BY <2>1, LogsArrive DEF QueueStep, BlocksGrow, QueueTypeOK
  <2>2. CASE ~ \E t \in Transfers : ProcessLog(l, k, t)
    BY <1>1, <1>6, <2>2, CallsAreQuiet DEF CallStep
  <2> QED
    BY <2>1, <2>2
<1>7. ASSUME NEW l \in Listeners, NEW k \in Slots, CallFails(l, k)
      PROVE  UNCHANGED <<lastBlock, seen, adds, work, slips, lost>> /\ BlocksGrow
  BY <1>1, <1>7, CallsAreQuiet
<1>8. ASSUME NEW p \in Processes, Die(p) \/ Stop(p)
      PROVE  QueueStep /\ BlocksGrow
  <2>1. Forget(p)
    BY <1>8 DEF Die, Stop
  <2> QED
    BY <2>1 DEF QueueStep, BlocksGrow, QueueTypeOK, Forget
<1>9. CASE Expire
  BY <1>1, <1>9, RolesAreQuiet
<1>10. CASE WorkFails
  <2>1. UNCHANGED <<tip, block>>
    BY <1>10 DEF WorkFails, MarkErrs, AddErrs, SaveErrs, Around
  <2> QED
    BY <1>10, <2>1 DEF QueueStep, BlocksGrow, QueueTypeOK
<1>11. CASE LastBlockExpires \/ \E t \in Transfers : SeenExpires(t)
  <2>1. UNCHANGED <<tip, block>>
    BY <1>11 DEF LastBlockExpires, SeenExpires, Around
  <2> QED
    BY <1>11, <2>1 DEF QueueStep, BlocksGrow, QueueTypeOK
<1> QED
  BY <1>2, <1>3, <1>4, <1>5, <1>6, <1>7, <1>8, <1>9, <1>10, <1>11 DEF Next

LEMMA QueueTypes ==
  ASSUME QueueTypeOK, [Next]_vars
  PROVE  QueueTypeOK'
<1>1. BlocksGrow /\ (QueueStep \/ UNCHANGED <<lastBlock, seen, adds, work, slips, lost>>)
  BY EveryStep
<1> SUFFICES adds' \in [Transfers -> Nat] /\ work' \subseteq Jobs /\ seen' \subseteq Transfers
  BY <1>1 DEF BlocksGrow, QueueTypeOK
<1>2. CASE \E jobs : Arrive(jobs)
  BY <1>2 DEF Arrive, QueueTypeOK
<1>3. CASE \E p \in Processes : Forget(p)
  BY <1>3 DEF Forget, QueueTypeOK, queueVars
<1>4. ASSUME NEW w \in work
      PROVE  /\ w \in Jobs /\ w.t \in Transfers
             /\ [w EXCEPT !.stage = "add"] \in Jobs /\ [w EXCEPT !.stage = "save"] \in Jobs
  BY DEF QueueTypeOK, Jobs
<1>5. ASSUME NEW w \in work, Mark(w) \/ MarkErrs(w)
      PROVE  adds' \in [Transfers -> Nat] /\ work' \subseteq Jobs /\ seen' \subseteq Transfers
  BY <1>4, <1>5 DEF Mark, MarkErrs, Proceeds, Ends, QueueTypeOK
<1>6. ASSUME NEW w \in work, Add(w) \/ AddErrs(w)
      PROVE  adds' \in [Transfers -> Nat] /\ work' \subseteq Jobs /\ seen' \subseteq Transfers
  <2>1. adds' = adds \/ adds' = [adds EXCEPT ![w.t] = adds[w.t] + 1]
    BY <1>6 DEF Add, AddErrs
  <2>2. adds' \in [Transfers -> Nat]
    BY <1>4, <2>1 DEF QueueTypeOK
  <2>3. work' \subseteq Jobs /\ seen' \subseteq Transfers
    BY <1>4, <1>6 DEF Add, AddErrs, Proceeds, Ends, QueueTypeOK
  <2> QED
    BY <2>2, <2>3
<1>7. ASSUME NEW w \in work, Save(w) \/ SaveErrs(w)
      PROVE  adds' \in [Transfers -> Nat] /\ work' \subseteq Jobs /\ seen' \subseteq Transfers
  BY <1>4, <1>7 DEF Save, SaveErrs, Ends, QueueTypeOK, queueVars
<1>8. CASE LastBlockExpires \/ \E t \in Transfers : SeenExpires(t)
  BY <1>8 DEF LastBlockExpires, SeenExpires, QueueTypeOK
<1>9. CASE UNCHANGED <<lastBlock, seen, adds, work, slips, lost>>
  BY <1>9 DEF QueueTypeOK
<1> QED
  BY <1>1, <1>2, <1>3, <1>5, <1>6, <1>7, <1>8, <1>9 DEF QueueStep, WorkFails

\* When nobody comes to add t and neither its count nor its mark changes, its
\* guards hold on.
LEMMA GuardsStay ==
  ASSUME NEW t, MarkGuards(t), ToAdd(t)' \subseteq ToAdd(t),
         adds'[t] = adds[t], t \in seen => t \in seen'
  PROVE  MarkGuards(t)'
BY DEF MarkGuards

LEMMA MarkedFirstStep ==
  ASSUME QueueTypeOK, MarkedFirst, QueueStep
  PROVE  MarkedFirst'
<1>1. SUFFICES ASSUME NEW t \in Transfers, t \notin slips'
               PROVE  MarkGuards(t)'
  BY DEF MarkedFirst
<1>2. t \notin slips => MarkGuards(t)
  BY DEF MarkedFirst
<1>3. CASE \E jobs : Arrive(jobs)
  <2>1. ToAdd(t)' \subseteq ToAdd(t)
    BY <1>3 DEF ToAdd, Arrive
  <2> QED
    BY <1>1, <1>2, <1>3, <2>1, GuardsStay DEF Arrive
<1>4. CASE \E p \in Processes : Forget(p)
  <2>1. ToAdd(t)' \subseteq ToAdd(t)
    BY <1>4 DEF ToAdd, Forget
  <2> QED
    BY <1>1, <1>2, <1>4, <2>1, GuardsStay DEF Forget, queueVars
<1>5. ASSUME NEW w \in work, Mark(w), t \notin slips
      PROVE  MarkGuards(t)'
  <2>1. CASE w.t \in seen \/ w.t # t
    <3>1. ToAdd(t)' \subseteq ToAdd(t)
      BY <1>5, <2>1 DEF ToAdd, Mark, Proceeds, Ends, QueueTypeOK, Jobs
    <3> QED
      BY <1>2, <1>5, <2>1, <3>1, GuardsStay DEF Mark
  <2>2. CASE w.t \notin seen /\ w.t = t
    <3>1. ToAdd(t) = {} /\ adds[t] <= 0
      BY <1>2, <1>5, <2>2 DEF MarkGuards, QueueTypeOK
    <3>2. ToAdd(t)' \subseteq {[w EXCEPT !.stage = "add"]}
      BY <1>5, <2>2, <3>1 DEF ToAdd, Mark, Proceeds
    <3>3. t \in seen' /\ adds' = adds
      BY <1>5, <2>2 DEF Mark
    <3> QED
      BY <3>1, <3>2, <3>3 DEF MarkGuards, QueueTypeOK
  <2> QED
    BY <2>1, <2>2
<1>6. ASSUME NEW w \in work, Add(w) \/ AddErrs(w), t \notin slips
      PROVE  MarkGuards(t)'
  <2>1. /\ ToAdd(t)' \subseteq ToAdd(t)
        /\ w.t = t => ToAdd(t)' \subseteq ToAdd(t) \ {w} /\ w \in ToAdd(t)
        /\ UNCHANGED seen
    BY <1>6 DEF ToAdd, Add, AddErrs, Proceeds, Ends, QueueTypeOK, Jobs
  <2>2. adds' = adds \/ adds' = [adds EXCEPT ![w.t] = adds[w.t] + 1]
    BY <1>6 DEF Add, AddErrs
  <2>3. CASE adds'[t] = adds[t]
    BY <1>2, <1>6, <2>1, <2>3, GuardsStay
  <2>4. CASE w.t = t
    <3>1. ToAdd(t)' = {} /\ t \in seen' /\ adds[t] = 0
      BY <1>2, <1>6, <2>1, <2>4 DEF MarkGuards
    <3>2. adds'[t] <= 1
      BY <2>2, <2>4, <3>1 DEF QueueTypeOK
    <3> QED
      BY <3>1, <3>2 DEF MarkGuards
  <2>5. CASE w.t # t
    BY <2>2, <2>3, <2>5 DEF QueueTypeOK
  <2> QED
    BY <2>4, <2>5
<1>7. ASSUME NEW w \in work, Save(w) \/ SaveErrs(w)
      PROVE  MarkGuards(t)'
  <2>1. ToAdd(t)' \subseteq ToAdd(t)
    BY <1>7 DEF ToAdd, Save, SaveErrs, Ends
  <2>2. UNCHANGED <<adds, seen, slips>>
    BY <1>7 DEF Save, SaveErrs, observers, queueVars
  <2> QED
    BY <1>1, <1>2, <2>1, <2>2, GuardsStay
<1>8. ASSUME NEW w \in work, MarkErrs(w)
      PROVE  MarkGuards(t)'
  <2>1. w.t # t /\ t \notin slips
    BY <1>1, <1>8 DEF MarkErrs
  <2>2. ToAdd(t)' \subseteq ToAdd(t)
    BY <1>8, <2>1 DEF ToAdd, MarkErrs, Proceeds, QueueTypeOK, Jobs
  <2> QED
    BY <1>2, <1>8, <2>1, <2>2, GuardsStay DEF MarkErrs
<1>9. CASE LastBlockExpires \/ \E u \in Transfers : SeenExpires(u)
  <2>1. /\ UNCHANGED <<work, adds>> /\ t \notin slips
        /\ t \in seen => t \in seen'
    BY <1>1, <1>9 DEF LastBlockExpires, SeenExpires, observers
  <2>2. ToAdd(t)' = ToAdd(t)
    BY <2>1 DEF ToAdd
  <2> QED
    BY <1>2, <2>1, <2>2, GuardsStay
<1>10. ASSUME NEW w \in work, Mark(w) \/ Add(w) \/ AddErrs(w)
       PROVE  t \notin slips
  BY <1>1, <1>10 DEF Mark, Add, AddErrs, observers
<1> QED
  BY <1>3, <1>4, <1>5, <1>6, <1>7, <1>8, <1>9, <1>10 DEF QueueStep, WorkFails

\* No transfer leaves the queue.
LEMMA AddsGrow ==
  ASSUME QueueTypeOK, QueueStep
  PROVE  \A t \in Transfers : adds[t] \in Nat /\ adds'[t] \in Nat /\ adds'[t] >= adds[t]
<1>1. \/ UNCHANGED adds
      \/ \E w \in work : adds' = [adds EXCEPT ![w.t] = adds[w.t] + 1]
  BY DEF QueueStep, Arrive, Forget, Mark, Add, Save, WorkFails, MarkErrs, AddErrs, SaveErrs,
         LastBlockExpires, SeenExpires, queueVars
<1> QED
  BY <1>1 DEF QueueTypeOK

LEMMA SeenIsQueuedStep ==
  ASSUME QueueTypeOK, SeenIsQueued, QueueStep
  PROVE  SeenIsQueued'
<1> DEFINE Due(t) == adds[t] > 0 \/ ToAdd(t) # {}
<1>1. SeenIsQueued <=> \A t \in seen \ lost : Due(t)
  BY DEF SeenIsQueued, ToAdd
<1>2. (\A t \in seen' \ lost' : Due(t)') => SeenIsQueued'
  BY DEF SeenIsQueued, ToAdd
<1> SUFFICES ASSUME NEW t \in Transfers, t \in seen', t \notin lost'
             PROVE  Due(t)'
  <2>1. seen' \subseteq Transfers
    BY DEF QueueStep, Arrive, Forget, Mark, Add, Save, WorkFails, MarkErrs, AddErrs, SaveErrs,
           LastBlockExpires, SeenExpires, queueVars, QueueTypeOK, Jobs
  <2> QED
    BY <1>2, <2>1
<1>3. adds[t] > 0 => adds'[t] > 0
  BY AddsGrow
<1>4. t \in seen /\ t \notin lost /\ ToAdd(t) \subseteq ToAdd(t)' => Due(t)'
  BY <1>1, <1>3
<1>5. CASE \E jobs : Arrive(jobs)
  <2>1. t \in seen /\ t \notin lost /\ ToAdd(t) \subseteq ToAdd(t)'
    BY <1>5 DEF Arrive, ToAdd
  <2> QED
    BY <1>4, <2>1
<1>6. ASSUME NEW p \in Processes, Forget(p)
      PROVE  Due(t)'
  <2>1. t \in seen /\ t \notin lost
    BY <1>6 DEF Forget, queueVars
  <2>2. \A w \in ToAdd(t) : w.by \notin Of(p)
    BY <1>6 DEF Forget, ToAdd
  <2>3. ToAdd(t) \subseteq ToAdd(t)'
    BY <1>6, <2>2 DEF Forget, ToAdd
  <2> QED
    BY <1>4, <2>1, <2>3
<1>7. ASSUME NEW w \in work, Mark(w) \/ MarkErrs(w)
      PROVE  Due(t)'
  <2>1. ToAdd(t) \subseteq ToAdd(t)'
    BY <1>7 DEF Mark, MarkErrs, Proceeds, Ends, ToAdd, QueueTypeOK, Jobs
  <2>2. CASE t \in seen
    BY <1>4, <1>7, <2>1, <2>2 DEF Mark, MarkErrs, observers
  <2>3. CASE t \notin seen
    <3>1. w.t = t /\ work' = (work \ {w}) \union {[w EXCEPT !.stage = "add"]}
      BY <1>7, <2>3 DEF Mark, MarkErrs, Proceeds
    <3>2. [w EXCEPT !.stage = "add"] \in ToAdd(t)'
      BY <3>1 DEF ToAdd, QueueTypeOK, Jobs
    <3> QED
      BY <3>2
  <2> QED
    BY <2>2, <2>3
<1>8. ASSUME NEW w \in work, Add(w) \/ AddErrs(w)
      PROVE  Due(t)'
  <2>1. t \in seen /\ t \notin lost
    BY <1>8 DEF Add, AddErrs, observers
  <2>2. CASE w.t = t
    <3>1. adds' = [adds EXCEPT ![w.t] = adds[w.t] + 1]
      BY <1>8, <2>2 DEF Add, AddErrs
    <3> QED
      BY <2>2, <3>1 DEF QueueTypeOK
  <2>3. CASE w.t # t
    <3>1. ToAdd(t) \subseteq ToAdd(t)'
      BY <1>8, <2>3 DEF Add, AddErrs, Proceeds, Ends, ToAdd
    <3> QED
      BY <1>4, <2>1, <3>1
  <2> QED
    BY <2>2, <2>3
<1>9. ASSUME NEW w \in work, Save(w) \/ SaveErrs(w)
      PROVE  Due(t)'
  <2>1. t \in seen /\ t \notin lost /\ ToAdd(t) \subseteq ToAdd(t)'
    BY <1>9 DEF Save, SaveErrs, Ends, ToAdd, observers, queueVars
  <2> QED
    BY <1>4, <2>1
<1>10. CASE LastBlockExpires \/ \E u \in Transfers : SeenExpires(u)
  <2>1. t \in seen /\ t \notin lost /\ UNCHANGED work
    BY <1>10 DEF LastBlockExpires, SeenExpires, observers
  <2>2. ToAdd(t)' = ToAdd(t)
    BY <2>1 DEF ToAdd
  <2> QED
    BY <1>4, <2>1, <2>2
<1> QED
  BY <1>5, <1>6, <1>7, <1>8, <1>9, <1>10 DEF QueueStep, WorkFails

LEMMA SavedIsAddedStep ==
  ASSUME QueueTypeOK, SavedIsAdded, QueueStep
  PROVE  SavedIsAdded'
<1> SUFFICES ASSUME NEW v \in work', v.stage = "save"
             PROVE  adds'[v.t] > 0
  BY DEF SavedIsAdded
<1>1. v \in work => adds'[v.t] > 0
  <2> SUFFICES ASSUME v \in work
               PROVE  adds'[v.t] > 0
    OBVIOUS
  <2>1. adds[v.t] > 0 /\ v.t \in Transfers
    BY DEF SavedIsAdded, QueueTypeOK, Jobs
  <2> QED
    BY <2>1, AddsGrow
<1>2. ASSUME NEW w \in work, Add(w)
      PROVE  adds'[v.t] > 0
  <2>1. CASE v = [w EXCEPT !.stage = "save"]
    <3>1. v.t = w.t /\ w.t \in Transfers
      BY <2>1 DEF QueueTypeOK, Jobs
    <3>2. adds' = [adds EXCEPT ![w.t] = adds[w.t] + 1]
      BY <1>2 DEF Add
    <3> QED
      BY <3>1, <3>2 DEF QueueTypeOK
  <2> QED
    BY <1>1, <1>2, <2>1 DEF Add, Proceeds
<1>3. ASSUME NEW w \in work, Mark(w) \/ MarkErrs(w)
      PROVE  v \in work
  BY <1>3 DEF Mark, MarkErrs, Proceeds, Ends, QueueTypeOK, Jobs
<1>4. ASSUME NEW w \in work, Save(w) \/ SaveErrs(w) \/ AddErrs(w)
      PROVE  v \in work
  BY <1>4 DEF Save, SaveErrs, AddErrs, Ends
<1>5. CASE \/ \E jobs : Arrive(jobs)
           \/ \E p \in Processes : Forget(p)
           \/ LastBlockExpires \/ \E u \in Transfers : SeenExpires(u)
  BY <1>5, <1>1 DEF Arrive, Forget, LastBlockExpires, SeenExpires
<1> QED
  BY <1>1, <1>2, <1>3, <1>4, <1>5 DEF QueueStep, WorkFails

\* The anchor moves only to the block of a transfer that was added.
LEMMA AnchorIsQueuedStep ==
  ASSUME QueueTypeOK, SavedIsAdded, AnchorIsQueued, QueueStep, BlocksGrow
  PROVE  AnchorIsQueued'
<1>1. \/ lastBlock' \in {0, lastBlock}
      \/ \E w \in work : Save(w)
  BY DEF QueueStep, Arrive, Forget, Mark, Add, WorkFails, MarkErrs, AddErrs, SaveErrs,
         LastBlockExpires, SeenExpires, queueVars
<1>2. CASE lastBlock' \in {0, lastBlock}
  <2> SUFFICES ASSUME lastBlock # 0, lastBlock' = lastBlock
               PROVE  \E t \in Transfers : block'[t] = lastBlock' /\ adds'[t] > 0
    BY <1>2 DEF AnchorIsQueued
  <2>1. PICK t \in Transfers : block[t] = lastBlock /\ adds[t] > 0
    BY DEF AnchorIsQueued
  <2>2. block'[t] = block[t] /\ adds'[t] > 0
    BY <2>1, AddsGrow DEF BlocksGrow
  <2> QED
    BY <2>1, <2>2
<1>3. ASSUME NEW w \in work, Save(w)
      PROVE  AnchorIsQueued'
  <2>1. w.t \in Transfers /\ adds[w.t] > 0
    BY <1>3 DEF Save, SavedIsAdded, QueueTypeOK, Jobs
  <2>2. lastBlock' = block[w.t] /\ UNCHANGED <<block, adds>>
    BY <1>3 DEF Save, Around
  <2> QED
    BY <2>1, <2>2 DEF AnchorIsQueued
<1> QED
  BY <1>1, <1>2, <1>3

----------------------------------------------------------------------------
(* Replays. *)

Calls == [at : {"free", "wait", "tip", "anchor", "fetch", "logs", "subscribe", "live", "closing"},
          first : BOOLEAN, from : Nat, to : Nat, next : Nat, end : Nat,
          logs : SUBSET Transfers, clean : BOOLEAN]

CallsOK == run \in [Listeners -> [Slots -> Calls]] /\ lastBlock \in Nat

\* A log of call (l, k) that is about to be marked.
AtHand(l, k, t) ==
  \E w \in work : w.by = l /\ w.via = k /\ ~w.live /\ w.t = t /\ w.stage = "mark"

\* Call c has left out nothing of its range below block b.
Covered(c, b, blocks, marked) ==
  \A t \in Transfers :
    blocks[t] # 0 /\ c.from <= blocks[t] /\ blocks[t] < b
      /\ blocks[t] + Required <= EndOf(c, blocks[t]) => t \in marked
Thorough(c, b) == Covered(c, b, block, seen \union slips)

\* A replay ends below the tip, so that what is mined later lies behind it; its
\* chunks follow one another from where it began; what they left behind has
\* been marked, and of the current one what it has not looked at is in its logs.
Replaying(l, k) ==
  LET c == run[l][k] IN
  /\ c.at \in {"anchor", "fetch", "logs", "subscribe"} => c.to <= tip
  /\ c.at \in {"fetch", "logs"} =>
       /\ c.next <= c.to /\ \E n \in 0 .. c.next : c.next = c.from + Chunk * n
       /\ c.clean => Thorough(c, c.next)
  /\ c.at = "logs" =>
       /\ c.end = ChunkEnd(c)
       /\ \A t \in Transfers :
            block[t] # 0 /\ block[t] \in c.next .. c.end /\ DeepEnough(t, c.end)
              => t \in c.logs \/ AtHand(l, k, t) \/ t \in seen \union slips
  /\ c.at = "subscribe" /\ c.clean => Thorough(c, c.to + 1)

ReplaysOK == \A l \in Listeners, k \in Slots : Replaying(l, k)

\* The chunk a block is in.
LEMMA ChunkOf ==
  ASSUME NEW c \in Calls, NEW n \in Nat, NEW b \in Nat, c.next = c.from + Chunk * n,
         b \in c.next .. ChunkEnd(c)
  PROVE  EndOf(c, b) = ChunkEnd(c)
<1>1. Chunk \in Nat /\ Chunk > 0
  BY ListenerAssumption
<1>2. DEFINE r == b - c.next
<1>3. /\ c.from \in Nat /\ c.to \in Nat /\ c.next \in Nat /\ Chunk * n \in Nat
  BY <1>1 DEF Calls
<1>4. r \in 0 .. Chunk - 1 /\ b - c.from = Chunk * n + r
  BY <1>1, <1>3 DEF ChunkEnd, Least
<1>5. \A d \in 0 .. Chunk - 1 : (Chunk * n + d) \div Chunk = n
  BY <1>1
<1>6. (b - c.from) \div Chunk = n
  BY <1>4, <1>5
<1>7. c.from + Chunk * ((b - c.from) \div Chunk) + Chunk - 1 = c.next + Chunk - 1
  BY <1>6
<1>8. EndOf(c, b) = Least(c.to, c.next + Chunk - 1)
  BY <1>7 DEF EndOf
<1>9. Least(c.to, c.next + Chunk - 1) = Least(c.next + Chunk - 1, c.to)
  BY <1>1, <1>3 DEF Least
<1> QED
  BY <1>8, <1>9 DEF ChunkEnd


\* What a step does around the calls: marks stay or are excused, and a log at
\* hand is dealt with unless its process ends.
LogsKept ==
  /\ seen \union slips \subseteq seen' \union slips'
  /\ \A w \in work : w.stage = "mark" =>
       \/ w \in work' \/ w.t \in seen' \union slips'
       \/ \A k \in Slots : run'[w.by][k] = Free

LEMMA LogsStep ==
  ASSUME QueueTypeOK, QueueStep \/ UNCHANGED <<lastBlock, seen, adds, work, slips, lost>>
  PROVE  LogsKept
<1>1. CASE \E jobs : Arrive(jobs)
  BY <1>1 DEF LogsKept, Arrive
<1>2. ASSUME NEW p \in Processes, Forget(p)
      PROVE  LogsKept
  BY <1>2 DEF LogsKept, Forget, queueVars, QueueTypeOK, Jobs
<1>3. ASSUME NEW w \in work, Mark(w) \/ MarkErrs(w)
      PROVE  LogsKept
  BY <1>3 DEF LogsKept, Mark, MarkErrs, Proceeds, Ends, observers
<1>4. ASSUME NEW w \in work, Add(w) \/ AddErrs(w) \/ Save(w) \/ SaveErrs(w)
      PROVE  LogsKept
  BY <1>4 DEF LogsKept, Add, AddErrs, Save, SaveErrs, Proceeds, Ends, observers, queueVars
<1>5. CASE LastBlockExpires \/ \E t \in Transfers : SeenExpires(t)
  BY <1>5 DEF LogsKept, LastBlockExpires, SeenExpires, observers
<1>6. CASE UNCHANGED <<lastBlock, seen, adds, work, slips, lost>>
  BY <1>6 DEF LogsKept
<1> QED
  BY <1>1, <1>2, <1>3, <1>4, <1>5, <1>6 DEF QueueStep, WorkFails

\* What was thorough stays so for a call of the same range: what is mined now
\* lies above the tip.
LEMMA ThoroughStays ==
  ASSUME QueueTypeOK, BlocksGrow, LogsKept, NEW c \in Calls, NEW d \in Calls,
         d.from = c.from, d.to = c.to, NEW b \in Nat, b <= tip + 1, Thorough(c, b)
  PROVE  Covered(d, b, block', seen' \union slips')
<1> SUFFICES ASSUME NEW t \in Transfers, block'[t] # 0, d.from <= block'[t], block'[t] < b,
                    block'[t] + Required <= EndOf(d, block'[t])
             PROVE  t \in seen' \union slips'
  BY DEF Covered
<1>1. block'[t] = block[t]
  BY DEF BlocksGrow, QueueTypeOK
<1>2. EndOf(d, block[t]) = EndOf(c, block[t])
  BY DEF EndOf
<1> QED
  BY <1>1, <1>2 DEF Thorough, Covered, LogsKept

\* A call that a step leaves alone keeps its promises.
LEMMA OthersReplay ==
  ASSUME QueueTypeOK, BlocksGrow, LogsKept, NEW l \in Listeners, NEW k \in Slots,
         run[l][k] \in Calls, run'[l][k] = run[l][k], Replaying(l, k)
  PROVE  Replaying(l, k)'
<1> DEFINE c == run[l][k]
<1>1. CASE c.at \notin {"anchor", "fetch", "logs", "subscribe"}
  BY <1>1 DEF Replaying
<1>2. CASE c.at \in {"anchor", "fetch", "logs", "subscribe"}
  <2>1. c.to <= tip /\ c.to <= tip' /\ c.to \in Nat /\ c.next \in Nat
    BY <1>2 DEF Replaying, BlocksGrow, QueueTypeOK, Calls
  <2>2. c.at \in {"fetch", "logs"} /\ c.clean
          => Covered(c, c.next, block', seen' \union slips')
    <3>1. c.at \in {"fetch", "logs"} => c.next \in Nat /\ c.next <= tip + 1
      BY <2>1 DEF Replaying, QueueTypeOK
    <3> QED
      BY <3>1, ThoroughStays DEF Replaying
  <2>3. c.at = "subscribe" /\ c.clean
          => Covered(c, c.to + 1, block', seen' \union slips')
    <3>1. c.to + 1 \in Nat /\ c.to + 1 <= tip + 1
      BY <2>1 DEF QueueTypeOK
    <3> QED
      BY <3>1, ThoroughStays DEF Replaying
  <2>4. ASSUME c.at = "logs", NEW t \in Transfers, block'[t] # 0,
               block'[t] \in c.next .. c.end, block'[t] + Required <= c.end
        PROVE  t \in c.logs \/ AtHand(l, k, t)' \/ t \in seen' \union slips'
    <3>1. c.end <= c.to
      BY <2>1, <2>4, ListenerAssumption DEF Replaying, ChunkEnd, Least
    <3>2. block'[t] = block[t]
      BY <2>1, <2>4, <3>1 DEF BlocksGrow, QueueTypeOK, Calls
    <3>3. t \in c.logs \/ AtHand(l, k, t) \/ t \in seen \union slips
      BY <2>4, <3>2 DEF Replaying, DeepEnough
    <3>4. run'[l][k] # Free
      BY <2>4 DEF Free
    <3>5. AtHand(l, k, t) => AtHand(l, k, t)' \/ t \in seen' \union slips'
      BY <3>4 DEF AtHand, LogsKept
    <3> QED
      BY <3>3, <3>5 DEF LogsKept
  <2> QED
    BY <2>1, <2>2, <2>3, <2>4 DEF Replaying, ChunkEnd, DeepEnough, Thorough
<1> QED
  BY <1>1, <1>2

\* The places of a call that is not replaying.
Away == {"free", "wait", "tip", "live", "closing"}

Moves(l, k) ==
  \/ ReadTip(l, k) \/ LoadLastBlock(l, k) \/ LoadLastBlockErrs(l, k)
  \/ FetchChunk(l, k) \/ FetchChunkErrs(l, k) \/ EndChunk(l, k)
  \/ \E t \in Transfers : ProcessLog(l, k, t)

Settled(l, k) == run'[l][k] = run[l][k] \/ run'[l][k].at \in Away

LEMMA FreshCalls ==
  /\ Free \in Calls /\ Free.at \in Away
  /\ Waiting \in Calls /\ Waiting.at \in Away
  /\ \A b \in BOOLEAN : Calling(b) \in Calls /\ Calling(b).at \in Away
  /\ \A a \in Away : [Free EXCEPT !.at = a] \in Calls /\ [Free EXCEPT !.at = a].at \in Away
BY DEF Free, Waiting, Calling, Calls, Away

LEMMA SetOne ==
  ASSUME CallsOK, NEW l \in Listeners, NEW k \in Slots, NEW call \in Calls, SetCall(l, k, call)
  PROVE  /\ run' \in [Listeners -> [Slots -> Calls]]
         /\ run'[l][k] = call
         /\ \A m \in Listeners, j \in Slots : m # l \/ j # k => run'[m][j] = run[m][j]
BY DEF SetCall, CallsOK

LEMMA SetAll ==
  ASSUME CallsOK, NEW l \in Listeners, NEW calls \in [Slots -> Calls],
         run' = [run EXCEPT ![l] = calls],
         \A k \in Slots : calls[k] = run[l][k] \/ calls[k].at \in Away
  PROVE  /\ run' \in [Listeners -> [Slots -> Calls]]
         /\ \A m \in Listeners, k \in Slots : Settled(m, k)
BY DEF CallsOK, Settled

LEMMA TornCalls ==
  ASSUME CallsOK, NEW l \in Listeners
  PROVE  /\ Torn(l) \in [Slots -> Calls]
         /\ \A k \in Slots : Torn(l)[k] = run[l][k] \/ Torn(l)[k].at \in Away
BY FreshCalls DEF Torn, CallsOK, Away

\* How a step that moves the replay of call (l, k) leaves the record of it.
LEMMA MovesTyped ==
  ASSUME QueueTypeOK, CallsOK, NEW l \in Listeners, NEW k \in Slots, Moves(l, k)
  PROVE  \E call \in Calls : SetCall(l, k, call)
<1> DEFINE c == run[l][k]
<1>1. c \in Calls /\ c.to \in Nat /\ c.next \in Nat /\ Chunk \in Nat /\ Chunk > 0
  BY ListenerAssumption DEF CallsOK, Calls
<1>2. Below(tip, 1) \in Nat
  BY DEF Below, QueueTypeOK
<1>3. \A s \in Nat, m \in Nat : ReplayFrom(s, m) \in Nat
  BY ListenerAssumption DEF ReplayFrom, Below
<1>4. ChunkEnd(c) \in Nat
  BY <1>1 DEF ChunkEnd, Least
<1>5. CASE ReadTip(l, k)
  BY <1>1, <1>2, <1>5 DEF ReadTip, Calls
<1>6. CASE LoadLastBlock(l, k) \/ LoadLastBlockErrs(l, k)
  <2>1. PICK from \in Nat : Begin(l, k, from)
    <3>1. c.to + 1 \in Nat /\ lastBlock \in Nat
      BY <1>1 DEF CallsOK
    <3> QED
      BY <1>3, <1>6, <3>1 DEF LoadLastBlock, LoadLastBlockErrs
  <2> QED
    BY <1>1, <2>1 DEF Begin, Calls
<1>7. CASE FetchChunk(l, k)
  BY <1>1, <1>4, <1>7 DEF FetchChunk, Calls
<1>8. After(c) \in Calls /\ [After(c) EXCEPT !.clean = FALSE] \in Calls
  <2>1. ChunkEnd(c) + 1 \in Nat
    BY <1>4
  <2>2. After(c) \in Calls
    BY <1>1, <2>1 DEF After, Calls
  <2> QED
    BY <2>2 DEF Calls
<1>9. CASE FetchChunkErrs(l, k) \/ EndChunk(l, k)
  BY <1>8, <1>9 DEF FetchChunkErrs, EndChunk
<1>10. CASE \E t \in Transfers : ProcessLog(l, k, t)
  <2>1. PICK t \in Transfers : ProcessLog(l, k, t)
    BY <1>10
  <2> QED
    BY <1>1, <2>1 DEF ProcessLog, Calls
<1> QED
  BY <1>5, <1>6, <1>7, <1>9, <1>10 DEF Moves

\* A step moves at most one replay; every other call stays or is away from it.
LEMMA EveryCall ==
  ASSUME QueueTypeOK, CallsOK, [Next]_vars
  PROVE  /\ run' \in [Listeners -> [Slots -> Calls]]
         /\ \A l \in Listeners, k \in Slots : Settled(l, k) \/ Moves(l, k)
<1> DEFINE Goal == /\ run' \in [Listeners -> [Slots -> Calls]]
                   /\ \A l \in Listeners, k \in Slots : Settled(l, k) \/ Moves(l, k)
<1> SUFFICES Goal
  OBVIOUS
<1>1. CASE UNCHANGED run
  BY <1>1 DEF CallsOK, Settled
<1>2. ASSUME NEW l \in Listeners, NEW k \in Slots, NEW call \in Calls,
             SetCall(l, k, call), call.at \in Away \/ Moves(l, k)
      PROVE  Goal
  BY <1>2, SetOne DEF Settled
<1>3. ASSUME NEW l \in Listeners, run' = [run EXCEPT ![l] = Torn(l)]
      PROVE  Goal
  BY <1>3, TornCalls, SetAll
<1>4. ASSUME NEW l \in Listeners, StartFirst(l) \/ StopCalls(l)
      PROVE  Goal
  BY <1>2, <1>3, <1>4, FreshCalls DEF StartFirst, StopCalls
<1>5. CASE \E l \in Listeners : RoleStep(l) \/ DemoteInVain(l)
  BY <1>4, <1>5 DEF RoleStep, DemoteInVain, Boot, TakeOver, Demote
<1>6. ASSUME NEW p \in Processes, Forget(p)
      PROVE  Goal
  <2>1. run' = [l \in Listeners |-> IF l \in Of(p) THEN [k \in Slots |-> Free] ELSE run[l]]
    BY <1>6 DEF Forget
  <2> QED
    BY <2>1, FreshCalls DEF CallsOK, Settled
<1>7. ASSUME NEW l \in Listeners, NEW k \in Slots, TimerFires(l, k) \/ ReadTipErrs(l, k)
      PROVE  Goal
  BY <1>2, <1>7, FreshCalls DEF TimerFires, ReadTipErrs
<1>8. ASSUME NEW l \in Listeners, NEW k \in Slots, Moves(l, k)
      PROVE  Goal
  BY <1>2, <1>8, MovesTyped
<1>9. ASSUME NEW l \in Listeners, NEW k \in Slots, Subscribe(l, k)
      PROVE  Goal
  <2>1. SetCall(l, k, [Free EXCEPT !.at = "live"])
    BY <1>9 DEF Subscribe
  <2> QED
    BY <1>2, <2>1, FreshCalls DEF Away
<1>10. ASSUME NEW l \in Listeners, NEW k \in Slots, Closed(l, k)
       PROVE  Goal
  <2>1. CASE role[l] = "active"
    <3> DEFINE calls == [Torn(l) EXCEPT ![k] = Waiting]
    <3>1. run' = [run EXCEPT ![l] = calls]
      BY <1>10, <2>1 DEF Closed
    <3>2. /\ calls \in [Slots -> Calls]
          /\ \A j \in Slots : calls[j] = run[l][j] \/ calls[j].at \in Away
      BY TornCalls, FreshCalls
    <3> QED
      BY <3>1, <3>2, SetAll
  <2>2. CASE role[l] # "active"
    BY <1>2, <1>10, <2>2, FreshCalls DEF Closed
  <2> QED
    BY <2>1, <2>2
<1>11. ASSUME NEW l \in Listeners, NEW k \in Slots, SocketErrs(l, k)
       PROVE  Goal
  <2> DEFINE dead == [Free EXCEPT !.at = "closing"]
  <2>1. dead \in Calls /\ dead.at \in Away
    BY FreshCalls DEF Away
  <2>2. CASE role[l] = "active"
    <3>1. PICK j \in Slots :
            run' = [run EXCEPT ![l] = [Torn(l) EXCEPT ![k] = dead, ![j] = Waiting]]
      BY <1>11, <2>2 DEF SocketErrs
    <3> DEFINE calls == [Torn(l) EXCEPT ![k] = dead, ![j] = Waiting]
    <3>2. /\ calls \in [Slots -> Calls]
          /\ \A i \in Slots : calls[i] = run[l][i] \/ calls[i].at \in Away
      BY <2>1, TornCalls, FreshCalls
    <3>3. run' = [run EXCEPT ![l] = calls]
      BY <3>1
    <3> QED
      BY <3>2, <3>3, SetAll
  <2>3. CASE role[l] # "active"
    <3>1. SetCall(l, k, dead)
      BY <1>11, <2>3 DEF SocketErrs
    <3> QED
      BY <1>2, <2>1, <3>1
  <2> QED
    BY <2>2, <2>3
<1>12. ASSUME NEW l \in Listeners, NEW k \in Slots, CallStep(l, k) \/ CallFails(l, k)
       PROVE  Goal
  BY <1>7, <1>8, <1>9, <1>10, <1>11, <1>12
     DEF CallStep, CallFails, Moves, Reconnect, ReconnectEarly, LateClose, SocketCloses
<1>13. CASE \/ \E ts \in SUBSET Transfers : Mine(ts)
            \/ \E l \in Listeners : WorkStep(l)
            \/ Expire \/ WorkFails \/ LastBlockExpires
            \/ \E t \in Transfers : SeenExpires(t)
            \/ UNCHANGED vars
  BY <1>1, <1>13 DEF Mine, WorkStep, Mark, Add, Save, Expire, WorkFails, MarkErrs, AddErrs,
     SaveErrs, LastBlockExpires, SeenExpires, Around, callVars, vars
<1> QED
  BY <1>5, <1>6, <1>12, <1>13 DEF Next, Die, Stop

LEMMA CallTypes ==
  ASSUME QueueTypeOK, CallsOK, [Next]_vars
  PROVE  CallsOK'
<1>1. lastBlock' \in Nat
  <2>1. \A w \in work : w.t \in Transfers
    BY DEF QueueTypeOK, Jobs
  <2>2. QueueStep \/ UNCHANGED lastBlock
    BY EveryStep
  <2>3. lastBlock' \in {0, lastBlock} \/ \E w \in work : lastBlock' = block[w.t]
    BY <2>2 DEF QueueStep, Arrive, Forget, Mark, Add, Save, WorkFails, MarkErrs, AddErrs,
       SaveErrs, LastBlockExpires, SeenExpires, queueVars
  <2> QED
    BY <2>1, <2>3 DEF QueueTypeOK, CallsOK
<1> QED
  BY <1>1, EveryCall DEF CallsOK

\* A call before its first chunk has left nothing out.
LEMMA BeginReplays ==
  ASSUME QueueTypeOK, CallsOK, BlocksGrow, NEW l \in Listeners, NEW k \in Slots,
         NEW from \in Nat, run[l][k].to <= tip, Begin(l, k, from)
  PROVE  Replaying(l, k)'
<1> DEFINE c == run[l][k]  d == run'[l][k]
<1>1. c \in Calls /\ c.to \in Nat /\ Chunk \in Nat
  BY ListenerAssumption DEF CallsOK, Calls
<1>2. d = [c EXCEPT !.from = from, !.next = from,
                    !.at = IF from <= c.to THEN "fetch" ELSE "subscribe"]
  BY DEF Begin, SetCall, CallsOK
<1>3. /\ d.from = from /\ d.next = from /\ d.to = c.to
      /\ d.at = IF from <= c.to THEN "fetch" ELSE "subscribe"
  BY <1>1, <1>2 DEF Calls
<1>4. d.to <= tip'
  BY <1>1, <1>3 DEF BlocksGrow, QueueTypeOK
<1>5. 0 \in 0 .. d.next /\ d.next = d.from + Chunk * 0
  BY <1>1, <1>3
<1>6. \A b \in Nat : b <= from => Covered(d, b, block', seen' \union slips')
  BY <1>3 DEF Covered, BlocksGrow, QueueTypeOK
<1>7. CASE from <= c.to
  BY <1>3, <1>4, <1>5, <1>6, <1>7 DEF Replaying, Thorough
<1>8. CASE ~(from <= c.to)
  <2>1. c.to + 1 \in Nat /\ c.to + 1 <= from
    BY <1>1, <1>8
  <2> QED
    BY <1>3, <1>4, <1>6, <1>8, <2>1 DEF Replaying, Thorough
<1> QED
  BY <1>7, <1>8

\* A call that leaves a chunk behind, in which it missed nothing or which it
\* knows it has not seen, goes on with the next one or has done the last.
LEMMA AfterReplays ==
  ASSUME QueueTypeOK, CallsOK, BlocksGrow, LogsKept, NEW l \in Listeners, NEW k \in Slots,
         run[l][k].at \in {"fetch", "logs"}, Replaying(l, k),
         run'[l][k] \in {After(run[l][k]), [After(run[l][k]) EXCEPT !.clean = FALSE]},
         run'[l][k].clean =>
           \A t \in Transfers :
             block'[t] # 0 /\ block'[t] \in run[l][k].next .. ChunkEnd(run[l][k])
               /\ block'[t] + Required <= ChunkEnd(run[l][k]) => t \in seen' \union slips'
  PROVE  Replaying(l, k)'
<1> DEFINE c == run[l][k]  d == run'[l][k]  e == ChunkEnd(c)
<1>1. /\ c \in Calls /\ c.to \in Nat /\ c.next \in Nat /\ c.from \in Nat
      /\ Chunk \in Nat /\ Chunk > 0
  BY ListenerAssumption DEF CallsOK, Calls
<1>2. /\ e \in Nat /\ e + 1 \in Nat /\ e <= c.to /\ e >= c.next
      /\ e < c.to => e = c.next + Chunk - 1
    BY <1>1 DEF ChunkEnd, Least, Replaying
<1>3. /\ d \in Calls /\ d.from = c.from /\ d.to = c.to /\ d.next = e + 1
      /\ d.at = IF e < c.to THEN "fetch" ELSE "subscribe"
      /\ d.clean => c.clean
  <2>1. After(c) \in Calls
    BY <1>1, <1>2 DEF After, Calls
  <2>2. /\ After(c).from = c.from /\ After(c).to = c.to /\ After(c).next = e + 1
        /\ After(c).at = IF e < c.to THEN "fetch" ELSE "subscribe"
        /\ After(c).clean = c.clean
    BY <1>1 DEF After, Calls
  <2> QED
    BY <2>1, <2>2 DEF Calls
<1>4. c.to <= tip /\ d.to <= tip'
  BY <1>1, <1>3 DEF Replaying, BlocksGrow, QueueTypeOK
<1>5. PICK n \in 0 .. c.next : c.next = c.from + Chunk * n
  BY DEF Replaying
<1>6. d.clean => Covered(d, e + 1, block', seen' \union slips')
  <2> SUFFICES ASSUME d.clean, NEW t \in Transfers, block'[t] # 0, c.from <= block'[t],
                      block'[t] < e + 1, block'[t] + Required <= EndOf(c, block'[t])
               PROVE  t \in seen' \union slips'
    BY <1>3 DEF Covered, EndOf
  <2>1. block'[t] \in Nat
    BY DEF BlocksGrow
  <2>2. CASE block'[t] < c.next
    <3>1. Thorough(c, c.next)
      BY <1>3 DEF Replaying
    <3>2. c.next <= tip + 1
      BY <1>1, <1>2, <1>4 DEF QueueTypeOK
    <3>3. block'[t] = block[t]
      BY <1>1, <2>1, <2>2, <3>2 DEF BlocksGrow, QueueTypeOK
    <3> QED
      BY <2>2, <3>1, <3>3 DEF Thorough, Covered, LogsKept
  <2>3. CASE ~(block'[t] < c.next)
    <3>1. block'[t] \in c.next .. e
      BY <1>1, <1>2, <2>1, <2>3
    <3>2. n \in Nat
      BY <1>1, <1>5
    <3>3. EndOf(c, block'[t]) = e
      BY <1>1, <1>5, <2>1, <3>1, <3>2, ChunkOf
    <3> QED
      BY <3>1, <3>3
  <2> QED
    BY <2>2, <2>3
<1>7. CASE e < c.to
  <2>1. n + 1 \in 0 .. d.next /\ d.next = d.from + Chunk * (n + 1)
    <3>1. n \in Nat /\ Chunk * (n + 1) = Chunk * n + Chunk
      BY <1>1, <1>5
    <3>2. n + 1 \in 0 .. d.next
      BY <1>1, <1>2, <1>3, <1>5, <3>1
    <3>3. d.next = c.next + Chunk
      BY <1>1, <1>2, <1>3, <1>7
    <3>4. Chunk * n \in Nat
      BY <1>1, <3>1
    <3> QED
      BY <1>1, <1>3, <1>5, <3>1, <3>2, <3>3, <3>4
  <2>2. d.next <= d.to /\ d.at = "fetch"
    BY <1>1, <1>2, <1>3, <1>7
  <2>3. \E m \in 0 .. d.next : d.next = d.from + Chunk * m
    BY <2>1
  <2> QED
    BY <1>3, <1>4, <1>6, <2>2, <2>3 DEF Replaying, Thorough
<1>8. CASE ~(e < c.to)
  <2>1. e + 1 = d.to + 1 /\ d.at = "subscribe"
    BY <1>1, <1>2, <1>3, <1>8
  <2> QED
    BY <1>4, <1>6, <2>1 DEF Replaying, Thorough
<1> QED
  BY <1>7, <1>8

\* A step that moves the replay of call (l, k) keeps its promises.
LEMMA OneReplays ==
  ASSUME QueueTypeOK, CallsOK, BlocksGrow, LogsKept, NEW l \in Listeners, NEW k \in Slots,
         Moves(l, k), Replaying(l, k)
  PROVE  Replaying(l, k)'
<1> DEFINE c == run[l][k]  d == run'[l][k]
<1>1. /\ c \in Calls /\ c.to \in Nat /\ c.next \in Nat /\ c.from \in Nat
      /\ Chunk \in Nat /\ Chunk > 0
  BY ListenerAssumption DEF CallsOK, Calls
<1>2. ASSUME NEW call, SetCall(l, k, call)
      PROVE  d = call
  BY <1>2 DEF SetCall, CallsOK
<1>3. ASSUME ReadTip(l, k)
      PROVE  Replaying(l, k)'
  <2>1. d = [c EXCEPT !.at = "anchor", !.to = Below(tip, 1)]
    BY <1>2, <1>3 DEF ReadTip
  <2>2. Below(tip, 1) <= tip'
    BY DEF Below, BlocksGrow, QueueTypeOK
  <2>3. d.at = "anchor" /\ d.to <= tip'
    BY <1>1, <2>1, <2>2 DEF Calls
  <2> QED
    BY <2>3 DEF Replaying
<1>4. ASSUME LoadLastBlock(l, k) \/ LoadLastBlockErrs(l, k)
      PROVE  Replaying(l, k)'
  <2>1. \A s \in Nat, m \in Nat : ReplayFrom(s, m) \in Nat
    BY ListenerAssumption DEF ReplayFrom, Below
  <2>2. c.to + 1 \in Nat /\ lastBlock \in Nat /\ c.to <= tip
    BY <1>1, <1>4 DEF CallsOK, Replaying, LoadLastBlock, LoadLastBlockErrs
  <2>3. PICK from \in Nat : Begin(l, k, from)
    BY <1>4, <2>1, <2>2 DEF LoadLastBlock, LoadLastBlockErrs
  <2> QED
    BY <2>2, <2>3, BeginReplays
<1>5. ASSUME c.at \in {"fetch", "logs"}, c.to <= tip, d \in Calls, d.from = c.from,
             d.to = c.to, d.next = c.next, d.clean = c.clean, d.at \in {"fetch", "logs"}
      PROVE  /\ d.to <= tip' /\ d.next <= d.to
             /\ \E n \in 0 .. d.next : d.next = d.from + Chunk * n
             /\ d.clean => Covered(d, d.next, block', seen' \union slips')
  <2>1. d.to <= tip' /\ d.next <= d.to /\ d.next <= tip + 1
    BY <1>1, <1>5 DEF Replaying, BlocksGrow, QueueTypeOK
  <2>2. \E n \in 0 .. d.next : d.next = d.from + Chunk * n
    BY <1>5 DEF Replaying
  <2>3. d.clean => Thorough(c, c.next)
    BY <1>5 DEF Replaying
  <2>4. d.clean => Covered(d, c.next, block', seen' \union slips')
    BY <1>1, <1>5, <2>1, <2>3, ThoroughStays
  <2> QED
    BY <1>5, <2>1, <2>2, <2>4
<1>6. ASSUME FetchChunk(l, k)
      PROVE  Replaying(l, k)'
  <2> DEFINE logs == {t \in Transfers : block[t] # 0 /\ block[t] \in c.next .. ChunkEnd(c)}
  <2>1. d = [c EXCEPT !.at = "logs", !.end = ChunkEnd(c), !.logs = logs]
    BY <1>2, <1>6 DEF FetchChunk
  <2>2. ChunkEnd(c) \in Nat
    BY <1>1 DEF ChunkEnd, Least
  <2>3. /\ d \in Calls /\ d.at = "logs" /\ d.end = ChunkEnd(c) /\ d.logs = logs
        /\ d.from = c.from /\ d.to = c.to /\ d.next = c.next /\ d.clean = c.clean
    BY <1>1, <2>1, <2>2 DEF Calls
  <2>4. c.at = "fetch" /\ c.to <= tip /\ UNCHANGED block
    BY <1>6 DEF FetchChunk, Replaying
  <2>5. \A t \in Transfers : block'[t] # 0 /\ block'[t] \in d.next .. d.end => t \in d.logs
    BY <2>3, <2>4
  <2>6. d.end = ChunkEnd(d)
    BY <2>3 DEF ChunkEnd
  <2> QED
    BY <1>5, <2>3, <2>4, <2>5, <2>6 DEF Replaying, ChunkEnd, DeepEnough, Thorough
<1>7. ASSUME FetchChunkErrs(l, k)
      PROVE  Replaying(l, k)'
  <2>1. d = [After(c) EXCEPT !.clean = FALSE] /\ c.at = "fetch"
    BY <1>2, <1>7 DEF FetchChunkErrs
  <2>2. After(c) \in Calls
    <3>1. ChunkEnd(c) + 1 \in Nat
      BY <1>1 DEF ChunkEnd, Least
    <3> QED
      BY <1>1, <3>1 DEF After, Calls
  <2>3. ~d.clean
    BY <2>1, <2>2 DEF Calls
  <2> QED
    BY <2>1, <2>3, AfterReplays
<1>8. ASSUME EndChunk(l, k)
      PROVE  Replaying(l, k)'
  <2>1. d = After(c) /\ c.at = "logs" /\ c.logs = {} /\ ~InHand(l, k) /\ UNCHANGED block
    BY <1>2, <1>8 DEF EndChunk
  <2>2. \A t \in Transfers : ~AtHand(l, k, t)
    BY <2>1 DEF AtHand, InHand
  <2>3. c.end = ChunkEnd(c)
    BY <2>1 DEF Replaying
  <2>4. ASSUME NEW t \in Transfers, block'[t] # 0, block'[t] \in c.next .. ChunkEnd(c),
               block'[t] + Required <= ChunkEnd(c)
        PROVE  t \in seen' \union slips'
    <3>1. DeepEnough(t, c.end)
      BY <2>1, <2>3, <2>4 DEF DeepEnough
    <3> QED
      BY <2>1, <2>2, <2>3, <2>4, <3>1 DEF Replaying, LogsKept
  <2> QED
    BY <2>1, <2>4, AfterReplays
<1>9. ASSUME NEW u \in Transfers, ProcessLog(l, k, u)
      PROVE  Replaying(l, k)'
  <2>1. d = [c EXCEPT !.logs = c.logs \ {u}] /\ c.at = "logs" /\ UNCHANGED block
    BY <1>2, <1>9 DEF ProcessLog
  <2>2. /\ d \in Calls /\ d.at = "logs" /\ d.end = c.end /\ d.logs = c.logs \ {u}
        /\ d.from = c.from /\ d.to = c.to /\ d.next = c.next /\ d.clean = c.clean
    BY <1>1, <2>1 DEF Calls
  <2>3. c.to <= tip /\ c.end = ChunkEnd(c) /\ ChunkEnd(d) = ChunkEnd(c)
    BY <2>1, <2>2 DEF Replaying, ChunkEnd
  <2>4. work \subseteq work'
    BY <1>9 DEF ProcessLog
  <2>5. DeepEnough(u, c.end) => AtHand(l, k, u)'
    <3> DEFINE job == Job(l, k, FALSE, u)
    <3>1. DeepEnough(u, c.end) => job \in work'
      BY <1>9 DEF ProcessLog
    <3>2. /\ job.by = l /\ job.via = k /\ ~job.live
          /\ job.t = u /\ job.stage = "mark"
      BY DEF Job
    <3> QED
      BY <3>1, <3>2 DEF AtHand
  <2>6. ASSUME NEW t \in Transfers, block'[t] # 0, block'[t] \in d.next .. d.end,
               block'[t] + Required <= d.end
        PROVE  t \in d.logs \/ AtHand(l, k, t)' \/ t \in seen' \union slips'
    <3>1. DeepEnough(t, c.end)
      BY <2>1, <2>2, <2>6 DEF DeepEnough
    <3>2. t \in c.logs \/ AtHand(l, k, t) \/ t \in seen \union slips
      BY <2>1, <2>2, <2>6, <3>1 DEF Replaying
    <3>3. AtHand(l, k, t) => AtHand(l, k, t)'
      BY <2>4 DEF AtHand
    <3> QED
      BY <2>2, <2>5, <3>1, <3>2, <3>3 DEF LogsKept
  <2> QED
    BY <1>5, <2>1, <2>2, <2>3, <2>6 DEF Replaying, ChunkEnd, DeepEnough, Thorough
<1> QED
  BY <1>3, <1>4, <1>6, <1>7, <1>8, <1>9 DEF Moves

----------------------------------------------------------------------------
(* Theorems. *)

\* Whatever listeners, calls and faults do, marks come before queue and anchor.
THEOREM IngestionInvariant == Spec => [](QueueTypeOK /\ Inductive)
<1>1. Init => QueueTypeOK /\ Inductive
  <2> SUFFICES ASSUME Init
               PROVE  QueueTypeOK /\ Inductive
    OBVIOUS
  <2>1. FirstBlock \in Nat
    BY ListenerAssumption
  <2>2. QueueTypeOK
    BY <2>1 DEF Init, QueueTypeOK
  <2>3. MarkedFirst /\ SeenIsQueued /\ SavedIsAdded /\ AnchorIsQueued
    BY DEF Init, MarkedFirst, MarkGuards, ToAdd, SeenIsQueued, SavedIsAdded, AnchorIsQueued
  <2> QED
    BY <2>2, <2>3 DEF Inductive
<1>2. QueueTypeOK /\ Inductive /\ [Next]_vars => (QueueTypeOK /\ Inductive)'
  <2> SUFFICES ASSUME QueueTypeOK, Inductive, [Next]_vars
               PROVE  QueueTypeOK' /\ Inductive'
    OBVIOUS
  <2>1. BlocksGrow /\ (QueueStep \/ UNCHANGED <<lastBlock, seen, adds, work, slips, lost>>)
    BY EveryStep
  <2>2. QueueTypeOK'
    BY QueueTypes
  <2>3. CASE QueueStep
    BY <2>1, <2>2, <2>3, MarkedFirstStep, SeenIsQueuedStep, SavedIsAddedStep, AnchorIsQueuedStep
       DEF Inductive
  <2>4. CASE UNCHANGED <<lastBlock, seen, adds, work, slips, lost>>
    <3>1. MarkedFirst' /\ SeenIsQueued' /\ SavedIsAdded'
      BY <2>4 DEF Inductive, MarkedFirst, MarkGuards, ToAdd, SeenIsQueued, SavedIsAdded
    <3>2. AnchorIsQueued'
      BY <2>1, <2>4 DEF Inductive, AnchorIsQueued, BlocksGrow
    <3> QED
      BY <2>2, <3>1, <3>2 DEF Inductive
  <2> QED
    BY <2>1, <2>3, <2>4
<1> QED
  BY <1>1, <1>2, PTL DEF Spec

\* A transfer is added to the queue at most once, unless Redis failed to set
\* its mark or dropped it.
THEOREM TransfersAreAddedOnce == Spec => []AddedOnce
<1>1. Inductive => AddedOnce
  BY DEF Inductive, MarkedFirst, MarkGuards, AddedOnce
<1> QED
  BY <1>1, IngestionInvariant, PTL

\* A marked transfer is in the queue, on its way there, or known to be lost.
THEOREM MarkedIsQueued == Spec => []SeenIsQueued
<1>1. Inductive => SeenIsQueued
  BY DEF Inductive
<1> QED
  BY <1>1, IngestionInvariant, PTL

\* The anchor of the next replay is the block of a transfer that was added.
THEOREM AnchorIsHonest == Spec => []AnchorIsQueued
<1>1. Inductive => AnchorIsQueued
  BY DEF Inductive
<1> QED
  BY <1>1, IngestionInvariant, PTL

\* Every call keeps what it promises of its replay.
THEOREM ReplayInvariant == Spec => [](CallsOK /\ ReplaysOK)
<1>1. Init => CallsOK /\ ReplaysOK
  BY FreshCalls DEF Init, CallsOK, ReplaysOK, Replaying, Away
<1>2. QueueTypeOK /\ CallsOK /\ ReplaysOK /\ [Next]_vars => (CallsOK /\ ReplaysOK)'
  <2> SUFFICES ASSUME QueueTypeOK, CallsOK, ReplaysOK, [Next]_vars
               PROVE  CallsOK' /\ ReplaysOK'
    OBVIOUS
  <2>1. BlocksGrow /\ LogsKept
    BY EveryStep, LogsStep
  <2>2. ASSUME NEW l \in Listeners, NEW k \in Slots
        PROVE  Replaying(l, k)'
    <3>1. run[l][k] \in Calls /\ Replaying(l, k)
      BY DEF CallsOK, ReplaysOK
    <3>2. CASE run'[l][k] = run[l][k]
      BY <2>1, <3>1, <3>2, OthersReplay
    <3>3. CASE run'[l][k].at \in Away
      BY <3>3 DEF Replaying, Away
    <3>4. CASE Moves(l, k)
      BY <2>1, <3>1, <3>4, OneReplays
    <3> QED
      BY <3>2, <3>3, <3>4, EveryCall DEF Settled
  <2> QED
    BY <2>2, CallTypes DEF ReplaysOK
<1>3. QueueTypeOK /\ Inductive => QueueTypeOK
  OBVIOUS
<1> QED
  BY <1>1, <1>2, <1>3, IngestionInvariant, PTL DEF Spec

\* When a call that fetched all its chunks subscribes, every transfer of its
\* range that lies deep enough in its chunk has been marked: there is no gap
\* between the last block processed and the subscription.
THEOREM ReplaysAreThorough == Spec => []ReplayIsThorough
<1>1. CallsOK /\ ReplaysOK => ReplayIsThorough
  <2> SUFFICES ASSUME CallsOK, ReplaysOK, NEW l \in Listeners, NEW k \in Slots,
                      run[l][k].at = "subscribe", run[l][k].clean, NEW t \in Transfers,
                      block[t] # 0, block[t] \in run[l][k].from .. run[l][k].to,
                      DeepEnough(t, EndOf(run[l][k], block[t]))
               PROVE  t \in seen \union slips
    BY DEF ReplayIsThorough
  <2>1. run[l][k].from \in Nat /\ run[l][k].to \in Nat
    BY DEF CallsOK, Calls
  <2>2. run[l][k].from <= block[t] /\ block[t] < run[l][k].to + 1
    BY <2>1
  <2>3. Thorough(run[l][k], run[l][k].to + 1)
    BY DEF ReplaysOK, Replaying
  <2> QED
    BY <2>2, <2>3 DEF Thorough, Covered, DeepEnough
<1> QED
  BY <1>1, ReplayInvariant, PTL
=============================================================================
