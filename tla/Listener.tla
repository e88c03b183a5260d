------------------------------ MODULE Listener ------------------------------
(***************************************************************************)
(* BlockchainListenerService on one chain: what the leader of the election *)
(* does with its role.  startListening reads the tip and the last block    *)
(* processed, replays the logs between them in chunks, and subscribes; a   *)
(* transfer from either source is marked as seen, added to the queue and   *)
(* anchors the next replay.  Every await is a boundary between actions.    *)
(*                                                                         *)
(* A call of startListening occupies a slot of its listener from its timer *)
(* to the close event of its socket, because calls overlap: a socket may   *)
(* close late, and a listener may be demoted and elected again meanwhile.  *)
(* The chain, the socket, Redis and BullMQ are external; the block numbers *)
(* of the code (500, 20, 5, 2) are scaled down by the constants.           *)
(***************************************************************************)
EXTENDS LeaderElection, FiniteSets

CONSTANTS
  Transfers,  \* transfers of the token that may be mined
  FirstBlock, \* the last block when the first listener starts
  MaxBlock,   \* bound: the chain stops there
  MaxSlots,   \* bound: overlapping calls of startListening in a listener
  Chunk,      \* MAX_LOGS_CHUNK_BLOCKS
  Lookback,   \* RECONNECT_LOOKBACK_BLOCKS
  Rewind,     \* the 5 of storedBlock - 5
  Required    \* CONFIRMATIONS_REQUIRED

ASSUME ListenerAssumption ==
  /\ {Lookback, Rewind, Required} \subseteq Nat
  /\ MaxBlock \in Nat /\ FirstBlock \in 1 .. MaxBlock
  /\ {MaxSlots, Chunk} \subseteq Nat \ {0}

VARIABLES
  tip,        \* the chain's last block
  block,      \* [Transfers -> block it is in, 0 when not mined]
  lastBlock,  \* listener:lastblock:{chain}, 0 when absent
  seen,       \* transfers with a key listener:seen:...
  adds,       \* [Transfers -> Nat]: times it was added to the queue
  run,        \* [Listeners -> [Slots -> call of startListening]]
  timer,      \* [Listeners -> slot in reconnectTimers, 0 for none]
  conn,       \* [Listeners -> slot in providers and contracts, 0 for none]
  work,       \* calls of processTransfer past the confirmation gate
  slips,      \* observer: transfers whose mark Redis failed to set or dropped
  lost        \* observer: transfers dropped after their mark

queueVars == <<lastBlock, seen, adds>>
callVars == <<run, timer, conn>>
observers == <<slips, lost>>
vars == <<electionVars, tip, block, queueVars, callVars, work, observers>>

Slots == 1 .. MaxSlots
Least(m, n) == IF m < n THEN m ELSE n
Below(m, n) == IF m < n THEN 0 ELSE m - n

Free == [at |-> "free", first |-> FALSE, from |-> 0, to |-> 0, next |-> 0,
         end |-> 0, logs |-> {}, clean |-> TRUE]
Waiting == [Free EXCEPT !.at = "wait"]
Calling(first) == [Free EXCEPT !.at = "tip", !.first = first]

Job(l, k, live, t) == [by |-> l, via |-> k, live |-> live, t |-> t, stage |-> "mark"]
Jobs == [by : Listeners, via : Slots, live : BOOLEAN, t : Transfers,
         stage : {"mark", "add", "save"}]

TypeOK ==
  /\ ElectionTypeOK
  /\ tip \in FirstBlock .. MaxBlock /\ block \in [Transfers -> 0 .. MaxBlock]
  /\ lastBlock \in 0 .. MaxBlock /\ seen \subseteq Transfers
  /\ adds \in [Transfers -> Nat]
  /\ timer \in [Listeners -> 0 .. MaxSlots] /\ conn \in [Listeners -> 0 .. MaxSlots]
  /\ \A l \in Listeners, k \in Slots :
       /\ run[l][k].at \in {"free", "wait", "tip", "anchor", "fetch", "logs",
                            "subscribe", "live", "closing"}
       /\ {run[l][k].from, run[l][k].to} \subseteq 0 .. MaxBlock
       /\ run[l][k].logs \subseteq Transfers
       /\ run[l][k].first => starting[l]
  /\ work \subseteq Jobs
  /\ {slips, lost} \subseteq SUBSET Transfers

Init ==
  /\ ElectionInit
  /\ tip = FirstBlock /\ block \in [Transfers -> 0 .. FirstBlock]
  /\ lastBlock = 0 /\ seen = {} /\ adds = [t \in Transfers |-> 0]
  /\ run = [l \in Listeners |-> [k \in Slots |-> Free]]
  /\ timer = [l \in Listeners |-> 0] /\ conn = [l \in Listeners |-> 0]
  /\ work = {} /\ slips = {} /\ lost = {}

----------------------------------------------------------------------------
\* teardownChain: the registered timer is cleared and the registered socket
\* destroyed; its close event is still to come.
Torn(l) ==
  [k \in Slots |->
     IF k = timer[l] THEN Free
     ELSE IF k = conn[l] /\ run[l][k].at = "live"
          THEN [Free EXCEPT !.at = "closing"] ELSE run[l][k]]

Registered(l, t, c) ==
  /\ timer' = [timer EXCEPT ![l] = t]
  /\ conn' = [conn EXCEPT ![l] = c]

SetCall(l, k, call) == run' = [run EXCEPT ![l][k] = call]

\* becomeActive calls startListening(chain, 0) and awaits it.
StartFirst(l) ==
  /\ \E k \in Slots : run[l][k] = Free /\ SetCall(l, k, Calling(TRUE))
  /\ UNCHANGED <<timer, conn, tip, block, queueVars, work, observers>>

\* becomeStandby tears the chain down.
StopCalls(l) ==
  /\ run' = [run EXCEPT ![l] = Torn(l)]
  /\ Registered(l, 0, 0)
  /\ UNCHANGED <<tip, block, queueVars, work, observers>>

Boot(l) ==
  \/ BootActive(l) /\ StartFirst(l)
  \/ BootStandby(l) /\ StopCalls(l)

TakeOver(l) == Probe(l) /\ StartFirst(l)

Demote(l) == RenewalRefused(l) /\ StopCalls(l)
DemoteInVain(l) == RenewalErrs(l) /\ StopCalls(l)

Forget(p) ==
  /\ run' = [l \in Listeners |-> IF l \in Of(p) THEN [k \in Slots |-> Free] ELSE run[l]]
  /\ timer' = [l \in Listeners |-> IF l \in Of(p) THEN 0 ELSE timer[l]]
  /\ conn' = [l \in Listeners |-> IF l \in Of(p) THEN 0 ELSE conn[l]]
  /\ work' = {w \in work : w.by \notin Of(p)}
  /\ lost' = lost \union {w.t : w \in {v \in work : v.by \in Of(p) /\ v.stage = "add"}}
  /\ UNCHANGED <<tip, block, queueVars, slips>>

Die(p) == Crash(p) /\ Forget(p)
Stop(p) == Shutdown(p) /\ Forget(p)

Expire ==
  /\ KeyExpires \/ KeyExpiresEarly
  /\ UNCHANGED <<tip, block, queueVars, callVars, work, observers>>

----------------------------------------------------------------------------
\* When the first call of startListening returns, becomeActive goes on.
Returned(l, k) ==
  IF run[l][k].first THEN Started(l) ELSE UNCHANGED electionVars

\* The reconnect timer fires; a standby does not start again.
TimerFires(l, k) ==
  /\ run[l][k].at = "wait"
  /\ timer' = [timer EXCEPT ![l] = 0]
  /\ SetCall(l, k, IF role[l] = "active" THEN Calling(FALSE) ELSE Free)
  /\ UNCHANGED <<holder, role, starting, renewing, conn, tip, block, queueVars, work,
                 observers>>

Closing(l) == \E k \in Slots : run[l][k].at = "closing"

\* The delay of two seconds and more, doubled at each attempt, outlasts the
\* close event of a destroyed socket.
Reconnect(l, k) == TimerFires(l, k) /\ ~Closing(l) /\ UNCHANGED faults

\* It does not: the peer leaves the close handshake unanswered.
ReconnectEarly(l, k) == TimerFires(l, k) /\ Closing(l) /\ Fault

\* getBlockNumber.
ReadTip(l, k) ==
  /\ run[l][k].at = "tip"
  /\ SetCall(l, k, [run[l][k] EXCEPT !.at = "anchor", !.to = Below(tip, 1)])
  /\ UNCHANGED <<electionVars, timer, conn, tip, block, queueVars, work, observers>>

\* It fails for the third time: the catch schedules another call if active.
ReadTipErrs(l, k) ==
  /\ run[l][k].at = "tip" /\ Fault
  /\ IF role[l] = "active"
       THEN SetCall(l, k, Waiting) /\ timer' = [timer EXCEPT ![l] = k]
       ELSE SetCall(l, k, Free) /\ UNCHANGED timer
  /\ IF run[l][k].first THEN StartRenewal(l)
                        ELSE UNCHANGED <<holder, role, starting, renewing>>
  /\ UNCHANGED <<conn, tip, block, queueVars, work, observers>>

\* loadLastBlock and where the replay begins; current = to + 1.
ReplayFrom(stored, current) ==
  IF stored > 0 THEN Below(stored, Rewind) ELSE Below(current, Lookback)

Begin(l, k, from) ==
  LET to == run[l][k].to IN
  SetCall(l, k, [run[l][k] EXCEPT !.from = from, !.next = from,
                   !.at = IF from <= to THEN "fetch" ELSE "subscribe"])

LoadLastBlock(l, k) ==
  /\ run[l][k].at = "anchor"
  /\ Begin(l, k, ReplayFrom(lastBlock, run[l][k].to + 1))
  /\ UNCHANGED <<electionVars, timer, conn, tip, block, queueVars, work, observers>>

\* A Redis error counts as no last block.
LoadLastBlockErrs(l, k) ==
  /\ run[l][k].at = "anchor" /\ Fault
  /\ Begin(l, k, ReplayFrom(0, run[l][k].to + 1))
  /\ UNCHANGED <<holder, role, starting, renewing, timer, conn, tip, block,
                 queueVars, work, observers>>

ChunkEnd(call) == Least(call.next + Chunk - 1, call.to)
After(call) == [call EXCEPT !.next = ChunkEnd(call) + 1, !.logs = {}, !.end = 0,
                  !.at = IF ChunkEnd(call) < call.to THEN "fetch" ELSE "subscribe"]

MutFetchChunk(l, k) ==  \* the first block of the chunk left out
  LET call == run[l][k] IN
  /\ call.at = "fetch"
  /\ SetCall(l, k, [call EXCEPT !.at = "logs", !.end = ChunkEnd(call),
                      !.logs = {t \in Transfers : block[t] # 0 /\
                                  block[t] \in call.next + 1 .. ChunkEnd(call)}])
  /\ UNCHANGED <<electionVars, timer, conn, tip, block, queueVars, work, observers>>

\* getLogs for one chunk.
FetchChunk(l, k) ==
  LET call == run[l][k] IN
  /\ call.at = "fetch"
  /\ SetCall(l, k, [call EXCEPT !.at = "logs", !.end = ChunkEnd(call),
                      !.logs = {t \in Transfers : block[t] # 0 /\
                                  block[t] \in call.next .. ChunkEnd(call)}])
  /\ UNCHANGED <<electionVars, timer, conn, tip, block, queueVars, work, observers>>

\* A chunk that cannot be fetched is logged and left behind.
FetchChunkErrs(l, k) ==
  /\ run[l][k].at = "fetch" /\ Fault
  /\ SetCall(l, k, [After(run[l][k]) EXCEPT !.clean = FALSE])
  /\ UNCHANGED <<holder, role, starting, renewing, timer, conn, tip, block,
                 queueVars, work, observers>>

InHand(l, k) == \E w \in work : w.by = l /\ w.via = k /\ ~w.live

\* The confirmation gate, which is given the end of the chunk.
DeepEnough(t, end) == block[t] + Required <= end

MutProcessLog(l, k, t) ==  \* marked before the gate turns it away
  LET call == run[l][k] IN
  /\ call.at = "logs" /\ ~InHand(l, k)
  /\ t \in call.logs /\ \A u \in call.logs : block[t] <= block[u]
  /\ SetCall(l, k, [call EXCEPT !.logs = @ \ {t}])
  /\ IF DeepEnough(t, call.end)
       THEN work' = work \union {Job(l, k, FALSE, t)} /\ UNCHANGED seen
       ELSE seen' = seen \union {t} /\ UNCHANGED work
  /\ UNCHANGED <<electionVars, timer, conn, tip, block, lastBlock, adds, slips, lost>>

\* The logs of a chunk are processed one after the other, oldest first.
ProcessLog(l, k, t) ==
  LET call == run[l][k] IN
  /\ call.at = "logs" /\ ~InHand(l, k)
  /\ t \in call.logs /\ \A u \in call.logs : block[t] <= block[u]
  /\ SetCall(l, k, [call EXCEPT !.logs = @ \ {t}])
  /\ work' = IF DeepEnough(t, call.end)
               THEN work \union {Job(l, k, FALSE, t)} ELSE work
  /\ UNCHANGED <<electionVars, timer, conn, tip, block, queueVars, slips, lost>>

EndChunk(l, k) ==
  /\ run[l][k].at = "logs" /\ run[l][k].logs = {} /\ ~InHand(l, k)
  /\ SetCall(l, k, After(run[l][k]))
  /\ UNCHANGED <<electionVars, timer, conn, tip, block, queueVars, work, observers>>

\* contract.on and the registration: nothing asks for the role again.
Subscribe(l, k) ==
  /\ run[l][k].at = "subscribe"
  /\ Returned(l, k)
  /\ SetCall(l, k, [Free EXCEPT !.at = "live"])
  /\ conn' = [conn EXCEPT ![l] = k]
  /\ UNCHANGED <<timer, tip, block, queueVars, work, observers>>

----------------------------------------------------------------------------
Heard(ts) == {w \in Jobs : /\ run[w.by][w.via].at = "live" /\ w.live
                            /\ w.t \in ts /\ w.stage = "mark"}

\* A block is mined; every live subscription hears of its transfers.
Mine(ts) ==
  /\ tip < MaxBlock /\ tip' = tip + 1
  /\ \A t \in ts : block[t] = 0
  /\ block' = [t \in Transfers |-> IF t \in ts THEN tip + 1 ELSE block[t]]
  /\ work' = work \union Heard(ts)
  /\ UNCHANGED <<electionVars, queueVars, callVars, observers>>

\* A close event: an active listener tears down and calls again later.
Closed(l, k) ==
  /\ IF role[l] = "active"
       THEN /\ run' = [run EXCEPT ![l] = [Torn(l) EXCEPT ![k] = Waiting]]
            /\ Registered(l, k, 0)
       ELSE SetCall(l, k, Free) /\ UNCHANGED <<timer, conn>>
  /\ UNCHANGED <<tip, block, queueVars, work, observers>>

\* The close event of a socket that was destroyed arrives.
LateClose(l, k) ==
  /\ run[l][k].at = "closing" /\ Closed(l, k)
  /\ UNCHANGED electionVars

SocketCloses(l, k) ==
  /\ run[l][k].at = "live" /\ Fault /\ Closed(l, k)
  /\ UNCHANGED <<holder, role, starting, renewing>>

\* An error event comes before the close event and is handled like it.
SocketErrs(l, k) ==
  /\ run[l][k].at = "live" /\ Fault
  /\ LET dead == [Free EXCEPT !.at = "closing"] IN
     IF role[l] = "active"
       THEN \E j \in Slots :
              /\ Torn(l)[j] = Free
              /\ run' = [run EXCEPT ![l] = [Torn(l) EXCEPT ![k] = dead, ![j] = Waiting]]
              /\ Registered(l, j, 0)
       ELSE SetCall(l, k, dead) /\ UNCHANGED <<timer, conn>>
  /\ UNCHANGED <<holder, role, starting, renewing, tip, block, queueVars, work, observers>>

----------------------------------------------------------------------------
Proceeds(w, stage) == work' = (work \ {w}) \union {[w EXCEPT !.stage = stage]}
Ends(w) == work' = work \ {w}
Around == <<tip, block, callVars>>

MutMark(w) ==  \* SET without NX
  /\ w.stage = "mark"
  /\ Proceeds(w, "add") /\ seen' = seen \union {w.t}
  /\ UNCHANGED <<electionVars, Around, lastBlock, adds, observers>>

\* checkAndMarkSeen: SET NX.
Mark(w) ==
  /\ w.stage = "mark"
  /\ IF w.t \in seen THEN Ends(w) /\ UNCHANGED seen
                     ELSE Proceeds(w, "add") /\ seen' = seen \union {w.t}
  /\ UNCHANGED <<electionVars, Around, lastBlock, adds, observers>>

\* On a Redis error the transfer counts as new; the mark may have been set.
MarkErrs(w) ==
  /\ w.stage = "mark" /\ Fault
  /\ Proceeds(w, "add")
  /\ seen' \in {seen, seen \union {w.t}} /\ slips' = slips \union {w.t}
  /\ UNCHANGED <<holder, role, starting, renewing, Around, lastBlock, adds, lost>>

Add(w) ==
  /\ w.stage = "add"
  /\ Proceeds(w, "save") /\ adds' = [adds EXCEPT ![w.t] = @ + 1]
  /\ UNCHANGED <<electionVars, Around, lastBlock, seen, observers>>

MutAddErrs(w) ==  \* the anchor is saved after the catch
  /\ w.stage = "add" /\ Fault
  /\ Proceeds(w, "save")
  /\ lost' = lost \union {w.t}
  /\ UNCHANGED <<holder, role, starting, renewing, Around, queueVars, slips>>

\* eventsQueue.add throws, before or after Redis did it: it is only logged.
AddErrs(w) ==
  /\ w.stage = "add" /\ Fault
  /\ Ends(w)
  /\ \/ adds' = [adds EXCEPT ![w.t] = @ + 1] /\ UNCHANGED lost
     \/ lost' = lost \union {w.t} /\ UNCHANGED adds
  /\ UNCHANGED <<holder, role, starting, renewing, Around, lastBlock, seen, slips>>

\* saveLastBlock: whatever was there is overwritten.
Save(w) ==
  /\ w.stage = "save"
  /\ Ends(w) /\ lastBlock' = block[w.t]
  /\ UNCHANGED <<electionVars, Around, seen, adds, observers>>

SaveErrs(w) ==
  /\ w.stage = "save" /\ Fault
  /\ Ends(w)
  /\ UNCHANGED <<holder, role, starting, renewing, Around, queueVars, observers>>

\* A seen key lives for two days, the last block for seven.
SeenExpires(t) ==
  /\ t \in seen /\ Fault
  /\ seen' = seen \ {t} /\ slips' = slips \union {t}
  /\ UNCHANGED <<holder, role, starting, renewing, Around, lastBlock, adds, work, lost>>

LastBlockExpires ==
  /\ lastBlock # 0 /\ Fault
  /\ lastBlock' = 0
  /\ UNCHANGED <<holder, role, starting, renewing, Around, seen, adds, work, observers>>

----------------------------------------------------------------------------
CallStep(l, k) ==
  \/ Reconnect(l, k) \/ ReadTip(l, k) \/ LoadLastBlock(l, k) \/ FetchChunk(l, k)
  \/ \E t \in Transfers : ProcessLog(l, k, t)
  \/ EndChunk(l, k) \/ Subscribe(l, k) \/ LateClose(l, k)

CallFails(l, k) ==
  \/ ReconnectEarly(l, k) \/ ReadTipErrs(l, k) \/ LoadLastBlockErrs(l, k) \/ FetchChunkErrs(l, k)
  \/ SocketCloses(l, k) \/ SocketErrs(l, k)

RoleStep(l) == Boot(l) \/ TakeOver(l) \/ Demote(l)
WorkStep(l) == \E w \in work : w.by = l /\ (Mark(w) \/ Add(w) \/ Save(w))
WorkFails == \E w \in work : MarkErrs(w) \/ AddErrs(w) \/ SaveErrs(w)

Next ==
  \/ \E ts \in SUBSET Transfers : Mine(ts)
  \/ \E l \in Listeners : RoleStep(l) \/ DemoteInVain(l) \/ WorkStep(l)
  \/ \E l \in Listeners, k \in Slots : CallStep(l, k) \/ CallFails(l, k)
  \/ \E p \in Processes : Die(p) \/ Stop(p)
  \/ Expire \/ WorkFails \/ LastBlockExpires
  \/ \E t \in Transfers : SeenExpires(t)

Spec == Init /\ [][Next]_vars

\* Timers and continuations run, events are delivered, a key that nobody
\* extends expires; nothing obliges the chain to go on or a fault to occur.
FairSpec ==
  /\ Spec
  /\ \A l \in Listeners : WF_vars(RoleStep(l)) /\ WF_vars(WorkStep(l))
  /\ \A l \in Listeners, k \in Slots : WF_vars(CallStep(l, k))
  /\ WF_vars(Expire /\ KeyExpires)

----------------------------------------------------------------------------
\* A transfer is added to the queue at most once, whichever of live events,
\* overlapping replays and rival leaders find it, unless Redis failed to set
\* its mark or dropped it.
AddedOnce == \A t \in Transfers \ slips : adds[t] <= 1

\* A mark is set for a transfer that goes on to the queue: it is there or on
\* its way, or was lost on the way to a crash or a refused add.
SeenIsQueued ==
  \A t \in seen \ lost :
    adds[t] > 0 \/ \E w \in work : w.t = t /\ w.stage = "add"

\* The replay leaves nothing out below the gate: when a call that fetched all
\* its chunks is about to subscribe, every transfer of its range that lies deep
\* enough in its chunk has been marked.
EndOf(call, b) == Least(call.to, call.from + Chunk * ((b - call.from) \div Chunk) + Chunk - 1)
ReplayIsThorough ==
  \A l \in Listeners, k \in Slots :
    LET call == run[l][k] IN
    call.at = "subscribe" /\ call.clean =>
      \A t \in Transfers :
        block[t] # 0 /\ block[t] \in call.from .. call.to
          /\ DeepEnough(t, EndOf(call, block[t])) => t \in seen \union slips

\* The next replay starts from a block one of whose transfers was queued, so
\* that what it rewinds over is what the queue may not have.
AnchorIsQueued ==
  lastBlock # 0 => \E t \in Transfers : block[t] = lastBlock /\ adds[t] > 0

\* When the faults end, one listener holds the key, is active and subscribed,
\* and every other one stands by.
IngestionSettles ==
  <>[](\E l \in Listeners :
         /\ holder = ProcessOf[l] /\ renewing[l]
         /\ \E k \in Slots : run[l][k].at = "live"
         /\ \A m \in Listeners : role[m] = "active" <=> m = l)
=============================================================================
