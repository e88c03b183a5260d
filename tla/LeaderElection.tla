--------------------------- MODULE LeaderElection ---------------------------
(***************************************************************************)
(* LeaderElectionService and what both chain listeners do with it: race    *)
(* for one Redis key with a time to live, become active or standby, renew  *)
(* the key while active, probe for its absence while standby.              *)
(*                                                                         *)
(* Time is abstract: a key that is renewed every 10 s outlives its 30 s,   *)
(* any other may expire.  A leader that stalls for longer is one of the    *)
(* at most MaxFaults faults, and so is Redis refusing a renewal, a crash   *)
(* and a shutdown.  The key names the process (instanceId is drawn once    *)
(* per process), so that two listeners of a process have one identity.     *)
(***************************************************************************)
EXTENDS Naturals

CONSTANTS
  Listeners,  \* the listener services, of all processes, of one chain
  ProcessOf,  \* [Listeners -> processes]: whose instanceId it uses
  NoProcess,  \* value of the absent key
  MaxFaults   \* bound: faults of all kinds

ASSUME ElectionAssumption == /\ \A l \in Listeners : ProcessOf[l] # NoProcess
                             /\ MaxFaults \in Nat

VARIABLES
  holder,    \* value of listener_leader:{chain}
  role,      \* [Listeners -> "down", "active" or "standby"]: leaderStates
  starting,  \* [Listeners -> BOOLEAN]: becomeActive awaits startListening
  renewing,  \* [Listeners -> BOOLEAN]: the renewal timer is set
  faults     \* faults so far

electionVars == <<holder, role, starting, renewing, faults>>

Processes == {ProcessOf[l] : l \in Listeners}
Of(p) == {l \in Listeners : ProcessOf[l] = p}

ElectionTypeOK ==
  /\ holder \in Processes \union {NoProcess}
  /\ role \in [Listeners -> {"down", "active", "standby"}]
  /\ starting \in [Listeners -> BOOLEAN] /\ renewing \in [Listeners -> BOOLEAN]
  /\ faults \in 0 .. MaxFaults

ElectionInit ==
  /\ holder = NoProcess
  /\ role = [l \in Listeners |-> "down"]
  /\ starting = [l \in Listeners |-> FALSE]
  /\ renewing = [l \in Listeners |-> FALSE]
  /\ faults = 0

Fault == faults < MaxFaults /\ faults' = faults + 1

\* SET NX: taken only when absent, even by the process that holds it already.
Taken(l) == holder = NoProcess /\ holder' = ProcessOf[l]

BecomeActive(l) ==
  /\ role' = [role EXCEPT ![l] = "active"]
  /\ starting' = [starting EXCEPT ![l] = TRUE]
  /\ UNCHANGED renewing

BecomeStandby(l) ==
  /\ role' = [role EXCEPT ![l] = "standby"]
  /\ renewing' = [renewing EXCEPT ![l] = FALSE]
  /\ UNCHANGED starting

\* Nest awaits the bootstrap hook of one module before it runs the next one's.
MayBoot(l) == role[l] = "down" /\ \A k \in Of(ProcessOf[l]) : ~starting[k]

BootActive(l) == MayBoot(l) /\ Taken(l) /\ BecomeActive(l) /\ UNCHANGED faults

BootStandby(l) ==
  /\ MayBoot(l) /\ holder # NoProcess
  /\ BecomeStandby(l)
  /\ UNCHANGED <<holder, faults>>

\* The standby probe: TTL -2 means absent, then tryAcquire.
Probe(l) ==
  /\ role[l] = "standby"
  /\ Taken(l) /\ BecomeActive(l)
  /\ UNCHANGED faults

MutStartRenewal(l) ==  \* a call that returns and sets no renewal timer
  /\ starting' = [starting EXCEPT ![l] = FALSE]
  /\ UNCHANGED <<renewing, holder, role>>

\* becomeActive after its await.
StartRenewal(l) ==
  /\ starting' = [starting EXCEPT ![l] = FALSE]
  /\ renewing' = [renewing EXCEPT ![l] = TRUE]
  /\ UNCHANGED <<holder, role>>

Started(l) == starting[l] /\ StartRenewal(l) /\ UNCHANGED faults

\* The Lua script extends the key only if it holds our instanceId.
RenewalRefused(l) ==
  /\ renewing[l] /\ role[l] = "active" /\ holder # ProcessOf[l]
  /\ BecomeStandby(l)
  /\ UNCHANGED <<holder, faults>>

\* Redis does not answer: renew(...).catch(() => false), the key still ours.
RenewalErrs(l) ==
  /\ renewing[l] /\ role[l] = "active"
  /\ Fault /\ BecomeStandby(l)
  /\ UNCHANGED holder

\* Somebody extends the key, or is about to start doing so.
Kept == \E l \in Of(holder) : role[l] = "active" /\ (renewing[l] \/ starting[l])

KeyExpires ==
  /\ holder # NoProcess /\ ~Kept
  /\ holder' = NoProcess
  /\ UNCHANGED <<role, starting, renewing, faults>>

\* The holder stalls, or its replay takes longer than the time to live.
KeyExpiresEarly ==
  /\ Kept /\ Fault
  /\ holder' = NoProcess
  /\ UNCHANGED <<role, starting, renewing>>

AllDown(p) ==
  /\ \E l \in Of(p) : role[l] # "down"
  /\ role' = [l \in Listeners |-> IF l \in Of(p) THEN "down" ELSE role[l]]
  /\ starting' = [l \in Listeners |-> l \notin Of(p) /\ starting[l]]
  /\ renewing' = [l \in Listeners |-> l \notin Of(p) /\ renewing[l]]

Crash(p) == Fault /\ AllDown(p) /\ UNCHANGED holder

\* onApplicationShutdown: an active listener deletes the key if it is ours.
Shutdown(p) ==
  /\ Fault /\ AllDown(p)
  /\ holder' = IF holder = p /\ \E l \in Of(p) : role[l] = "active"
               THEN NoProcess ELSE holder

ElectionStep(l) ==
  BootActive(l) \/ BootStandby(l) \/ Probe(l) \/ Started(l) \/ RenewalRefused(l)

ElectionNext ==
  \/ \E l \in Listeners : ElectionStep(l) \/ RenewalErrs(l)
  \/ KeyExpires \/ KeyExpiresEarly
  \/ \E p \in Processes : Crash(p) \/ Shutdown(p)

\* A crashed container is restarted, timers fire, a key expires, and starting
\* to listen ends, in success or failure.
ElectionFairSpec ==
  /\ ElectionInit /\ [][ElectionNext]_electionVars
  /\ \A l \in Listeners : WF_electionVars(ElectionStep(l))
  /\ WF_electionVars(KeyExpires)

----------------------------------------------------------------------------
\* In the end exactly one listener of the chain ingests its transfers: the
\* deduplication of listeners that the service promises.
OneLeaderInTheEnd ==
  <>[](\E l \in Listeners : \A k \in Listeners : role[k] = "active" <=> k = l)
=============================================================================
