------------------------------- MODULE Notary -------------------------------
(***************************************************************************)
(* Notarisation of a won deal: the register job of the blockchain queue,   *)
(* BlockchainWorker (concurrency 1), the blockchain_records row and the    *)
(* DealHashRegistry contract.  One deal; its hash stands for the win it    *)
(* was computed at, because wonAt is part of what is hashed.               *)
(*                                                                         *)
(* The backend wallet numbers its transactions, so they are mined in the   *)
(* order they were sent in; one the node forgets takes its successors      *)
(* along, and is modelled by dropping the last.                            *)
(***************************************************************************)
EXTENDS Naturals, Sequences

CONSTANTS
  Hashes,    \* what computeDealHash may return
  NoHash,
  Attempts,  \* QUEUE_JOB_OPTIONS.blockchain.attempts
  MaxStalls, \* BullMQ maxStalledCount
  MaxFaults  \* bound: failures of Redis, the database, the chain and processes

ASSUME HashAssumption == NoHash \notin Hashes
ASSUME NotaryBounds ==
  Attempts \in Nat \ {0} /\ MaxStalls \in Nat /\ MaxFaults \in Nat

VARIABLES
  configured, \* the contract's address and key are in the environment
  job,        \* [state, hash, tries, stalls]: job blockchain-deal-<id>
  record,     \* [status, hash]: the row of blockchain_records
  worker,     \* where BlockchainWorker.process is
  mempool,    \* hashes sent to the contract and not yet mined
  sent,       \* what became of the last transaction
  chain,      \* hash the contract holds for the deal
  fate,       \* [Hashes -> observation: what kept a hash from the row]
  faults

notaryVars == <<configured, job, record, worker, mempool, sent, chain, fate, faults>>

NoJob == [state |-> "none", hash |-> NoHash, tries |-> 0, stalls |-> 0]

JobRows == [state : {"none", "waiting", "active", "done", "failed"},
            hash : Hashes \union {NoHash},
            tries : 0 .. Attempts, stalls : 0 .. MaxStalls]

NotaryTypeOK ==
  /\ configured \in BOOLEAN
  /\ job \in JobRows
  /\ record \in [status : {"none", "PENDING", "CONFIRMED", "FAILED"},
                 hash : Hashes \union {NoHash}]
  /\ worker \in {"idle", "upsert", "submit", "wait", "fail"}
  /\ mempool \in Seq(Hashes)
  /\ sent \in {"none", "pending", "mined", "reverted", "dropped"}
  /\ chain \in Hashes \union {NoHash}
  /\ fate \in [Hashes -> {"none", "unqueued", "dropped", "abandoned", "replaced"}]
  /\ faults \in 0 .. MaxFaults

NotaryInit ==
  /\ configured \in BOOLEAN
  /\ job = NoJob
  /\ record = [status |-> "none", hash |-> NoHash]
  /\ worker = "idle"
  /\ mempool = <<>> /\ sent = "none" /\ chain = NoHash
  /\ fate = [h \in Hashes |-> "none"]
  /\ faults = 0

Fault == faults < MaxFaults /\ faults' = faults + 1

\* queue.add under a fixed id: BullMQ drops it while a job with that id is
\* still stored, waiting or finished.
AddJob(h) ==
  IF job.state = "none"
    THEN job' = [NoJob EXCEPT !.state = "waiting", !.hash = h] /\ UNCHANGED fate
    ELSE fate' = [fate EXCEPT ![h] = "dropped"] /\ UNCHANGED job

Take ==
  /\ job.state = "waiting" /\ worker = "idle"
  /\ job' = [job EXCEPT !.state = "active"]
  /\ worker' = "upsert"
  /\ UNCHANGED <<configured, record, mempool, sent, chain, fate, faults>>

\* The row is created, or takes the new hash and is PENDING again.
Replaces == record.hash \notin {NoHash, job.hash}
MutUpsert ==
  /\ worker = "upsert"
  /\ record' = [status |-> IF record.status = "none" THEN "PENDING" ELSE record.status,
                hash |-> job.hash]
  /\ worker' = "submit"
  /\ fate' = IF Replaces THEN [fate EXCEPT ![record.hash] = "replaced"] ELSE fate
  /\ UNCHANGED <<configured, job, mempool, sent, chain, faults>>
Upsert ==
  /\ worker = "upsert"
  /\ record' = [status |-> "PENDING", hash |-> job.hash]
  /\ worker' = "submit"
  /\ fate' = IF Replaces THEN [fate EXCEPT ![record.hash] = "replaced"] ELSE fate
  /\ UNCHANGED <<configured, job, mempool, sent, chain, faults>>

\* An attempt that throws: BullMQ queues the job again until it is out of
\* attempts.
MutThrown == job' = [job EXCEPT !.tries = @ + 1]
Thrown ==
  job' = [job EXCEPT !.tries = @ + 1,
                     !.state = IF job.tries + 1 < Attempts THEN "waiting" ELSE "failed"]

\* The upsert is outside the worker's try: nothing is written.
UpsertErrs ==
  /\ worker = "upsert" /\ Fault /\ Thrown
  /\ worker' = "idle"
  /\ UNCHANGED <<configured, record, mempool, sent, chain, fate>>

\* Without a contract the row is FAILED and the job completes.
Skip ==
  /\ worker = "submit" /\ ~configured
  /\ record' = [record EXCEPT !.status = "FAILED"]
  /\ job' = [job EXCEPT !.state = "done"]
  /\ worker' = "idle"
  /\ UNCHANGED <<configured, mempool, sent, chain, fate, faults>>

Submit ==
  /\ worker = "submit" /\ configured
  /\ mempool' = Append(mempool, job.hash)
  /\ sent' = "pending"
  /\ worker' = "wait"
  /\ UNCHANGED <<configured, job, record, chain, fate, faults>>

SubmitErrs ==
  /\ worker = "submit" /\ Fault
  /\ worker' = "fail"
  /\ UNCHANGED <<configured, job, record, mempool, sent, chain, fate>>

LastInLine == Len(mempool) = 1 /\ sent = "pending"

\* registerDeal: a later registration overwrites an earlier one.
Mine ==
  /\ mempool # <<>>
  /\ chain' = Head(mempool)
  /\ mempool' = Tail(mempool)
  /\ sent' = IF LastInLine THEN "mined" ELSE sent
  /\ UNCHANGED <<configured, job, record, worker, fate, faults>>

Revert ==
  /\ mempool # <<>> /\ Fault
  /\ mempool' = Tail(mempool)
  /\ sent' = IF LastInLine THEN "reverted" ELSE sent
  /\ UNCHANGED <<configured, job, record, worker, chain, fate>>

Drop ==
  /\ mempool # <<>> /\ Fault
  /\ mempool' = SubSeq(mempool, 1, Len(mempool) - 1)
  /\ sent' = "dropped"
  /\ UNCHANGED <<configured, job, record, worker, chain, fate>>

\* The receipt is there with status 1.
Confirmed == worker = "wait" /\ sent = "mined"

Confirm ==
  /\ Confirmed
  /\ record' = [record EXCEPT !.status = "CONFIRMED"]
  /\ job' = [job EXCEPT !.state = "done"]
  /\ worker' = "idle"
  /\ UNCHANGED <<configured, mempool, sent, chain, fate, faults>>

ConfirmErrs ==
  /\ Confirmed /\ Fault
  /\ worker' = "fail"
  /\ UNCHANGED <<configured, job, record, mempool, sent, chain, fate>>

\* The two minutes of the race are over, or the receipt says reverted.  A
\* transaction that timed out may still be mined.
GiveUp ==
  /\ worker = "wait"
  /\ worker' = "fail"
  /\ UNCHANGED <<configured, job, record, mempool, sent, chain, fate, faults>>

Fail ==
  /\ worker = "fail" /\ Thrown
  /\ record' = [record EXCEPT !.status = "FAILED"]
  /\ worker' = "idle"
  /\ UNCHANGED <<configured, mempool, sent, chain, fate, faults>>

FailErrs ==
  /\ worker = "fail" /\ Fault /\ Thrown
  /\ worker' = "idle"
  /\ UNCHANGED <<configured, record, mempool, sent, chain, fate>>

\* The worker's process dies.  BullMQ finds the job stalled and queues it
\* again, unless it has stalled too often.
WorkerDies ==
  /\ worker # "idle" /\ Fault
  /\ worker' = "idle"
  /\ job' = IF job.stalls < MaxStalls
              THEN [job EXCEPT !.state = "waiting", !.stalls = @ + 1]
              ELSE [job EXCEPT !.state = "failed"]
  /\ UNCHANGED <<configured, record, mempool, sent, chain, fate>>

\* removeOnComplete and removeOnFail: jobs of other deals push it out.  A job
\* that ended before its upsert takes its hash along.
Forget ==
  /\ job.state \in {"done", "failed"}
  /\ job' = NoJob
  /\ fate' = IF job.hash # record.hash THEN [fate EXCEPT ![job.hash] = "abandoned"] ELSE fate
  /\ UNCHANGED <<configured, record, worker, mempool, sent, chain, faults>>

Work ==
  \/ Take \/ Upsert \/ UpsertErrs \/ Skip \/ Submit \/ SubmitErrs
  \/ Confirm \/ ConfirmErrs \/ GiveUp \/ Fail \/ FailErrs

NotaryNext == Work \/ Mine \/ Revert \/ Drop \/ WorkerDies \/ Forget

-----------------------------------------------------------------------------
\* A row that says CONFIRMED says what the contract holds, whatever timed
\* out, was mined late, reverted or was sent twice in between.
ConfirmedIsOnChain == record.status = "CONFIRMED" => chain = record.hash
=============================================================================
