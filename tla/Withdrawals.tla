---------------------------- MODULE Withdrawals ----------------------------
(***************************************************************************)
(* Outbound USDC transfers: WithdrawalWorker on the withdrawals queue, the *)
(* HTTP call that withdraws directly, the two custody providers, the       *)
(* balance cache they are checked against, and what becomes of a job that  *)
(* keeps failing (DLQ, admin retry).                                       *)
(*                                                                         *)
(* An actor is a job of the queue or an HTTP call; it pays out under an    *)
(* idempotency key, and several actors may carry the same key.  An action  *)
(* is what happens between two awaits.                                     *)
(***************************************************************************)
EXTENDS Naturals, FiniteSets

CONSTANTS
  Keys,         \* idempotency keys
  Amount,       \* [Keys -> Nat], amountUsdc of the request that carries the key
  Jobs,         \* jobs that may be added, each under an id of its own
  Calls,        \* HTTP calls of POST /wallets/:id/withdraw
  Syncs,        \* calls of syncBalance
  Providers,    \* deployments to consider: "fireblocks", "local"
  NoKey,
  MaxAttempts,  \* FINANCIAL_JOB_DEFAULTS.attempts
  MaxStalls,    \* BullMQ maxStalledCount, which the worker leaves at its default
  Concurrency,  \* jobs one worker runs at once
  Funds,        \* USDC in the wallet at first
  MaxFunds,     \* bound: what deposits may raise it to
  MaxFaults     \* bound: failures of Redis, the provider and processes

ASSUME ProviderAssumption == Providers \subseteq {"fireblocks", "local"}
ASSUME AmountAssumption == Amount \in [Keys -> Nat]
ASSUME ActorAssumption == Jobs \cap Calls = {} /\ NoKey \notin Keys
ASSUME BoundAssumption ==
  /\ MaxAttempts \in Nat \ {0} /\ MaxStalls \in Nat /\ Concurrency \in Nat \ {0}
  /\ Funds \in Nat /\ MaxFunds \in Nat /\ MaxFaults \in Nat

VARIABLES
  provider,  \* CUSTODY_PROVIDER of the deployment
  known,     \* LocalCustodyAdapter.walletIndex still holds the custody id
  job,       \* [Jobs -> [state, tries, stalls]]: the withdrawals queue
  at,        \* [actors -> where the handler is]
  keyOf,     \* [actors -> the key of the request, NoKey before it exists]
  marks,     \* keys with withdrawal:processed:<key> in Redis
  funds,     \* USDC the provider holds for the wallet
  cached,    \* balanceUsdc of the wallet row
  sync,      \* [Syncs -> the balance that is read and not yet written, in a set]
  paid,      \* [Keys -> Nat]: transfers the provider executed for the key
  dlq,       \* jobs with an entry in the dlq queue
  alerted,   \* jobs whose entry DlqWorker has logged
  faults,
  answered,  \* observation: keys the provider has answered for
  unguarded, \* observation: keys whose mark no longer protects them
  unreported \* observation: exhausted jobs whose report was lost

queueVars == <<job, dlq, alerted, unreported>>
handlerVars == <<at, keyOf>>
moneyVars == <<funds, paid, answered>>
balanceVars == <<cached, sync>>
custodyVars == <<provider, known>>
vars == <<queueVars, handlerVars, moneyVars, balanceVars, custodyVars, marks,
          unguarded, faults>>

Actors == Jobs \union Calls
Inside == {"check", "transfer", "mark"}
Busy == {"guard"} \union Inside

TypeOK ==
  /\ provider \in Providers /\ known \in BOOLEAN
  /\ job \in [Jobs -> [state : {"none", "waiting", "active", "done", "failed"},
                       tries : 0 .. MaxAttempts, stalls : 0 .. MaxStalls + 1]]
  /\ at \in [Actors -> {"idle", "report"} \union Busy]
  /\ keyOf \in [Actors -> Keys \union {NoKey}]
  /\ marks \subseteq Keys
  /\ funds \in Nat /\ cached \in Nat
  /\ sync \in [Syncs -> SUBSET Nat]
  /\ paid \in [Keys -> Nat]
  /\ dlq \subseteq Jobs /\ alerted \subseteq Jobs /\ unreported \subseteq Jobs
  /\ faults \in 0 .. MaxFaults
  /\ answered \subseteq Keys /\ unguarded \subseteq Keys
  /\ \A a \in Actors : at[a] \in Busy => keyOf[a] \in Keys

Init ==
  /\ provider \in Providers
  /\ known = TRUE
  /\ job = [j \in Jobs |-> [state |-> "none", tries |-> 0, stalls |-> 0]]
  /\ at = [a \in Actors |-> "idle"]
  /\ keyOf = [a \in Actors |-> NoKey]
  /\ marks = {}
  /\ funds = Funds
  /\ cached \in {0, Funds}
  /\ sync = [s \in Syncs |-> {}]
  /\ paid = [k \in Keys |-> 0]
  /\ dlq = {} /\ alerted = {} /\ unreported = {}
  /\ faults = 0
  /\ answered = {} /\ unguarded = {}

-----------------------------------------------------------------------------
Goto(a, to) == at' = [at EXCEPT ![a] = to]
Fault == faults < MaxFaults /\ faults' = faults + 1

\* The key of an actor that pays out, or none.
Paying(k) == {a \in Actors : at[a] \in Inside /\ keyOf[a] = k}

(* The queue.                                                              *)

\* AdminRetryController.retryJob: the payload of the caller under a new job id,
\* so nothing stands in the way of a second job with the same key.
AdminRetry(j, k) ==
  /\ job[j].state = "none"
  /\ job' = [job EXCEPT ![j].state = "waiting"]
  /\ keyOf' = [keyOf EXCEPT ![j] = k]
  /\ UNCHANGED <<dlq, alerted, unreported, at, moneyVars, balanceVars,
                 custodyVars, marks, unguarded, faults>>

Start(j) ==
  /\ job[j].state = "waiting" /\ at[j] = "idle"
  /\ Cardinality({i \in Jobs : job[i].state = "active"}) < Concurrency
  /\ job' = [job EXCEPT ![j].state = "active"]
  /\ Goto(j, "guard")
  /\ UNCHANGED <<dlq, alerted, unreported, keyOf, moneyVars, balanceVars,
                 custodyVars, marks, unguarded, faults>>

\* The handler returned: removeOnComplete.
Complete(j) ==
  /\ job' = [job EXCEPT ![j].state = "done"]
  /\ Goto(j, "idle")
  /\ UNCHANGED <<dlq, alerted, unreported, keyOf>>

\* publishIfExhausted only reports a job without retries.
MutExhausted(tries) == tries + 1 >= MaxAttempts
Exhausted(tries) == tries >= MaxAttempts

\* A failed run that is not counted.
MutAttempt(j) ==
  /\ job' = [job EXCEPT ![j].state = "waiting"]
  /\ Goto(j, "idle")
  /\ UNCHANGED <<dlq, alerted, unreported, keyOf>>
\* The handler threw: counted, retried or kept as failed and then reported.
Attempt(j) ==
  LET tries == job[j].tries + 1
  IN /\ job' = [job EXCEPT
          ![j].state = IF tries < MaxAttempts THEN "waiting" ELSE "failed",
          ![j].tries = tries]
     /\ Goto(j, IF Exhausted(tries) THEN "report" ELSE "idle")
     /\ UNCHANGED <<dlq, alerted, unreported, keyOf>>

\* DlqPublisherService: one entry per job; if the add fails it is only logged.
Report(j) ==
  /\ at[j] = "report"
  /\ dlq' = dlq \union {j}
  /\ Goto(j, "idle")
  /\ UNCHANGED <<job, alerted, unreported, keyOf, moneyVars, balanceVars,
                 custodyVars, marks, unguarded, faults>>
ReportErrs(j) ==
  /\ at[j] = "report" /\ Fault
  /\ unreported' = unreported \union {j}
  /\ Goto(j, "idle")
  /\ UNCHANGED <<job, dlq, alerted, keyOf, moneyVars, balanceVars, custodyVars,
                 marks, unguarded>>

\* DlqWorker logs the entry and does nothing else.
Alert(j) ==
  /\ j \in dlq
  /\ dlq' = dlq \ {j} /\ alerted' = alerted \union {j}
  /\ UNCHANGED <<job, unreported, handlerVars, moneyVars, balanceVars,
                 custodyVars, marks, unguarded, faults>>

-----------------------------------------------------------------------------
(* WithdrawalWorker.process and WalletsService.withdraw.                   *)

\* Nobody looks for the mark.
MutGuard(j) ==
  /\ at[j] = "guard"
  /\ Goto(j, "check")
  /\ unguarded' = IF Paying(keyOf[j]) = {} THEN unguarded
                  ELSE unguarded \union {keyOf[j]}
  /\ UNCHANGED <<queueVars, keyOf, moneyVars, balanceVars, custodyVars, marks, faults>>
\* The idempotency check.  Another actor may be between its own and its mark.
Guard(j) ==
  /\ at[j] = "guard"
  /\ IF keyOf[j] \in marks
       THEN Complete(j) /\ UNCHANGED unguarded
       ELSE /\ Goto(j, "check")
            /\ unguarded' = IF Paying(keyOf[j]) = {} THEN unguarded
                            ELSE unguarded \union {keyOf[j]}
            /\ UNCHANGED <<queueVars, keyOf>>
  /\ UNCHANGED <<moneyVars, balanceVars, custodyVars, marks, faults>>
GuardErrs(j) ==
  /\ at[j] = "guard" /\ Fault
  /\ Attempt(j)
  /\ UNCHANGED <<moneyVars, balanceVars, custodyVars, marks, unguarded>>

\* An HTTP call: no check of the mark, and none written.
Call(c, k) ==
  /\ keyOf[c] = NoKey
  /\ keyOf' = [keyOf EXCEPT ![c] = k]
  /\ Goto(c, "check")
  /\ unguarded' = unguarded \union {k}
  /\ UNCHANGED <<queueVars, moneyVars, balanceVars, custodyVars, marks, faults>>

\* The handler throws: a job is retried, a caller gets an error.
Throw(a) ==
  IF a \in Jobs THEN Attempt(a) ELSE Goto(a, "idle") /\ UNCHANGED <<queueVars, keyOf>>

Affordable(k) == Amount[k] > 0 /\ Amount[k] <= cached
\* The mark is set before the provider is asked.
MutCheck(a) ==
  /\ at[a] = "check"
  /\ marks' = marks \union {keyOf[a]}
  /\ Goto(a, "transfer") /\ UNCHANGED <<queueVars, keyOf>>
  /\ UNCHANGED <<moneyVars, balanceVars, custodyVars, unguarded, faults>>
\* The wallet row is read and the amount compared with the cached balance;
\* nothing is reserved.
Check(a) ==
  /\ at[a] = "check"
  /\ IF Affordable(keyOf[a])
       THEN Goto(a, "transfer") /\ UNCHANGED <<queueVars, keyOf>>
       ELSE Throw(a)
  /\ UNCHANGED <<moneyVars, balanceVars, custodyVars, marks, unguarded, faults>>

\* The provider knows the key: Fireblocks deduplicates on externalTxId, the
\* local adapter sends whatever it is asked to.
Duplicate(k) == provider = "fireblocks" /\ paid[k] > 0

Pay(k) ==
  /\ funds >= Amount[k] /\ ~Duplicate(k)
  /\ paid' = [paid EXCEPT ![k] = @ + 1] /\ funds' = funds - Amount[k]

\* The answer reaches the caller, whatever its status: SUBMITTED, or FAILED
\* when the funds do not cover the amount.  A caller does not look at it.
Answered(a) ==
  /\ answered' = answered \union {keyOf[a]}
  /\ Goto(a, IF a \in Jobs THEN "mark" ELSE "idle")
  /\ UNCHANGED <<queueVars, keyOf, unguarded>>

Transfer(a) ==
  /\ at[a] = "transfer" /\ known
  /\ \/ Pay(keyOf[a])
     \/ /\ Duplicate(keyOf[a]) \/ funds < Amount[keyOf[a]]
        /\ UNCHANGED <<paid, funds>>
  /\ Answered(a)
  /\ UNCHANGED <<balanceVars, custodyVars, marks, faults>>

\* The request or its answer is lost.  The local adapter catches the error and
\* answers FAILED, through Fireblocks it is thrown.
TransferErrs(a) ==
  /\ at[a] = "transfer" /\ known /\ Fault
  /\ Pay(keyOf[a]) \/ UNCHANGED <<paid, funds>>
  /\ IF provider = "local" THEN Answered(a)
     ELSE /\ Throw(a) /\ UNCHANGED answered
          /\ unguarded' = unguarded \union {keyOf[a]}
  /\ UNCHANGED <<balanceVars, custodyVars, marks>>

\* getDerivedWallet after a restart: the custody id is not in memory any more.
TransferUnknown(a) ==
  /\ at[a] = "transfer" /\ ~known
  /\ Throw(a)
  /\ UNCHANGED <<moneyVars, balanceVars, custodyVars, marks, unguarded, faults>>

\* The mark is set after the answer, whatever the answer was.
Mark(j) ==
  /\ at[j] = "mark"
  /\ marks' = marks \union {keyOf[j]}
  /\ Complete(j)
  /\ UNCHANGED <<moneyVars, balanceVars, custodyVars, unguarded, faults>>
MarkErrs(j) ==
  /\ at[j] = "mark" /\ Fault
  /\ Attempt(j)
  /\ unguarded' = unguarded \union {keyOf[j]}
  /\ UNCHANGED <<moneyVars, balanceVars, custodyVars, marks>>

\* Twenty-four hours after it was set.
MarkExpires(k) ==
  /\ k \in marks /\ Fault
  /\ marks' = marks \ {k} /\ unguarded' = unguarded \union {k}
  /\ UNCHANGED <<queueVars, handlerVars, moneyVars, balanceVars, custodyVars>>

\* BullMQ finds the job stalled: it is started again, or fails at once when it
\* has stalled too often.  publishIfExhausted sees attempts left and returns.
Stall(j) ==
  [state |-> IF job[j].stalls < MaxStalls THEN "waiting" ELSE "failed",
   tries |-> job[j].tries, stalls |-> job[j].stalls + 1]

\* The process dies.  Its jobs stall, the reports it still had to make are lost,
\* and so is what the local adapter remembers.
Crash ==
  /\ Fault
  /\ job' = [j \in Jobs |-> IF job[j].state = "active" THEN Stall(j) ELSE job[j]]
  /\ unreported' = unreported \union {j \in Jobs : at[j] = "report"}
  /\ at' = [a \in Actors |-> "idle"]
  /\ sync' = [s \in Syncs |-> {}]
  /\ known' = (provider = "fireblocks")
  /\ unguarded' = unguarded \union {keyOf[a] : a \in {b \in Actors : at[b] = "mark"}}
  /\ UNCHANGED <<dlq, alerted, keyOf, moneyVars, cached, provider, marks>>

-----------------------------------------------------------------------------
(* WalletsService.syncBalance, and money that comes in.                    *)

SyncRead(s) ==
  /\ sync[s] = {} /\ known
  /\ sync' = [sync EXCEPT ![s] = {funds}]
  /\ UNCHANGED <<queueVars, handlerVars, moneyVars, cached, custodyVars, marks,
                 unguarded, faults>>
SyncWrite(s) ==
  /\ \E balance \in sync[s] : cached' = balance
  /\ sync' = [sync EXCEPT ![s] = {}]
  /\ UNCHANGED <<queueVars, handlerVars, moneyVars, custodyVars, marks,
                 unguarded, faults>>
Deposit ==
  /\ funds < MaxFunds
  /\ funds' = funds + 1
  /\ UNCHANGED <<queueVars, handlerVars, paid, answered, balanceVars,
                 custodyVars, marks, unguarded, faults>>

JobStep(j) ==
  \/ Start(j) \/ Guard(j) \/ Check(j) \/ Transfer(j) \/ TransferUnknown(j)
  \/ Mark(j) \/ Report(j)

Next ==
  \/ \E j \in Jobs : \/ \E k \in Keys : AdminRetry(j, k)
                     \/ Start(j) \/ Guard(j) \/ GuardErrs(j)
                     \/ Mark(j) \/ MarkErrs(j)
                     \/ Report(j) \/ ReportErrs(j) \/ Alert(j)
  \/ \E c \in Calls, k \in Keys : Call(c, k)
  \/ \E a \in Actors : Check(a) \/ Transfer(a) \/ TransferErrs(a) \/ TransferUnknown(a)
  \/ \E k \in Keys : MarkExpires(k)
  \/ \E s \in Syncs : SyncRead(s) \/ SyncWrite(s)
  \/ Crash \/ Deposit

Spec == Init /\ [][Next]_vars
FairSpec == Spec /\ \A j \in Jobs : WF_vars(JobStep(j))

-----------------------------------------------------------------------------
\* A request pays once.  Behind Fireblocks always, whoever retries it; behind
\* the local adapter unless the mark could not protect the key: two actors
\* passed the check before either had marked, an HTTP call went past it, an
\* answer or a mark was lost, or the mark ran out.
PaidOnce ==
  \A k \in Keys :
    paid[k] > 1 => provider = "local" /\ k \in unguarded

\* A mark, which turns every later job with the key away, is only set for a
\* key the provider has answered for.
MarkedIsAnswered == marks \subseteq answered

\* The dead letters are exactly the jobs that failed for good, except those
\* whose report was refused or died with its process, and those that failed
\* because they stalled too often: publishIfExhausted counts attempts, a stalled
\* job has some left, and nobody hears of it.
FailuresAreReported ==
  \A j \in Jobs :
    (job[j].state = "failed" /\ at[j] # "report" /\ job[j].stalls <= MaxStalls)
      <=> j \in dlq \union alerted \union unreported

\* A job that was added comes to an end: done or kept as failed.
JobsEnd ==
  \A j \in Jobs : job[j].state = "waiting" ~> job[j].state \in {"done", "failed"}
=============================================================================
