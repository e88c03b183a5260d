# NexusCRM in TLA+

TLA+ modules, TLC runs and TLAPS proofs for NexusCRM: the backend
(`src/crm-backend/src`: NestJS, PostgreSQL through Prisma, Redis and BullMQ, an
EVM chain through ethers) and the part of the frontend (`src/crm-frontend/src`, Next.js)
that takes part in its protocols. Paths below are relative to the backend's directory
unless they begin with `frontend:`.

The backend runs as several identical replicas. Money enters through the chain:
a listener hears of a USDC transfer and enqueues a job, a processor matches it
to a payment intent, a second job polls its confirmations, and a settlement
writes payment, audit trail and ledger in one database transaction. Three other
paths write the same rows: a manual confirmation, the reconciliation scan and the
expiry cron. Money leaves through withdrawals. Around this rail lie deals and their
notarisation on chain, subscriptions on four billing rails, AI features behind
limits and a circuit breaker, sessions with rotating tokens, and plain CRM records.

## 1. Inventory

Components, the state each keeps, its operations and what can go wrong. The
last column names the module.

| component | state | operations and interaction | hard behaviour | correct when | module |
|---|---|---|---|---|---|
| payments (`modules/payments`) | `payments` rows (status, txHash, expiresAt), `payment_events` | create an intent, detect, confirm, settle, fail, expire, refund, confirm manually; settles through the ledger in its own transaction; enqueues webhooks after it | every handler reads, awaits, and then updates by primary key alone | statuses follow the table, a transfer pays once, the trail explains the row, money is in the ledger | `Payments` |
| payment processors (`processors`) | jobs of blockchain-events and transaction-confirmation, `blockchain_transactions` | match a transfer to an intent, record it, poll its confirmations | at-least-once delivery, job ids that are still known | what is settled is funded, every CONFIRMING payment is decided | `Payments` |
| reconciliation (`jobs/workers/reconciliation.worker.ts`) | the rows it read, the logs it fetched | every run scans the open intents' addresses for missed transfers | stale row list, shared addresses | a transfer counts once outside what a scan adds up | `Payments` |
| ledger (`modules/ledger`) | `ledger_accounts` with balances, `ledger_entries` | provision accounts, write a pair of entries per settlement | concurrent settlements, lazy provisioning, one transaction or none | balances are the sums of the entries, one step or nothing, fees within their rate | `Ledger` |
| event listener (`modules/blockchain/listener`) | last scanned block and seen-set in Redis, connection and timers per process | elect, replay missed blocks, subscribe, enqueue transfers, reconnect | gap between replay and subscription, mark before enqueue, overlapping calls | a transfer is enqueued once, a replay is thorough, somebody ingests | `Listener` |
| payment listener (`blockchain/blockchain.listener.ts`) | polling cursor, mode | elect, subscribe or poll, enqueue transfers | same election under the same identity | as above | `LeaderElection` |
| leader election (`core/leader`) | one Redis key with a lease | acquire, renew, release | expiry during a pause, shared identity | one leader in the end | `LeaderElection` |
| wallets and withdrawals (`modules/wallets`, `modules/blockchain/custody`, `jobs/workers/withdrawal.worker.ts`) | wallet rows with a cached balance, processed marks in Redis, what the custody provider did | withdraw by job or by HTTP call, mark processed, synchronise the balance | a retry after an answer was lost, guard and mark apart, balance not reserved | a request is paid out once, a mark stands for an answer | `Withdrawals` |
| dead letters and admin retry (`jobs`) | dlq jobs | publish after the last attempt, alert, retry by hand | the report is lost, a retry under a known id | the only failed jobs nobody hears of are those whose report was lost or that stalled too often | `Withdrawals` |
| deals (`modules/deals`) | deal row, stage history | create, move a stage, update, delete; a win queues its registration | every call decides on a copy and writes by id; the registration follows the commit | what is won stays won, and each win is registered with its own hash | `Deals` |
| deal notarisation (`jobs/workers/blockchain.worker.ts`, `modules/blockchain`) | register job, `blockchain_records` row, the contract's hash | upsert, submit, wait, confirm or fail | a transaction that was sent and not recorded, mined late, reverted or dropped | the record agrees with the chain, and is decided | `Notary` |
| circuit breaker (`core/resilience`) | record and failures in Redis | execute, open, half-open, close | read and write are apart, every caller passes while half open | no caller waits on it for ever | `CircuitBreaker` |
| AI execution (`modules/ai`, `modules/mcp`, `common/guards`, `common/rate-limit`) | slots and lock per user, chain and in-flight calls per process, one semaphore across replicas | admit, lock, pass the circuit, chain, acquire, call the model, retry, give everything back | counters with a time to live, holders that die, errors of Redis that let requests in | limits hold, capacity comes back, every request ends | `AiRequests` |
| authentication (`modules/auth`, `frontend:lib/api/client.ts`) | refresh sessions, blacklist, cookies, queues of waiting requests in each tab | login, refresh with rotation, logout, reset | two tabs refresh with one cookie, rows inserted after a purge, answers lost | sessions do not multiply, end when they should, and nobody waits for ever | `Sessions` |
| billing (`modules/billing`, `frontend:app/checkout`, `frontend:app/(dashboard)/settings/billing`) | one `billing_info` row per tenant, written by Stripe, PayPal, Razorpay and crypto | subscribe, verify, upgrade, cancel, refund, confirm; a webhook for whatever happens at a provider | webhooks late, twice and out of order; a call that dies between provider and row | row and provider agree in the end, an intent counts once | `Billing` |
| automation engine, CRM records, database access, cache, websocket, observability, deployment | | | single rows or pure I/O | | not modelled |

## 2. Modules

| module | what it is |
|---|---|
| `PaymentStateMachine` | the transition table of `payment-state-machine.ts`, pure |
| `PaymentLifecycle` | abstract specification: the life of one payment, with the one exception an outdated write makes |
| `Payments` | the payment rail: rows, trail, ledger settlements, webhooks, jobs and every handler; implements `PaymentLifecycle` |
| `LedgerRules` | accounts, legs, fee and what an entry moves, pure |
| `LedgerBook` | abstract specification: a settlement happens at once |
| `Ledger` | the same settlement statement by statement; implements `LedgerBook` |
| `LeaderElection` | the Redis key and the roles of the listeners that race for it |
| `Listener` | the event listener: extends `LeaderElection` and conjoins to each of its steps what the listener does then |
| `Withdrawals` | jobs and HTTP calls that pay out, marks, custody adapters, balance cache, dead letters |
| `CircuitBreaker` | one circuit in Redis, its steps as the building blocks of a caller |
| `AiRequests` | AI requests on several replicas, from guard to response, on top of `CircuitBreaker` |
| `Notary` | the registration of one deal: job, worker, record, mempool and contract |
| `Deals` | the life of that deal under concurrent calls, on top of `Notary` |
| `Sessions` | one user in one browser with several tabs, and the server's sessions |
| `Billing` | one tenant's row, four rails, API calls and webhooks |
| `MC...` | instances for TLC |
| `...Proofs` | theorems about `Payments`, `Ledger`, `Listener`, `Withdrawals`, `AiRequests`, `Deals`, `Billing`, `Sessions` |

**Payments** has one handler state machine (`run[x].pc`) per transfer job,
confirmation job, manual confirmation, refund call, reconciler and expiry
sweep, and its action boundaries are the awaits of the code. A database
transaction is one action: at READ COMMITTED no other session sees it half
done, and `Ledger` shows of the one transaction with several statements that
each of its statements is a step of a settlement at once, or invisible.
`WriteRow` is `PaymentsRepository.transition()`: it overwrites the status
without looking at it. `raced` observes whether a write used an outdated status
and `included` which transactions were ever in a block; no guard reads them.

**Ledger** has one state machine (`at[c]`) per attempt to settle. A statement
inside the transaction works on the call's own `view` and `drafts` under row
locks that end with it; the lookups and upserts of accounts go through other
connections of the pool and commit at once, which is why they appear between
the statements and why they need a second connection. `RollBack` may happen
at any statement.

**LeaderElection** keeps of time only its order: a key that is renewed does not
expire, any other may, and a stall longer than the time to live is a fault. A
shutdown is one step, although the key is released a little before the sockets
close; what may happen in between, two replicas ingesting at once, happens in
the model through an early expiry. Its `role`, `starting`
and `renewing` are `leaderStates`, the await in `becomeActive` and
`renewalTimers`.

**Listener** gives every call of `startListening` a slot (`run[l][k].at`), from
its timer to the close event of its socket, because calls overlap: the maps
`reconnectTimers`, `providers` and `contracts` know only the last one (`timer`,
`conn`), which is what teardown reaches. `work` holds the calls of
`processTransfer` between its awaits. `slips` and `lost` are
observers.

**Withdrawals** has one handler (`at[a]`) for each job and each HTTP call. A job
passes guard, balance check, transfer and mark; an HTTP call checks and transfers
only, without the mark (`wallets.service.ts` never reads it). `Pay` differs by
provider: Fireblocks takes the key as `externalTxId` and executes it once, the local
adapter makes a new transfer every time and catches its own errors. Any answer sets the
mark, also one that says FAILED: a later job with the key is then turned away. A
process that dies leaves its jobs stalled: BullMQ starts a stalled job again once
(`MaxStalls`, the default of `maxStalledCount`) without counting an attempt, and the
second time it fails the job, attempts left or not; `publishIfExhausted`
(`dlq-publisher.service.ts:56`) then takes it for a job that will be retried and
reports nothing. `unguarded` observes
the keys whose mark could not protect them, `unreported` the failed jobs whose
report was refused or died with its process.

**AiRequests** has one program counter per request, which may be a copilot call, a
RAG query or a loop of the agent, and one promise chain per replica. A Redis key
whose holders are gone may expire at any time; that one expires under a request that still runs is
a fault, observed by `strays`, `unlocked` and `skewed`. The steps of
`CircuitBreaker` are conjoined to those of the caller that runs them, so that
what was read may be outdated when it is written. The promise that `finally` makes in
`ai-executor.service.ts:236` rejects with the call and nobody handles it: under
node's default a call that fails for good ends its process, and so it does here (`Dies`).

**Notary** and **Deals** are one system: `Deals` extends `Notary`, a move that
commits a win goes on to `AddJob`, and the other steps of each leave the other's state alone.
A hash stands for the win it was computed at, since the time of winning is
hashed. The worker is sequential and its wallet numbers transactions, so that they
are mined in the order sent and dropped from the end. `raced` observes a write over a row that was
not read, `reopened` a generic update that overruled a decided status,
and `fate`, per hash, what kept it from the row: the process died or Redis refused the job
after the commit (`unqueued`), a stored job of the deal's id made BullMQ drop the new one
(`dropped`), the job was given up (`abandoned`) or a later win took the row
(`replaced`). `Excused` says when a win may be lost: at any time for the first; for a job given up
after as many failures as there are attempts, or more stalls than BullMQ allows
(`GivenUp`); and for the other two only in a deal that was reopened or whose win was written over.

**Sessions** names a token by the second it was signed in: the payload carries no
`jti`, so two tokens of one user and second are one string. Each request goes
through the server (`Serve`) and the response interceptor of its tab
(`Receive`), where the first 401 starts a refresh and later ones wait for it.
`quiet` observes whether anything happened that excuses a false replay alarm (`signed` keeps
the seconds in which a token was signed, and a second token of one second is such an
excuse), `alone` and
`out` the logouts that met no other call. A login passes its check of the password (`Login`), is
signed (`SignLogin`) and inserts its row (`CreateLogin`) in separate steps, and a refresh its
deletion (`Consume`), signature (`SignRotated`) and row (`Rotate`), so a reset may come between any
two. `era` keeps the password a row stems from: `old`, `new`, or `slipped` for one of the old
password whose request was past its check or its deletion when the purge ran.

**Billing** keeps for every purchase how it stands at its provider (`sold`, numbered), the
webhooks that are not acknowledged (`mail`) and the calls between two awaits
(`call`). Webhooks are delivered in any order and again when an
acknowledgement is lost. The observers say when row and provider may disagree:
two purchases at once (`mixed`), an older state after a newer one (`overtaken`), a full
refund (`refunded`), metadata written from an outdated read (`raced`).

## 3. Runs

Every property has a mutant, a definition of the model with a plausible slip of
the code (named `Mut...`, next to the original), under which its run fails.

| run | instance | shows |
|---|---|---|
| `payments_paths` | two intents on one address, two transfer jobs (full and short amount), a manual confirmation and a refund, one handler failure | what is settled is funded, a transfer counts once, ledger backing, true webhooks, the trail explains the row, single settlement and legal transitions except after an outdated write, refinement of `PaymentLifecycle` |
| `payments_recovery` | one intent, a job, a reconciler and an expiry sweep, one failure, fair | an overdue intent is closed, and none is settled that is not funded |
| `payments_reconciled` | two intents on one address, three transfers of 3, 2 and 1, a reconciler | finding: a scan counts a transfer for two intents |
| `ledger_concurrent` | two settlements on one book whose accounts are still being provisioned, each rolled back anywhere and tried twice, three connections, amounts with and without a fee, fair | balances are the sums of the entries, all or nothing, refinement of `LedgerBook`, every settlement ends without help of the timeout |
| `ledger_fee` | one settlement with a fee | finding: the trial balance is off by twice the fee |
| `listener_ingests` | two replicas, a transfer mined before or after the first start, two faults of any kind, fair | enqueued once, marked only for the queue, thorough replay, honest anchor, ingestion settles on one subscribed leader |
| `leader_shared` | two processes with two listener services each | finding: two leaders for good |
| `withdrawals` | two jobs and an HTTP call with one key, two attempts and one stall each, either provider, a deposit, a balance sync, two faults, fair | a key pays twice only where the mark could not protect it, marks stand for answers, a failure is reported unless its report was lost or its job stalled too often, jobs end |
| `ai_requests` | four pairs of requests that share user, replica, dedup key or only the model; limit one, one fault, fair | one request per user, slots and semaphore hold, held capacity has a time to live, every request ends |
| `deals` | three calls of any kind on one deal, a worker with two attempts, two faults, fair | a win stays, a notarised deal is kept, each win is registered with its own hash, CONFIRMED agrees with the contract, a registration is decided |
| `sessions` | a tab with two requests, another with one, in five mixes; three seconds, a reset, one failure, fair | sessions do not fork, one tab never causes a false alarm, logout ends what it should, a reset all but what was past its check or deletion, every request is answered |
| `billing` | a subscription at Stripe, or PayPal, a subscription and an order at Razorpay, or two crypto intents; two calls, one fault, fair | row and provider agree once all is in, intents count once, an ended subscription leaves the row for good |

Bounds. For payments, two handlers of different kinds on one payment are what a race needs,
two intents on one address what a wrong match needs, and a second transfer what
double counting needs; more of each only repeat these. Chain depth has three
values (not included, included, deep), the amounts are full, short and both.
Two settlements contend for one lock, a third would queue behind them. For the
listener, chunk, lookback, rewind and required depth are 2, 2, 2 and 1 instead of
500, 20, 5 and 2, three blocks exist and each listener has two slots: enough for a replay of
two chunks, for a gate that passes and one that does not, and for the overlap
of a dying connection with a new one. Two faults are a cause and a second
failure while the first is being repaired.

A withdrawal has two attempts instead of five: one that fails after the money
left and one that may pay again. With two jobs and a call of one key, every pair of
actors meets; a wallet of one and a deposit of one make the
balance check pass and refuse. AI requests meet in pairs, since every lock and
counter is about two; a limit of one and a chain of one make each of them refuse, one retry
and two turns reach the ends of both loops. A deal needs three calls for a win, a
second win or an amendment, and a deletion; two attempts and one stall are a
transaction that is sent and its retry. Three seconds of signing are a session, its
rotation and the rotation of that one; the mixes are the meetings of
two queued requests, of two tabs, and of a logout, a login or a mistyped password with
them. Webhooks are numbered to three for Stripe and PayPal: one for the start,
one that overtakes it and one for the end.

### Where code and words disagree

`payments_reconciled`, `ledger_fee` and `leader_shared` are disagreements with runs of their
own. The others were met while modelling; the models do what the code does, and a property excepts or
observes them.

- Payments. The recheck of confirmations is added under the id of the job that is
  running, and BullMQ drops it instead of replacing it (`processors/confirmation.processor.ts:258-261`):
  the payment stays CONFIRMING. Reconciliation counts logs of a shared address that
  another payment has counted, against the comment "so we don't double-count"
  (`jobs/workers/reconciliation.worker.ts:201`; `NothingCountsTwice` in `payments_reconciled`). A manual
  confirmation that waited for the chain settles a payment the poll has settled
  (`payments.service.ts:460`). The expiry cron (`payments.service.ts:370-389`)
  overwrites whatever a handler wrote after its batch was read and logs the event apart
  from the update. A refund of a REFUNDED payment passes the check, because
  `payment-state-machine.ts:59` allows a status to stay what it is, against `payments.service.ts:395`.
- Ledger. The entry of a fee raises the liability account although it is its debit
  side (`ledger.repository.ts:72-89`), against "Liability ↓, Revenue ↑" (`ledger.service.ts:87`),
  so the trial balance does not come to zero (`ledger.service.ts:15`; `TrialBalance` in `ledger_fee`).
- Listener. A transfer skipped because it is too young is not looked at again once the
  anchor has moved past it.
- AI. The comments of `ai.service.ts:119-122` and `147-151` promise a user's lock until the
  request completes; the query is returned without `await` (line 152) and the lock goes
  back at once. `ai-executor.service.ts:228` and `235` promise that a failed call
  disturbs nothing; its unhandled rejection (236) ends the process. The circuit breaker
  lets every caller through while half open, against `circuit-breaker.service.ts:10`.
- Deals. `move-deal-stage.use-case.ts:27-28` relies on a PENDING record for a win whose
  registration was not queued; only the worker creates that record, and no sweep exists.
  The generic update may write any status over a decided one. When the deal is then won again while
  the job of its first win is stored, which is kept after it is done, the job id
  `blockchain-deal-<id>` makes BullMQ drop the second registration (`blockchain.adapter.ts:47-49`):
  the comment speaks of concurrent enqueues only, and the second win is never notarised.
- Sessions. A mistyped password is a 401 like any other, so the login page's interceptor
  tries a refresh first (`frontend:lib/api/client.ts`). "Invalidate all existing sessions after
  password change" (`auth.service.ts:252`) misses those about to begin: a login that has compared the
  old hash (148) or a refresh that has deleted its row (`auth.repository.ts:68`) signs and inserts a
  session after the purge.
- Billing. A Razorpay payment or order id stays in the row after its subscription ended
  (`razorpay.service.ts:345-358`, against `163-191`), and the settings page asks for it first
  (`frontend:app/(dashboard)/settings/billing/page.tsx:515`): to cancel a later PayPal
  subscription then sets the plan to FREE while PayPal goes on charging. The page promises
  access until the period ends (521, 530), PayPal's and Razorpay's handlers take the plan at once.
  `billing.controller.ts:107-111` says that a full refund downgrades to FREE; until the
  provider's webhook it only sets the status.

## 4. Fairness

`Payments!FairSpec`: BullMQ keeps delivering queued jobs, node runs the
continuation of every await, the cron of each replica keeps firing (weak
fairness), and a transaction that enters a block again and again is buried in the
end (strong fairness, the chain). Nobody has to create, confirm or refund
anything.

`Ledger!FairSpec`: each call runs its next statement when it can; PostgreSQL
grants a lock that stays free. Neither the timeout that rolls a transaction back
nor a retry is assumed to happen, so `EverySettlementEnds` says that row locks
alone never leave a settlement waiting. With no more connections than
settlements in progress it would fail: each holds one and waits for another
(`ledger.service.ts:108`), and only the timeout ends that.

`Listener!FairSpec`: timers fire, calls return, close events arrive, a dead
container is restarted (`restart: unless-stopped` in `docker-compose.yml`), a key
that nobody extends expires. The faults are bounded, not fair: liveness says what
holds once they end. Two timing assumptions: a replay that outlasts the 30 s of the
key is a fault, since a replay that always did would pass the key round for
ever; and so is a close event that comes later than the reconnect delay. The delay
doubles from 2 s to 60 s; without that assumption TLC finds each late close event
tearing down the next connection, whose own close event is late in turn.

`Withdrawals!FairSpec`: weak fairness of each job's own steps. Answers, marks and
reports may be lost, but only as often as there are faults; HTTP calls, retries
by hand, deposits and syncs need not happen.

`AiRequests!FairSpec`: weak fairness of what node does with a request that has
arrived. Expiries, errors and the circuit's time are not fair: a request
that finds its slots, the semaphore or the circuit closed to it is turned away in the end
and needs no key to expire and no circuit to cool.

`Deals!FairSpec`: the calls, the worker and the chain go on. A transaction
may still be dropped or mined after its timeout.

`Sessions!FairSpec`: servers work and the network delivers, or the request breaks.
The client's own time-outs are left out.

`Billing!FairSpec`: a provider sends each webhook until it is acknowledged, as
all three document and the handlers rely on, and node runs the continuation of every await. Nobody
has to buy or cancel anything.

## 5. Proofs

TLAPS proves these for every value of the constants, under the named
assumptions on them.

`PaymentsProofs`: `TypeOK /\ Inductive` is inductive (`InductiveInvariant`).
`Inductive` adds to the promises what a sleeping handler still knows when it
writes: `PlacedAt` (its payment exists), `DecidedAt` (which status it saw decides
which write it may be about to do) and `Batched` (the same for sweeps and
scans). From it follow `LedgerBacksStatus`, `HashesAreUnique`,
`WebhooksAreTrue`, `OneSettlement`, `TransitionsAreLegal` and
`RailImplementsLifecycle`. Two more invariants rest on it. `Evidence` says that a payment which
is CONFIRMING, or which a handler is about to make so or to settle (`Carries`), has had the amount on its
address in transactions that were in a block; these only become more, and the sum of more transfers is
not smaller, so what was settled stays funded (`SettlementsAreFunded`; a transaction is assumed
to have finitely many logs). `Explained` adds to `TrailExplainsRow` that a payment without a row has no
events and that an expiry which is still to be logged is what the row says, unless a write raced
(`TrailsExplainRows`). A third, `Bound`: a row is bound to a transaction with a transfer that pays it alone, unless a
reconciliation bound it to the last of several that pay it together (`summed`), and stays bound to one
from CONFIRMING on, also when a handler overwrites it from an outdated read. As no two rows share a
hash, the settled payments of an address that are not in `summed` map one to one into its
transfers, and the sums compare (`OwedIsCovered`); this is `TransfersCountOnce` (`TransfersPayOnce`),
with any number of reconcilers beside the other handlers. Of the payments in `summed` it cannot be
said: a reconciliation adds the logs of a shared address up for each intent, so of three transfers of 3,
2 and 1 it settles one intent of 5 after the second and another one after the third
(`payments_reconciled`).

`LedgerProofs`: `TypeOK /\ Inductive` again, with `LocksAreUpdates` (who holds an
account's lock is at the entry that updates it), `RowsAreHeld`, `ViewsAreCurrent`
(under its lock a view is the committed balance plus the call's own entries),
`DraftsFollow`, `EntriesAreOfDone` and `LookupsAreTrue`. A commit then moves
exactly the amounts of one settlement (`CommitMoves`) and nothing else shows
(`OnlyCommitsShow`), which gives `FeesStayWithinRate`, `SettlementsAreAtomic` and
`LedgerImplementsBook`; `AccountsAreFound` shows the throw for missing accounts
unreachable. `NoUpdateIsLost` adds that every balance is the sum of its entries: the sum is a
recursive function on finite sets, and that it splits over disjoint sets is proved by
taking a least counterexample among the cardinalities. Besides `Inductive` it needs that the committed
entries are finitely many, which is carried along.

`ListenerProofs`: `QueueTypeOK /\ Inductive`, where `MarkedFirst` says that whoever is
about to add a transfer has marked it, is alone in that and finds it not yet added,
and `SavedIsAdded` that whoever is about to move the anchor has added its transfer.
Of the many steps only those of `QueueStep` concern the queue (`EveryStep`); elections,
timers, replays and sockets are shown to leave it alone. From it follow
`TransfersAreAddedOnce`, `MarkedIsQueued` and `AnchorIsHonest`, for any number of
listeners, processes, overlapping calls and faults. A second invariant, `CallsOK` and
`ReplaysOK` (`ReplayInvariant`), is about one replay at a time: it ends at a block that
exists, its chunks follow one another without a gap (`ChunkOf`), and a replay without
an error has looked at every transfer below the chunk it is at and, within the chunk, at every
transfer it no longer holds. Blocks only grow at the tip (`BlocksGrow`), so nothing appears behind it,
and at the end this is `ReplayIsThorough` (`ReplaysAreThorough`).

`WithdrawalsProofs`: `TypeOK`, `Placed` (who is inside a withdrawal has a key, and who
reports has failed), `Protected` (under a key that nothing exposed one actor at a time
pays, and once it has paid the mark is set or about to be) and `Known` are inductive together. From them
follow `RequestsPayOnce`, `MarksAreAnswers` and `ReportsAreFailures`, for any number
of jobs, calls, keys, attempts and faults.

`AiRequestsProofs`: the inductive invariant is `TypeOK`, `Heads` (only the head of a
chain is past waiting), `Locked` (who is at work and not a query holds the lock, one per user,
as long as it never ran out early), `Counted` and `Slotted` (each counter is at least the number of
its holders, until it was passed by or lost) and `CounterHasLease`. The counting arguments go
through cardinalities of sets of requests that gain or lose one member. It
gives `UsersTakeTurns`, `LimitsAreKept` and `CapacityIsLeased` for any number
of users, requests and replicas.

`DealsProofs`: `TypeOK`, `Placed` (the copy of a call that is about to write allows the
write), `Staged` (a row that exists has a stage), `Marked` (once there is a trace of a win, in the
history, on its way or on record, the deal is WON and kept) and `InLine` (how record,
job, mempool and contract hang together: what is mined last is what the row holds) are inductive.
It gives `WinsAreTerminal`, `NotarisedAreKept` and `ConfirmationsAreTrue`. Three
more concern the hash of each win: `Fresh` (the hashes of job and row are those of calls that have
ended), `Single` (two wins go for a registration only after a reopening or an outdated write) and
`Owed` (as long as the row does not hold the job's hash the job is still to be done, and each try and
each stall of it cost a failure). With them `WinsAreRegistered` is inductive (`WinsReachTheNotary`).

`BillingProofs`: `TypeOK`, `Bought` (only what was bought has a state, webhooks and an id in the row,
each on its own rail), `CallsKnow` (a call works on a purchase of the rail it calls, and no two
calls write one intent) and `IntentsAreSpentOnce` are inductive
together; the last is the property itself (`IntentsArePaidOnce`). `RowAgrees` says something
only of quiet states, so three more invariants say what holds on the way there. `Numbered`:
every event of a purchase was written to the row or its webhook is still to come.
`Chains`: the webhooks of a subscription that is not refunded tell, one after the other, how it
came to stand as it does, the last one of how it stands now. `Agreeing`: as long as nothing excuses
the row (`Undisturbed`), everything but the owner is over (`OthersAreOver`); the row
tells what the last event written says, and the next one leaves alone what its handler
does (`EventsFollow`: an invoice event changes the status only, so the plan has to be right before
it); and what a call has been told and is to write is what its event says (`CallsFollow`). Both
are needed only while no event older than the last one written is on its way (`Gap`): writing such an event
overtakes and excuses. At rest no webhook is left, so the last event was written
and the row is the provider's (`RowsAgree`), for any number of purchases, calls, webhooks and faults.

`SessionsProofs`: `TypeOK`, `Placed` (what is asked decides where a request can be),
`Exclusive` (a tab exchanges one token at a time), `Counted` (sessions, and requests about to
insert one, are never more than one and the logins that were answered: rotation conserves their number),
`Purged` (after the purge no row is of the old password, and no request past its check or deletion but
those the purge had marked `slipped`),
`LoneLogouts` and `Calm` are inductive together. `Calm` holds while nothing excuses an
alarm: exchanges, logins and logouts do not overlap (`Apart`), tokens are signed once
(`Distinct`), and the cookie a refresh presents has its row (`Backed`). It gives `TypeCorrect`, `NoFork`,
`AlarmsAreExcused`, `LogoutEnds` and `ResetEnds` for any number of tabs, requests, seconds and
faults.

Each module's `TypeOK` is part of its inductive invariant, except those of `Listener` (beyond
what the queue and the replays need) and `LeaderElection`, which are stated for the reader and for a
check by hand. Sums are proved about through recursive functions and least numbers; the
library's induction theorems take an operator as a parameter, which the provers cannot
instantiate. Every safety property of the passing runs is stated by a theorem. Only model-checked are all of
`LeaderElection` and liveness (`OverdueIsClosed`, `EverySettlementEnds`, `IngestionSettles`,
`JobsEnd`, `RequestsEnd`, `NotarisationEnds`, `RequestsAreAnswered`, `EndedIsDropped`), which neither this
prover nor its ENABLED reaches.

## 6. Not modelled

Payments: `handlePartialDeposit` (only the unregistered `transaction-confirmation.worker.ts`
calls it), the other legacy worker, the creation of intents under an idempotency key, the
single job id of the reconciliation scheduler, delays and back-off. `PaymentListenerService` is
modelled in the election only; its polling cursor and mode watchdog are left out.
Jobs are matched with listener output by hand: `Payments` starts with a transfer that is in
the queue, as often as it was added, and `Listener` shows how often that is.

Listener: the choice among RPC URLs, parsing, and reads that change nothing. Requests to
the node are answered or fail; one sent over a socket that dies during a replay and never
answered (`blockchain-listener.service.ts:430`) would leave an active listener without a
subscription, and whether it can happen depends on ethers.

Wallets: provisioning and key generation, except for the ledger accounts it creates.

Deals: the deal-won saga, since nothing emits the `deal.won` it listens for; the USDC payment of
a win, since a currency of three letters is never USDC; a title that is amended after
the win and then no longer hashes to what was registered. Verification only reads.

AI: cost control (`cost-control.service.ts` reads a quota before the call and records
usage after it), the planner mode, tools and memory, the caches, client time-outs, administrators, who pass the
slots by, and that several callers who share a rejected call count one failure each. The dedup key
of a query lacks the tenant (`rag.service.ts:192`); which answer a caller gets is not in the model.

Sessions: registration, the mail of a forgotten password, client time-outs behind
which the server goes on.

Billing: customer ids, periods, amounts, invoices, partial refunds, the unique violation of
two first calls that both create the row, and which field of a PayPal sale names the tenant.

Elsewhere: the sliding window limiter; the idempotency middleware, which reads the
result before it takes the lock (`idempotency.middleware.ts:48-64`), so that a request in
between runs again; the conversion of a lead, which checks and converts apart
(`leads.service.ts:166-200`); the dashboard cache; the automation engine, where a job that
is tried again repeats what it had done; CRM records, database access, websocket,
observability, deployment, and the pages of the frontend beyond those named
above. Most of the repository's lines are these: pages and single-row
services whose steps do not interact.
