------------------------------ MODULE Payments ------------------------------
(***************************************************************************)
(* The USDC payment rail: the payment rows, their audit trail and their    *)
(* ledger settlements, and every handler that writes them.                 *)
(*                                                                         *)
(* Each handler reads a row, awaits something (the database, the chain,    *)
(* the queue) and writes later; an action is what happens between two      *)
(* awaits.  A database transaction is one action.  PaymentsRepository.     *)
(* transition() is an update by primary key with no condition on the       *)
(* status, so a handler that slept writes over whatever is there.          *)
(*                                                                         *)
(* Handlers, by the identity that indexes "run":                           *)
(*   a job          PaymentProcessor on one blockchain-events job          *)
(*   a payment p    ConfirmationProcessor on the job confirm-p             *)
(*   a request      one HTTP call of confirmPaymentManually                *)
(*   a refund       one HTTP call of handleRefund                          *)
(*   a reconciler   ReconciliationWorker (one, the singleton job)          *)
(* and a sweeper is the expiry cron of one backend replica.                *)
(***************************************************************************)
EXTENDS Naturals, FiniteSets, Sequences, FiniteSetsExt, PaymentStateMachine

CONSTANTS
  Payments,     \* payment intents that may be created
  Wallet,       \* [Payments -> deposit address]; intents share addresses
  Amount,       \* [Payments -> Nat], amountUsdc in atomic units
  Hashes,       \* transaction hashes
  Transfers,    \* USDC Transfer logs: [tx, at, to, value], at = chain position
  Jobs,         \* blockchain-events jobs
  TransferOf,   \* [Jobs -> Transfers]; both listeners may enqueue one transfer
  Requests,     \* manual confirmation calls
  Refunds,      \* refund calls
  Reconcilers,
  Sweepers,
  NoPayment, NoTx,
  MaxFaults     \* bound: handler failures (exceptions, crashes, stalls)

ASSUME WalletAssumption == Wallet \in [Payments -> {t.to : t \in Transfers}]
ASSUME AmountAssumption == Amount \in [Payments -> Nat]
ASSUME TransferAssumption ==
  /\ \A t \in Transfers : t.tx \in Hashes /\ t.value \in Nat /\ t.at \in Nat
  /\ TransferOf \in [Jobs -> Transfers]
  /\ \A h \in Hashes : IsFiniteSet({t \in Transfers : t.tx = h})
ASSUME DisjointAssumption ==
  /\ Payments \cap (Jobs \union Requests \union Refunds \union Reconcilers) = {}
  /\ Jobs \cap (Requests \union Refunds \union Reconcilers) = {}
  /\ Requests \cap (Refunds \union Reconcilers) = {}
  /\ Refunds \cap Reconcilers = {}
  /\ NoPayment \notin Payments /\ NoTx \notin Hashes
ASSUME FaultAssumption == MaxFaults \in Nat

VARIABLES
  row,        \* [Payments -> [status, tx]]: the payments table
  windowOver, \* [Payments -> BOOLEAN]: expiresAt has passed
  trail,      \* [Payments -> Seq(<<from, to>>)]: payment_events
  settled,    \* [Payments -> Nat]: ledger settlements written for the payment
  announced,  \* webhooks enqueued, as pairs <<payment, event>>
  onChainTx,  \* [Transfers -> [pay, status]]: blockchain_transactions
  chain,      \* [Hashes -> where the transaction is on the chain]
  run,        \* [handlers -> [pc, pay, tx, seen]]
  todo,       \* [Reconcilers -> payments still to scan]
  fetched,    \* [Reconcilers -> Transfer logs asked for, then those returned]
  batch,      \* [Sweepers -> <<payment, status read>> still to expire]
  unlogged,   \* [Sweepers -> <<payment, status read>> expired, no event yet]
  faults,     \* handler failures so far
  raced,      \* observation: a write to the payment used an outdated status
  summed,     \* observation: payments confirmed on several transfers together
  included    \* observation: transactions that were ever in a block

rowVars == <<row, raced, summed>>
bookVars == <<trail, settled>>
sideVars == <<announced, onChainTx>>
worldVars == <<windowOver, chain, included>>
cronVars == <<todo, fetched, batch, unlogged, faults>>
vars == <<rowVars, bookVars, sideVars, worldVars, run, cronVars>>

Handlers == Payments \union Jobs \union Requests \union Refunds \union Reconcilers

\* AMOUNT_TOLERANCE: one atomic unit of drift is accepted.
Tolerance == 1

HandlerPC ==
  {"idle", "queued", "matched", "detecting", "detectCommit", "enqueue",
   "failing", "failCommit", "polling", "recordFailed", "recordShallow",
   "recordDeep", "countRead", "countCommit", "settleRead", "settleCommit",
   "recheck", "announce", "dupCheck", "verify", "manualCommit",
   "refundCommit", "scan", "fetch", "sum", "done"}

\* A payment whose row has not been created yet has the status NONE.
RowStatus == Status \union {"NONE"}
NoRow == [status |-> "NONE", tx |-> NoTx]

\* A receipt with status 1 and fewer confirmations than required (shallow) or
\* at least as many (deep), with status 0 (reverted), or no receipt (absent).
ChainState == {"absent", "shallow", "deep", "reverted"}
InBlock == {"shallow", "deep"}

\* Where a handler is, its payment and transaction, the status it read.
HandlerState ==
  [pc : HandlerPC, pay : Payments \union {NoPayment}, tx : Hashes \union {NoTx},
   seen : RowStatus]
Idle == [pc |-> "idle", pay |-> NoPayment, tx |-> NoTx, seen |-> "NONE"]
Scanning == [Idle EXCEPT !.pc = "scan"]
Done == [Idle EXCEPT !.pc = "done"]

TypeOK ==
  /\ row \in [Payments -> [status : RowStatus, tx : Hashes \union {NoTx}]]
  /\ windowOver \in [Payments -> BOOLEAN]
  /\ trail \in [Payments -> Seq(RowStatus \X RowStatus)]
  /\ settled \in [Payments -> Nat]
  /\ announced \subseteq Payments \X {"PAYMENT_COMPLETED", "PAYMENT_REFUNDED"}
  /\ onChainTx \in [Transfers ->
       [pay : Payments \union {NoPayment},
        status : {"NONE", "SUBMITTED", "CONFIRMED", "FAILED"}]]
  /\ chain \in [Hashes -> ChainState]
  /\ run \in [Handlers -> HandlerState]
  /\ todo \in [Reconcilers -> SUBSET Payments]
  /\ fetched \in [Reconcilers -> SUBSET Transfers]
  /\ batch \in [Sweepers -> SUBSET (Payments \X RowStatus)]
  /\ unlogged \in [Sweepers -> SUBSET (Payments \X RowStatus)]
  /\ faults \in 0 .. MaxFaults
  /\ raced \in [Payments -> BOOLEAN]
  /\ summed \subseteq Payments
  /\ included \subseteq Hashes

Init ==
  /\ row = [p \in Payments |-> NoRow]
  /\ windowOver = [p \in Payments |-> FALSE]
  /\ trail = [p \in Payments |-> <<>>]
  /\ settled = [p \in Payments |-> 0]
  /\ announced = {}
  /\ onChainTx = [t \in Transfers |-> [pay |-> NoPayment, status |-> "NONE"]]
  /\ chain = [h \in Hashes |-> "absent"]
  /\ run = [x \in Handlers |-> Idle]
  /\ todo = [r \in Reconcilers |-> {}]
  /\ fetched = [r \in Reconcilers |-> {}]
  /\ batch = [s \in Sweepers |-> {}]
  /\ unlogged = [s \in Sweepers |-> {}]
  /\ faults = 0
  /\ raced = [p \in Payments |-> FALSE]
  /\ summed = {}
  /\ included = {}

-----------------------------------------------------------------------------
(* Helpers shared by the handlers.                                         *)

\* The handler at pc "from" goes on to pc "to".
Goto(x, to) == run' = [run EXCEPT ![x].pc = to]

\* The handler returns; BullMQ retains the job that ended.
Finish(x) == run' = [run EXCEPT ![x] = Done]

\* PaymentsRepository.transition(): UPDATE payments WHERE id, whatever the
\* row's status is now.  "seen" is the status the handler decided on.
WriteRow(p, status, tx, seen) ==
  /\ row' = [row EXCEPT ![p] = [status |-> status, tx |-> tx]]
  /\ raced' = [raced EXCEPT ![p] = @ \/ row[p].status # seen]

\* Mutant: the two statuses swapped.
MutSwappedEvent(p, from, to) == trail' = [trail EXCEPT ![p] = Append(@, <<to, from>>)]

\* PaymentsRepository.appendEvent().
AppendEvent(p, from, to) == trail' = [trail EXCEPT ![p] = Append(@, <<from, to>>)]

\* Mutant: no unique index.
MutTxHashFree(p, h) == h \in Hashes

\* The unique index on payments.txHash.
TxHashFree(p, h) == \A q \in Payments \ {p} : row[q].tx # h

\* Queue.add with jobId confirm-p: BullMQ keeps a job of that id (waiting,
\* active or retained after it ended) and drops the new one.
AddConfirmJob(p, h) ==
  IF run[p].pc = "idle"
  THEN [run EXCEPT ![p] = [pc |-> "queued", pay |-> p, tx |-> h, seen |-> "NONE"]]
  ELSE run

IsOpen(p) == CanAcceptDeposit(row[p].status)

-----------------------------------------------------------------------------
(* Intents, the clock and the chain.                                       *)

\* createPaymentIntent, for a new idempotency key.
CreateIntent(p) ==
  /\ row[p].status = "NONE"
  /\ row' = [row EXCEPT ![p].status = "PENDING"]
  /\ UNCHANGED <<raced, summed, bookVars, sideVars, worldVars, run, cronVars>>

\* 24 hours pass since the intent was created.
WindowPasses(p) ==
  /\ IsOpen(p) /\ ~windowOver[p]
  /\ windowOver' = [windowOver EXCEPT ![p] = TRUE]
  /\ UNCHANGED <<rowVars, bookVars, sideVars, chain, included, run, cronVars>>

\* A transaction enters a block, is buried, or falls out in a reorganisation.
\* One with the required confirmations is final.
ChainMoves(h) ==
  /\ \/ chain[h] = "absent"  /\ chain' = [chain EXCEPT ![h] = "shallow"]
     \/ chain[h] = "shallow" /\ chain' = [chain EXCEPT ![h] = "deep"]
     \/ /\ chain[h] = "shallow"
        /\ \E out \in {"absent", "reverted"} : chain' = [chain EXCEPT ![h] = out]
  /\ included' = included \union {h}
  /\ UNCHANGED <<rowVars, bookVars, sideVars, windowOver, run, cronVars>>

\* A listener saw the Transfer log, which need not be deep yet when it was seen
\* live, and enqueued its job.
TransferSeen(j) ==
  /\ run[j].pc = "idle" /\ chain[TransferOf[j].tx] \in InBlock
  /\ Goto(j, "queued")
  /\ UNCHANGED <<rowVars, bookVars, sideVars, worldVars, cronVars>>

-----------------------------------------------------------------------------
(* PaymentProcessor.handleTransfer, one job.                               *)

\* findPendingByAddress: any open, unexpired intent on the address, in no
\* particular order; a transfer nobody waits for is discarded.
MatchTransfer(j) ==
  LET to == TransferOf[j].to
      open == {p \in Payments : Wallet[p] = to /\ IsOpen(p) /\ ~windowOver[p]}
  IN  /\ run[j].pc = "queued"
      /\ \/ open = {} /\ Finish(j)
         \/ \E p \in open :
              run' = [run EXCEPT ![j] = [pc |-> "matched", pay |-> p,
                        tx |-> TransferOf[j].tx, seen |-> row[p].status]]
      /\ UNCHANGED <<rowVars, bookVars, sideVars, worldVars, cronVars>>

\* Mutant: any transfer pays.
MutCovers(value, p) == value > 0

\* The transfer pays the intent, up to the tolerance.
Covers(value, p) == value + Tolerance >= Amount[p]

\* blockchainTransaction.upsert (an existing record is left alone), then the
\* amount decides between failPayment and handleTxDetected.
PersistTransfer(j) ==
  LET t == TransferOf[j]
      p == run[j].pay
  IN  /\ run[j].pc = "matched"
      /\ onChainTx' = [onChainTx EXCEPT ![t] =
           IF @.pay = NoPayment THEN [pay |-> p, status |-> "SUBMITTED"] ELSE @]
      /\ Goto(j, IF Covers(t.value, p) THEN "detecting" ELSE "failing")
      /\ UNCHANGED <<rowVars, bookVars, announced, worldVars, cronVars>>

\* handleTxDetected, the read.  When the payment no longer accepts deposits it
\* returns without an error, and the caller goes on to the confirmation job.
DetectRead(x) ==
  LET status == row[run[x].pay].status
  IN  /\ x \in Jobs \union Reconcilers /\ run[x].pc = "detecting"
      /\ IF CanAcceptDeposit(status) /\ CanTransition(status, "CONFIRMING")
         THEN run' = [run EXCEPT ![x].pc = "detectCommit", ![x].seen = status]
         ELSE Goto(x, "enqueue")
      /\ UNCHANGED <<rowVars, bookVars, sideVars, worldVars, cronVars>>

\* Some transfer of the transaction h pays p by itself.
PaysAlone(h, p) ==
  \E t \in Transfers : t.tx = h /\ t.to = Wallet[p] /\ Covers(t.value, p)

\* handleTxDetected, the transaction.
DetectCommit(x) ==
  LET p == run[x].pay
  IN  /\ run[x].pc = "detectCommit" /\ TxHashFree(p, run[x].tx)
      /\ WriteRow(p, "CONFIRMING", run[x].tx, run[x].seen)
      /\ summed' = summed \union
           {q \in {p} : x \in Reconcilers /\ ~PaysAlone(run[x].tx, p)}
      /\ AppendEvent(p, run[x].seen, "CONFIRMING")
      /\ Goto(x, "enqueue")
      /\ UNCHANGED <<settled, sideVars, worldVars, cronVars>>

\* The unique index rejects the hash: the job throws and is retried, or fails
\* for good after its last attempt; the reconciler takes the next payment.
DetectConflict(x) ==
  /\ run[x].pc = "detectCommit" /\ ~TxHashFree(run[x].pay, run[x].tx)
  /\ \/ x \in Jobs /\ (Goto(x, "queued") \/ Finish(x))
     \/ x \in Reconcilers /\ run' = [run EXCEPT ![x] = Scanning]
  /\ UNCHANGED <<rowVars, bookVars, sideVars, worldVars, cronVars>>

\* confirmationQueue.add, the last step of a detection.
EnqueueConfirm(x) ==
  LET added == AddConfirmJob(run[x].pay, run[x].tx)
  IN  /\ run[x].pc = "enqueue"
      /\ run' = [added EXCEPT ![x] = IF x \in Jobs THEN Done ELSE Scanning]
      /\ UNCHANGED <<rowVars, bookVars, sideVars, worldVars, cronVars>>

\* Mutant: the terminal status is not checked.
MutFailRead(x) ==
  /\ run[x].pc = "failing"
  /\ run' = [run EXCEPT ![x].pc = "failCommit", ![x].seen = row[run[x].pay].status]
  /\ UNCHANGED <<rowVars, bookVars, sideVars, worldVars, cronVars>>

\* failPayment, the read: a terminal payment is left alone.
FailRead(x) ==
  LET status == row[run[x].pay].status
  IN  /\ run[x].pc = "failing"
      /\ IF IsTerminal(status) \/ ~CanTransition(status, "FAILED")
         THEN Finish(x)
         ELSE run' = [run EXCEPT ![x].pc = "failCommit", ![x].seen = status]
      /\ UNCHANGED <<rowVars, bookVars, sideVars, worldVars, cronVars>>

\* failPayment, the transaction.
FailCommit(x) ==
  LET p == run[x].pay
  IN  /\ run[x].pc = "failCommit"
      /\ WriteRow(p, "FAILED", row[p].tx, run[x].seen)
      /\ AppendEvent(p, run[x].seen, "FAILED")
      /\ Finish(x)
      /\ UNCHANGED <<summed, settled, sideVars, worldVars, cronVars>>

-----------------------------------------------------------------------------
(* ConfirmationProcessor.pollConfirmation, the job confirm-p.              *)

\* findAllConfirming: the job ends when the payment left CONFIRMING.
PollStart(p) ==
  /\ run[p].pc = "queued"
  /\ IF row[p].status = "CONFIRMING" THEN Goto(p, "polling") ELSE Finish(p)
  /\ UNCHANGED <<rowVars, bookVars, sideVars, worldVars, cronVars>>

\* The receipt and the head.  Without a receipt the transaction is declared
\* dropped after MAX_WAIT_BLOCKS, which any absence may turn out to exceed.
PollReceipt(p) ==
  /\ run[p].pc = "polling"
  /\ CASE chain[run[p].tx] = "absent" ->
            \E to \in {"recheck", "recordFailed"} : Goto(p, to)
       [] chain[run[p].tx] = "reverted" -> Goto(p, "recordFailed")
       [] chain[run[p].tx] = "shallow" -> Goto(p, "recordShallow")
       [] OTHER -> Goto(p, "recordDeep")
  /\ UNCHANGED <<rowVars, bookVars, sideVars, worldVars, cronVars>>

\* blockchainTransaction.updateMany for every record of the hash.
RecordStatus(h, status) ==
  onChainTx' = [t \in Transfers |->
    IF t.tx = h /\ onChainTx[t].pay # NoPayment
    THEN [onChainTx[t] EXCEPT !.status = status] ELSE onChainTx[t]]

PollRecord(p) ==
  /\ \/ run[p].pc = "recordFailed" /\ RecordStatus(run[p].tx, "FAILED")
        /\ Goto(p, "failing")
     \/ run[p].pc = "recordShallow" /\ RecordStatus(run[p].tx, "SUBMITTED")
        /\ Goto(p, "countRead")
     \/ run[p].pc = "recordDeep" /\ RecordStatus(run[p].tx, "CONFIRMED")
        /\ Goto(p, "settleRead")
  /\ UNCHANGED <<rowVars, bookVars, announced, worldVars, cronVars>>

\* handleConfirmationUpdate, the read.
UpdateRead(p) ==
  LET Confirming(commit) ==
        /\ row[p].status = "CONFIRMING"
        /\ run' = [run EXCEPT ![p].pc = commit, ![p].seen = "CONFIRMING"]
      Moved == row[p].status # "CONFIRMING"
  IN  /\ \/ run[p].pc = "countRead" /\ Confirming("countCommit")
         \/ run[p].pc = "countRead" /\ Moved /\ Goto(p, "recheck")
         \/ run[p].pc = "settleRead" /\ Confirming("settleCommit")
         \/ run[p].pc = "settleRead" /\ Moved /\ Finish(p)
      /\ UNCHANGED <<rowVars, bookVars, sideVars, worldVars, cronVars>>

\* Below the threshold: the count is written with status CONFIRMING, no event.
CountCommit(p) ==
  /\ run[p].pc = "countCommit"
  /\ WriteRow(p, "CONFIRMING", row[p].tx, run[p].seen)
  /\ Goto(p, "recheck")
  /\ UNCHANGED <<summed, bookVars, sideVars, worldVars, cronVars>>

\* settlePayment: status, event and ledger entries in one transaction.
SettleCommit(p) ==
  /\ run[p].pc = "settleCommit"
  /\ WriteRow(p, "COMPLETED", row[p].tx, run[p].seen)
  /\ AppendEvent(p, "CONFIRMING", "COMPLETED")
  /\ settled' = [settled EXCEPT ![p] = @ + 1]
  /\ Goto(p, "announce")
  /\ UNCHANGED <<summed, sideVars, worldVars, cronVars>>

\* scheduleRecheck: Queue.add under the id of the very job that is running.
PollRecheck(p) ==
  /\ run[p].pc = "recheck"
  /\ run' = [AddConfirmJob(p, run[p].tx) EXCEPT ![p] = Done]
  /\ UNCHANGED <<rowVars, bookVars, sideVars, worldVars, cronVars>>

\* removeOnComplete: enough later jobs ended for this one to be forgotten.
ForgetJob(p) ==
  /\ run[p].pc = "done"
  /\ run' = [run EXCEPT ![p] = Idle]
  /\ UNCHANGED <<rowVars, bookVars, sideVars, worldVars, cronVars>>

-----------------------------------------------------------------------------
(* confirmPaymentManually, one call.                                       *)

\* Mutant: the status is not checked.
MutManualRead(r) ==
  /\ run[r].pc = "idle"
  /\ \E p \in Payments, h \in Hashes :
       /\ row[p].status # "NONE"
       /\ run' = [run EXCEPT ![r] = [pc |-> "dupCheck", pay |-> p, tx |-> h,
                                     seen |-> row[p].status]]
  /\ UNCHANGED <<rowVars, bookVars, sideVars, worldVars, cronVars>>

\* The payment must be PENDING when it is read.
ManualRead(r) ==
  /\ run[r].pc = "idle"
  /\ \E p \in Payments, h \in Hashes :
       /\ row[p].status = "PENDING"
       /\ run' = [run EXCEPT ![r] = [pc |-> "dupCheck", pay |-> p, tx |-> h,
                                     seen |-> "PENDING"]]
  /\ UNCHANGED <<rowVars, bookVars, sideVars, worldVars, cronVars>>

\* findByTxHash: the hash must not belong to any payment.
ManualDupCheck(r) ==
  /\ run[r].pc = "dupCheck"
  /\ IF \E q \in Payments : row[q].tx = run[r].tx
     THEN Finish(r) ELSE Goto(r, "verify")
  /\ UNCHANGED <<rowVars, bookVars, sideVars, worldVars, cronVars>>

\* The first Transfer log of the receipt to the deposit address counts, at its
\* full amount: there is no tolerance here, and no confirmation count.
ProvesPayment(h, p) ==
  LET logs == {t \in Transfers : t.tx = h /\ t.to = Wallet[p]}
  IN  \E t \in logs : /\ \A u \in logs : t.at <= u.at
                      /\ t.value >= Amount[p]

\* Mutant: the logs are checked, not whether the receipt is one of a success.
MutManualVerify(r) ==
  /\ run[r].pc = "verify"
  /\ IF ProvesPayment(run[r].tx, run[r].pay) THEN Goto(r, "manualCommit") ELSE Finish(r)
  /\ UNCHANGED <<rowVars, bookVars, sideVars, worldVars, cronVars>>

ManualVerify(r) ==
  LET verified == chain[run[r].tx] \in InBlock /\ ProvesPayment(run[r].tx, run[r].pay)
  IN  /\ run[r].pc = "verify"
      /\ IF verified THEN Goto(r, "manualCommit") ELSE Finish(r)
      /\ UNCHANGED <<rowVars, bookVars, sideVars, worldVars, cronVars>>

\* PENDING -> CONFIRMING -> COMPLETED with the ledger, in one transaction.
ManualCommit(r) ==
  LET p == run[r].pay
  IN  /\ run[r].pc = "manualCommit" /\ TxHashFree(p, run[r].tx)
      /\ WriteRow(p, "COMPLETED", run[r].tx, run[r].seen)
      /\ trail' = [trail EXCEPT ![p] =
           @ \o <<<<"PENDING", "CONFIRMING">>, <<"CONFIRMING", "COMPLETED">>>>]
      /\ settled' = [settled EXCEPT ![p] = @ + 1]
      /\ Goto(r, "announce")
      /\ UNCHANGED <<summed, sideVars, worldVars, cronVars>>

\* Mutant: the rejected write is swallowed and the webhook still enqueued.
MutManualConflict(r) ==
  /\ run[r].pc = "manualCommit" /\ ~TxHashFree(run[r].pay, run[r].tx)
  /\ Goto(r, "announce")
  /\ UNCHANGED <<rowVars, bookVars, sideVars, worldVars, cronVars>>

ManualConflict(r) ==
  /\ run[r].pc = "manualCommit" /\ ~TxHashFree(run[r].pay, run[r].tx)
  /\ Finish(r)
  /\ UNCHANGED <<rowVars, bookVars, sideVars, worldVars, cronVars>>

-----------------------------------------------------------------------------
(* handleRefund, one call.                                                 *)

\* Mutant: a payment in any status is refunded.
MutRefundRead(r) ==
  /\ run[r].pc = "idle"
  /\ \E p \in Payments :
       /\ row[p].status # "NONE"
       /\ run' = [run EXCEPT ![r] = [pc |-> "refundCommit", pay |-> p,
                                     tx |-> NoTx, seen |-> row[p].status]]
  /\ UNCHANGED <<rowVars, bookVars, sideVars, worldVars, cronVars>>

\* assertTransition(REFUNDED) on the row that was read.
RefundRead(r) ==
  /\ run[r].pc = "idle"
  /\ \E p \in Payments :
       /\ row[p].status # "NONE" /\ CanTransition(row[p].status, "REFUNDED")
       /\ run' = [run EXCEPT ![r] = [pc |-> "refundCommit", pay |-> p,
                                     tx |-> NoTx, seen |-> row[p].status]]
  /\ UNCHANGED <<rowVars, bookVars, sideVars, worldVars, cronVars>>

\* No ledger entry reverses the settlement: accounting does that by hand.
RefundCommit(r) ==
  LET p == run[r].pay
  IN  /\ run[r].pc = "refundCommit"
      /\ WriteRow(p, "REFUNDED", row[p].tx, run[r].seen)
      /\ AppendEvent(p, "COMPLETED", "REFUNDED")
      /\ Goto(r, "announce")
      /\ UNCHANGED <<summed, settled, sideVars, worldVars, cronVars>>

\* webhookQueue.add after the transaction; its failure is only logged.
Announce(x) ==
  LET event == IF x \in Refunds THEN "PAYMENT_REFUNDED" ELSE "PAYMENT_COMPLETED"
  IN  /\ run[x].pc = "announce"
      /\ announced' \in {announced, announced \union {<<run[x].pay, event>>}}
      /\ Finish(x)
      /\ UNCHANGED <<rowVars, bookVars, onChainTx, worldVars, cronVars>>

-----------------------------------------------------------------------------
(* expireStalePendingPayments, the cron of one replica.                    *)

\* Mutant: the comparison with expiresAt is the wrong way round.
MutSweepRead(s) ==
  LET stale == {p \in Payments : IsOpen(p) /\ ~windowOver[p]}
  IN  /\ batch[s] = {} /\ unlogged[s] = {} /\ stale # {}
      /\ batch' = [batch EXCEPT ![s] = {<<p, row[p].status>> : p \in stale}]
      /\ UNCHANGED <<rowVars, bookVars, sideVars, worldVars, run, todo, fetched, unlogged, faults>>

\* findExpiredPending: the whole batch is read before any row is written.
SweepRead(s) ==
  LET stale == {p \in Payments : IsOpen(p) /\ windowOver[p]}
  IN  /\ batch[s] = {} /\ unlogged[s] = {} /\ stale # {}
      /\ batch' = [batch EXCEPT ![s] = {<<p, row[p].status>> : p \in stale}]
      /\ UNCHANGED <<rowVars, bookVars, sideVars, worldVars, run, todo, fetched, unlogged, faults>>

\* transition(EXPIRED), on its own: no transaction joins it to its event.
SweepExpire(s) ==
  \E b \in batch[s] :
    /\ CanTransition(b[2], "EXPIRED")
    /\ WriteRow(b[1], "EXPIRED", row[b[1]].tx, b[2])
    /\ batch' = [batch EXCEPT ![s] = @ \ {b}]
    /\ unlogged' = [unlogged EXCEPT ![s] = @ \union {b}]
    /\ UNCHANGED <<summed, bookVars, sideVars, worldVars, run, todo, fetched, faults>>

SweepLog(s) ==
  \E b \in unlogged[s] :
    /\ AppendEvent(b[1], b[2], "EXPIRED")
    /\ unlogged' = [unlogged EXCEPT ![s] = @ \ {b}]
    /\ UNCHANGED <<rowVars, settled, sideVars, worldVars, run, todo, fetched, batch, faults>>

-----------------------------------------------------------------------------
(* ReconciliationWorker.                                                   *)

\* findAllPending: the open, unexpired intents, read once per run.
ReconRead(r) ==
  LET open == {p \in Payments : IsOpen(p) /\ ~windowOver[p]}
  IN  /\ run[r].pc = "idle" /\ open # {}
      /\ todo' = [todo EXCEPT ![r] = open]
      /\ Goto(r, "scan")
      /\ UNCHANGED <<rowVars, bookVars, sideVars, worldVars, fetched, batch, unlogged, faults>>

\* reconcilePayment goes on to pc "to" with the logs it has of its payment.
GoOn(r, to, found) ==
  /\ run' = [run EXCEPT ![r] = to]
  /\ fetched' = [fetched EXCEPT ![r] = found]

\* getBlockNumber: the head, and with it the blocks [start, head] to ask for.
\* What is in a block is not above the head.
ReconHead(r) ==
  /\ run[r].pc = "scan"
  /\ \E p \in todo[r], start, head \in {t.at : t \in Transfers} :
       /\ \A t \in Transfers : chain[t.tx] \in InBlock => t.at <= head
       /\ todo' = [todo EXCEPT ![r] = @ \ {p}]
       /\ GoOn(r, [pc |-> "fetch", pay |-> p, tx |-> NoTx, seen |-> "NONE"],
               {t \in Transfers : t.to = Wallet[p] /\ t.at \in start .. head})
  /\ UNCHANGED <<rowVars, bookVars, sideVars, worldVars, batch, unlogged, faults>>

\* queryFilter: the logs that are in those blocks now; without any it returns.
ReconFetch(r) ==
  LET found == {t \in fetched[r] : chain[t.tx] \in InBlock}
  IN  /\ run[r].pc = "fetch"
      /\ GoOn(r, IF found = {} THEN Scanning ELSE [run[r] EXCEPT !.pc = "sum"], found)
      /\ UNCHANGED <<rowVars, bookVars, sideVars, worldVars, todo, batch, unlogged, faults>>

\* findTxKeysForPayment: the logs that no blockchain_transactions record links
\* to this payment.
NewLogs(p, found) == {t \in found : onChainTx[t].pay # p}

\* cumulativeUsdc, accumulated log by log.
Value(found) == MapThenSumSet(LAMBDA t : t.value, found)

\* The sum of the new logs decides, the last of them is bound.
ReconSum(r) ==
  LET p   == run[r].pay
      new == NewLogs(p, fetched[r])
  IN  /\ run[r].pc = "sum"
      /\ \/ (new = {} \/ ~Covers(Value(new), p)) /\ GoOn(r, Scanning, {})
         \/ /\ Covers(Value(new), p)
            /\ \E last \in new :
                 /\ \A t \in new : t.at <= last.at
                 /\ GoOn(r, [pc |-> "detecting", pay |-> p, tx |-> last.tx,
                             seen |-> "NONE"], {})
      /\ UNCHANGED <<rowVars, bookVars, sideVars, worldVars, todo, batch, unlogged, faults>>

\* The run is over; the next cron tick starts another one.
ReconEnd(r) ==
  /\ run[r].pc = "scan" /\ todo[r] = {}
  /\ run' = [run EXCEPT ![r] = Idle]
  /\ UNCHANGED <<rowVars, bookVars, sideVars, worldVars, cronVars>>

-----------------------------------------------------------------------------
(* An await throws, or the process dies; what is committed stays.          *)

\* A job is delivered again, an HTTP call is lost.
HandlerFails(x) ==
  /\ faults < MaxFaults /\ run[x].pc \notin {"idle", "queued", "done"}
  /\ faults' = faults + 1
  /\ IF x \in Jobs \union Payments THEN Goto(x, "queued") ELSE Finish(x)
  /\ UNCHANGED <<rowVars, bookVars, sideVars, worldVars, todo, fetched, batch, unlogged>>

\* reconcilePayment throws and the loop goes on, or the whole run is lost.
ReconFails(r) ==
  /\ faults < MaxFaults /\ run[r].pc # "idle"
  /\ faults' = faults + 1
  /\ \/ GoOn(r, Idle, {}) /\ todo' = [todo EXCEPT ![r] = {}]
     \/ run[r].pc # "scan" /\ GoOn(r, Scanning, {}) /\ UNCHANGED todo
     \/ /\ run[r].pc = "scan" /\ UNCHANGED <<run, fetched>>
        /\ \E p \in todo[r] : todo' = [todo EXCEPT ![r] = @ \ {p}]
  /\ UNCHANGED <<rowVars, bookVars, sideVars, worldVars, batch, unlogged>>

SweepFails(s) ==
  /\ faults < MaxFaults /\ batch[s] \union unlogged[s] # {}
  /\ faults' = faults + 1
  /\ batch' = [batch EXCEPT ![s] = {}]
  /\ unlogged' = [unlogged EXCEPT ![s] = {}]
  /\ UNCHANGED <<rowVars, bookVars, sideVars, worldVars, run, todo, fetched>>

-----------------------------------------------------------------------------
ProcessTransfer(j) == TransferSeen(j) \/ MatchTransfer(j) \/ PersistTransfer(j)

Detect(x) ==
  DetectRead(x) \/ DetectCommit(x) \/ DetectConflict(x) \/ EnqueueConfirm(x)

Fail(x) == FailRead(x) \/ FailCommit(x)

PollConfirmation(p) ==
  \/ PollStart(p) \/ PollReceipt(p) \/ PollRecord(p) \/ UpdateRead(p)
  \/ CountCommit(p) \/ SettleCommit(p) \/ PollRecheck(p)

ConfirmManually(r) ==
  \/ ManualRead(r) \/ ManualDupCheck(r) \/ ManualVerify(r)
  \/ ManualCommit(r) \/ ManualConflict(r)

Refund(r) == RefundRead(r) \/ RefundCommit(r)

Sweep(s) == SweepRead(s) \/ SweepExpire(s) \/ SweepLog(s)

Reconcile(r) ==
  ReconRead(r) \/ ReconHead(r) \/ ReconFetch(r) \/ ReconSum(r) \/ ReconEnd(r)

Next ==
  \/ \E p \in Payments : CreateIntent(p) \/ WindowPasses(p)
  \/ \E p \in Payments : PollConfirmation(p) \/ ForgetJob(p)
  \/ \E h \in Hashes : ChainMoves(h)
  \/ \E j \in Jobs : ProcessTransfer(j)
  \/ \E x \in Jobs \union Reconcilers : Detect(x)
  \/ \E x \in Jobs \union Payments : Fail(x)
  \/ \E r \in Requests : ConfirmManually(r)
  \/ \E r \in Refunds : Refund(r)
  \/ \E x \in Payments \union Requests \union Refunds : Announce(x)
  \/ \E s \in Sweepers : Sweep(s) \/ SweepFails(s)
  \/ \E r \in Reconcilers : Reconcile(r) \/ ReconFails(r)
  \/ \E x \in Handlers \ Reconcilers : HandlerFails(x)

Spec == Init /\ [][Next]_vars

-----------------------------------------------------------------------------
(* What the rail promises.                                                 *)

\* One transaction settles a payment and writes its ledger entries, so a row
\* that says COMPLETED or REFUNDED has them (settlePayment, payments.service.ts).
SettledHasLedger ==
  \A p \in Payments : row[p].status \in {"COMPLETED", "REFUNDED"} => settled[p] > 0

\* No two rows are bound to one transaction at the same time, although the
\* check (findByTxHash) and the write are apart.
TxHashUnique ==
  \A p, q \in Payments : p # q /\ row[p].tx = row[q].tx => row[p].tx = NoTx

\* A webhook never tells a merchant of a settlement that rolled back.
AnnouncedIsSettled == \A a \in announced : settled[a[1]] > 0

\* What ever arrived at an address, and whether it pays an intent there.
Arrived(w) == {t \in Transfers : t.to = w /\ t.tx \in included}
Funded(p) == Value(Arrived(Wallet[p])) + Tolerance >= Amount[p]

\* The ledger is credited only for a payment whose address received the amount
\* (less the tolerance) in transactions that were in a block, whichever path
\* settled it: listener, reconciliation or manual confirmation.
SettledIsFunded == \A p \in Payments : settled[p] > 0 => Funded(p)

\* A payment is settled twice, or leaves the settled statuses, only after some
\* handler wrote it from an outdated read.
SettledOnceUnlessRaced ==
  \A p \in Payments : ~raced[p] =>
    /\ settled[p] <= 1
    /\ settled[p] = 1 <=> row[p].status \in {"COMPLETED", "REFUNDED"}

\* Consecutive events share a status, from PENDING to the last one's target.
Linked(events) ==
  /\ events # <<>> => events[1][1] = "PENDING"
  /\ \A i \in 1 .. Len(events) - 1 : events[i][2] = events[i + 1][1]
LastStatus(events) == IF events = <<>> THEN "PENDING" ELSE events[Len(events)][2]

\* The audit trail of a payment explains its row step by step, unless a write
\* raced, the expiry cron, which logs apart from its update, was the writer, or
\* the payment was refunded: a status may stay what it is, so a refund may repeat.
TrailExplainsRow ==
  \A p \in Payments :
    ~raced[p] /\ row[p].status \notin {"NONE", "EXPIRED", "REFUNDED"} =>
      Linked(trail[p]) /\ LastStatus(trail[p]) = row[p].status

\* A row changes along VALID_TRANSITIONS (two of them in a manual confirmation)
\* as long as no handler writes it from an outdated read.
LegalUnlessRaced ==
  [][\A p \in Payments :
       row'[p].status # row[p].status /\ row[p].status # "NONE" /\ ~raced'[p] =>
         \/ CanTransition(row[p].status, row'[p].status)
         \/ row[p].status = "PENDING" /\ row'[p].status = "COMPLETED"]_vars

\* A handler that has a payment in hand has one whose row exists, and the
\* confirmation job of a payment has that payment.
PlacedAt(x) ==
  /\ \/ run[x].pc \in {"idle", "done"}
     \/ x \in Jobs /\ run[x].pc = "queued"
     \/ x \in Reconcilers /\ run[x].pc = "scan"
     \/ run[x].pay \in Payments /\ row[run[x].pay].status # "NONE"
  /\ x \in Payments /\ run[x].pc \notin {"idle", "done"} => run[x].pay = x

\* What a handler that sleeps before its write has seen, by the write it is about
\* to do; what it is about to undo or announce was settled.
DecidedAt(x) ==
  /\ run[x].pc = "detectCommit" => run[x].seen \in {"PENDING", "PARTIAL"}
  /\ run[x].pc = "failCommit" => run[x].seen \in {"PENDING", "PARTIAL", "CONFIRMING"}
  /\ run[x].pc \in {"countCommit", "settleCommit"} => run[x].seen = "CONFIRMING"
  /\ run[x].pc \in {"dupCheck", "verify", "manualCommit"} => run[x].seen = "PENDING"
  /\ run[x].pc = "refundCommit" => run[x].seen \in {"COMPLETED", "REFUNDED"}
  /\ run[x].pc \in {"refundCommit", "announce"} => settled[run[x].pay] > 0

Poised == \A x \in Handlers : PlacedAt(x) /\ DecidedAt(x)

\* A sweep has only rows that exist and that it read open; a scan only rows
\* that exist.
Batched ==
  /\ \A s \in Sweepers : \A b \in batch[s] :
       row[b[1]].status # "NONE" /\ b[2] \in {"PENDING", "PARTIAL"}
  /\ \A r \in Reconcilers : \A p \in todo[r] : row[p].status # "NONE"

\* The inductive invariant of the rail: what every sleeping handler still knows
\* when it writes, which is what makes the promises above survive its write.
Inductive ==
  /\ Poised /\ Batched
  /\ SettledHasLedger /\ TxHashUnique /\ AnnouncedIsSettled
  /\ SettledOnceUnlessRaced

\* What handler x knows of the money at the state r: a job's transfer was in a
\* block and went to its payment's address, and whoever is about to confirm or
\* to settle a payment has seen it paid.
Carries(x, r) ==
  /\ x \in Jobs /\ r.pc # "idle" => TransferOf[x].tx \in included
  /\ x \in Jobs /\ r.pc = "matched" => TransferOf[x].to = Wallet[r.pay]
  /\ r.pc \in {"detecting", "detectCommit", "countCommit", "settleCommit", "manualCommit"}
       => Funded(r.pay)

\* What a reconciliation has in hand went to its payment's address, and what it is
\* about to add up was in a block.
Fetches(r, found) ==
  /\ r.pc \in {"fetch", "sum"} => \A t \in found : t.to = Wallet[r.pay]
  /\ r.pc = "sum" => \A t \in found : t.tx \in included

\* What carries the evidence of the money from the log to the ledger: a payment
\* that is CONFIRMING is funded, whoever wrote that.
Evidence ==
  /\ IsFiniteSet(included) /\ \A h \in Hashes : chain[h] \in InBlock => h \in included
  /\ \A p \in Payments : row[p].status = "CONFIRMING" => Funded(p)
  /\ \A x \in Handlers : Carries(x, run[x])
  /\ \A r \in Reconcilers : Fetches(run[r], fetched[r])

\* What lets a trail explain its row: no event precedes the row, and an expiry
\* that is still to be logged is what the row says, unless a write raced.
Explained ==
  /\ TrailExplainsRow
  /\ \A p \in Payments : row[p].status = "NONE" => trail[p] = <<>>
  /\ \A s \in Sweepers : \A b \in unlogged[s] :
       row[b[1]].status # "NONE" /\ (raced[b[1]] \/ row[b[1]].status = "EXPIRED")

\* The rail implements the lifecycle it documents, outdated writes excepted.
Lifecycle ==
  INSTANCE PaymentLifecycle
    WITH status <- [p \in Payments |-> row[p].status], credits <- settled
ImplementsLifecycle == Lifecycle!LifecycleSpec

\* Fairness: BullMQ keeps delivering queued jobs and node runs every await's
\* continuation; each replica's cron keeps firing.  Clients owe nothing, and a
\* transaction that stays in a block is buried in the end.
Fairness ==
  /\ \A p \in Payments : WF_vars(PollConfirmation(p)) /\ WF_vars(Fail(p))
  /\ \A x \in Jobs : WF_vars(ProcessTransfer(x)) /\ WF_vars(Detect(x)) /\ WF_vars(Fail(x))
  /\ \A x \in Payments \union Requests \union Refunds : WF_vars(Announce(x))
  /\ \A s \in Sweepers : WF_vars(Sweep(s))
  /\ \A h \in Hashes : SF_vars(ChainMoves(h) /\ chain'[h] = "deep")

FairSpec == Spec /\ Fairness

\* An intent nobody paid in time does not stay open: the expiry cron or another
\* handler closes it, even when a sweep dies half way.
OverdueIsClosed ==
  \A p \in Payments : (IsOpen(p) /\ windowOver[p]) ~> ~IsOpen(p)

\* What is settled on the address w for the payments in S, less their tolerance.
Due(w, S) ==
  MapThenSumSet(LAMBDA p : Amount[p] - Tolerance,
                {p \in S : Wallet[p] = w /\ settled[p] > 0})

\* A transfer pays for one payment: what was settled on an address never exceeds
\* what arrived there, although intents share addresses, both listeners report a
\* transfer, a reconciliation reads the logs beside them and the check of a hash
\* and its write are apart.  The payments that a reconciliation confirmed on
\* several transfers together are left out: it takes off only the transfers
\* linked to the same payment (reconciliation.worker.ts), and what it adds up may
\* have paid another.
TransfersCountOnce ==
  \A w \in {Wallet[p] : p \in Payments} :
    Due(w, Payments \ summed) <= Value(Arrived(w))

\* "Collect (txHash:logIndex) keys already linked to this payment so we don't
\* double-count" (reconciliation.worker.ts): the same of every payment.  It does
\* not hold: the keys of the other payments on the address are not collected.
NothingCountsTwice ==
  \A w \in {Wallet[p] : p \in Payments} : Due(w, Payments) <= Value(Arrived(w))

=============================================================================
