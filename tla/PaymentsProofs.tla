--------------------------- MODULE PaymentsProofs ---------------------------
(***************************************************************************)
(* Theorems of Payments for any number of payments, transfers, jobs, calls *)
(* and replicas.  The inductive invariant is TypeOK /\ Inductive.          *)
(***************************************************************************)
EXTENDS Payments, FiniteSetTheorems, WellFoundedInduction, TLAPS

\* No step takes a row or a settlement away, and only the rows of the payments
\* in P are written.
Monotone ==
  /\ \A p \in Payments : row[p].status # "NONE" => row'[p].status # "NONE"
  /\ \A p \in Payments : settled[p] > 0 => settled'[p] > 0

\* Only the handlers in X moved, and each is where the invariant wants it.
OnlyMoved(X) ==
  \A y \in Handlers : IF y \in X THEN PlacedAt(y)' /\ DecidedAt(y)'
                      ELSE run'[y] = run[y]

-----------------------------------------------------------------------------
(* What the actions are built from.                                        *)

LEMMA PoisedStep ==
  ASSUME TypeOK, Poised, NEW X, OnlyMoved(X), Monotone
  PROVE  Poised'
BY DEF TypeOK, Poised, OnlyMoved, Monotone, PlacedAt, DecidedAt

LEMMA BooksKept ==
  ASSUME TypeOK, Inductive, UNCHANGED <<row, raced, settled, announced>>
  PROVE  SettledHasLedger' /\ TxHashUnique' /\ AnnouncedIsSettled'
           /\ SettledOnceUnlessRaced' /\ Monotone
BY DEF Inductive, SettledHasLedger, TxHashUnique, AnnouncedIsSettled,
   SettledOnceUnlessRaced, Monotone

LEMMA BatchKept ==
  ASSUME TypeOK, Inductive, Monotone, UNCHANGED <<batch, todo>>
  PROVE  Batched'
BY DEF TypeOK, Inductive, Batched, Monotone

\* A handler that moves without writing anything the invariant is about.
LEMMA QuietMove ==
  ASSUME TypeOK, Inductive, NEW X, OnlyMoved(X),
         UNCHANGED <<row, raced, settled, announced, batch, todo>>
  PROVE  Inductive'
BY BooksKept, BatchKept, PoisedStep DEF Inductive

LEMMA Resting ==
  /\ Idle \in HandlerState /\ Idle.pc = "idle"
  /\ Done \in HandlerState /\ Done.pc = "done"
  /\ Scanning \in HandlerState /\ Scanning.pc = "scan"
BY DEF Idle, Done, Scanning, HandlerState, HandlerPC, RowStatus

\* What a handler that is about to move can rely on.
LEMMA AtWork ==
  ASSUME TypeOK, Inductive, NEW x \in Handlers
  PROVE  /\ run \in [Handlers -> HandlerState] /\ run[x] \in HandlerState
         /\ row \in [Payments -> [status : RowStatus, tx : Hashes \union {NoTx}]]
         /\ PlacedAt(x) /\ DecidedAt(x)
         /\ run[x].pay \in Payments => row[run[x].pay].status \in RowStatus
BY DEF TypeOK, Inductive, Poised

\* A handler that moves to a state of a handler, or to another step.
LEMMA MoveType ==
  ASSUME TypeOK, NEW x \in Handlers
  PROVE  /\ \A h \in HandlerState : [run EXCEPT ![x] = h] \in [Handlers -> HandlerState]
         /\ \A pc \in HandlerPC : [run EXCEPT ![x].pc = pc] \in [Handlers -> HandlerState]
         /\ \A pc \in HandlerPC, s \in RowStatus :
              [run EXCEPT ![x].pc = pc, ![x].seen = s] \in [Handlers -> HandlerState]
<1>1. run \in [Handlers -> HandlerState] /\ run[x] \in HandlerState
  BY DEF TypeOK
<1>2. \A h \in HandlerState : [run EXCEPT ![x] = h] \in [Handlers -> HandlerState]
  BY <1>1
<1>3. ASSUME NEW pc \in HandlerPC
      PROVE  [run EXCEPT ![x].pc = pc] \in [Handlers -> HandlerState]
  <2>1. [run[x] EXCEPT !.pc = pc] \in HandlerState
    BY <1>1 DEF HandlerState
  <2> QED
    BY <1>1, <2>1
<1>4. ASSUME NEW pc \in HandlerPC, NEW s \in RowStatus
      PROVE  [run EXCEPT ![x].pc = pc, ![x].seen = s] \in [Handlers -> HandlerState]
  <2>1. [run[x] EXCEPT !.pc = pc, !.seen = s] \in HandlerState
    BY <1>1 DEF HandlerState
  <2> QED
    BY <1>1, <2>1
<1> QED
  BY <1>2, <1>3, <1>4

LEMMA QuietType ==
  ASSUME TypeOK, run' \in [Handlers -> HandlerState],
         UNCHANGED <<rowVars, bookVars, sideVars, worldVars, cronVars>>
  PROVE  TypeOK'
BY DEF TypeOK, rowVars, bookVars, sideVars, worldVars, cronVars

-----------------------------------------------------------------------------
(* The writes of a row.                                                    *)

LEMMA RowType ==
  ASSUME TypeOK, NEW p \in Payments, NEW status \in RowStatus,
         NEW h \in Hashes \union {NoTx}, NEW seen, WriteRow(p, status, h, seen)
  PROVE  /\ row' \in [Payments -> [status : RowStatus, tx : Hashes \union {NoTx}]]
         /\ raced' \in [Payments -> BOOLEAN]
         /\ row'[p] = [status |-> status, tx |-> h]
         /\ \A q \in Payments \ {p} : row'[q] = row[q] /\ raced'[q] = raced[q]
         /\ ~raced'[p] => ~raced[p] /\ row[p].status = seen
BY DEF TypeOK, WriteRow

LEMMA TrailType ==
  ASSUME TypeOK, NEW p \in Payments, NEW from \in RowStatus, NEW to \in RowStatus,
         AppendEvent(p, from, to)
  PROVE  trail' \in [Payments -> Seq(RowStatus \X RowStatus)]
BY DEF TypeOK, AppendEvent

\* A write of a status that is not a settlement, decided on one that is not.
LEMMA PlainWrite ==
  ASSUME TypeOK, Inductive, NEW p \in Payments, NEW h \in Hashes \union {NoTx},
         NEW status \in Status \ {"COMPLETED", "REFUNDED"},
         NEW seen \in Status \ {"COMPLETED", "REFUNDED"},
         WriteRow(p, status, h, seen), UNCHANGED <<settled, announced>>
  PROVE  SettledHasLedger' /\ AnnouncedIsSettled' /\ SettledOnceUnlessRaced' /\ Monotone
<1>1. /\ row'[p].status = status /\ status \notin {"NONE", "COMPLETED", "REFUNDED"}
      /\ \A q \in Payments \ {p} : row'[q] = row[q] /\ raced'[q] = raced[q]
      /\ ~raced'[p] => ~raced[p] /\ row[p].status = seen
  BY DEF WriteRow, TypeOK, Status
<1>2. SettledHasLedger' /\ AnnouncedIsSettled' /\ Monotone
  BY <1>1 DEF Inductive, SettledHasLedger, AnnouncedIsSettled, Monotone
<1>3. SettledOnceUnlessRaced'
  BY <1>1 DEF Inductive, SettledOnceUnlessRaced
<1> QED
  BY <1>2, <1>3

\* A settlement, decided on a payment that was not settled.
LEMMA SettleWrite ==
  ASSUME TypeOK, Inductive, NEW p \in Payments, NEW h \in Hashes \union {NoTx},
         NEW seen \in {"PENDING", "CONFIRMING"},
         WriteRow(p, "COMPLETED", h, seen),
         settled' = [settled EXCEPT ![p] = @ + 1], UNCHANGED announced
  PROVE  /\ SettledHasLedger' /\ AnnouncedIsSettled' /\ SettledOnceUnlessRaced' /\ Monotone
         /\ settled' \in [Payments -> Nat] /\ settled'[p] > 0
<1>1. settled \in [Payments -> Nat] /\ announced \in SUBSET (Payments \X {"PAYMENT_COMPLETED", "PAYMENT_REFUNDED"})
  BY DEF TypeOK
<1>2. /\ settled' \in [Payments -> Nat] /\ settled'[p] = settled[p] + 1
      /\ \A q \in Payments \ {p} : settled'[q] = settled[q]
  BY <1>1
<1>3. /\ row'[p].status = "COMPLETED"
      /\ \A q \in Payments \ {p} : row'[q] = row[q] /\ raced'[q] = raced[q]
      /\ ~raced'[p] => ~raced[p] /\ row[p].status = seen
  BY DEF WriteRow, TypeOK
<1>4. Monotone /\ SettledHasLedger'
  BY <1>1, <1>2, <1>3 DEF Inductive, Monotone, SettledHasLedger
<1>5. AnnouncedIsSettled'
  BY <1>1, <1>2 DEF Inductive, AnnouncedIsSettled
<1>6. SettledOnceUnlessRaced'
  <2> SUFFICES ASSUME NEW q \in Payments, ~raced'[q]
               PROVE  /\ settled'[q] <= 1
                      /\ settled'[q] = 1 <=> row'[q].status \in {"COMPLETED", "REFUNDED"}
    BY DEF SettledOnceUnlessRaced
  <2>1. CASE q = p
    <3>1. ~raced[p] /\ row[p].status = seen
      BY <2>1, <1>3
    <3>2. settled[p] = 0
      BY <1>1, <3>1 DEF Inductive, SettledOnceUnlessRaced
    <3> QED
      BY <2>1, <1>3, <3>2, <1>2
  <2>2. CASE q # p
    BY <2>2, <1>2, <1>3 DEF Inductive, SettledOnceUnlessRaced
  <2> QED
    BY <2>1, <2>2
<1> QED
  BY <1>1, <1>2, <1>4, <1>5, <1>6

LEMMA HashKept ==
  ASSUME TypeOK, Inductive, NEW p \in Payments, NEW status \in RowStatus, NEW seen,
         WriteRow(p, status, row[p].tx, seen)
  PROVE  TxHashUnique'
BY DEF TypeOK, Inductive, TxHashUnique, WriteRow

LEMMA HashBound ==
  ASSUME TypeOK, Inductive, NEW p \in Payments, NEW status \in RowStatus, NEW seen,
         NEW h, TxHashFree(p, h), WriteRow(p, status, h, seen)
  PROVE  TxHashUnique'
BY DEF TypeOK, Inductive, TxHashUnique, TxHashFree, WriteRow

-----------------------------------------------------------------------------
(* The steps.                                                              *)

LEMMA DetectStep ==
  ASSUME TypeOK, Inductive, NEW x \in Jobs \union Reconcilers, Detect(x)
  PROVE  TypeOK' /\ Inductive'
<1> USE DEF rowVars, bookVars, sideVars, worldVars, cronVars
<1>0. x \in Handlers
  BY DEF Handlers
<1>1. CASE DetectRead(x)
  <2>1. run[x].pay \in Payments /\ row[run[x].pay].status # "NONE"
    BY <1>0, <1>1, AtWork, DisjointAssumption DEF DetectRead, PlacedAt
  <2>2. \/ Goto(x, "enqueue")
        \/ \E seen \in {"PENDING", "PARTIAL"} :
             run' = [run EXCEPT ![x].pc = "detectCommit", ![x].seen = seen]
    BY <1>1 DEF DetectRead, CanAcceptDeposit
  <2>3. run' \in [Handlers -> HandlerState]
    BY <1>0, <2>2, AtWork DEF Goto, HandlerState, HandlerPC, RowStatus, Status
  <2>4. OnlyMoved({x})
    BY <1>0, <1>1, <2>1, <2>2, AtWork
    DEF DetectRead, Goto, OnlyMoved, PlacedAt, DecidedAt, HandlerState
  <2> QED
    BY <1>1, <2>3, <2>4, QuietMove, QuietType DEF DetectRead
<1>2. CASE DetectCommit(x)
  <2>1. PICK p \in Payments : p = run[x].pay
    BY <1>0, <1>2, AtWork DEF DetectCommit, PlacedAt
  <2>2. /\ run[x].tx \in Hashes \union {NoTx} /\ run[x].seen \in {"PENDING", "PARTIAL"}
        /\ run[x].seen \in Status
    BY <1>0, <1>2, AtWork DEF DetectCommit, DecidedAt, HandlerState, Status
  <2>3. WriteRow(p, "CONFIRMING", run[x].tx, run[x].seen) /\ UNCHANGED <<settled, announced, batch, todo>>
    BY <1>2, <2>1 DEF DetectCommit
  <2>4. /\ SettledHasLedger' /\ AnnouncedIsSettled' /\ SettledOnceUnlessRaced' /\ Monotone
        /\ TxHashUnique'
    BY <1>2, <2>1, <2>2, <2>3, PlainWrite, HashBound DEF DetectCommit, Status, RowStatus
  <2>5. run' \in [Handlers -> HandlerState] /\ OnlyMoved({x})
    BY <1>0, <1>2, <2>1, <2>4, AtWork
    DEF DetectCommit, Goto, OnlyMoved, Monotone, PlacedAt, DecidedAt, HandlerState, HandlerPC
  <2>6. TypeOK'
    <3>1. summed' \subseteq Payments
      BY <1>2, <2>1 DEF DetectCommit, TypeOK
    <3> QED
      BY <1>2, <2>1, <2>2, <2>3, <2>5, <3>1, RowType, TrailType
      DEF DetectCommit, TypeOK, RowStatus, Status
  <2> QED
    BY <2>3, <2>4, <2>5, <2>6, PoisedStep, BatchKept DEF Inductive
<1>3. CASE DetectConflict(x)
  <2>1. run' \in [Handlers -> HandlerState]
    BY <1>0, <1>3, AtWork, Resting DEF DetectConflict, Goto, Finish, HandlerState, HandlerPC
  <2>2. OnlyMoved({x})
    BY <1>0, <1>3, AtWork, Resting, DisjointAssumption
    DEF DetectConflict, Goto, Finish, OnlyMoved, PlacedAt, DecidedAt, HandlerState
  <2> QED
    BY <1>3, <2>1, <2>2, QuietMove, QuietType DEF DetectConflict
<1>4. CASE EnqueueConfirm(x)
  <2>1. run' \in [Handlers -> HandlerState]
    BY <1>0, <1>4, AtWork, Resting
    DEF EnqueueConfirm, AddConfirmJob, PlacedAt, HandlerState, HandlerPC, RowStatus
  <2>2. PICK p \in Payments : p = run[x].pay
    BY <1>0, <1>4, AtWork, DisjointAssumption DEF EnqueueConfirm, PlacedAt
  <2>3. p \in Handlers /\ p # x /\ row[p].status # "NONE"
    BY <1>0, <1>4, <2>2, AtWork, DisjointAssumption DEF EnqueueConfirm, PlacedAt, Handlers
  <2>4. \A y \in Handlers : run'[y] =
          IF y = x THEN IF x \in Jobs THEN Done ELSE Scanning
          ELSE IF y = p /\ run[p].pc = "idle"
          THEN [pc |-> "queued", pay |-> p, tx |-> run[x].tx, seen |-> "NONE"]
          ELSE run[y]
    BY <1>0, <1>4, <2>2, <2>3, AtWork DEF EnqueueConfirm, AddConfirmJob
  <2>5. PlacedAt(x)' /\ DecidedAt(x)'
    BY <1>0, <2>2, <2>3, <2>4, Resting, DisjointAssumption DEF PlacedAt, DecidedAt
  <2>6. PlacedAt(p)' /\ DecidedAt(p)'
    <3>1. PlacedAt(p) /\ DecidedAt(p)
      BY <2>2, <2>3, AtWork
    <3> QED
      BY <1>4, <2>2, <2>3, <2>4, <3>1, DisjointAssumption DEF EnqueueConfirm, PlacedAt, DecidedAt
  <2>7. OnlyMoved({x, p})
    BY <2>3, <2>4, <2>5, <2>6 DEF OnlyMoved
  <2> QED
    BY <1>4, <2>1, <2>7, QuietMove, QuietType DEF EnqueueConfirm
<1> QED
  BY <1>1, <1>2, <1>3, <1>4 DEF Detect

LEMMA FailStep ==
  ASSUME TypeOK, Inductive, NEW x \in Jobs \union Payments, Fail(x)
  PROVE  TypeOK' /\ Inductive'
<1> USE DEF rowVars, bookVars, sideVars, worldVars, cronVars
<1>0. x \in Handlers
  BY DEF Handlers
<1>1. CASE FailRead(x)
  <2>1. run' \in [Handlers -> HandlerState]
    <3>1. PICK p \in Payments : p = run[x].pay
      BY <1>0, <1>1, AtWork DEF FailRead, PlacedAt
    <3>2. row[p].status \in RowStatus /\ "failCommit" \in HandlerPC
      BY <1>0, <3>1, AtWork DEF HandlerPC
    <3> QED
      BY <1>0, <1>1, <3>1, <3>2, MoveType, Resting DEF FailRead, Finish
  <2>2. OnlyMoved({x})
    BY <1>0, <1>1, AtWork, Resting
    DEF FailRead, Goto, Finish, OnlyMoved, PlacedAt, DecidedAt, IsTerminal,
        TerminalStates, RowStatus, Status, HandlerState
  <2> QED
    BY <1>1, <2>1, <2>2, QuietMove, QuietType DEF FailRead
<1>2. CASE FailCommit(x)
  <2>1. PICK p \in Payments : p = run[x].pay
    BY <1>0, <1>2, AtWork DEF FailCommit, PlacedAt
  <2>2. /\ row[p].tx \in Hashes \union {NoTx}
        /\ run[x].seen \in {"PENDING", "PARTIAL", "CONFIRMING"} /\ run[x].seen \in Status
    BY <1>0, <1>2, AtWork DEF FailCommit, DecidedAt, Status
  <2>3. WriteRow(p, "FAILED", row[p].tx, run[x].seen) /\ UNCHANGED <<settled, announced, batch, todo>>
    BY <1>2, <2>1 DEF FailCommit
  <2>4. /\ SettledHasLedger' /\ AnnouncedIsSettled' /\ SettledOnceUnlessRaced' /\ Monotone
        /\ TxHashUnique'
    BY <2>2, <2>3, PlainWrite, HashKept DEF Status, RowStatus
  <2>5. run' \in [Handlers -> HandlerState] /\ OnlyMoved({x})
    BY <1>0, <1>2, AtWork, Resting DEF FailCommit, Finish, OnlyMoved, PlacedAt, DecidedAt
  <2>6. TypeOK'
    BY <1>2, <2>1, <2>2, <2>3, <2>5, RowType, TrailType DEF FailCommit, TypeOK, RowStatus, Status
  <2> QED
    BY <2>3, <2>4, <2>5, <2>6, PoisedStep, BatchKept DEF Inductive
<1> QED
  BY <1>1, <1>2 DEF Fail

LEMMA RecordType ==
  ASSUME TypeOK, NEW h, NEW status \in {"SUBMITTED", "CONFIRMED", "FAILED"},
         RecordStatus(h, status)
  PROVE  onChainTx' \in [Transfers -> [pay : Payments \union {NoPayment},
                            status : {"NONE", "SUBMITTED", "CONFIRMED", "FAILED"}]]
BY DEF TypeOK, RecordStatus

LEMMA PollStep ==
  ASSUME TypeOK, Inductive, NEW p \in Payments, PollConfirmation(p) \/ ForgetJob(p)
  PROVE  TypeOK' /\ Inductive'
<1> USE DEF rowVars, bookVars, sideVars, worldVars, cronVars
<1>0. p \in Handlers /\ p \notin Jobs
  BY DisjointAssumption DEF Handlers
<1>1. ASSUME PollStart(p) \/ ForgetJob(p) \/ PollRecheck(p)
      PROVE  TypeOK' /\ Inductive'
  <2>1. run' \in [Handlers -> HandlerState]
    <3>1. "polling" \in HandlerPC
      BY DEF HandlerPC
    <3>2. CASE PollStart(p) \/ ForgetJob(p)
      BY <1>0, <3>1, <3>2, MoveType, Resting DEF PollStart, ForgetJob, Goto, Finish
    <3>3. CASE PollRecheck(p)
      <4>1. run' = [run EXCEPT ![p] = Done]
        BY <1>0, <3>3, AtWork DEF PollRecheck, AddConfirmJob
      <4> QED
        BY <1>0, <4>1, MoveType, Resting
    <3> QED
      BY <1>1, <3>2, <3>3
  <2>2. OnlyMoved({p})
    BY <1>0, <1>1, AtWork, Resting
    DEF PollStart, ForgetJob, PollRecheck, AddConfirmJob, Goto, Finish, OnlyMoved,
        PlacedAt, DecidedAt, HandlerState
  <2> QED
    BY <1>1, <2>1, <2>2, QuietMove, QuietType DEF PollStart, ForgetJob, PollRecheck
<1>6. CASE UpdateRead(p)
  <2>0. \/ Finish(p) \/ Goto(p, "recheck")
        \/ \E pc \in {"countCommit", "settleCommit"} :
             run' = [run EXCEPT ![p].pc = pc, ![p].seen = "CONFIRMING"]
    BY <1>6 DEF UpdateRead
  <2>1. run' \in [Handlers -> HandlerState]
    BY <1>0, <2>0, AtWork, Resting
    DEF Goto, Finish, HandlerState, HandlerPC, RowStatus, Status
  <2>2. OnlyMoved({p})
    BY <1>0, <1>6, AtWork, Resting
    DEF UpdateRead, Goto, Finish, OnlyMoved, PlacedAt, DecidedAt, HandlerState
  <2> QED
    BY <1>6, <2>1, <2>2, QuietMove, QuietType DEF UpdateRead
<1>2. CASE PollReceipt(p)
  <2>1. \E to \in {"recheck", "recordFailed", "recordShallow", "recordDeep"} : Goto(p, to)
    BY <1>2 DEF PollReceipt
  <2>2. run' \in [Handlers -> HandlerState]
    BY <1>0, <2>1, AtWork DEF Goto, HandlerState, HandlerPC
  <2>3. OnlyMoved({p})
    BY <1>0, <1>2, <2>1, AtWork
    DEF PollReceipt, Goto, OnlyMoved, PlacedAt, DecidedAt, HandlerState
  <2> QED
    BY <1>2, <2>2, <2>3, QuietMove, QuietType DEF PollReceipt
<1>3. CASE PollRecord(p)
  <2>1. run' \in [Handlers -> HandlerState] /\ OnlyMoved({p})
    <3>1. \E to \in {"failing", "countRead", "settleRead"} : Goto(p, to)
      BY <1>3, Zenon DEF PollRecord
    <3>2. run' \in [Handlers -> HandlerState]
      BY <1>0, <3>1, AtWork DEF Goto, HandlerState, HandlerPC
    <3>3. run[p].pc \in {"recordFailed", "recordShallow", "recordDeep"}
      BY <1>3 DEF PollRecord
    <3>4. run[p].pay = p /\ row[p].status # "NONE"
      BY <1>0, <3>3, AtWork DEF PlacedAt
    <3>5. UNCHANGED row
      BY <1>3 DEF PollRecord
    <3>6. /\ run'[p].pc \in {"failing", "countRead", "settleRead"} /\ run'[p].pay = p
          /\ \A y \in Handlers \ {p} : run'[y] = run[y]
      BY <1>0, <3>1, <3>4, AtWork DEF Goto, HandlerState
    <3>7. OnlyMoved({p})
      BY <1>0, <3>4, <3>5, <3>6 DEF OnlyMoved, PlacedAt, DecidedAt
    <3> QED
      BY <3>2, <3>7
  <2>2. onChainTx' \in [Transfers -> [pay : Payments \union {NoPayment},
                          status : {"NONE", "SUBMITTED", "CONFIRMED", "FAILED"}]]
    BY <1>3, RecordType DEF PollRecord
  <2> QED
    BY <1>3, <2>1, <2>2, QuietMove DEF PollRecord, TypeOK
<1>4. CASE CountCommit(p)
  <2>1. row[p].tx \in Hashes \union {NoTx} /\ run[p].seen = "CONFIRMING"
    BY <1>0, <1>4, AtWork DEF CountCommit, DecidedAt
  <2>2. WriteRow(p, "CONFIRMING", row[p].tx, "CONFIRMING") /\ UNCHANGED <<settled, announced, batch, todo>>
    BY <1>4, <2>1 DEF CountCommit
  <2>3. /\ SettledHasLedger' /\ AnnouncedIsSettled' /\ SettledOnceUnlessRaced' /\ Monotone
        /\ TxHashUnique'
    BY <2>1, <2>2, PlainWrite, HashKept DEF Status, RowStatus
  <2>4. run' \in [Handlers -> HandlerState] /\ OnlyMoved({p})
    BY <1>0, <1>4, <2>3, AtWork
    DEF CountCommit, Goto, OnlyMoved, Monotone, PlacedAt, DecidedAt, HandlerState, HandlerPC
  <2>5. TypeOK'
    BY <1>4, <2>1, <2>2, <2>4, RowType DEF CountCommit, TypeOK, RowStatus, Status
  <2> QED
    BY <2>2, <2>3, <2>4, <2>5, PoisedStep, BatchKept DEF Inductive
<1>5. CASE SettleCommit(p)
  <2>1. row[p].tx \in Hashes \union {NoTx} /\ run[p].seen = "CONFIRMING" /\ run[p].pay = p
    BY <1>0, <1>5, AtWork DEF SettleCommit, PlacedAt, DecidedAt
  <2>2. /\ WriteRow(p, "COMPLETED", row[p].tx, "CONFIRMING")
        /\ settled' = [settled EXCEPT ![p] = @ + 1] /\ UNCHANGED <<announced, batch, todo>>
    BY <1>5, <2>1 DEF SettleCommit
  <2>3. /\ SettledHasLedger' /\ AnnouncedIsSettled' /\ SettledOnceUnlessRaced' /\ Monotone
        /\ settled' \in [Payments -> Nat] /\ settled'[p] > 0
    BY <2>1, <2>2, SettleWrite
  <2>4. TxHashUnique'
    BY <2>2, HashKept DEF Status, RowStatus
  <2>5. run' \in [Handlers -> HandlerState] /\ OnlyMoved({p})
    BY <1>0, <1>5, <2>1, <2>3, AtWork
    DEF SettleCommit, Goto, OnlyMoved, Monotone, PlacedAt, DecidedAt, HandlerState, HandlerPC
  <2>6. TypeOK'
    BY <1>5, <2>1, <2>2, <2>3, <2>5, RowType, TrailType DEF SettleCommit, TypeOK, RowStatus, Status
  <2> QED
    BY <2>2, <2>3, <2>4, <2>5, <2>6, PoisedStep, BatchKept DEF Inductive
<1> QED
  BY <1>1, <1>2, <1>3, <1>4, <1>5, <1>6 DEF PollConfirmation

LEMMA TransferStep ==
  ASSUME TypeOK, Inductive, NEW j \in Jobs, ProcessTransfer(j)
  PROVE  TypeOK' /\ Inductive'
<1> USE DEF rowVars, bookVars, sideVars, worldVars, cronVars
<1>0. j \in Handlers /\ j \notin Payments /\ TransferOf[j] \in Transfers /\ TransferOf[j].tx \in Hashes
  BY DisjointAssumption, TransferAssumption DEF Handlers
<1>1. CASE TransferSeen(j)
  <2>1. run' \in [Handlers -> HandlerState] /\ OnlyMoved({j})
    BY <1>0, <1>1, AtWork
    DEF TransferSeen, Goto, OnlyMoved, PlacedAt, DecidedAt, HandlerState, HandlerPC
  <2> QED
    BY <1>1, <2>1, QuietMove, QuietType DEF TransferSeen
<1>2. CASE MatchTransfer(j)
  <2>1. \/ Finish(j)
        \/ \E p \in Payments :
             /\ row[p].status \in {"PENDING", "PARTIAL"}
             /\ run' = [run EXCEPT ![j] = [pc |-> "matched", pay |-> p,
                          tx |-> TransferOf[j].tx, seen |-> row[p].status]]
    BY <1>2 DEF MatchTransfer, IsOpen, CanAcceptDeposit
  <2>2. run' \in [Handlers -> HandlerState]
    BY <1>0, <2>1, AtWork, Resting DEF Finish, HandlerState, HandlerPC, RowStatus, Status
  <2>3. OnlyMoved({j})
    BY <1>0, <1>2, <2>1, AtWork, Resting
    DEF MatchTransfer, Finish, OnlyMoved, PlacedAt, DecidedAt
  <2> QED
    BY <1>2, <2>2, <2>3, QuietMove, QuietType DEF MatchTransfer
<1>3. CASE PersistTransfer(j)
  <2>1. \E to \in {"detecting", "failing"} : Goto(j, to)
    BY <1>3 DEF PersistTransfer
  <2>2. run' \in [Handlers -> HandlerState]
    BY <1>0, <2>1, AtWork DEF Goto, HandlerState, HandlerPC
  <2>3. OnlyMoved({j})
    BY <1>0, <1>3, <2>1, AtWork
    DEF PersistTransfer, Goto, OnlyMoved, PlacedAt, DecidedAt, HandlerState
  <2>4. onChainTx' \in [Transfers -> [pay : Payments \union {NoPayment},
                          status : {"NONE", "SUBMITTED", "CONFIRMED", "FAILED"}]]
    <3>1. run[j].pay \in Payments
      BY <1>0, <1>3, AtWork DEF PersistTransfer, PlacedAt
    <3> QED
      BY <1>0, <1>3, <3>1 DEF PersistTransfer, TypeOK
  <2> QED
    BY <1>3, <2>2, <2>3, <2>4, QuietMove DEF PersistTransfer, TypeOK
<1> QED
  BY <1>1, <1>2, <1>3 DEF ProcessTransfer

LEMMA ManualStep ==
  ASSUME TypeOK, Inductive, NEW r \in Requests, ConfirmManually(r)
  PROVE  TypeOK' /\ Inductive'
<1> USE DEF rowVars, bookVars, sideVars, worldVars, cronVars
<1>0. r \in Handlers /\ r \notin Payments
  BY DisjointAssumption DEF Handlers
<1>1. CASE ManualRead(r)
  <2>1. PICK p \in Payments, h \in Hashes :
          /\ row[p].status = "PENDING"
          /\ run' = [run EXCEPT ![r] = [pc |-> "dupCheck", pay |-> p, tx |-> h,
                                        seen |-> "PENDING"]]
    BY <1>1 DEF ManualRead
  <2>2. run' \in [Handlers -> HandlerState]
    BY <1>0, <2>1, AtWork DEF HandlerState, HandlerPC, RowStatus, Status
  <2>3. OnlyMoved({r})
    BY <1>0, <1>1, <2>1, AtWork DEF ManualRead, OnlyMoved, PlacedAt, DecidedAt
  <2> QED
    BY <1>1, <2>2, <2>3, QuietMove, QuietType DEF ManualRead
<1>2. CASE ManualDupCheck(r) \/ ManualVerify(r) \/ ManualConflict(r)
  <2>1. \/ Finish(r)
        \/ run[r].pc = "dupCheck" /\ Goto(r, "verify")
        \/ run[r].pc = "verify" /\ Goto(r, "manualCommit")
    BY <1>2 DEF ManualDupCheck, ManualVerify, ManualConflict
  <2>2. run' \in [Handlers -> HandlerState]
    BY <1>0, <2>1, AtWork, Resting DEF Finish, Goto, HandlerState, HandlerPC
  <2>3. OnlyMoved({r})
    BY <1>0, <1>2, <2>1, AtWork, Resting
    DEF ManualDupCheck, ManualVerify, ManualConflict, Finish, Goto, OnlyMoved,
        PlacedAt, DecidedAt, HandlerState
  <2> QED
    BY <1>2, <2>2, <2>3, QuietMove, QuietType
    DEF ManualDupCheck, ManualVerify, ManualConflict
<1>3. CASE ManualCommit(r)
  <2>1. PICK p \in Payments : p = run[r].pay
    BY <1>0, <1>3, AtWork DEF ManualCommit, PlacedAt
  <2>2. run[r].tx \in Hashes \union {NoTx} /\ run[r].seen = "PENDING"
    BY <1>0, <1>3, AtWork DEF ManualCommit, DecidedAt, HandlerState
  <2>3. /\ WriteRow(p, "COMPLETED", run[r].tx, "PENDING") /\ TxHashFree(p, run[r].tx)
        /\ settled' = [settled EXCEPT ![p] = @ + 1] /\ UNCHANGED <<announced, batch, todo>>
    BY <1>3, <2>1, <2>2 DEF ManualCommit
  <2>4. /\ SettledHasLedger' /\ AnnouncedIsSettled' /\ SettledOnceUnlessRaced' /\ Monotone
        /\ settled' \in [Payments -> Nat] /\ settled'[p] > 0
    BY <2>2, <2>3, SettleWrite
  <2>5. TxHashUnique'
    BY <2>3, HashBound DEF Status, RowStatus
  <2>6. run' \in [Handlers -> HandlerState] /\ OnlyMoved({r})
    BY <1>0, <1>3, <2>1, <2>4, AtWork
    DEF ManualCommit, Goto, OnlyMoved, Monotone, PlacedAt, DecidedAt, HandlerState, HandlerPC
  <2>7. trail' \in [Payments -> Seq(RowStatus \X RowStatus)]
    BY <1>3, <2>1 DEF ManualCommit, TypeOK, RowStatus, Status
  <2>8. TypeOK'
    BY <1>3, <2>1, <2>2, <2>3, <2>4, <2>6, <2>7, RowType DEF ManualCommit, TypeOK, RowStatus, Status
  <2> QED
    BY <2>3, <2>4, <2>5, <2>6, <2>8, PoisedStep, BatchKept DEF Inductive
<1> QED
  BY <1>1, <1>2, <1>3 DEF ConfirmManually

LEMMA RefundStep ==
  ASSUME TypeOK, Inductive, NEW r \in Refunds, Refund(r)
  PROVE  TypeOK' /\ Inductive'
<1> USE DEF rowVars, bookVars, sideVars, worldVars, cronVars
<1>0. r \in Handlers /\ r \notin Payments
  BY DisjointAssumption DEF Handlers
<1>1. CASE RefundRead(r)
  <2>1. PICK p \in Payments :
          /\ row[p].status \in {"COMPLETED", "REFUNDED"}
          /\ run' = [run EXCEPT ![r] = [pc |-> "refundCommit", pay |-> p, tx |-> NoTx,
                                        seen |-> row[p].status]]
    BY <1>1 DEF RefundRead, CanTransition, ValidTransitions
  <2>2. run' \in [Handlers -> HandlerState]
    BY <1>0, <2>1, AtWork DEF HandlerState, HandlerPC, RowStatus, Status
  <2>3. settled[p] > 0
    BY <2>1 DEF Inductive, SettledHasLedger
  <2>4. OnlyMoved({r})
    BY <1>0, <1>1, <2>1, <2>3, AtWork DEF RefundRead, OnlyMoved, PlacedAt, DecidedAt
  <2> QED
    BY <1>1, <2>2, <2>4, QuietMove, QuietType DEF RefundRead
<1>2. CASE RefundCommit(r)
  <2>1. PICK p \in Payments : p = run[r].pay
    BY <1>0, <1>2, AtWork DEF RefundCommit, PlacedAt
  <2>2. /\ row[p].tx \in Hashes \union {NoTx} /\ row[p].status # "NONE"
        /\ run[r].seen \in {"COMPLETED", "REFUNDED"} /\ settled[p] > 0
    BY <1>0, <1>2, <2>1, AtWork DEF RefundCommit, PlacedAt, DecidedAt
  <2>3. WriteRow(p, "REFUNDED", row[p].tx, run[r].seen) /\ UNCHANGED <<settled, announced, batch, todo>>
    BY <1>2, <2>1 DEF RefundCommit
  <2>4. /\ row'[p].status = "REFUNDED"
        /\ \A q \in Payments \ {p} : row'[q] = row[q] /\ raced'[q] = raced[q]
        /\ ~raced'[p] => ~raced[p] /\ row[p].status = run[r].seen
    BY <2>3 DEF WriteRow, TypeOK
  <2>5. SettledHasLedger' /\ AnnouncedIsSettled' /\ Monotone
    BY <2>2, <2>3, <2>4 DEF Inductive, SettledHasLedger, AnnouncedIsSettled, Monotone
  <2>6. SettledOnceUnlessRaced'
    BY <2>2, <2>3, <2>4 DEF Inductive, SettledOnceUnlessRaced
  <2>7. TxHashUnique'
    BY <2>3, HashKept DEF Status, RowStatus
  <2>8. run' \in [Handlers -> HandlerState] /\ OnlyMoved({r})
    BY <1>0, <1>2, <2>1, <2>2, <2>5, AtWork
    DEF RefundCommit, Goto, OnlyMoved, Monotone, PlacedAt, DecidedAt, HandlerState, HandlerPC
  <2>9. TypeOK'
    BY <1>2, <2>1, <2>2, <2>3, <2>8, RowType, TrailType DEF RefundCommit, TypeOK, RowStatus, Status
  <2> QED
    BY <2>3, <2>5, <2>6, <2>7, <2>8, <2>9, PoisedStep, BatchKept DEF Inductive
<1> QED
  BY <1>1, <1>2 DEF Refund

LEMMA AnnounceStep ==
  ASSUME TypeOK, Inductive, NEW x \in Payments \union Requests \union Refunds, Announce(x)
  PROVE  TypeOK' /\ Inductive'
<1> USE DEF rowVars, bookVars, sideVars, worldVars, cronVars
<1>0. x \in Handlers
  BY DEF Handlers
<1>1. run[x].pay \in Payments /\ settled[run[x].pay] > 0
  BY <1>0, AtWork DEF Announce, PlacedAt, DecidedAt
<1>2. run' \in [Handlers -> HandlerState] /\ OnlyMoved({x})
  BY <1>0, AtWork, Resting DEF Announce, Finish, OnlyMoved, PlacedAt, DecidedAt
<1>3. TypeOK'
  BY <1>1, <1>2 DEF Announce, TypeOK
<1>4. AnnouncedIsSettled'
  BY <1>1 DEF Announce, Inductive, AnnouncedIsSettled
<1>5. Monotone /\ SettledHasLedger' /\ TxHashUnique' /\ SettledOnceUnlessRaced'
  BY DEF Announce, Inductive, Monotone, SettledHasLedger, TxHashUnique, SettledOnceUnlessRaced
<1> QED
  BY <1>2, <1>3, <1>4, <1>5, PoisedStep, BatchKept DEF Inductive, Announce

LEMMA SweepStep ==
  ASSUME TypeOK, Inductive, NEW s \in Sweepers, Sweep(s) \/ SweepFails(s)
  PROVE  TypeOK' /\ Inductive'
<1> USE DEF rowVars, bookVars, sideVars, worldVars, cronVars
<1>0. /\ batch \in [Sweepers -> SUBSET (Payments \X RowStatus)]
      /\ unlogged \in [Sweepers -> SUBSET (Payments \X RowStatus)]
  BY DEF TypeOK
<1>1. CASE SweepRead(s)
  <2>1. \A p \in Payments : IsOpen(p) => row[p].status \in {"PENDING", "PARTIAL"}
    BY DEF IsOpen, CanAcceptDeposit
  <2>2. /\ batch' \in [Sweepers -> SUBSET (Payments \X RowStatus)] /\ Batched'
    BY <1>0, <1>1, <2>1 DEF SweepRead, TypeOK, Inductive, Batched
  <2>3. OnlyMoved({}) /\ TypeOK'
    BY <1>1, <2>2 DEF SweepRead, OnlyMoved, TypeOK
  <2> QED
    BY <1>1, <2>2, <2>3, BooksKept, PoisedStep DEF SweepRead, Inductive
<1>2. CASE SweepExpire(s)
  <2>1. PICK b \in batch[s] :
          /\ WriteRow(b[1], "EXPIRED", row[b[1]].tx, b[2])
          /\ batch' = [batch EXCEPT ![s] = @ \ {b}]
          /\ unlogged' = [unlogged EXCEPT ![s] = @ \union {b}]
    BY <1>2 DEF SweepExpire
  <2>2. PICK p \in Payments : p = b[1] /\ b \in Payments \X RowStatus
    BY <1>0, <2>1
  <2>3. b[2] \in {"PENDING", "PARTIAL"} /\ b[2] \in Status /\ row[p].tx \in Hashes \union {NoTx}
    BY <2>1, <2>2 DEF Inductive, Batched, Status, TypeOK
  <2>4. /\ SettledHasLedger' /\ AnnouncedIsSettled' /\ SettledOnceUnlessRaced' /\ Monotone
        /\ TxHashUnique'
    BY <1>2, <2>1, <2>2, <2>3, PlainWrite, HashKept DEF SweepExpire, Status, RowStatus
  <2>5. Batched'
    <3>1. \A t \in Sweepers : batch'[t] \in SUBSET batch[t]
      BY <1>0, <2>1
    <3>2. \A t \in Sweepers : \A c \in batch'[t] : c[1] \in Payments /\ c \in batch[t]
      BY <1>0, <3>1
    <3>3. UNCHANGED todo /\ todo \in [Reconcilers -> SUBSET Payments]
      BY <1>2 DEF SweepExpire, TypeOK
    <3> QED
      BY <2>4, <3>2, <3>3 DEF Inductive, Batched, Monotone
  <2>6. OnlyMoved({})
    BY <1>2 DEF SweepExpire, OnlyMoved
  <2>7. /\ batch' \in [Sweepers -> SUBSET (Payments \X RowStatus)]
        /\ unlogged' \in [Sweepers -> SUBSET (Payments \X RowStatus)]
    BY <1>0, <2>1, <2>2
  <2>8. /\ row' \in [Payments -> [status : RowStatus, tx : Hashes \union {NoTx}]]
        /\ raced' \in [Payments -> BOOLEAN]
    BY <2>1, <2>2, <2>3, RowType DEF RowStatus, Status
  <2>9. TypeOK'
    BY <1>2, <2>7, <2>8 DEF SweepExpire, TypeOK
  <2> QED
    BY <2>4, <2>5, <2>6, <2>9, PoisedStep DEF Inductive
<1>3. CASE SweepLog(s)
  <2>1. PICK b \in unlogged[s] :
          AppendEvent(b[1], b[2], "EXPIRED") /\ unlogged' = [unlogged EXCEPT ![s] = @ \ {b}]
    BY <1>3 DEF SweepLog
  <2>2. b[1] \in Payments /\ b[2] \in RowStatus
    BY <1>0, <2>1
  <2>3. TypeOK'
    BY <1>0, <1>3, <2>1, <2>2, TrailType DEF SweepLog, TypeOK, RowStatus, Status
  <2>4. OnlyMoved({})
    BY <1>3 DEF SweepLog, OnlyMoved
  <2> QED
    BY <1>3, <2>3, <2>4, QuietMove DEF SweepLog
<1>4. CASE SweepFails(s)
  <2>1. /\ faults' \in 0 .. MaxFaults
        /\ batch' \in [Sweepers -> SUBSET (Payments \X RowStatus)]
        /\ unlogged' \in [Sweepers -> SUBSET (Payments \X RowStatus)]
    BY <1>0, <1>4, FaultAssumption DEF SweepFails, TypeOK
  <2>2. OnlyMoved({}) /\ TypeOK' /\ Batched'
    BY <1>0, <1>4, <2>1 DEF SweepFails, OnlyMoved, TypeOK, Inductive, Batched
  <2> QED
    BY <1>4, <2>2, BooksKept, PoisedStep DEF SweepFails, Inductive
<1> QED
  BY <1>1, <1>2, <1>3, <1>4 DEF Sweep

LEMMA ReconStep ==
  ASSUME TypeOK, Inductive, NEW r \in Reconcilers, Reconcile(r) \/ ReconFails(r)
  PROVE  TypeOK' /\ Inductive'
<1> USE DEF rowVars, bookVars, sideVars, worldVars, cronVars
<1>0. r \in Handlers /\ r \notin Payments /\ r \notin Jobs
  BY DisjointAssumption DEF Handlers
<1>1. CASE ReconRead(r)
  <2>1. run' \in [Handlers -> HandlerState] /\ OnlyMoved({r})
    BY <1>0, <1>1, AtWork
    DEF ReconRead, Goto, OnlyMoved, PlacedAt, DecidedAt, HandlerState, HandlerPC
  <2>2. TypeOK'
    BY <1>1, <2>1 DEF ReconRead, TypeOK
  <2>3. Batched'
    BY <1>1 DEF ReconRead, IsOpen, CanAcceptDeposit, Inductive, Batched, TypeOK
  <2> QED
    BY <1>1, <2>1, <2>2, <2>3, BooksKept, PoisedStep DEF ReconRead, Inductive
<1>2. CASE ReconHead(r)
  <2>1. PICK p \in todo[r], F \in SUBSET Transfers :
          /\ todo' = [todo EXCEPT ![r] = @ \ {p}]
          /\ GoOn(r, [pc |-> "fetch", pay |-> p, tx |-> NoTx, seen |-> "NONE"], F)
    BY <1>2 DEF ReconHead
  <2>2. p \in Payments /\ row[p].status # "NONE"
    BY <2>1 DEF TypeOK, Inductive, Batched
  <2>3. run' \in [Handlers -> HandlerState] /\ fetched' \in [Reconcilers -> SUBSET Transfers]
    BY <1>0, <2>1, <2>2, AtWork DEF GoOn, HandlerState, HandlerPC, RowStatus, TypeOK
  <2>4. OnlyMoved({r})
    BY <1>0, <1>2, <2>1, <2>2, AtWork DEF ReconHead, GoOn, OnlyMoved, PlacedAt, DecidedAt
  <2>5. todo' \in [Reconcilers -> SUBSET Payments]
    BY <2>1 DEF TypeOK
  <2>6. Batched'
    BY <1>2, <2>1 DEF ReconHead, Inductive, Batched, TypeOK
  <2>7. TypeOK'
    BY <1>2, <2>3, <2>5 DEF ReconHead, TypeOK
  <2> QED
    BY <1>2, <2>4, <2>6, <2>7, BooksKept, PoisedStep DEF ReconHead, Inductive
<1>5. CASE ReconFetch(r) \/ ReconSum(r)
  <2>1. PICK p \in Payments : p = run[r].pay /\ row[p].status # "NONE"
    BY <1>0, <1>5, AtWork DEF ReconFetch, ReconSum, PlacedAt
  <2>2. PICK to \in {Scanning, [run[r] EXCEPT !.pc = "sum"]}
                    \cup {[pc |-> "detecting", pay |-> p, tx |-> h, seen |-> "NONE"] : h \in Hashes},
             F \in SUBSET Transfers : GoOn(r, to, F)
    BY <1>5, <2>1, TransferAssumption DEF ReconFetch, ReconSum, NewLogs, TypeOK
  <2>3. to \in HandlerState /\ (to = Scanning \/ (to.pay = p /\ to.pc \in {"sum", "detecting"}))
    <3>1. {"sum", "detecting"} \subseteq HandlerPC /\ "NONE" \in RowStatus
      BY DEF HandlerPC, RowStatus
    <3>2. CASE to = Scanning
      BY <3>2, Resting
    <3>3. CASE to = [run[r] EXCEPT !.pc = "sum"]
      BY <1>0, <2>1, <3>1, <3>3, AtWork DEF HandlerState
    <3>4. CASE \E h \in Hashes : to = [pc |-> "detecting", pay |-> p, tx |-> h, seen |-> "NONE"]
      BY <2>1, <3>1, <3>4 DEF HandlerState
    <3> QED
      BY <2>2, <3>2, <3>3, <3>4
  <2>4. run' \in [Handlers -> HandlerState] /\ fetched' \in [Reconcilers -> SUBSET Transfers]
    BY <1>0, <2>2, <2>3, AtWork DEF GoOn, TypeOK
  <2>5. OnlyMoved({r})
    <3>1. \A y \in Handlers : run'[y] = IF y = r THEN to ELSE run[y]
      BY <1>0, <2>2, AtWork DEF GoOn
    <3>2. UNCHANGED row
      BY <1>5 DEF ReconFetch, ReconSum
    <3> QED
      BY <1>0, <2>1, <2>3, <3>1, <3>2, Resting DEF OnlyMoved, PlacedAt, DecidedAt
  <2>6. TypeOK'
    BY <1>5, <2>4 DEF ReconFetch, ReconSum, TypeOK
  <2> QED
    BY <1>5, <2>5, <2>6, QuietMove DEF ReconFetch, ReconSum
<1>3. CASE ReconEnd(r)
  <2>1. run' \in [Handlers -> HandlerState] /\ OnlyMoved({r})
    BY <1>0, <1>3, AtWork, Resting DEF ReconEnd, OnlyMoved, PlacedAt, DecidedAt
  <2> QED
    BY <1>3, <2>1, QuietMove, QuietType DEF ReconEnd
<1>4. CASE ReconFails(r)
  <2>1. run' \in [Handlers -> HandlerState] /\ OnlyMoved({r})
    BY <1>0, <1>4, AtWork, Resting DEF ReconFails, GoOn, OnlyMoved, PlacedAt, DecidedAt
  <2>2. /\ todo' \in [Reconcilers -> SUBSET Payments] /\ faults' \in 0 .. MaxFaults
        /\ fetched' \in [Reconcilers -> SUBSET Transfers]
    <3>1. faults' \in 0 .. MaxFaults
      BY <1>4, FaultAssumption DEF ReconFails, TypeOK
    <3>2. fetched' = fetched \/ fetched' = [fetched EXCEPT ![r] = {}]
      BY <1>4 DEF ReconFails, GoOn
    <3>3. todo' = todo \/ \E S \in SUBSET Payments : todo' = [todo EXCEPT ![r] = S]
      BY <1>4 DEF ReconFails, TypeOK
    <3> QED
      BY <3>1, <3>2, <3>3 DEF TypeOK
  <2>3. TypeOK'
    BY <1>4, <2>1, <2>2 DEF ReconFails, TypeOK
  <2>4. Batched'
    BY <1>4 DEF ReconFails, Inductive, Batched, TypeOK
  <2> QED
    BY <1>4, <2>1, <2>3, <2>4, BooksKept, PoisedStep DEF ReconFails, Inductive
<1> QED
  BY <1>1, <1>2, <1>3, <1>4, <1>5 DEF Reconcile

LEMMA WorldStep ==
  ASSUME TypeOK, Inductive,
         \/ \E p \in Payments : CreateIntent(p) \/ WindowPasses(p)
         \/ \E h \in Hashes : ChainMoves(h)
  PROVE  TypeOK' /\ Inductive'
<1> USE DEF rowVars, bookVars, sideVars, worldVars, cronVars
<1>1. ASSUME NEW p \in Payments, CreateIntent(p)
      PROVE  TypeOK' /\ Inductive'
  <2>1. /\ row[p].status = "NONE" /\ row'[p].status = "PENDING"
        /\ \A q \in Payments \ {p} : row'[q] = row[q]
        /\ \A q \in Payments : row'[q].tx = row[q].tx
    BY <1>1 DEF CreateIntent, TypeOK
  <2>2. TypeOK'
    BY <1>1 DEF CreateIntent, TypeOK, RowStatus, Status
  <2>3. Monotone /\ SettledHasLedger' /\ AnnouncedIsSettled' /\ TxHashUnique'
    BY <1>1, <2>1
    DEF CreateIntent, Inductive, Monotone, SettledHasLedger, AnnouncedIsSettled, TxHashUnique
  <2>4. SettledOnceUnlessRaced'
    BY <1>1, <2>1 DEF CreateIntent, Inductive, SettledOnceUnlessRaced
  <2>5. OnlyMoved({})
    BY <1>1 DEF CreateIntent, OnlyMoved
  <2> QED
    BY <1>1, <2>2, <2>3, <2>4, <2>5, PoisedStep, BatchKept DEF CreateIntent, Inductive
<1>2. ASSUME NEW p \in Payments, WindowPasses(p)
      PROVE  TypeOK' /\ Inductive'
  <2>1. TypeOK' /\ OnlyMoved({})
    BY <1>2 DEF WindowPasses, TypeOK, OnlyMoved
  <2> QED
    BY <1>2, <2>1, QuietMove DEF WindowPasses
<1>3. ASSUME NEW h \in Hashes, ChainMoves(h)
      PROVE  TypeOK' /\ Inductive'
  <2>1. TypeOK'
    BY <1>3 DEF ChainMoves, TypeOK, ChainState
  <2>2. OnlyMoved({})
    BY <1>3 DEF ChainMoves, OnlyMoved
  <2> QED
    BY <1>3, <2>1, <2>2, QuietMove DEF ChainMoves
<1> QED
  BY <1>1, <1>2, <1>3

LEMMA HandlerFailsStep ==
  ASSUME TypeOK, Inductive, NEW x \in Handlers \ Reconcilers, HandlerFails(x)
  PROVE  TypeOK' /\ Inductive'
<1> USE DEF rowVars, bookVars, sideVars, worldVars, cronVars
<1>1. run' \in [Handlers -> HandlerState] /\ OnlyMoved({x})
  <2>1. Finish(x) \/ (x \in Jobs \union Payments /\ Goto(x, "queued"))
    BY DEF HandlerFails
  <2>2. run' \in [Handlers -> HandlerState]
    <3>1. "queued" \in HandlerPC
      BY DEF HandlerPC
    <3> QED
      BY <2>1, <3>1, MoveType, Resting DEF Finish, Goto
  <2>3. OnlyMoved({x})
    BY <2>1, AtWork, Resting, DisjointAssumption
    DEF HandlerFails, Finish, Goto, OnlyMoved, PlacedAt, DecidedAt, HandlerState
  <2> QED
    BY <2>2, <2>3
<1>2. faults' \in 0 .. MaxFaults
  BY FaultAssumption DEF HandlerFails, TypeOK
<1> QED
  BY <1>1, <1>2, QuietMove DEF HandlerFails, TypeOK

-----------------------------------------------------------------------------
(* The inductive invariant.                                                *)

LEMMA InitEstablishes == Init => TypeOK /\ Inductive
<1> SUFFICES ASSUME Init PROVE TypeOK /\ Inductive
  OBVIOUS
<1>1. TypeOK
  BY FaultAssumption, Resting DEF Init, TypeOK, RowStatus, NoRow, ChainState
<1>2. Poised /\ Batched
  BY Resting DEF Init, Poised, PlacedAt, DecidedAt, Batched
<1>3. SettledHasLedger /\ TxHashUnique /\ AnnouncedIsSettled /\ SettledOnceUnlessRaced
  BY DEF Init, SettledHasLedger, TxHashUnique, AnnouncedIsSettled,
     SettledOnceUnlessRaced, NoRow
<1> QED
  BY <1>1, <1>2, <1>3 DEF Inductive

LEMMA StepPreserves ==
  TypeOK /\ Inductive /\ [Next]_vars => TypeOK' /\ Inductive'
<1> SUFFICES ASSUME TypeOK, Inductive, [Next]_vars PROVE TypeOK' /\ Inductive'
  OBVIOUS
<1>1. CASE Next
  BY <1>1, DetectStep, FailStep, PollStep, TransferStep, ManualStep, RefundStep,
     AnnounceStep, SweepStep, ReconStep, WorldStep, HandlerFailsStep DEF Next
<1>2. CASE UNCHANGED vars
  <2>1. TypeOK' /\ OnlyMoved({})
    BY <1>2 DEF vars, rowVars, bookVars, sideVars, worldVars, cronVars, TypeOK, OnlyMoved
  <2> QED
    BY <1>2, <2>1, QuietMove DEF vars, rowVars, bookVars, sideVars, worldVars, cronVars
<1> QED
  BY <1>1, <1>2

\* Whatever the handlers, the crons and the chain do, the tables hold only what
\* their columns admit, and every handler that slept still knows, when it
\* writes, what the promises of the rail rest on.
THEOREM InductiveInvariant == Spec => [](TypeOK /\ Inductive)
BY InitEstablishes, StepPreserves, PTL DEF Spec

\* A payment that is COMPLETED or REFUNDED has its ledger settlement
\* (settlePayment and confirmPaymentManually write both in one transaction).
THEOREM LedgerBacksStatus == Spec => []SettledHasLedger
BY InductiveInvariant, PTL DEF Inductive

\* No two payments are bound to one transaction, although the check for it and
\* the write are apart (handleTxDetected, confirmPaymentManually).
THEOREM HashesAreUnique == Spec => []TxHashUnique
BY InductiveInvariant, PTL DEF Inductive

\* No webhook tells of a settlement that did not happen.
THEOREM WebhooksAreTrue == Spec => []AnnouncedIsSettled
BY InductiveInvariant, PTL DEF Inductive

\* Double settlement takes a write from an outdated read.
THEOREM OneSettlement == Spec => []SettledOnceUnlessRaced
BY InductiveInvariant, PTL DEF Inductive

-----------------------------------------------------------------------------
(* Sums, as in LedgerProofs: the library's induction theorems take the     *)
(* formula as a parameter, so induction is by least members of sets.       *)

\* A set of numbers has a least one.
LEMMA LeastNumber ==
  ASSUME NEW S \in SUBSET Nat, S # {}
  PROVE  \E m \in S : \A k \in S : m <= k
<1>1. PICK R : IsWellFoundedOn(R, Nat) /\ \A x, y \in Nat : y < x => <<y, x>> \in R
  <2>1. \A x, y \in Nat : y < x => <<y, x>> \in OpToRel(<,Nat)
    BY DEF OpToRel
  <2> DEFINE T == OpToRel(<, Nat)
  <2>2. \A x, y \in Nat : y < x => <<y, x>> \in T
    BY <2>1, Zenon
  <2>3. IsWellFoundedOn(T, Nat)
    BY NatLessThanWellFounded, Zenon
  <2> HIDE DEF T
  <2> QED
    BY <2>2, <2>3
<1>2. \E x \in S : \A y \in S : ~ (<<y, x>> \in R)
  BY <1>1, WFMin
<1>3. PICK x \in S : \A y \in S : ~ (<<y, x>> \in R)
  BY <1>2
<1>4. \A y \in S : ~(y < x)
  BY <1>1, <1>3, Zenon
<1>5. x \in Nat /\ \A y \in S : y \in Nat
  OBVIOUS
<1> QED
  BY <1>4, <1>5

\* Induction, on a set instead of a formula.
LEMMA Induction ==
  ASSUME NEW S, 0 \in S, \A n \in Nat : n \in S => n + 1 \in S
  PROVE  \A n \in Nat : n \in S
<1> SUFFICES ASSUME NEW n \in Nat, n \notin S PROVE FALSE
  OBVIOUS
<1> DEFINE Out == {k \in Nat : k \notin S}
<1>1. PICK m \in Out : \A k \in Out : m <= k
  BY LeastNumber
<1>2. m # 0 /\ m \in Nat
  BY <1>1
<1>3. m - 1 \in Nat /\ m - 1 \notin Out
  BY <1>1, <1>2
<1> QED
  BY <1>2, <1>3, <1>1

\* The element that the recursion of a sum takes first, and what the table of
\* that recursion satisfies on a family of sets, the elements weighing w.
Some(s) == CHOOSE x \in s : TRUE
Adds(w, g, F) == g = [s \in F |-> IF s = {} THEN 0 ELSE w[Some(s)] + g[s \ {Some(s)}]]

LEMMA SomeIn == ASSUME NEW S, S # {} PROVE Some(S) \in S
BY DEF Some

\* Induction on cardinalities takes one element away.
LEMMA OneLess ==
  ASSUME NEW n \in Nat, NEW s, IsFiniteSet(s), Cardinality(s) = n + 1
  PROVE  /\ s # {} /\ Some(s) \in s
         /\ \A y \in s : Cardinality(s \ {y}) = n
<1>1. s # {}
  BY FS_EmptySet
<1>2. \A y \in s : Cardinality(s \ {y}) = Cardinality(s) - 1
  BY FS_RemoveElement
<1> QED
  BY <1>1, <1>2, SomeIn

\* The subsets of U with no more than n elements.
UpTo(U, n) == {s \in SUBSET U : Cardinality(s) <= n}

\* The recursion of a sum has a solution, built cardinality by cardinality.
LEMMA AddsExists ==
  ASSUME NEW w, NEW U, IsFiniteSet(U)
  PROVE  \E g : Adds(w, g, SUBSET U)
<1> DEFINE I == {n \in Nat : \E g : Adds(w, g, UpTo(U, n))}
<1>1. \A s \in SUBSET U : IsFiniteSet(s) /\ Cardinality(s) \in Nat
  BY FS_Subset, FS_CardinalityType
<1>2. 0 \in I
  <2>1. \A s \in UpTo(U, 0) : s = {}
    BY <1>1, FS_EmptySet DEF UpTo
  <2>2. Adds(w, [s \in UpTo(U, 0) |-> 0], UpTo(U, 0))
    BY <2>1 DEF Adds
  <2> QED
    BY <2>2
<1>3. ASSUME NEW n \in Nat, n \in I PROVE n + 1 \in I
  <2>1. PICK g : Adds(w, g, UpTo(U, n))
    BY <1>3
  <2> DEFINE h == [s \in UpTo(U, n + 1) |-> IF s = {} THEN 0 ELSE w[Some(s)] + g[s \ {Some(s)}]]
  <2>2. ASSUME NEW s \in UpTo(U, n + 1), s # {} PROVE s \ {Some(s)} \in UpTo(U, n) /\ s \ {Some(s)} \in UpTo(U, n+1)
    <3>1. Some(s) \in s
      BY <2>2, SomeIn
    <3>2. s \in SUBSET U /\ Cardinality(s) <= n + 1
      BY DEF UpTo
    <3>3. Cardinality(s \ {Some(s)}) = Cardinality(s) - 1
      BY <1>1, <3>1, <3>2, FS_RemoveElement
    <3> QED
      BY <1>1, <3>2, <3>3 DEF UpTo
  <2>3. \A s \in UpTo(U, n) : h[s] = g[s]
    <3>1. UpTo(U, n) \subseteq UpTo(U, n + 1)
      BY <1>1 DEF UpTo
    <3> QED
      BY <2>1, <3>1 DEF Adds
  <2>4. Adds(w, h, UpTo(U, n + 1))
    BY <2>2, <2>3 DEF Adds
  <2> HIDE DEF h
  <2> QED
    BY <2>4
<1>4. Cardinality(U) \in I
  <2> HIDE DEF I
  <2> QED
    BY <1>1, <1>2, <1>3, Induction
<1>5. UpTo(U, Cardinality(U)) = SUBSET U
  BY FS_Subset DEF UpTo
<1> QED
  BY <1>4, <1>5

\* Two such tables agree where both are defined.
LEMMA AddsAgree ==
  ASSUME NEW w, NEW U, IsFiniteSet(U), NEW V \in SUBSET U, NEW g, NEW h, Adds(w, g, SUBSET U), Adds(w, h, SUBSET V)
  PROVE  g[V] = h[V]
<1> DEFINE I == {n \in Nat : \A s \in SUBSET V : Cardinality(s) = n => g[s] = h[s]}
<1>1. \A s \in SUBSET V : IsFiniteSet(s) /\ Cardinality(s) \in Nat
  BY FS_Subset, FS_CardinalityType
<1>2. \A s \in SUBSET V : s \in SUBSET U
  OBVIOUS
<1>3. 0 \in I
  <2>1. \A s \in SUBSET V : Cardinality(s) = 0 => s = {}
    BY <1>1, FS_EmptySet
  <2> QED
    BY <1>2, <2>1 DEF Adds
<1>4. ASSUME NEW n \in Nat, n \in I PROVE n + 1 \in I
  <2> SUFFICES ASSUME NEW s \in SUBSET V, Cardinality(s) = n + 1 PROVE g[s] = h[s]
    OBVIOUS
  <2>0. \A t \in SUBSET V : Cardinality(t) = n => g[t] = h[t]
    BY <1>4
  <2> HIDE DEF I
  <2>1. s # {}
    BY <1>1, OneLess, Zenon
  <2>2. Some(s) \in s
    BY <2>1, SomeIn
  <2>3. Cardinality(s \ {Some(s)}) = n
    BY <1>1, OneLess, Zenon
  <2>4. g[s \ {Some(s)}] = h[s \ {Some(s)}]
    BY <2>0, <2>3
  <2>5. g[s] = w[Some(s)] + g[s \ {Some(s)}]
    BY <2>1, <1>2 DEF Adds
  <2>6. h[s] = w[Some(s)] + h[s \ {Some(s)}]
    BY <2>1 DEF Adds
  <2> QED
    BY <2>4, <2>5, <2>6
<1>5. Cardinality(V) \in I
  <2> HIDE DEF I
  <2> QED
    BY <1>1, <1>3, <1>4, Induction
<1> QED
  BY <1>5

\* What the table of a larger set says of the set without its first element.
LEMMA AddsUnfolds ==
  ASSUME NEW w, NEW S, IsFiniteSet(S), NEW g, Adds(w, g, SUBSET S),
         NEW h, Adds(w, h, SUBSET (S \ {Some(S)}))
  PROVE  g[S] = IF S = {} THEN 0 ELSE w[Some(S)] + h[S \ {Some(S)}]
<1> DEFINE T == S \ {Some(S)}
<1>1. T \in SUBSET S
  OBVIOUS
<1>2. g[T] = h[T]
  BY <1>1, AddsAgree
<1>3. g[S] = IF S = {} THEN 0 ELSE w[Some(S)] + g[T]
  BY DEF Adds
<1> QED
  BY <1>2, <1>3

\* Each sum is read from a table of its own, whose elements weigh their values.
ValueAdds(g, F) ==
  g = [s \in F |-> IF s = {} THEN 0 ELSE Some(s).value + g[s \ {Some(s)}]]

LEMMA ValueDef == ASSUME NEW S PROVE Value(S) = (CHOOSE g : ValueAdds(g, SUBSET S))[S]
BY DEF Value, MapThenSumSet, MapThenFoldSet, ValueAdds, Some

LEMMA ValueWeighs ==
  ASSUME NEW S, NEW V \in SUBSET S, NEW g
  PROVE  ValueAdds(g, SUBSET V) <=> Adds([t \in S |-> t.value], g, SUBSET V)
<1>1. \A s \in SUBSET V : s # {} => [t \in S |-> t.value][Some(s)] = Some(s).value
  BY SomeIn
<1> QED
  BY <1>1 DEF ValueAdds, Adds

\* A sum is an element, the one CHOOSE takes, and the sum of the others.
LEMMA ValueUnfolds ==
  ASSUME NEW S, IsFiniteSet(S)
  PROVE  Value(S) = IF S = {} THEN 0 ELSE Some(S).value + Value(S \ {Some(S)})
<1> DEFINE T == S \ {Some(S)}
           w == [t \in S |-> t.value]
           g == CHOOSE f : ValueAdds(f, SUBSET S)
           h == CHOOSE f : ValueAdds(f, SUBSET T)
<1>1. IsFiniteSet(T) /\ T \in SUBSET S /\ S \in SUBSET S
  BY FS_Subset
<1>2. (\E f : ValueAdds(f, SUBSET S)) /\ (\E f : ValueAdds(f, SUBSET T))
  <2> HIDE DEF T, w
  <2>1. (\E f : Adds(w, f, SUBSET S)) /\ (\E f : Adds(w, f, SUBSET T))
    BY <1>1, AddsExists
  <2> QED
    BY <1>1, <2>1, ValueWeighs DEF w
<1>3. ValueAdds(g, SUBSET S) /\ ValueAdds(h, SUBSET T)
  BY <1>2
<1>4. Value(S) = g[S] /\ Value(T) = h[T]
  BY ValueDef
<1> HIDE DEF g, h
<1>5. Adds(w, g, SUBSET S) /\ Adds(w, h, SUBSET T)
  BY <1>1, <1>3, ValueWeighs
<1>6. S # {} => w[Some(S)] = Some(S).value
  BY SomeIn
<1> HIDE DEF w
<1>7. g[S] = IF S = {} THEN 0 ELSE w[Some(S)] + h[T]
  BY <1>5, AddsUnfolds
<1> QED
  BY <1>4, <1>6, <1>7

Summable(S) == IsFiniteSet(S) /\ \A e \in S : e.value \in Nat

LEMMA ValueIsNat ==
  ASSUME NEW S, Summable(S)
  PROVE  Value(S) \in Nat
<1> DEFINE I == {n \in Nat : \A s \in SUBSET S : Cardinality(s) = n => Value(s) \in Nat}
<1>1. \A s \in SUBSET S : IsFiniteSet(s) /\ Cardinality(s) \in Nat
  BY FS_Subset, FS_CardinalityType DEF Summable
<1>2. 0 \in I
  BY <1>1, FS_EmptySet, ValueUnfolds
<1>3. ASSUME NEW n \in Nat, n \in I PROVE n + 1 \in I
  <2> SUFFICES ASSUME NEW s \in SUBSET S, Cardinality(s) = n + 1 PROVE Value(s) \in Nat
    OBVIOUS
  <2>1. IsFiniteSet(s)
    BY <1>1
  <2>2. s # {} /\ Some(s) \in s /\ Cardinality(s \ {Some(s)}) = n
    BY <2>1, OneLess, Zenon
  <2>4. Value(s \ {Some(s)}) \in Nat
    BY <1>3, <2>2
  <2>5. Some(s).value \in Nat
    BY <2>2 DEF Summable
  <2>6. Value(s) = Some(s).value + Value(s \ {Some(s)})
    BY <2>1, <2>2, ValueUnfolds
  <2> QED
    BY <2>4, <2>5, <2>6
<1>4. Cardinality(S) \in I
  <2> HIDE DEF I
  <2> QED
    BY <1>1, <1>2, <1>3, Induction
<1> QED
  BY <1>4

\* It does not matter which element is taken first.
LEMMA ValueWithout ==
  ASSUME NEW S, Summable(S), NEW y \in S
  PROVE  Value(S) = y.value + Value(S \ {y})
<1> DEFINE I == {n \in Nat : \A s \in SUBSET S : Cardinality(s) = n =>
                   \A z \in s : Value(s) = z.value + Value(s \ {z})}
<1>1. \A s \in SUBSET S : IsFiniteSet(s) /\ Cardinality(s) \in Nat
  BY FS_Subset, FS_CardinalityType DEF Summable
<1>2. 0 \in I
  BY <1>1, FS_EmptySet
<1>3. ASSUME NEW n \in Nat, n \in I PROVE n + 1 \in I
  <2> SUFFICES ASSUME NEW s \in SUBSET S, Cardinality(s) = n + 1, NEW z \in s
               PROVE  Value(s) = z.value + Value(s \ {z})
    OBVIOUS
  <2> DEFINE x == Some(s)
  <2>1. x \in s
    BY SomeIn
  <2>2. Value(s) = x.value + Value(s \ {x})
    BY <1>1, ValueUnfolds
  <2> HIDE DEF x
  <2>3. CASE z # x
    <3>1. Cardinality(s \ {x}) = n /\ Cardinality(s \ {z}) = n
      BY <1>1, <2>1, FS_RemoveElement
    <3>2. Value(s \ {x}) = z.value + Value((s \ {x}) \ {z})
      BY <1>3, <2>3, <3>1
    <3>3. Value(s \ {z}) = x.value + Value((s \ {z}) \ {x})
      BY <1>3, <2>1, <2>3, <3>1
    <3>4. (s \ {x}) \ {z} = (s \ {z}) \ {x}
      OBVIOUS
    <3>5. x.value \in Nat /\ z.value \in Nat
      BY <2>1 DEF Summable
    <3>6. Summable((s \ {z}) \ {x})
      BY <1>1 DEF Summable
    <3>7. Value((s \ {z}) \ {x}) \in Nat
      BY <3>6, ValueIsNat
    <3> DEFINE r == Value((s \ {z}) \ {x})
               t == Value(s)
               u == Value(s \ {z})
    <3>8. t = x.value + (z.value + r) /\ u = x.value + r /\ r \in Nat
      BY <2>2, <3>2, <3>3, <3>4, <3>7, Zenon
    <3> HIDE DEF r, t, u
    <3>9. t = z.value + u
      BY <3>5, <3>8
    <3> QED
      BY <3>9 DEF t, u
  <2> QED
    BY <2>2, <2>3
<1>4. Cardinality(S) \in I
  <2> HIDE DEF I
  <2> QED
    BY <1>1, <1>2, <1>3, Induction
<1> QED
  BY <1>4

\* A sum grows with its set.
LEMMA ValueGrows ==
  ASSUME NEW T, Summable(T), NEW S \in SUBSET T
  PROVE  Value(S) <= Value(T) /\ Value(S) \in Nat /\ Value(T) \in Nat
<1> DEFINE I == {n \in Nat : \A s \in SUBSET T : Cardinality(s) = n => Value(T \ s) <= Value(T)}
<1>1. \A s \in SUBSET T : IsFiniteSet(s) /\ Cardinality(s) \in Nat /\ Summable(s)
  BY FS_Subset, FS_CardinalityType DEF Summable
<1>2. \A s \in SUBSET T : Value(s) \in Nat
  BY <1>1, ValueIsNat
<1>3. 0 \in I
  <2>1. \A s \in SUBSET T : Cardinality(s) = 0 => T \ s = T
    BY <1>1, FS_EmptySet
  <2> QED
    BY <1>2, <2>1
<1>4. ASSUME NEW n \in Nat, n \in I PROVE n + 1 \in I
  <2> SUFFICES ASSUME NEW s \in SUBSET T, Cardinality(s) = n + 1
               PROVE  Value(T \ s) <= Value(T)
    OBVIOUS
  <2>1. PICK x \in s : Cardinality(s \ {x}) = n
    BY <1>1, OneLess
  <2>2. Value(T \ (s \ {x})) <= Value(T)
    BY <1>4, <2>1
  <2>3. (T \ (s \ {x})) \ {x} = T \ s /\ x \in T \ (s \ {x}) /\ x.value \in Nat
    BY DEF Summable
  <2>4. Value(T \ (s \ {x})) = x.value + Value(T \ s)
    <3>1. T \ (s \ {x}) \in SUBSET T
      OBVIOUS
    <3> QED
      BY <1>1, <2>3, <3>1, ValueWithout
  <2>5. Value(T \ s) \in Nat /\ Value(T) \in Nat
    BY <1>2
  <2> QED
    BY <2>2, <2>3, <2>4, <2>5
<1>5. Cardinality(T \ S) \in I
  <2> HIDE DEF I
  <2>1. Cardinality(T \ S) \in Nat
    BY <1>1
  <2> QED
    BY <2>1, <1>3, <1>4, Induction
<1>6. T \ (T \ S) = S
  OBVIOUS
<1> QED
  BY <1>2, <1>5, <1>6

-----------------------------------------------------------------------------
(* The money behind a settlement.                                          *)

\* Only finitely many transfers have arrived, since each step includes one
\* transaction.
LEMMA ArrivalsAddUp ==
  ASSUME TypeOK, IsFiniteSet(included), NEW w
  PROVE  Summable(Arrived(w))
<1> DEFINE Logs(H) == {t \in Transfers : t.tx \in H}
           I == {n \in Nat : \A H \in SUBSET included : Cardinality(H) = n => IsFiniteSet(Logs(H))}
<1>1. \A H \in SUBSET included : IsFiniteSet(H) /\ Cardinality(H) \in Nat
  BY FS_Subset, FS_CardinalityType
<1>2. 0 \in I
  <2>1. \A H \in SUBSET included : Cardinality(H) = 0 => Logs(H) = {}
    BY <1>1, FS_EmptySet
  <2> QED
    BY <2>1, FS_EmptySet
<1>3. ASSUME NEW n \in Nat, n \in I PROVE n + 1 \in I
  <2> SUFFICES ASSUME NEW H \in SUBSET included, Cardinality(H) = n + 1
               PROVE  IsFiniteSet(Logs(H))
    OBVIOUS
  <2>1. PICK h \in H : Cardinality(H \ {h}) = n
    BY <1>1, OneLess
  <2>2. IsFiniteSet(Logs(H \ {h}))
    BY <1>3, <2>1
  <2>3. h \in Hashes
    BY DEF TypeOK
  <2>4. IsFiniteSet({t \in Transfers : t.tx = h})
    BY <2>3, TransferAssumption
  <2>5. Logs(H) = Logs(H \ {h}) \cup {t \in Transfers : t.tx = h}
    OBVIOUS
  <2> DEFINE A == Logs(H \ {h})
             B == {t \in Transfers : t.tx = h}
  <2>6. IsFiniteSet(A) /\ IsFiniteSet(B)
    BY <2>2, <2>4
  <2> HIDE DEF A, B
  <2>7. IsFiniteSet(A \cup B)
    BY <2>6, FS_Union
  <2> QED
    BY <2>5, <2>7 DEF A, B
<1>4. Cardinality(included) \in I
  <2> HIDE DEF I
  <2> QED
    BY <1>1, <1>2, <1>3, Induction
<1>5. IsFiniteSet(Logs(included))
  BY <1>4
<1>6. IsFiniteSet(Arrived(w))
  BY <1>5, FS_Subset DEF Arrived
<1> QED
  BY <1>6, TransferAssumption DEF Summable, Arrived

LEMMA FundedMeans ==
  ASSUME NEW p \in Payments
  PROVE  Funded(p) <=> Value(Arrived(Wallet[p])) + Tolerance >= Amount[p]
BY DEF Funded

\* What arrived is enough as soon as some of it is.
LEMMA PartIsEnough ==
  ASSUME TypeOK, IsFiniteSet(included), NEW p \in Payments,
         NEW S \in SUBSET Arrived(Wallet[p]), Value(S) + Tolerance >= Amount[p]
  PROVE  Funded(p)
<1>1. Value(S) <= Value(Arrived(Wallet[p])) /\ Value(S) \in Nat /\ Value(Arrived(Wallet[p])) \in Nat
  BY ArrivalsAddUp, ValueGrows
<1>2. Amount[p] \in Nat
  BY AmountAssumption
<1> QED
  BY <1>1, <1>2, FundedMeans DEF Tolerance

LEMMA OneIsEnough ==
  ASSUME TypeOK, IsFiniteSet(included), NEW p \in Payments,
         NEW t \in Arrived(Wallet[p]), t.value + Tolerance >= Amount[p]
  PROVE  Funded(p)
<1>1. Summable({t}) /\ t.value \in Nat
  BY TransferAssumption, FS_Singleton DEF Summable, Arrived
<1>2. Value({t}) = t.value + Value({t} \ {t})
  BY <1>1, ValueWithout
<1>3. {t} \ {t} = {} /\ Value({}) = 0
  BY FS_EmptySet, ValueUnfolds
<1>4. Value({t}) = t.value
  BY <1>1, <1>2, <1>3
<1>5. Value({t}) + Tolerance >= Amount[p] /\ {t} \in SUBSET Arrived(Wallet[p])
  BY <1>4
<1> QED
  BY <1>5, PartIsEnough

LEMMA SumsMean ==
  /\ \A p \in Payments : Funded(p) <=> Value(Arrived(Wallet[p])) + Tolerance >= Amount[p]
  /\ TypeOK /\ IsFiniteSet(included) => \A w : Summable(Arrived(w))
BY FundedMeans, ArrivalsAddUp

LEMMA SumsMeanNext ==
  /\ \A p \in Payments :
       Funded(p)' <=> Value(Arrived(Wallet[p]))' + Tolerance >= Amount[p]
  /\ TypeOK' /\ IsFiniteSet(included)' => \A w : Summable(Arrived(w))'
<1>1. (/\ \A p \in Payments : Funded(p) <=> Value(Arrived(Wallet[p])) + Tolerance >= Amount[p]
       /\ TypeOK /\ IsFiniteSet(included) => \A w : Summable(Arrived(w)))'
  BY SumsMean, PTL
<1> QED
  BY <1>1 DEF Tolerance

\* Money that arrived stays, also when its block is reorganised away: what the
\* transaction proved once is not asked again.
LEMMA MoneyStays ==
  ASSUME TypeOK, TypeOK', IsFiniteSet(included), IsFiniteSet(included'),
         included \subseteq included', NEW p \in Payments, Funded(p)
  PROVE  Funded(p)'
<1> DEFINE S == Arrived(Wallet[p])
           T == Arrived(Wallet[p])'
<1>1. S \in SUBSET T
  BY DEF Arrived
<1>2. Summable(T)
  BY SumsMeanNext DEF Summable
<1>3. Value(S) + Tolerance >= Amount[p] /\ Amount[p] \in Nat
  BY SumsMean, AmountAssumption
<1>4. Value(T) + Tolerance >= Amount[p]
  <2> HIDE DEF S, T
  <2>1. Value(S) <= Value(T) /\ Value(S) \in Nat /\ Value(T) \in Nat
    BY <1>1, <1>2, ValueGrows
  <2> QED
    BY <1>3, <2>1 DEF Tolerance
<1> QED
  BY <1>4, SumsMeanNext

\* What a step does with the evidence it finds.
Backed ==
  /\ \A y \in Handlers : Carries(y, run'[y])
  /\ \A p \in Payments : row'[p].status = "CONFIRMING" => row[p].status = "CONFIRMING" \/ Funded(p)
  /\ \A p \in Payments : settled'[p] > 0 => settled[p] > 0 \/ Funded(p)

LEMMA BackedStep ==
  ASSUME TypeOK, TypeOK', Inductive', Evidence, SettledIsFunded, Backed,
         included \subseteq included', IsFiniteSet(included'),
         \A h \in Hashes : chain'[h] \in InBlock => h \in included',
         \A r \in Reconcilers : Fetches(run'[r], fetched'[r])
  PROVE  Evidence' /\ SettledIsFunded'
<1>1. \A p \in Payments : Funded(p) => Funded(p)'
  BY MoneyStays DEF Evidence
<1>2. \A p \in Payments : row'[p].status = "CONFIRMING" => Funded(p)'
  BY <1>1 DEF Backed, Evidence
<1>3. SettledIsFunded'
  BY <1>1 DEF Backed, SettledIsFunded
<1>4. ASSUME NEW x \in Handlers
      PROVE  Carries(x, run[x])'
  <2>1. Carries(x, run'[x]) /\ PlacedAt(x)'
    BY DEF Backed, Inductive, Poised
  <2>2. run'[x].pc \in {"detecting", "detectCommit", "countCommit", "settleCommit", "manualCommit"}
          => run'[x].pay \in Payments /\ Funded(run'[x].pay)
    BY <2>1 DEF PlacedAt, Carries
  <2>3. run'[x].pc \in {"detecting", "detectCommit", "countCommit", "settleCommit", "manualCommit"}
          => (run'[x].pay \in Payments /\ \E p \in Payments : p = run'[x].pay /\ Funded(p)')
    BY <1>1, <2>2
  <2>4. run'[x].pc \in {"detecting", "detectCommit", "countCommit", "settleCommit", "manualCommit"}
          => Funded(run[x].pay)'
    BY <2>3 DEF Funded
  <2> QED
    BY <2>1, <2>4 DEF Carries
<1>5. \A r \in Reconcilers : Fetches(run[r], fetched[r])'
  BY DEF Fetches
<1> QED
  BY <1>2, <1>3, <1>4, <1>5 DEF Evidence

LEMMA OneMoves ==
  ASSUME Evidence, UNCHANGED <<row, settled>>, NEW x \in Handlers,
         \A y \in Handlers \ {x} : run'[y] = run[y], Carries(x, run'[x])
  PROVE  Backed
BY DEF Evidence, Backed

LEMMA NoneMoves ==
  ASSUME Evidence, UNCHANGED <<run, settled>>,
         \A p \in Payments : row'[p].status = "CONFIRMING" => row[p].status = "CONFIRMING"
  PROVE  Backed
BY DEF Evidence, Backed

LEMMA DetectBacked ==
  ASSUME TypeOK, Inductive, Evidence, NEW x \in Jobs \union Reconcilers, Detect(x)
  PROVE  Backed
<1> USE DEF rowVars, bookVars
<1>0. x \in Handlers /\ Carries(x, run[x]) /\ run \in [Handlers -> HandlerState]
  BY AtWork DEF Handlers, Evidence
<1>1. CASE DetectRead(x)
  <2>1. /\ run'[x].pc \in {"detectCommit", "enqueue"} /\ run'[x].pay = run[x].pay
        /\ \A y \in Handlers \ {x} : run'[y] = run[y]
    BY <1>0, <1>1 DEF DetectRead, Goto, HandlerState
  <2>2. Carries(x, run'[x])
    BY <1>0, <1>1, <2>1 DEF DetectRead, Carries
  <2> QED
    BY <1>0, <1>1, <2>1, <2>2, OneMoves DEF DetectRead
<1>2. CASE DetectCommit(x)
  <2>1. PICK p \in Payments : p = run[x].pay
    BY <1>0, <1>2, AtWork DEF DetectCommit, PlacedAt
  <2>2. Funded(p)
    BY <1>0, <1>2, <2>1 DEF DetectCommit, Carries
  <2>3. /\ run'[x].pc = "enqueue" /\ \A y \in Handlers \ {x} : run'[y] = run[y]
    BY <1>0, <1>2 DEF DetectCommit, Goto, HandlerState
  <2>4. Carries(x, run'[x])
    BY <1>0, <1>2, <2>3 DEF DetectCommit, Carries
  <2>5. \A q \in Payments \ {p} : row'[q] = row[q]
    BY <1>2, <2>1 DEF DetectCommit, WriteRow, TypeOK
  <2> QED
    BY <1>2, <2>2, <2>3, <2>4, <2>5 DEF DetectCommit, Evidence, Backed
<1>3. CASE DetectConflict(x)
  <2>1. /\ run'[x].pc \in {"queued", "done", "scan"}
        /\ \A y \in Handlers \ {x} : run'[y] = run[y]
    BY <1>0, <1>3, Resting DEF DetectConflict, Goto, Finish, HandlerState
  <2>2. Carries(x, run'[x])
    BY <1>0, <1>3, <2>1 DEF DetectConflict, Carries
  <2> QED
    BY <1>0, <1>3, <2>1, <2>2, OneMoves DEF DetectConflict
<1>4. CASE EnqueueConfirm(x)
  <2>1. PICK p \in Payments : p = run[x].pay
    BY <1>0, <1>4, AtWork, DisjointAssumption DEF EnqueueConfirm, PlacedAt
  <2>2. \A y \in Handlers : \/ run'[y] = run[y]
                            \/ y = x /\ run'[y].pc \in {"done", "scan"}
                            \/ y = p /\ run'[y].pc = "queued"
    BY <1>0, <1>4, <2>1, Resting DEF EnqueueConfirm, AddConfirmJob
  <2>3. p \notin Jobs /\ run[x].pc # "idle"
    BY <1>4, DisjointAssumption DEF EnqueueConfirm
  <2>4. \A y \in Handlers : Carries(y, run'[y])
    BY <1>0, <2>2, <2>3 DEF Evidence, Carries
  <2> QED
    BY <1>4, <2>4 DEF EnqueueConfirm, Evidence, Backed
<1> QED
  BY <1>1, <1>2, <1>3, <1>4 DEF Detect

LEMMA FailBacked ==
  ASSUME TypeOK, Inductive, Evidence, NEW x \in Jobs \union Payments, Fail(x)
  PROVE  Backed
<1> USE DEF rowVars, bookVars
<1>0. x \in Handlers /\ Carries(x, run[x]) /\ run \in [Handlers -> HandlerState]
  BY AtWork DEF Handlers, Evidence
<1>1. /\ run'[x].pc \in {"done", "failCommit"} /\ run[x].pc # "idle"
      /\ \A y \in Handlers \ {x} : run'[y] = run[y]
  BY <1>0, Resting DEF Fail, FailRead, FailCommit, Goto, Finish, HandlerState
<1>2. Carries(x, run'[x])
  BY <1>0, <1>1 DEF Carries
<1>3. CASE FailRead(x)
  BY <1>0, <1>1, <1>2, <1>3, OneMoves DEF FailRead
<1>4. CASE FailCommit(x)
  <2>1. \A p \in Payments : row'[p].status = "CONFIRMING" => row[p].status = "CONFIRMING"
    BY <1>4 DEF FailCommit, WriteRow, TypeOK
  <2> QED
    BY <1>1, <1>2, <1>4, <2>1 DEF FailCommit, Evidence, Backed
<1> QED
  BY <1>3, <1>4 DEF Fail

LEMMA PollBacked ==
  ASSUME TypeOK, Inductive, Evidence, NEW p \in Payments, PollConfirmation(p) \/ ForgetJob(p)
  PROVE  Backed
<1> USE DEF rowVars, bookVars
<1>0. /\ p \in Handlers /\ p \notin Jobs /\ Carries(p, run[p])
      /\ run \in [Handlers -> HandlerState]
      /\ run[p].pc \notin {"idle", "done"} => run[p].pay = p
  BY AtWork, DisjointAssumption DEF Handlers, Evidence, PlacedAt
<1>1. \A y \in Handlers \ {p} : run'[y] = run[y]
  BY <1>0
  DEF PollConfirmation, PollStart, PollReceipt, PollRecord, UpdateRead, CountCommit,
      SettleCommit, PollRecheck, ForgetJob, AddConfirmJob, Goto, Finish
<1>2. CASE UpdateRead(p)
  <2>1. \/ run'[p].pc \in {"recheck", "done"}
        \/ row[p].status = "CONFIRMING" /\ run'[p].pay = p
    BY <1>0, <1>2, Resting DEF UpdateRead, Goto, Finish, HandlerState
  <2>2. Carries(p, run'[p])
    BY <1>0, <2>1 DEF Carries, Evidence
  <2> QED
    BY <1>0, <1>1, <1>2, <2>2, OneMoves DEF UpdateRead
<1>3. CASE CountCommit(p)
  <2>1. Funded(p) /\ run'[p].pc = "recheck"
    BY <1>0, <1>3 DEF CountCommit, Carries, Goto, HandlerState
  <2>2. \A q \in Payments \ {p} : row'[q] = row[q]
    BY <1>3 DEF CountCommit, WriteRow, TypeOK
  <2> QED
    BY <1>0, <1>1, <1>3, <2>1, <2>2 DEF CountCommit, Evidence, Backed, Carries
<1>4. CASE SettleCommit(p)
  <2>1. Funded(p) /\ run'[p].pc = "announce"
    BY <1>0, <1>4 DEF SettleCommit, Carries, Goto, HandlerState
  <2>2. \A q \in Payments \ {p} : row'[q] = row[q] /\ settled'[q] = settled[q]
    BY <1>4 DEF SettleCommit, WriteRow, TypeOK
  <2>3. row'[p].status = "COMPLETED"
    BY <1>4 DEF SettleCommit, WriteRow, TypeOK
  <2> QED
    BY <1>0, <1>1, <2>1, <2>2, <2>3 DEF Evidence, Backed, Carries
<1>5. CASE PollStart(p) \/ PollReceipt(p) \/ PollRecord(p) \/ PollRecheck(p) \/ ForgetJob(p)
  <2>1. run'[p].pc \in {"polling", "done", "recheck", "recordFailed", "recordShallow",
                        "recordDeep", "failing", "countRead", "settleRead", "idle"}
    BY <1>0, <1>5, Resting
    DEF PollStart, PollReceipt, PollRecord, PollRecheck, ForgetJob, AddConfirmJob, Goto, Finish,
        HandlerState
  <2>2. Carries(p, run'[p])
    BY <1>0, <2>1 DEF Carries
  <2> QED
    BY <1>0, <1>1, <1>5, <2>2, OneMoves
    DEF PollStart, PollReceipt, PollRecord, PollRecheck, ForgetJob
<1> QED
  BY <1>2, <1>3, <1>4, <1>5 DEF PollConfirmation

LEMMA TransferBacked ==
  ASSUME TypeOK, Inductive, Evidence, NEW j \in Jobs, ProcessTransfer(j)
  PROVE  Backed
<1> USE DEF rowVars, bookVars
<1> DEFINE t == TransferOf[j]
<1>0. /\ j \in Handlers /\ Carries(j, run[j]) /\ run \in [Handlers -> HandlerState]
      /\ t \in Transfers /\ t.tx \in Hashes
  BY AtWork, TransferAssumption DEF Handlers, Evidence
<1>1. /\ \A y \in Handlers \ {j} : run'[y] = run[y]
      /\ UNCHANGED <<row, settled>>
  BY <1>0 DEF ProcessTransfer, TransferSeen, MatchTransfer, PersistTransfer, Goto, Finish
<1>2. CASE TransferSeen(j)
  <2>1. run'[j].pc = "queued" /\ t.tx \in included
    BY <1>0, <1>2 DEF TransferSeen, Goto, Evidence, HandlerState
  <2> QED
    BY <1>0, <1>1, <2>1, OneMoves DEF Carries
<1>3. CASE MatchTransfer(j)
  <2>1. \/ run'[j].pc = "done"
        \/ run'[j].pc = "matched" /\ Wallet[run'[j].pay] = t.to
    BY <1>0, <1>3, Resting DEF MatchTransfer, Finish
  <2>2. Carries(j, run'[j])
    BY <1>0, <1>3, <2>1 DEF Carries, MatchTransfer
  <2> QED
    BY <1>0, <1>1, <2>2, OneMoves
<1>4. CASE PersistTransfer(j)
  <2>1. PICK p \in Payments : p = run[j].pay
    BY <1>0, <1>4, AtWork DEF PersistTransfer, PlacedAt
  <2>2. t \in Arrived(Wallet[p])
    BY <1>0, <1>4, <2>1 DEF PersistTransfer, Carries, Arrived
  <2>3. Covers(t.value, p) => Funded(p)
    BY <2>2, OneIsEnough DEF Evidence, Covers
  <2>4. /\ run'[j].pc = (IF Covers(t.value, p) THEN "detecting" ELSE "failing")
        /\ run'[j].pay = p
    BY <1>0, <1>4, <2>1 DEF PersistTransfer, Goto, HandlerState
  <2>5. Carries(j, run'[j])
    BY <1>0, <1>4, <2>3, <2>4 DEF Carries, PersistTransfer
  <2> QED
    BY <1>0, <1>1, <2>5, OneMoves
<1> QED
  BY <1>2, <1>3, <1>4 DEF ProcessTransfer

LEMMA ManualBacked ==
  ASSUME TypeOK, Inductive, Evidence, NEW r \in Requests, ConfirmManually(r)
  PROVE  Backed
<1> USE DEF rowVars, bookVars
<1>0. /\ r \in Handlers /\ r \notin Jobs /\ Carries(r, run[r]) /\ run \in [Handlers -> HandlerState]
  BY AtWork, DisjointAssumption DEF Handlers, Evidence
<1>1. \A y \in Handlers \ {r} : run'[y] = run[y]
  BY <1>0
  DEF ConfirmManually, ManualRead, ManualDupCheck, ManualVerify, ManualCommit, ManualConflict,
      Goto, Finish
<1>2. CASE ManualRead(r) \/ ManualDupCheck(r) \/ ManualConflict(r)
  <2>1. run'[r].pc \in {"dupCheck", "verify", "done"}
    BY <1>0, <1>2, Resting
    DEF ManualRead, ManualDupCheck, ManualConflict, Goto, Finish, HandlerState
  <2>2. Carries(r, run'[r])
    BY <1>0, <2>1 DEF Carries
  <2> QED
    BY <1>0, <1>1, <1>2, <2>2, OneMoves DEF ManualRead, ManualDupCheck, ManualConflict
<1>3. CASE ManualVerify(r)
  <2>1. PICK p \in Payments : p = run[r].pay
    BY <1>0, <1>3, AtWork DEF ManualVerify, PlacedAt
  <2>2. CASE chain[run[r].tx] \in InBlock /\ ProvesPayment(run[r].tx, p)
    <3>1. PICK t \in Transfers : t.tx = run[r].tx /\ t.to = Wallet[p] /\ t.value >= Amount[p]
      BY <2>2 DEF ProvesPayment
    <3>2. t.tx \in Hashes /\ t.value \in Nat /\ Amount[p] \in Nat
      BY TransferAssumption, AmountAssumption
    <3>3. t \in Arrived(Wallet[p])
      BY <2>2, <3>1, <3>2 DEF Evidence, Arrived
    <3>4. Funded(p)
      BY <3>1, <3>2, <3>3, OneIsEnough DEF Evidence, Tolerance
    <3>5. run'[r].pc = "manualCommit" /\ run'[r].pay = p
      BY <1>0, <1>3, <2>1, <2>2 DEF ManualVerify, Goto, HandlerState
    <3>6. Carries(r, run'[r])
      BY <1>0, <3>4, <3>5 DEF Carries
    <3> QED
      BY <1>0, <1>1, <1>3, <3>6, OneMoves DEF ManualVerify
  <2>3. CASE ~(chain[run[r].tx] \in InBlock /\ ProvesPayment(run[r].tx, p))
    <3>1. run'[r].pc = "done"
      BY <1>0, <1>3, <2>1, <2>3, Resting DEF ManualVerify, Finish
    <3>2. Carries(r, run'[r])
      BY <1>0, <3>1 DEF Carries
    <3> QED
      BY <1>0, <1>1, <1>3, <3>2, OneMoves DEF ManualVerify
  <2> QED
    BY <2>2, <2>3
<1>4. CASE ManualCommit(r)
  <2>1. PICK p \in Payments : p = run[r].pay
    BY <1>0, <1>4, AtWork DEF ManualCommit, PlacedAt
  <2>2. Funded(p) /\ run'[r].pc = "announce"
    BY <1>0, <1>4, <2>1 DEF ManualCommit, Carries, Goto, HandlerState
  <2>3. \A q \in Payments \ {p} : row'[q] = row[q] /\ settled'[q] = settled[q]
    BY <1>4, <2>1 DEF ManualCommit, WriteRow, TypeOK
  <2>4. row'[p].status = "COMPLETED"
    BY <1>4, <2>1 DEF ManualCommit, WriteRow, TypeOK
  <2> QED
    BY <1>0, <1>1, <2>2, <2>3, <2>4 DEF Evidence, Backed, Carries
<1> QED
  BY <1>2, <1>3, <1>4 DEF ConfirmManually

LEMMA ClientBacked ==
  ASSUME TypeOK, Inductive, Evidence,
         \/ \E r \in Refunds : Refund(r)
         \/ \E x \in Payments \union Requests \union Refunds : Announce(x)
         \/ \E x \in Handlers \ Reconcilers : HandlerFails(x)
  PROVE  Backed
<1> USE DEF rowVars, bookVars
<1>1. ASSUME NEW r \in Refunds, Refund(r)
      PROVE  Backed
  <2>0. r \in Handlers /\ r \notin Jobs /\ run \in [Handlers -> HandlerState]
    BY AtWork, DisjointAssumption DEF Handlers
  <2>1. /\ run'[r].pc \in {"refundCommit", "announce"}
        /\ \A y \in Handlers \ {r} : run'[y] = run[y]
    BY <1>1, <2>0 DEF Refund, RefundRead, RefundCommit, Goto, HandlerState
  <2>2. \A p \in Payments : row'[p].status = "CONFIRMING" => row[p].status = "CONFIRMING"
    <3>1. CASE RefundRead(r)
      BY <3>1 DEF RefundRead
    <3>2. CASE RefundCommit(r)
      BY <3>2 DEF RefundCommit, WriteRow, TypeOK
    <3> QED
      BY <1>1, <3>1, <3>2 DEF Refund
  <2>3. UNCHANGED settled
    BY <1>1 DEF Refund, RefundRead, RefundCommit
  <2> QED
    BY <2>0, <2>1, <2>2, <2>3 DEF Evidence, Backed, Carries
<1>2. ASSUME NEW x \in Payments \union Requests \union Refunds, Announce(x)
      PROVE  Backed
  <2>0. x \in Handlers /\ x \notin Jobs /\ run \in [Handlers -> HandlerState]
    BY AtWork, DisjointAssumption DEF Handlers
  <2>1. run'[x].pc = "done" /\ \A y \in Handlers \ {x} : run'[y] = run[y]
    BY <1>2, <2>0, Resting DEF Announce, Finish
  <2> QED
    BY <1>2, <2>0, <2>1, OneMoves DEF Announce, Carries
<1>3. ASSUME NEW x \in Handlers \ Reconcilers, HandlerFails(x)
      PROVE  Backed
  <2>0. Carries(x, run[x]) /\ run[x].pc # "idle" /\ run \in [Handlers -> HandlerState]
    BY <1>3, AtWork DEF Evidence, HandlerFails
  <2>1. run'[x].pc \in {"queued", "done"} /\ \A y \in Handlers \ {x} : run'[y] = run[y]
    BY <1>3, <2>0, Resting DEF HandlerFails, Goto, Finish, HandlerState
  <2> QED
    BY <1>3, <2>0, <2>1, OneMoves DEF HandlerFails, Carries
<1> QED
  BY <1>1, <1>2, <1>3

LEMMA ReconBacked ==
  ASSUME TypeOK, Inductive, Evidence, NEW r \in Reconcilers, Reconcile(r) \/ ReconFails(r)
  PROVE  Backed
<1> USE DEF rowVars, bookVars
<1>0. r \in Handlers /\ r \notin Jobs /\ Carries(r, run[r]) /\ run \in [Handlers -> HandlerState]
  BY AtWork, DisjointAssumption DEF Handlers, Evidence
<1>1. /\ \A y \in Handlers \ {r} : run'[y] = run[y]
      /\ UNCHANGED <<row, settled>>
  BY <1>0 DEF Reconcile, ReconRead, ReconHead, ReconFetch, ReconSum, ReconEnd, ReconFails, GoOn, Goto
<1>2. CASE ~ReconSum(r)
  <2>1. run'[r] = run[r] \/ run'[r].pc \in {"scan", "idle", "fetch", "sum"}
    BY <1>0, <1>2, Resting
    DEF Reconcile, ReconRead, ReconHead, ReconFetch, ReconEnd, ReconFails, GoOn, Goto, HandlerState
  <2>2. Carries(r, run'[r])
    BY <1>0, <2>1 DEF Carries
  <2> QED
    BY <1>0, <1>1, <2>2, OneMoves
<1>3. CASE ReconSum(r)
  <2>1. PICK p \in Payments : p = run[r].pay
    BY <1>0, <1>3, AtWork DEF ReconSum, PlacedAt
  <2>2. \/ run'[r].pc = "scan"
        \/ /\ Covers(Value(NewLogs(p, fetched[r])), p)
           /\ run'[r].pc = "detecting" /\ run'[r].pay = p
    BY <1>0, <1>3, <2>1, Resting DEF ReconSum, GoOn
  <2>3. NewLogs(p, fetched[r]) \in SUBSET Arrived(Wallet[p])
    BY <1>3, <2>1 DEF ReconSum, NewLogs, Arrived, Evidence, Fetches, TypeOK
  <2>4. Covers(Value(NewLogs(p, fetched[r])), p) => Funded(p)
    BY <2>1, <2>3, PartIsEnough DEF Covers, Evidence
  <2>5. Carries(r, run'[r])
    BY <1>0, <2>1, <2>2, <2>4 DEF Carries
  <2> QED
    BY <1>0, <1>1, <2>5, OneMoves
<1> QED
  BY <1>2, <1>3

LEMMA TablesBacked ==
  ASSUME TypeOK, Inductive, Evidence,
         \/ \E p \in Payments : CreateIntent(p) \/ WindowPasses(p)
         \/ \E h \in Hashes : ChainMoves(h)
         \/ \E s \in Sweepers : Sweep(s) \/ SweepFails(s)
  PROVE  Backed
<1> USE DEF rowVars, bookVars
<1>1. UNCHANGED <<run, settled>>
  BY DEF CreateIntent, WindowPasses, ChainMoves, Sweep, SweepRead, SweepExpire, SweepLog, SweepFails
<1>2. \A p \in Payments : row'[p].status = "CONFIRMING" => row[p].status = "CONFIRMING"
  <2>1. ASSUME NEW s \in Sweepers, SweepExpire(s)
        PROVE  \A p \in Payments : row'[p].status = "CONFIRMING" => row[p].status = "CONFIRMING"
    BY <2>1 DEF SweepExpire, WriteRow, TypeOK
  <2>2. ASSUME NEW q \in Payments, CreateIntent(q)
        PROVE  \A p \in Payments : row'[p].status = "CONFIRMING" => row[p].status = "CONFIRMING"
    BY <2>2 DEF CreateIntent, TypeOK
  <2> QED
    BY <2>1, <2>2 DEF WindowPasses, ChainMoves, Sweep, SweepRead, SweepLog, SweepFails
<1> QED
  BY <1>1, <1>2, NoneMoves

LEMMA ChainGrows ==
  ASSUME TypeOK, Evidence, Next
  PROVE  /\ included \subseteq included' /\ IsFiniteSet(included')
         /\ \A h \in Hashes : chain'[h] \in InBlock => h \in included'
<1> USE DEF worldVars
<1>1. ASSUME NEW k \in Hashes, ChainMoves(k)
      PROVE  /\ included \subseteq included' /\ IsFiniteSet(included')
             /\ \A h \in Hashes : chain'[h] \in InBlock => h \in included'
  <2>1. included' = included \cup {k} /\ \A h \in Hashes \ {k} : chain'[h] = chain[h]
    BY <1>1 DEF ChainMoves, TypeOK
  <2> QED
    BY <2>1, FS_AddElement DEF Evidence
<1>2. CASE UNCHANGED <<chain, included>>
  BY <1>2 DEF Evidence
<1>3. ~ (\E k \in Hashes : ChainMoves(k)) => UNCHANGED <<chain, included>>
  BY DEF Next, CreateIntent, WindowPasses, PollConfirmation, PollStart, PollReceipt, PollRecord,
         UpdateRead, CountCommit, SettleCommit, PollRecheck, ForgetJob, ProcessTransfer,
         TransferSeen, MatchTransfer, PersistTransfer, Detect, DetectRead, DetectCommit,
         DetectConflict, EnqueueConfirm, Fail, FailRead, FailCommit, ConfirmManually, ManualRead,
         ManualDupCheck, ManualVerify, ManualCommit, ManualConflict, Refund, RefundRead,
         RefundCommit, Announce, Sweep, SweepRead, SweepExpire, SweepLog, SweepFails, Reconcile,
         ReconRead, ReconHead, ReconFetch, ReconSum, ReconEnd, ReconFails, HandlerFails
<1> QED
  BY <1>1, <1>2, <1>3

\* Only a reconciliation changes what it has fetched.
LEMMA FetchesStep ==
  ASSUME TypeOK, Inductive, Evidence, Next
  PROVE  \A r \in Reconcilers : Fetches(run'[r], fetched'[r])
<1> USE DEF cronVars
<1>0. run \in [Handlers -> HandlerState] /\ Reconcilers \subseteq Handlers
  BY AtWork DEF TypeOK, Handlers
<1>1. ASSUME UNCHANGED fetched,
             \A r \in Reconcilers : run'[r] = run[r] \/ run'[r].pc \notin {"fetch", "sum"}
      PROVE  \A r \in Reconcilers : Fetches(run'[r], fetched'[r])
  BY <1>1 DEF Evidence, Fetches
<1>2. ASSUME NEW x \in Jobs \union Reconcilers, Detect(x)
      PROVE  \A r \in Reconcilers : Fetches(run'[r], fetched'[r])
  <2>1. UNCHANGED fetched
    BY <1>2 DEF Detect, DetectRead, DetectCommit, DetectConflict, EnqueueConfirm
  <2>2. CASE EnqueueConfirm(x)
    <3>1. PICK p \in Payments : p = run[x].pay
      BY <2>2, AtWork, DisjointAssumption DEF EnqueueConfirm, PlacedAt, Handlers
    <3>2. \A r \in Reconcilers : run'[r] = run[r] \/ run'[r] \in {Done, Scanning}
      BY <1>0, <2>2, <3>1, DisjointAssumption DEF EnqueueConfirm, AddConfirmJob, Handlers
    <3> QED
      BY <1>1, <2>1, <3>2, Resting
  <2>3. CASE ~EnqueueConfirm(x)
    <3>1. \A r \in Reconcilers : run'[r] = run[r] \/
            run'[r].pc \in {"detectCommit", "enqueue", "queued", "done", "scan"}
      BY <1>0, <1>2, <2>3, Resting
      DEF Detect, DetectRead, DetectCommit, DetectConflict, Goto, Finish, Handlers, HandlerState
    <3> QED
      BY <1>1, <2>1, <3>1
  <2> QED
    BY <2>2, <2>3
<1>3. ASSUME NEW r \in Reconcilers, Reconcile(r) \/ ReconFails(r)
      PROVE  \A q \in Reconcilers : Fetches(run'[q], fetched'[q])
  <2>1. \A q \in Reconcilers \ {r} : run'[q] = run[q] /\ fetched'[q] = fetched[q]
    BY <1>0, <1>3
    DEF Reconcile, ReconRead, ReconHead, ReconFetch, ReconSum, ReconEnd, ReconFails, GoOn, Goto, TypeOK
  <2>2. CASE ReconHead(r)
    <3>1. run'[r].pc = "fetch" /\ \A t \in fetched'[r] : t.to = Wallet[run'[r].pay]
      BY <1>0, <2>2 DEF ReconHead, GoOn, TypeOK
    <3> QED
      BY <2>1, <3>1 DEF Evidence, Fetches
  <2>3. CASE ReconFetch(r)
    <3>1. \A t \in fetched[r] : t \in Transfers /\ t.tx \in Hashes /\ t.to = Wallet[run[r].pay]
      BY <2>3, TransferAssumption DEF ReconFetch, Evidence, Fetches, TypeOK
    <3>2. /\ fetched'[r] = {t \in fetched[r] : chain[t.tx] \in InBlock}
          /\ run'[r] = Scanning \/ run'[r].pay = run[r].pay
      BY <1>0, <2>3 DEF ReconFetch, GoOn, TypeOK, HandlerState
    <3> QED
      BY <2>1, <3>1, <3>2, Resting DEF Evidence, Fetches
  <2>4. CASE ~ReconHead(r) /\ ~ReconFetch(r)
    <3>1. \/ run'[r] = run[r] /\ fetched'[r] = fetched[r]
          \/ run'[r].pc \in {"scan", "detecting", "idle"}
      BY <1>0, <1>3, <2>4, Resting
      DEF Reconcile, ReconRead, ReconSum, ReconEnd, ReconFails, GoOn, Goto, HandlerState
    <3> QED
      BY <2>1, <3>1 DEF Evidence, Fetches
  <2> QED
    BY <2>2, <2>3, <2>4
<1>4. ASSUME ~ \E x \in Jobs \union Reconcilers : Detect(x),
             ~ \E r \in Reconcilers : Reconcile(r) \/ ReconFails(r)
      PROVE  UNCHANGED fetched /\ \A r \in Reconcilers : run'[r] = run[r]
  <2>1. UNCHANGED fetched
    BY <1>4
    DEF Next, CreateIntent, WindowPasses, ChainMoves, PollConfirmation, PollStart, PollReceipt,
        PollRecord, UpdateRead, CountCommit, SettleCommit, PollRecheck, ForgetJob,
        ProcessTransfer, TransferSeen, MatchTransfer, PersistTransfer, Fail, FailRead, FailCommit,
        ConfirmManually, ManualRead, ManualDupCheck, ManualVerify, ManualCommit, ManualConflict,
        Refund, RefundRead, RefundCommit, Announce, Sweep, SweepRead, SweepExpire, SweepLog,
        SweepFails, HandlerFails
  <2>2. ASSUME UNCHANGED run
        PROVE  \A r \in Reconcilers : run'[r] = run[r]
    BY <2>2
  <2>3. ASSUME NEW x \in Handlers \ Reconcilers, \A y \in Handlers \ {x} : run'[y] = run[y]
        PROVE  \A r \in Reconcilers : run'[r] = run[r]
    BY <1>0, <2>3
  <2>4. CASE \E p \in Payments : PollConfirmation(p) \/ ForgetJob(p)
    <3>1. PICK p \in Payments : PollConfirmation(p) \/ ForgetJob(p)
      BY <2>4
    <3>2. p \in Handlers \ Reconcilers
      BY DisjointAssumption DEF Handlers
    <3>3. \A y \in Handlers \ {p} : run'[y] = run[y]
      <4>1. CASE PollRecheck(p)
        BY <1>0, <4>1, <3>2 DEF PollRecheck, AddConfirmJob
      <4>2. CASE UpdateRead(p)
        BY <1>0, <4>2 DEF UpdateRead, Goto, Finish
      <4> QED
        BY <1>0, <3>1, <4>1, <4>2
        DEF PollConfirmation, PollStart, PollReceipt, PollRecord, CountCommit, SettleCommit,
            ForgetJob, Goto, Finish
    <3> QED
      BY <2>1, <2>3, <3>2, <3>3
  <2>5. CASE \E j \in Jobs : ProcessTransfer(j)
    <3>1. PICK j \in Jobs : ProcessTransfer(j)
      BY <2>5
    <3>2. j \in Handlers \ Reconcilers
      BY DisjointAssumption DEF Handlers
    <3>3. \A y \in Handlers \ {j} : run'[y] = run[y]
      BY <1>0, <3>1
      DEF ProcessTransfer, TransferSeen, MatchTransfer, PersistTransfer, Goto, Finish
    <3> QED
      BY <2>1, <2>3, <3>2, <3>3
  <2>6. CASE \E x \in Jobs \union Payments : Fail(x)
    <3>1. PICK x \in Jobs \union Payments : Fail(x)
      BY <2>6
    <3>2. x \in Handlers \ Reconcilers
      BY DisjointAssumption DEF Handlers
    <3>3. \A y \in Handlers \ {x} : run'[y] = run[y]
      BY <1>0, <3>1 DEF Fail, FailRead, FailCommit, Goto, Finish
    <3> QED
      BY <2>1, <2>3, <3>2, <3>3
  <2>7. CASE \E r \in Requests : ConfirmManually(r)
    <3>1. PICK x \in Requests : ConfirmManually(x)
      BY <2>7
    <3>2. x \in Handlers \ Reconcilers
      BY DisjointAssumption DEF Handlers
    <3>3. \A y \in Handlers \ {x} : run'[y] = run[y]
      BY <1>0, <3>1
      DEF ConfirmManually, ManualRead, ManualDupCheck, ManualVerify, ManualCommit,
          ManualConflict, Goto, Finish
    <3> QED
      BY <2>1, <2>3, <3>2, <3>3
  <2>8. CASE \E r \in Refunds : Refund(r)
    <3>1. PICK x \in Refunds : Refund(x)
      BY <2>8
    <3>2. x \in Handlers \ Reconcilers
      BY DisjointAssumption DEF Handlers
    <3>3. \A y \in Handlers \ {x} : run'[y] = run[y]
      BY <1>0, <3>1 DEF Refund, RefundRead, RefundCommit, Goto
    <3> QED
      BY <2>1, <2>3, <3>2, <3>3
  <2>9. CASE \E x \in Payments \union Requests \union Refunds : Announce(x)
    <3>1. PICK x \in Payments \union Requests \union Refunds : Announce(x)
      BY <2>9
    <3>2. x \in Handlers \ Reconcilers
      BY DisjointAssumption DEF Handlers
    <3>3. \A y \in Handlers \ {x} : run'[y] = run[y]
      BY <1>0, <3>1 DEF Announce, Finish
    <3> QED
      BY <2>1, <2>3, <3>2, <3>3
  <2>10. CASE \E x \in Handlers \ Reconcilers : HandlerFails(x)
    <3>1. PICK x \in Handlers \ Reconcilers : HandlerFails(x)
      BY <2>10
    <3>2. \A y \in Handlers \ {x} : run'[y] = run[y]
      BY <1>0, <3>1 DEF HandlerFails, Goto, Finish
    <3> QED
      BY <2>1, <2>3, <3>2
  <2>11. CASE \/ \E p \in Payments : CreateIntent(p) \/ WindowPasses(p)
              \/ \E h \in Hashes : ChainMoves(h)
              \/ \E s \in Sweepers : Sweep(s) \/ SweepFails(s)
    BY <2>2, <2>11
    DEF CreateIntent, WindowPasses, ChainMoves, Sweep, SweepRead, SweepExpire, SweepLog, SweepFails
  <2> QED
    BY <1>4, <2>1, <2>4, <2>5, <2>6, <2>7, <2>8, <2>9, <2>10, <2>11 DEF Next
<1> QED
  BY <1>1, <1>2, <1>3, <1>4

LEMMA EvidenceStep ==
  TypeOK /\ Inductive /\ Evidence /\ SettledIsFunded /\ [Next]_vars
    => Evidence' /\ SettledIsFunded'
<1> SUFFICES ASSUME TypeOK, Inductive, Evidence, SettledIsFunded, [Next]_vars
             PROVE  Evidence' /\ SettledIsFunded'
  OBVIOUS
<1>0. TypeOK' /\ Inductive'
  BY StepPreserves
<1>1. CASE Next
  <2>1. Backed
    BY <1>1, DetectBacked, FailBacked, PollBacked, TransferBacked, ManualBacked, ClientBacked,
       ReconBacked, TablesBacked DEF Next
  <2> QED
    BY <1>0, <1>1, <2>1, ChainGrows, FetchesStep, BackedStep
<1>2. CASE UNCHANGED vars
  <2>1. Backed /\ UNCHANGED <<chain, included, run, fetched>>
    BY <1>2 DEF vars, rowVars, bookVars, worldVars, cronVars, Evidence, Backed
  <2> QED
    BY <1>0, <2>1, BackedStep DEF Evidence
<1> QED
  BY <1>1, <1>2

\* The ledger is credited only for a payment whose address received its amount,
\* less the tolerance, in transactions that were in a block, whether listener,
\* reconciliation or manual confirmation settled it.
THEOREM SettlementsAreFunded == Spec => []SettledIsFunded
<1>1. Init => Evidence /\ SettledIsFunded
  BY FS_EmptySet, Resting DEF Init, Evidence, SettledIsFunded, Carries, Fetches, Idle, NoRow, InBlock
<1> QED
  BY <1>1, EvidenceStep, InductiveInvariant, PTL DEF Spec

-----------------------------------------------------------------------------
(* One transfer pays one payment, unless a reconciliation added it up.      *)

\* What the payments in S are due, less the tolerance of each.
Owed(S) == MapThenSumSet(LAMBDA p : Amount[p] - Tolerance, S)

OwedAdds(g, F) ==
  g = [s \in F |-> IF s = {} THEN 0 ELSE (Amount[Some(s)] - Tolerance) + g[s \ {Some(s)}]]

LEMMA OwedDef == ASSUME NEW S PROVE Owed(S) = (CHOOSE g : OwedAdds(g, SUBSET S))[S]
BY DEF Owed, MapThenSumSet, MapThenFoldSet, OwedAdds, Some

LEMMA OwedWeighs ==
  ASSUME NEW S, NEW V \in SUBSET S, NEW g
  PROVE  OwedAdds(g, SUBSET V) <=> Adds([p \in S |-> Amount[p] - Tolerance], g, SUBSET V)
<1>1. \A s \in SUBSET V : s # {} =>
        [p \in S |-> Amount[p] - Tolerance][Some(s)] = Amount[Some(s)] - Tolerance
  BY SomeIn
<1> QED
  BY <1>1 DEF OwedAdds, Adds

LEMMA OwedUnfolds ==
  ASSUME NEW S, IsFiniteSet(S)
  PROVE  Owed(S) = IF S = {} THEN 0 ELSE (Amount[Some(S)] - Tolerance) + Owed(S \ {Some(S)})
<1> DEFINE T == S \ {Some(S)}
           w == [p \in S |-> Amount[p] - Tolerance]
           g == CHOOSE f : OwedAdds(f, SUBSET S)
           h == CHOOSE f : OwedAdds(f, SUBSET T)
<1>1. IsFiniteSet(T) /\ T \in SUBSET S /\ S \in SUBSET S
  BY FS_Subset
<1>2. (\E f : OwedAdds(f, SUBSET S)) /\ (\E f : OwedAdds(f, SUBSET T))
  <2> HIDE DEF T, w
  <2>1. (\E f : Adds(w, f, SUBSET S)) /\ (\E f : Adds(w, f, SUBSET T))
    BY <1>1, AddsExists
  <2> QED
    BY <1>1, <2>1, OwedWeighs DEF w
<1>3. OwedAdds(g, SUBSET S) /\ OwedAdds(h, SUBSET T)
  BY <1>2
<1>4. Owed(S) = g[S] /\ Owed(T) = h[T]
  BY OwedDef
<1> HIDE DEF g, h
<1>5. Adds(w, g, SUBSET S) /\ Adds(w, h, SUBSET T)
  BY <1>1, <1>3, OwedWeighs
<1>6. S # {} => w[Some(S)] = Amount[Some(S)] - Tolerance
  BY SomeIn
<1> HIDE DEF w
<1>7. g[S] = IF S = {} THEN 0 ELSE w[Some(S)] + h[T]
  BY <1>5, AddsUnfolds
<1> QED
  BY <1>4, <1>6, <1>7

\* Payments that a transfer each covers are due no more than the transfers bring.
LEMMA OwedIsCovered ==
  ASSUME NEW W, Summable(W), NEW D \in SUBSET Payments, NEW f \in Injection(D, W),
         \A p \in D : Covers(f[p].value, p)
  PROVE  Owed(D) <= Value(W)
<1> DEFINE Image(s) == {f[p] : p \in s}
           I == {n \in Nat : \A s \in SUBSET D :
                   Cardinality(s) = n => Owed(s) \in Int /\ Owed(s) <= Value(Image(s))}
<1>1. IsFiniteSet(D) /\ IsFiniteSet(W)
  BY FS_Injection DEF Summable
<1>2. \A s \in SUBSET D : IsFiniteSet(s) /\ Cardinality(s) \in Nat
  BY <1>1, FS_Subset, FS_CardinalityType
<1>3. /\ f \in [D -> W] /\ \A p, q \in D : f[p] = f[q] => p = q
      /\ \A p \in D : Amount[p] \in Nat /\ f[p].value \in Nat /\ f[p].value + 1 >= Amount[p]
  BY AmountAssumption DEF Injection, IsInjective, Summable, Covers, Tolerance
<1>4. \A s \in SUBSET D : Image(s) \in SUBSET W /\ Summable(Image(s)) /\ Value(Image(s)) \in Nat
  <2> SUFFICES ASSUME NEW s \in SUBSET D
               PROVE  Image(s) \in SUBSET W /\ Summable(Image(s)) /\ Value(Image(s)) \in Nat
    OBVIOUS
  <2>1. Image(s) \in SUBSET W
    BY <1>3
  <2> HIDE DEF Image
  <2>2. Summable(Image(s))
    BY <1>1, <2>1, FS_Subset DEF Summable
  <2> QED
    BY <2>1, <2>2, ValueIsNat
<1>5. 0 \in I
  <2>1. \A s \in SUBSET D : Cardinality(s) = 0 => s = {}
    BY <1>2, FS_EmptySet
  <2>2. Owed({}) = 0
    BY FS_EmptySet, OwedUnfolds
  <2>3. \A s \in SUBSET D : Cardinality(s) = 0 => Owed(s) = 0 /\ Value(Image(s)) \in Nat
    BY <1>4, <2>1, <2>2, Zenon
  <2> HIDE DEF Image
  <2> QED
    BY <2>3
<1>6. ASSUME NEW n \in Nat, n \in I PROVE n + 1 \in I
  <2> SUFFICES ASSUME NEW s \in SUBSET D, Cardinality(s) = n + 1
               PROVE  Owed(s) \in Int /\ Owed(s) <= Value(Image(s))
    OBVIOUS
  <2> DEFINE x == Some(s)
             r == s \ {x}
  <2>1. x \in s /\ s # {} /\ Cardinality(r) = n
    BY <1>2, OneLess, Zenon
  <2>2. Owed(s) = (Amount[x] - Tolerance) + Owed(r)
    BY <1>2, <2>1, OwedUnfolds
  <2>3. Owed(r) \in Int /\ Owed(r) <= Value(Image(r)) /\ Value(Image(r)) \in Nat
    <3>1. r \in SUBSET D
      OBVIOUS
    <3> QED
      BY <1>4, <1>6, <2>1, <3>1
  <2> HIDE DEF x
  <2>4. Image(s) \ {f[x]} = Image(r) /\ f[x] \in Image(s)
    BY <1>3, <2>1
  <2>5. Value(Image(s)) = f[x].value + Value(Image(s) \ {f[x]})
    <3>1. Summable(Image(s))
      BY <1>4
    <3> HIDE DEF Image
    <3> QED
      BY <2>4, <3>1, ValueWithout
  <2>6. Amount[x] \in Nat /\ f[x].value \in Nat /\ f[x].value + 1 >= Amount[x]
    BY <1>3, <2>1
  <2> HIDE DEF Image, r
  <2>7. Value(Image(s)) = f[x].value + Value(Image(r))
    BY <2>4, <2>5
  <2> QED
    BY <2>2, <2>3, <2>6, <2>7 DEF Tolerance
<1>7. Cardinality(D) \in I
  <2> HIDE DEF I
  <2> QED
    BY <1>2, <1>5, <1>6, Induction
<1>8. Owed(D) \in Int /\ Owed(D) <= Value(Image(D)) /\ Image(D) \in SUBSET W
  BY <1>4, <1>7
<1> HIDE DEF Image
<1>9. Value(Image(D)) <= Value(W) /\ Value(Image(D)) \in Nat /\ Value(W) \in Nat
  BY <1>8, ValueGrows
<1> QED
  BY <1>8, <1>9

\* A transfer that arrived and pays the payment alone, and a transaction with one.
Pays(t, p) == t.to = Wallet[p] /\ t.tx \in included /\ Covers(t.value, p)
PaidBy(h, p) == \E t \in Transfers : t.tx = h /\ Pays(t, p)

\* What handler x knows at the state r of the transaction it is about to bind; a
\* reconciler has it only with the transfers it adds up.
Knows(x, r) ==
  /\ x \in Jobs /\ r.pc = "matched" => r.tx = TransferOf[x].tx
  /\ r.pc \in {"detecting", "detectCommit", "manualCommit"} =>
       /\ r.tx \in Hashes /\ r.tx \in included
       /\ x \notin Reconcilers => PaidBy(r.tx, r.pay)
  /\ r.pc \in {"countCommit", "settleCommit"} => row[r.pay].tx # NoTx

\* A row is bound to a transaction that pays it alone, unless a reconciliation
\* bound it on several, and it stays bound from its confirmation on.
Bound ==
  /\ \A p \in Payments \ summed : row[p].tx # NoTx => PaidBy(row[p].tx, p)
  /\ \A p \in Payments : row[p].status = "CONFIRMING" \/ settled[p] > 0 => row[p].tx # NoTx
  /\ \A x \in Handlers : Knows(x, run[x])

\* Rows bound to different transactions are paid by different transfers.
LEMMA BoundCountsOnce ==
  ASSUME TypeOK, Evidence, TxHashUnique, Bound
  PROVE  TransfersCountOnce
<1> SUFFICES ASSUME NEW w \in {Wallet[p] : p \in Payments}
             PROVE  Owed({p \in Payments \ summed : Wallet[p] = w /\ settled[p] > 0})
                      <= Value(Arrived(w))
  BY DEF TransfersCountOnce, Due, Owed
<1> DEFINE D == {p \in Payments \ summed : Wallet[p] = w /\ settled[p] > 0}
           f == [p \in D |-> CHOOSE t \in Transfers : t.tx = row[p].tx /\ Pays(t, p)]
<1>1. \A p \in D : f[p] \in Transfers /\ f[p].tx = row[p].tx /\ Pays(f[p], p) /\ row[p].tx # NoTx
  BY DEF Bound, PaidBy
<1>2. f \in [D -> Arrived(w)]
  BY <1>1 DEF Pays, Arrived
<1>3. \A p \in D : Covers(f[p].value, p)
  BY <1>1 DEF Pays
<1> HIDE DEF f
<1>4. \A p, q \in D : f[p] = f[q] => p = q
  <2> SUFFICES ASSUME NEW p \in D, NEW q \in D, f[p] = f[q] PROVE p = q
    OBVIOUS
  <2>1. row[p].tx = row[q].tx /\ row[p].tx # NoTx
    BY <1>1
  <2> QED
    BY <2>1 DEF TxHashUnique
<1>5. f \in Injection(D, Arrived(w)) /\ D \in SUBSET Payments
  BY <1>2, <1>4 DEF Injection, IsInjective
<1>6. Summable(Arrived(w))
  BY ArrivalsAddUp DEF Evidence
<1> QED
  BY <1>3, <1>5, <1>6, OwedIsCovered

\* What a step does with what the handlers know.
Keeps ==
  /\ summed \subseteq summed'
  /\ \A y \in Handlers : Knows(y, run'[y])
  /\ \A p \in Payments :
       \/ row'[p].tx # NoTx /\ (p \in summed' \/ PaidBy(row'[p].tx, p))
       \/ /\ row'[p].tx = row[p].tx
          /\ row'[p].status = "CONFIRMING" \/ settled'[p] > 0 => row[p].tx # NoTx

LEMMA KeepsStep ==
  ASSUME TypeOK, Inductive', Bound, Keeps, included \subseteq included'
  PROVE  Bound'
<1>1. \A h, p : PaidBy(h, p) => PaidBy(h, p)' /\ h # NoTx
  BY TransferAssumption, DisjointAssumption DEF PaidBy, Pays, Covers
<1>2. \A p \in Payments : row[p].tx # NoTx => row'[p].tx # NoTx
  BY <1>1 DEF Keeps
<1>3. \A p \in Payments \ summed' : row'[p].tx # NoTx => PaidBy(row[p].tx, p)'
  BY <1>1 DEF Keeps, Bound, PaidBy, Pays
<1>4. \A p \in Payments : row'[p].status = "CONFIRMING" \/ settled'[p] > 0 => row'[p].tx # NoTx
  BY <1>1 DEF Keeps
<1>5. ASSUME NEW x \in Handlers
      PROVE  Knows(x, run[x])'
  <2>1. Knows(x, run'[x]) /\ PlacedAt(x)'
    BY DEF Keeps, Inductive, Poised
  <2>2. run'[x].pc \in {"countCommit", "settleCommit"} => run'[x].pay \in Payments
    BY <2>1 DEF PlacedAt
  <2>3. run'[x].pc \in {"countCommit", "settleCommit"} => row'[run'[x].pay].tx # NoTx
    BY <1>2, <2>1, <2>2 DEF Knows
  <2>4. run'[x].pc \in {"detecting", "detectCommit", "manualCommit"} =>
          /\ run'[x].tx \in Hashes /\ run'[x].tx \in included'
          /\ x \notin Reconcilers => PaidBy(run[x].tx, run[x].pay)'
    BY <1>1, <2>1 DEF Knows, PaidBy, Pays
  <2> QED
    BY <2>1, <2>3, <2>4 DEF Knows
<1> QED
  BY <1>3, <1>4, <1>5 DEF Bound

LEMMA OneLearns ==
  ASSUME Bound, UNCHANGED <<row, summed, settled>>, NEW x \in Handlers,
         \A y \in Handlers \ {x} : run'[y] = run[y], Knows(x, run'[x])
  PROVE  Keeps
BY DEF Bound, Keeps

LEMMA DetectKeeps ==
  ASSUME TypeOK, Inductive, Bound, NEW x \in Jobs \union Reconcilers, Detect(x)
  PROVE  Keeps
<1> USE DEF rowVars, bookVars
<1>0. x \in Handlers /\ Knows(x, run[x]) /\ run \in [Handlers -> HandlerState]
  BY AtWork DEF Handlers, Bound
<1>1. CASE DetectRead(x)
  <2>1. /\ run'[x].pc \in {"detectCommit", "enqueue"}
        /\ run'[x].pay = run[x].pay /\ run'[x].tx = run[x].tx
        /\ \A y \in Handlers \ {x} : run'[y] = run[y]
    BY <1>0, <1>1 DEF DetectRead, Goto, HandlerState
  <2>2. Knows(x, run'[x])
    BY <1>0, <1>1, <2>1 DEF DetectRead, Knows
  <2> QED
    BY <1>0, <1>1, <2>1, <2>2, OneLearns DEF DetectRead
<1>2. CASE DetectCommit(x)
  <2>1. PICK p \in Payments : p = run[x].pay
    BY <1>0, <1>2, AtWork DEF DetectCommit, PlacedAt
  <2>2. row'[p].tx = run[x].tx /\ \A q \in Payments \ {p} : row'[q] = row[q]
    BY <1>2, <2>1 DEF DetectCommit, WriteRow, TypeOK
  <2>3. /\ row'[p].tx # NoTx /\ summed \subseteq summed'
        /\ p \in summed' \/ PaidBy(row'[p].tx, p)
    BY <1>0, <1>2, <2>1, <2>2, DisjointAssumption DEF DetectCommit, Knows, PaysAlone, PaidBy, Pays
  <2>4. /\ run'[x].pc = "enqueue" /\ \A y \in Handlers \ {x} : run'[y] = run[y]
    BY <1>0, <1>2 DEF DetectCommit, Goto, HandlerState
  <2> QED
    BY <1>2, <2>2, <2>3, <2>4 DEF DetectCommit, Bound, Keeps, Knows
<1>3. CASE DetectConflict(x)
  <2>1. /\ run'[x].pc \in {"queued", "done", "scan"}
        /\ \A y \in Handlers \ {x} : run'[y] = run[y]
    BY <1>0, <1>3, Resting DEF DetectConflict, Goto, Finish, HandlerState
  <2> QED
    BY <1>0, <1>3, <2>1, OneLearns DEF DetectConflict, Knows
<1>4. CASE EnqueueConfirm(x)
  <2>1. PICK p \in Payments : p = run[x].pay
    BY <1>0, <1>4, AtWork, DisjointAssumption DEF EnqueueConfirm, PlacedAt
  <2>2. \A y \in Handlers : run'[y] = run[y] \/ run'[y].pc \in {"done", "scan", "queued"}
    BY <1>0, <1>4, <2>1, Resting DEF EnqueueConfirm, AddConfirmJob
  <2> QED
    BY <1>4, <2>2 DEF EnqueueConfirm, Bound, Keeps, Knows
<1> QED
  BY <1>1, <1>2, <1>3, <1>4 DEF Detect

LEMMA FailKeeps ==
  ASSUME TypeOK, Inductive, Bound, NEW x \in Jobs \union Payments, Fail(x)
  PROVE  Keeps
<1> USE DEF rowVars, bookVars
<1>0. x \in Handlers /\ run \in [Handlers -> HandlerState]
  BY AtWork DEF Handlers
<1>1. /\ run'[x].pc \in {"done", "failCommit"}
      /\ \A y \in Handlers \ {x} : run'[y] = run[y]
  BY <1>0, Resting DEF Fail, FailRead, FailCommit, Goto, Finish, HandlerState
<1>2. CASE FailRead(x)
  BY <1>0, <1>1, <1>2, OneLearns DEF FailRead, Knows
<1>3. CASE FailCommit(x)
  <2>1. \A p \in Payments :
          row'[p].tx = row[p].tx /\ (row'[p].status = "CONFIRMING" => row[p].status = "CONFIRMING")
    BY <1>3 DEF FailCommit, WriteRow, TypeOK
  <2> QED
    BY <1>1, <1>3, <2>1 DEF FailCommit, Bound, Keeps, Knows
<1> QED
  BY <1>2, <1>3 DEF Fail

LEMMA PollKeeps ==
  ASSUME TypeOK, Inductive, Bound, NEW p \in Payments, PollConfirmation(p) \/ ForgetJob(p)
  PROVE  Keeps
<1> USE DEF rowVars, bookVars
<1>0. /\ p \in Handlers /\ p \notin Jobs /\ Knows(p, run[p])
      /\ run \in [Handlers -> HandlerState]
      /\ run[p].pc \notin {"idle", "done"} => run[p].pay = p
  BY AtWork, DisjointAssumption DEF Handlers, Bound, PlacedAt
<1>1. \A y \in Handlers \ {p} : run'[y] = run[y]
  BY <1>0
  DEF PollConfirmation, PollStart, PollReceipt, PollRecord, UpdateRead, CountCommit,
      SettleCommit, PollRecheck, ForgetJob, AddConfirmJob, Goto, Finish
<1>2. CASE UpdateRead(p)
  <2>1. \/ run'[p].pc \in {"recheck", "done"}
        \/ /\ row[p].status = "CONFIRMING" /\ run'[p].pay = p
           /\ run'[p].pc \in {"countCommit", "settleCommit"}
    BY <1>0, <1>2, Resting DEF UpdateRead, Goto, Finish, HandlerState
  <2>2. Knows(p, run'[p])
    BY <1>0, <2>1 DEF Knows, Bound
  <2> QED
    BY <1>0, <1>1, <1>2, <2>2, OneLearns DEF UpdateRead
<1>3. CASE CountCommit(p) \/ SettleCommit(p)
  <2>1. run'[p].pc \in {"recheck", "announce"} /\ row[p].tx # NoTx
    BY <1>0, <1>3 DEF CountCommit, SettleCommit, Knows, Goto, HandlerState
  <2>2. /\ row'[p].tx = row[p].tx
        /\ \A q \in Payments \ {p} : row'[q] = row[q] /\ settled'[q] = settled[q]
    BY <1>3 DEF CountCommit, SettleCommit, WriteRow, TypeOK
  <2> QED
    BY <1>0, <1>1, <1>3, <2>1, <2>2 DEF CountCommit, SettleCommit, Bound, Keeps, Knows
<1>4. CASE PollStart(p) \/ PollReceipt(p) \/ PollRecord(p) \/ PollRecheck(p) \/ ForgetJob(p)
  <2>1. run'[p].pc \in {"polling", "done", "recheck", "recordFailed", "recordShallow",
                        "recordDeep", "failing", "countRead", "settleRead", "idle"}
    BY <1>0, <1>4, Resting
    DEF PollStart, PollReceipt, PollRecord, PollRecheck, ForgetJob, AddConfirmJob, Goto, Finish,
        HandlerState
  <2>2. Knows(p, run'[p])
    BY <1>0, <2>1 DEF Knows
  <2> QED
    BY <1>0, <1>1, <1>4, <2>2, OneLearns
    DEF PollStart, PollReceipt, PollRecord, PollRecheck, ForgetJob
<1> QED
  BY <1>2, <1>3, <1>4 DEF PollConfirmation

\* A transfer is matched to a payment on its address and pays it if it covers it.
LEMMA TransferKeeps ==
  ASSUME TypeOK, Inductive, Evidence, Bound, NEW j \in Jobs, ProcessTransfer(j)
  PROVE  Keeps
<1> USE DEF rowVars, bookVars
<1> DEFINE t == TransferOf[j]
<1>0. /\ j \in Handlers /\ Carries(j, run[j]) /\ Knows(j, run[j])
      /\ run \in [Handlers -> HandlerState] /\ t \in Transfers /\ t.tx \in Hashes
  BY AtWork, TransferAssumption DEF Handlers, Evidence, Bound
<1>1. /\ \A y \in Handlers \ {j} : run'[y] = run[y]
      /\ UNCHANGED <<row, summed, settled>>
  BY <1>0 DEF ProcessTransfer, TransferSeen, MatchTransfer, PersistTransfer, Goto, Finish
<1>2. CASE TransferSeen(j)
  <2>1. run'[j].pc = "queued"
    BY <1>0, <1>2 DEF TransferSeen, Goto, HandlerState
  <2> QED
    BY <1>0, <1>1, <2>1, OneLearns DEF Knows
<1>3. CASE MatchTransfer(j)
  <2>1. \/ run'[j].pc = "done"
        \/ run'[j].pc = "matched" /\ run'[j].tx = t.tx
    BY <1>0, <1>3, Resting DEF MatchTransfer, Finish
  <2>2. Knows(j, run'[j])
    BY <2>1 DEF Knows
  <2> QED
    BY <1>0, <1>1, <2>2, OneLearns
<1>4. CASE PersistTransfer(j)
  <2>1. PICK p \in Payments : p = run[j].pay
    BY <1>0, <1>4, AtWork DEF PersistTransfer, PlacedAt
  <2>2. /\ run'[j].pc = (IF Covers(t.value, p) THEN "detecting" ELSE "failing")
        /\ run'[j].pay = p /\ run'[j].tx = t.tx
    BY <1>0, <1>4, <2>1 DEF PersistTransfer, Goto, HandlerState, Knows
  <2>3. t.tx \in included /\ (Covers(t.value, p) => Pays(t, p))
    BY <1>0, <1>4, <2>1 DEF PersistTransfer, Carries, Pays
  <2>4. Knows(j, run'[j])
    BY <1>0, <2>2, <2>3 DEF Knows, PaidBy
  <2> QED
    BY <1>0, <1>1, <2>4, OneLearns
<1> QED
  BY <1>2, <1>3, <1>4 DEF ProcessTransfer

LEMMA ManualKeeps ==
  ASSUME TypeOK, Inductive, Evidence, Bound, NEW r \in Requests, ConfirmManually(r)
  PROVE  Keeps
<1> USE DEF rowVars, bookVars
<1>0. r \in Handlers /\ r \notin Jobs /\ r \notin Reconcilers /\ Knows(r, run[r]) /\ run \in [Handlers -> HandlerState]
  BY AtWork, DisjointAssumption DEF Handlers, Bound
<1>1. \A y \in Handlers \ {r} : run'[y] = run[y]
  BY <1>0
  DEF ConfirmManually, ManualRead, ManualDupCheck, ManualVerify, ManualCommit, ManualConflict,
      Goto, Finish
<1>2. CASE ManualRead(r) \/ ManualDupCheck(r) \/ ManualConflict(r)
  <2>1. run'[r].pc \in {"dupCheck", "verify", "done"}
    BY <1>0, <1>2, Resting
    DEF ManualRead, ManualDupCheck, ManualConflict, Goto, Finish, HandlerState
  <2>2. Knows(r, run'[r])
    BY <1>0, <2>1 DEF Knows
  <2> QED
    BY <1>0, <1>1, <1>2, <2>2, OneLearns DEF ManualRead, ManualDupCheck, ManualConflict
<1>3. CASE ManualVerify(r)
  <2>1. PICK p \in Payments : p = run[r].pay
    BY <1>0, <1>3, AtWork DEF ManualVerify, PlacedAt
  <2>2. CASE chain[run[r].tx] \in InBlock /\ ProvesPayment(run[r].tx, p)
    <3>1. PICK t \in Transfers : t.tx = run[r].tx /\ t.to = Wallet[p] /\ t.value >= Amount[p]
      BY <2>2 DEF ProvesPayment
    <3>2. t.tx \in Hashes /\ t.value \in Nat /\ Amount[p] \in Nat
      BY TransferAssumption, AmountAssumption
    <3>3. Pays(t, p)
      BY <2>2, <3>1, <3>2 DEF Evidence, Pays, Covers, Tolerance
    <3>4. run'[r].pc = "manualCommit" /\ run'[r].pay = p /\ run'[r].tx = t.tx
      BY <1>0, <1>3, <2>1, <2>2, <3>1 DEF ManualVerify, Goto, HandlerState
    <3>5. Knows(r, run'[r])
      BY <1>0, <3>2, <3>3, <3>4 DEF Knows, PaidBy, Pays
    <3> QED
      BY <1>0, <1>1, <1>3, <3>5, OneLearns DEF ManualVerify
  <2>3. CASE ~(chain[run[r].tx] \in InBlock /\ ProvesPayment(run[r].tx, p))
    <3>1. run'[r].pc = "done"
      BY <1>0, <1>3, <2>1, <2>3, Resting DEF ManualVerify, Finish
    <3>2. Knows(r, run'[r])
      BY <1>0, <3>1 DEF Knows
    <3> QED
      BY <1>0, <1>1, <1>3, <3>2, OneLearns DEF ManualVerify
  <2> QED
    BY <2>2, <2>3
<1>4. CASE ManualCommit(r)
  <2>1. PICK p \in Payments : p = run[r].pay
    BY <1>0, <1>4, AtWork DEF ManualCommit, PlacedAt
  <2>2. row'[p].tx = run[r].tx /\ run'[r].pc = "announce"
    BY <1>0, <1>4, <2>1 DEF ManualCommit, WriteRow, Goto, HandlerState, TypeOK
  <2>3. PaidBy(row'[p].tx, p) /\ row'[p].tx # NoTx
    BY <1>0, <1>4, <2>1, <2>2, DisjointAssumption DEF ManualCommit, Knows
  <2>4. \A q \in Payments \ {p} : row'[q] = row[q] /\ settled'[q] = settled[q]
    BY <1>4, <2>1 DEF ManualCommit, WriteRow, TypeOK
  <2> QED
    BY <1>0, <1>1, <1>4, <2>2, <2>3, <2>4 DEF ManualCommit, Bound, Keeps, Knows
<1> QED
  BY <1>2, <1>3, <1>4 DEF ConfirmManually

LEMMA ClientKeeps ==
  ASSUME TypeOK, Inductive, Bound,
         \/ \E r \in Refunds : Refund(r)
         \/ \E x \in Payments \union Requests \union Refunds : Announce(x)
         \/ \E x \in Handlers \ Reconcilers : HandlerFails(x)
  PROVE  Keeps
<1> USE DEF rowVars, bookVars
<1>1. ASSUME NEW r \in Refunds, Refund(r)
      PROVE  Keeps
  <2>0. r \in Handlers /\ r \notin Jobs /\ run \in [Handlers -> HandlerState]
    BY AtWork, DisjointAssumption DEF Handlers
  <2>1. /\ run'[r].pc \in {"refundCommit", "announce"}
        /\ \A y \in Handlers \ {r} : run'[y] = run[y]
    BY <1>1, <2>0 DEF Refund, RefundRead, RefundCommit, Goto, HandlerState
  <2>2. \A p \in Payments :
          row'[p].tx = row[p].tx /\ (row'[p].status = "CONFIRMING" => row[p].status = "CONFIRMING")
    <3>1. CASE RefundRead(r)
      BY <3>1 DEF RefundRead
    <3>2. CASE RefundCommit(r)
      BY <3>2 DEF RefundCommit, WriteRow, TypeOK
    <3> QED
      BY <1>1, <3>1, <3>2 DEF Refund
  <2>3. UNCHANGED <<summed, settled>>
    BY <1>1 DEF Refund, RefundRead, RefundCommit
  <2> QED
    BY <2>0, <2>1, <2>2, <2>3 DEF Bound, Keeps, Knows
<1>2. ASSUME NEW x \in Payments \union Requests \union Refunds, Announce(x)
      PROVE  Keeps
  <2>0. x \in Handlers /\ run \in [Handlers -> HandlerState]
    BY AtWork DEF Handlers
  <2>1. run'[x].pc = "done" /\ \A y \in Handlers \ {x} : run'[y] = run[y]
    BY <1>2, <2>0, Resting DEF Announce, Finish
  <2> QED
    BY <1>2, <2>0, <2>1, OneLearns DEF Announce, Knows
<1>3. ASSUME NEW x \in Handlers \ Reconcilers, HandlerFails(x)
      PROVE  Keeps
  <2>0. run \in [Handlers -> HandlerState]
    BY AtWork
  <2>1. run'[x].pc \in {"queued", "done"} /\ \A y \in Handlers \ {x} : run'[y] = run[y]
    BY <1>3, <2>0, Resting DEF HandlerFails, Goto, Finish, HandlerState
  <2> QED
    BY <1>3, <2>0, <2>1, OneLearns DEF HandlerFails, Knows
<1> QED
  BY <1>1, <1>2, <1>3

\* The transaction a reconciler goes on with was in a block.
LEMMA ReconKeeps ==
  ASSUME TypeOK, Inductive, Evidence, Bound, NEW r \in Reconcilers, Reconcile(r) \/ ReconFails(r)
  PROVE  Keeps
<1> USE DEF rowVars, bookVars
<1>0. r \in Handlers /\ r \notin Jobs /\ Knows(r, run[r]) /\ run \in [Handlers -> HandlerState]
  BY AtWork, DisjointAssumption DEF Handlers, Bound
<1>1. /\ \A y \in Handlers \ {r} : run'[y] = run[y]
      /\ UNCHANGED <<row, summed, settled>>
  BY <1>0 DEF Reconcile, ReconRead, ReconHead, ReconFetch, ReconSum, ReconEnd, ReconFails, GoOn, Goto
<1>2. CASE ~ReconSum(r)
  <2>1. run'[r] = run[r] \/ run'[r].pc \in {"scan", "idle", "fetch", "sum"}
    BY <1>0, <1>2, Resting
    DEF Reconcile, ReconRead, ReconHead, ReconFetch, ReconEnd, ReconFails, GoOn, Goto, HandlerState
  <2>2. Knows(r, run'[r])
    BY <1>0, <2>1 DEF Knows
  <2> QED
    BY <1>0, <1>1, <2>2, OneLearns
<1>3. CASE ReconSum(r)
  <2>1. \A t \in fetched[r] : t.tx \in included /\ t \in Transfers /\ t.tx \in Hashes
    BY <1>3, TransferAssumption DEF ReconSum, Evidence, Fetches, TypeOK
  <2>2. \/ run'[r].pc = "scan"
        \/ run'[r].pc = "detecting" /\ \E t \in fetched[r] : run'[r].tx = t.tx
    BY <1>0, <1>3, Resting DEF ReconSum, GoOn, NewLogs
  <2>3. Knows(r, run'[r])
    BY <1>0, <2>1, <2>2 DEF Knows
  <2> QED
    BY <1>0, <1>1, <2>3, OneLearns
<1> QED
  BY <1>2, <1>3

LEMMA TablesKeep ==
  ASSUME TypeOK, Inductive, Bound,
         \/ \E p \in Payments : CreateIntent(p) \/ WindowPasses(p)
         \/ \E h \in Hashes : ChainMoves(h)
         \/ \E s \in Sweepers : Sweep(s) \/ SweepFails(s)
  PROVE  Keeps
<1> USE DEF rowVars, bookVars
<1>1. UNCHANGED <<run, summed, settled>>
  BY DEF CreateIntent, WindowPasses, ChainMoves, Sweep, SweepRead, SweepExpire, SweepLog, SweepFails
<1>2. \A p \in Payments :
        row'[p].tx = row[p].tx /\ (row'[p].status = "CONFIRMING" => row[p].status = "CONFIRMING")
  <2>1. ASSUME NEW s \in Sweepers, SweepExpire(s)
        PROVE  \A p \in Payments :
                 row'[p].tx = row[p].tx /\ (row'[p].status = "CONFIRMING" => row[p].status = "CONFIRMING")
    BY <2>1 DEF SweepExpire, WriteRow, TypeOK
  <2>2. ASSUME NEW q \in Payments, CreateIntent(q)
        PROVE  \A p \in Payments :
                 row'[p].tx = row[p].tx /\ (row'[p].status = "CONFIRMING" => row[p].status = "CONFIRMING")
    BY <2>2 DEF CreateIntent, TypeOK
  <2> QED
    BY <2>1, <2>2 DEF WindowPasses, ChainMoves, Sweep, SweepRead, SweepLog, SweepFails
<1> QED
  BY <1>1, <1>2 DEF Bound, Keeps

LEMMA BoundStep ==
  TypeOK /\ Inductive /\ Evidence /\ Bound /\ [Next]_vars => Bound'
<1> SUFFICES ASSUME TypeOK, Inductive, Evidence, Bound, [Next]_vars PROVE Bound'
  OBVIOUS
<1>0. Inductive'
  BY StepPreserves
<1>1. CASE Next
  <2>1. Keeps
    BY <1>1, DetectKeeps, FailKeeps, PollKeeps, TransferKeeps, ManualKeeps, ClientKeeps,
       ReconKeeps, TablesKeep DEF Next
  <2> QED
    BY <1>0, <1>1, <2>1, ChainGrows, KeepsStep
<1>2. CASE UNCHANGED vars
  <2>1. Keeps /\ UNCHANGED included
    BY <1>2 DEF vars, rowVars, bookVars, worldVars, Bound, Keeps
  <2> QED
    BY <1>0, <2>1, KeepsStep
<1> QED
  BY <1>1, <1>2

\* A transfer pays for one payment only: what was settled on a deposit address
\* never exceeds what arrived there, although intents share addresses, both
\* listeners and the reconciliation report a transfer, and the manual
\* confirmation's check of the hash and its write are apart.  Left out are the
\* payments a reconciliation confirmed on several transfers together.
THEOREM TransfersPayOnce == Spec => []TransfersCountOnce
<1>1. Init => Evidence /\ SettledIsFunded
  BY FS_EmptySet, Resting DEF Init, Evidence, SettledIsFunded, Carries, Fetches, Idle, NoRow, InBlock
<1>2. Init => Bound
  BY Resting DEF Init, Bound, Knows, NoRow
<1>3. TypeOK /\ Inductive /\ Evidence /\ Bound => TransfersCountOnce
  BY BoundCountsOnce DEF Inductive
<1> QED
  BY <1>1, <1>2, <1>3, EvidenceStep, BoundStep, InductiveInvariant, PTL DEF Spec

-----------------------------------------------------------------------------
(* The audit trail.                                                        *)

Events == Seq(RowStatus \X RowStatus)

LEMMA LinkOne ==
  ASSUME NEW events \in Events, Linked(events),
         NEW to \in RowStatus, LastStatus(events) \in RowStatus
  PROVE  /\ Append(events, <<LastStatus(events), to>>) \in Events
         /\ Linked(Append(events, <<LastStatus(events), to>>))
         /\ LastStatus(Append(events, <<LastStatus(events), to>>)) = to
<1> DEFINE from == LastStatus(events)
           all == Append(events, <<from, to>>)
<1>1. /\ all \in Events /\ Len(all) = Len(events) + 1 /\ all # <<>> /\ Len(events) \in Nat
      /\ \A i \in 1 .. Len(events) : all[i] = events[i]
      /\ all[Len(events) + 1] = <<from, to>>
  <2>1. <<from, to>> \in RowStatus \X RowStatus /\ events \in Seq(RowStatus \X RowStatus)
    BY DEF Events
  <2>2. \A e \in RowStatus \X RowStatus :
          LET more == Append(events, e)
          IN  /\ more \in Seq(RowStatus \X RowStatus) /\ Len(more) = Len(events) + 1
              /\ more # <<>> /\ Len(events) \in Nat
              /\ \A i \in 1 .. Len(events) : more[i] = events[i]
              /\ more[Len(events) + 1] = e
    BY <2>1
  <2> QED
    BY <2>1, <2>2 DEF Events
<1>2. CASE events = <<>>
  <2>1. Len(events) = 0 /\ from = "PENDING"
    BY <1>2 DEF LastStatus
  <2> QED
    BY <1>1, <2>1 DEF Linked, LastStatus
<1>3. CASE events # <<>>
  <2>1. Len(events) > 0 /\ from = events[Len(events)][2]
    BY <1>3 DEF LastStatus, Events
  <2>2. all[1][1] = "PENDING"
    BY <1>1, <1>3, <2>1 DEF Linked
  <2>3. ASSUME NEW i \in 1 .. Len(all) - 1
        PROVE  all[i][2] = all[i + 1][1]
    <3>1. CASE i < Len(events)
      <4>1. events[i][2] = events[i + 1][1]
        BY <1>1, <2>3, <3>1 DEF Linked
      <4>2. all[i] = events[i] /\ all[i + 1] = events[i + 1]
        BY <1>1, <2>3, <3>1
      <4> QED
        BY <4>1, <4>2
    <3>2. CASE i >= Len(events)
      <4>1. i = Len(events)
        BY <1>1, <2>3, <3>2
      <4>2. all[i] = events[i] /\ all[i + 1] = <<from, to>>
        BY <1>1, <2>1, <4>1
      <4> QED
        BY <2>1, <4>1, <4>2
    <3> QED
      BY <1>1, <2>3, <3>1, <3>2
  <2>4. LastStatus(all) = to
    BY <1>1 DEF LastStatus
  <2> QED
    BY <1>1, <2>2, <2>3, <2>4 DEF Linked
<1> QED
  BY <1>2, <1>3

\* A write of a row as the trail sees it, by whoever read an open status: no
\* event for no change, one event for a change, two for a manual confirmation;
\* or a refund, whatever it logs; or an expiry that is logged later.
Logs(p, seen, to) ==
  \/ to = seen /\ UNCHANGED trail
  \/ AppendEvent(p, seen, to)
  \/ /\ seen = "PENDING" /\ to = "COMPLETED"
     /\ trail' = [trail EXCEPT ![p] =
          @ \o <<<<"PENDING", "CONFIRMING">>, <<"CONFIRMING", "COMPLETED">>>>]

LoggedWrite ==
  \E p \in Payments, h \in Hashes \union {NoTx} :
    \E seen \in {"PENDING", "PARTIAL", "CONFIRMING"}, to \in {"CONFIRMING", "COMPLETED", "FAILED"} :
      row[p].status # "NONE" /\ WriteRow(p, to, h, seen) /\ Logs(p, seen, to) /\ UNCHANGED unlogged

RefundWrite ==
  \E p \in Payments, h \in Hashes \union {NoTx}, seen \in {"COMPLETED", "REFUNDED"} :
    /\ row[p].status # "NONE" /\ WriteRow(p, "REFUNDED", h, seen)
    /\ AppendEvent(p, "COMPLETED", "REFUNDED") /\ UNCHANGED unlogged

ExpiryWrite ==
  \E s \in Sweepers, b \in Payments \X RowStatus :
    /\ row[b[1]].status # "NONE"
    /\ \E h \in Hashes \union {NoTx} : WriteRow(b[1], "EXPIRED", h, b[2])
    /\ UNCHANGED trail
    /\ unlogged' = [unlogged EXCEPT ![s] = @ \union {b}]

QuietTables ==
  /\ UNCHANGED <<row, raced, trail>>
  /\ \A s \in Sweepers : unlogged'[s] \subseteq unlogged[s]

LEMMA TrailShape ==
  ASSUME TypeOK, Inductive, Next
  PROVE  \/ QuietTables \/ LoggedWrite \/ RefundWrite \/ ExpiryWrite
         \/ \E p \in Payments : CreateIntent(p)
         \/ \E s \in Sweepers : SweepLog(s)
<1> USE DEF rowVars, bookVars, sideVars, worldVars, cronVars
<1>0. QuietTables <=> UNCHANGED <<row, raced, trail>> /\ \A s \in Sweepers : unlogged'[s] \subseteq unlogged[s]
  BY DEF QuietTables
<1>1. ASSUME NEW p \in Payments, PollConfirmation(p) \/ ForgetJob(p) \/ WindowPasses(p)
      PROVE  QuietTables \/ LoggedWrite
  <2>0. p \in Handlers
    BY DEF Handlers
  <2>1. CASE CountCommit(p)
    <3>1. row[p].tx \in Hashes \union {NoTx} /\ row[p].status # "NONE" /\ run[p].seen = "CONFIRMING"
      BY <2>0, <2>1, AtWork, DisjointAssumption DEF CountCommit, PlacedAt, DecidedAt
    <3> QED
      BY <2>1, <3>1 DEF CountCommit, LoggedWrite, Logs
  <2>2. CASE SettleCommit(p)
    <3>1. row[p].tx \in Hashes \union {NoTx} /\ row[p].status # "NONE" /\ run[p].seen = "CONFIRMING"
      BY <2>0, <2>2, AtWork, DisjointAssumption DEF SettleCommit, PlacedAt, DecidedAt
    <3> QED
      BY <2>2, <3>1 DEF SettleCommit, LoggedWrite, Logs
  <2>3. CASE ~CountCommit(p) /\ ~SettleCommit(p)
    BY <1>1, <2>3
    DEF QuietTables, PollConfirmation, PollStart, PollReceipt, PollRecord, UpdateRead, PollRecheck,
        ForgetJob, WindowPasses
  <2> QED
    BY <2>1, <2>2, <2>3
<1>2. ASSUME NEW x \in Jobs \union Reconcilers, Detect(x)
      PROVE  QuietTables \/ LoggedWrite
  <2>0. x \in Handlers
    BY DEF Handlers
  <2>1. CASE DetectCommit(x)
    <3>1. PICK p \in Payments : p = run[x].pay /\ row[p].status # "NONE"
      BY <2>0, <2>1, AtWork DEF DetectCommit, PlacedAt
    <3>2. run[x].tx \in Hashes \union {NoTx} /\ run[x].seen \in {"PENDING", "PARTIAL"}
      BY <2>0, <2>1, AtWork DEF DetectCommit, DecidedAt, HandlerState
    <3> QED
      BY <2>1, <3>1, <3>2 DEF DetectCommit, LoggedWrite, Logs
  <2>2. CASE ~DetectCommit(x)
    BY <1>2, <2>2 DEF QuietTables, Detect, DetectRead, DetectConflict, EnqueueConfirm
  <2> QED
    BY <2>1, <2>2
<1>3. ASSUME NEW x \in Jobs \union Payments, Fail(x)
      PROVE  QuietTables \/ LoggedWrite
  <2>0. x \in Handlers
    BY DEF Handlers
  <2>1. CASE FailCommit(x)
    <3>1. PICK p \in Payments : p = run[x].pay /\ row[p].status # "NONE"
      BY <2>0, <2>1, AtWork DEF FailCommit, PlacedAt
    <3>2. /\ row[p].tx \in Hashes \union {NoTx}
          /\ run[x].seen \in {"PENDING", "PARTIAL", "CONFIRMING"}
      BY <2>0, <2>1, AtWork DEF FailCommit, DecidedAt
    <3> QED
      BY <2>1, <3>1, <3>2 DEF FailCommit, LoggedWrite, Logs
  <2>2. CASE ~FailCommit(x)
    BY <1>3, <2>2 DEF QuietTables, Fail, FailRead
  <2> QED
    BY <2>1, <2>2
<1>4. ASSUME NEW r \in Requests, ConfirmManually(r)
      PROVE  QuietTables \/ LoggedWrite
  <2>0. r \in Handlers
    BY DEF Handlers
  <2>1. CASE ManualCommit(r)
    <3>1. PICK p \in Payments : p = run[r].pay /\ row[p].status # "NONE"
      BY <2>0, <2>1, AtWork DEF ManualCommit, PlacedAt
    <3>2. run[r].tx \in Hashes \union {NoTx} /\ run[r].seen = "PENDING"
      BY <2>0, <2>1, AtWork DEF ManualCommit, DecidedAt, HandlerState
    <3> QED
      BY <2>1, <3>1, <3>2 DEF ManualCommit, LoggedWrite, Logs
  <2>2. CASE ~ManualCommit(r)
    BY <1>4, <2>2
    DEF QuietTables, ConfirmManually, ManualRead, ManualDupCheck, ManualVerify, ManualConflict
  <2> QED
    BY <2>1, <2>2
<1>5. ASSUME NEW r \in Refunds, Refund(r)
      PROVE  QuietTables \/ RefundWrite
  <2>0. r \in Handlers
    BY DEF Handlers
  <2>1. CASE RefundCommit(r)
    <3>1. PICK p \in Payments : p = run[r].pay /\ row[p].status # "NONE"
      BY <2>0, <2>1, AtWork DEF RefundCommit, PlacedAt
    <3>2. /\ row[p].tx \in Hashes \union {NoTx} /\ run[r].seen \in {"COMPLETED", "REFUNDED"}
      BY <2>0, <2>1, <3>1, AtWork DEF RefundCommit, DecidedAt
    <3> QED
      BY <2>1, <3>1, <3>2 DEF RefundCommit, RefundWrite
  <2>2. CASE RefundRead(r)
    BY <2>2 DEF QuietTables, RefundRead
  <2> QED
    BY <1>5, <2>1, <2>2 DEF Refund
<1>6. ASSUME NEW s \in Sweepers, Sweep(s) \/ SweepFails(s)
      PROVE  QuietTables \/ ExpiryWrite \/ SweepLog(s)
  <2>1. CASE SweepExpire(s)
    <3>1. PICK b \in batch[s] :
            /\ WriteRow(b[1], "EXPIRED", row[b[1]].tx, b[2])
            /\ unlogged' = [unlogged EXCEPT ![s] = @ \union {b}]
      BY <2>1 DEF SweepExpire
    <3>2. b \in Payments \X RowStatus /\ row[b[1]].status # "NONE"
      BY <3>1 DEF TypeOK, Inductive, Batched
    <3>3. row[b[1]].tx \in Hashes \union {NoTx}
      BY <3>2 DEF TypeOK
    <3>4. UNCHANGED trail
      BY <2>1 DEF SweepExpire
    <3> QED
      BY <3>1, <3>2, <3>3, <3>4 DEF ExpiryWrite
  <2>2. CASE SweepRead(s) \/ SweepFails(s)
    BY <2>2 DEF QuietTables, SweepRead, SweepFails, TypeOK
  <2> QED
    BY <1>6, <2>1, <2>2 DEF Sweep
<1>7. ASSUME \/ \E h \in Hashes : ChainMoves(h)
             \/ \E j \in Jobs : ProcessTransfer(j)
             \/ \E x \in Payments \union Requests \union Refunds : Announce(x)
             \/ \E r \in Reconcilers : Reconcile(r) \/ ReconFails(r)
             \/ \E x \in Handlers \ Reconcilers : HandlerFails(x)
      PROVE  QuietTables
  BY <1>7
  DEF QuietTables, ChainMoves, ProcessTransfer, TransferSeen, MatchTransfer, PersistTransfer,
      Announce, Reconcile, ReconRead, ReconHead, ReconFetch, ReconSum, ReconEnd, ReconFails,
      HandlerFails
<1> QED
  BY <1>1, <1>2, <1>3, <1>4, <1>5, <1>6, <1>7 DEF Next

\* What every row write leaves of the trail's invariant for the other payments,
\* and of the expiries still to be logged.
LEMMA ExpiriesKept ==
  ASSUME TypeOK, Explained, UNCHANGED unlogged, NEW p \in Payments,
         NEW h \in Hashes \union {NoTx}, NEW to \in Status, NEW seen \in Status \ {"EXPIRED"},
         row[p].status # "NONE", WriteRow(p, to, h, seen)
  PROVE  \A s \in Sweepers : \A b \in unlogged'[s] :
           row'[b[1]].status # "NONE" /\ (raced'[b[1]] \/ row'[b[1]].status = "EXPIRED")
<1>1. /\ row'[p].status = to /\ to # "NONE"
      /\ raced'[p] = (raced[p] \/ row[p].status # seen)
      /\ \A q \in Payments \ {p} : row'[q] = row[q] /\ raced'[q] = raced[q]
  BY DEF WriteRow, TypeOK, Status
<1>2. \A s \in Sweepers : \A b \in unlogged[s] : b[1] \in Payments
  BY DEF TypeOK
<1>3. \A s \in Sweepers : \A b \in unlogged[s] :
        row[b[1]].status # "NONE" /\ (raced[b[1]] \/ row[b[1]].status = "EXPIRED")
  BY DEF Explained
<1> SUFFICES ASSUME NEW s \in Sweepers, NEW b \in unlogged'[s]
             PROVE  row'[b[1]].status # "NONE" /\ (raced'[b[1]] \/ row'[b[1]].status = "EXPIRED")
  OBVIOUS
<1>4. b \in unlogged[s] /\ b[1] \in Payments
  BY <1>2
<1>5. row[b[1]].status # "NONE" /\ (raced[b[1]] \/ row[b[1]].status = "EXPIRED")
  BY <1>3, <1>4
<1>6. CASE b[1] = p
  <2>1. raced[p] \/ row[p].status # seen
    BY <1>5, <1>6
  <2> QED
    BY <1>1, <1>6, <2>1
<1>7. CASE b[1] # p
  BY <1>1, <1>4, <1>5, <1>7
<1> QED
  BY <1>6, <1>7

LEMMA LoggedKeeps ==
  ASSUME TypeOK, Explained, LoggedWrite
  PROVE  Explained'
<1>1. PICK p \in Payments, h \in Hashes \union {NoTx} :
        \E seen \in {"PENDING", "PARTIAL", "CONFIRMING"}, to \in {"CONFIRMING", "COMPLETED", "FAILED"} :
          row[p].status # "NONE" /\ WriteRow(p, to, h, seen) /\ Logs(p, seen, to) /\ UNCHANGED unlogged
  BY DEF LoggedWrite
<1>2. PICK seen \in {"PENDING", "PARTIAL", "CONFIRMING"}, to \in {"CONFIRMING", "COMPLETED", "FAILED"} :
        row[p].status # "NONE" /\ WriteRow(p, to, h, seen) /\ Logs(p, seen, to) /\ UNCHANGED unlogged
  BY <1>1
<1>3. seen \in Status \ {"EXPIRED"} /\ to \in Status /\ seen \in RowStatus /\ to \in RowStatus
      /\ "CONFIRMING" \in RowStatus /\ "COMPLETED" \in RowStatus
  BY DEF Status, RowStatus
<1>4. /\ row'[p].status = to /\ trail[p] \in Events /\ trail \in [Payments -> Events]
      /\ ~raced'[p] => ~raced[p] /\ row[p].status = seen
      /\ \A q \in Payments \ {p} : row'[q] = row[q] /\ raced'[q] = raced[q] /\ trail'[q] = trail[q]
  BY <1>2 DEF WriteRow, Logs, AppendEvent, TypeOK, Events
<1>5. ASSUME ~raced'[p]
      PROVE  Linked(trail'[p]) /\ LastStatus(trail'[p]) = to
  <2>1. Linked(trail[p]) /\ LastStatus(trail[p]) = seen
    BY <1>4, <1>5 DEF Explained, TrailExplainsRow
  <2>2. CASE to = seen /\ UNCHANGED trail
    BY <2>1, <2>2
  <2>3. CASE AppendEvent(p, seen, to)
    <3>1. trail'[p] = Append(trail[p], <<seen, to>>)
      BY <1>4, <2>3 DEF AppendEvent
    <3> QED
      BY <1>3, <1>4, <2>1, <3>1, LinkOne
  <2>4. CASE /\ seen = "PENDING" /\ to = "COMPLETED"
             /\ trail' = [trail EXCEPT ![p] =
                  @ \o <<<<"PENDING", "CONFIRMING">>, <<"CONFIRMING", "COMPLETED">>>>]
    <3> DEFINE once == Append(trail[p], <<"PENDING", "CONFIRMING">>)
    <3>1. once \in Events /\ Linked(once) /\ LastStatus(once) = "CONFIRMING"
      BY <1>3, <1>4, <2>1, <2>4, LinkOne
    <3>2. trail'[p] = Append(once, <<"CONFIRMING", "COMPLETED">>)
      <4>1. trail'[p] = trail[p] \o <<<<"PENDING", "CONFIRMING">>, <<"CONFIRMING", "COMPLETED">>>>
        BY <1>4, <2>4
      <4>2. \A e \in Seq(RowStatus \X RowStatus), a, b \in RowStatus \X RowStatus :
              e \o <<a, b>> = Append(Append(e, a), b)
        OBVIOUS
      <4>3. /\ <<"PENDING", "CONFIRMING">> \in RowStatus \X RowStatus
            /\ <<"CONFIRMING", "COMPLETED">> \in RowStatus \X RowStatus
        BY DEF RowStatus, Status
      <4> QED
        BY <1>4, <4>1, <4>2, <4>3 DEF Events
    <3> HIDE DEF once
    <3>3. /\ Linked(Append(once, <<LastStatus(once), "COMPLETED">>))
          /\ LastStatus(Append(once, <<LastStatus(once), "COMPLETED">>)) = "COMPLETED"
      BY <1>3, <3>1, LinkOne
    <3> QED
      BY <2>4, <3>1, <3>2, <3>3
  <2> QED
    BY <1>2, <2>2, <2>3, <2>4 DEF Logs
<1>6. TrailExplainsRow'
  BY <1>4, <1>5 DEF Explained, TrailExplainsRow
<1>7. \A q \in Payments : row'[q].status = "NONE" => trail'[q] = <<>>
  BY <1>3, <1>4 DEF Explained, Status
<1>8. \A s \in Sweepers : \A b \in unlogged'[s] :
        row'[b[1]].status # "NONE" /\ (raced'[b[1]] \/ row'[b[1]].status = "EXPIRED")
  BY <1>2, <1>3, ExpiriesKept
<1> QED
  BY <1>6, <1>7, <1>8 DEF Explained

LEMMA RefundKeeps ==
  ASSUME TypeOK, Explained, RefundWrite
  PROVE  Explained'
<1>1. PICK p \in Payments, h \in Hashes \union {NoTx}, seen \in {"COMPLETED", "REFUNDED"} :
        /\ row[p].status # "NONE" /\ WriteRow(p, "REFUNDED", h, seen)
        /\ AppendEvent(p, "COMPLETED", "REFUNDED") /\ UNCHANGED unlogged
  BY DEF RefundWrite
<1>2. /\ row'[p].status = "REFUNDED"
      /\ \A q \in Payments \ {p} : row'[q] = row[q] /\ raced'[q] = raced[q] /\ trail'[q] = trail[q]
  BY <1>1 DEF WriteRow, AppendEvent, TypeOK
<1>3. \A s \in Sweepers : \A b \in unlogged'[s] :
        row'[b[1]].status # "NONE" /\ (raced'[b[1]] \/ row'[b[1]].status = "EXPIRED")
  BY <1>1, ExpiriesKept DEF Status
<1> QED
  BY <1>2, <1>3 DEF Explained, TrailExplainsRow

LEMMA ExpiryKeeps ==
  ASSUME TypeOK, Explained, ExpiryWrite
  PROVE  Explained'
<1>1. PICK s \in Sweepers, b \in Payments \X RowStatus :
        /\ row[b[1]].status # "NONE"
        /\ \E h \in Hashes \union {NoTx} : WriteRow(b[1], "EXPIRED", h, b[2])
        /\ UNCHANGED trail
        /\ unlogged' = [unlogged EXCEPT ![s] = @ \union {b}]
  BY DEF ExpiryWrite
<1>2. PICK p \in Payments : p = b[1]
  OBVIOUS
<1>3. /\ row'[p].status = "EXPIRED"
      /\ \A q \in Payments \ {p} : row'[q] = row[q] /\ raced'[q] = raced[q]
  BY <1>1, <1>2 DEF WriteRow, TypeOK
<1>4. \A z \in Sweepers : \A c \in unlogged'[z] : c = b \/ c \in unlogged[z]
  BY <1>1 DEF TypeOK
<1>5. \A z \in Sweepers : \A c \in unlogged'[z] :
        row'[c[1]].status # "NONE" /\ (raced'[c[1]] \/ row'[c[1]].status = "EXPIRED")
  <2> SUFFICES ASSUME NEW z \in Sweepers, NEW c \in unlogged'[z]
               PROVE  row'[c[1]].status # "NONE" /\ (raced'[c[1]] \/ row'[c[1]].status = "EXPIRED")
    OBVIOUS
  <2>1. CASE c[1] = p
    BY <1>3, <2>1
  <2>2. CASE c[1] # p
    <3>1. c \in unlogged[z]
      BY <1>2, <1>4, <2>2
    <3>2. c[1] \in Payments
      BY <3>1 DEF TypeOK
    <3> QED
      BY <1>3, <2>2, <3>1, <3>2 DEF Explained
  <2> QED
    BY <2>1, <2>2
<1>6. UNCHANGED trail
  BY <1>1
<1> QED
  BY <1>3, <1>5, <1>6 DEF Explained, TrailExplainsRow

LEMMA SweepLogKeeps ==
  ASSUME TypeOK, Explained, NEW s \in Sweepers, SweepLog(s)
  PROVE  Explained'
<1>1. PICK b \in unlogged[s] :
        AppendEvent(b[1], b[2], "EXPIRED") /\ unlogged' = [unlogged EXCEPT ![s] = @ \ {b}]
  BY DEF SweepLog
<1>2. PICK p \in Payments : p = b[1]
  BY <1>1 DEF TypeOK
<1>3. UNCHANGED <<row, raced>>
  BY DEF SweepLog, rowVars
<1>4. row[p].status # "NONE" /\ (raced[p] \/ row[p].status = "EXPIRED")
  BY <1>1, <1>2 DEF Explained
<1>5. \A q \in Payments \ {p} : trail'[q] = trail[q]
  BY <1>1, <1>2 DEF AppendEvent, TypeOK
<1>6. \A z \in Sweepers : unlogged'[z] \subseteq unlogged[z]
  BY <1>1 DEF TypeOK
<1> QED
  BY <1>3, <1>4, <1>5, <1>6 DEF Explained, TrailExplainsRow

LEMMA CreateKeeps ==
  ASSUME TypeOK, Explained, NEW p \in Payments, CreateIntent(p)
  PROVE  Explained'
<1>1. /\ row[p].status = "NONE" /\ row'[p].status = "PENDING" /\ trail[p] = <<>>
      /\ \A q \in Payments \ {p} : row'[q] = row[q]
      /\ UNCHANGED <<raced, trail, unlogged>>
  BY DEF CreateIntent, TypeOK, Explained, bookVars, cronVars
<1>2. Linked(trail'[p]) /\ LastStatus(trail'[p]) = row'[p].status
  <2>1. Linked(<<>>) /\ LastStatus(<<>>) = "PENDING"
    BY DEF Linked, LastStatus
  <2> QED
    BY <1>1, <2>1
<1>3. TrailExplainsRow'
  BY <1>1, <1>2 DEF Explained, TrailExplainsRow
<1>4. \A s \in Sweepers : \A b \in unlogged[s] : b[1] # p /\ b[1] \in Payments
  BY <1>1 DEF Explained, TypeOK
<1> QED
  BY <1>1, <1>3, <1>4 DEF Explained

LEMMA TrailStep ==
  TypeOK /\ Inductive /\ Explained /\ [Next]_vars => Explained'
<1> SUFFICES ASSUME TypeOK, Inductive, Explained, [Next]_vars PROVE Explained'
  OBVIOUS
<1>1. QuietTables => Explained'
  BY DEF QuietTables, Explained, TrailExplainsRow
<1>2. CASE UNCHANGED vars
  BY <1>1, <1>2 DEF vars, rowVars, bookVars, cronVars, QuietTables
<1>3. CASE Next
  BY <1>1, <1>3, TrailShape, LoggedKeeps, RefundKeeps, ExpiryKeeps, SweepLogKeeps, CreateKeeps
<1> QED
  BY <1>2, <1>3

\* The audit trail of a payment that no write raced, and that was neither
\* refunded nor expired, leads event by event to the status of its row.
THEOREM TrailsExplainRows == Spec => []TrailExplainsRow
<1>1. Init => Explained
  BY DEF Init, Explained, TrailExplainsRow, NoRow
<1>2. Explained => TrailExplainsRow
  BY DEF Explained
<1> QED
  BY <1>1, <1>2, TrailStep, InductiveInvariant, PTL DEF Spec

-----------------------------------------------------------------------------
(* The rail implements the lifecycle.                                      *)

\* A handler writes a row: a settlement, or along the table from what it read.
RowWrite ==
  \E p \in Payments, h \in Hashes \union {NoTx}, seen, to \in Status :
    /\ row[p].status # "NONE" /\ WriteRow(p, to, h, seen)
    /\ \/ to # "COMPLETED" /\ CanTransition(seen, to) /\ UNCHANGED settled
       \/ /\ to = "COMPLETED" /\ seen \in {"PENDING", "CONFIRMING"}
          /\ settled' = [settled EXCEPT ![p] = @ + 1]
    /\ to = "REFUNDED" => settled[p] > 0

LEMMA StepShape ==
  ASSUME TypeOK, Inductive, Next
  PROVE  \/ UNCHANGED <<row, raced, settled>>
         \/ \E p \in Payments : CreateIntent(p)
         \/ RowWrite
<1> USE DEF rowVars, bookVars, sideVars, worldVars, cronVars
<1>1. ASSUME NEW p \in Payments, PollConfirmation(p) \/ ForgetJob(p) \/ WindowPasses(p)
      PROVE  UNCHANGED <<row, raced, settled>> \/ RowWrite
  <2>0. p \in Handlers
    BY DEF Handlers
  <2>1. CASE CountCommit(p)
    <3>1. row[p].tx \in Hashes \union {NoTx} /\ row[p].status # "NONE" /\ run[p].seen = "CONFIRMING"
      BY <2>0, <2>1, AtWork, DisjointAssumption DEF CountCommit, PlacedAt, DecidedAt
    <3> QED
      BY <2>1, <3>1 DEF CountCommit, RowWrite, CanTransition, Status
  <2>2. CASE SettleCommit(p)
    <3>1. row[p].tx \in Hashes \union {NoTx} /\ row[p].status # "NONE" /\ run[p].seen = "CONFIRMING"
      BY <2>0, <2>2, AtWork, DisjointAssumption DEF SettleCommit, PlacedAt, DecidedAt
    <3> QED
      BY <2>2, <3>1 DEF SettleCommit, RowWrite, Status
  <2>3. CASE ~CountCommit(p) /\ ~SettleCommit(p)
    BY <1>1, <2>3
    DEF PollConfirmation, PollStart, PollReceipt, PollRecord, UpdateRead, PollRecheck,
        ForgetJob, WindowPasses
  <2> QED
    BY <2>1, <2>2, <2>3
<1>2. ASSUME NEW x \in Jobs \union Reconcilers, Detect(x)
      PROVE  UNCHANGED <<row, raced, settled>> \/ RowWrite
  <2>0. x \in Handlers
    BY DEF Handlers
  <2>1. CASE DetectCommit(x)
    <3>1. PICK p \in Payments : p = run[x].pay /\ row[p].status # "NONE"
      BY <2>0, <2>1, AtWork DEF DetectCommit, PlacedAt
    <3>2. run[x].tx \in Hashes \union {NoTx} /\ run[x].seen \in {"PENDING", "PARTIAL"}
      BY <2>0, <2>1, AtWork DEF DetectCommit, DecidedAt, HandlerState
    <3> QED
      BY <2>1, <3>1, <3>2
      DEF DetectCommit, RowWrite, CanTransition, ValidTransitions, Status
  <2>2. CASE ~DetectCommit(x)
    BY <1>2, <2>2 DEF Detect, DetectRead, DetectConflict, EnqueueConfirm
  <2> QED
    BY <2>1, <2>2
<1>3. ASSUME NEW x \in Jobs \union Payments, Fail(x)
      PROVE  UNCHANGED <<row, raced, settled>> \/ RowWrite
  <2>0. x \in Handlers
    BY DEF Handlers
  <2>1. CASE FailCommit(x)
    <3>1. PICK p \in Payments : p = run[x].pay /\ row[p].status # "NONE"
      BY <2>0, <2>1, AtWork DEF FailCommit, PlacedAt
    <3>2. /\ row[p].tx \in Hashes \union {NoTx}
          /\ run[x].seen \in {"PENDING", "PARTIAL", "CONFIRMING"}
      BY <2>0, <2>1, AtWork DEF FailCommit, DecidedAt
    <3> QED
      BY <2>1, <3>1, <3>2
      DEF FailCommit, RowWrite, CanTransition, ValidTransitions, Status
  <2>2. CASE ~FailCommit(x)
    BY <1>3, <2>2 DEF Fail, FailRead
  <2> QED
    BY <2>1, <2>2
<1>4. ASSUME NEW r \in Requests, ConfirmManually(r)
      PROVE  UNCHANGED <<row, raced, settled>> \/ RowWrite
  <2>0. r \in Handlers
    BY DEF Handlers
  <2>1. CASE ManualCommit(r)
    <3>1. PICK p \in Payments : p = run[r].pay /\ row[p].status # "NONE"
      BY <2>0, <2>1, AtWork DEF ManualCommit, PlacedAt
    <3>2. run[r].tx \in Hashes \union {NoTx} /\ run[r].seen = "PENDING"
      BY <2>0, <2>1, AtWork DEF ManualCommit, DecidedAt, HandlerState
    <3> QED
      BY <2>1, <3>1, <3>2 DEF ManualCommit, RowWrite, Status
  <2>2. CASE ~ManualCommit(r)
    BY <1>4, <2>2
    DEF ConfirmManually, ManualRead, ManualDupCheck, ManualVerify, ManualConflict
  <2> QED
    BY <2>1, <2>2
<1>5. ASSUME NEW r \in Refunds, Refund(r)
      PROVE  UNCHANGED <<row, raced, settled>> \/ RowWrite
  <2>0. r \in Handlers
    BY DEF Handlers
  <2>1. CASE RefundCommit(r)
    <3>1. PICK p \in Payments : p = run[r].pay /\ row[p].status # "NONE"
      BY <2>0, <2>1, AtWork DEF RefundCommit, PlacedAt
    <3>2. /\ row[p].tx \in Hashes \union {NoTx} /\ settled[p] > 0
          /\ run[r].seen \in {"COMPLETED", "REFUNDED"}
      BY <2>0, <2>1, <3>1, AtWork DEF RefundCommit, DecidedAt
    <3> QED
      BY <2>1, <3>1, <3>2
      DEF RefundCommit, RowWrite, CanTransition, ValidTransitions, Status
  <2>2. CASE RefundRead(r)
    BY <2>2 DEF RefundRead
  <2> QED
    BY <1>5, <2>1, <2>2 DEF Refund
<1>6. ASSUME NEW s \in Sweepers, Sweep(s) \/ SweepFails(s)
      PROVE  UNCHANGED <<row, raced, settled>> \/ RowWrite
  <2>1. CASE SweepExpire(s)
    <3>1. PICK b \in batch[s] : WriteRow(b[1], "EXPIRED", row[b[1]].tx, b[2])
      BY <2>1 DEF SweepExpire
    <3>2. /\ b[1] \in Payments /\ row[b[1]].status # "NONE"
          /\ b[2] \in {"PENDING", "PARTIAL"}
      BY <3>1 DEF TypeOK, Inductive, Batched
    <3>3. row[b[1]].tx \in Hashes \union {NoTx}
      BY <3>2 DEF TypeOK
    <3> QED
      BY <2>1, <3>1, <3>2, <3>3
      DEF SweepExpire, RowWrite, CanTransition, ValidTransitions, Status
  <2>2. CASE SweepRead(s) \/ SweepLog(s) \/ SweepFails(s)
    BY <2>2 DEF SweepRead, SweepLog, SweepFails
  <2> QED
    BY <1>6, <2>1, <2>2 DEF Sweep
<1>7. ASSUME \/ \E h \in Hashes : ChainMoves(h)
             \/ \E j \in Jobs : ProcessTransfer(j)
             \/ \E x \in Payments \union Requests \union Refunds : Announce(x)
             \/ \E r \in Reconcilers : Reconcile(r) \/ ReconFails(r)
             \/ \E x \in Handlers \ Reconcilers : HandlerFails(x)
      PROVE  UNCHANGED <<row, raced, settled>>
  BY <1>7
  DEF ChainMoves, ProcessTransfer, TransferSeen, MatchTransfer, PersistTransfer,
      Announce, Reconcile, ReconRead, ReconHead, ReconFetch, ReconSum, ReconEnd, ReconFails,
      HandlerFails
<1> QED
  BY <1>1, <1>2, <1>3, <1>4, <1>5, <1>6, <1>7 DEF Next

LEMMA WriteIsLegal ==
  ASSUME TypeOK, RowWrite
  PROVE  \A p \in Payments :
           row'[p].status # row[p].status /\ row[p].status # "NONE" /\ ~raced'[p] =>
             \/ CanTransition(row[p].status, row'[p].status)
             \/ row[p].status = "PENDING" /\ row'[p].status = "COMPLETED"
<1>1. PICK p \in Payments, h \in Hashes \union {NoTx}, seen \in Status, to \in Status :
        /\ WriteRow(p, to, h, seen)
        /\ to = "COMPLETED" => seen \in {"PENDING", "CONFIRMING"}
        /\ to # "COMPLETED" => CanTransition(seen, to)
  BY DEF RowWrite
<1>2. /\ row'[p].status = to /\ \A q \in Payments \ {p} : row'[q] = row[q]
      /\ ~raced'[p] => row[p].status = seen
  BY <1>1 DEF WriteRow, TypeOK
<1>3. <<"CONFIRMING", "COMPLETED">> \in ValidTransitions
  BY DEF ValidTransitions
<1> QED
  BY <1>1, <1>2, <1>3 DEF CanTransition

\* Legal transitions only, unless a handler wrote from an outdated read.
THEOREM TransitionsAreLegal == Spec => LegalUnlessRaced
<1>1. TypeOK /\ Inductive /\ [Next]_vars =>
        [\A p \in Payments :
           row'[p].status # row[p].status /\ row[p].status # "NONE" /\ ~raced'[p] =>
             \/ CanTransition(row[p].status, row'[p].status)
             \/ row[p].status = "PENDING" /\ row'[p].status = "COMPLETED"]_vars
  BY StepShape, WriteIsLegal DEF CreateIntent, TypeOK
<1> QED
  BY <1>1, InductiveInvariant, PTL DEF Spec, LegalUnlessRaced

LEMMA WriteImplements ==
  ASSUME TypeOK, RowWrite
  PROVE  Lifecycle!LifecycleNext \/ UNCHANGED <<row, raced, settled>>
           \/ UNCHANGED Lifecycle!lifecycleVars
<1> DEFINE status == [p \in Payments |-> row[p].status]
<1>1. PICK p \in Payments, h \in Hashes \union {NoTx}, seen \in Status, to \in Status :
        /\ row[p].status # "NONE" /\ WriteRow(p, to, h, seen)
        /\ \/ to # "COMPLETED" /\ CanTransition(seen, to) /\ UNCHANGED settled
           \/ /\ to = "COMPLETED" /\ seen \in {"PENDING", "CONFIRMING"}
              /\ settled' = [settled EXCEPT ![p] = @ + 1]
        /\ to = "REFUNDED" => settled[p] > 0
  BY DEF RowWrite
<1>2. status' = [status EXCEPT ![p] = to] /\ status[p] = row[p].status
  BY <1>1 DEF WriteRow, TypeOK
<1>3. settled' = [settled EXCEPT ![p] = IF to = "COMPLETED" THEN @ + 1 ELSE @]
  BY <1>1 DEF TypeOK
<1>4. CASE row[p].status # seen
  <2>1. raced' = [raced EXCEPT ![p] = TRUE]
    BY <1>1, <1>4 DEF WriteRow, TypeOK
  <2>2. Lifecycle!Overwrite(p, to)
    BY <1>1, <1>2, <1>3, <2>1 DEF Lifecycle!Overwrite
  <2> QED
    BY <2>2 DEF Lifecycle!LifecycleNext, Lifecycle!Status, Status
<1>5. CASE row[p].status = seen
  <2>1. raced' = raced
    BY <1>1, <1>5 DEF WriteRow, TypeOK
  <2>2. CASE to = "COMPLETED"
    <3>1. Lifecycle!Settle(p)
      BY <1>1, <1>2, <1>3, <1>5, <2>1, <2>2 DEF Lifecycle!Settle
    <3> QED
      BY <3>1 DEF Lifecycle!LifecycleNext
  <2>3. CASE to # "COMPLETED" /\ seen = to
    <3>1. status' = status /\ settled' = settled
      BY <1>1, <1>2, <1>5, <2>3
    <3> QED
      BY <3>1, <2>1 DEF Lifecycle!lifecycleVars
  <2>4. CASE to # "COMPLETED" /\ seen # to
    <3>1. <<seen, to>> \in Lifecycle!ValidTransitions
      BY <1>1, <2>4 DEF CanTransition, ValidTransitions, Lifecycle!ValidTransitions
    <3>2. Lifecycle!Move(p, to)
      BY <1>1, <1>2, <1>5, <2>1, <2>4, <3>1 DEF Lifecycle!Move
    <3> QED
      BY <3>2 DEF Lifecycle!LifecycleNext, Lifecycle!Status, Status
  <2> QED
    BY <2>2, <2>3, <2>4
<1> QED
  BY <1>4, <1>5

\* The rail implements the abstract lifecycle: every step of every handler is a
\* step of one payment's life, or leaves status, credits and the race mark alone.
THEOREM RailImplementsLifecycle == Spec => ImplementsLifecycle
<1>1. Init => Lifecycle!LifecycleInit
  BY DEF Init, NoRow, Lifecycle!LifecycleInit
<1>2. TypeOK /\ Inductive /\ [Next]_vars => [Lifecycle!LifecycleNext]_(Lifecycle!lifecycleVars)
  <2> SUFFICES ASSUME TypeOK, Inductive, [Next]_vars
               PROVE  Lifecycle!LifecycleNext \/ UNCHANGED Lifecycle!lifecycleVars
    OBVIOUS
  <2>1. CASE UNCHANGED <<row, raced, settled>>
    BY <2>1 DEF Lifecycle!lifecycleVars
  <2>2. ASSUME NEW p \in Payments, CreateIntent(p)
        PROVE  Lifecycle!LifecycleNext
    <3>1. [q \in Payments |-> row'[q].status] = [[q \in Payments |-> row[q].status] EXCEPT ![p] = "PENDING"]
      <4>1. row \in [Payments -> [status : RowStatus, tx : Hashes \union {NoTx}]]
        BY DEF TypeOK
      <4>2. \A q \in Payments :
              row'[q].status = IF q = p THEN "PENDING" ELSE row[q].status
        BY <2>2, <4>1 DEF CreateIntent
      <4> QED
        BY <4>2
    <3>2. Lifecycle!Open(p)
      BY <2>2, <3>1 DEF CreateIntent, Lifecycle!Open, rowVars, bookVars
    <3> QED
      BY <3>2 DEF Lifecycle!LifecycleNext
  <2>3. CASE RowWrite
    BY <2>1, <2>3, WriteImplements
  <2>4. CASE UNCHANGED vars
    BY <2>1, <2>4 DEF vars, rowVars, bookVars
  <2> QED
    BY <2>1, <2>2, <2>3, <2>4, StepShape
<1> QED
  BY <1>1, <1>2, InductiveInvariant, PTL DEF Spec, ImplementsLifecycle, Lifecycle!LifecycleSpec
=============================================================================
