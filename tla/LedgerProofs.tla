---------------------------- MODULE LedgerProofs ----------------------------
(***************************************************************************)
(* Theorems of Ledger, for any number of settlements, payments and books   *)
(* and any pool.                                                           *)
(***************************************************************************)
EXTENDS Ledger, FiniteSetTheorems, WellFoundedInduction, TLAPS

----------------------------------------------------------------------------
(* Arithmetic of one settlement. *)

\* The fee is a number of units, and no more than its rate of the amount.
LEMMA FeeBounds ==
  ASSUME NEW p \in Payments
  PROVE  /\ Amount[p] \in Nat /\ Fee(p) \in Nat
         /\ Fee(p) * 10000 <= Amount[p] * FeeBps
<1>1. Amount[p] \in Nat
  BY PaymentAssumption
<1>2. \A n \in Nat : (n * 50) \div 10000 \in Nat /\ ((n * 50) \div 10000) * 10000 <= n * 50
  BY SMT
<1> QED
  BY <1>1, <1>2 DEF Fee, FeeBps

LEMMA LegAmounts ==
  ASSUME NEW p \in Payments, NEW l \in Legs
  PROVE  /\ LegAmount(p, l) \in Nat
         /\ DebitOf(l) \in Codes /\ CreditOf(l) \in Codes
BY FeeBounds DEF LegAmount, Legs, DebitOf, CreditOf, Codes

LEMMA CallsPay ==
  ASSUME NEW c \in Calls
  PROVE  PayOf[c] \in Payments /\ BookFor(c) \in Books
BY CallAssumption, PaymentAssumption DEF BookFor

----------------------------------------------------------------------------
(* Types. *)

LEMMA StatementsDiffer ==
  /\ Codes = {"asset", "liability", "revenue"}
  /\ InsideTx = {"row", "look", "create", "relook", "debit", "credit", "insert", "commit"}
BY DEF Codes, InsideTx

LEMMA ReleaseTypes ==
  ASSUME TypeOK, NEW c \in Calls, Release(c)
  PROVE  /\ locks' \in [Books -> [Codes -> Calls \cup {NoCall}]]
         /\ rowLock' \in [Payments -> Calls \cup {NoCall}]
         /\ view' \in [Calls -> [Codes -> Nat]] /\ drafts' \in [Calls -> SUBSET Rows]
BY DEF TypeOK, Release

\* Every step keeps the types.
LEMMA TypesHold ==
  ASSUME TypeOK, [Next]_vars
  PROVE  TypeOK'
<1> USE CallsPay, LegAmounts
<1>1. CASE UNCHANGED vars
  BY <1>1 DEF TypeOK, vars
<1>2. ASSUME NEW c \in Calls, Begin(c) PROVE TypeOK'
  BY <1>2 DEF TypeOK, Begin, Goto, tables, held, search
<1>3. ASSUME NEW c \in Calls, OpenTx(c) PROVE TypeOK'
  BY <1>3 DEF TypeOK, OpenTx, Goto, tables, held, search, InsideTx
<1>4. ASSUME NEW c \in Calls, MarkRow(c) PROVE TypeOK'
  BY <1>4 DEF TypeOK, MarkRow, Goto, tables, InsideTx
<1>5. ASSUME NEW c \in Calls, Resolve(c) PROVE TypeOK'
  <2>1. todo' \in [Calls -> SUBSET Codes] /\ found' \in [Calls -> SUBSET Codes]
    <3>1. /\ todo' = todo \/ todo' = [todo EXCEPT ![c] = Codes]
          /\ found' = found \/ found' = [found EXCEPT ![c] = {}]
      BY <1>5 DEF Resolve, search
    <3> QED
      BY <3>1 DEF TypeOK
  <2>2. at' \in [Calls -> InsideTx \cup {"idle", "open", "failed", "done"}]
    BY <1>5 DEF TypeOK, Resolve, Goto, InsideTx
  <2>3. leg' \in [Calls -> Legs]
    BY <1>5 DEF TypeOK, Resolve, Legs
  <2> QED
    BY <1>5, <2>1, <2>2, <2>3 DEF TypeOK, Resolve, tables, held
<1>6. ASSUME NEW c \in Calls, ResolveAgain(c) PROVE TypeOK'
  <2>1. at' \in [Calls -> InsideTx \cup {"idle", "open", "failed", "done"}]
    BY <1>6 DEF TypeOK, ResolveAgain, Goto, InsideTx
  <2>2. leg' \in [Calls -> Legs]
    BY <1>6 DEF TypeOK, ResolveAgain, Legs
  <2>3. /\ locks' \in [Books -> [Codes -> Calls \cup {NoCall}]]
        /\ rowLock' \in [Payments -> Calls \cup {NoCall}]
        /\ view' \in [Calls -> [Codes -> Nat]] /\ drafts' \in [Calls -> SUBSET Rows]
    BY <1>6, ReleaseTypes DEF TypeOK, ResolveAgain, held
  <2> QED
    BY <1>6, <2>1, <2>2, <2>3 DEF TypeOK, ResolveAgain, tables, search
<1>7. ASSUME NEW c \in Calls, Debit(c) PROVE TypeOK'
  BY <1>7 DEF TypeOK, Debit, AddTo, Goto, tables, search, InsideTx
<1>8. ASSUME NEW c \in Calls, Credit(c) PROVE TypeOK'
  BY <1>8 DEF TypeOK, Credit, AddTo, Goto, tables, search, InsideTx
<1>9. ASSUME NEW c \in Calls, Insert(c) PROVE TypeOK'
  <2>1. Entry(c, PayOf[c], leg[c]) \in Rows
    BY DEF TypeOK, Rows
  <2> QED
    BY <1>9, <2>1 DEF TypeOK, Insert, Goto, tables, search, InsideTx, Legs
<1>10. ASSUME NEW c \in Calls, Commit(c) PROVE TypeOK'
  <2>1. at' \in [Calls -> InsideTx \cup {"idle", "open", "failed", "done"}]
    BY <1>10 DEF TypeOK, Commit, Goto
  <2>2. balance' \in [Books -> [Codes -> Nat]]
    BY <1>10 DEF TypeOK, Commit
  <2>3. entries' \subseteq Rows /\ completed' \subseteq Payments
    BY <1>10 DEF TypeOK, Commit
  <2> QED
    BY <1>10, <2>1, <2>2, <2>3 DEF TypeOK, Commit, Release, search
<1>11. ASSUME NEW c \in Calls, NEW code \in Codes, Look(c, code) PROVE TypeOK'
  BY <1>11 DEF TypeOK, Look, tables, held
<1>12. ASSUME NEW c \in Calls, NEW code \in Codes, Create(c, code) PROVE TypeOK'
  BY <1>12 DEF TypeOK, Create, UpsertAccount, held
<1>13. ASSUME NEW b \in Books, NEW code \in Codes, Provision(b, code) PROVE TypeOK'
  BY <1>13 DEF TypeOK, Provision, UpsertAccount, held, search
<1>14. ASSUME NEW c \in Calls, RollBack(c) PROVE TypeOK'
  BY <1>14 DEF TypeOK, RollBack, Release, Goto, tables, search
<1>15. ASSUME NEW c \in Calls, Retry(c) PROVE TypeOK'
  BY <1>15 DEF TypeOK, Retry, Goto, tables, held, search
<1> QED
  BY <1>1, <1>2, <1>3, <1>4, <1>5, <1>6, <1>7, <1>8, <1>9, <1>10, <1>11, <1>12,
     <1>13, <1>14, <1>15 DEF Next, Step

----------------------------------------------------------------------------
(* The inductive invariant. *)

\* A step in which c opens, looks up, creates or tries again.
Searches(c) ==
  \/ Begin(c) \/ OpenTx(c) \/ MarkRow(c) \/ Resolve(c) \/ ResolveAgain(c) \/ Retry(c)
  \/ \E code \in Codes : Look(c, code) \/ Create(c, code)

\* An upsert never moves a balance: an account that is new had none.
LEMMA UpsertKeepsBalances ==
  ASSUME TypeOK, NoMissingAccount, NEW b \in Books, NEW code \in Codes,
         UpsertAccount(b, code)
  PROVE  balance' = balance /\ accounts[b] \cup {code} = accounts'[b]
<1>1. code \notin accounts[b] => balance[b][code] = 0
  BY DEF TypeOK, NoMissingAccount
<1> QED
  BY <1>1 DEF TypeOK, UpsertAccount

\* The second lookup finds everything, so it never rolls back.
LEMMA SecondLookup ==
  ASSUME TypeOK, Inductive, NEW c \in Calls, ResolveAgain(c)
  PROVE  /\ found[c] = Codes /\ Goto(c, "debit") /\ leg' = [leg EXCEPT ![c] = "gross"]
         /\ UNCHANGED held
<1>1. found[c] = Codes
  <2>1. found[c] = Codes \ todo[c] /\ todo[c] = {}
    BY DEF Inductive, LookupsAreTrue, LookupIsTrue, ResolveAgain
  <2> QED
    BY <2>1
<1> QED
  BY <1>1 DEF ResolveAgain

\* Searching disturbs neither balances nor locks nor drafts, and whoever has
\* updated an account before has updated it after.
LEMMA SearchFrame ==
  ASSUME TypeOK, Inductive, NoMissingAccount, NEW c \in Calls, Searches(c)
  PROVE  /\ UNCHANGED <<balance, completed, entries, locks, view, drafts>>
         /\ ~ Posting(c)
         /\ at'[c] = "debit" => leg'[c] = "gross"
         /\ at'[c] \notin {"credit", "insert", "commit"}
         /\ \A d \in Calls \ {c} : at'[d] = at[d] /\ leg'[d] = leg[d]
<1> USE CallsPay
<1>1. CASE Begin(c)
  BY <1>1 DEF TypeOK, Begin, Goto, Posting, tables, held
<1>2. CASE OpenTx(c)
  BY <1>2 DEF TypeOK, OpenTx, Goto, Posting, tables, held
<1>3. CASE MarkRow(c)
  BY <1>3 DEF TypeOK, MarkRow, Goto, Posting, tables
<1>4. CASE Resolve(c)
  BY <1>4 DEF TypeOK, Resolve, Goto, Posting, tables, held
<1>5. CASE ResolveAgain(c)
  BY <1>5, SecondLookup DEF TypeOK, ResolveAgain, Goto, Posting, tables, held
<1>6. CASE Retry(c)
  BY <1>6 DEF TypeOK, Retry, Goto, Posting, tables, held
<1>7. CASE \E code \in Codes : Look(c, code)
  BY <1>7 DEF TypeOK, Look, Posting, tables, held
<1>8. CASE \E code \in Codes : Create(c, code)
  BY <1>8, UpsertKeepsBalances DEF TypeOK, Create, Posting, held
<1> QED
  BY <1>1, <1>2, <1>3, <1>4, <1>5, <1>6, <1>7, <1>8 DEF Searches

\* The conjuncts of the invariant that speak of locks, views and drafts, which
\* a search leaves alone.
LEMMA SearchKeeps ==
  ASSUME TypeOK, Inductive, NoMissingAccount, NEW c \in Calls, Searches(c)
  PROVE  LocksAreUpdates' /\ ViewsAreCurrent' /\ DraftsFollow'
<1>1. /\ UNCHANGED <<balance, completed, entries, locks, view, drafts>>
      /\ ~ Posting(c)
      /\ at'[c] = "debit" => leg'[c] = "gross"
      /\ at'[c] \notin {"credit", "insert", "commit"}
      /\ \A d \in Calls \ {c} : at'[d] = at[d] /\ leg'[d] = leg[d]
  BY SearchFrame
<1>2. \A d \in Calls, code \in Codes : Touches(d, code)' <=> Touches(d, code)
  BY <1>1 DEF Touches, Posting, GrossDebited, GrossCredited, FeeCredited
<1>3. \A d \in Calls, code \in Codes : Touches(d, code) => Pending(d, code)' = Pending(d, code)
  BY <1>1 DEF Touches, Posting, Pending, FeeDebited
<1>4. LocksAreUpdates'
  BY <1>1, <1>2 DEF Inductive, LocksAreUpdates, BookFor
<1>5. ViewsAreCurrent'
  BY <1>1, <1>2, <1>3 DEF Inductive, ViewsAreCurrent, BookFor
<1>6. DraftsFollow'
  <2>1. \A d \in Calls : (at[d] = "commit") <=> (at'[d] = "commit")
    BY <1>1 DEF Posting
  <2>2. \A d \in Calls : (Posting(d) /\ leg[d] = "fee") <=> (Posting(d) /\ leg[d] = "fee")'
    BY <1>1 DEF Posting
  <2> QED
    BY <1>1, <2>1, <2>2 DEF Inductive, DraftsFollow, Written
<1> QED
  BY <1>4, <1>5, <1>6

\* The payment row is locked from MarkRow to the end of the transaction.
LEMMA RowsHeldStep ==
  ASSUME TypeOK, Inductive, NoMissingAccount, NEW c \in Calls, Step(c) \/ RollBack(c) \/ Retry(c)
  PROVE  RowsAreHeld'
<1> USE CallsPay, CallAssumption DEF InsideTx
<1>0. RowsAreHeld
  BY DEF Inductive
<1>1. CASE Begin(c)
  BY <1>0, <1>1 DEF TypeOK, RowsAreHeld, Begin, Goto, held
<1>2. CASE OpenTx(c)
  BY <1>0, <1>2 DEF TypeOK, RowsAreHeld, OpenTx, Goto, held
<1>3. CASE MarkRow(c)
  BY <1>0, <1>3 DEF TypeOK, RowsAreHeld, MarkRow, Goto
<1>4. CASE Resolve(c)
  <2>1. /\ rowLock' = rowLock
        /\ {at[c], at'[c]} \subseteq InsideTx \ {"row"}
        /\ \A d \in Calls \ {c} : at'[d] = at[d]
    BY <1>4 DEF TypeOK, Resolve, Goto, held
  <2> QED
    BY <1>0, <2>1 DEF RowsAreHeld
<1>5. CASE ResolveAgain(c)
  <2>1. /\ rowLock' = rowLock
        /\ {at[c], at'[c]} \subseteq InsideTx \ {"row"}
        /\ \A d \in Calls \ {c} : at'[d] = at[d]
    BY <1>5, SecondLookup DEF TypeOK, ResolveAgain, Goto, held
  <2> QED
    BY <1>0, <2>1 DEF RowsAreHeld
<1>6. CASE Debit(c)
  BY <1>0, <1>6 DEF TypeOK, RowsAreHeld, Debit, AddTo, Goto
<1>7. CASE Credit(c)
  BY <1>0, <1>7 DEF TypeOK, RowsAreHeld, Credit, AddTo, Goto
<1>8. CASE Insert(c)
  <2>1. /\ rowLock' = rowLock
        /\ {at[c], at'[c]} \subseteq InsideTx \ {"row"}
        /\ \A d \in Calls \ {c} : at'[d] = at[d]
    BY <1>8 DEF TypeOK, Insert, Goto
  <2> QED
    BY <1>0, <2>1 DEF RowsAreHeld
<1>9. CASE Commit(c)
  BY <1>0, <1>9 DEF TypeOK, RowsAreHeld, Commit, Release, Goto
<1>10. CASE RollBack(c)
  BY <1>0, <1>10 DEF TypeOK, RowsAreHeld, RollBack, Release, Goto
<1>11. CASE Retry(c)
  BY <1>0, <1>11 DEF TypeOK, RowsAreHeld, Retry, Goto, held
<1>12. CASE \E code \in Codes : Look(c, code)
  BY <1>0, <1>12 DEF RowsAreHeld, Look, held
<1>13. CASE \E code \in Codes : Create(c, code)
  BY <1>0, <1>13 DEF RowsAreHeld, Create, held
<1> QED
  BY <1>1, <1>2, <1>3, <1>4, <1>5, <1>6, <1>7, <1>8, <1>9, <1>10, <1>11, <1>12, <1>13 DEF Step

\* One balance update: c gets the lock of the account, its version of the
\* account moves, and nobody else is disturbed.
LEMMA AddToMoves ==
  ASSUME TypeOK, Inductive, NEW c \in Calls, NEW code \in Codes, NEW amount \in Nat,
         AddTo(c, code, amount)
  PROVE  /\ locks'[BookFor(c)][code] = c
         /\ \A b \in Books, x \in Codes :
              (b # BookFor(c) \/ x # code) => locks'[b][x] = locks[b][x]
         /\ view'[c][code] = (IF Touches(c, code) THEN view[c][code]
                              ELSE balance[BookFor(c)][code]) + amount
         /\ \A x \in Codes \ {code} : view'[c][x] = view[c][x]
         /\ \A d \in Calls \ {c} : view'[d] = view[d] /\ ~ (BookFor(d) = BookFor(c) /\ Touches(d, code))
<1> USE CallsPay
<1>1. locks[BookFor(c)][code] \in {NoCall, c}
  BY DEF AddTo
<1>2. locks[BookFor(c)][code] = c <=> Touches(c, code)
  BY DEF Inductive, LocksAreUpdates
<1>3. \A d \in Calls \ {c} : ~ (BookFor(d) = BookFor(c) /\ Touches(d, code))
  BY <1>1, CallAssumption DEF Inductive, LocksAreUpdates
<1> QED
  BY <1>2, <1>3 DEF AddTo, TypeOK

\* The two updates of an entry keep locks and views as the invariant says.
LEMMA DebitKeeps ==
  ASSUME TypeOK, Inductive, NEW c \in Calls, Debit(c)
  PROVE  LocksAreUpdates' /\ ViewsAreCurrent' /\ DraftsFollow'
<1> DEFINE code == DebitOf(leg[c])
           amount == LegAmount(PayOf[c], leg[c])
<1> USE CallsPay, FeeBounds
<1>0. /\ leg[c] \in Legs /\ code \in Codes /\ amount \in Nat /\ AddTo(c, code, amount)
      /\ at[c] = "debit" /\ at'[c] = "credit" /\ leg' = leg /\ balance' = balance /\ drafts' = drafts
      /\ \A d \in Calls \ {c} : at'[d] = at[d]
  BY LegAmounts DEF TypeOK, Debit, AddTo, Goto, tables
<1> HIDE DEF code, amount
<1>1. /\ locks'[BookFor(c)][code] = c
      /\ \A b \in Books, x \in Codes :
           (b # BookFor(c) \/ x # code) => locks'[b][x] = locks[b][x]
      /\ view'[c][code] = (IF Touches(c, code) THEN view[c][code]
                           ELSE balance[BookFor(c)][code]) + amount
      /\ \A x \in Codes \ {code} : view'[c][x] = view[c][x]
      /\ \A d \in Calls \ {c} : view'[d] = view[d] /\ ~ (BookFor(d) = BookFor(c) /\ Touches(d, code))
  BY <1>0, AddToMoves
<1>2. \A x \in Codes : Touches(c, x)' <=> Touches(c, x) \/ x = code
  BY <1>0 DEF code, DebitOf, Codes, Legs, Touches, Posting, GrossDebited, GrossCredited, FeeCredited
<1>3. \A d \in Calls \ {c}, x \in Codes :
        (Touches(d, x)' <=> Touches(d, x)) /\ Pending(d, x)' = Pending(d, x)
  BY <1>0 DEF Touches, Posting, GrossDebited, GrossCredited, FeeCredited, Pending, FeeDebited
<1>4. LocksAreUpdates'
  BY <1>1, <1>2, <1>3, CallAssumption DEF Inductive, LocksAreUpdates, BookFor
<1>5. ViewsAreCurrent'
  <2>1. ASSUME NEW x \in Codes, Touches(c, x)'
        PROVE  view'[c][x] = balance[BookFor(c)][x] + Pending(c, x)'
    <3>1. CASE x # code
      <4>1. view[c][x] = balance[BookFor(c)][x] + Pending(c, x)
        BY <1>2, <2>1, <3>1 DEF Inductive, ViewsAreCurrent
      <4>2. Pending(c, x)' = Pending(c, x)
        BY <1>0, <1>2, <2>1, <3>1
        DEF code, DebitOf, Codes, Legs, Touches, Posting, GrossCredited, FeeCredited, Pending, FeeDebited
      <4> QED
        BY <1>1, <3>1, <4>1, <4>2
    <3>2. CASE x = code
      <4>1. CASE leg[c] = "gross"
        BY <1>0, <1>1, <3>2, <4>1
        DEF TypeOK, code, amount, DebitOf, LegAmount, Codes, Touches, Posting, GrossDebited, Pending
      <4>2. CASE leg[c] = "fee"
        <5>1. /\ x = "liability" /\ Touches(c, x) /\ amount = Fee(PayOf[c])
              /\ Pending(c, x) = Amount[PayOf[c]]
              /\ Pending(c, x)' = Amount[PayOf[c]] + Fee(PayOf[c])
          BY <1>0, <3>2, <4>2
          DEF code, amount, DebitOf, LegAmount, Touches, Posting, GrossCredited, Pending, FeeDebited
        <5>2. view[c][x] = balance[BookFor(c)][x] + Pending(c, x)
          BY <1>0, <5>1 DEF Inductive, ViewsAreCurrent
        <5>3. /\ balance[BookFor(c)][x] \in Nat
              /\ Amount[PayOf[c]] \in Nat /\ Fee(PayOf[c]) \in Nat
          BY <1>0 DEF TypeOK
        <5>4. view'[c][x] = balance[BookFor(c)][x] + (Amount[PayOf[c]] + Fee(PayOf[c]))
          BY <1>1, <3>2, <5>1, <5>2, <5>3
        <5> QED
          BY <5>1, <5>4
      <4> QED
        BY <1>0, <4>1, <4>2 DEF Legs
    <3> QED
      BY <3>1, <3>2
  <2>2. ASSUME NEW d \in Calls \ {c}, NEW x \in Codes, Touches(d, x)'
        PROVE  view'[d][x] = balance[BookFor(d)][x] + Pending(d, x)'
    BY <1>1, <1>3, <2>2 DEF Inductive, ViewsAreCurrent
  <2> QED
    BY <1>0, <2>1, <2>2 DEF ViewsAreCurrent, BookFor
<1>6. DraftsFollow'
  BY <1>0 DEF Inductive, DraftsFollow, Written, Posting
<1> QED
  BY <1>4, <1>5, <1>6

LEMMA CreditKeeps ==
  ASSUME TypeOK, Inductive, NEW c \in Calls, Credit(c)
  PROVE  LocksAreUpdates' /\ ViewsAreCurrent' /\ DraftsFollow'
<1> DEFINE code == CreditOf(leg[c])
           amount == LegAmount(PayOf[c], leg[c])
<1> USE CallsPay, FeeBounds
<1>0. /\ leg[c] \in Legs /\ code \in Codes /\ amount \in Nat /\ AddTo(c, code, amount)
      /\ at[c] = "credit" /\ at'[c] = "insert" /\ leg' = leg /\ balance' = balance /\ drafts' = drafts
      /\ \A d \in Calls \ {c} : at'[d] = at[d]
  BY LegAmounts DEF TypeOK, Credit, AddTo, Goto, tables
<1> HIDE DEF code, amount
<1>1. /\ locks'[BookFor(c)][code] = c
      /\ \A b \in Books, x \in Codes :
           (b # BookFor(c) \/ x # code) => locks'[b][x] = locks[b][x]
      /\ view'[c][code] = (IF Touches(c, code) THEN view[c][code]
                           ELSE balance[BookFor(c)][code]) + amount
      /\ \A x \in Codes \ {code} : view'[c][x] = view[c][x]
      /\ \A d \in Calls \ {c} : view'[d] = view[d] /\ ~ (BookFor(d) = BookFor(c) /\ Touches(d, code))
  BY <1>0, AddToMoves
<1>2. \A x \in Codes : Touches(c, x)' <=> Touches(c, x) \/ x = code
  BY <1>0 DEF code, CreditOf, Codes, Legs, Touches, Posting, GrossDebited, GrossCredited, FeeCredited
<1>3. \A d \in Calls \ {c}, x \in Codes :
        (Touches(d, x)' <=> Touches(d, x)) /\ Pending(d, x)' = Pending(d, x)
  BY <1>0 DEF Touches, Posting, GrossDebited, GrossCredited, FeeCredited, Pending, FeeDebited
<1>4. LocksAreUpdates'
  BY <1>1, <1>2, <1>3, CallAssumption DEF Inductive, LocksAreUpdates, BookFor
<1>5. ViewsAreCurrent'
  <2>1. ASSUME NEW x \in Codes, Touches(c, x)'
        PROVE  view'[c][x] = balance[BookFor(c)][x] + Pending(c, x)'
    <3>1. CASE x # code
      <4>1. view[c][x] = balance[BookFor(c)][x] + Pending(c, x)
        BY <1>2, <2>1, <3>1 DEF Inductive, ViewsAreCurrent
      <4>2. Pending(c, x)' = Pending(c, x)
        BY <1>0, <1>2, <2>1, <3>1
        DEF code, CreditOf, Codes, Legs, Touches, Posting, GrossCredited, FeeCredited, Pending, FeeDebited
      <4> QED
        BY <1>1, <3>1, <4>1, <4>2
    <3>2. CASE x = code
      <4>1. CASE leg[c] = "gross"
        BY <1>0, <1>1, <3>2, <4>1
        DEF TypeOK, code, amount, CreditOf, LegAmount, Codes, Touches, Posting, GrossCredited,
            Pending, FeeDebited
      <4>2. CASE leg[c] = "fee"
        BY <1>0, <1>1, <3>2, <4>2
        DEF TypeOK, code, amount, CreditOf, LegAmount, Codes, Touches, Posting, FeeCredited, Pending
      <4> QED
        BY <1>0, <4>1, <4>2 DEF Legs
    <3> QED
      BY <3>1, <3>2
  <2>2. ASSUME NEW d \in Calls \ {c}, NEW x \in Codes, Touches(d, x)'
        PROVE  view'[d][x] = balance[BookFor(d)][x] + Pending(d, x)'
    BY <1>1, <1>3, <2>2 DEF Inductive, ViewsAreCurrent
  <2> QED
    BY <1>0, <2>1, <2>2 DEF ViewsAreCurrent, BookFor
<1>6. DraftsFollow'
  <2>1. \A d \in Calls : /\ (at[d] = "commit") <=> (at'[d] = "commit")
                        /\ Posting(d) <=> Posting(d)'
    BY <1>0 DEF Posting
  <2> QED
    BY <1>0, <2>1 DEF Inductive, DraftsFollow, Written
<1> QED
  BY <1>4, <1>5, <1>6

LEMMA InsertKeeps ==
  ASSUME TypeOK, Inductive, NEW c \in Calls, Insert(c)
  PROVE  LocksAreUpdates' /\ ViewsAreCurrent' /\ DraftsFollow'
<1> USE CallsPay, FeeBounds
<1>1. /\ UNCHANGED <<locks, view, balance>>
      /\ at[c] = "insert" /\ leg[c] \in Legs
      /\ drafts' = [drafts EXCEPT ![c] = @ \cup {Entry(c, PayOf[c], leg[c])}]
      /\ \A d \in Calls \ {c} : at'[d] = at[d] /\ leg'[d] = leg[d]
      /\ \/ leg[c] = "gross" /\ Fee(PayOf[c]) > 0 /\ at'[c] = "debit" /\ leg'[c] = "fee"
         \/ leg[c] = "gross" /\ Fee(PayOf[c]) = 0 /\ at'[c] = "commit" /\ leg'[c] = "gross"
         \/ leg[c] = "fee" /\ Fee(PayOf[c]) > 0 /\ at'[c] = "commit" /\ leg'[c] = "fee"
  <2>1. leg[c] \in Legs /\ leg[c] = "fee" => Fee(PayOf[c]) > 0
    BY DEF TypeOK, Inductive, EntriesAreOfDone
  <2>2. /\ UNCHANGED <<locks, view, balance>> /\ at[c] = "insert"
        /\ drafts' = [drafts EXCEPT ![c] = @ \cup {Entry(c, PayOf[c], leg[c])}]
        /\ \A d \in Calls \ {c} : at'[d] = at[d] /\ leg'[d] = leg[d]
    BY DEF TypeOK, Insert, Goto, tables
  <2>3. \/ leg[c] = "gross" /\ Fee(PayOf[c]) > 0 /\ at'[c] = "debit" /\ leg'[c] = "fee"
        \/ (leg[c] = "fee" \/ Fee(PayOf[c]) = 0) /\ at'[c] = "commit" /\ leg'[c] = leg[c]
    BY DEF TypeOK, Insert, Goto
  <2>4. leg[c] \in Legs
    BY DEF TypeOK
  <2> QED
    BY <2>1, <2>2, <2>3, <2>4 DEF Legs
<1>2. \A d \in Calls, x \in Codes : Touches(d, x)' <=> Touches(d, x)
  BY <1>1 DEF Touches, Posting, GrossDebited, GrossCredited, FeeCredited
<1>3. \A d \in Calls, x \in Codes : Pending(d, x)' = Pending(d, x)
  BY <1>1 DEF Pending, FeeDebited
<1>4. LocksAreUpdates'
  BY <1>1, <1>2 DEF Inductive, LocksAreUpdates, BookFor
<1>5. ViewsAreCurrent'
  BY <1>1, <1>2, <1>3 DEF Inductive, ViewsAreCurrent, BookFor
<1>6. DraftsFollow'
  <2>1. \A d \in Calls \ {c} : drafts'[d] = drafts[d]
    BY <1>1 DEF TypeOK
  <2>2. drafts'[c] = drafts[c] \cup {Entry(c, PayOf[c], leg[c])}
    BY <1>1 DEF TypeOK
  <2>3. drafts[c] = EntriesOf(c, PayOf[c], Written(c))
    BY DEF Inductive, DraftsFollow
  <2>4. Written(c)' = Written(c) \cup {leg[c]}
    BY <1>1 DEF Written, LegsOf, Legs, Posting
  <2>5. \A d \in Calls \ {c} : Written(d)' = Written(d)
    BY <1>1 DEF Written, Posting
  <2>6. drafts'[c] = EntriesOf(c, PayOf[c], Written(c)')
    BY <2>2, <2>3, <2>4 DEF EntriesOf
  <2> QED
    BY <2>1, <2>5, <2>6 DEF Inductive, DraftsFollow
<1> QED
  BY <1>4, <1>5, <1>6

\* When a transaction ends, its locks and drafts go, and an account that
\* another transaction has updated is not one that this one committed.
LEMMA EndKeeps ==
  ASSUME TypeOK, Inductive, NEW c \in Calls, Release(c), at'[c] \in {"failed", "done"},
         \A d \in Calls \ {c} : at'[d] = at[d], leg' = leg,
         \A b \in Books, x \in Codes : locks[b][x] # c => balance'[b][x] = balance[b][x]
  PROVE  LocksAreUpdates' /\ ViewsAreCurrent' /\ DraftsFollow'
<1> USE CallsPay
<1>1. \A x \in Codes : ~ Touches(c, x)'
  BY DEF Touches, Posting
<1>2. \A d \in Calls \ {c}, x \in Codes :
        (Touches(d, x)' <=> Touches(d, x)) /\ Pending(d, x)' = Pending(d, x)
  BY DEF Touches, Posting, GrossDebited, GrossCredited, FeeCredited, Pending, FeeDebited
<1>3. LocksAreUpdates'
  <2>1. \A b \in Books, x \in Codes : locks'[b][x] = IF locks[b][x] = c THEN NoCall ELSE locks[b][x]
    BY DEF Release
  <2> QED
    BY <1>1, <1>2, <2>1, CallAssumption DEF Inductive, LocksAreUpdates, BookFor
<1>4. ViewsAreCurrent'
  <2>1. ASSUME NEW d \in Calls \ {c}, NEW x \in Codes, Touches(d, x)
        PROVE  view'[d][x] = balance'[BookFor(d)][x] + Pending(d, x)
    <3>1. locks[BookFor(d)][x] = d
      BY <2>1 DEF Inductive, LocksAreUpdates
    <3>2. balance'[BookFor(d)][x] = balance[BookFor(d)][x]
      BY <3>1
    <3> QED
      BY <2>1, <3>2 DEF Inductive, ViewsAreCurrent, Release
  <2> QED
    BY <1>1, <1>2, <2>1 DEF ViewsAreCurrent, BookFor
<1>5. DraftsFollow'
  <2>1. drafts'[c] = {} /\ \A d \in Calls \ {c} : drafts'[d] = drafts[d]
    BY DEF TypeOK, Release
  <2>2. ~ Posting(c)' /\ at'[c] # "commit"
    BY DEF Posting
  <2>3. \A d \in Calls \ {c} : Posting(d)' <=> Posting(d)
    BY DEF Posting
  <2> QED
    BY <2>1, <2>2, <2>3 DEF Inductive, DraftsFollow, Written, EntriesOf
<1> QED
  BY <1>3, <1>4, <1>5

\* A wallet's provisioning finds no balance to disturb.
LEMMA ProvisionKeeps ==
  ASSUME TypeOK, Inductive, NoMissingAccount, NEW b \in Books, NEW code \in Codes, Provision(b, code)
  PROVE  Inductive' /\ NoMissingAccount'
<1>1. /\ UNCHANGED <<balance, completed, entries, held, at, leg, search, tries>>
      /\ \A d \in Books : accounts[d] \subseteq accounts'[d]
      /\ accounts' \in [Books -> SUBSET Codes]
  BY UpsertKeepsBalances DEF TypeOK, Provision, UpsertAccount
<1>2. LocksAreUpdates' /\ RowsAreHeld'
  BY <1>1 DEF Inductive, LocksAreUpdates, RowsAreHeld, Touches, Posting, GrossDebited,
              GrossCredited, FeeCredited, held, BookFor
<1>3. ViewsAreCurrent'
  BY <1>1 DEF Inductive, ViewsAreCurrent, Touches, Posting, GrossDebited,
              GrossCredited, FeeCredited, Pending, FeeDebited, held, BookFor
<1>4. DraftsFollow' /\ EntriesAreOfDone'
  BY <1>1 DEF Inductive, DraftsFollow, Written, EntriesAreOfDone, Posting, held
<1>5. LookupsAreTrue'
  BY <1>1, CallsPay DEF Inductive, LookupsAreTrue, LookupIsTrue, Posting, search, BookFor
<1>6. NoMissingAccount'
  BY <1>1 DEF NoMissingAccount
<1> QED
  BY <1>2, <1>3, <1>4, <1>5, <1>6 DEF Inductive

\* Accounts only come, so what a call found is there for good, and what it
\* could not find is created before it looks again.
LEMMA LookupsStep ==
  ASSUME TypeOK, Inductive, NoMissingAccount, NEW c \in Calls, Step(c) \/ RollBack(c) \/ Retry(c)
  PROVE  LookupsAreTrue'
<1> USE CallsPay
<1>0. /\ \A d \in Calls : LookupIsTrue(d)
      /\ todo[c] \subseteq Codes
  BY DEF TypeOK, Inductive, LookupsAreTrue
<1>1. SUFFICES /\ \A b \in Books : accounts[b] \subseteq accounts'[b]
               /\ \A d \in Calls \ {c} : at'[d] = at[d] /\ found'[d] = found[d] /\ todo'[d] = todo[d]
               /\ LookupIsTrue(c)'
  <2>1. \A d \in Calls \ {c} : BookFor(d) \in Books /\ BookFor(d)' = BookFor(d)
    BY DEF BookFor
  <2> QED
    BY <1>0, <1>1, <2>1 DEF LookupsAreTrue, LookupIsTrue, Posting
<1>2. CASE Begin(c)
  BY <1>0, <1>2 DEF TypeOK, Begin, Goto, LookupIsTrue, Posting, search, BookFor
<1>3. CASE OpenTx(c)
  BY <1>0, <1>3 DEF TypeOK, OpenTx, Goto, LookupIsTrue, Posting, search, BookFor
<1>4. CASE MarkRow(c)
  BY <1>0, <1>4 DEF TypeOK, MarkRow, Goto, LookupIsTrue, Posting, BookFor
<1>5. CASE Resolve(c)
  <2>1. CASE at[c] = "look" /\ found[c] = Codes
    BY <1>0, <1>5, <2>1 DEF TypeOK, Resolve, Goto, LookupIsTrue, Posting, search, BookFor
  <2>2. CASE at[c] = "look" /\ found[c] # Codes
    BY <1>0, <1>5, <2>2 DEF TypeOK, Resolve, Goto, LookupIsTrue, Posting, search, BookFor
  <2>3. CASE at[c] = "create"
    BY <1>0, <1>5, <2>3 DEF TypeOK, Resolve, Goto, LookupIsTrue, Posting, search, BookFor
  <2> QED
    BY <1>5, <2>1, <2>2, <2>3 DEF Resolve
<1>6. CASE ResolveAgain(c)
  BY <1>0, <1>6, SecondLookup
  DEF TypeOK, ResolveAgain, Goto, LookupIsTrue, Posting, search, BookFor
<1>7. CASE Debit(c) \/ Credit(c) \/ Insert(c)
  BY <1>0, <1>7 DEF TypeOK, Debit, Credit, Insert, Goto, LookupIsTrue, Posting, search, BookFor
<1>8. CASE Commit(c) \/ RollBack(c) \/ Retry(c)
  BY <1>0, <1>8 DEF TypeOK, Commit, RollBack, Retry, Goto, LookupIsTrue, Posting, search, BookFor
<1>9. CASE \E code \in Codes : Look(c, code)
  BY <1>0, <1>9 DEF TypeOK, Look, LookupIsTrue, Posting, BookFor
<1>10. CASE \E code \in Codes : Create(c, code)
  BY <1>0, <1>10 DEF TypeOK, Create, UpsertAccount, LookupIsTrue, Posting, BookFor
<1> QED
  BY <1>2, <1>3, <1>4, <1>5, <1>6, <1>7, <1>8, <1>9, <1>10 DEF Step

\* A call's entries appear when it is done, and a done call stays done.
LEMMA EntriesStep ==
  ASSUME TypeOK, Inductive, NoMissingAccount, NEW c \in Calls, Step(c) \/ RollBack(c) \/ Retry(c)
  PROVE  EntriesAreOfDone'
<1> USE CallsPay, FeeBounds
<1>0. EntriesAreOfDone /\ leg[c] \in Legs /\ Fee(PayOf[c]) \in Nat
  BY DEF TypeOK, Inductive
<1>1. CASE Searches(c)
  <2>1. /\ entries' = entries /\ at[c] # "done" /\ at'[c] # "commit"
        /\ \A d \in Calls \ {c} : at'[d] = at[d] /\ leg'[d] = leg[d]
    BY <1>1, SearchFrame
    DEF Searches, Begin, OpenTx, MarkRow, Resolve, ResolveAgain, Retry, Look, Create
  <2>2. leg'[c] \in {leg[c], "gross"}
    BY <1>1 DEF TypeOK, Searches, Begin, OpenTx, MarkRow, Resolve, ResolveAgain, Retry, Look, Create
  <2>3. \A e \in entries : e.call \in Calls
    BY DEF TypeOK, Rows, Entry
  <2> QED
    BY <1>0, <2>1, <2>2, <2>3 DEF EntriesAreOfDone
<1>2. CASE Debit(c) \/ Credit(c) \/ RollBack(c)
  <2>1. /\ entries' = entries /\ leg' = leg /\ at[c] # "done" /\ at'[c] # "commit"
        /\ \A d \in Calls \ {c} : at'[d] = at[d]
    BY <1>2 DEF TypeOK, Debit, Credit, RollBack, Goto, tables, InsideTx
  <2>2. \A e \in entries : e.call \in Calls
    BY DEF TypeOK, Rows, Entry
  <2> QED
    BY <1>0, <2>1, <2>2 DEF EntriesAreOfDone
<1>3. CASE Insert(c)
  <2>1. /\ entries' = entries /\ at[c] # "done"
        /\ \A d \in Calls \ {c} : at'[d] = at[d] /\ leg'[d] = leg[d]
        /\ \/ Fee(PayOf[c]) > 0 /\ at'[c] = "debit" /\ leg'[c] = "fee"
           \/ (leg[c] = "fee" \/ Fee(PayOf[c]) = 0) /\ at'[c] = "commit" /\ leg'[c] = leg[c]
    BY <1>3 DEF TypeOK, Insert, Goto, tables
  <2>2. \A e \in entries : e.call \in Calls
    BY DEF TypeOK, Rows, Entry
  <2> QED
    BY <1>0, <2>1, <2>2 DEF EntriesAreOfDone, Legs
<1>4. CASE Commit(c)
  <2>1. /\ entries' = entries \cup drafts[c] /\ leg' = leg /\ at'[c] = "done"
        /\ \A d \in Calls \ {c} : at'[d] = at[d]
    BY <1>4 DEF TypeOK, Commit, Goto
  <2>2. /\ \A e \in entries : e.call \in Calls
        /\ \A e \in drafts[c] : e.call = c
    BY DEF TypeOK, Rows, Inductive, DraftsFollow, EntriesOf, Entry
  <2> QED
    BY <1>0, <2>1, <2>2 DEF EntriesAreOfDone
<1> QED
  BY <1>1, <1>2, <1>3, <1>4 DEF Step, Searches

\* Only a commit moves balances, and a call that commits has seen its accounts.
LEMMA AccountsStep ==
  ASSUME TypeOK, Inductive, NoMissingAccount, NEW c \in Calls, Step(c) \/ RollBack(c) \/ Retry(c)
  PROVE  NoMissingAccount'
<1> USE CallsPay
<1>1. \A b \in Books : accounts[b] \subseteq accounts'[b]
  <2>1. CASE \E code \in Codes : Create(c, code)
    BY <2>1 DEF TypeOK, Create, UpsertAccount
  <2>2. CASE ~ \E code \in Codes : Create(c, code)
    <3>1. accounts' = accounts
      BY <2>2 DEF Step, Begin, OpenTx, MarkRow, Resolve, ResolveAgain, Look,
             Debit, Credit, Insert, Commit, RollBack, Retry
    <3> QED
      BY <3>1
  <2> QED
    BY <2>1, <2>2
<1>2. CASE Commit(c)
  <2>1. Codes \subseteq accounts[BookFor(c)]
    BY <1>2 DEF Inductive, LookupsAreTrue, LookupIsTrue, Posting, Commit
  <2>2. \A b \in Books, x \in Codes : b # BookFor(c) => balance'[b][x] = balance[b][x]
    BY <1>2 DEF Commit, Inductive, LocksAreUpdates
  <2> QED
    BY <1>1, <2>1, <2>2 DEF NoMissingAccount
<1>3. CASE ~ Commit(c)
  <2>1. balance' = balance
    BY <1>3, SearchFrame DEF Step, Searches, Debit, Credit, Insert, RollBack, tables
  <2> QED
    BY <1>1, <2>1 DEF NoMissingAccount
<1> QED
  BY <1>2, <1>3

----------------------------------------------------------------------------
(* The theorems. *)

LEMMA InitHolds ==
  ASSUME Init
  PROVE  TypeOK /\ Inductive /\ NoMissingAccount
<1>1. TypeOK
  BY DEF Init, TypeOK, Zero, Legs
<1>2. LocksAreUpdates /\ RowsAreHeld
  BY CallsPay, CallAssumption DEF Init, LocksAreUpdates, RowsAreHeld, Touches, Posting, InsideTx
<1>3. ViewsAreCurrent /\ DraftsFollow /\ EntriesAreOfDone
  BY DEF Init, ViewsAreCurrent, DraftsFollow, Written, EntriesOf, EntriesAreOfDone, Touches, Posting
<1>4. LookupsAreTrue /\ NoMissingAccount
  BY CallsPay DEF Init, LookupsAreTrue, LookupIsTrue, NoMissingAccount, Posting, Zero
<1> QED
  BY <1>1, <1>2, <1>3, <1>4 DEF Inductive

LEMMA StepHolds ==
  ASSUME TypeOK, Inductive, NoMissingAccount, [Next]_vars
  PROVE  Inductive' /\ NoMissingAccount'
<1>1. ASSUME NEW c \in Calls, Step(c) \/ RollBack(c) \/ Retry(c)
      PROVE  Inductive' /\ NoMissingAccount'
  <2>1. RowsAreHeld' /\ LookupsAreTrue' /\ EntriesAreOfDone' /\ NoMissingAccount'
    BY <1>1, RowsHeldStep, LookupsStep, EntriesStep, AccountsStep
  <2>2. LocksAreUpdates' /\ ViewsAreCurrent' /\ DraftsFollow'
    <3>1. CASE Searches(c)
      BY <3>1, SearchKeeps
    <3>2. CASE Debit(c)
      BY <3>2, DebitKeeps
    <3>3. CASE Credit(c)
      BY <3>3, CreditKeeps
    <3>4. CASE Insert(c)
      BY <3>4, InsertKeeps
    <3>5. CASE Commit(c)
      <4>1. /\ Release(c) /\ at'[c] = "done" /\ leg' = leg
            /\ \A d \in Calls \ {c} : at'[d] = at[d]
            /\ \A b \in Books, x \in Codes : locks[b][x] # c => balance'[b][x] = balance[b][x]
        BY <3>5 DEF TypeOK, Commit, Goto
      <4> QED
        BY <4>1, EndKeeps
    <3>6. CASE RollBack(c)
      <4>1. /\ Release(c) /\ at'[c] = "failed" /\ leg' = leg
            /\ \A d \in Calls \ {c} : at'[d] = at[d]
            /\ balance' = balance
        BY <3>6 DEF TypeOK, RollBack, Goto, tables
      <4> QED
        BY <4>1, EndKeeps
    <3> QED
      BY <1>1, <3>1, <3>2, <3>3, <3>4, <3>5, <3>6 DEF Step, Searches
  <2> QED
    BY <2>1, <2>2 DEF Inductive
<1>2. ASSUME NEW b \in Books, NEW code \in Codes, Provision(b, code)
      PROVE  Inductive' /\ NoMissingAccount'
  BY <1>2, ProvisionKeeps
<1>3. CASE UNCHANGED vars
  BY <1>3 DEF vars, Inductive, LocksAreUpdates, RowsAreHeld, ViewsAreCurrent, DraftsFollow, Written,
      EntriesAreOfDone, LookupsAreTrue, LookupIsTrue, NoMissingAccount, Touches, Posting,
      GrossDebited, GrossCredited, FeeCredited, Pending, FeeDebited, BookFor
<1> QED
  BY <1>1, <1>2, <1>3 DEF Next

\* Types, and the separation of concurrent settlements: locks, views, drafts
\* and lookups of every transaction are what its own statements made them.
THEOREM SettlementsAreApart == Spec => [](TypeOK /\ Inductive /\ NoMissingAccount)
<1>1. Init => TypeOK /\ Inductive /\ NoMissingAccount
  BY InitHolds
<1>2. TypeOK /\ Inductive /\ NoMissingAccount /\ [Next]_vars
      => (TypeOK /\ Inductive /\ NoMissingAccount)'
  BY TypesHold, StepHolds
<1> QED
  BY <1>1, <1>2, PTL DEF Spec

(* What a commit does, and that nothing else is seen from outside. *)

LEMMA CommitMoves ==
  ASSUME TypeOK, Inductive, NEW c \in Calls, Commit(c)
  PROVE  /\ completed' = completed \cup {PayOf[c]}
         /\ balance' = [balance EXCEPT ![BookFor(c)] =
                          [code \in Codes |-> balance[BookFor(c)][code] + Moved(PayOf[c], code)]]
         /\ entries' = entries \cup EntriesOf(c, PayOf[c], LegsOf(PayOf[c]))
         /\ \A e \in entries : e.call # c
<1> USE CallsPay, FeeBounds
<1>1. at[c] = "commit" /\ leg[c] = IF Fee(PayOf[c]) > 0 THEN "fee" ELSE "gross"
  BY DEF Inductive, EntriesAreOfDone, Commit
<1>2. ASSUME NEW x \in Codes
      PROVE  (IF Touches(c, x) THEN view[c][x] ELSE balance[BookFor(c)][x])
               = balance[BookFor(c)][x] + Moved(PayOf[c], x)
  <2>1. Touches(c, x) <=> (x = "revenue" => Fee(PayOf[c]) > 0)
    BY <1>1 DEF Codes, Touches, Posting, GrossDebited, GrossCredited, FeeCredited
  <2>2. Touches(c, x) => Pending(c, x) = Moved(PayOf[c], x)
    BY <1>1 DEF Touches, Pending, Moved, FeeDebited
  <2>3. ~ Touches(c, x) => Moved(PayOf[c], x) = 0
    BY <2>1 DEF Moved
  <2>4. Touches(c, x) => view[c][x] = balance[BookFor(c)][x] + Pending(c, x)
    BY DEF Inductive, ViewsAreCurrent
  <2>5. balance[BookFor(c)][x] \in Nat
    BY DEF TypeOK
  <2> QED
    BY <2>2, <2>3, <2>4, <2>5
<1>3. \A b \in Books, x \in Codes : locks[b][x] = c <=> b = BookFor(c) /\ Touches(c, x)
  BY DEF Inductive, LocksAreUpdates
<1>4. balance' = [balance EXCEPT ![BookFor(c)] =
                    [code \in Codes |-> balance[BookFor(c)][code] + Moved(PayOf[c], code)]]
  <2>1. \A b \in Books, x \in Codes :
          balance'[b][x] = IF b = BookFor(c) THEN balance[b][x] + Moved(PayOf[c], x) ELSE balance[b][x]
    BY <1>2, <1>3 DEF Commit
  <2>2. balance' = [b \in Books |-> [code \in Codes |-> balance'[b][code]]]
    BY DEF Commit
  <2> QED
    BY <2>1, <2>2 DEF TypeOK
<1>5. drafts[c] = EntriesOf(c, PayOf[c], LegsOf(PayOf[c]))
  BY <1>1 DEF Inductive, DraftsFollow, Written
<1>6. \A e \in entries : e.call # c
  BY <1>1 DEF Inductive, EntriesAreOfDone
<1>7. /\ completed' = completed \cup {PayOf[c]}
      /\ entries' = entries \cup drafts[c]
  BY DEF Commit
<1> QED
  BY <1>4, <1>5, <1>6, <1>7

LEMMA OnlyCommitsShow ==
  ASSUME TypeOK, Inductive, NoMissingAccount, [Next]_vars, ~ \E c \in Calls : Commit(c)
  PROVE  UNCHANGED <<completed, balance, entries>>
<1>1. CASE UNCHANGED vars
  BY <1>1 DEF vars
<1>2. ASSUME NEW c \in Calls, Searches(c)
      PROVE  UNCHANGED <<completed, balance, entries>>
  BY <1>2, SearchFrame
<1>3. ASSUME NEW c \in Calls, Debit(c) \/ Credit(c) \/ Insert(c) \/ RollBack(c)
      PROVE  UNCHANGED <<completed, balance, entries>>
  BY <1>3 DEF Debit, Credit, Insert, RollBack, tables
<1>4. ASSUME NEW b \in Books, NEW code \in Codes, Provision(b, code)
      PROVE  UNCHANGED <<completed, balance, entries>>
  BY <1>4, UpsertKeepsBalances DEF Provision
<1> QED
  BY <1>1, <1>2, <1>3, <1>4 DEF Next, Step, Searches

LEMMA FeesStep ==
  ASSUME TypeOK, Inductive, NoMissingAccount, FeesWithinRate, [Next]_vars
  PROVE  FeesWithinRate'
<1>1. CASE ~ \E c \in Calls : Commit(c)
  <2>1. balance' = balance
    BY <1>1, OnlyCommitsShow
  <2> QED
    BY <2>1 DEF FeesWithinRate
<1>2. ASSUME NEW c \in Calls, Commit(c)
      PROVE  FeesWithinRate'
  <2> DEFINE g == Amount[PayOf[c]]
             f == Fee(PayOf[c])
  <2>1. g \in Nat /\ f \in Nat /\ f * 10000 <= g * FeeBps
    BY CallsPay, FeeBounds
  <2>2. SUFFICES ASSUME NEW b \in Books
                 PROVE  balance'[b]["revenue"] * 10000 <= balance'[b]["asset"] * FeeBps
    BY DEF FeesWithinRate
  <2>3. /\ balance[b]["asset"] \in Nat /\ balance[b]["revenue"] \in Nat
        /\ balance[b]["revenue"] * 10000 <= balance[b]["asset"] * FeeBps
    BY DEF TypeOK, Codes, FeesWithinRate
  <2>4. CASE b # BookFor(c)
    BY <1>2, <2>3, <2>4, CommitMoves DEF TypeOK
  <2>5. CASE b = BookFor(c)
    <3>1. /\ balance'[b]["asset"] = balance[b]["asset"] + g
          /\ balance'[b]["revenue"] = balance[b]["revenue"] + f
      BY <1>2, <2>5, CommitMoves DEF TypeOK, Codes, Moved
    <3> HIDE DEF g, f
    <3> QED
      BY <2>1, <2>3, <3>1 DEF FeeBps
  <2> QED
    BY <2>4, <2>5
<1> QED
  BY <1>1, <1>2

\* On every book the platform has taken no more than its rate of what came in,
\* although every fee is rounded on its own and whatever settlements run at once.
THEOREM FeesStayWithinRate == Spec => []FeesWithinRate
<1>1. Init => FeesWithinRate
  BY DEF Init, FeesWithinRate, Zero, Codes, FeeBps
<1>2. TypeOK /\ Inductive /\ NoMissingAccount /\ FeesWithinRate /\ [Next]_vars => FeesWithinRate'
  BY FeesStep
<1> QED
  BY <1>1, <1>2, SettlementsAreApart, PTL DEF Spec

LEMMA AllOrNothingStep ==
  ASSUME TypeOK, Inductive, NoMissingAccount, AllOrNothing, [Next]_vars
  PROVE  AllOrNothing'
<1>1. CASE ~ \E c \in Calls : Commit(c)
  BY <1>1, OnlyCommitsShow DEF AllOrNothing
<1>2. ASSUME NEW c \in Calls, Commit(c)
      PROVE  AllOrNothing'
  <2> DEFINE new == EntriesOf(c, PayOf[c], LegsOf(PayOf[c]))
  <2>1. completed' = completed \cup {PayOf[c]} /\ entries' = entries \cup new
    BY <1>2, CommitMoves
  <2>2. /\ Entry(c, PayOf[c], "gross") \in new
        /\ \A l \in LegsOf(PayOf[c]) : Entry(c, PayOf[c], l) \in new
        /\ \A e \in new : e.call = c /\ e.payment = PayOf[c]
    BY DEF LegsOf, Legs, Entry, EntriesOf
  <2>3. \A p \in Payments : p \in completed' <=> \E e \in entries' : e.payment = p
    BY <2>1, <2>2 DEF AllOrNothing, Entry
  <2>4. \A e \in entries' : \A l \in LegsOf(e.payment) : Entry(e.call, e.payment, l) \in entries'
    <3>1. \A e \in entries : \A l \in LegsOf(e.payment) : Entry(e.call, e.payment, l) \in entries
      BY DEF AllOrNothing
    <3> HIDE DEF new
    <3> QED
      BY <2>1, <2>2, <3>1
  <2> QED
    BY <2>3, <2>4 DEF AllOrNothing
<1> QED
  BY <1>1, <1>2

\* Row and entries of a settlement are committed together or not at all.
THEOREM SettlementsAreAtomic == Spec => []AllOrNothing
<1>1. Init => AllOrNothing
  BY DEF Init, AllOrNothing
<1>2. TypeOK /\ Inductive /\ NoMissingAccount /\ AllOrNothing /\ [Next]_vars => AllOrNothing'
  BY AllOrNothingStep
<1> QED
  BY <1>1, <1>2, SettlementsAreApart, PTL DEF Spec

\* A settlement never gives up for want of accounts.
THEOREM AccountsAreFound == Spec => []SecondLookupSucceeds
<1>1. TypeOK /\ Inductive => SecondLookupSucceeds
  <2> SUFFICES ASSUME Inductive, NEW c \in Calls, at[c] = "relook", todo[c] = {}
               PROVE  found[c] = Codes
    BY DEF SecondLookupSucceeds
  <2>1. found[c] = Codes \ todo[c]
    BY DEF Inductive, LookupsAreTrue, LookupIsTrue
  <2> QED
    BY <2>1
<1> QED
  BY <1>1, SettlementsAreApart, PTL

----------------------------------------------------------------------------
(* Sums.  The library's induction theorems take the formula as a parameter, *)
(* so induction is by the least member of a set of numbers.                 *)

\* A set of numbers has a least one.
LEMMA LeastNumber ==
  ASSUME NEW S \in SUBSET Nat, S # {}
  PROVE  \E m \in S : \A k \in S : m <= k
<1>1. PICK R : IsWellFoundedOn(R, Nat) /\ \A x, y \in Nat : y < x => <<y, x>> \in R
  <2>1. \A x, y \in Nat : y < x => <<y, x>> \in OpToRel(<,Nat)
    BY DEF OpToRel
  <2> DEFINE T == OpToRel(<, Nat)
  <2>2. \A x, y \in Nat : y < x => <<y, x>> \in T
    BY <2>1, Zenon
  <2>3. IsWellFoundedOn(T, Nat)
    BY NatLessThanWellFounded, Zenon
  <2> HIDE DEF T
  <2> QED
    BY <2>2, <2>3
<1>2. \E x \in S : \A y \in S : ~ (<<y, x>> \in R)
  BY <1>1, WFMin
<1>3. PICK x \in S : \A y \in S : ~ (<<y, x>> \in R)
  BY <1>2
<1>4. \A y \in S : ~(y < x)
  BY <1>1, <1>3, Zenon
<1>5. x \in Nat /\ \A y \in S : y \in Nat
  OBVIOUS
<1> QED
  BY <1>4, <1>5

\* Induction, on a set instead of a formula.
LEMMA Induction ==
  ASSUME NEW S, 0 \in S, \A n \in Nat : n \in S => n + 1 \in S
  PROVE  \A n \in Nat : n \in S
<1> SUFFICES ASSUME NEW n \in Nat, n \notin S PROVE FALSE
  OBVIOUS
<1> DEFINE Out == {k \in Nat : k \notin S}
<1>1. PICK m \in Out : \A k \in Out : m <= k
  BY LeastNumber
<1>2. m # 0 /\ m \in Nat
  BY <1>1
<1>3. m - 1 \in Nat /\ m - 1 \notin Out
  BY <1>1, <1>2
<1> QED
  BY <1>2, <1>3, <1>1

\* The sum of BalancesAreSums, the element its recursion takes first, and what
\* the table of that recursion satisfies on a family of sets.
Total(S) == MapThenSumSet(LAMBDA e : e.amount, S)
Some(s) == CHOOSE x \in s : TRUE
Adds(g, F) == g = [s \in F |-> IF s = {} THEN 0 ELSE Some(s).amount + g[s \ {Some(s)}]]

LEMMA SomeIn == ASSUME NEW S, S # {} PROVE Some(S) \in S
BY DEF Some

\* Induction on cardinalities takes one element away.
LEMMA OneLess ==
  ASSUME NEW n \in Nat, NEW s, IsFiniteSet(s), Cardinality(s) = n + 1
  PROVE  /\ s # {} /\ Some(s) \in s
         /\ \A y \in s : Cardinality(s \ {y}) = n
<1>1. s # {}
  BY FS_EmptySet
<1>2. \A y \in s : Cardinality(s \ {y}) = Cardinality(s) - 1
  BY FS_RemoveElement
<1> QED
  BY <1>1, <1>2, SomeIn

\* Each sum is read from a table of its own.
LEMMA TotalDef == ASSUME NEW S PROVE Total(S) = (CHOOSE g : Adds(g, SUBSET S))[S]
BY DEF Total, MapThenSumSet, MapThenFoldSet, Adds, Some

\* The subsets of U with no more than n elements.
UpTo(U, n) == {s \in SUBSET U : Cardinality(s) <= n}

\* The recursion of a sum has a solution, built cardinality by cardinality.
LEMMA AddsExists ==
  ASSUME NEW U, IsFiniteSet(U)
  PROVE  \E g : Adds(g, SUBSET U)
<1> DEFINE I == {n \in Nat : \E g : Adds(g, UpTo(U, n))}
<1>1. \A s \in SUBSET U : IsFiniteSet(s) /\ Cardinality(s) \in Nat
  BY FS_Subset, FS_CardinalityType
<1>2. 0 \in I
  <2>1. \A s \in UpTo(U, 0) : s = {}
    BY <1>1, FS_EmptySet DEF UpTo
  <2>2. Adds([s \in UpTo(U, 0) |-> 0], UpTo(U, 0))
    BY <2>1 DEF Adds
  <2> QED
    BY <2>2
<1>3. ASSUME NEW n \in Nat, n \in I PROVE n + 1 \in I
  <2>1. PICK g : Adds(g, UpTo(U, n))
    BY <1>3
  <2> DEFINE h == [s \in UpTo(U, n + 1) |-> IF s = {} THEN 0 ELSE Some(s).amount + g[s \ {Some(s)}]]
  <2>2. ASSUME NEW s \in UpTo(U, n + 1), s # {} PROVE s \ {Some(s)} \in UpTo(U, n) /\ s \ {Some(s)} \in UpTo(U, n+1)
    <3>1. Some(s) \in s
      BY <2>2, SomeIn
    <3>2. s \in SUBSET U /\ Cardinality(s) <= n + 1
      BY DEF UpTo
    <3>3. Cardinality(s \ {Some(s)}) = Cardinality(s) - 1
      BY <1>1, <3>1, <3>2, FS_RemoveElement
    <3> QED
      BY <1>1, <3>2, <3>3 DEF UpTo
  <2>3. \A s \in UpTo(U, n) : h[s] = g[s]
    <3>1. UpTo(U, n) \subseteq UpTo(U, n + 1)
      BY <1>1 DEF UpTo
    <3> QED
      BY <2>1, <3>1 DEF Adds
  <2>4. Adds(h, UpTo(U, n + 1))
    BY <2>2, <2>3 DEF Adds
  <2> HIDE DEF h
  <2> QED
    BY <2>4
<1>4. Cardinality(U) \in I
  <2> HIDE DEF I
  <2> QED
    BY <1>1, <1>2, <1>3, Induction
<1>5. UpTo(U, Cardinality(U)) = SUBSET U
  BY FS_Subset DEF UpTo
<1> QED
  BY <1>4, <1>5

\* Two such tables agree where both are defined.
LEMMA AddsAgree ==
  ASSUME NEW U, IsFiniteSet(U), NEW V \in SUBSET U, NEW g, NEW h, Adds(g, SUBSET U), Adds(h, SUBSET V)
  PROVE  g[V] = h[V]
<1> DEFINE I == {n \in Nat : \A s \in SUBSET V : Cardinality(s) = n => g[s] = h[s]}
<1>1. \A s \in SUBSET V : IsFiniteSet(s) /\ Cardinality(s) \in Nat
  BY FS_Subset, FS_CardinalityType
<1>2. \A s \in SUBSET V : s \in SUBSET U
  OBVIOUS
<1>3. 0 \in I
  <2>1. \A s \in SUBSET V : Cardinality(s) = 0 => s = {}
    BY <1>1, FS_EmptySet
  <2> QED
    BY <1>2, <2>1 DEF Adds
<1>4. ASSUME NEW n \in Nat, n \in I PROVE n + 1 \in I
  <2> SUFFICES ASSUME NEW s \in SUBSET V, Cardinality(s) = n + 1 PROVE g[s] = h[s]
    OBVIOUS
  <2>0. \A t \in SUBSET V : Cardinality(t) = n => g[t] = h[t]
    BY <1>4
  <2> HIDE DEF I
  <2>1. s # {}
    BY <1>1, OneLess, Zenon
  <2>2. Some(s) \in s
    BY <2>1, SomeIn
  <2>3. Cardinality(s \ {Some(s)}) = n
    BY <1>1, OneLess, Zenon
  <2>4. g[s \ {Some(s)}] = h[s \ {Some(s)}]
    BY <2>0, <2>3
  <2>5. g[s] = Some(s).amount + g[s \ {Some(s)}]
    BY <2>1, <1>2 DEF Adds
  <2>6. h[s] = Some(s).amount + h[s \ {Some(s)}]
    BY <2>1 DEF Adds
  <2> QED
    BY <2>4, <2>5, <2>6
<1>5. Cardinality(V) \in I
  <2> HIDE DEF I
  <2> QED
    BY <1>1, <1>3, <1>4, Induction
<1> QED
  BY <1>5

\* A sum is an element, the one CHOOSE takes, and the sum of the others.
LEMMA TotalUnfolds ==
  ASSUME NEW S, IsFiniteSet(S)
  PROVE  Total(S) = IF S = {} THEN 0 ELSE Some(S).amount + Total(S \ {Some(S)})
<1> DEFINE T == S \ {Some(S)}
           g == CHOOSE f : Adds(f, SUBSET S)
           h == CHOOSE f : Adds(f, SUBSET T)
<1>1. IsFiniteSet(T) /\ T \in SUBSET S
  BY FS_Subset
<1> HIDE DEF T
<1>2. Adds(g, SUBSET S) /\ Adds(h, SUBSET T)
  BY <1>1, AddsExists
<1>3. Total(S) = g[S] /\ Total(T) = h[T]
  BY TotalDef
<1> HIDE DEF g, h
<1>4. g[T] = h[T]
  BY <1>1, <1>2, AddsAgree
<1>5. g[S] = IF S = {} THEN 0 ELSE Some(S).amount + g[T]
  BY <1>2 DEF Adds, T
<1> QED
  BY <1>3, <1>4, <1>5 DEF T

Summable(S) == IsFiniteSet(S) /\ \A e \in S : e.amount \in Nat

LEMMA TotalIsNat ==
  ASSUME NEW S, Summable(S)
  PROVE  Total(S) \in Nat
<1> DEFINE I == {n \in Nat : \A s \in SUBSET S : Cardinality(s) = n => Total(s) \in Nat}
<1>1. \A s \in SUBSET S : IsFiniteSet(s) /\ Cardinality(s) \in Nat
  BY FS_Subset, FS_CardinalityType DEF Summable
<1>2. 0 \in I
  BY <1>1, FS_EmptySet, TotalUnfolds
<1>3. ASSUME NEW n \in Nat, n \in I PROVE n + 1 \in I
  <2> SUFFICES ASSUME NEW s \in SUBSET S, Cardinality(s) = n + 1 PROVE Total(s) \in Nat
    OBVIOUS
  <2>1. IsFiniteSet(s)
    BY <1>1
  <2>2. s # {} /\ Some(s) \in s /\ Cardinality(s \ {Some(s)}) = n
    BY <2>1, OneLess, Zenon
  <2>4. Total(s \ {Some(s)}) \in Nat
    BY <1>3, <2>2
  <2>5. Some(s).amount \in Nat
    BY <2>2 DEF Summable
  <2>6. Total(s) = Some(s).amount + Total(s \ {Some(s)})
    BY <2>1, <2>2, TotalUnfolds
  <2> QED
    BY <2>4, <2>5, <2>6
<1>4. Cardinality(S) \in I
  <2> HIDE DEF I
  <2> QED
    BY <1>1, <1>2, <1>3, Induction
<1> QED
  BY <1>4

\* It does not matter which element is taken first.
LEMMA TotalWithout ==
  ASSUME NEW S, Summable(S), NEW y \in S
  PROVE  Total(S) = y.amount + Total(S \ {y})
<1> DEFINE I == {n \in Nat : \A s \in SUBSET S : Cardinality(s) = n =>
                   \A z \in s : Total(s) = z.amount + Total(s \ {z})}
<1>1. \A s \in SUBSET S : IsFiniteSet(s) /\ Cardinality(s) \in Nat
  BY FS_Subset, FS_CardinalityType DEF Summable
<1>2. 0 \in I
  BY <1>1, FS_EmptySet
<1>3. ASSUME NEW n \in Nat, n \in I PROVE n + 1 \in I
  <2> SUFFICES ASSUME NEW s \in SUBSET S, Cardinality(s) = n + 1, NEW z \in s
               PROVE  Total(s) = z.amount + Total(s \ {z})
    OBVIOUS
  <2> DEFINE x == Some(s)
  <2>1. x \in s
    BY SomeIn
  <2>2. Total(s) = x.amount + Total(s \ {x})
    BY <1>1, TotalUnfolds
  <2> HIDE DEF x
  <2>3. CASE z # x
    <3>1. Cardinality(s \ {x}) = n /\ Cardinality(s \ {z}) = n
      BY <1>1, <2>1, FS_RemoveElement
    <3>2. Total(s \ {x}) = z.amount + Total((s \ {x}) \ {z})
      BY <1>3, <2>3, <3>1
    <3>3. Total(s \ {z}) = x.amount + Total((s \ {z}) \ {x})
      BY <1>3, <2>1, <2>3, <3>1
    <3>4. (s \ {x}) \ {z} = (s \ {z}) \ {x}
      OBVIOUS
    <3>5. x.amount \in Nat /\ z.amount \in Nat
      BY <2>1 DEF Summable
    <3>6. Summable((s \ {z}) \ {x})
      BY <1>1 DEF Summable
    <3>7. Total((s \ {z}) \ {x}) \in Nat
      BY <3>6, TotalIsNat
    <3> DEFINE r == Total((s \ {z}) \ {x})
               t == Total(s)
               u == Total(s \ {z})
    <3>8. t = x.amount + (z.amount + r) /\ u = x.amount + r /\ r \in Nat
      BY <2>2, <3>2, <3>3, <3>4, <3>7, Zenon
    <3> HIDE DEF r, t, u
    <3>9. t = z.amount + u
      BY <3>5, <3>8
    <3> QED
      BY <3>9 DEF t, u
  <2> QED
    BY <2>2, <2>3
<1>4. Cardinality(S) \in I
  <2> HIDE DEF I
  <2> QED
    BY <1>1, <1>2, <1>3, Induction
<1> QED
  BY <1>4

\* What one more element adds.
LEMMA TotalWith ==
  ASSUME NEW S, Summable(S), NEW x, x \notin S, x.amount \in Nat
  PROVE  Summable(S \cup {x}) /\ Total(S \cup {x}) = Total(S) + x.amount
<1>1. Summable(S \cup {x})
  BY FS_AddElement DEF Summable
<1>2. (S \cup {x}) \ {x} = S
  OBVIOUS
<1>3. Total(S \cup {x}) = x.amount + Total(S)
  BY <1>1, <1>2, TotalWithout
<1> QED
  BY <1>1, <1>3, TotalIsNat

(* Balances are sums of entries. *)

\* The entries that move an account.
Of(b, code, E) ==
  {e \in E : BookOf[e.payment] = b /\ code \in {e.debit, e.credit}}

LEMMA EntriesAddUp ==
  ASSUME NEW c \in Calls, NEW code \in Codes, NEW E, IsFiniteSet(E),
         E \subseteq Rows, \A e \in E : e.call # c
  PROVE  Total(Of(BookFor(c), code, E \cup EntriesOf(c, PayOf[c], LegsOf(PayOf[c]))))
           = Total(Of(BookFor(c), code, E)) + Moved(PayOf[c], code)
<1> DEFINE p == PayOf[c]
           g == Entry(c, p, "gross")
           f == Entry(c, p, "fee")
           A == Of(BookFor(c), code, E)
           B == Of(BookFor(c), code, E \cup EntriesOf(c, p, LegsOf(p)))
<1>1. Amount[p] \in Nat /\ Fee(p) \in Nat
  BY CallsPay, FeeBounds
<1>2. Summable(A)
  <2>1. IsFiniteSet(A)
    BY FS_Subset DEF Of
  <2>2. \A e \in Rows : e.amount \in Nat
    BY LegAmounts, CallsPay DEF Rows, Entry
  <2> QED
    BY <2>1, <2>2 DEF Summable, Of
<1>3. /\ g.amount = Amount[p] /\ g.call = c /\ g.payment = p /\ g.leg = "gross"
      /\ g.debit = "asset" /\ g.credit = "liability"
      /\ f.amount = Fee(p) /\ f.call = c /\ f.payment = p /\ f.leg = "fee"
      /\ f.debit = "liability" /\ f.credit = "revenue"
  BY DEF Entry, LegAmount, DebitOf, CreditOf
<1>4. EntriesOf(c, p, LegsOf(p)) = IF Fee(p) > 0 THEN {g, f} ELSE {g}
  BY DEF EntriesOf, LegsOf, Legs
<1>5. g \notin A /\ f \notin A /\ g # f
  BY <1>3 DEF Of
<1>6. BookFor(c) = BookOf[p]
  BY DEF BookFor
<1>7. Total(A) \in Nat
  BY <1>2, TotalIsNat
<1> HIDE DEF p, g, f
<1>8. CASE code = "asset"
  <2>1. B = A \cup {g}
    BY <1>3, <1>4, <1>6, <1>8 DEF Of
  <2>2. Total(B) = Total(A) + g.amount
    BY <1>1, <1>2, <1>3, <1>5, <2>1, TotalWith
  <2> QED
    BY <1>3, <1>8, <2>2 DEF Moved, p
<1>9. CASE code = "revenue"
  <2>1. B = IF Fee(p) > 0 THEN A \cup {f} ELSE A
    BY <1>3, <1>4, <1>6, <1>9 DEF Of
  <2>2. Total(B) = Total(A) + Fee(p)
    BY <1>1, <1>2, <1>3, <1>5, <1>7, <2>1, TotalWith
  <2> QED
    BY <1>9, <2>2 DEF Moved, p
<1>10. CASE code = "liability"
  <2>1. B = IF Fee(p) > 0 THEN (A \cup {g}) \cup {f} ELSE A \cup {g}
    BY <1>3, <1>4, <1>6, <1>10 DEF Of
  <2>2. Summable(A \cup {g}) /\ Total(A \cup {g}) = Total(A) + Amount[p]
    BY <1>1, <1>2, <1>3, <1>5, TotalWith
  <2>3. f \notin A \cup {g}
    BY <1>5
  <2>4. Total((A \cup {g}) \cup {f}) = Total(A \cup {g}) + Fee(p)
    BY <1>1, <1>3, <2>2, <2>3, TotalWith
  <2>5. Total(B) = Total(A) + (Amount[p] + Fee(p))
    BY <1>1, <1>7, <2>1, <2>2, <2>4
  <2> QED
    BY <1>10, <2>5 DEF Moved, p
<1> QED
  BY <1>8, <1>9, <1>10 DEF Codes, p

TotalsAgree ==
  \A b \in Books, code \in Codes : balance[b][code] = Total(Of(b, code, entries))

LEMMA SumsAreTotals == BalancesAreSums <=> TotalsAgree
BY DEF BalancesAreSums, TotalsAgree, Total, Of

LEMMA SumsStep ==
  ASSUME TypeOK, Inductive, NoMissingAccount, BalancesAreSums, IsFiniteSet(entries), [Next]_vars
  PROVE  BalancesAreSums' /\ IsFiniteSet(entries')
<1>1. BalancesAreSums <=> TotalsAgree
  BY SumsAreTotals
<1>2. BalancesAreSums' <=> TotalsAgree'
  BY SumsAreTotals, PTL
<1>3. CASE ~ \E c \in Calls : Commit(c)
  <2>1. balance' = balance /\ entries' = entries
    BY <1>3, OnlyCommitsShow
  <2> QED
    BY <1>1, <1>2, <2>1 DEF TotalsAgree
<1>4. ASSUME NEW c \in Calls, Commit(c)
      PROVE  BalancesAreSums' /\ IsFiniteSet(entries')
  <2> DEFINE new == EntriesOf(c, PayOf[c], LegsOf(PayOf[c]))
  <2>1. /\ balance' = [balance EXCEPT ![BookFor(c)] =
                         [code \in Codes |-> balance[BookFor(c)][code] + Moved(PayOf[c], code)]]
        /\ entries' = entries \cup new
        /\ \A e \in entries : e.call # c
    BY <1>4, CommitMoves
  <2>2. IsFiniteSet(entries \cup new)
    <3>1. new \subseteq {Entry(c, PayOf[c], "gross")} \cup {Entry(c, PayOf[c], "fee")}
      BY DEF EntriesOf, LegsOf, Legs
    <3>2. IsFiniteSet({Entry(c, PayOf[c], "gross")} \cup {Entry(c, PayOf[c], "fee")})
      BY FS_Singleton, FS_Union
    <3>3. IsFiniteSet(new)
      BY <3>1, <3>2, FS_Subset
    <3> HIDE DEF new
    <3> QED
      BY <3>3, FS_Union
  <2>3. ASSUME NEW b \in Books, NEW code \in Codes
        PROVE  balance'[b][code] = Total(Of(b, code, entries'))
    <3>1. balance[b][code] = Total(Of(b, code, entries))
      BY <1>1 DEF TotalsAgree
    <3>2. CASE b # BookFor(c)
      <4>1. \A e \in new : e.payment = PayOf[c]
        BY DEF EntriesOf, Entry
      <4>2. Of(b, code, entries \cup new) = Of(b, code, entries)
        BY <3>2, <4>1 DEF Of, BookFor
      <4>3. balance'[b][code] = balance[b][code]
        BY <2>1, <3>2 DEF TypeOK
      <4> QED
        BY <2>1, <3>1, <4>2, <4>3
    <3>3. CASE b = BookFor(c)
      <4>1. balance'[b][code] = balance[b][code] + Moved(PayOf[c], code)
        BY <2>1, <3>3 DEF TypeOK
      <4>2. Total(Of(b, code, entries \cup new)) = Total(Of(b, code, entries)) + Moved(PayOf[c], code)
        BY <2>1, <3>3, EntriesAddUp DEF TypeOK
      <4> QED
        BY <2>1, <3>1, <4>1, <4>2
    <3> QED
      BY <3>2, <3>3
  <2> QED
    BY <1>2, <2>1, <2>2, <2>3 DEF TotalsAgree
<1> QED
  BY <1>3, <1>4

\* No update is lost: every balance is the sum of the committed entries that
\* name the account, whatever settlements and provisioning run at once.
THEOREM NoUpdateIsLost == Spec => []BalancesAreSums
<1>1. Init => BalancesAreSums /\ IsFiniteSet(entries)
  <2> SUFFICES ASSUME Init PROVE BalancesAreSums /\ IsFiniteSet(entries)
    OBVIOUS
  <2>1. entries = {} /\ \A b \in Books, code \in Codes : balance[b][code] = 0
    BY DEF Init, Zero
  <2>2. \A b, code : Of(b, code, {}) = {}
    BY DEF Of
  <2>3. Total({}) = 0
    BY FS_EmptySet, TotalUnfolds
  <2>4. \A b \in Books, code \in Codes : balance[b][code] = Total(Of(b, code, entries))
    BY <2>1, <2>2, <2>3
  <2> QED
    BY <2>1, <2>4, FS_EmptySet DEF BalancesAreSums, Total, Of
<1>2. TypeOK /\ Inductive /\ NoMissingAccount /\ BalancesAreSums /\ IsFiniteSet(entries)
        /\ [Next]_vars => (BalancesAreSums /\ IsFiniteSet(entries))'
  BY SumsStep
<1> QED
  BY <1>1, <1>2, SettlementsAreApart, PTL DEF Spec

----------------------------------------------------------------------------
(* The book that settlements implement. *)

LEMMA SameRules ==
  /\ \A p : Book!Fee(p) = Fee(p)
  /\ \A c, p, S : Book!EntriesOf(c, p, S) = EntriesOf(c, p, S)
  /\ \A p : Book!LegsOf(p) = LegsOf(p)
  /\ \A p, x : Book!Moved(p, x) = Moved(p, x)
  /\ Book!Codes = Codes
BY DEF Book!Fee, Book!FeeBps, Book!Entry, Book!EntriesOf, Book!LegsOf, Book!Legs, Book!Moved, Book!Codes,
       Book!DebitOf, Book!CreditOf, Book!LegAmount, Fee, FeeBps, Entry, EntriesOf, LegsOf, Legs, Moved,
       Codes, DebitOf, CreditOf, LegAmount

\* Locks, statements, lookups and rollbacks cannot be told from settlements
\* that happen at once: Ledger implements LedgerBook.
THEOREM LedgerImplementsBook == Spec => ImplementsBook
<1>1. Init => Book!BookInit
  BY SameRules DEF Init, Book!BookInit, Zero
<1>2. TypeOK /\ Inductive /\ NoMissingAccount /\ [Next]_vars
      => [\E c \in Calls : Book!SettleAtOnce(c)]_(Book!bookVars)
  <2> SUFFICES ASSUME TypeOK, Inductive, NoMissingAccount, [Next]_vars
               PROVE  [\E c \in Calls : Book!SettleAtOnce(c)]_(Book!bookVars)
    OBVIOUS
  <2>1. CASE ~ \E c \in Calls : Commit(c)
    BY <2>1, OnlyCommitsShow DEF Book!bookVars
  <2>2. ASSUME NEW c \in Calls, Commit(c)
        PROVE  Book!SettleAtOnce(c)
    BY <2>2, CommitMoves, SameRules DEF Book!SettleAtOnce, BookFor
  <2> QED
    BY <2>1, <2>2
<1> QED
  BY <1>1, <1>2, SettlementsAreApart, PTL DEF Spec, ImplementsBook, Book!BookSpec
=============================================================================
