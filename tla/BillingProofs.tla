---------------------------- MODULE BillingProofs ----------------------------
(***************************************************************************)
(* Theorems about Billing, for every set of purchases, plans and calls and *)
(* any number of webhooks and faults.                                      *)
(***************************************************************************)
EXTENDS Billing, TLAPS

\* What the provider behind a rail tells of in its webhooks.
Told(k) ==
  {t \in Types :
     \/ k \in Recurring /\ t \in {"activated", "paid", "ended"}
     \/ k \in {"stripe", "paypal"} /\ t \in {"updated", "failed"}
     \/ k = "stripe" /\ t = "refunded"
     \/ k = "order" /\ t = "captured"}

\* Only what was bought has a state at a provider, webhooks and an id in the
\* row, each on its own rail.
Bought ==
  /\ \A x \in Sources :
       /\ sold[x].state # "none" \/ sold[x].n > 0 => kind[x] \in Kinds
       /\ spent[x] > 0 => kind[x] = "crypto" /\ sold[x].state # "none"
  /\ \A k \in Recurring : row.sub[k] # None => kind[row.sub[k]] = k
  /\ row.meta.pending # None =>
       kind[row.meta.pending] = "crypto" /\ sold[row.meta.pending].state # "none"
  /\ \A e \in mail : e.type \in Told(kind[e.src])

\* A call knows what it works on, and two calls never write one intent.
CallKnows(c) ==
  /\ call[c].do # "idle" => call[c].src \in Sources
  /\ call[c].do \in {"record", "cancel"} => kind[call[c].src] \in Recurring
  /\ call[c].do = "revise" => kind[call[c].src] = "paypal" /\ call[c].plan \in Plans
  /\ call[c].do = "intent" =>
       kind[call[c].src] = "crypto" /\ sold[call[c].src].state = "none"
  /\ call[c].do \in {"clean", "confirm"} =>
       /\ kind[call[c].src] = "crypto" /\ sold[call[c].src].state # "none"
       /\ call[c].src = call[c].seen.pending

CallsKnow ==
  /\ \A c \in Calls : CallKnows(c)
  /\ \A c, d \in Calls :
       call[c].do = "intent" /\ call[d].do = "intent" /\ call[c].src = call[d].src => c = d

Inductive == TypeOK /\ Bought /\ CallsKnow /\ IntentsAreSpentOnce

-----------------------------------------------------------------------------
(* The operators. *)

LEMMA VersionsAreNumbers == Versions \subseteq Nat /\ 0 \in Versions
  BY BoundAssumption DEF Versions, Kinds

LEMMA DroppedTyped ==
  ASSUME row \in Row, NEW k \in Recurring
  PROVE  /\ Dropped(k) \in Row
         /\ [Dropped(k) EXCEPT !.exists = TRUE] \in Row
         /\ [Dropped(k) EXCEPT !.paid = None] \in Row
  BY DEF Dropped, Row, SomeSource, SomePlan, Statuses

LEMMA RecordedTyped ==
  ASSUME row \in Row, NEW x \in Sources, kind[x] \in Recurring,
         NEW p \in SomePlan, NEW s \in Statuses, NEW b \in BOOLEAN
  PROVE  /\ Recorded(x, p, s) \in Row
         /\ [Recorded(x, p, s) EXCEPT !.closing = b] \in Row
         /\ [Recorded(x, p, s) EXCEPT !.paid = x] \in Row
  BY DEF Recorded, Row, SomeSource

LEMMA NoteTyped ==
  ASSUME NEW x \in Sources, NEW n \in Versions, Note(x, n),
         done \in [Sources -> Versions], overtaken \subseteq Sources
  PROVE  done' \in [Sources -> Versions] /\ overtaken' \subseteq Sources
  BY DEF Note

LEMMA StatusTyped == \A state : StatusOf(state) \in Statuses
  BY DEF StatusOf, Statuses

\* A webhook tells of a state that is typed, about a rail that sends it.
LEMMA TellTyped ==
  ASSUME TypeOK, NEW x \in Sources, kind[x] \in Kinds, NEW type \in Types, NEW new \in Sale,
         Tell(x, type, new)
  PROVE  /\ sold' \in [Sources -> Sale] /\ mail' \subseteq Event
         /\ sold[x].n + 1 \in Versions
<1>1. sold[x].n \in Nat
  BY VersionsAreNumbers DEF TypeOK, Sale
<1>2. sold[x].n + 1 \in Versions
  BY <1>1, BoundAssumption DEF Tell, Versions
<1>3. [new EXCEPT !.n = sold[x].n + 1] \in Sale
  BY <1>2 DEF Sale
<1>4. sold' \in [Sources -> Sale]
  BY <1>3 DEF Tell, TypeOK
<1>5. mail' \subseteq Event
  BY <1>2, StatusTyped DEF Tell, TypeOK, Event, Sale
<1> QED
  BY <1>2, <1>4, <1>5

-----------------------------------------------------------------------------
\* Every step keeps types, rails and what the calls know.
LEMMA ProviderStep ==
  ASSUME Inductive, NEW x \in Sources, Provider(x)
  PROVE  Inductive'
<1> USE DEF Inductive, tagVars, watchVars
<1>1. CASE Approve(x)
  BY <1>1 DEF Approve, TypeOK, Bought, CallsKnow, CallKnows, IntentsAreSpentOnce, Sale, States
<1> SUFFICES ASSUME NEW type \in Types, NEW new \in Sale, kind[x] \in Kinds,
                    type \in Told(kind[x]), Tell(x, type, new), new.state # "none",
                    kind[x] # "crypto", UNCHANGED <<tagVars, row, call, faults, watchVars>>
             PROVE  Inductive'
  <2>1. sold[x] \in Sale /\ sold[x].state \in States
    BY DEF TypeOK, Sale
  <2>2. CASE Start(x)
    <3>1. kind[x] \in Kinds
      BY <2>2 DEF Start, Bought
    <3>2. [sold[x] EXCEPT !.state = "active"] \in Sale
      BY <2>1 DEF Sale, States
    <3> QED
      BY <2>2, <3>1, <3>2, <2>1 DEF Start, Told, Types, Kinds, Recurring, Sale
  <2>3. CASE Charge(x)
    <3>2. [sold[x] EXCEPT !.state = "active"] \in Sale
      BY <2>1 DEF Sale, States
    <3> QED
      BY <2>3, <3>2, <2>1 DEF Charge, Told, Types, Kinds, Recurring, Sale
  <2>4. CASE Decline(x)
    <3>2. [sold[x] EXCEPT !.state = "due"] \in Sale
      BY <2>1 DEF Sale, States
    <3> QED
      BY <2>4, <3>2, <2>1 DEF Decline, Told, Types, Kinds, Recurring, Sale
  <2>5. ASSUME NEW p \in Plans, Revise(x, p) PROVE Inductive'
    <3>2. [sold[x] EXCEPT !.plan = p] \in Sale
      BY <2>1 DEF Sale
    <3> QED
      BY <2>5, <3>2, <2>1 DEF Revise, Told, Types, Kinds, Recurring, Sale
  <2>6. CASE End(x)
    <3>2. [sold[x] EXCEPT !.state = "ended"] \in Sale
      BY <2>1 DEF Sale, States
    <3> QED
      BY <2>6, <3>2, <2>1 DEF End, Told, Types, Kinds, Recurring, Sale
  <2> QED
    BY <1>1, <2>2, <2>3, <2>4, <2>5, <2>6 DEF Provider
<1>2. TypeOK'
  BY TellTyped DEF TypeOK
<1>3. \A e \in mail' : e.type \in Told(kind[e.src])
  BY DEF Bought, Tell
<1>4. sold' = [sold EXCEPT ![x] = [new EXCEPT !.n = sold[x].n + 1]]
  BY DEF Tell
<1>5. sold'[x].state = new.state /\ \A y \in Sources \ {x} : sold'[y] = sold[y]
  BY <1>4 DEF TypeOK, Sale
<1>6. Bought'
  <2>1. row.meta.pending \in SomeSource
    BY DEF TypeOK, Row, Meta
  <2> QED
    BY <1>3, <1>5, <2>1 DEF Bought, SomeSource
<1>7. CallsKnow'
  BY <1>5 DEF CallsKnow, CallKnows
<1>8. IntentsAreSpentOnce'
  BY DEF IntentsAreSpentOnce
<1> QED
  BY <1>2, <1>6, <1>7, <1>8

\* What a webhook makes of the row is typed and stays on its rail.
LEMMA HandleTyped ==
  ASSUME TypeOK, Bought, NEW e \in mail, Handle(e)
  PROVE  /\ row' \in Row
         /\ \A k \in Recurring : row'.sub[k] # None => kind[row'.sub[k]] = k
         /\ row'.meta = row.meta
         /\ done' \in [Sources -> Versions] /\ overtaken' \subseteq Sources
<1>1. /\ e \in Event /\ e.src \in Sources /\ e.n \in Versions /\ e.plan \in SomePlan
      /\ e.status \in Statuses /\ e.closing \in BOOLEAN /\ e.type \in Told(kind[e.src])
  BY DEF TypeOK, Bought, Event, SomePlan
<1>2. row \in Row /\ row.sub \in [Recurring -> SomeSource]
  BY DEF TypeOK, Row
<1>3. done' \in [Sources -> Versions] /\ overtaken' \subseteq Sources
  BY <1>1, NoteTyped DEF Handle, TypeOK
<1> DEFINE Fine == {r \in Row : /\ r.meta = row.meta
                                /\ \A k \in Recurring : r.sub[k] # None => kind[r.sub[k]] = k}
<1>4. row \in Fine
  BY <1>2 DEF Bought
<1>5. \A k \in Recurring : Dropped(k) \in Fine /\ [Dropped(k) EXCEPT !.exists = TRUE] \in Fine
  BY <1>2, DroppedTyped DEF Bought, Dropped, Row
<1>6. ASSUME kind[e.src] \in Recurring, NEW s \in Statuses
      PROVE  /\ Recorded(e.src, e.plan, s) \in Fine
             /\ [Recorded(e.src, e.plan, s) EXCEPT !.closing = e.closing] \in Fine
  <2> DEFINE r == Recorded(e.src, e.plan, s)
  <2>1. r \in Row /\ [r EXCEPT !.closing = e.closing] \in Row
    BY <1>1, <1>2, <1>6, RecordedTyped
  <2>2. /\ r.meta = row.meta /\ r.sub = [row.sub EXCEPT ![kind[e.src]] = e.src]
        /\ [r EXCEPT !.closing = e.closing].meta = row.meta
        /\ [r EXCEPT !.closing = e.closing].sub = r.sub
    BY <1>2, <1>6 DEF Recorded, Row
  <2>3. \A k \in Recurring : r.sub[k] # None => kind[r.sub[k]] = k
    BY <1>2, <1>6, <2>2 DEF Bought
  <2> QED
    BY <2>1, <2>2, <2>3
<1>7. /\ \A s \in Statuses : [row EXCEPT !.status = s] \in Fine
      /\ [row EXCEPT !.plan = e.plan] \in Fine
      /\ \A s \in Statuses : [row EXCEPT !.plan = Free, !.status = s, !.closing = FALSE] \in Fine
      /\ \A s \in Statuses : [row EXCEPT !.paid = e.src, !.status = s] \in Fine
  BY <1>1, <1>4 DEF Row, SomePlan, SomeSource
<1>8. {"ACTIVE", "PAST_DUE", "CANCELLED"} \subseteq Statuses
  BY DEF Statuses
<1> HIDE DEF Fine
<1>9. CASE kind[e.src] = "stripe"
  <2>1. e.type \in {"activated", "updated", "ended", "paid", "failed", "refunded"}
    BY <1>1, <1>9 DEF Told, Recurring, Types
  <2>2. StripeRow(e) \in Fine
    BY <1>1, <1>4, <1>5, <1>6, <1>7, <1>8, <1>9, <2>1 DEF StripeRow, Recurring
  <2> QED
    BY <2>2, <1>3, <1>9 DEF Handle, Fine
<1>10. CASE kind[e.src] = "paypal"
  <2>1. e.type \in {"activated", "updated", "ended", "paid", "failed"}
    BY <1>1, <1>10 DEF Told, Recurring, Types
  <2>2. PayPalRow(e) \in Fine
    BY <1>1, <1>4, <1>5, <1>6, <1>7, <1>8, <1>10, <2>1 DEF PayPalRow, Recurring
  <2> QED
    BY <2>2, <1>3, <1>10 DEF Handle, Fine
<1>11. CASE kind[e.src] \notin {"stripe", "paypal"}
  <2>1. /\ e.type \in {"activated", "ended", "paid", "captured"}
        /\ e.type = "activated" => kind[e.src] \in Recurring
    BY <1>1, <1>11 DEF Told, Recurring, Types
  <2>2. RazorpayRow(e) \in Fine
    BY <1>1, <1>4, <1>5, <1>6, <1>7, <1>8, <1>11, <2>1 DEF RazorpayRow, Recurring
  <2> QED
    BY <2>2, <1>3, <1>11 DEF Handle, Fine
<1> QED
  BY <1>9, <1>10, <1>11

LEMMA WebhookStep ==
  ASSUME Inductive, NEW e \in mail, Deliver(e) \/ DeliverAgain(e)
  PROVE  Inductive'
<1> USE DEF Inductive, tagVars
<1>1. Handle(e) /\ mail' \subseteq mail /\ faults' \in 0 .. MaxFaults
  BY BoundAssumption DEF Deliver, DeliverAgain, Fault, TypeOK
<1>2. TypeOK'
  BY <1>1, HandleTyped DEF TypeOK, Handle
<1>3. Bought' /\ CallsKnow'
  BY <1>1, HandleTyped DEF Bought, CallsKnow, CallKnows, Handle
<1>4. IntentsAreSpentOnce'
  BY <1>1, HandleTyped DEF IntentsAreSpentOnce, Handle
<1> QED
  BY <1>2, <1>3, <1>4

\* Buying leaves what was bought before alone.
LEMMA BuyStep ==
  ASSUME Inductive, NEW x \in Sources,
         Expire(x) \/ Subscribe(x) \/ Order(x) \/ VerifyOrder(x)
  PROVE  Inductive'
<1> USE DEF Inductive, tagVars, watchVars
<1>1. CASE Expire(x)
  BY <1>1 DEF Expire, TypeOK, Sale, States, Bought, CallsKnow, CallKnows, IntentsAreSpentOnce
<1>2. CASE Subscribe(x)
  <2>1. row' \in Row /\ row'.sub = row.sub /\ row'.meta = row.meta
    BY <1>2 DEF Subscribe, TypeOK, Row
  <2>2. sold' \in [Sources -> Sale]
    BY <1>2 DEF Subscribe, TypeOK, Sale, States
  <2>3. TypeOK'
    BY <1>2, <2>1, <2>2 DEF Subscribe, Owns, TypeOK, SomeSource
  <2>4. Bought' /\ CallsKnow'
    BY <1>2, <2>1 DEF Subscribe, TypeOK, Sale, Kinds, Recurring, Bought, CallsKnow, CallKnows
  <2> QED
    BY <1>2, <2>1, <2>3, <2>4 DEF Subscribe, IntentsAreSpentOnce
<1>3. CASE Order(x)
  <2>1. row' \in Row /\ row'.sub = row.sub /\ row'.meta = row.meta
    BY <1>3 DEF Order, TypeOK, Row, SomeSource
  <2>2. sold' \in [Sources -> Sale]
    BY <1>3 DEF Order, TypeOK, Sale, States
  <2>3. TypeOK'
    BY <1>3, <2>1, <2>2 DEF Order, Owns, TypeOK, SomeSource
  <2>4. Bought' /\ CallsKnow'
    BY <1>3, <2>1 DEF Order, TypeOK, Sale, Kinds, Bought, CallsKnow, CallKnows
  <2> QED
    BY <1>3, <2>1, <2>3, <2>4 DEF Order, IntentsAreSpentOnce
<1>4. CASE VerifyOrder(x)
  BY <1>4 DEF VerifyOrder, TypeOK, Row, Sale, Statuses, SomePlan, SomeSource, Bought, CallsKnow, CallKnows, IntentsAreSpentOnce
<1> QED
  BY <1>1, <1>2, <1>3, <1>4

LEMMA VisitStep ==
  ASSUME Inductive, Visit
  PROVE  Inductive'
  BY DEF Inductive, Visit, tagVars, watchVars, TypeOK, Row, Bought, CallsKnow, CallKnows, IntentsAreSpentOnce

-----------------------------------------------------------------------------
\* A call begins, knowing what it works on, and is nothing to an intent.
LEMMA BeginStep ==
  ASSUME Inductive, NEW c \in Calls, NEW new \in ApiCall, Begin(c, new),
         new.src \in Sources, new.do # "intent",
         new.do \in {"record", "cancel"} => kind[new.src] \in Recurring,
         new.do = "revise" => kind[new.src] = "paypal" /\ new.plan \in Plans,
         new.do \in {"clean", "confirm"} =>
           /\ kind[new.src] = "crypto" /\ sold[new.src].state # "none"
           /\ new.src = new.seen.pending,
         UNCHANGED <<tagVars, row, sold, mail, faults, watchVars>>
  PROVE  Inductive'
<1> USE DEF Inductive, tagVars, watchVars
<1>1. call' = [call EXCEPT ![c] = new] /\ call' \in [Calls -> ApiCall]
  BY DEF Begin, TypeOK
<1>2. TypeOK' /\ Bought' /\ IntentsAreSpentOnce'
  BY <1>1 DEF TypeOK, Bought, IntentsAreSpentOnce
<1>3. CallsKnow'
  BY <1>1 DEF CallsKnow, CallKnows, TypeOK
<1> QED
  BY <1>2, <1>3

\* Each of the calls that only read before they wait for a provider.
LEMMA OpenStep ==
  ASSUME Inductive, NEW c \in Calls,
         \/ \E x \in Sources : Activate(c, x) \/ Verify(c, x)
         \/ \E k \in Recurring : Cancel(c, k)
         \/ \E p \in Plans : Upgrade(c, p)
         \/ CancelPaid(c) \/ Poll(c) \/ Confirm(c)
  PROVE  Inductive'
<1> USE DEF Inductive
<1>1. /\ row.sub \in [Recurring -> SomeSource] /\ row.paid \in SomeSource
      /\ row.meta \in Meta /\ row.meta.pending \in SomeSource
      /\ \A x \in Sources : /\ sold[x].plan \in SomePlan /\ sold[x].n \in Versions
                            /\ sold[x].state \in States
  BY DEF TypeOK, Row, Meta, Sale, SomePlan
<1>2. Idle \in ApiCall
  BY VersionsAreNumbers DEF Idle, NoMeta, ApiCall, SomeSource, SomePlan, Statuses, Meta
<1>3. ASSUME NEW x \in Sources, Activate(c, x) PROVE Inductive'
  <2> DEFINE new == [Idle EXCEPT !.do = "record", !.src = x, !.n = sold[x].n, !.plan = sold[x].plan,
                       !.status = IF sold[x].state = "active" THEN "ACTIVE" ELSE "TRIALING"]
  <2>1. new \in ApiCall /\ new.do = "record" /\ new.src = x
    BY <1>1, <1>2 DEF ApiCall, SomeSource, Statuses
  <2> QED
    BY <1>3, <2>1, BeginStep DEF Activate, Recurring
<1>4. ASSUME NEW x \in Sources, Verify(c, x) PROVE Inductive'
  <2> DEFINE new == [Idle EXCEPT !.do = "record", !.src = x, !.n = 1, !.plan = sold[x].plan]
  <2>1. PICK k \in Kinds : sold[x].n \in 0 .. MaxEvents[k]
    BY <1>1 DEF Versions
  <2>2. MaxEvents[k] \in Nat
    BY BoundAssumption
  <2>3. 1 \in 0 .. MaxEvents[k]
    <3>1. sold[x].n > 0
      BY <1>4 DEF Verify
    <3>2. \A n \in 0 .. MaxEvents[k] : n > 0 => 1 \in 0 .. MaxEvents[k]
      BY <2>2
    <3> QED
      BY <2>1, <3>1, <3>2
  <2>4. 1 \in Versions
    BY <2>3 DEF Versions
  <2>5. new \in ApiCall /\ new.do = "record" /\ new.src = x
    BY <1>1, <1>2, <2>4 DEF ApiCall, SomeSource
  <2> QED
    BY <1>4, <2>5, BeginStep DEF Verify, Recurring
<1>5. ASSUME NEW k \in Recurring, Cancel(c, k) PROVE Inductive'
  <2> DEFINE new == [Idle EXCEPT !.do = "cancel", !.src = row.sub[k]]
  <2>1. row.sub[k] \in Sources /\ kind[row.sub[k]] \in Recurring
    BY <1>1, <1>5 DEF Cancel, Bought, SomeSource
  <2>2. new \in ApiCall /\ new.do = "cancel" /\ new.src = row.sub[k]
    BY <1>2, <2>1 DEF ApiCall, SomeSource
  <2> QED
    BY <1>5, <2>1, <2>2, BeginStep DEF Cancel
<1>6. ASSUME NEW p \in Plans, Upgrade(c, p) PROVE Inductive'
  <2> DEFINE x == row.sub["paypal"]
             new == [Idle EXCEPT !.do = "revise", !.src = x, !.plan = p]
  <2>1. x \in Sources /\ kind[x] = "paypal"
    BY <1>1, <1>6 DEF Upgrade, Bought, SomeSource, Recurring
  <2>2. new \in ApiCall /\ new.do = "revise" /\ new.src = x /\ new.plan = p
    BY <1>2, <2>1 DEF ApiCall, SomeSource, SomePlan
  <2> QED
    BY <1>6, <2>1, <2>2, BeginStep DEF Upgrade
<1>7. CASE CancelPaid(c)
  <2> DEFINE new == [Idle EXCEPT !.do = "drop", !.src = row.paid]
  <2>1. row.paid \in Sources
    BY <1>1, <1>7 DEF CancelPaid, SomeSource
  <2>2. new \in ApiCall /\ new.do = "drop" /\ new.src = row.paid
    BY <1>2, <2>1 DEF ApiCall, SomeSource
  <2> QED
    BY <1>7, <2>1, <2>2, BeginStep DEF CancelPaid
<1>8. CASE Poll(c)
  <2> DEFINE x == row.meta.pending
             new == [Idle EXCEPT !.do = "clean", !.src = x, !.seen = row.meta]
  <2>1. x \in Sources /\ kind[x] = "crypto" /\ sold[x].state # "none"
    BY <1>1, <1>8 DEF Poll, SomeSource, Bought
  <2>2. new \in ApiCall /\ new.do = "clean" /\ new.src = x /\ new.seen.pending = x
    BY <1>1, <1>2, <2>1 DEF ApiCall, SomeSource, Idle
  <2> QED
    BY <1>8, <2>1, <2>2, BeginStep DEF Poll
<1>9. CASE Confirm(c)
  <2> DEFINE x == row.meta.pending
             new == [Idle EXCEPT !.do = "confirm", !.src = x, !.seen = row.meta]
  <2>1. x \in Sources /\ kind[x] = "crypto" /\ sold[x].state # "none"
    BY <1>1, <1>9 DEF Confirm, SomeSource, Bought
  <2>2. new \in ApiCall /\ new.do = "confirm" /\ new.src = x /\ new.seen.pending = x
    BY <1>1, <1>2, <2>1 DEF ApiCall, SomeSource, Idle
  <2> QED
    BY <1>9, <2>1, <2>2, BeginStep DEF Confirm
<1> QED
  BY <1>3, <1>4, <1>5, <1>6, <1>7, <1>8, <1>9

-----------------------------------------------------------------------------
\* A call that is over knows nothing, and the others know what they knew.
LEMMA ReturnTyped ==
  ASSUME TypeOK, CallsKnow, NEW c \in Calls, Return(c), kind' = kind,
         \A x \in Sources : sold[x].state = "none" =>
           sold'[x].state = "none" \/ kind[x] # "crypto"
             \/ (call[c].do = "intent" /\ call[c].src = x),
         \A x \in Sources : sold'[x].state = "none" => sold[x].state = "none"
  PROVE  call' \in [Calls -> ApiCall] /\ CallsKnow'
<1>1. Idle \in ApiCall /\ Idle.do = "idle"
  BY VersionsAreNumbers DEF Idle, NoMeta, ApiCall, SomeSource, SomePlan, Statuses, Meta
<1>2. call' = [call EXCEPT ![c] = Idle] /\ call' \in [Calls -> ApiCall]
  BY <1>1 DEF Return, TypeOK
<1>3. ASSUME NEW d \in Calls PROVE CallKnows(d)'
  <2>1. CASE d = c
    BY <1>1, <1>2, <2>1 DEF CallKnows, TypeOK
  <2>2. CASE d # c
    <3>1. call'[d] = call[d]
      BY <1>2, <2>2 DEF TypeOK
    <3>2. call[d].do = "intent" => ~(call[c].do = "intent" /\ call[c].src = call[d].src)
      BY <2>2 DEF CallsKnow
    <3> QED
      BY <3>1, <3>2 DEF CallsKnow, CallKnows
  <2> QED
    BY <2>1, <2>2
<1>4. \A a, b \in Calls :
        call'[a].do = "intent" /\ call'[b].do = "intent" /\ call'[a].src = call'[b].src => a = b
  BY <1>1, <1>2 DEF CallsKnow, TypeOK
<1> QED
  BY <1>2, <1>3, <1>4 DEF CallsKnow

\* A call writes the row and is over; the metadata and what is bought stay.
LEMMA WriteStep ==
  ASSUME Inductive, NEW c \in Calls, Return(c),
         row' \in Row, row'.meta = row.meta,
         \A k \in Recurring : row'.sub[k] # None => kind[row'.sub[k]] = k,
         done' \in [Sources -> Versions], overtaken' \subseteq Sources,
         mixed' \in BOOLEAN, faults' \in 0 .. MaxFaults,
         UNCHANGED <<tagVars, sold, mail, refunded, owner, raced, spent, latest>>
  PROVE  Inductive'
<1> USE DEF Inductive, tagVars
<1>1. call' \in [Calls -> ApiCall] /\ CallsKnow'
  BY ReturnTyped
<1>2. TypeOK' /\ Bought' /\ IntentsAreSpentOnce'
  BY <1>1 DEF TypeOK, Bought, IntentsAreSpentOnce
<1> QED
  BY <1>1, <1>2

LEMMA CloseStep ==
  ASSUME Inductive, NEW c \in Calls,
         \/ Record(c) \/ Drop(c) \/ Close(c) \/ Replan(c) \/ MarkRefunded(c)
         \/ Refused(c) \/ Crash(c)
  PROVE  Inductive'
<1> USE DEF Inductive, tagVars, watchVars
<1> DEFINE x == call[c].src
<1>1. /\ row \in Row /\ row.sub \in [Recurring -> SomeSource] /\ row.meta \in Meta
      /\ \A k \in Recurring : row.sub[k] # None => kind[row.sub[k]] = k
      /\ call[c] \in ApiCall /\ call[c].n \in Versions /\ call[c].plan \in SomePlan
      /\ call[c].status \in Statuses
      /\ call[c].do # "idle" => x \in Sources
  BY DEF TypeOK, Row, ApiCall, Bought, CallsKnow, CallKnows
<1>2. done \in [Sources -> Versions] /\ overtaken \subseteq Sources /\ faults \in 0 .. MaxFaults
      /\ mixed \in BOOLEAN
  BY DEF TypeOK
<1>3. CASE Record(c)
  <2>1. x \in Sources /\ kind[x] \in Recurring
    BY <1>3, <1>1 DEF Record, CallsKnow, CallKnows
  <2> DEFINE r == Recorded(x, call[c].plan, call[c].status)
  <2>2. r \in Row /\ [r EXCEPT !.paid = x] \in Row
    BY <1>1, <2>1, RecordedTyped
  <2>3. /\ r.meta = row.meta /\ r.sub = [row.sub EXCEPT ![kind[x]] = x]
        /\ [r EXCEPT !.paid = x].meta = row.meta /\ [r EXCEPT !.paid = x].sub = r.sub
    BY <1>1, <2>1 DEF Recorded, Row
  <2>4. \A k \in Recurring : r.sub[k] # None => kind[r.sub[k]] = k
    BY <1>1, <2>1, <2>3
  <2>5. row' \in {r, [r EXCEPT !.paid = x]}
    BY <1>3 DEF Record
  <2>6. done' \in [Sources -> Versions] /\ overtaken' \subseteq Sources
    BY <1>1, <1>2, <1>3, <2>1, NoteTyped DEF Record
  <2> QED
    BY <1>2, <1>3, <2>2, <2>3, <2>4, <2>5, <2>6, WriteStep DEF Record
<1>4. CASE Drop(c)
  <2>1. x \in Sources
    BY <1>4, <1>1 DEF Drop
  <2>2. \A k \in Recurring :
           /\ Dropped(k) \in Row /\ [Dropped(k) EXCEPT !.paid = None] \in Row
           /\ Dropped(k).meta = row.meta /\ [Dropped(k) EXCEPT !.paid = None].meta = row.meta
           /\ Dropped(k).sub = [row.sub EXCEPT ![k] = None]
           /\ [Dropped(k) EXCEPT !.paid = None].sub = [row.sub EXCEPT ![k] = None]
    BY <1>1, DroppedTyped DEF Dropped, Row
  <2>3. PICK k \in Recurring : row' \in {Dropped(k), [Dropped(k) EXCEPT !.paid = None]}
    BY <1>4 DEF Drop, Recurring
  <2>4. row' \in Row /\ row'.meta = row.meta /\ row'.sub = [row.sub EXCEPT ![k] = None]
    BY <2>2, <2>3
  <2>5. \A l \in Recurring : row'.sub[l] # None => kind[row'.sub[l]] = l
    BY <1>1, <2>4
  <2>6. done' \in [Sources -> Versions] /\ overtaken' \subseteq Sources /\ mixed' \in BOOLEAN
    BY <1>1, <1>2, <1>4, <2>1, NoteTyped DEF Drop
  <2> QED
    BY <1>2, <1>4, <2>4, <2>5, <2>6, WriteStep DEF Drop
<1>5. CASE Close(c)
  <2>1. row' \in Row /\ row'.meta = row.meta /\ row'.sub = row.sub
    BY <1>1, <1>5 DEF Close, Row
  <2>2. done' \in [Sources -> Versions] /\ overtaken' \subseteq Sources
    BY <1>1, <1>2, <1>5, NoteTyped DEF Close
  <2> QED
    BY <1>1, <1>2, <1>5, <2>1, <2>2, WriteStep DEF Close
<1>6. CASE Replan(c)
  <2>1. row' \in Row /\ row'.meta = row.meta /\ row'.sub = row.sub
    BY <1>1, <1>6 DEF Replan, Row
  <2>2. done' \in [Sources -> Versions] /\ overtaken' \subseteq Sources
    BY <1>1, <1>2, <1>6, NoteTyped DEF Replan
  <2> QED
    BY <1>1, <1>2, <1>6, <2>1, <2>2, WriteStep DEF Replan
<1>7. CASE MarkRefunded(c)
  <2>1. row' \in Row /\ row'.meta = row.meta /\ row'.sub = row.sub
    BY <1>1, <1>7 DEF MarkRefunded, Row, Statuses
  <2>2. done' \in [Sources -> Versions] /\ overtaken' \subseteq Sources
    BY <1>1, <1>2, <1>7, NoteTyped DEF MarkRefunded
  <2> QED
    BY <1>1, <1>2, <1>7, <2>1, <2>2, WriteStep DEF MarkRefunded
<1>8. CASE Refused(c)
  BY <1>1, <1>2, <1>8, WriteStep DEF Refused
<1>9. CASE Crash(c)
  <2>1. faults' \in 0 .. MaxFaults
    BY <1>2, <1>9, BoundAssumption DEF Crash, Fault
  <2> QED
    BY <1>1, <1>2, <1>9, <2>1, WriteStep DEF Crash
<1> QED
  BY <1>3, <1>4, <1>5, <1>6, <1>7, <1>8, <1>9

\* A call that tells the provider something goes on with what it works on.
LEMMA TellingStep ==
  ASSUME Inductive, NEW c \in Calls, NEW x \in Sources, NEW type \in Told(kind[x]),
         NEW new \in Sale, kind[x] \in Kinds, kind[x] # "crypto", Tell(x, type, new),
         new.state # "none" \/ new.state = sold[x].state,
         call' \in [Calls -> ApiCall], \A d \in Calls \ {c} : call'[d] = call[d],
         call'[c].do \notin {"record", "cancel", "revise", "intent", "clean", "confirm"},
         call'[c].do # "idle" => call'[c].src \in Sources,
         refunded' \subseteq Sources,
         UNCHANGED <<tagVars, row, faults, done, overtaken, owner, mixed, raced, spent, latest>>
  PROVE  Inductive'
<1> USE DEF Inductive, tagVars
<1>1. type \in Types
  BY DEF Told
<1>2. sold' \in [Sources -> Sale] /\ mail' \subseteq Event
  BY <1>1, TellTyped
<1>3. sold' = [sold EXCEPT ![x] = [new EXCEPT !.n = sold[x].n + 1]]
  BY DEF Tell
<1>4. sold'[x].state = new.state /\ \A y \in Sources \ {x} : sold'[y] = sold[y]
  BY <1>3 DEF TypeOK, Sale
<1>5. TypeOK'
  BY <1>2 DEF TypeOK
<1>6. \A e \in mail' : e.type \in Told(kind[e.src])
  BY DEF Bought, Tell
<1>7. Bought'
  <2>1. row.meta.pending \in SomeSource
    BY DEF TypeOK, Row, Meta
  <2> QED
    BY <1>4, <1>6, <2>1 DEF Bought, SomeSource
<1>8. CallsKnow'
  <2>1. \A d \in Calls \ {c} : CallKnows(d)'
    BY <1>4 DEF CallsKnow, CallKnows
  <2>2. CallKnows(c)'
    BY DEF CallKnows
  <2> QED
    BY <2>1, <2>2 DEF CallsKnow
<1>9. IntentsAreSpentOnce'
  BY DEF IntentsAreSpentOnce
<1> QED
  BY <1>5, <1>7, <1>8, <1>9

LEMMA ProviderCallStep ==
  ASSUME Inductive, NEW c \in Calls,
         CancelThere(c) \/ UpgradeThere(c) \/ \E x \in Sources : Refund(c, x)
  PROVE  Inductive'
<1> USE DEF Inductive, watchVars
<1>1. /\ call[c] \in ApiCall /\ call \in [Calls -> ApiCall]
      /\ \A x \in Sources : /\ sold[x] \in Sale /\ sold[x].state \in States
                            /\ \A s \in States : [sold[x] EXCEPT !.state = s] \in Sale
                            /\ [sold[x] EXCEPT !.closing = TRUE] \in Sale
                            /\ \A p \in Plans : [sold[x] EXCEPT !.plan = p] \in Sale
  BY DEF TypeOK, Sale
<1>2. Idle \in ApiCall /\ Idle.do = "idle"
  BY VersionsAreNumbers DEF Idle, NoMeta, ApiCall, SomeSource, SomePlan, Statuses, Meta
<1>3. CASE CancelThere(c)
  <2> DEFINE x == call[c].src
             next == IF kind[x] = "stripe" THEN "close" ELSE "drop"
             told == IF kind[x] = "stripe" THEN "updated" ELSE "ended"
             new == IF kind[x] = "stripe" THEN [sold[x] EXCEPT !.closing = TRUE]
                                          ELSE [sold[x] EXCEPT !.state = "ended"]
  <2>1. x \in Sources /\ kind[x] \in Recurring /\ kind[x] \in Kinds /\ kind[x] # "crypto"
    BY <1>3 DEF CancelThere, CallsKnow, CallKnows, Kinds, Recurring
  <2>2. new \in Sale /\ new.state # "none"
    <3>1. sold[x] \in Sale /\ sold[x].state \in {"active", "due"}
      BY <1>1, <1>3, <2>1 DEF CancelThere, Lives
    <3>2. CASE kind[x] = "stripe"
      BY <1>1, <2>1, <3>1, <3>2 DEF Sale
    <3>3. CASE kind[x] # "stripe"
      BY <1>1, <2>1, <3>1, <3>3 DEF Sale, States
    <3> QED
      BY <3>2, <3>3
  <2>3. Tell(x, told, new) /\ told \in Told(kind[x]) /\ told \in Types
    BY <1>3, <2>1 DEF CancelThere, Told, Types, Recurring
  <2>4. sold[x].n + 1 \in Versions
    BY <2>1, <2>2, <2>3, TellTyped
  <2>5. /\ call' = [call EXCEPT ![c].do = next, ![c].n = sold[x].n + 1]
        /\ call'[c] = [call[c] EXCEPT !.do = next, !.n = sold[x].n + 1]
    BY <1>1, <1>3 DEF CancelThere
  <2>6. call'[c] \in ApiCall /\ call'[c].do = next /\ call'[c].src = x
    BY <1>1, <2>4, <2>5 DEF ApiCall
  <2>7. call' \in [Calls -> ApiCall] /\ \A d \in Calls \ {c} : call'[d] = call[d]
    BY <1>1, <2>5, <2>6
  <2>8. /\ refunded' \subseteq Sources
        /\ UNCHANGED <<tagVars, row, faults, done, overtaken, owner, mixed, raced, spent, latest>>
    BY <1>3 DEF CancelThere, TypeOK
  <2>9. /\ call'[c].do \notin {"record", "cancel", "revise", "intent", "clean", "confirm"}
        /\ call'[c].src \in Sources
    BY <2>1, <2>6
  <2> HIDE DEF new, told, next
  <2> QED
    BY <2>1, <2>2, <2>3, <2>7, <2>8, <2>9, TellingStep
<1>4. CASE UpgradeThere(c)
  <2> DEFINE x == call[c].src
             new == [sold[x] EXCEPT !.plan = call[c].plan]
  <2>1. /\ x \in Sources /\ kind[x] = "paypal" /\ kind[x] \in Kinds
        /\ call[c].plan \in Plans
    BY <1>4 DEF UpgradeThere, CallsKnow, CallKnows, Kinds, Recurring
  <2>2. CASE Return(c) /\ UNCHANGED <<sold, mail>>
    BY <1>4, <2>2, WriteStep DEF UpgradeThere, TypeOK, Bought
  <2>3. CASE Tell(x, "updated", new)
               /\ call' = [call EXCEPT ![c].do = "replan", ![c].n = sold[x].n + 1]
    <3>1. new \in Sale /\ new.state # "none"
      BY <1>1, <1>4, <2>1 DEF UpgradeThere, Lives, Sale
    <3>2. "updated" \in Told(kind[x]) /\ "updated" \in Types
      BY <2>1 DEF Told, Types
    <3>3. sold[x].n + 1 \in Versions
      BY <2>1, <2>3, <3>1, <3>2, TellTyped
    <3>4. call'[c] = [call[c] EXCEPT !.do = "replan", !.n = sold[x].n + 1]
      BY <1>1, <2>3
    <3>5. call'[c] \in ApiCall /\ call'[c].do = "replan" /\ call'[c].src = x
      BY <1>1, <3>3, <3>4 DEF ApiCall
    <3>6. call' \in [Calls -> ApiCall] /\ \A d \in Calls \ {c} : call'[d] = call[d]
      BY <1>1, <2>3, <3>5
    <3> QED
      BY <1>4, <2>1, <2>3, <3>1, <3>2, <3>5, <3>6, TellingStep DEF UpgradeThere, TypeOK
  <2> QED
    BY <1>4, <2>2, <2>3 DEF UpgradeThere
<1>5. ASSUME NEW x \in Sources, Refund(c, x) PROVE Inductive'
  <2> DEFINE new == [Idle EXCEPT !.do = "refund", !.src = x, !.n = sold[x].n + 1]
  <2>1. /\ kind[x] = "stripe" /\ kind[x] \in Kinds /\ Tell(x, "refunded", sold[x])
        /\ "refunded" \in Told(kind[x]) /\ "refunded" \in Types
    BY <1>5 DEF Refund, Kinds, Recurring, Told, Types
  <2>2. sold[x].n + 1 \in Versions
    BY <1>1, <2>1, TellTyped
  <2>3. new \in ApiCall /\ new.do = "refund" /\ new.src = x
    BY <1>2, <2>2 DEF ApiCall, SomeSource
  <2>4. /\ call' \in [Calls -> ApiCall] /\ call'[c] \in {new, Idle}
        /\ \A d \in Calls \ {c} : call'[d] = call[d]
    BY <1>1, <1>5, <2>3 DEF Refund, Begin
  <2>5. refunded' \subseteq Sources
    BY <1>5 DEF Refund, TypeOK
  <2> QED
    BY <1>1, <1>2, <1>5, <2>1, <2>3, <2>4, <2>5, TellingStep DEF Refund
<1> QED
  BY <1>3, <1>4, <1>5

-----------------------------------------------------------------------------
\* The steps of the crypto calls: they write the metadata they read, or raced.
LEMMA IntentStep ==
  ASSUME Inductive, NEW c \in Calls, NEW x \in Sources, Intent(c, x)
  PROVE  Inductive'
<1> USE DEF Inductive, tagVars
<1> DEFINE new == [Idle EXCEPT !.do = "intent", !.src = x, !.seen = row.meta]
<1>1. row \in Row /\ row.meta \in Meta
  BY DEF TypeOK, Row
<1>2. new \in ApiCall /\ new.do = "intent" /\ new.src = x
  BY <1>1, VersionsAreNumbers DEF Idle, NoMeta, ApiCall, SomeSource, SomePlan, Statuses
<1>3. call' = [call EXCEPT ![c] = new] /\ call' \in [Calls -> ApiCall]
  BY <1>2 DEF Intent, Begin, TypeOK
<1>4. row' \in Row /\ row'.sub = row.sub /\ row'.meta = row.meta
  BY <1>1 DEF Intent, Row
<1>5. TypeOK'
  BY <1>3, <1>4 DEF Intent, Owns, TypeOK, SomeSource
<1>6. Bought' /\ IntentsAreSpentOnce'
  BY <1>4 DEF Intent, Bought, IntentsAreSpentOnce
<1>7. kind[x] = "crypto" /\ sold[x].state = "none" /\ \A d \in Calls : call[d].src # x
  BY DEF Intent, About
<1>8. CallsKnow'
  <2>1. call'[c] = new /\ \A d \in Calls \ {c} : call'[d] = call[d]
    BY <1>3 DEF TypeOK
  <2>2. CallKnows(c)'
    BY <1>2, <1>7, <2>1 DEF Intent, Begin, CallKnows
  <2>3. ASSUME NEW d \in Calls \ {c} PROVE CallKnows(d)'
    BY <2>1, <2>3 DEF Intent, CallsKnow, CallKnows
  <2> HIDE DEF new
  <2>4. ASSUME NEW d \in Calls, NEW e \in Calls, call'[d].do = "intent", call'[e].do = "intent",
               call'[d].src = call'[e].src
        PROVE  d = e
    <3>1. CASE d = c
      <4>1. call'[e].src = x
        BY <1>2, <2>1, <2>4, <3>1
      <4> QED
        BY <1>7, <2>1, <3>1, <4>1
    <3>2. CASE e = c
      <4>1. call'[d].src = x
        BY <1>2, <2>1, <2>4, <3>2
      <4> QED
        BY <1>7, <2>1, <3>2, <4>1
    <3>3. CASE d # c /\ e # c
      BY <2>1, <2>4, <3>3 DEF CallsKnow
    <3> QED
      BY <3>1, <3>2, <3>3
  <2> QED
    BY <2>2, <2>3, <2>4 DEF CallsKnow
<1> QED
  BY <1>5, <1>6, <1>8

LEMMA CryptoWriteStep ==
  ASSUME Inductive, NEW c \in Calls, WriteIntent(c) \/ Clean(c) \/ WriteConfirmed(c)
  PROVE  Inductive'
<1> USE DEF Inductive, tagVars
<1> DEFINE x == call[c].src
           seen == call[c].seen
<1>1. /\ row \in Row /\ row.meta \in Meta /\ row.sub \in [Recurring -> SomeSource]
      /\ call[c] \in ApiCall /\ seen \in Meta
      /\ seen.pending \in SomeSource /\ seen.last \in SomeSource
  BY DEF TypeOK, Row, ApiCall, Meta
<1>2. call[c].do # "idle" => x \in Sources
  BY DEF CallsKnow, CallKnows
<1>3. CASE WriteIntent(c)
  <2>1. x \in Sources /\ kind[x] = "crypto" /\ sold[x].state = "none" /\ call[c].do = "intent"
    BY <1>2, <1>3 DEF WriteIntent, CallsKnow, CallKnows
  <2>2. spent[x] = 0
    BY <2>1 DEF Bought, TypeOK
  <2>3. /\ row' \in Row /\ row'.sub = row.sub
        /\ row'.meta = [pending |-> x, last |-> seen.last]
    BY <1>1, <1>3, <2>1 DEF WriteIntent, Row, Meta, SomeSource
  <2>4. /\ sold' \in [Sources -> Sale] /\ sold'[x].state = "open" /\ sold'[x].n = sold[x].n
        /\ \A y \in Sources \ {x} : sold'[y] = sold[y]
    BY <1>3, <2>1 DEF WriteIntent, TypeOK, Sale, States
  <2>5. call' \in [Calls -> ApiCall] /\ CallsKnow'
    BY <1>3, <2>1, <2>4, ReturnTyped DEF WriteIntent
  <2>6. TypeOK'
    BY <1>3, <2>3, <2>4, <2>5 DEF WriteIntent, TypeOK
  <2>7. Bought'
    BY <1>3, <2>1, <2>3, <2>4 DEF WriteIntent, Bought, Kinds
  <2>8. IntentsAreSpentOnce'
    <3>1. CASE raced'
      BY <3>1 DEF IntentsAreSpentOnce
    <3>2. CASE ~raced'
      <4>1. ~raced /\ row.meta = seen /\ UNCHANGED <<spent, latest>>
        BY <1>3, <3>2 DEF WriteIntent
      <4>2. row'.meta.last = latest' /\ row'.meta.pending = x
        BY <1>1, <2>3, <4>1 DEF IntentsAreSpentOnce
      <4> QED
        BY <2>2, <4>1, <4>2 DEF IntentsAreSpentOnce
    <3> QED
      BY <3>1, <3>2
  <2> QED
    BY <2>5, <2>6, <2>7, <2>8
<1>4. CASE Clean(c)
  <2>1. row' \in Row /\ row'.sub = row.sub /\ row'.meta = [pending |-> None, last |-> seen.last]
    BY <1>1, <1>4 DEF Clean, Row, Meta, SomeSource
  <2>2. call' \in [Calls -> ApiCall] /\ CallsKnow'
    BY <1>4, ReturnTyped DEF Clean
  <2>3. TypeOK' /\ Bought'
    BY <1>4, <2>1, <2>2 DEF Clean, TypeOK, Bought
  <2>4. IntentsAreSpentOnce'
    <3>1. CASE raced'
      BY <3>1 DEF IntentsAreSpentOnce
    <3>2. CASE ~raced'
      <4>1. ~raced /\ row.meta = seen /\ UNCHANGED <<spent, latest>>
        BY <1>4, <3>2 DEF Clean
      <4>2. row'.meta.last = latest' /\ row'.meta.pending \notin Sources
        BY <1>1, <2>1, <4>1, NoneAssumption DEF IntentsAreSpentOnce
      <4> QED
        BY <4>1, <4>2 DEF IntentsAreSpentOnce
    <3> QED
      BY <3>1, <3>2
  <2> QED
    BY <2>2, <2>3, <2>4
<1>5. CASE WriteConfirmed(c)
  <2>1. /\ x \in Sources /\ x = seen.pending
        /\ kind[x] = "crypto" /\ sold[x].state # "none"
    BY <1>2, <1>5 DEF WriteConfirmed, CallsKnow, CallKnows
  <2>2. /\ row' \in Row /\ row'.sub = row.sub /\ row'.meta = [pending |-> None, last |-> x]
    BY <1>1, <1>5, <2>1, PlanAssumption
    DEF WriteConfirmed, ConfirmedMeta, Row, Meta, SomeSource, SomePlan, Statuses
  <2>3. /\ sold' \in [Sources -> Sale] /\ sold'[x].state = "active" /\ sold'[x].n = sold[x].n
        /\ \A y \in Sources \ {x} : sold'[y] = sold[y]
    BY <1>5, <2>1 DEF WriteConfirmed, TypeOK, Sale, States
  <2>4. /\ spent' \in [Sources -> Nat] /\ spent'[x] = spent[x] + 1 /\ latest' = x
        /\ \A y \in Sources \ {x} : spent'[y] = spent[y]
    BY <1>5, <2>1 DEF WriteConfirmed, TypeOK
  <2>5. call' \in [Calls -> ApiCall] /\ CallsKnow'
    BY <1>5, <2>1, <2>3, ReturnTyped DEF WriteConfirmed
  <2>6. TypeOK'
    BY <1>5, <2>1, <2>2, <2>3, <2>4, <2>5 DEF WriteConfirmed, TypeOK, SomeSource
  <2>7. Bought'
    BY <1>5, <2>1, <2>2, <2>3, <2>4 DEF WriteConfirmed, Bought, Kinds
  <2>8. IntentsAreSpentOnce'
    <3>1. CASE raced'
      BY <3>1 DEF IntentsAreSpentOnce
    <3>2. CASE ~raced'
      <4>1. ~raced /\ row.meta = seen
        BY <1>5, <3>2 DEF WriteConfirmed
      <4>2. spent[x] = 0
        BY <2>1, <4>1 DEF IntentsAreSpentOnce, TypeOK
      <4>3. row'.meta.last = latest' /\ row'.meta.pending = None
        BY <2>2, <2>4
      <4> QED
        BY <2>4, <4>1, <4>2, <4>3, NoneAssumption DEF IntentsAreSpentOnce
    <3> QED
      BY <3>1, <3>2
  <2> QED
    BY <2>5, <2>6, <2>7, <2>8
<1> QED
  BY <1>3, <1>4, <1>5
-----------------------------------------------------------------------------
LEMMA InductiveInit == Init => Inductive
<1> SUFFICES ASSUME Init PROVE Inductive
  OBVIOUS
<1>1. row \in Row /\ row.meta = NoMeta /\ \A k \in Recurring : row.sub[k] = None
  BY DEF Init, Row, NoMeta, Meta, SomeSource, SomePlan, Statuses
<1>2. Idle \in ApiCall /\ Idle.do = "idle"
  BY VersionsAreNumbers DEF Idle, NoMeta, ApiCall, SomeSource, SomePlan, Statuses, Meta
<1>3. sold \in [Sources -> Sale] /\ \A x \in Sources : sold[x].state = "none" /\ sold[x].n = 0
  BY VersionsAreNumbers, PlanAssumption DEF Init, Sale, States
<1>4. TypeOK
  <2>1. kind \in [Sources -> Kinds \union {None}] /\ tagged \in BOOLEAN
    BY MixAssumption DEF Init
  <2>2. call \in [Calls -> ApiCall]
    BY <1>2 DEF Init
  <2>3. /\ mail \subseteq Event /\ faults \in 0 .. MaxFaults
        /\ done \in [Sources -> Versions] /\ spent \in [Sources -> Nat]
    BY VersionsAreNumbers, BoundAssumption DEF Init
  <2>4. /\ overtaken \subseteq Sources /\ refunded \subseteq Sources
        /\ owner \in SomeSource /\ mixed \in BOOLEAN /\ raced \in BOOLEAN
        /\ latest \in SomeSource
    BY DEF Init, SomeSource
  <2> QED
    BY <1>1, <1>3, <2>1, <2>2, <2>3, <2>4 DEF TypeOK
<1>5. Bought
  BY <1>1, <1>3 DEF Init, Bought, NoMeta
<1>6. CallsKnow
  BY <1>2 DEF Init, CallsKnow, CallKnows
<1>7. IntentsAreSpentOnce
  BY <1>1 DEF Init, IntentsAreSpentOnce, NoMeta
<1> QED
  BY <1>4, <1>5, <1>6, <1>7 DEF Inductive

LEMMA InductiveStep == Inductive /\ [Next]_vars => Inductive'
<1> SUFFICES ASSUME Inductive, [Next]_vars PROVE Inductive'
  OBVIOUS
<1>1. CASE UNCHANGED vars
  BY <1>1 DEF Inductive, vars, tagVars, watchVars, TypeOK, Bought, CallsKnow, CallKnows, IntentsAreSpentOnce
<1>2. CASE Visit
  BY <1>2, VisitStep
<1>3. ASSUME NEW x \in Sources, Provider(x) PROVE Inductive'
  BY <1>3, ProviderStep
<1>4. ASSUME NEW x \in Sources, Expire(x) \/ Subscribe(x) \/ Order(x) \/ VerifyOrder(x)
      PROVE  Inductive'
  BY <1>4, BuyStep
<1>5. ASSUME NEW e \in mail, Deliver(e) \/ DeliverAgain(e) PROVE Inductive'
  BY <1>5, WebhookStep
<1>6. ASSUME NEW c \in Calls, Open(c) \/ Step(c) \/ Crash(c) PROVE Inductive'
  <2>1. CASE Open(c)
    BY <2>1, OpenStep, ProviderCallStep, IntentStep DEF Open
  <2>2. CASE Step(c)
    BY <2>2, CloseStep, ProviderCallStep, CryptoWriteStep DEF Step
  <2>3. CASE Crash(c)
    BY <2>3, CloseStep
  <2> QED
    BY <1>6, <2>1, <2>2, <2>3
<1> QED
  BY <1>1, <1>2, <1>3, <1>4, <1>5, <1>6 DEF Next

\* Types, rails and what the calls under way know, in every reachable state.
THEOREM InductiveInvariant == Spec => []Inductive
  BY InductiveInit, InductiveStep, PTL DEF Spec

\* Confirming and cleaning up crypto intents reads and writes the row's
\* metadata as a whole: unless two such calls overlapped, an intent is
\* confirmed once, is not pending afterwards, and the last one confirmed stays
\* on record, whatever webhooks and other calls do to the row.
THEOREM IntentsArePaidOnce == Spec => []IntentsAreSpentOnce
<1>1. Inductive => IntentsAreSpentOnce
  BY DEF Inductive
<1> QED
  BY <1>1, InductiveInvariant, PTL

-----------------------------------------------------------------------------
(* The row and the provider.  Three invariants lead to RowAgrees: Numbered,  *)
(* no event is lost between the provider and the row; Chains, the webhooks   *)
(* tell, one after the other, how the subscription came to stand as it does; *)
(* Agreeing, what the row says, what is still to come and what the calls     *)
(* under way are to write fit together.                                      *)

\* The webhooks about x that are not acknowledged.
MailOf(x) == {e \in mail : e.src = x}

\* An event of x that is not acknowledged was written to the row, or its
\* webhook is still to come.
Delivered(x) ==
  /\ done[x] <= sold[x].n
  /\ \A n \in 1 .. sold[x].n : n <= done[x] \/ \E e \in MailOf(x) : e.n = n
  /\ \A e \in MailOf(x) : 0 < e.n /\ e.n <= sold[x].n
  /\ \A e, f \in MailOf(x) : e.n = f.n => e = f

\* What is bought on which rail reaches which states, after how many events.
Standing(x) ==
  /\ sold[x].state = "none" => sold[x].n = 0
  /\ kind[x] \in Recurring =>
       /\ sold[x].state \in {"open", "approved"} => sold[x].n = 0
       /\ sold[x].state \in {"active", "due"} => sold[x].n > 0
       /\ sold[x].state = "ended" => sold[x].n > 1
  /\ kind[x] = "razorpay" => sold[x].state # "due" /\ sold[x].plan = PlanOf[x]
  /\ kind[x] = "crypto" =>
       sold[x].plan = PlanOf[x] /\ sold[x].state \in {"none", "open", "active", "ended"}
  /\ kind[x] = "order" => sold[x].state # "ended"

\* What a call under way works on was bought, on a rail that has such calls.
CallNumbered(c) ==
  LET x == call[c].src IN
  call[c].do # "idle" =>
    /\ x \in Sources /\ call[c].n <= sold[x].n
    /\ call[c].do # "intent" => sold[x].state # "none"
    /\ call[c].do = "record" =>
         kind[x] = "paypal" \/ (kind[x] = "razorpay" /\ call[c].n = 1)
    /\ call[c].do = "drop" => kind[x] \in {"paypal", "razorpay", "order"}
    /\ call[c].do = "close" => kind[x] = "stripe" /\ call[c].n > 0
    /\ call[c].do = "replan" => kind[x] = "paypal" /\ call[c].n > 0
    /\ call[c].do = "refund" => x \in refunded

Numbered ==
  /\ \A x \in Sources : Delivered(x) /\ Standing(x)
  /\ \A c \in Calls : CallNumbered(c)
  /\ row.paid # None => kind[row.paid] \in {"razorpay", "order"} /\ sold[row.paid].state # "none"
  /\ \A k \in Recurring : row.sub[k] # None => sold[row.sub[k]].state # "none"

\* What a predecessor with plan p, status s and closing b tells of event e: what e's
\* handler leaves alone.
Follows(e, p, s, b) ==
  /\ e.type \in {"paid", "failed"} => p = e.plan
  /\ e.type = "updated" => s = e.status
  /\ e.type \in {"paid", "failed"} /\ kind[e.src] = "stripe" => b = e.closing

\* The events of a subscription that is not refunded: the last one tells how it
\* stands, each one how it differs from the one before.
Chained(x) ==
  /\ \A e \in MailOf(x) :
       /\ e.type \in Types \ {"refunded"} /\ (e.type = "activated" <=> e.n = 1)
       /\ kind[x] = "razorpay" => e.plan = PlanOf[x]
       /\ e.type = "ended" => e.n = sold[x].n /\ sold[x].state = "ended"
       /\ e.type \in {"activated", "paid"} => e.status = "ACTIVE"
       /\ e.type = "failed" => e.status = "PAST_DUE"
       /\ e.n = sold[x].n =>
            /\ e.plan = sold[x].plan /\ e.closing = sold[x].closing
            /\ e.status = StatusOf(sold[x].state)
            /\ sold[x].state = "ended" => e.type = "ended"
  /\ \A e, f \in MailOf(x) : f.n + 1 = e.n => Follows(e, f.plan, f.status, f.closing)

Chains == \A x \in Sources : kind[x] \in Recurring /\ x \notin refunded => Chained(x)

Undisturbed == owner # None /\ ~mixed /\ overtaken \union refunded = {}
Gap == \E e \in MailOf(owner) : e.n < done[owner]

\* While nothing was bought beside the owner, the rest is over.
Over(y) ==
  /\ sold[y].state \in {"none", "ended"} /\ row.meta.pending # y /\ MailOf(y) = {}
  /\ \A c \in About(y) :
       \/ call[c].do \in {"idle", "cancel", "revise", "drop"}
       \/ call[c].do = "record" /\ call[c].n < done[y]

\* The row tells what event e tells.
Tells(e) ==
  /\ row.plan = e.plan /\ row.status = e.status
  /\ kind[e.src] = "stripe" => row.closing = e.closing

RowFollows ==
  LET x == owner IN
  /\ IF done[x] = sold[x].n /\ sold[x].state = "ended"
       THEN row.plan = Free /\ row.status = "CANCELLED" /\ row.sub[kind[x]] = None
       ELSE /\ row.sub[kind[x]] = x
            /\ kind[x] = "razorpay" => row.plan = PlanOf[x] /\ row.status = "ACTIVE"
  /\ done[x] = sold[x].n /\ Lives(x) =>
       /\ row.plan = sold[x].plan /\ row.status = StatusOf(sold[x].state)
       /\ kind[x] = "stripe" => row.closing = sold[x].closing
  /\ \A e \in MailOf(x) : e.n = done[x] /\ e.type # "ended" => Tells(e)
  /\ \A e \in MailOf(x) : e.n = done[x] + 1 => Follows(e, row.plan, row.status, row.closing)

\* What a call about the owner is to write is what its event says.
RecordFollows(c) ==
  LET x == owner  n == call[c].n IN
  call[c].do = "record" /\ n > 0 =>
    /\ n = sold[x].n => sold[x].state # "ended"
    /\ \A e \in MailOf(x) : e.n = n =>
         e.type # "ended" /\ e.plan = call[c].plan /\ e.status = call[c].status
    /\ done[x] = n /\ ~Gap => row.plan = call[c].plan /\ row.status = call[c].status

CloseFollows(c) ==
  LET x == owner  n == call[c].n IN
  call[c].do = "close" =>
    /\ n > 1 /\ (n = sold[x].n => sold[x].state # "ended")
    /\ \A e \in MailOf(x) : e.n = n =>
         /\ e.type = "updated" /\ e.closing
         /\ \A f \in MailOf(x) : f.n + 1 = n => f.plan = e.plan
         /\ done[x] + 1 = n /\ ~Gap => row.plan = e.plan
    /\ done[x] = n /\ ~Gap => row.closing

ReplanFollows(c) ==
  LET x == owner  n == call[c].n IN
  call[c].do = "replan" =>
    /\ n > 1 /\ (n = sold[x].n => sold[x].state # "ended")
    /\ \A e \in MailOf(x) : e.n = n => e.type = "updated" /\ e.plan = call[c].plan
    /\ done[x] = n /\ ~Gap => row.plan = call[c].plan

DropFollows(c) ==
  LET x == owner  n == call[c].n IN
  call[c].do = "drop" =>
    sold[x].state = "ended" /\ (IF n = 0 THEN done[x] = sold[x].n ELSE n = sold[x].n)

CallFollows(c) == RecordFollows(c) /\ CloseFollows(c) /\ ReplanFollows(c) /\ DropFollows(c)

\* The owner is a subscription whose webhooks name the tenant.
Tracked == kind[owner] \in Recurring /\ (kind[owner] = "stripe" => tagged)

OthersAreOver == \A y \in Sources \ {owner} : Over(y)
PaidIsOver ==
  kind[owner] = "razorpay" /\ row.paid = owner /\ row.sub["razorpay"] = None
    => sold[owner].state = "ended" /\ done[owner] = sold[owner].n
RowIsThere == kind[owner] \in {"stripe", "razorpay"} => row.exists
IntentAgrees ==
  kind[owner] = "crypto" /\ sold[owner].state = "active" =>
    row.plan = PlanOf[owner] /\ row.status = "ACTIVE"
CallsFollow == Tracked => \A c \in About(owner) : CallFollows(c)
EventsFollow == Tracked /\ ~Gap /\ done[owner] > 0 => RowFollows

Clear ==
  OthersAreOver /\ PaidIsOver /\ RowIsThere /\ IntentAgrees /\ CallsFollow /\ EventsFollow

Agreeing == Undisturbed => Clear

\* The numbers of sources, webhooks and calls.
LEMMA Numbers ==
  ASSUME TypeOK
  PROVE  /\ \A x \in Sources : /\ sold[x] \in Sale /\ sold[x].n \in Nat /\ done[x] \in Nat
                               /\ sold[x].n + 1 \in Nat
         /\ \A e \in mail : e \in Event /\ e.n \in Nat /\ e.src \in Sources
         /\ \A c \in Calls : call[c] \in ApiCall /\ call[c].n \in Nat
<1>1. ASSUME NEW x \in Sources
      PROVE  /\ sold[x] \in Sale /\ sold[x].n \in Nat /\ done[x] \in Nat
             /\ sold[x].n + 1 \in Nat
  <2>1. sold[x] \in Sale /\ sold[x].n \in Versions /\ done[x] \in Versions
    BY DEF TypeOK, Sale
  <2>2. sold[x].n \in Nat /\ done[x] \in Nat
    BY <2>1, VersionsAreNumbers
  <2>3. \A n \in Nat : n + 1 \in Nat
    OBVIOUS
  <2> QED
    BY <2>1, <2>2, <2>3
<1>2. ASSUME NEW e \in mail
      PROVE  e \in Event /\ e.n \in Nat /\ e.src \in Sources
  BY VersionsAreNumbers DEF TypeOK, Event
<1>3. ASSUME NEW c \in Calls
      PROVE  call[c] \in ApiCall /\ call[c].n \in Nat
  BY VersionsAreNumbers DEF TypeOK, ApiCall
<1> QED
  BY <1>1, <1>2, <1>3

\* One more event of x, and its webhook.
Adds(x, e) ==
  /\ e.src = x /\ e.n = sold[x].n + 1 /\ e.status = StatusOf(sold'[x].state)
  /\ mail' = mail \union {e} /\ MailOf(x)' = MailOf(x) \union {e}
  /\ \A y \in Sources \ {x} : MailOf(y)' = MailOf(y) /\ sold'[y] = sold[y]
  /\ sold'[x].n = e.n /\ sold'[x].plan = e.plan /\ sold'[x].closing = e.closing

\* What Tell does, in terms of Adds.
LEMMA TellAdds ==
  ASSUME TypeOK, NEW x \in Sources, NEW type, NEW new \in Sale, Tell(x, type, new)
  PROVE  \E e : /\ Adds(x, e) /\ e.type = type
                /\ sold'[x].state = new.state /\ sold'[x].plan = new.plan
                /\ sold'[x].closing = new.closing
<1> DEFINE e == [src |-> x, type |-> type, n |-> sold[x].n + 1, plan |-> new.plan,
                 status |-> StatusOf(new.state), closing |-> new.closing]
<1>1. mail' = mail \union {e} /\ e.src = x
  BY DEF Tell
<1>2. MailOf(x)' = MailOf(x) \union {e} /\ \A y \in Sources \ {x} : MailOf(y)' = MailOf(y)
  BY <1>1 DEF MailOf
<1>3. /\ sold'[x].n = sold[x].n + 1 /\ sold'[x].state = new.state
      /\ sold'[x].plan = new.plan /\ sold'[x].closing = new.closing
      /\ \A y \in Sources \ {x} : sold'[y] = sold[y]
  BY DEF Tell, TypeOK, Sale
<1>4. Adds(x, e) /\ e.type = type
  BY <1>1, <1>2, <1>3 DEF Adds
<1> QED
  BY <1>3, <1>4

\* A new event brings its own webhook.
LEMMA TellDelivered ==
  ASSUME TypeOK, NEW x \in Sources, NEW e, Adds(x, e), UNCHANGED done,
         \A y \in Sources : Delivered(y)
  PROVE  \A y \in Sources : Delivered(y)'
<1>1. /\ e.n = sold[x].n + 1 /\ MailOf(x)' = MailOf(x) \union {e}
      /\ \A y \in Sources \ {x} : MailOf(y)' = MailOf(y) /\ sold'[y] = sold[y]
      /\ sold'[x].n = sold[x].n + 1
  BY DEF Adds
<1>2. ASSUME NEW y \in Sources, y # x
      PROVE  Delivered(y)'
  BY <1>1, <1>2 DEF Delivered
<1>3. sold[x].n \in Nat /\ done[x] \in Nat /\ \A f \in MailOf(x) : f.n \in Nat
  BY Numbers DEF MailOf
<1>4. \A n \in 1 .. sold[x].n + 1 : n \in 1 .. sold[x].n \/ n = e.n
  BY <1>1, <1>3
<1>5. \A f \in MailOf(x) : f.n # e.n
  BY <1>1, <1>3 DEF Delivered
<1>6. Delivered(x)'
  <2>1. done'[x] <= sold'[x].n
    BY <1>1, <1>3 DEF Delivered
  <2>2. \A n \in 1 .. sold'[x].n : n <= done'[x] \/ \E f \in MailOf(x)' : f.n = n
    BY <1>1, <1>4 DEF Delivered
  <2>3. \A f \in MailOf(x)' : 0 < f.n /\ f.n <= sold'[x].n
    BY <1>1, <1>3 DEF Delivered
  <2>4. \A f, g \in MailOf(x)' : f.n = g.n => f = g
    BY <1>1, <1>5 DEF Delivered
  <2> QED
    BY <2>1, <2>2, <2>3, <2>4 DEF Delivered
<1> QED
  BY <1>2, <1>6

\* A write that tells of the n-th event of x, and takes at most its webhook.
LEMMA NoteDelivered ==
  ASSUME TypeOK, NEW x \in Sources, NEW n \in Nat, Note(x, n), n <= sold[x].n,
         mail' \subseteq mail, \A e \in mail \ mail' : e.src = x /\ e.n = n,
         \A y \in Sources : Delivered(y), UNCHANGED sold
  PROVE  \A y \in Sources : Delivered(y)'
<1>1. /\ done'[x] = IF n > done[x] THEN n ELSE done[x]
      /\ \A y \in Sources \ {x} : done'[y] = done[y] /\ MailOf(y)' = MailOf(y)
  BY DEF Note, TypeOK, MailOf
<1>2. \A y \in Sources \ {x} : Delivered(y)'
  BY <1>1 DEF Delivered
<1>3. /\ sold[x].n \in Nat /\ done[x] \in Nat /\ MailOf(x)' \subseteq MailOf(x)
      /\ \A e \in MailOf(x) \ MailOf(x)' : e.n = n
  BY Numbers DEF MailOf
<1>4. done[x] <= done'[x] /\ n <= done'[x] /\ done'[x] <= sold[x].n
  BY <1>1, <1>3 DEF Delivered
<1>5. \A m \in 1 .. sold[x].n : m <= done'[x] \/ \E e \in MailOf(x)' : e.n = m
  <2> SUFFICES ASSUME NEW m \in 1 .. sold[x].n, ~(m <= done'[x])
               PROVE  \E e \in MailOf(x)' : e.n = m
    OBVIOUS
  <2>1. ~(m <= done[x]) /\ m # n
    BY <1>1, <1>3, <1>4
  <2> QED
    BY <1>3, <2>1 DEF Delivered
<1>6. Delivered(x)'
  BY <1>3, <1>4, <1>5 DEF Delivered
<1> QED
  BY <1>2, <1>6

-----------------------------------------------------------------------------
(* What a provider may tell. *)

\* Event e of x: where it leads from, and what it leaves alone.
Turn(x, e) ==
  /\ Adds(x, e)
  /\ kind[x] # "crypto" /\ sold[x].state \notin {"none", "ended"}
  /\ kind[x] = "order" => sold'[x].state = "active"
  /\ kind[x] = "razorpay" => sold'[x].state # "due" /\ sold'[x].plan = sold[x].plan
  /\ kind[x] \in Recurring =>
       /\ sold'[x].state \in {"active", "due", "ended"}
       /\ e.type \in Types \ {"refunded"} /\ (e.type = "activated" <=> sold[x].n = 0)
       /\ e.type = "ended" <=> sold'[x].state = "ended"
       /\ e.type \in {"activated", "paid"} => sold'[x].state = "active"
       /\ e.type = "failed" => sold'[x].state = "due"
       /\ sold'[x].state = "ended" => Lives(x)
       /\ Lives(x) => Follows(e, sold[x].plan, StatusOf(sold[x].state), sold[x].closing)

\* What Tell does to a source that was bought and is not over.
LEMMA TellTurns ==
  ASSUME Inductive, Numbered, NEW x \in Sources, NEW type \in Types, NEW new \in Sale,
         Tell(x, type, new), kind' = kind,
         kind[x] # "crypto", sold[x].state \notin {"none", "ended"},
         kind[x] = "order" => new.state = "active",
         kind[x] = "razorpay" => new.state # "due" /\ new.plan = sold[x].plan,
         kind[x] \in Recurring =>
           \/ /\ type = "activated" /\ ~Lives(x) /\ new.state = "active"
           \/ /\ type = "paid" /\ Lives(x) /\ new.state = "active"
              /\ new.plan = sold[x].plan /\ new.closing = sold[x].closing
           \/ /\ type = "failed" /\ Lives(x) /\ new.state = "due"
              /\ new.plan = sold[x].plan /\ new.closing = sold[x].closing
           \/ /\ type = "updated" /\ Lives(x) /\ new.state = sold[x].state
           \/ /\ type = "ended" /\ Lives(x) /\ new.state = "ended"
  PROVE  \E e : Turn(x, e) /\ e.type = type
<1>1. PICK e : /\ Adds(x, e) /\ e.type = type
               /\ sold'[x].state = new.state /\ sold'[x].plan = new.plan
               /\ sold'[x].closing = new.closing
  BY TellAdds DEF Inductive
<1>2. /\ sold[x] \in Sale /\ sold[x].n \in Nat /\ sold[x].state \in States
      /\ kind[x] \in Recurring => (Lives(x) <=> sold[x].n > 0)
  <2>1. sold[x] \in Sale /\ sold[x].n \in Nat /\ sold[x].state \in States
    BY Numbers DEF Inductive, Sale
  <2>2. kind[x] \in Recurring => (Lives(x) <=> sold[x].n > 0)
    BY <2>1 DEF Numbered, Standing, Lives, States
  <2> QED
    BY <2>1, <2>2
<1>3. kind[x] \in Recurring =>
       /\ sold'[x].state \in {"active", "due", "ended"}
       /\ e.type \in Types \ {"refunded"} /\ (e.type = "activated" <=> sold[x].n = 0)
       /\ e.type = "ended" <=> sold'[x].state = "ended"
       /\ e.type \in {"activated", "paid"} => sold'[x].state = "active"
       /\ e.type = "failed" => sold'[x].state = "due"
       /\ sold'[x].state = "ended" => Lives(x)
  <2> SUFFICES ASSUME kind[x] \in Recurring
               PROVE  /\ new.state \in {"active", "due", "ended"}
                      /\ type \in Types \ {"refunded"} /\ (type = "activated" <=> sold[x].n = 0)
                      /\ type = "ended" <=> new.state = "ended"
                      /\ type \in {"activated", "paid"} => new.state = "active"
                      /\ type = "failed" => new.state = "due"
                      /\ new.state = "ended" => Lives(x)
    BY <1>1
  <2>1. Lives(x) => sold[x].n # 0 /\ sold[x].state \in {"active", "due"}
    BY <1>2 DEF Lives
  <2>2. ~Lives(x) => sold[x].n = 0
    BY <1>2
  <2> QED
    BY <2>1, <2>2
<1>4. kind[x] \in Recurring /\ Lives(x) =>
        Follows(e, sold[x].plan, StatusOf(sold[x].state), sold[x].closing)
  BY <1>1, <1>2 DEF Follows, Adds
<1>5. /\ kind[x] = "order" => sold'[x].state = "active"
      /\ kind[x] = "razorpay" => sold'[x].state # "due" /\ sold'[x].plan = sold[x].plan
  BY <1>1
<1> QED
  BY <1>1, <1>3, <1>4, <1>5 DEF Turn

Beside == <<kind, tagged, row, faults, done, overtaken, refunded, owner, mixed, raced, spent, latest>>

\* Every step of a provider but an approval is an event.
LEMMA ProviderTurns ==
  ASSUME Inductive, Numbered, NEW x \in Sources, Provider(x), ~Approve(x)
  PROVE  (\E e : Turn(x, e)) /\ UNCHANGED <<Beside, call>>
<1> USE DEF Inductive, tagVars, watchVars, Beside
<1>1. sold[x] \in Sale /\ sold[x].state \in States /\ kind[x] \in Kinds \union {None}
  BY DEF TypeOK, Sale
<1>2. CASE Start(x)
  <2>1. [sold[x] EXCEPT !.state = "active"] \in Sale
        /\ [sold[x] EXCEPT !.state = "active"].state = "active"
        /\ [sold[x] EXCEPT !.state = "active"].plan = sold[x].plan
    BY <1>1 DEF Sale, States
  <2>2. CASE kind[x] = "order"
    BY <1>1, <1>2, <2>1, <2>2, TellTurns DEF Start, Types, Recurring
  <2>3. CASE kind[x] # "order"
    BY <1>1, <1>2, <2>1, <2>3, TellTurns DEF Start, Types, Lives
  <2> QED
    BY <2>2, <2>3
<1>3. CASE Charge(x)
  <2> DEFINE new == [sold[x] EXCEPT !.state = "active"]
  <2>1. /\ new \in Sale /\ new.state = "active" /\ new.plan = sold[x].plan
        /\ new.closing = sold[x].closing
    BY <1>1 DEF Sale, States
  <2>2. Tell(x, "paid", new) /\ kind[x] \in Recurring /\ Lives(x)
    BY <1>3 DEF Charge
  <2> HIDE DEF new
  <2>3. (\E e : Turn(x, e))
    BY <1>3, <2>1, <2>2, TellTurns DEF Charge, Types, Recurring, Lives
  <2> QED
    BY <1>3, <2>3 DEF Charge
<1>4. CASE Decline(x)
  <2> DEFINE new == [sold[x] EXCEPT !.state = "due"]
  <2>1. /\ new \in Sale /\ new.state = "due" /\ new.plan = sold[x].plan
        /\ new.closing = sold[x].closing
    BY <1>1 DEF Sale, States
  <2>2. Tell(x, "failed", new) /\ kind[x] \in {"stripe", "paypal"} /\ Lives(x)
    BY <1>4 DEF Decline, Lives
  <2> HIDE DEF new
  <2>3. (\E e : Turn(x, e))
    BY <1>4, <2>1, <2>2, TellTurns DEF Decline, Types, Recurring, Lives
  <2> QED
    BY <1>4, <2>3 DEF Decline
<1>5. ASSUME NEW p \in Plans, Revise(x, p)
      PROVE  (\E e : Turn(x, e)) /\ UNCHANGED <<Beside, call>>
  <2> DEFINE new == [sold[x] EXCEPT !.plan = p]
  <2>1. new \in Sale /\ new.state = sold[x].state
    BY <1>1 DEF Sale
  <2>2. Tell(x, "updated", new) /\ kind[x] \in {"stripe", "paypal"} /\ Lives(x)
    BY <1>5 DEF Revise, Lives
  <2> HIDE DEF new
  <2>3. (\E e : Turn(x, e))
    BY <1>5, <2>1, <2>2, TellTurns DEF Revise, Types, Recurring, Lives
  <2> QED
    BY <1>5, <2>3 DEF Revise
<1>6. CASE End(x)
  <2> DEFINE new == [sold[x] EXCEPT !.state = "ended"]
  <2>1. /\ new \in Sale /\ new.state = "ended" /\ new.plan = sold[x].plan
    BY <1>1 DEF Sale, States
  <2>2. Tell(x, "ended", new) /\ kind[x] \in Recurring /\ Lives(x)
    BY <1>6 DEF End
  <2> HIDE DEF new
  <2>3. (\E e : Turn(x, e))
    BY <1>6, <2>1, <2>2, TellTurns DEF End, Types, Recurring, Lives
  <2> QED
    BY <1>6, <2>3 DEF End
<1> QED
  BY <1>2, <1>3, <1>4, <1>5, <1>6 DEF Provider

\* A call under way works on a source.
LEMMA CallKnowsSource ==
  ASSUME Inductive, NEW c \in Calls, call[c].do # "idle"
  PROVE  call[c].src \in Sources
  BY DEF Inductive, CallsKnow, CallKnows

\* The calls that tell the provider first go on to write what it answered.
LEMMA CancelTurns ==
  ASSUME Inductive, Numbered, NEW c \in Calls, NEW x \in Sources, x = call[c].src, CancelThere(c)
  PROVE  /\ kind[x] \in Recurring /\ UNCHANGED Beside
         /\ call' = [call EXCEPT ![c].do = IF kind[x] = "stripe" THEN "close" ELSE "drop",
                                 ![c].n = sold[x].n + 1]
         /\ \E e : /\ Turn(x, e) /\ Lives(x)
                   /\ IF kind[x] = "stripe"
                        THEN /\ e.type = "updated" /\ e.closing
                             /\ e.plan = sold[x].plan
                        ELSE e.type = "ended"
<1> USE DEF Inductive, watchVars, Beside, tagVars
<1>1. kind[x] \in Recurring /\ Lives(x)
  BY DEF CancelThere, CallsKnow, CallKnows
<1>2. sold[x] \in Sale
  BY <1>1 DEF TypeOK
<1>3. CASE kind[x] = "stripe"
  <2> DEFINE new == [sold[x] EXCEPT !.closing = TRUE]
  <2>1. /\ new \in Sale /\ new.state = sold[x].state /\ new.closing /\ new.plan = sold[x].plan
    BY <1>2 DEF Sale
  <2>2. Tell(x, "updated", new)
    BY <1>3 DEF CancelThere
  <2> HIDE DEF new
  <2>3. PICK e : Turn(x, e) /\ e.type = "updated"
    BY <1>1, <1>3, <2>1, <2>2, TellTurns DEF Types, Lives, CancelThere
  <2>4. sold'[x].closing = new.closing /\ sold'[x].plan = new.plan
    BY <1>1, <2>1, <2>2, TellAdds
  <2>5. e.closing /\ e.plan = sold[x].plan
    BY <2>1, <2>3, <2>4 DEF Turn, Adds
  <2> QED
    BY <1>1, <1>3, <2>3, <2>5 DEF CancelThere
<1>4. CASE kind[x] # "stripe"
  <2> DEFINE new == [sold[x] EXCEPT !.state = "ended"]
  <2>1. /\ new \in Sale /\ new.state = "ended" /\ new.plan = sold[x].plan
    BY <1>2 DEF Sale, States
  <2>2. Tell(x, "ended", new)
    BY <1>4 DEF CancelThere
  <2> HIDE DEF new
  <2>3. PICK e : Turn(x, e) /\ e.type = "ended"
    BY <1>1, <1>4, <2>1, <2>2, TellTurns DEF Types, Lives, Recurring, CancelThere
  <2> QED
    BY <1>1, <1>4, <2>3 DEF CancelThere
<1> QED
  BY <1>3, <1>4

\* An upgrade that PayPal made at once.
LEMMA UpgradeTurns ==
  ASSUME Inductive, Numbered, NEW c \in Calls, NEW x \in Sources, x = call[c].src,
         UpgradeThere(c),
         ~(Return(c) /\ UNCHANGED <<sold, mail>>)
  PROVE  /\ kind[x] = "paypal" /\ UNCHANGED Beside
         /\ call' = [call EXCEPT ![c].do = "replan", ![c].n = sold[x].n + 1]
         /\ \E e : /\ Turn(x, e) /\ Lives(x)
                   /\ e.type = "updated" /\ e.plan = call[c].plan
<1> USE DEF Inductive, watchVars, Beside, tagVars
<1> DEFINE new == [sold[x] EXCEPT !.plan = call[c].plan]
<1>1. kind[x] = "paypal" /\ Lives(x) /\ call[c].plan \in Plans
  BY DEF UpgradeThere, CallsKnow, CallKnows
<1>2. new \in Sale /\ new.state = sold[x].state /\ new.plan = call[c].plan
  BY <1>1 DEF TypeOK, Sale
<1>3. Tell(x, "updated", new)
  BY DEF UpgradeThere
<1> HIDE DEF new
<1>4. PICK e : Turn(x, e) /\ e.type = "updated"
  BY <1>1, <1>2, <1>3, TellTurns DEF Types, Lives, Recurring, UpgradeThere
<1>5. sold'[x].plan = new.plan
  BY <1>1, <1>2, <1>3, TellAdds
<1>6. e.plan = call[c].plan
  BY <1>2, <1>4, <1>5 DEF Turn, Adds
<1> QED
  BY <1>1, <1>4, <1>6 DEF UpgradeThere

-----------------------------------------------------------------------------
(* Every step keeps Numbered. *)

\* Where nothing is told or written, nothing is lost.
LEMMA StillDelivered ==
  ASSUME \A x \in Sources : Delivered(x), UNCHANGED <<mail, done>>,
         \A x \in Sources : sold'[x].n = sold[x].n
  PROVE  \A x \in Sources : Delivered(x)'
<1> SUFFICES ASSUME NEW x \in Sources PROVE Delivered(x)'
  OBVIOUS
<1>1. MailOf(x)' = MailOf(x)
  BY DEF MailOf
<1> QED
  BY <1>1 DEF Delivered

\* Whatever the row names was bought.
RowNames ==
  /\ \/ row'.paid \in {row.paid, None}
     \/ kind[row'.paid] \in {"razorpay", "order"} /\ sold'[row'.paid].state # "none"
  /\ \A k \in Recurring :
       row'.sub[k] \in {row.sub[k], None} \/ sold'[row'.sub[k]].state # "none"

\* What was bought stays bought and its number only grows, so that what the other
\* calls and the row know of it stays true.
LEMMA NumbersGrow ==
  ASSUME Inductive, Numbered, Inductive', kind' = kind, refunded \subseteq refunded',
         \A x \in Sources : Delivered(x)',
         \A x \in Sources :
           /\ Standing(x)' /\ sold[x].n <= sold'[x].n
           /\ sold[x].state # "none" => sold'[x].state # "none",
         \A c \in Calls : call'[c] = call[c] \/ call'[c].do = "idle" \/ CallNumbered(c)',
         RowNames
  PROVE  Numbered'
<1>1. ASSUME NEW c \in Calls PROVE CallNumbered(c)'
  <2>1. CASE call'[c] = call[c] /\ call[c].do # "idle"
    <3>1. /\ CallNumbered(c) /\ call[c].src \in Sources
          /\ call[c].n <= sold[call[c].src].n
      BY <2>1 DEF Numbered, CallNumbered
    <3>2. call[c].n \in Nat /\ sold[call[c].src].n \in Nat /\ sold'[call[c].src].n \in Nat
      BY <3>1, VersionsAreNumbers DEF Inductive, TypeOK, Sale, ApiCall
    <3>3. sold[call[c].src].n <= sold'[call[c].src].n
      BY <3>1
    <3>4. call[c].n <= sold'[call[c].src].n
      BY <3>1, <3>2, <3>3
    <3> QED
      BY <2>1, <3>1, <3>4 DEF CallNumbered
  <2>2. CASE call'[c].do = "idle"
    BY <2>2 DEF CallNumbered
  <2> QED
    BY <2>1, <2>2
<1>2. row.paid \in SomeSource /\ \A k \in Recurring : row.sub[k] \in SomeSource
  BY DEF Inductive, TypeOK, Row
<1>3. (row.paid # None => kind[row.paid] \in {"razorpay", "order"} /\ sold[row.paid].state # "none")'
  BY <1>2 DEF Numbered, SomeSource, RowNames
<1>4. (\A k \in Recurring : row.sub[k] # None => sold[row.sub[k]].state # "none")'
  BY <1>2 DEF Numbered, SomeSource, RowNames
<1> QED
  BY <1>1, <1>3, <1>4 DEF Numbered

\* An event leads to a state that its rail reaches.
LEMMA TurnStands ==
  ASSUME Inductive, Numbered, NEW x \in Sources, NEW e, Turn(x, e), kind' = kind
  PROVE  \A y \in Sources :
           /\ Standing(y)' /\ sold[y].n <= sold'[y].n
           /\ sold[y].state # "none" => sold'[y].state # "none"
<1> SUFFICES ASSUME NEW y \in Sources
             PROVE  /\ Standing(y)' /\ sold[y].n <= sold'[y].n
                    /\ sold[y].state # "none" => sold'[y].state # "none"
  OBVIOUS
<1>1. sold[y].n \in Nat /\ kind[y] \in Kinds \union {None}
  BY Numbers DEF Inductive, TypeOK
<1>2. CASE y # x
  BY <1>1, <1>2 DEF Turn, Adds, Numbered, Standing
<1>3. CASE y = x
  <2>1. sold'[x].n = sold[x].n + 1 /\ sold[x].n <= sold'[x].n /\ sold'[x].n > 0
    BY <1>1, <1>3 DEF Turn, Adds
  <2>2. kind[x] \in Kinds
    BY <1>3 DEF Inductive, Bought, Turn
  <2>3. CASE kind[x] \in Recurring
    <3>1. sold'[x].state = "ended" => sold[x].n > 0
      BY <2>3 DEF Turn, Lives, Numbered, Standing
    <3>2. sold'[x].state = "ended" => sold'[x].n > 1
      BY <1>1, <1>3, <2>1, <3>1
    <3> QED
      BY <1>1, <1>3, <2>1, <2>3, <3>2 DEF Turn, Numbered, Standing, Recurring
  <2>4. CASE kind[x] = "order"
    BY <1>3, <2>1, <2>4 DEF Turn, Standing, Recurring
  <2> QED
    BY <2>2, <2>3, <2>4 DEF Turn, Kinds
<1> QED
  BY <1>2, <1>3

\* A step that tells of an event keeps Numbered, if its call does.
LEMMA TurnNumbered ==
  ASSUME Inductive, Inductive', Numbered, NEW x \in Sources, NEW e, Turn(x, e), UNCHANGED Beside,
         \A c \in Calls : call'[c] = call[c] \/ CallNumbered(c)'
  PROVE  Numbered'
<1> USE DEF Beside
<1>1. \A y \in Sources : Delivered(y)'
  BY TellDelivered DEF Inductive, Numbered, Turn
<1>2. \A y \in Sources :
        /\ Standing(y)' /\ sold[y].n <= sold'[y].n
        /\ sold[y].state # "none" => sold'[y].state # "none"
  BY TurnStands
<1>3. kind' = kind /\ refunded \subseteq refunded' /\ RowNames
  BY DEF RowNames
<1> QED
  BY <1>1, <1>2, <1>3, NumbersGrow

\* The providers keep Numbered.
LEMMA ProviderNumbered ==
  ASSUME Inductive, Inductive', Numbered, NEW x \in Sources, Provider(x)
  PROVE  Numbered'
<1>1. CASE Approve(x)
  <2> USE DEF Approve, tagVars, watchVars
  <2>1. \A y \in Sources : sold'[y].n = sold[y].n /\ sold[y].n \in Nat
    BY <1>1, Numbers DEF Inductive, TypeOK, Sale
  <2>2. \A y \in Sources : Delivered(y)'
    BY <1>1, <2>1, StillDelivered DEF Numbered
  <2>3. \A y \in Sources : /\ Standing(y)'
                           /\ sold[y].state # "none" => sold'[y].state # "none"
    BY <1>1, <2>1 DEF Numbered, Standing, Inductive, TypeOK, Sale, Recurring
  <2>4. \A y \in Sources : sold[y].n <= sold'[y].n
    BY <2>1
  <2>5. /\ kind' = kind /\ refunded \subseteq refunded' /\ RowNames
        /\ \A c \in Calls : call'[c] = call[c]
    BY <1>1 DEF RowNames
  <2> QED
    BY <2>2, <2>3, <2>4, <2>5, NumbersGrow
<1>2. CASE ~Approve(x)
  BY <1>2, ProviderTurns, TurnNumbered
<1> QED
  BY <1>1, <1>2

\* What the tenant buys keeps Numbered.
LEMMA BuyNumbered ==
  ASSUME Inductive, Inductive', Numbered, NEW x \in Sources,
         Expire(x) \/ Subscribe(x) \/ Order(x) \/ VerifyOrder(x)
  PROVE  Numbered'
<1> USE DEF tagVars, watchVars
<1>1. \A y \in Sources : sold[y] \in Sale /\ sold[y].n \in Nat
  BY Numbers DEF Inductive
<1>2. /\ UNCHANGED <<kind, mail, done, refunded>>
      /\ \A c \in Calls : call'[c] = call[c]
  BY DEF Expire, Subscribe, Order, VerifyOrder
<1>3. \A y \in Sources : /\ sold'[y].n = sold[y].n /\ Standing(y)'
                         /\ sold[y].state # "none" => sold'[y].state # "none"
  <2> USE <1>1 DEF Numbered, Standing, Inductive, TypeOK, Sale, Recurring
  <2>1. CASE Expire(x)
    BY <2>1 DEF Expire
  <2>2. CASE Subscribe(x)
    BY <2>2 DEF Subscribe
  <2>3. CASE Order(x)
    BY <2>3 DEF Order
  <2>4. CASE VerifyOrder(x)
    BY <2>4 DEF VerifyOrder
  <2> QED
    BY <2>1, <2>2, <2>3, <2>4
<1>4. \A y \in Sources : Delivered(y)'
  BY <1>2, <1>3, StillDelivered DEF Numbered
<1>5. \A y \in Sources : sold[y].n <= sold'[y].n
  BY <1>1, <1>3
<1>6. row \in Row
  BY DEF Inductive, TypeOK
<1>7. /\ \A k \in Recurring : row'.sub[k] = row.sub[k]
      /\ \/ row'.paid = row.paid
         \/ row'.paid = x /\ kind[x] = "order" /\ sold'[x].state # "none"
  <2>1. CASE Expire(x)
    BY <2>1 DEF Expire
  <2>2. CASE Subscribe(x)
    BY <1>6, <2>2 DEF Subscribe, Row
  <2>3. CASE Order(x)
    BY <1>6, <2>3 DEF Order, Row, Inductive, TypeOK, Sale
  <2>4. CASE VerifyOrder(x)
    <3>1. sold[x].state # "none"
      BY <1>1, <2>4 DEF VerifyOrder, Numbered, Standing
    <3> QED
      BY <1>6, <2>4, <3>1 DEF VerifyOrder, Row
  <2> QED
    BY <2>1, <2>2, <2>3, <2>4
<1>8. refunded \subseteq refunded' /\ RowNames
  BY <1>2, <1>7 DEF RowNames
<1> QED
  BY <1>2, <1>3, <1>4, <1>5, <1>8, NumbersGrow

\* A step that tells of no event keeps Numbered.
LEMMA NumbersKeep ==
  ASSUME Inductive, Numbered, Inductive', UNCHANGED <<kind, sold>>, refunded \subseteq refunded',
         \A x \in Sources : Delivered(x)',
         \A c \in Calls : call'[c] = call[c] \/ call'[c].do = "idle" \/ CallNumbered(c)',
         RowNames
  PROVE  Numbered'
<1>1. \A y \in Sources :
        /\ Standing(y)' /\ sold[y].n <= sold'[y].n
        /\ sold[y].state # "none" => sold'[y].state # "none"
  BY Numbers DEF Inductive, Numbered, Standing
<1> QED
  BY <1>1, NumbersGrow

\* What a webhook writes about the row's purchases.
LEMMA HandleNames ==
  ASSUME Inductive, Numbered, NEW e \in mail, Handle(e)
  PROVE  /\ row'.paid = row.paid \/ (row'.paid = e.src /\ kind[e.src] = "order")
         /\ \A k \in Recurring : row'.sub[k] \in {row.sub[k], None, e.src}
         /\ row.exists => row'.exists
         /\ sold[e.src].state # "none"
<1>1. /\ e \in Event /\ e.src \in Sources /\ e.type \in Told(kind[e.src])
      /\ kind[e.src] \in Kinds \union {None}
      /\ row \in Row /\ row.sub \in [Recurring -> SomeSource]
  BY Numbers DEF Inductive, TypeOK, Bought, Row
<1>2. sold[e.src].state # "none"
  <2>1. e \in MailOf(e.src)
    BY DEF MailOf
  <2>2. 0 < e.n /\ e.n <= sold[e.src].n /\ e.n \in Nat /\ sold[e.src].n \in Nat
    BY <1>1, <2>1, Numbers DEF Numbered, Delivered, Inductive
  <2>3. sold[e.src].n # 0
    BY <2>2
  <2> QED
    BY <1>1, <2>3 DEF Numbered, Standing
<1> DEFINE Fine(r) == /\ r.paid = row.paid \/ (r.paid = e.src /\ kind[e.src] = "order")
                      /\ \A k \in Recurring : r.sub[k] \in {row.sub[k], None, e.src}
                      /\ row.exists => r.exists
<1>3. CASE kind[e.src] = "stripe"
  <2>1. e.type \in {"activated", "updated", "ended", "paid", "failed", "refunded"}
    BY <1>1, <1>3 DEF Told, Types, Recurring
  <2>2. Fine(StripeRow(e))
    BY <1>1, <1>3, <2>1 DEF StripeRow, Recorded, Dropped, Row
  <2> QED
    BY <1>2, <1>3, <2>2 DEF Handle
<1>4. CASE kind[e.src] = "paypal"
  <2>1. e.type \in {"activated", "updated", "ended", "paid", "failed"}
    BY <1>1, <1>4 DEF Told, Types, Recurring
  <2>2. Fine(PayPalRow(e))
    BY <1>1, <1>4, <2>1 DEF PayPalRow, Recorded, Dropped, Row
  <2> QED
    BY <1>2, <1>4, <2>2 DEF Handle
<1>5. CASE kind[e.src] \notin {"stripe", "paypal"}
  <2>1. /\ e.type \in {"activated", "ended", "paid", "captured"}
        /\ e.type = "captured" => kind[e.src] = "order"
    BY <1>1, <1>5 DEF Told, Types, Recurring
  <2>2. Fine(RazorpayRow(e))
    BY <1>1, <1>5, <2>1 DEF RazorpayRow, Recorded, Dropped, Row
  <2> QED
    BY <1>2, <1>5, <2>2 DEF Handle
<1> QED
  BY <1>3, <1>4, <1>5

\* The webhooks keep Numbered.
LEMMA WebhookNumbered ==
  ASSUME Inductive, Inductive', Numbered, NEW e \in mail, Deliver(e) \/ DeliverAgain(e)
  PROVE  Numbered'
<1>1. /\ Handle(e) /\ mail' \subseteq mail /\ \A f \in mail \ mail' : f.src = e.src /\ f.n = e.n
      /\ UNCHANGED <<kind, sold, call, refunded>> /\ Note(e.src, e.n)
  BY DEF Deliver, DeliverAgain, Handle, tagVars
<1>2. e.src \in Sources /\ e.n \in Nat /\ e.n <= sold[e.src].n
  <2>1. e.src \in Sources /\ e.n \in Nat /\ e \in MailOf(e.src)
    BY Numbers DEF Inductive, MailOf
  <2> QED
    BY <2>1 DEF Numbered, Delivered
<1>3. \A y \in Sources : Delivered(y)'
  BY <1>1, <1>2, NoteDelivered DEF Inductive, Numbered
<1>4. RowNames
  <2>1. /\ row'.paid = row.paid \/ (row'.paid = e.src /\ kind[e.src] = "order")
        /\ \A k \in Recurring : row'.sub[k] \in {row.sub[k], None, e.src}
        /\ sold'[e.src].state # "none"
    BY <1>1, HandleNames
  <2> QED
    BY <2>1 DEF RowNames
<1> QED
  BY <1>1, <1>3, <1>4, NumbersKeep

\* A call that begins, or goes away.
LEMMA CallNumbers ==
  ASSUME Inductive, Inductive', Numbered, NEW c \in Calls,
         UNCHANGED <<kind, row, sold, mail, done, refunded>>,
         \A d \in Calls \ {c} : call'[d] = call[d],
         CallNumbered(c)'
  PROVE  Numbered'
<1>1. \A y \in Sources : Delivered(y)'
  BY StillDelivered DEF Numbered
<1>2. RowNames
  BY DEF RowNames
<1> QED
  BY <1>1, <1>2, NumbersKeep

\* The calls that begin keep Numbered.
LEMMA OpenNumbered ==
  ASSUME Inductive, Inductive', Numbered, NEW c \in Calls,
         \/ \E x \in Sources : Activate(c, x) \/ Verify(c, x)
         \/ \E k \in Recurring : Cancel(c, k)
         \/ \E p \in Plans : Upgrade(c, p)
         \/ CancelPaid(c) \/ Poll(c) \/ Confirm(c)
  PROVE  Numbered'
<1> USE DEF tagVars, watchVars
<1>1. TypeOK /\ \A x \in Sources : sold[x].n \in Nat /\ 0 <= sold[x].n
  BY Numbers DEF Inductive
<1>2. row.sub \in [Recurring -> SomeSource] /\ row.paid \in SomeSource
      /\ row.meta.pending \in SomeSource
  BY DEF Inductive, TypeOK, Row, Meta
<1>3. ASSUME NEW x \in Sources, Activate(c, x) PROVE Numbered'
  <2>8. /\ call'[c].do = "record" /\ call'[c].src = x /\ call'[c].n = sold[x].n
        /\ \A d \in Calls \ {c} : call'[d] = call[d]
    BY <1>1, <1>3 DEF Activate, Begin, Idle, TypeOK
  <2>9. /\ UNCHANGED <<kind, sold>> /\ sold[x].n <= sold[x].n
        /\ sold[x].state # "none" /\ kind[x] = "paypal"
    <3>1. sold[x].n <= sold[x].n
      BY <1>1
    <3>2. kind[x] = "paypal" /\ Approved(x) /\ UNCHANGED <<kind, sold>>
      BY <1>3 DEF Activate
    <3> QED
      BY <3>1, <3>2 DEF Approved
  <2>1. CallNumbered(c)'
    BY <2>8, <2>9 DEF CallNumbered
  <2> QED
    BY <1>3, <2>1, <2>8, CallNumbers DEF Activate
<1>4. ASSUME NEW x \in Sources, Verify(c, x) PROVE Numbered'
  <2>1. 1 <= sold[x].n /\ sold[x].state # "none"
    <3>1. sold[x].n > 0
      BY <1>4 DEF Verify
    <3>2. sold[x].n # 0 /\ 1 <= sold[x].n
      BY <1>1, <3>1
    <3> QED
      BY <3>2 DEF Numbered, Standing
  <2>8. /\ call'[c].do = "record" /\ call'[c].src = x /\ call'[c].n = 1
        /\ \A d \in Calls \ {c} : call'[d] = call[d]
    BY <1>1, <1>4 DEF Verify, Begin, Idle, TypeOK
  <2>2. CallNumbered(c)'
    BY <1>1, <1>2, <1>4, <2>1, <2>8 DEF Verify, CallNumbered
  <2> QED
    BY <1>4, <2>2, <2>8, CallNumbers DEF Verify
<1>5. ASSUME NEW k \in Recurring, Cancel(c, k) PROVE Numbered'
  <2>1. row.sub[k] \in Sources /\ sold[row.sub[k]].state # "none"
    BY <1>2, <1>5 DEF Cancel, SomeSource, Numbered
  <2>8. /\ call'[c].do = "cancel" /\ call'[c].src = row.sub[k] /\ call'[c].n = 0
        /\ \A d \in Calls \ {c} : call'[d] = call[d]
    BY <1>1, <1>5 DEF Cancel, Begin, Idle, TypeOK
  <2>2. CallNumbered(c)'
    BY <1>1, <1>2, <1>5, <2>1, <2>8 DEF Cancel, CallNumbered
  <2> QED
    BY <1>5, <2>2, <2>8, CallNumbers DEF Cancel
<1>6. ASSUME NEW p \in Plans, Upgrade(c, p) PROVE Numbered'
  <2>1. row.sub["paypal"] \in Sources /\ sold[row.sub["paypal"]].state # "none"
    BY <1>2, <1>6 DEF Upgrade, SomeSource, Numbered, Recurring
  <2>8. /\ call'[c].do = "revise" /\ call'[c].src = row.sub["paypal"] /\ call'[c].n = 0
        /\ \A d \in Calls \ {c} : call'[d] = call[d]
    BY <1>1, <1>6 DEF Upgrade, Begin, Idle, TypeOK
  <2>2. CallNumbered(c)'
    BY <1>1, <1>2, <1>6, <2>1, <2>8 DEF Upgrade, CallNumbered
  <2> QED
    BY <1>6, <2>2, <2>8, CallNumbers DEF Upgrade
<1>7. CASE CancelPaid(c)
  <2>1. /\ row.paid \in Sources /\ kind[row.paid] \in {"razorpay", "order"}
        /\ sold[row.paid].state # "none"
    BY <1>2, <1>7 DEF CancelPaid, SomeSource, Numbered
  <2>8. /\ call'[c].do = "drop" /\ call'[c].src = row.paid /\ call'[c].n = 0
        /\ \A d \in Calls \ {c} : call'[d] = call[d]
    BY <1>1, <1>7 DEF CancelPaid, Begin, Idle, TypeOK
  <2>2. CallNumbered(c)'
    BY <1>1, <1>2, <1>7, <2>1, <2>8 DEF CancelPaid, CallNumbered
  <2> QED
    BY <1>7, <2>2, <2>8, CallNumbers DEF CancelPaid
<1>8. CASE Poll(c)
  <2>8. /\ call'[c].do = "clean" /\ call'[c].src = row.meta.pending /\ call'[c].n = 0
        /\ \A d \in Calls \ {c} : call'[d] = call[d]
    BY <1>1, <1>8 DEF Poll, Begin, Idle, TypeOK
  <2>1. CallNumbered(c)'
    BY <1>1, <1>2, <1>8, <2>8 DEF Poll, CallNumbered, SomeSource
  <2> QED
    BY <1>8, <2>1, <2>8, CallNumbers DEF Poll
<1>9. CASE Confirm(c)
  <2>1. row.meta.pending \in Sources /\ sold[row.meta.pending].state # "none"
    BY <1>2, <1>9 DEF Confirm, SomeSource, Inductive, Bought
  <2>8. /\ call'[c].do = "confirm" /\ call'[c].src = row.meta.pending /\ call'[c].n = 0
        /\ \A d \in Calls \ {c} : call'[d] = call[d]
    BY <1>1, <1>9 DEF Confirm, Begin, Idle, TypeOK
  <2>2. CallNumbered(c)'
    BY <1>1, <1>2, <1>9, <2>1, <2>8 DEF Confirm, CallNumbered
  <2> QED
    BY <1>9, <2>2, <2>8, CallNumbers DEF Confirm
<1> QED
  BY <1>3, <1>4, <1>5, <1>6, <1>7, <1>8, <1>9

\* A call that ends and writes nothing keeps Numbered.
LEMMA ReturnNumbered ==
  ASSUME Inductive, Inductive', Numbered, NEW c \in Calls, Return(c),
         UNCHANGED <<kind, row, sold, mail, done, refunded>>
  PROVE  Numbered'
<1>1. call'[c].do = "idle" /\ \A d \in Calls \ {c} : call'[d] = call[d]
  BY DEF Return, Idle, Inductive, TypeOK
<1> QED
  BY <1>1, CallNumbers DEF CallNumbered

\* A call that writes the row: what it writes is no newer than what happened.
LEMMA WriteNumbered ==
  ASSUME Inductive, Inductive', Numbered, NEW c \in Calls,
         Record(c) \/ Drop(c) \/ Close(c) \/ Replan(c) \/ MarkRefunded(c)
  PROVE  Numbered'
<1> USE DEF tagVars, watchVars
<1> DEFINE x == call[c].src
           n == call[c].n
<1>1. /\ UNCHANGED <<kind, sold, mail, refunded>> /\ call[c].do # "idle"
      /\ \A d \in Calls : call'[d] = call[d] \/ call'[d].do = "idle"
  <2>1. Return(c) /\ UNCHANGED <<kind, sold, mail, refunded>> /\ call[c].do # "idle"
    BY DEF Record, Drop, Close, Replan, MarkRefunded
  <2> QED
    BY <2>1 DEF Return, Idle, Inductive, TypeOK
<1>2. x \in Sources /\ n \in Nat /\ n <= sold[x].n /\ CallNumbered(c)
  BY <1>1, Numbers DEF Inductive, Numbered, CallNumbered
<1>3. Note(x, n) \/ UNCHANGED done
  BY DEF Record, Drop, Close, Replan, MarkRefunded
<1>4. \A y \in Sources : Delivered(y)'
  <2>1. CASE Note(x, n)
    BY <1>1, <1>2, <2>1, NoteDelivered DEF Inductive, Numbered
  <2>2. CASE UNCHANGED done
    BY <1>1, <2>2, StillDelivered DEF Numbered
  <2> QED
    BY <1>3, <2>1, <2>2
<1>5. RowNames
  <2>1. row \in Row /\ row.sub \in [Recurring -> SomeSource] /\ kind[x] \in Kinds \union {None}
    BY <1>2 DEF Inductive, TypeOK, Row
  <2>2. CASE Record(c)
    <3>1. /\ \A k \in Recurring : row'.sub[k] \in {row.sub[k], x}
          /\ row'.paid = row.paid \/ (row'.paid = x /\ kind[x] = "razorpay")
      BY <1>2, <2>1, <2>2 DEF Record, Recorded, Row
    <3>2. sold'[x].state # "none"
      BY <1>1, <1>2, <2>2 DEF CallNumbered, Record
    <3> QED
      BY <3>1, <3>2 DEF RowNames
  <2>3. CASE Drop(c)
    <3>1. /\ \A k \in Recurring : row'.sub[k] \in {row.sub[k], None}
          /\ row'.paid \in {row.paid, None}
      <4>1. \A k \in Recurring :
              /\ Dropped(k).paid = row.paid /\ [Dropped(k) EXCEPT !.paid = None].paid = None
              /\ Dropped(k).sub = [row.sub EXCEPT ![k] = None]
              /\ [Dropped(k) EXCEPT !.paid = None].sub = [row.sub EXCEPT ![k] = None]
        BY <2>1 DEF Dropped, Row
      <4>2. PICK k \in Recurring : row' \in {Dropped(k), [Dropped(k) EXCEPT !.paid = None]}
        BY <2>3 DEF Drop, Recurring
      <4>3. row'.sub = [row.sub EXCEPT ![k] = None] /\ row'.paid \in {row.paid, None}
        BY <4>1, <4>2
      <4> QED
        BY <2>1, <4>3
    <3> QED
      BY <3>1 DEF RowNames
  <2>4. CASE Close(c) \/ Replan(c) \/ MarkRefunded(c)
    <3>1. row'.sub = row.sub /\ row'.paid = row.paid
      BY <2>1, <2>4 DEF Close, Replan, MarkRefunded, Row
    <3> QED
      BY <3>1 DEF RowNames
  <2> QED
    BY <2>2, <2>3, <2>4
<1> QED
  BY <1>1, <1>4, <1>5, NumbersKeep

\* The calls that tell the provider something keep Numbered.
LEMMA TellingNumbered ==
  ASSUME Inductive, Inductive', Numbered, NEW c \in Calls,
         CancelThere(c) \/ UpgradeThere(c) \/ \E x \in Sources : Refund(c, x)
  PROVE  Numbered'
<1>1. TypeOK
  BY DEF Inductive
<1>2. CASE CancelThere(c)
  <2>0. PICK x \in Sources : x = call[c].src
    BY <1>2, CallKnowsSource DEF CancelThere, UpgradeThere
  <2>1. PICK e : /\ Turn(x, e) /\ kind[x] \in Recurring /\ UNCHANGED Beside
                 /\ call' = [call EXCEPT ![c].do = IF kind[x] = "stripe" THEN "close" ELSE "drop",
                                         ![c].n = sold[x].n + 1]
    BY <1>2, <2>0, CancelTurns
  <2>2. /\ \A d \in Calls \ {c} : call'[d] = call[d]
        /\ call'[c].do = IF kind[x] = "stripe" THEN "close" ELSE "drop"
        /\ call'[c].src = x /\ call'[c].n = sold'[x].n
    BY <1>1, <2>0, <2>1 DEF TypeOK, ApiCall, Turn, Adds
  <2>3. CallNumbered(c)'
    <3>1. sold'[x].n <= sold'[x].n /\ sold'[x].n > 0
      BY <1>1, <2>1, Numbers DEF Turn, Adds
    <3>2. sold'[x].state # "none"
      BY <2>1 DEF Turn
    <3> QED
      BY <2>1, <2>2, <3>1, <3>2 DEF CallNumbered, Beside, Recurring
  <2> QED
    BY <2>1, <2>2, <2>3, TurnNumbered
<1>3. CASE Return(c) /\ UpgradeThere(c) /\ UNCHANGED <<sold, mail>>
  BY <1>3, ReturnNumbered DEF UpgradeThere, watchVars, tagVars
<1>4. CASE UpgradeThere(c) /\ ~(Return(c) /\ UNCHANGED <<sold, mail>>)
  <2>0. PICK x \in Sources : x = call[c].src
    BY <1>4, CallKnowsSource DEF CancelThere, UpgradeThere
  <2>1. PICK e : /\ Turn(x, e) /\ kind[x] = "paypal" /\ UNCHANGED Beside
                 /\ call' = [call EXCEPT ![c].do = "replan", ![c].n = sold[x].n + 1]
    BY <1>4, <2>0, UpgradeTurns
  <2>2. /\ \A d \in Calls \ {c} : call'[d] = call[d]
        /\ call'[c].do = "replan"
        /\ call'[c].src = x /\ call'[c].n = sold'[x].n
    BY <1>1, <2>0, <2>1 DEF TypeOK, ApiCall, Turn, Adds
  <2>3. CallNumbered(c)'
    <3>1. sold'[x].n <= sold'[x].n /\ sold'[x].n > 0
      BY <1>1, <2>1, Numbers DEF Turn, Adds
    <3>2. sold'[x].state # "none"
      BY <2>1 DEF Turn, Recurring
    <3> QED
      BY <2>1, <2>2, <3>1, <3>2 DEF CallNumbered, Beside
  <2> QED
    BY <2>1, <2>2, <2>3, TurnNumbered
<1>5. ASSUME NEW y \in Sources, Refund(c, y) PROVE Numbered'
  <2>1. /\ kind[y] = "stripe" /\ sold[y].n > 0 /\ refunded' = refunded \union {y}
        /\ UNCHANGED <<kind, row, done>> /\ Tell(y, "refunded", sold[y]) /\ sold[y] \in Sale
    BY <1>1, <1>5 DEF Refund, tagVars, TypeOK
  <2>2. PICK e : Adds(y, e) /\ sold'[y].state = sold[y].state
    BY <1>1, <2>1, TellAdds
  <2>3. sold[y].n \in Nat /\ sold'[y].n = sold[y].n + 1 /\ \A z \in Sources \ {y} : sold'[z] = sold[z]
    BY <1>1, <2>2, Numbers DEF Adds
  <2>4. \A z \in Sources : Delivered(z)'
    BY <1>1, <2>1, <2>2, TellDelivered DEF Numbered
  <2>5. sold[y].state # "none" /\ sold[y].n # 0 /\ sold'[y].n > 1 /\ sold[y].n <= sold'[y].n
    <3>1. sold[y].n # 0 /\ sold'[y].n > 1 /\ sold[y].n <= sold'[y].n
      BY <2>1, <2>3
    <3> QED
      BY <3>1 DEF Numbered, Standing
  <2>6. \A z \in Sources :
           /\ Standing(z)' /\ sold[z].n <= sold'[z].n
           /\ sold[z].state # "none" => sold'[z].state # "none"
    <3> SUFFICES ASSUME NEW z \in Sources
                 PROVE  /\ Standing(z)' /\ sold[z].n <= sold'[z].n
                        /\ sold[z].state # "none" => sold'[z].state # "none"
      OBVIOUS
    <3>1. CASE z = y
      BY <2>1, <2>2, <2>3, <2>5, <3>1 DEF Numbered, Standing, Recurring
    <3>2. CASE z # y
      BY <1>1, <2>1, <2>3, <3>2, Numbers DEF Numbered, Standing
    <3> QED
      BY <3>1, <3>2
  <2>7. \A d \in Calls : call'[d] = call[d] \/ CallNumbered(d)'
    <3>1. \/ UNCHANGED call
          \/ /\ call'[c].do = "refund" /\ call'[c].src = y /\ call'[c].n = sold'[y].n
             /\ \A d \in Calls \ {c} : call'[d] = call[d]
      <4>1. CASE UNCHANGED call
        BY <4>1
      <4>2. CASE ~UNCHANGED call
        <5>1. call'[c] = [Idle EXCEPT !.do = "refund", !.src = y, !.n = sold[y].n + 1]
              /\ \A d \in Calls \ {c} : call'[d] = call[d]
          BY <1>1, <1>5, <4>2 DEF Refund, Begin, TypeOK
        <5> QED
          BY <2>3, <5>1 DEF Idle
      <4> QED
        BY <4>1, <4>2
    <3>2. sold'[y].n <= sold'[y].n /\ sold'[y].state # "none" /\ y \in refunded'
      BY <2>1, <2>2, <2>3, <2>5
    <3> QED
      BY <3>1, <3>2 DEF CallNumbered
  <2>8. RowNames /\ refunded \subseteq refunded'
    BY <2>1 DEF RowNames
  <2> QED
    BY <2>1, <2>4, <2>6, <2>7, <2>8, NumbersGrow
<1> QED
  BY <1>2, <1>3, <1>4, <1>5

\* The calls about an intent keep Numbered.
LEMMA CryptoNumbered ==
  ASSUME Inductive, Inductive', Numbered, NEW c \in Calls,
         (\E x \in Sources : Intent(c, x)) \/ WriteIntent(c) \/ Clean(c) \/ WriteConfirmed(c)
  PROVE  Numbered'
<1> USE DEF tagVars
<1> DEFINE x == call[c].src
<1>1. TypeOK /\ row \in Row /\ \A y \in Sources : sold[y] \in Sale /\ sold[y].n \in Nat
  BY Numbers DEF Inductive, TypeOK
<1>2. /\ UNCHANGED <<kind, mail, done, refunded>> /\ row'.sub = row.sub /\ row'.paid = row.paid
  BY <1>1 DEF Intent, WriteIntent, Clean, WriteConfirmed, Row
<1>3. RowNames /\ refunded \subseteq refunded'
  BY <1>2 DEF RowNames
<1>4. ASSUME NEW y \in Sources, Intent(c, y) PROVE Numbered'
  <2>1. /\ call'[c].do = "intent" /\ call'[c].src = y /\ call'[c].n = 0
        /\ \A d \in Calls \ {c} : call'[d] = call[d]
    BY <1>1, <1>4 DEF Intent, Begin, Idle, TypeOK
  <2>2. UNCHANGED sold /\ 0 <= sold[y].n
    <3>1. 0 <= sold[y].n
      BY <1>1
    <3> QED
      BY <1>4, <3>1 DEF Intent
  <2>3. \A d \in Calls : call'[d] = call[d] \/ CallNumbered(d)'
    BY <2>1, <2>2 DEF CallNumbered
  <2>4. \A y_1 \in Sources : Delivered(y_1)'
    BY <1>2, <2>2, StillDelivered DEF Numbered
  <2> QED
    BY <1>2, <1>3, <2>2, <2>3, <2>4, NumbersKeep
<1>5. CASE Clean(c)
  <2>1. UNCHANGED sold /\ Return(c)
    BY <1>5 DEF Clean
  <2>2. \A d \in Calls : call'[d] = call[d] \/ call'[d].do = "idle"
    BY <1>1, <2>1 DEF Return, Idle, TypeOK
  <2>4. \A y \in Sources : Delivered(y)'
    BY <1>2, <2>1, StillDelivered DEF Numbered
  <2> QED
    BY <1>2, <1>3, <2>1, <2>2, <2>4, NumbersKeep
<1>6. CASE WriteIntent(c) \/ WriteConfirmed(c)
  <2>1. /\ x \in Sources /\ kind[x] = "crypto" /\ Return(c)
        /\ sold' = [sold EXCEPT ![x].state = "open"] \/ sold' = [sold EXCEPT ![x].state = "active"]
    BY <1>6 DEF WriteIntent, WriteConfirmed, Inductive, CallsKnow, CallKnows
  <2>2. /\ \A y \in Sources \ {x} : sold'[y] = sold[y]
        /\ sold'[x].n = sold[x].n /\ sold'[x].plan = sold[x].plan
        /\ sold'[x].state \in {"open", "active"}
    BY <1>1, <2>1 DEF TypeOK, Sale
  <2>3. \A d \in Calls : call'[d] = call[d] \/ call'[d].do = "idle"
    BY <1>1, <2>1 DEF Return, Idle, TypeOK
  <2>4. \A y \in Sources : Delivered(y)'
    BY <1>2, <2>2, StillDelivered DEF Numbered
  <2>5. \A y \in Sources :
          /\ Standing(y)' /\ sold[y].n <= sold'[y].n
          /\ sold[y].state # "none" => sold'[y].state # "none"
    BY <1>1, <1>2, <2>1, <2>2 DEF Numbered, Standing, Recurring
  <2> QED
    BY <1>2, <1>3, <2>3, <2>4, <2>5, NumbersGrow
<1> QED
  BY <1>4, <1>5, <1>6

\* Nothing happened yet.
LEMMA NumberedInit == Init => Numbered
<1> SUFFICES ASSUME Init PROVE Numbered
  OBVIOUS
<1>1. \A x \in Sources : /\ sold[x].state = "none" /\ sold[x].plan = PlanOf[x]
                         /\ sold[x].n = 0 /\ done[x] = 0 /\ MailOf(x) = {}
  BY DEF Init, MailOf
<1>2. \A x \in Sources : Delivered(x) /\ Standing(x)
  <2>1. \A x \in Sources : Standing(x)
    BY <1>1 DEF Standing
  <2>2. \A x \in Sources : done[x] <= sold[x].n /\ 1 .. sold[x].n = {}
    <3>1. 0 <= 0 /\ 1 .. 0 = {}
      OBVIOUS
    <3> QED
      BY <1>1, <3>1
  <2> QED
    BY <1>1, <2>1, <2>2 DEF Delivered
<1>3. \A c \in Calls : CallNumbered(c)
  BY DEF Init, CallNumbered, Idle
<1> QED
  BY <1>2, <1>3 DEF Init, Numbered

\* Every step keeps Numbered.
LEMMA NumberedStep == Inductive /\ Numbered /\ [Next]_vars => Numbered'
<1> SUFFICES ASSUME Inductive, Numbered, [Next]_vars PROVE Numbered'
  OBVIOUS
<1>1. Inductive'
  BY InductiveStep
<1>2. CASE UNCHANGED vars
  BY <1>2 DEF vars, tagVars, watchVars, Numbered, Delivered, Standing, CallNumbered, MailOf
<1>3. CASE Visit
  <2>1. row \in Row
    BY DEF Inductive, TypeOK
  <2>2. UNCHANGED <<kind, sold, mail, call, done, refunded>> /\ RowNames
    BY <1>3, <2>1 DEF Visit, tagVars, watchVars, Row, RowNames
  <2>3. \A y \in Sources : Delivered(y)'
    BY <2>2, StillDelivered DEF Numbered
  <2> QED
    BY <1>1, <2>2, <2>3, NumbersKeep
<1>4. ASSUME NEW x \in Sources, Provider(x) PROVE Numbered'
  BY <1>1, <1>4, ProviderNumbered
<1>5. ASSUME NEW x \in Sources, Expire(x) \/ Subscribe(x) \/ Order(x) \/ VerifyOrder(x)
      PROVE  Numbered'
  BY <1>1, <1>5, BuyNumbered
<1>6. ASSUME NEW e \in mail, Deliver(e) \/ DeliverAgain(e) PROVE Numbered'
  BY <1>1, <1>6, WebhookNumbered
<1>7. ASSUME NEW c \in Calls, Open(c) \/ Step(c) \/ Crash(c) PROVE Numbered'
  <2>1. CASE Open(c)
    BY <1>1, <2>1, OpenNumbered, TellingNumbered, CryptoNumbered DEF Open
  <2>2. CASE Step(c)
    <3>1. CASE Refused(c)
      BY <1>1, <3>1, ReturnNumbered DEF Refused, tagVars, watchVars
    <3> QED
      BY <1>1, <2>2, <3>1, WriteNumbered, TellingNumbered, CryptoNumbered DEF Step
  <2>3. CASE Crash(c)
    BY <1>1, <2>3, ReturnNumbered DEF Crash, tagVars, watchVars
  <2> QED
    BY <1>7, <2>1, <2>2, <2>3
<1> QED
  BY <1>2, <1>3, <1>4, <1>5, <1>6, <1>7 DEF Next

-----------------------------------------------------------------------------
(* Every step keeps Chains. *)

\* A subscription to which nothing happens stays chained.
LEMMA ChainedKept ==
  ASSUME NEW x \in Sources, Chained(x), kind' = kind, MailOf(x)' \subseteq MailOf(x),
         sold'[x] = sold[x] \/ MailOf(x)' = {}
  PROVE  Chained(x)'
<1>1. CASE MailOf(x)' = {}
  BY <1>1 DEF Chained
<1>2. CASE sold'[x] = sold[x]
  BY <1>2 DEF Chained, Follows
<1> QED
  BY <1>1, <1>2

\* A step that tells nothing new of a subscription keeps Chains.
LEMMA ChainsKept ==
  ASSUME Chains, kind' = kind, refunded \subseteq refunded', mail' \subseteq mail,
         \A x \in Sources : kind[x] \in Recurring => sold'[x] = sold[x] \/ MailOf(x)' = {}
  PROVE  Chains'
<1> SUFFICES ASSUME NEW x \in Sources, kind[x] \in Recurring, x \notin refunded'
             PROVE  Chained(x)'
  BY DEF Chains
<1>1. MailOf(x)' \subseteq MailOf(x) /\ Chained(x)
  BY DEF MailOf, Chains
<1> QED
  BY <1>1, ChainedKept

\* Nothing happened to a subscription yet: there is no webhook about it.
LEMMA NoMailYet ==
  ASSUME Inductive, Numbered, NEW x \in Sources, sold[x].n = 0
  PROVE  MailOf(x) = {}
<1>1. \A e \in MailOf(x) : e.n \in Nat /\ 0 < e.n /\ e.n <= 0
  BY Numbers DEF Inductive, Numbered, Delivered, MailOf
<1> QED
  BY <1>1

\* A new event continues the chain.
LEMMA TurnChains ==
  ASSUME Inductive, Numbered, Chains, NEW x \in Sources, NEW e, Turn(x, e),
         kind' = kind, refunded' = refunded
  PROVE  Chains'
<1> SUFFICES ASSUME NEW y \in Sources, kind[y] \in Recurring, y \notin refunded
             PROVE  Chained(y)'
  BY DEF Chains
<1>1. Chained(y)
  BY DEF Chains
<1>2. CASE y # x
  BY <1>1, <1>2, ChainedKept DEF Turn, Adds
<1>3. CASE y = x
  <2> DEFINE N == sold[x].n
  <2>1. /\ N \in Nat /\ e.n = N + 1 /\ sold'[x].n = e.n /\ MailOf(x)' = MailOf(x) \union {e}
        /\ \A f \in MailOf(x) : f.n \in Nat /\ 0 < f.n /\ f.n <= N /\ f.type # "ended"
    BY <1>1, <1>3, Numbers DEF Inductive, Numbered, Delivered, MailOf, Turn, Adds, Chained
  <2>2. \A f \in MailOf(x) : f.n # e.n /\ f.n # sold'[x].n /\ f.n # e.n + 1
    BY <2>1
  <2>3. \A f \in MailOf(x) : f.n + 1 = e.n => f.n = N /\ N # 0
    BY <2>1
  <2>4. e.n + 1 # e.n /\ (e.n = 1 <=> N = 0)
    BY <2>1
  <2>5. N # 0 => Lives(x)
    BY <1>3, Numbers DEF Inductive, Turn, Numbered, Standing, Lives, Sale, States
  <2>6. kind[x] = "razorpay" => e.plan = PlanOf[x]
    BY <1>3 DEF Turn, Adds, Numbered, Standing, Recurring
  <2>7. /\ e.type \in Types \ {"refunded"} /\ (e.type = "activated" <=> e.n = 1)
        /\ e.type = "ended" => sold'[x].state = "ended"
        /\ sold'[x].state = "ended" => e.type = "ended"
        /\ e.type \in {"activated", "paid"} => e.status = "ACTIVE"
        /\ e.type = "failed" => e.status = "PAST_DUE"
        /\ e.plan = sold'[x].plan /\ e.closing = sold'[x].closing
        /\ e.status = StatusOf(sold'[x].state)
    BY <1>3, <2>4 DEF Turn, Adds, StatusOf
  <2>8. \A f \in MailOf(x) : f.n + 1 = e.n => Follows(e, f.plan, f.status, f.closing)
    <3> SUFFICES ASSUME NEW f \in MailOf(x), f.n + 1 = e.n
                 PROVE  Follows(e, f.plan, f.status, f.closing)
      OBVIOUS
    <3>1. f.n = N /\ Lives(x)
      BY <2>3, <2>5
    <3>2. f.plan = sold[x].plan /\ f.closing = sold[x].closing /\ f.status = StatusOf(sold[x].state)
      BY <1>1, <1>3, <3>1 DEF Chained
    <3> QED
      BY <1>3, <3>1, <3>2 DEF Turn
  <2>9. \A f, g \in MailOf(x)' : g.n + 1 = f.n => Follows(f, g.plan, g.status, g.closing)'
    <3> SUFFICES ASSUME NEW f \in MailOf(x)', NEW g \in MailOf(x)', g.n + 1 = f.n
                 PROVE  Follows(f, g.plan, g.status, g.closing)
      BY DEF Follows
    <3>1. g \in MailOf(x)
      BY <2>1, <2>2, <2>4
    <3>2. CASE f = e
      BY <2>8, <3>1, <3>2
    <3>3. CASE f # e
      BY <1>1, <1>3, <2>1, <3>1, <3>3 DEF Chained
    <3> QED
      BY <3>2, <3>3
  <2>10. ASSUME NEW f \in MailOf(x)'
         PROVE  /\ f.type \in Types \ {"refunded"} /\ (f.type = "activated" <=> f.n = 1)
                /\ kind[x] = "razorpay" => f.plan = PlanOf[x]
                /\ f.type = "ended" => f.n = sold'[x].n /\ sold'[x].state = "ended"
                /\ f.type \in {"activated", "paid"} => f.status = "ACTIVE"
                /\ f.type = "failed" => f.status = "PAST_DUE"
                /\ f.n = sold'[x].n =>
                     /\ f.plan = sold'[x].plan /\ f.closing = sold'[x].closing
                     /\ f.status = StatusOf(sold'[x].state)
                     /\ sold'[x].state = "ended" => f.type = "ended"
    <3>1. CASE f = e
      BY <2>1, <2>6, <2>7, <3>1
    <3>2. CASE f # e
      <4>1. f \in MailOf(x)
        BY <2>1, <3>2
      <4> QED
        BY <1>1, <1>3, <2>1, <2>2, <4>1 DEF Chained
    <3> QED
      BY <3>1, <3>2
  <2> HIDE DEF N
  <2> QED
    BY <1>3, <2>9, <2>10 DEF Chained, StatusOf
<1> QED
  BY <1>2, <1>3

\* Every step keeps Chains.
LEMMA ChainsStep == Inductive /\ Numbered /\ Chains /\ [Next]_vars => Chains'
<1> SUFFICES ASSUME Inductive, Numbered, Chains, [Next]_vars PROVE Chains'
  OBVIOUS
<1> USE DEF tagVars, watchVars
<1>0. TypeOK
  BY DEF Inductive
<1>1. CASE UNCHANGED <<kind, sold, refunded>> /\ mail' \subseteq mail
  BY <1>1, ChainsKept
<1>2. CASE Visit
  BY <1>1, <1>2 DEF Visit
<1>3. ASSUME NEW x \in Sources, Provider(x) PROVE Chains'
  <2>1. CASE Approve(x)
    <3>1. sold[x].n = 0 /\ UNCHANGED <<kind, mail, refunded>>
      BY <1>3, <2>1 DEF Approve, Numbered, Standing, Recurring
    <3>2. MailOf(x)' = {} /\ \A y \in Sources \ {x} : sold'[y] = sold[y]
      BY <1>0, <2>1, <3>1, NoMailYet DEF MailOf, Approve, TypeOK
    <3> QED
      BY <3>1, <3>2, ChainsKept
  <2>2. CASE ~Approve(x)
    BY <1>3, <2>2, ProviderTurns, TurnChains DEF Beside
  <2> QED
    BY <2>1, <2>2
<1>4. ASSUME NEW x \in Sources, Expire(x) \/ Subscribe(x) \/ Order(x) \/ VerifyOrder(x)
      PROVE  Chains'
  <2>1. /\ UNCHANGED <<kind, mail, refunded>> /\ \A y \in Sources \ {x} : sold'[y] = sold[y]
        /\ kind[x] \in Recurring /\ sold'[x] # sold[x] => sold[x].state = "none"
    BY <1>0, <1>4 DEF Expire, Subscribe, Order, VerifyOrder, Recurring, TypeOK
  <2>2. sold[x].state = "none" => MailOf(x) = {}
    BY NoMailYet DEF Numbered, Standing
  <2>3. MailOf(x)' = MailOf(x)
    BY <2>1 DEF MailOf
  <2> QED
    BY <2>1, <2>2, <2>3, ChainsKept
<1>5. ASSUME NEW e \in mail, Deliver(e) \/ DeliverAgain(e) PROVE Chains'
  BY <1>1, <1>5 DEF Deliver, DeliverAgain, Handle
<1>6. ASSUME NEW c \in Calls, Open(c) \/ Step(c) \/ Crash(c) PROVE Chains'
  <2>1. CASE \E x \in Sources : Refund(c, x)
    <3>1. PICK x \in Sources : Refund(c, x)
      BY <2>1
    <3>2. /\ sold[x] \in Sale /\ Tell(x, "refunded", sold[x]) /\ kind' = kind
          /\ refunded' = refunded \union {x}
      BY <1>0, <3>1 DEF Refund, TypeOK
    <3>3. PICK e : Adds(x, e)
      BY <1>0, <3>2, TellAdds
    <3> SUFFICES ASSUME NEW y \in Sources, kind[y] \in Recurring, y \notin refunded'
                 PROVE  Chained(y)'
      BY <3>2 DEF Chains
    <3>4. Chained(y) /\ y # x
      BY <3>2 DEF Chains
    <3> QED
      BY <3>2, <3>3, <3>4, ChainedKept DEF Adds
  <2>2. CASE CancelThere(c)
    <3>1. PICK x \in Sources : x = call[c].src
      BY <2>2, CallKnowsSource DEF CancelThere
    <3> QED
      BY <2>2, <3>1, CancelTurns, TurnChains DEF Beside
  <2>3. CASE UpgradeThere(c)
    <3>1. CASE Return(c) /\ UNCHANGED <<sold, mail>>
      BY <1>1, <2>3, <3>1 DEF UpgradeThere
    <3>2. CASE ~(Return(c) /\ UNCHANGED <<sold, mail>>)
      <4>1. PICK x \in Sources : x = call[c].src
        BY <2>3, CallKnowsSource DEF UpgradeThere
      <4> QED
        BY <2>3, <3>2, <4>1, UpgradeTurns, TurnChains DEF Beside
    <3> QED
      BY <3>1, <3>2
  <2>4. CASE WriteIntent(c) \/ WriteConfirmed(c)
    <3> DEFINE x == call[c].src
    <3>1. /\ x \in Sources /\ kind[x] = "crypto" /\ UNCHANGED <<kind, mail, refunded>>
          /\ \A y \in Sources \ {x} : sold'[y] = sold[y]
      BY <1>0, <2>4 DEF WriteIntent, WriteConfirmed, Inductive, CallsKnow, CallKnows, TypeOK
    <3>2. \A y \in Sources : kind[y] \in Recurring => sold'[y] = sold[y]
      BY <3>1 DEF Recurring
    <3> QED
      BY <3>1, <3>2, ChainsKept
  <2>5. CASE \/ \E x \in Sources : Activate(c, x) \/ Verify(c, x) \/ Intent(c, x)
             \/ \E k \in Recurring : Cancel(c, k)
             \/ \E p \in Plans : Upgrade(c, p)
             \/ CancelPaid(c) \/ Poll(c) \/ Confirm(c)
    BY <1>1, <2>5 DEF Activate, Verify, Intent, Cancel, Upgrade, CancelPaid, Poll, Confirm
  <2>6. CASE \/ Record(c) \/ Refused(c) \/ Drop(c) \/ Close(c) \/ Replan(c)
             \/ MarkRefunded(c) \/ Clean(c) \/ Crash(c)
    BY <1>1, <2>6 DEF Record, Refused, Drop, Close, Replan, MarkRefunded, Clean, Crash
  <2> QED
    BY <1>6, <2>1, <2>2, <2>3, <2>4, <2>5, <2>6 DEF Open, Step
<1> QED
  BY <1>1, <1>2, <1>3, <1>4, <1>5, <1>6 DEF Next, vars

-----------------------------------------------------------------------------
(* Every step keeps Agreeing: what a provider tells. *)

\* Numbers of what is about x.
LEMMA MailNumbers ==
  ASSUME Inductive, Numbered, NEW x \in Sources
  PROVE  /\ sold[x].n \in Nat /\ done[x] \in Nat /\ done[x] <= sold[x].n
         /\ \A e \in MailOf(x) : e.n \in Nat /\ 0 < e.n /\ e.n <= sold[x].n /\ e.src = x
         /\ \A c \in About(x) : call[c].n \in Nat /\ (call[c].do # "idle" => call[c].n <= sold[x].n)
<1>1. sold[x].n \in Nat /\ done[x] \in Nat /\ done[x] <= sold[x].n
  BY Numbers DEF Inductive, Numbered, Delivered
<1>2. \A e \in MailOf(x) : e.n \in Nat /\ 0 < e.n /\ e.n <= sold[x].n /\ e.src = x
  BY Numbers DEF Inductive, Numbered, Delivered, MailOf
<1>3. \A c \in About(x) : call[c].n \in Nat /\ (call[c].do # "idle" => call[c].n <= sold[x].n)
  BY Numbers DEF Inductive, Numbered, CallNumbered, About
<1> QED
  BY <1>1, <1>2, <1>3

\* A subscription with events lives or is over.
LEMMA LiveSince ==
  ASSUME Inductive, Numbered, NEW x \in Sources, kind[x] \in Recurring, sold[x].n # 0
  PROVE  Lives(x) \/ sold[x].state = "ended"
<1>1. sold[x].state \in States
  BY DEF Inductive, TypeOK, Sale
<1> QED
  BY <1>1 DEF Numbered, Standing, Lives, States

\* What a call is to write is not changed by a newer event ...
LEMMA TurnCalls ==
  ASSUME Inductive, Numbered, owner \in Sources, NEW e, Turn(owner, e), UNCHANGED Beside,
         NEW c \in About(owner), call'[c] = call[c], CallFollows(c)
  PROVE  CallFollows(c)'
<1> DEFINE x == owner  N == sold[owner].n  n == call[c].n
<1>1. /\ N \in Nat /\ done[x] \in Nat /\ done[x] <= N /\ n \in Nat
      /\ call[c].do # "idle" => n <= N
      /\ \A f \in MailOf(x) : f.n \in Nat /\ f.n <= N
  BY MailNumbers
<1>2. /\ e.n = N + 1 /\ sold'[x].n = N + 1 /\ MailOf(x)' = MailOf(x) \union {e}
      /\ sold[x].state # "ended"
      /\ UNCHANGED <<kind, row, done, owner>>
  BY DEF Turn, Adds, Beside
<1>3. call[c].do # "idle" => n # N + 1 /\ n # e.n
  BY <1>1, <1>2
<1>4. ~Gap' => ~Gap
  BY <1>2 DEF Gap
<1>5. \A f \in MailOf(owner)' : call[c].do # "idle" /\ f.n = n => f \in MailOf(x)
  BY <1>2, <1>3
<1>6. RecordFollows(c)'
  BY <1>2, <1>3, <1>4, <1>5 DEF CallFollows, RecordFollows
<1>7. \A f, g \in MailOf(owner)' : f.n = n /\ g.n + 1 = f.n /\ call[c].do # "idle" => g \in MailOf(x)
  <2>1. e.n + 1 # n \/ call[c].do = "idle"
    BY <1>1, <1>2
  <2> QED
    BY <1>2, <2>1
<1>8. CloseFollows(c)'
  BY <1>2, <1>3, <1>4, <1>5, <1>7 DEF CallFollows, CloseFollows
<1>9. ReplanFollows(c)'
  BY <1>2, <1>3, <1>4, <1>5 DEF CallFollows, ReplanFollows
<1>10. DropFollows(c)'
  BY <1>2 DEF CallFollows, DropFollows
<1> QED
  BY <1>6, <1>8, <1>9, <1>10 DEF CallFollows

\* ... nor what the row and the older webhooks say.
LEMMA TurnEvents ==
  ASSUME Inductive, Numbered, owner \in Sources, NEW e, Turn(owner, e), UNCHANGED Beside,
         EventsFollow
  PROVE  EventsFollow'
<1> DEFINE x == owner  N == sold[owner].n
<1>1. /\ N \in Nat /\ done[x] \in Nat /\ done[x] <= N
      /\ \A f \in MailOf(x) : f.n \in Nat /\ f.n <= N
  BY MailNumbers
<1>2. /\ e.n = N + 1 /\ sold'[x].n = N + 1 /\ MailOf(x)' = MailOf(x) \union {e}
      /\ sold[x].state # "ended" /\ e.src = x
      /\ UNCHANGED <<kind, tagged, row, done, owner>>
  BY DEF Turn, Adds, Beside
<1> SUFFICES ASSUME Tracked', ~Gap', done'[owner'] > 0
             PROVE  RowFollows'
  BY DEF EventsFollow
<1>3. Tracked /\ ~Gap /\ done[x] > 0 /\ RowFollows
  BY <1>2 DEF Tracked, Gap, EventsFollow
<1>4. N # 0 /\ done[x] # N + 1 /\ done[x] # e.n
  BY <1>1, <1>2, <1>3
<1>5. Lives(x)
  BY <1>2, <1>3, <1>4, LiveSince DEF Tracked
<1>6. /\ row.sub[kind[x]] = x
      /\ kind[x] = "razorpay" => row.plan = PlanOf[x] /\ row.status = "ACTIVE"
  BY <1>2, <1>3 DEF RowFollows
<1>7. \A f \in MailOf(x)' : f.n = done[x] /\ f.type # "ended" => Tells(f)'
  BY <1>2, <1>3, <1>4 DEF RowFollows, Tells
<1>8. ASSUME NEW f \in MailOf(x)', f.n = done[x] + 1
      PROVE  Follows(f, row.plan, row.status, row.closing)
  <2>1. CASE f = e
    <3>1. done[x] = N
      BY <1>1, <1>2, <1>8, <2>1
    <3>2. /\ row.plan = sold[x].plan /\ row.status = StatusOf(sold[x].state)
          /\ kind[x] = "stripe" => row.closing = sold[x].closing
      BY <1>3, <1>5, <3>1 DEF RowFollows
    <3>3. Follows(e, sold[x].plan, StatusOf(sold[x].state), sold[x].closing)
      BY <1>3, <1>5 DEF Turn, Tracked
    <3> QED
      BY <1>2, <2>1, <3>2, <3>3 DEF Follows
  <2>2. CASE f # e
    BY <1>2, <1>3, <1>8, <2>2 DEF RowFollows
  <2> QED
    BY <2>1, <2>2
<1>9. \A f \in MailOf(x)' : f.n = done[x] + 1 => Follows(f, row.plan, row.status, row.closing)'
  BY <1>2, <1>8 DEF Follows
<1> QED
  BY <1>2, <1>4, <1>6, <1>7, <1>9 DEF RowFollows

\* An event of the owner.
LEMMA TurnAgrees ==
  ASSUME Inductive, Numbered, Chains, owner \in Sources, Clear, NEW e, Turn(owner, e),
         UNCHANGED Beside,
         \A c \in Calls : \/ call'[c] = call[c]
                          \/ call'[c].src = owner /\ (Tracked => CallFollows(c)')
  PROVE  Clear'
<1> DEFINE x == owner
<1>1. /\ \A y \in Sources \ {x} : MailOf(y)' = MailOf(y) /\ sold'[y] = sold[y]
      /\ kind[x] # "crypto" /\ sold[x].state # "ended"
      /\ UNCHANGED <<kind, tagged, row, done, owner>>
  BY DEF Turn, Adds, Beside
<1>2. OthersAreOver'
  <2> SUFFICES ASSUME NEW y \in Sources \ {x} PROVE Over(y)'
    BY <1>1 DEF OthersAreOver
  <2>1. Over(y)
    BY DEF Clear, OthersAreOver
  <2>2. \A c \in About(y)' : c \in About(y) /\ call'[c] = call[c]
    BY <1>1 DEF About
  <2> QED
    BY <1>1, <2>1, <2>2 DEF Over
<1>3. PaidIsOver' /\ RowIsThere' /\ IntentAgrees'
  BY <1>1 DEF Clear, PaidIsOver, RowIsThere, IntentAgrees
<1>4. CallsFollow'
  <2> SUFFICES ASSUME Tracked', NEW c \in About(owner)' PROVE CallFollows(c)'
    BY DEF CallsFollow
  <2>1. Tracked /\ c \in Calls /\ call'[c].src = owner
    BY <1>1 DEF Tracked, About
  <2>2. CASE call'[c] = call[c]
    <3>1. c \in About(owner) /\ CallFollows(c)
      BY <2>1, <2>2 DEF About, Clear, CallsFollow
    <3> QED
      BY <2>2, <3>1, TurnCalls
  <2>3. CASE call'[c] # call[c]
    BY <2>1, <2>3
  <2> QED
    BY <2>2, <2>3
<1>5. EventsFollow'
  BY TurnEvents DEF Clear
<1> QED
  BY <1>2, <1>3, <1>4, <1>5 DEF Clear

\* What is undisturbed after a step that buys nothing was so before it.
LEMMA Calmer ==
  ASSUME Undisturbed', UNCHANGED owner, mixed => mixed', overtaken \subseteq overtaken',
         refunded \subseteq refunded', Agreeing
  PROVE  Undisturbed /\ Clear
  BY DEF Undisturbed, Agreeing

\* What was bought last is a source.
LEMMA OwnerBought ==
  ASSUME Inductive, Undisturbed
  PROVE  owner \in Sources
  BY DEF Inductive, TypeOK, Undisturbed, SomeSource

\* While all else is over, only the owner changes at a provider.
LEMMA OthersAreStill ==
  ASSUME Clear, NEW x \in Sources, sold[x].state \notin {"none", "ended"}
  PROVE  x = owner
  BY DEF Clear, OthersAreOver, Over

\* The providers keep Clear.
LEMMA ProviderAgrees ==
  ASSUME Inductive, Numbered, Chains, Agreeing, Undisturbed', NEW x \in Sources, Provider(x)
  PROVE  Clear'
<1> USE DEF tagVars, watchVars
<1>1. UNCHANGED <<owner, mixed, overtaken, refunded, kind, tagged, row, call, done>>
  <2>1. CASE Approve(x)
    BY <2>1 DEF Approve
  <2>2. CASE ~Approve(x)
    BY <2>2, ProviderTurns DEF Beside
  <2> QED
    BY <2>1, <2>2
<1>2. Undisturbed /\ Clear
  BY <1>1, Calmer
<1>3. owner \in Sources
  BY <1>2, OwnerBought
<1>4. CASE ~Approve(x)
  <2>1. PICK e : Turn(x, e) /\ UNCHANGED <<Beside, call>>
    BY <1>4, ProviderTurns
  <2>2. x = owner
    BY <1>2, <2>1, OthersAreStill DEF Turn
  <2> QED
    BY <1>2, <1>3, <2>1, <2>2, TurnAgrees
<1>5. CASE Approve(x)
  <2>1. /\ kind[x] = "paypal" /\ sold[x].state = "open" /\ x = owner
        /\ sold' = [sold EXCEPT ![x].state = "approved"] /\ mail' = mail
    BY <1>2, <1>5, OthersAreStill DEF Approve
  <2>2. /\ sold'[x].state = "approved" /\ sold'[x].n = sold[x].n /\ sold[x].n = 0
        /\ \A y \in Sources \ {x} : sold'[y] = sold[y]
    BY <2>1 DEF Inductive, TypeOK, Sale, Numbered, Standing, Recurring
  <2>3. done[x] = 0 /\ MailOf(x) = {}
    <3>1. done[x] \in Nat /\ done[x] <= 0
      BY <2>2, MailNumbers
    <3> QED
      BY <2>2, <3>1, NoMailYet
  <2>4. \A y \in Sources : MailOf(y)' = MailOf(y) /\ About(y)' = About(y)
    BY <1>1, <2>1 DEF MailOf, About
  <2>5. OthersAreOver'
    BY <1>1, <1>2, <2>1, <2>2, <2>4 DEF Clear, OthersAreOver, Over
  <2>6. PaidIsOver' /\ RowIsThere' /\ IntentAgrees'
    BY <1>1, <1>2, <2>1, <2>2 DEF Clear, PaidIsOver, RowIsThere, IntentAgrees
  <2>7. EventsFollow'
    BY <1>1, <2>1, <2>3 DEF EventsFollow
  <2>8. CallsFollow'
    <3> SUFFICES ASSUME Tracked', NEW c \in About(owner)' PROVE CallFollows(c)'
      BY DEF CallsFollow
    <3>1. CallFollows(c) /\ c \in About(x)
      BY <1>1, <1>2, <2>1, <2>4 DEF Clear, CallsFollow, Tracked
    <3>2. call[c].n \in Nat /\ (call[c].do # "idle" => call[c].n <= 0)
      BY <2>2, <3>1, MailNumbers
    <3>3. call[c].do # "idle" => ~(call[c].n > 0) /\ ~(call[c].n > 1)
      BY <3>2
    <3>4. call[c].do \notin {"record", "close", "replan", "drop"} \/ (call[c].do = "record" /\ ~(call[c].n > 0))
      BY <2>1, <3>1, <3>3 DEF CallFollows, CloseFollows, ReplanFollows, DropFollows
    <3>5. call' = call
      BY <1>1
    <3> QED
      BY <3>4, <3>5 DEF CallFollows, RecordFollows, CloseFollows, ReplanFollows, DropFollows
  <2> QED
    BY <2>5, <2>6, <2>7, <2>8 DEF Clear
<1> QED
  BY <1>4, <1>5

\* A call that told the provider follows its own event.
LEMMA CancelAgrees ==
  ASSUME Inductive, Numbered, Chains, Agreeing, Undisturbed', NEW c \in Calls, CancelThere(c)
  PROVE  Clear'
<1>0. PICK x \in Sources : x = call[c].src
  BY CallKnowsSource DEF CancelThere
<1> DEFINE N == sold[x].n
<1>1. PICK e : /\ kind[x] \in Recurring /\ UNCHANGED Beside
               /\ Turn(x, e) /\ Lives(x)
               /\ call' = [call EXCEPT ![c].do = IF kind[x] = "stripe" THEN "close" ELSE "drop",
                                       ![c].n = sold[x].n + 1]
               /\ IF kind[x] = "stripe"
                    THEN e.type = "updated" /\ e.closing /\ e.plan = sold[x].plan
                    ELSE e.type = "ended"
  BY <1>0, CancelTurns
<1>2. Undisturbed /\ Clear
  BY <1>1, Calmer DEF Beside
<1>3. x = owner /\ owner \in Sources
  BY <1>1, <1>2, OthersAreStill, OwnerBought DEF Turn
<1>4. /\ \A d \in Calls \ {c} : call'[d] = call[d]
      /\ call'[c].do = IF kind[x] = "stripe" THEN "close" ELSE "drop"
      /\ call'[c].src = x /\ call'[c].n = N + 1
  BY <1>0, <1>1 DEF Inductive, TypeOK, ApiCall
<1>5. /\ N \in Nat /\ done[x] \in Nat /\ done[x] <= N
      /\ \A f \in MailOf(x) : f.n \in Nat /\ f.n <= N
  BY <1>3, MailNumbers
<1>6. /\ e.n = N + 1 /\ sold'[x].n = N + 1 /\ MailOf(x)' = MailOf(x) \union {e}
      /\ UNCHANGED <<kind, tagged, row, done, owner, refunded>>
  BY <1>1 DEF Turn, Adds, Beside
<1>7. N # 0 /\ N + 1 > 1 /\ N + 1 # 0 /\ done[x] # N + 1 /\ N + 1 + 1 # N + 1
  <2>1. N # 0
    BY <1>1, <1>5 DEF Numbered, Standing, Lives
  <2> QED
    BY <1>5, <2>1
<1>8. \A f \in MailOf(x) : f.n # N + 1 /\ (f.n + 1 = N + 1 => f.n = N)
  BY <1>5
<1>9. ASSUME Tracked PROVE CallFollows(c)'
  <2>1. CASE kind[x] # "stripe"
    <3>1. sold'[x].state = "ended"
      BY <1>1, <2>1 DEF Turn
    <3>2. call'[c].do = "drop" /\ owner' = x
      BY <1>3, <1>4, <1>6, <2>1
    <3> QED
      BY <1>4, <1>6, <1>7, <3>1, <3>2
      DEF CallFollows, RecordFollows, CloseFollows, ReplanFollows, DropFollows
  <2>2. CASE kind[x] = "stripe"
    <3>1. sold'[x].state # "ended" /\ call'[c].do = "close" /\ e.type = "updated" /\ e.closing
          /\ e.plan = sold[x].plan
      BY <1>1, <1>4, <2>2 DEF Turn
    <3>2. \A f \in MailOf(x) : f.n = N => f.plan = sold[x].plan
      <4>1. x \notin refunded
        BY <1>2 DEF Undisturbed
      <4> QED
        BY <1>1, <1>3, <4>1 DEF Chains, Chained
    <3>3. \A f \in MailOf(x)' : f.n = N + 1 => f = e
      BY <1>6, <1>8
    <3>4. \A f \in MailOf(x)' : f.n + 1 = N + 1 => f.plan = sold[x].plan
      BY <1>6, <1>7, <1>8, <3>2
    <3>5. done[x] + 1 = N + 1 /\ ~Gap => row.plan = sold[x].plan
      <4> SUFFICES ASSUME done[x] + 1 = N + 1, ~Gap PROVE row.plan = sold[x].plan
        OBVIOUS
      <4>1. done[x] = N /\ done[x] > 0
        BY <1>5, <1>7
      <4> QED
        BY <1>1, <1>2, <1>3, <1>9, <4>1 DEF Clear, EventsFollow, RowFollows
    <3>6. ~Gap' => ~Gap
      <4>1. \A f \in MailOf(owner) : f \in MailOf(owner)'
        BY <1>3, <1>6
      <4>2. owner' = owner /\ done' = done
        BY <1>6
      <4> QED
        BY <4>1, <4>2 DEF Gap
    <3>7. owner' = x /\ done' = done /\ row' = row
      BY <1>3, <1>6
    <3> USE DEF CallFollows, RecordFollows, CloseFollows, ReplanFollows, DropFollows
    <3>8. RecordFollows(c)' /\ ReplanFollows(c)' /\ DropFollows(c)'
      BY <3>1
    <3>9. CloseFollows(c)'
      <4>1. \A f \in MailOf(owner)' : f.n = call'[c].n =>
              /\ f.type = "updated" /\ f.closing
              /\ \A g \in MailOf(owner)' : g.n + 1 = call'[c].n => g.plan = f.plan
              /\ done'[owner'] + 1 = call'[c].n /\ ~Gap' => row'.plan = f.plan
        BY <1>4, <3>1, <3>3, <3>4, <3>5, <3>6, <3>7, <1>6, <1>3
      <4> QED
        BY <1>3, <1>4, <1>6, <1>7, <3>1, <3>7, <4>1
    <3> QED
      BY <3>8, <3>9
  <2> QED
    BY <2>1, <2>2
<1> QED
  BY <1>1, <1>2, <1>3, <1>4, <1>9, TurnAgrees

\* PayPal changed the plan, and the call is to write it.
LEMMA UpgradeAgrees ==
  ASSUME Inductive, Numbered, Chains, Agreeing, Undisturbed', NEW c \in Calls, UpgradeThere(c),
         ~(Return(c) /\ UNCHANGED <<sold, mail>>)
  PROVE  Clear'
<1>0. PICK x \in Sources : x = call[c].src
  BY CallKnowsSource DEF UpgradeThere
<1> DEFINE N == sold[x].n
<1>1. PICK e : /\ kind[x] = "paypal" /\ UNCHANGED Beside
               /\ Turn(x, e) /\ Lives(x)
               /\ call' = [call EXCEPT ![c].do = "replan", ![c].n = sold[x].n + 1]
               /\ e.type = "updated" /\ e.plan = call[c].plan
  BY <1>0, UpgradeTurns
<1>2. Undisturbed /\ Clear
  BY <1>1, Calmer DEF Beside
<1>3. x = owner /\ owner \in Sources
  BY <1>1, <1>2, OthersAreStill, OwnerBought DEF Turn
<1>4. /\ \A d \in Calls \ {c} : call'[d] = call[d]
      /\ call'[c].do = "replan" /\ call'[c].src = x /\ call'[c].n = N + 1
      /\ call'[c].plan = call[c].plan
  BY <1>0, <1>1 DEF Inductive, TypeOK, ApiCall
<1>5. /\ N \in Nat /\ done[x] \in Nat /\ done[x] <= N
      /\ \A f \in MailOf(x) : f.n \in Nat /\ f.n <= N
  BY <1>3, MailNumbers
<1>6. /\ e.n = N + 1 /\ sold'[x].n = N + 1 /\ MailOf(x)' = MailOf(x) \union {e}
      /\ UNCHANGED <<kind, tagged, row, done, owner>> /\ sold'[x].state # "ended"
  BY <1>1 DEF Turn, Adds, Beside, Recurring
<1>7. N + 1 > 1 /\ done[x] # N + 1
  <2>1. N # 0
    BY <1>1, <1>5 DEF Numbered, Standing, Lives, Recurring
  <2> QED
    BY <1>5, <2>1
<1>8. \A f \in MailOf(x)' : f.n = N + 1 => f = e
  BY <1>5, <1>6
<1>9. CallFollows(c)'
  <2>1. owner' = x /\ done' = done
    BY <1>3, <1>6
  <2>2. RecordFollows(c)' /\ CloseFollows(c)' /\ DropFollows(c)'
    BY <1>4 DEF RecordFollows, CloseFollows, DropFollows
  <2>3. ReplanFollows(c)'
    BY <1>1, <1>3, <1>4, <1>6, <1>7, <1>8, <2>1 DEF ReplanFollows
  <2> QED
    BY <2>2, <2>3 DEF CallFollows
<1> QED
  BY <1>1, <1>2, <1>3, <1>4, <1>9, TurnAgrees

-----------------------------------------------------------------------------
(* Every step keeps Agreeing: what calls begin and leave undone. *)

\* A call that begins or ends, and what it is to write.
LEMMA CallAgrees ==
  ASSUME Clear, Undisturbed, owner \in Sources, NEW c \in Calls,
         UNCHANGED <<kind, tagged, row, sold, mail, done, owner>>,
         \A d \in Calls \ {c} : call'[d] = call[d],
         call'[c].src = owner /\ Tracked => CallFollows(c)',
         \A y \in Sources \ {owner} : call'[c].src = y =>
           \/ call'[c].do \in {"idle", "cancel", "revise", "drop"}
           \/ call'[c].do = "record" /\ call'[c].n < done[y]
  PROVE  Clear'
<1>1. OthersAreOver'
  <2> SUFFICES ASSUME NEW y \in Sources \ {owner} PROVE Over(y)'
    BY DEF OthersAreOver
  <2>1. Over(y)
    BY DEF Clear, OthersAreOver
  <2>2. MailOf(y)' = MailOf(y) /\ \A d \in About(y)' : d = c \/ (d \in About(y) /\ call'[d] = call[d])
    BY DEF MailOf, About
  <2>3. \A d \in About(y)' : call'[d].src = y
    BY DEF About
  <2> QED
    BY <2>1, <2>2, <2>3 DEF Over
<1>2. CallsFollow'
  <2> SUFFICES ASSUME Tracked', NEW d \in About(owner)' PROVE CallFollows(d)'
    BY DEF CallsFollow
  <2>1. Tracked /\ d \in Calls /\ call'[d].src = owner
    BY DEF Tracked, About
  <2>2. CASE d = c
    BY <2>1, <2>2
  <2>3. CASE d # c
    <3>1. CallFollows(d) /\ call'[d] = call[d]
      BY <2>1, <2>3 DEF About, Clear, CallsFollow
    <3>2. MailOf(owner)' = MailOf(owner) /\ Gap' = Gap
      BY DEF MailOf, Gap
    <3> QED
      BY <3>1, <3>2 DEF CallFollows, RecordFollows, CloseFollows, ReplanFollows, DropFollows
  <2> QED
    BY <2>2, <2>3
<1>3. EventsFollow' /\ PaidIsOver' /\ RowIsThere' /\ IntentAgrees'
  BY DEF Clear, EventsFollow, PaidIsOver, RowIsThere, IntentAgrees, Tracked, Gap, MailOf,
         RowFollows, Lives, Tells, Follows
<1> QED
  BY <1>1, <1>2, <1>3 DEF Clear

\* A call that ends without a write.
LEMMA ReturnAgrees ==
  ASSUME Inductive, Agreeing, Undisturbed', NEW c \in Calls, Return(c),
         UNCHANGED <<kind, tagged, row, sold, mail, done, owner, mixed, overtaken, refunded>>
  PROVE  Clear'
<1>1. Undisturbed /\ Clear
  BY Calmer
<1>2. owner \in Sources
  BY <1>1, OwnerBought
<1>3. /\ call'[c] = Idle /\ Idle.src = None /\ None \notin Sources
      /\ \A d \in Calls \ {c} : call'[d] = call[d]
  BY NoneAssumption DEF Inductive, TypeOK, Return, Idle
<1> QED
  BY <1>1, <1>2, <1>3, CallAgrees

\* PayPal told how the subscription stands now.
LEMMA ActivateAgrees ==
  ASSUME Inductive, Numbered, Chains, Agreeing, Undisturbed', NEW c \in Calls, NEW x \in Sources,
         Activate(c, x)
  PROVE  Clear'
<1> USE DEF tagVars, watchVars
<1>1. UNCHANGED <<kind, tagged, row, sold, mail, done, owner, mixed, overtaken, refunded>>
  BY DEF Activate
<1>2. Undisturbed /\ Clear
  BY <1>1, Calmer
<1>3. x = owner /\ owner \in Sources
  BY <1>2, OthersAreStill, OwnerBought DEF Activate, Approved
<1>4. /\ \A d \in Calls \ {c} : call'[d] = call[d]
      /\ call'[c].do = "record" /\ call'[c].src = x /\ call'[c].n = sold[x].n
      /\ call'[c].plan = sold[x].plan
      /\ call'[c].status = IF sold[x].state = "active" THEN "ACTIVE" ELSE "TRIALING"
  BY DEF Activate, Begin, Idle, Inductive, TypeOK
<1>5. kind[x] = "paypal" /\ (sold[x].n > 0 => sold[x].state = "active") /\ sold[x].state # "ended"
  BY DEF Activate, Approved, Numbered, Standing, Recurring
<1>6. Tracked => CallFollows(c)'
  <2> SUFFICES ASSUME Tracked, sold[x].n > 0 PROVE RecordFollows(c)'
    BY <1>1, <1>3, <1>4 DEF CallFollows, RecordFollows, CloseFollows, ReplanFollows, DropFollows
  <2>1. \A e \in MailOf(x) : e.n = sold[x].n =>
          e.type # "ended" /\ e.plan = sold[x].plan /\ e.status = "ACTIVE"
    BY <1>2, <1>3, <1>5 DEF Undisturbed, Chains, Chained, Recurring, StatusOf
  <2>2. done[x] = sold[x].n /\ ~Gap => row.plan = sold[x].plan /\ row.status = "ACTIVE"
    <3>1. done[x] = sold[x].n => done[x] > 0
      OBVIOUS
    <3> QED
      BY <1>2, <1>3, <1>5, <3>1 DEF Clear, EventsFollow, RowFollows, Lives, StatusOf
  <2>3. MailOf(x)' = MailOf(x) /\ Gap' = Gap
    BY <1>1 DEF MailOf, Gap
  <2> QED
    BY <1>1, <1>3, <1>4, <1>5, <2>1, <2>2, <2>3 DEF RecordFollows
<1> QED
  BY <1>1, <1>2, <1>3, <1>4, <1>6, CallAgrees

\* Razorpay told of the first payment, which may be long past.
LEMMA VerifyAgrees ==
  ASSUME Inductive, Numbered, Chains, Agreeing, Undisturbed', NEW c \in Calls, NEW x \in Sources,
         Verify(c, x)
  PROVE  Clear'
<1> USE DEF tagVars, watchVars
<1>1. UNCHANGED <<kind, tagged, row, sold, mail, done, owner, mixed, overtaken, refunded>>
  BY DEF Verify
<1>2. Undisturbed /\ Clear
  BY <1>1, Calmer
<1>3. owner \in Sources
  BY <1>2, OwnerBought
<1>4. /\ \A d \in Calls \ {c} : call'[d] = call[d]
      /\ call'[c].do = "record" /\ call'[c].src = x /\ call'[c].n = 1
      /\ call'[c].plan = sold[x].plan /\ call'[c].status = "ACTIVE"
  BY DEF Verify, Begin, Idle, Inductive, TypeOK
<1>5. /\ kind[x] = "razorpay" /\ sold[x].n > 0 /\ sold[x].plan = PlanOf[x]
      /\ sold[x].n \in Nat /\ done[x] \in Nat
      /\ sold[x].state # "none" /\ (sold[x].state = "ended" => sold[x].n > 1)
  BY MailNumbers DEF Verify, Numbered, Standing, Recurring
<1>6. CASE x # owner
  <2>1. MailOf(x) = {} /\ sold[x].state = "ended"
    BY <1>2, <1>5, <1>6 DEF Clear, OthersAreOver, Over
  <2>2. sold[x].n <= done[x]
    <3>1. sold[x].n \in 1 .. sold[x].n
      BY <1>5
    <3> QED
      BY <2>1, <3>1 DEF Numbered, Delivered
  <2>3. 1 < done[x]
    BY <1>5, <2>1, <2>2
  <2> QED
    BY <1>1, <1>2, <1>3, <1>4, <1>6, <2>3, CallAgrees
<1>7. CASE x = owner
  <2>1. Tracked => CallFollows(c)'
    <3> SUFFICES ASSUME Tracked PROVE RecordFollows(c)'
      BY <1>4 DEF CallFollows, RecordFollows, CloseFollows, ReplanFollows, DropFollows
    <3>1. sold[x].n = 1 => sold[x].state # "ended"
      BY <1>5
    <3>2. \A e \in MailOf(x) : e.n = 1 =>
            e.type # "ended" /\ e.plan = PlanOf[x] /\ e.status = "ACTIVE"
      BY <1>2, <1>5 DEF Undisturbed, Chains, Chained, Recurring
    <3>3. done[x] = 1 /\ ~Gap => row.plan = PlanOf[x] /\ row.status = "ACTIVE"
      <4>1. done[x] = 1 => done[x] > 0 /\ ~(done[x] = sold[x].n /\ sold[x].state = "ended")
        BY <3>1
      <4> QED
        BY <1>2, <1>5, <1>7, <4>1 DEF Clear, EventsFollow, RowFollows
    <3>4. MailOf(x)' = MailOf(x) /\ Gap' = Gap
      BY <1>1 DEF MailOf, Gap
    <3>5. owner' = x /\ sold' = sold /\ done' = done /\ row' = row
      BY <1>1, <1>7
    <3>6. call'[c].n = 1 /\ call'[c].plan = PlanOf[x] /\ call'[c].status = "ACTIVE"
      BY <1>4, <1>5
    <3> QED
      BY <3>1, <3>2, <3>3, <3>4, <3>5, <3>6 DEF RecordFollows
  <2> QED
    BY <1>1, <1>2, <1>3, <1>4, <1>7, <2>1, CallAgrees
<1> QED
  BY <1>6, <1>7

\* The calls that only begin.
LEMMA OpenAgrees ==
  ASSUME Inductive, Numbered, Chains, Agreeing, Undisturbed', NEW c \in Calls,
         \/ \E x \in Sources : Activate(c, x) \/ Verify(c, x)
         \/ \E k \in Recurring : Cancel(c, k)
         \/ \E p \in Plans : Upgrade(c, p)
         \/ CancelPaid(c) \/ Poll(c) \/ Confirm(c)
  PROVE  Clear'
<1> USE DEF tagVars, watchVars, CallFollows, RecordFollows, CloseFollows, ReplanFollows, DropFollows
<1>1. CASE \E x \in Sources : Activate(c, x) \/ Verify(c, x)
  BY <1>1, ActivateAgrees, VerifyAgrees
<1>2. CASE ~\E x \in Sources : Activate(c, x) \/ Verify(c, x)
  <2>1. UNCHANGED <<kind, tagged, row, sold, mail, done, owner, mixed, overtaken, refunded>>
    BY <1>2 DEF Cancel, Upgrade, CancelPaid, Poll, Confirm
  <2>2. Undisturbed /\ Clear
    BY <2>1, Calmer
  <2>3. owner \in Sources
    BY <2>2, OwnerBought
  <2>4. CASE \/ \E k \in Recurring : Cancel(c, k)
             \/ \E p \in Plans : Upgrade(c, p)
    <3>1. /\ \A d \in Calls \ {c} : call'[d] = call[d]
          /\ call'[c].do \in {"cancel", "revise"}
      BY <2>4 DEF Cancel, Upgrade, Begin, Idle, Inductive, TypeOK
    <3>2. CallFollows(c)'
      BY <3>1
    <3> QED
      BY <2>1, <2>2, <2>3, <3>1, <3>2, CallAgrees
  <2>5. CASE CancelPaid(c)
    <3>1. /\ \A d \in Calls \ {c} : call'[d] = call[d]
          /\ call'[c].do = "drop" /\ call'[c].src = row.paid /\ call'[c].n = 0
          /\ row.sub["razorpay"] = None /\ row.paid # None
      BY <2>5 DEF CancelPaid, Begin, Idle, Inductive, TypeOK
    <3>2. row.paid = owner /\ Tracked => CallFollows(c)'
      <4> SUFFICES ASSUME row.paid = owner, Tracked PROVE CallFollows(c)'
        OBVIOUS
      <4>1. kind[owner] = "razorpay"
        BY <3>1 DEF Numbered, Tracked, Recurring
      <4>2. sold[owner].state = "ended" /\ done[owner] = sold[owner].n
        BY <2>2, <3>1, <4>1 DEF Clear, PaidIsOver
      <4> QED
        BY <2>1, <3>1, <4>2
    <3> HIDE DEF CallFollows
    <3> QED
      BY <2>1, <2>2, <2>3, <3>1, <3>2, CallAgrees
  <2>6. CASE Poll(c) \/ Confirm(c)
    <3>1. /\ \A d \in Calls \ {c} : call'[d] = call[d]
          /\ call'[c].do \in {"clean", "confirm"} /\ call'[c].src = row.meta.pending
      BY <2>6 DEF Poll, Confirm, Begin, Idle, Inductive, TypeOK
    <3>2. CallFollows(c)'
      BY <3>1
    <3>3. \A y \in Sources \ {owner} : call'[c].src # y
      BY <2>2, <3>1 DEF Clear, OthersAreOver, Over
    <3> QED
      BY <2>1, <2>2, <2>3, <3>1, <3>2, <3>3, CallAgrees
  <2> QED
    BY <1>2, <2>4, <2>5, <2>6
<1> QED
  BY <1>1, <1>2

-----------------------------------------------------------------------------
(* Every step keeps Agreeing: what is written to the row. *)

\* A write of the n-th event that leaves no older one to come.
LEMMA GapCloses ==
  ASSUME Inductive, Numbered, owner \in Sources, NEW n \in Nat, Note(owner, n),
         done[owner] <= n, n <= sold[owner].n, n > 0, owner' = owner, mail' \subseteq mail,
         \A e \in mail \ mail' : e.n = n, ~Gap'
  PROVE  /\ ~Gap /\ n \in {done[owner], done[owner] + 1}
         /\ n # done[owner] => \E e \in MailOf(owner) : e.n = n
<1>1. /\ sold[owner].n \in Nat /\ done[owner] \in Nat
      /\ \A e \in MailOf(owner) : e.n \in Nat
  BY MailNumbers
<1>2. done'[owner] = n
  BY <1>1 DEF Note, Inductive, TypeOK
<1>3. \A e \in MailOf(owner) : e.n # n => e \in MailOf(owner)'
  BY DEF MailOf
<1>4. \A e \in MailOf(owner) : e.n < n => FALSE
  BY <1>1, <1>2, <1>3 DEF Gap
<1>5. ~Gap
  BY <1>1, <1>4 DEF Gap
<1>6. n \in {done[owner], done[owner] + 1}
  <2> SUFFICES ASSUME n # done[owner], n # done[owner] + 1 PROVE FALSE
    OBVIOUS
  <2>1. /\ done[owner] + 1 \in 1 .. sold[owner].n
        /\ done[owner] + 1 < n /\ ~(done[owner] + 1 <= done[owner])
    BY <1>1
  <2>2. PICK e \in MailOf(owner) : e.n = done[owner] + 1
    BY <2>1 DEF Numbered, Delivered
  <2> QED
    BY <1>4, <2>1, <2>2
<1>7. n # done[owner] => \E e \in MailOf(owner) : e.n = n
  <2> SUFFICES ASSUME n # done[owner] PROVE \E e \in MailOf(owner) : e.n = n
    OBVIOUS
  <2>1. n \in 1 .. sold[owner].n /\ ~(n <= done[owner])
    BY <1>1
  <2> QED
    BY <2>1 DEF Numbered, Delivered
<1> QED
  BY <1>5, <1>6, <1>7

\* The row tells how the owner stood at its n-th event, or that it is over.
Written(n) ==
  IF n = sold[owner].n /\ sold[owner].state = "ended"
    THEN row'.plan = Free /\ row'.status = "CANCELLED" /\ row'.sub[kind[owner]] = None
    ELSE /\ row'.sub[kind[owner]] = owner
         /\ kind[owner] = "razorpay" => row'.plan = PlanOf[owner] /\ row'.status = "ACTIVE"
         /\ \A e \in MailOf(owner) : e.n = n =>
              /\ row'.plan = e.plan /\ row'.status = e.status
              /\ kind[owner] = "stripe" => row'.closing = e.closing
         /\ (\A e \in MailOf(owner) : e.n # n) =>
              /\ row'.plan = row.plan /\ row'.status = row.status
              /\ kind[owner] = "stripe" => row'.closing = row.closing

\* Such a write agrees with the webhooks that are still to come ...
LEMMA WrittenEvents ==
  ASSUME Inductive, Numbered, Chains, Clear, Undisturbed, owner \in Sources, Tracked,
         NEW n \in Nat, Note(owner, n), done[owner] <= n, n <= sold[owner].n, n > 0,
         mail' \subseteq mail, \A e \in mail \ mail' : e.n = n,
         UNCHANGED <<kind, tagged, sold, owner>>, ~Gap' => Written(n)
  PROVE  EventsFollow'
<1> SUFFICES ASSUME ~Gap' PROVE RowFollows'
  BY DEF EventsFollow
<1> DEFINE x == owner
<1>1. /\ sold[x].n \in Nat /\ done[x] \in Nat /\ n + 1 # n
      /\ \A e \in MailOf(x) : e.n \in Nat /\ e.n <= sold[x].n /\ e.src = x
  BY MailNumbers
<1>2. done'[x] = n /\ MailOf(x)' \subseteq MailOf(x)
  BY <1>1 DEF Note, Inductive, TypeOK, MailOf
<1>3. Chained(x) /\ Written(n)
  BY DEF Undisturbed, Chains, Tracked
<1>4. (\A e \in MailOf(x) : e.n # n) => n = done[x] /\ RowFollows
  <2>1. ~Gap /\ (n # done[x] => \E e \in MailOf(x) : e.n = n)
    BY GapCloses
  <2> QED
    BY <2>1 DEF Clear, EventsFollow
<1>5. IF n = sold[x].n /\ sold[x].state = "ended"
        THEN row'.plan = Free /\ row'.status = "CANCELLED" /\ row'.sub[kind[x]] = None
        ELSE /\ row'.sub[kind[x]] = x
             /\ kind[x] = "razorpay" => row'.plan = PlanOf[x] /\ row'.status = "ACTIVE"
  BY <1>3 DEF Written
<1>6. n = sold[x].n /\ Lives(x) =>
        /\ row'.plan = sold[x].plan /\ row'.status = StatusOf(sold[x].state)
        /\ kind[x] = "stripe" => row'.closing = sold[x].closing
  <2> SUFFICES ASSUME n = sold[x].n, Lives(x)
               PROVE  /\ row'.plan = sold[x].plan /\ row'.status = StatusOf(sold[x].state)
                      /\ kind[x] = "stripe" => row'.closing = sold[x].closing
    OBVIOUS
  <2>1. sold[x].state # "ended"
    BY DEF Lives
  <2>2. CASE \E e \in MailOf(x) : e.n = n
    BY <1>3, <2>1, <2>2 DEF Chained, Written
  <2>3. CASE \A e \in MailOf(x) : e.n # n
    BY <1>3, <1>4, <2>1, <2>3 DEF RowFollows, Written
  <2> QED
    BY <2>2, <2>3
<1>7. \A e \in MailOf(x)' : e.n = n /\ e.type # "ended" =>
        /\ row'.plan = e.plan /\ row'.status = e.status
        /\ kind[e.src] = "stripe" => row'.closing = e.closing
  BY <1>1, <1>2, <1>3 DEF Chained, Written
<1>8. ASSUME NEW e \in MailOf(x)', e.n = n + 1
      PROVE  Follows(e, row'.plan, row'.status, row'.closing)
  <2>1. n # sold[x].n /\ e \in MailOf(x) /\ e.src = x
    BY <1>1, <1>2, <1>8
  <2>2. CASE \E f \in MailOf(x) : f.n = n
    BY <1>3, <1>8, <2>1, <2>2 DEF Chained, Written, Follows
  <2>3. CASE \A f \in MailOf(x) : f.n # n
    <3>1. Follows(e, row.plan, row.status, row.closing)
      BY <1>4, <1>8, <2>1, <2>3 DEF RowFollows
    <3> QED
      BY <1>3, <2>1, <2>3, <3>1 DEF Written, Follows
  <2> QED
    BY <2>2, <2>3
<1>9. \A e \in MailOf(x)' : e.n = n + 1 => Follows(e, row.plan, row.status, row.closing)'
  BY <1>8 DEF Follows
<1> QED
  BY <1>2, <1>5, <1>6, <1>7, <1>9 DEF RowFollows, Lives, Tells

\* ... and with what the other calls are to write.
LEMMA WrittenCalls ==
  ASSUME Inductive, Numbered, Chains, Clear, Undisturbed, owner \in Sources, Tracked,
         NEW n \in Nat, Note(owner, n), done[owner] <= n, n <= sold[owner].n, n > 0,
         mail' \subseteq mail, \A e \in mail \ mail' : e.n = n,
         UNCHANGED <<kind, tagged, sold, owner>>, ~Gap' => Written(n),
         NEW c \in About(owner), call'[c] = call[c]
  PROVE  CallFollows(c)'
<1> DEFINE x == owner
<1>1. /\ sold[x].n \in Nat /\ done[x] \in Nat /\ call[c].n \in Nat /\ c \in Calls
      /\ call[c].do # "idle" => call[c].n <= sold[x].n
  BY MailNumbers DEF About
<1>2. done'[x] = n /\ MailOf(x)' \subseteq MailOf(x)
  BY <1>1 DEF Note, Inductive, TypeOK, MailOf
<1>3. CallFollows(c) /\ CallNumbered(c) /\ call[c].src = x
  BY <1>1 DEF Clear, CallsFollow, Numbered, About
<1>4. ~Gap' => ~Gap /\ Written(n) /\ ((\A e \in MailOf(x) : e.n # n) => n = done[x])
  BY GapCloses
<1>5. RecordFollows(c)'
  <2> SUFFICES ASSUME call[c].do = "record", call[c].n > 0
               PROVE  RecordFollows(c)'
    BY DEF RecordFollows
  <2>1. /\ call[c].n = sold[x].n => sold[x].state # "ended"
        /\ \A e \in MailOf(x) : e.n = call[c].n =>
             e.type # "ended" /\ e.plan = call[c].plan /\ e.status = call[c].status
        /\ done[x] = call[c].n /\ ~Gap => row.plan = call[c].plan /\ row.status = call[c].status
    BY <1>3 DEF CallFollows, RecordFollows
  <2>2. n = call[c].n /\ ~Gap' => row'.plan = call[c].plan /\ row'.status = call[c].status
    BY <1>4, <2>1 DEF Written
  <2> QED
    BY <1>2, <2>1, <2>2 DEF RecordFollows
<1>6. CloseFollows(c)'
  <2> SUFFICES ASSUME call[c].do = "close" PROVE CloseFollows(c)'
    BY DEF CloseFollows
  <2>1. /\ call[c].n > 1 /\ (call[c].n = sold[x].n => sold[x].state # "ended")
        /\ \A e \in MailOf(x) : e.n = call[c].n =>
             /\ e.type = "updated" /\ e.closing
             /\ \A f \in MailOf(x) : f.n + 1 = call[c].n => f.plan = e.plan
             /\ done[x] + 1 = call[c].n /\ ~Gap => row.plan = e.plan
        /\ done[x] = call[c].n /\ ~Gap => row.closing
        /\ kind[x] = "stripe"
    BY <1>3 DEF CallFollows, CloseFollows, CallNumbered
  <2>2. n = call[c].n /\ ~Gap' => row'.closing
    BY <1>4, <2>1 DEF Written
  <2>3. ASSUME NEW e \in MailOf(x), e.n = call[c].n, n + 1 = call[c].n, ~Gap'
        PROVE  row'.plan = e.plan
    <3>1. n # sold[x].n
      BY <1>1, <2>3
    <3>2. CASE \E f \in MailOf(x) : f.n = n
      BY <1>4, <2>1, <2>3, <3>1, <3>2 DEF Written
    <3>3. CASE \A f \in MailOf(x) : f.n # n
      BY <1>4, <2>1, <2>3, <3>1, <3>3 DEF Written
    <3> QED
      BY <3>2, <3>3
  <2> QED
    BY <1>2, <2>1, <2>2, <2>3 DEF CloseFollows
<1>7. ReplanFollows(c)'
  <2> SUFFICES ASSUME call[c].do = "replan" PROVE ReplanFollows(c)'
    BY DEF ReplanFollows
  <2>1. /\ call[c].n > 1 /\ (call[c].n = sold[x].n => sold[x].state # "ended")
        /\ \A e \in MailOf(x) : e.n = call[c].n => e.type = "updated" /\ e.plan = call[c].plan
        /\ done[x] = call[c].n /\ ~Gap => row.plan = call[c].plan
    BY <1>3 DEF CallFollows, ReplanFollows
  <2>2. n = call[c].n /\ ~Gap' => row'.plan = call[c].plan
    BY <1>4, <2>1 DEF Written
  <2> QED
    BY <1>2, <2>1, <2>2 DEF ReplanFollows
<1>8. DropFollows(c)'
  <2>1. done[x] = sold[x].n => n = sold[x].n
    BY <1>1
  <2> QED
    BY <1>2, <1>3, <2>1 DEF CallFollows, DropFollows
<1> QED
  BY <1>5, <1>6, <1>7, <1>8 DEF CallFollows

\* A write about the owner, of which nothing is left but what it tells.
LEMMA WrittenAgrees ==
  ASSUME Inductive, Clear, owner \in Sources,
         UNCHANGED <<kind, tagged, sold, owner>>, kind[owner] # "crypto",
         mail' \subseteq mail, \A e \in mail \ mail' : e.src = owner,
         \A y \in Sources \ {owner} : done'[y] = done[y],
         \A d \in Calls : call'[d] = call[d] \/ call'[d] = Idle,
         row'.meta = row.meta, row.exists => row'.exists, PaidIsOver',
         Tracked => EventsFollow',
         Tracked => \A c \in About(owner) : call'[c] = call[c] => CallFollows(c)'
  PROVE  Clear'
<1>1. \A d \in Calls : call'[d] = call[d] \/ call'[d].src \notin Sources
  BY NoneAssumption DEF Idle
<1>2. OthersAreOver'
  <2> SUFFICES ASSUME NEW y \in Sources \ {owner} PROVE Over(y)'
    BY DEF OthersAreOver
  <2>1. Over(y)
    BY DEF Clear, OthersAreOver
  <2>2. MailOf(y)' \subseteq MailOf(y) /\ \A d \in About(y)' : d \in About(y) /\ call'[d] = call[d]
    BY <1>1 DEF MailOf, About
  <2> QED
    BY <2>1, <2>2 DEF Over
<1>3. CallsFollow'
  BY <1>1 DEF CallsFollow, About, Tracked
<1>4. EventsFollow' /\ RowIsThere' /\ IntentAgrees'
  BY DEF Clear, RowIsThere, IntentAgrees, EventsFollow, Tracked
<1> QED
  BY <1>2, <1>3, <1>4 DEF Clear

\* A step that notes an older state than the row had is excused.
LEMMA NotOvertaken ==
  ASSUME Inductive, Undisturbed', NEW x \in Sources, NEW n \in Nat, Note(x, n)
  PROVE  done[x] <= n /\ done'[x] = n /\ \A y \in Sources \ {x} : done'[y] = done[y]
<1>1. done[x] \in Nat /\ overtaken' = {}
  BY Numbers DEF Inductive, Undisturbed
<1>2. done[x] <= n
  BY <1>1 DEF Note
<1> QED
  BY <1>1, <1>2 DEF Note, Inductive, TypeOK

\* The event that a write tells of is the next one, or the one the row tells.
LEMMA NextOrSame ==
  ASSUME Inductive, Numbered, Chains, Clear, Undisturbed, owner \in Sources, Tracked,
         NEW n \in Nat, n > 0, n \in {done[owner], done[owner] + 1}, ~Gap,
         n > 1 \/ n = done[owner], n <= sold[owner].n,
         n = sold[owner].n => sold[owner].state # "ended"
  PROVE  /\ row.sub[kind[owner]] = owner
         /\ kind[owner] = "razorpay" => row.plan = PlanOf[owner] /\ row.status = "ACTIVE"
         /\ \A e \in MailOf(owner) : e.n = n =>
              \/ Follows(e, row.plan, row.status, row.closing)
              \/ row.plan = e.plan /\ row.status = e.status
                   /\ (kind[owner] = "stripe" => row.closing = e.closing)
<1>1. /\ sold[owner].n \in Nat /\ done[owner] \in Nat
      /\ \A e \in MailOf(owner) : e.src = owner
  BY MailNumbers
<1>2. done[owner] > 0 /\ ~(done[owner] = sold[owner].n /\ sold[owner].state = "ended")
  BY <1>1
<1>3. RowFollows
  BY <1>2 DEF Clear, EventsFollow
<1>4. Chained(owner)
  BY DEF Chains, Undisturbed, Tracked
<1>5. ASSUME NEW e \in MailOf(owner), e.n = n
      PROVE  \/ Follows(e, row.plan, row.status, row.closing)
             \/ row.plan = e.plan /\ row.status = e.status
                  /\ (kind[owner] = "stripe" => row.closing = e.closing)
  <2>1. e.type # "ended"
    BY <1>4, <1>5 DEF Chained
  <2> QED
    BY <1>1, <1>3, <1>5, <2>1 DEF RowFollows, Tells
<1> QED
  BY <1>2, <1>3, <1>5 DEF RowFollows

\* What a webhook about the owner makes of the row.
LEMMA HandleWrites ==
  ASSUME Inductive, Numbered, Chains, Clear, Undisturbed, owner \in Sources, Tracked,
         NEW e \in MailOf(owner), Handle(e), ~Gap, e.n \in {done[owner], done[owner] + 1}
  PROVE  Written(e.n)
<1> DEFINE x == owner  n == e.n
<1>1. /\ e \in mail /\ e.src = x /\ n \in Nat /\ n > 0 /\ n <= sold[x].n /\ done[x] \in Nat
      /\ e.type \in Told(kind[x]) /\ kind[x] \in Recurring
      /\ \A f \in MailOf(x) : f.n = n => f = e
  BY MailNumbers DEF MailOf, Inductive, Bought, Numbered, Delivered, Tracked
<1>2. /\ e.type \in Types \ {"refunded"} /\ (e.type = "activated" <=> e.n = 1)
      /\ kind[x] = "razorpay" => e.plan = PlanOf[x]
      /\ e.type = "ended" => e.n = sold[x].n /\ sold[x].state = "ended"
      /\ e.type \in {"activated", "paid"} => e.status = "ACTIVE"
      /\ e.type = "failed" => e.status = "PAST_DUE"
      /\ e.n = sold[x].n /\ sold[x].state = "ended" => e.type = "ended"
  BY DEF Chains, Undisturbed, Tracked, Chained
<1>3. row \in Row /\ row.sub \in [Recurring -> SomeSource]
  BY DEF Inductive, TypeOK, Row
<1>4. kind[x] = "stripe" => tagged /\ row.exists
  BY DEF Tracked, Clear, RowIsThere
<1>5. CASE e.type = "ended"
  <2>1. row'.plan = Free /\ row'.status = "CANCELLED" /\ row'.sub[kind[x]] = None
    <3>1. CASE kind[x] = "stripe"
      BY <1>1, <1>3, <1>4, <1>5, <3>1 DEF Handle, StripeRow, Dropped, Row
    <3>2. CASE kind[x] = "paypal"
      BY <1>1, <1>3, <1>5, <3>2 DEF Handle, PayPalRow, Dropped, Row
    <3>3. CASE kind[x] = "razorpay"
      BY <1>1, <1>3, <1>5, <3>3 DEF Handle, RazorpayRow, Dropped, Row
    <3> QED
      BY <1>1, <3>1, <3>2, <3>3 DEF Recurring
  <2> QED
    BY <1>2, <1>5, <2>1 DEF Written
<1>6. CASE e.type = "activated" \/ (e.type = "updated" /\ kind[x] = "stripe")
  <2>1. /\ row'.sub[kind[x]] = x /\ row'.plan = e.plan /\ row'.status = e.status
        /\ kind[x] = "stripe" => row'.closing = e.closing
    <3>1. CASE kind[x] = "stripe"
      BY <1>1, <1>3, <1>4, <1>6, <3>1 DEF Handle, StripeRow, Recorded, Row
    <3>2. CASE kind[x] = "paypal"
      BY <1>1, <1>2, <1>3, <1>6, <3>2 DEF Handle, PayPalRow, Recorded, Row
    <3>3. CASE kind[x] = "razorpay"
      BY <1>1, <1>2, <1>3, <1>6, <3>3 DEF Handle, RazorpayRow, Recorded, Row
    <3> QED
      BY <1>1, <3>1, <3>2, <3>3 DEF Recurring
  <2>2. kind[x] = "razorpay" => e.type = "activated"
    BY <1>6
  <2> QED
    BY <1>1, <1>2, <1>6, <2>1, <2>2 DEF Written
<1>7. CASE e.type \in {"paid", "failed"} \/ (e.type = "updated" /\ kind[x] = "paypal")
  <2>1. /\ row.sub[kind[x]] = x
        /\ kind[x] = "razorpay" => row.plan = PlanOf[x] /\ row.status = "ACTIVE"
        /\ \/ Follows(e, row.plan, row.status, row.closing)
           \/ row.plan = e.plan /\ row.status = e.status
                /\ (kind[x] = "stripe" => row.closing = e.closing)
    <3>1. n > 1 /\ (n = sold[x].n => sold[x].state # "ended")
      BY <1>1, <1>2, <1>7
    <3> QED
      BY <1>1, <3>1, NextOrSame
  <2>2. /\ row'.sub = row.sub /\ row'.closing = row.closing
        /\ e.type = "updated" => row'.plan = e.plan /\ row'.status = row.status
        /\ e.type # "updated" => row'.plan = row.plan /\ row'.status = e.status
    <3>1. CASE kind[x] = "stripe"
      BY <1>1, <1>2, <1>3, <1>4, <1>7, <3>1 DEF Handle, StripeRow, Row
    <3>2. CASE kind[x] = "paypal"
      BY <1>1, <1>2, <1>3, <1>7, <3>2 DEF Handle, PayPalRow, Row
    <3>3. CASE kind[x] = "razorpay"
      <4>1. e.type = "paid"
        BY <1>1, <1>7, <3>3 DEF Told
      <4> QED
        BY <1>1, <1>2, <1>3, <3>3, <4>1 DEF Handle, RazorpayRow, Row
    <3> QED
      BY <1>1, <3>1, <3>2, <3>3 DEF Recurring
  <2>3. /\ row'.plan = e.plan /\ row'.status = e.status
        /\ kind[x] = "stripe" => row'.closing = e.closing
    BY <1>1, <1>7, <2>1, <2>2 DEF Follows
  <2>4. kind[x] = "razorpay" => e.type = "paid"
    BY <1>1, <1>7 DEF Told
  <2> QED
    BY <1>1, <1>2, <1>7, <2>1, <2>2, <2>3, <2>4 DEF Written
<1> QED
  BY <1>1, <1>2, <1>5, <1>6, <1>7 DEF Told, Recurring

\* A webhook is handled, acknowledged or not.
LEMMA WebhookAgrees ==
  ASSUME Inductive, Numbered, Chains, Agreeing, Undisturbed', NEW e \in mail,
         Deliver(e) \/ DeliverAgain(e)
  PROVE  Clear'
<1>1. /\ Handle(e) /\ Note(e.src, e.n) /\ mail' \subseteq mail /\ \A f \in mail \ mail' : f = e
      /\ UNCHANGED <<kind, tagged, sold, call, refunded, owner, mixed>>
      /\ e.src \in Sources /\ e.n \in Nat
  BY Numbers DEF Deliver, DeliverAgain, Handle, tagVars, Inductive
<1>2. Undisturbed /\ Clear
  BY <1>1, Calmer DEF Note
<1>3. owner \in Sources /\ e.src = owner /\ e \in MailOf(owner)
  BY <1>1, <1>2, OwnerBought DEF Clear, OthersAreOver, Over, MailOf
<1>4. /\ done[owner] <= e.n /\ done'[owner] = e.n
      /\ \A y \in Sources \ {owner} : done'[y] = done[y]
  BY <1>1, <1>3, NotOvertaken
<1>5. e.n > 0 /\ e.n <= sold[owner].n /\ sold[owner].n \in Nat /\ done[owner] \in Nat
  BY <1>3, MailNumbers
<1>6. e.type \in Told(kind[owner]) /\ kind[owner] # "crypto"
  BY <1>3 DEF Inductive, Bought, Told, Recurring
<1>7. /\ row'.paid = row.paid \/ kind[owner] = "order"
      /\ row.exists => row'.exists
      /\ row'.meta = row.meta
  BY <1>1, <1>3, HandleNames, HandleTyped DEF Inductive
<1>8. Tracked /\ ~Gap' => Written(e.n)
  BY <1>1, <1>2, <1>3, <1>4, <1>5, GapCloses, HandleWrites
<1>9. Tracked => EventsFollow'
  BY <1>1, <1>2, <1>3, <1>4, <1>5, <1>8, WrittenEvents
<1>10. Tracked => \A c \in About(owner) : call'[c] = call[c] => CallFollows(c)'
  BY <1>1, <1>2, <1>3, <1>4, <1>5, <1>8, WrittenCalls
<1>11. PaidIsOver'
  <2> SUFFICES ASSUME kind[owner] = "razorpay", row'.paid = owner, row'.sub["razorpay"] = None
               PROVE  sold[owner].state = "ended" /\ e.n = sold[owner].n
    BY <1>1, <1>4 DEF PaidIsOver
  <2>1. row.paid = owner /\ e.type \in {"activated", "paid", "ended"}
    BY <1>6, <1>7 DEF Told
  <2>2. row \in Row /\ row.sub \in [Recurring -> SomeSource]
    BY DEF Inductive, TypeOK, Row
  <2>3. CASE e.type = "activated"
    <3>1. row'.sub["razorpay"] = owner
      BY <1>1, <1>3, <2>2, <2>3 DEF Handle, RazorpayRow, Recorded, Row, Recurring
    <3> QED
      BY <1>3, <3>1, NoneAssumption
  <2>4. CASE e.type = "paid"
    <3>1. row'.sub["razorpay"] = row.sub["razorpay"]
      BY <1>1, <1>3, <2>2, <2>4 DEF Handle, RazorpayRow, Row
    <3>2. sold[owner].state = "ended" /\ done[owner] = sold[owner].n
      BY <1>2, <2>1, <3>1 DEF Clear, PaidIsOver
    <3> QED
      BY <1>1, <1>4, <1>5, <3>2
  <2>5. CASE e.type = "ended"
    BY <1>2, <1>3, <2>5 DEF Chains, Chained, Undisturbed, Recurring
  <2> QED
    BY <2>1, <2>3, <2>4, <2>5
<1>12. \A f \in mail \ mail' : f.src = owner
  BY <1>1, <1>3
<1> QED
  BY <1>1, <1>2, <1>3, <1>4, <1>6, <1>7, <1>9, <1>10, <1>11, <1>12, WrittenAgrees

\* The owner's call writes what it was told.
LEMMA CallWrites ==
  ASSUME Inductive, Numbered, Chains, Clear, Undisturbed, owner \in Sources,
         NEW c \in Calls, Return(c), call[c].src = owner,
         UNCHANGED <<kind, tagged, sold, mail, owner>>, Undisturbed',
         kind[owner] # "crypto", row'.meta = row.meta, row.exists => row'.exists, PaidIsOver',
         NEW n \in Nat, Note(owner, n), n > 0, n <= sold[owner].n,
         Tracked /\ ~Gap /\ n \in {done[owner], done[owner] + 1}
           /\ (n # done[owner] => \E e \in MailOf(owner) : e.n = n) => Written(n)
  PROVE  Clear'
<1>1. /\ done[owner] <= n /\ \A y \in Sources \ {owner} : done'[y] = done[y]
  BY NotOvertaken
<1>2. Tracked /\ ~Gap' => Written(n)
  BY <1>1, GapCloses
<1>3. Tracked => EventsFollow'
  BY <1>1, <1>2, WrittenEvents
<1>4. Tracked => \A d \in About(owner) : call'[d] = call[d] => CallFollows(d)'
  BY <1>1, <1>2, WrittenCalls
<1>5. \A d \in Calls : call'[d] = call[d] \/ call'[d] = Idle
  BY DEF Return, Inductive, TypeOK
<1> QED
  BY <1>1, <1>3, <1>4, <1>5, WrittenAgrees

\* An activation or a verification writes what the provider told it.
LEMMA RecordAgrees ==
  ASSUME Inductive, Numbered, Chains, Agreeing, Undisturbed', NEW c \in Calls, Record(c)
  PROVE  Clear'
<1> DEFINE n == call[c].n
<1> USE DEF tagVars
<1>0. PICK x \in Sources : x = call[c].src
  BY CallKnowsSource DEF Record
<1>1. /\ UNCHANGED <<kind, tagged, sold, mail, refunded, owner, mixed>>
      /\ Note(x, n) /\ Return(c) /\ call[c].do = "record" /\ n \in Nat
  BY <1>0, Numbers DEF Record, Inductive
<1>2. Undisturbed /\ Clear
  BY <1>1, Calmer DEF Note
<1>3. /\ done[x] <= n /\ done'[x] = n
      /\ \A y \in Sources \ {x} : done'[y] = done[y]
  BY <1>1, NotOvertaken
<1>4. owner \in Sources /\ x = owner
  <2>1. n \in Nat /\ done[x] \in Nat /\ ~(n < done[x])
    BY <1>1, <1>3, Numbers DEF Inductive
  <2> QED
    BY <1>0, <1>1, <1>2, <2>1, OwnerBought DEF Clear, OthersAreOver, Over, About
<1>5. /\ kind[x] \in {"paypal", "razorpay"} /\ (kind[x] = "razorpay" => n = 1)
      /\ n <= sold[x].n /\ Tracked /\ kind[x] \in Recurring
  BY <1>0, <1>1, <1>4 DEF Numbered, CallNumbered, Tracked, Recurring
<1>6. /\ row'.exists /\ row'.sub[kind[x]] = x /\ row'.plan = call[c].plan
      /\ row'.status = call[c].status /\ row'.meta = row.meta
  BY <1>0, <1>5 DEF Record, Recorded, Inductive, TypeOK, Row
<1>7. PaidIsOver'
  BY <1>1, <1>4, <1>6, NoneAssumption DEF PaidIsOver
<1>8. RecordFollows(c) /\ Chained(x)
  BY <1>0, <1>2, <1>4, <1>5 DEF Clear, CallsFollow, CallFollows, Chains, Undisturbed, About
<1>9. CASE n > 0
  <2>1. ASSUME ~Gap, n # done[x] => \E e \in MailOf(x) : e.n = n
        PROVE  Written(n)
    <3>1. ~(n = sold[x].n /\ sold[x].state = "ended")
      BY <1>1, <1>4, <1>8, <1>9 DEF RecordFollows
    <3>2. \A e \in MailOf(x) : e.n = n => e.plan = call[c].plan /\ e.status = call[c].status
      BY <1>1, <1>4, <1>8, <1>9 DEF RecordFollows
    <3>3. done[x] = n => row.plan = call[c].plan /\ row.status = call[c].status
      BY <1>1, <1>4, <1>8, <1>9, <2>1 DEF RecordFollows
    <3>4. kind[x] = "razorpay" => call[c].plan = PlanOf[x] /\ call[c].status = "ACTIVE"
      <4> SUFFICES ASSUME kind[x] = "razorpay", n = 1
                   PROVE  call[c].plan = PlanOf[x] /\ call[c].status = "ACTIVE"
        BY <1>5
      <4>1. CASE \E e \in MailOf(x) : e.n = n
        BY <1>8, <3>2, <4>1 DEF Chained
      <4>2. CASE done[x] = n
        BY <1>2, <1>4, <1>5, <1>9, <2>1, <3>1, <3>3, <4>2 DEF Clear, EventsFollow, RowFollows
      <4> QED
        BY <2>1, <4>1, <4>2
    <3>5. kind[x] # "stripe"
      BY <1>5
    <3> QED
      BY <1>4, <1>6, <2>1, <3>1, <3>2, <3>3, <3>4, <3>5 DEF Written
  <2>2. kind[x] # "crypto"
    BY <1>5
  <2> QED
    BY <1>0, <1>1, <1>2, <1>4, <1>5, <1>6, <1>7, <1>9, <2>1, <2>2, CallWrites
<1>10. CASE n = 0
  <2>1. done'[owner'] = 0
    BY <1>1, <1>3, <1>4, <1>10
  <2>2. EventsFollow'
    BY <2>1 DEF EventsFollow
  <2>3. done[owner] = 0
    <3>1. done[owner] \in Nat
      BY <1>4, MailNumbers
    <3> QED
      BY <1>3, <1>4, <1>10, <3>1
  <2>4. ASSUME NEW d \in About(owner), call'[d] = call[d]
        PROVE  CallFollows(d)'
    <3>1. CallFollows(d) /\ call[d].n \in Nat
      BY <1>2, <1>4, <1>5, MailNumbers DEF Clear, CallsFollow
    <3>2. MailOf(owner)' = MailOf(owner) /\ owner' = owner
      BY <1>1 DEF MailOf
    <3>3. RecordFollows(d)' /\ DropFollows(d)'
      BY <1>1, <2>1, <2>3, <2>4, <3>1, <3>2 DEF CallFollows, RecordFollows, DropFollows
    <3>4. ReplanFollows(d)'
      BY <1>1, <2>1, <2>3, <2>4, <3>1, <3>2 DEF CallFollows, ReplanFollows
    <3>5. call[d].n > 1 => 0 + 1 # call[d].n /\ 0 # call[d].n
      BY <3>1
    <3>6. CloseFollows(d)'
      BY <1>1, <2>1, <2>3, <2>4, <3>1, <3>2, <3>5 DEF CallFollows, CloseFollows
    <3> QED
      BY <3>3, <3>4, <3>6 DEF CallFollows
  <2>5. \A d \in Calls : call'[d] = call[d] \/ call'[d] = Idle
    BY <1>1 DEF Return, Inductive, TypeOK
  <2>6. kind[owner] # "crypto"
    BY <1>4, <1>5
  <2> QED
    BY <1>1, <1>2, <1>3, <1>4, <1>6, <1>7, <2>2, <2>4, <2>5, <2>6, WrittenAgrees
<1> QED
  BY <1>1, <1>9, <1>10

\* A cancellation at Stripe or an upgrade at PayPal is written.
LEMMA CloseAgrees ==
  ASSUME Inductive, Numbered, Chains, Agreeing, Undisturbed', NEW c \in Calls,
         Close(c) \/ Replan(c)
  PROVE  Clear'
<1> DEFINE n == call[c].n
<1> USE DEF tagVars
<1>0. PICK x \in Sources : x = call[c].src
  BY CallKnowsSource DEF Close, Replan
<1>1. /\ UNCHANGED <<kind, tagged, sold, mail, refunded, owner, mixed>>
      /\ Note(x, n) /\ Return(c) /\ call[c].do \in {"close", "replan"} /\ n \in Nat
  BY <1>0, Numbers DEF Close, Replan, Inductive
<1>2. Undisturbed /\ Clear
  BY <1>1, Calmer DEF Note
<1>3. owner \in Sources /\ x = owner /\ c \in About(owner)
  BY <1>0, <1>1, <1>2, OwnerBought DEF Clear, OthersAreOver, Over, About
<1>4. /\ n <= sold[x].n /\ n > 0
      /\ kind[x] = IF call[c].do = "close" THEN "stripe" ELSE "paypal"
  BY <1>0, <1>1, <1>3 DEF Numbered, CallNumbered
<1>5. /\ row'.exists = row.exists /\ row'.sub = row.sub /\ row'.meta = row.meta
      /\ row'.status = row.status
      /\ call[c].do = "close" => row'.plan = row.plan /\ row'.closing = TRUE
      /\ call[c].do = "replan" => row'.plan = call[c].plan
  BY DEF Close, Replan, Inductive, TypeOK, Row
<1>6. PaidIsOver'
  BY <1>1, <1>3, <1>4 DEF PaidIsOver
<1>7. ASSUME Tracked
      PROVE  /\ n > 1 /\ (n = sold[x].n => sold[x].state # "ended")
             /\ CloseFollows(c) /\ ReplanFollows(c) /\ Chained(x)
  <2>1. CloseFollows(c) /\ ReplanFollows(c) /\ Chained(x)
    BY <1>2, <1>3, <1>7 DEF Clear, CallsFollow, CallFollows, Chains, Undisturbed, Tracked
  <2> QED
    BY <1>1, <1>3, <2>1 DEF CloseFollows, ReplanFollows
<1>8. ASSUME Tracked, ~Gap, n \in {done[owner], done[owner] + 1},
             n # done[owner] => \E e \in MailOf(owner) : e.n = n
      PROVE  Written(n)
  <2>1. /\ row.sub[kind[x]] = x
        /\ \A e \in MailOf(x) : e.n = n =>
             \/ Follows(e, row.plan, row.status, row.closing)
             \/ row.plan = e.plan /\ row.status = e.status
                  /\ (kind[x] = "stripe" => row.closing = e.closing)
    BY <1>1, <1>2, <1>3, <1>4, <1>7, <1>8, NextOrSame
  <2>2. \A e \in MailOf(x) : e.n = n => e.type = "updated" /\ row.status = e.status
    BY <1>1, <1>3, <1>7, <1>8, <2>1 DEF Follows, CloseFollows, ReplanFollows
  <2>3. (\A e \in MailOf(x) : e.n # n) => done[x] = n
    BY <1>3, <1>8
  <2>4. CASE call[c].do = "close"
    <3>1. \A e \in MailOf(x) : e.n = n => e.closing /\ row.plan = e.plan
      <4> SUFFICES ASSUME NEW e \in MailOf(x), e.n = n PROVE e.closing /\ row.plan = e.plan
        OBVIOUS
      <4>1. e.closing /\ (done[x] + 1 = n => row.plan = e.plan)
        BY <1>3, <1>7, <1>8, <2>4 DEF CloseFollows
      <4>2. CASE n = done[x]
        <5>1. done[x] > 0 /\ ~(done[x] = sold[x].n /\ sold[x].state = "ended") /\ e.type # "ended"
          BY <1>1, <1>7, <1>8, <2>2, <4>2
        <5> QED
          BY <1>2, <1>3, <1>8, <4>1, <4>2, <5>1 DEF Clear, EventsFollow, RowFollows, Tells
      <4> QED
        BY <1>3, <1>8, <4>1, <4>2
    <3>2. \A e \in MailOf(x) : e.n = n => row'.closing = e.closing
      BY <1>3, <1>5, <2>4, <3>1 DEF Inductive, TypeOK, MailOf, Event
    <3>3. (\A e \in MailOf(x) : e.n # n) => row'.closing = row.closing
      <4>1. done[x] = n => row.closing
        BY <1>3, <1>7, <1>8, <2>4 DEF CloseFollows
      <4>2. row.closing \in BOOLEAN /\ row'.closing = TRUE
        BY <1>5, <2>4 DEF Inductive, TypeOK, Row
      <4> QED
        BY <2>3, <4>1, <4>2
    <3>4. kind[x] = "stripe" /\ row'.plan = row.plan /\ row'.status = row.status /\ row'.sub = row.sub
      BY <1>4, <1>5, <2>4
    <3> QED
      BY <1>3, <1>7, <1>8, <2>1, <2>2, <3>1, <3>2, <3>3, <3>4 DEF Written
  <2>5. CASE call[c].do = "replan"
    <3>1. \A e \in MailOf(x) : e.n = n => e.plan = call[c].plan
      BY <1>3, <1>7, <1>8, <2>5 DEF ReplanFollows
    <3>2. (\A e \in MailOf(x) : e.n # n) => row.plan = call[c].plan
      BY <1>3, <1>7, <1>8, <2>3, <2>5 DEF ReplanFollows
    <3>3. kind[x] = "paypal" /\ row'.plan = call[c].plan /\ row'.status = row.status /\ row'.sub = row.sub
      BY <1>4, <1>5, <2>5
    <3> QED
      BY <1>3, <1>7, <1>8, <2>1, <2>2, <3>1, <3>2, <3>3 DEF Written
  <2> QED
    BY <1>1, <2>4, <2>5
<1>9. kind[owner] # "crypto" /\ call[c].src = owner
  BY <1>0, <1>3, <1>4
<1> QED
  BY <1>1, <1>2, <1>3, <1>4, <1>5, <1>6, <1>8, <1>9, CallWrites

\* A cancellation at PayPal or Razorpay is written.
LEMMA DropAgrees ==
  ASSUME Inductive, Numbered, Chains, Agreeing, Undisturbed', NEW c \in Calls, Drop(c)
  PROVE  Clear'
<1> USE DEF tagVars
<1>0. PICK x \in Sources : x = call[c].src
  BY CallKnowsSource DEF Drop
<1>1. /\ UNCHANGED <<kind, tagged, sold, mail, refunded, owner>> /\ Return(c)
      /\ mixed => mixed' /\ overtaken \subseteq overtaken'
      /\ IF call[c].n = 0 THEN UNCHANGED <<done, overtaken>> ELSE Note(x, call[c].n)
      /\ call[c].do = "drop" /\ call[c].n \in Nat /\ owner = x
  BY <1>0, Numbers DEF Drop, Inductive, Note, Undisturbed
<1>2. Undisturbed /\ Clear
  <2>1. UNCHANGED owner /\ (mixed => mixed') /\ overtaken \subseteq overtaken' /\ refunded \subseteq refunded'
    BY <1>1 DEF Drop, Note
  <2> QED
    BY <2>1, Calmer
<1>3. owner \in Sources /\ c \in About(owner)
  BY <1>0, <1>1, <1>2, OwnerBought DEF About
<1>4. kind[x] \in {"paypal", "razorpay", "order"} /\ row \in Row /\ row.sub \in [Recurring -> SomeSource]
  BY <1>0, <1>1 DEF Numbered, CallNumbered, Inductive, TypeOK, Row
<1>5. /\ row'.exists = row.exists /\ row'.meta = row.meta
      /\ row'.plan = Free /\ row'.status = "CANCELLED"
      /\ kind[x] \in Recurring => row'.sub[kind[x]] = None
      /\ kind[x] = "razorpay" => row'.paid = None
  <2>1. CASE kind[x] = "paypal"
    BY <1>0, <1>4, <2>1 DEF Drop, Dropped, Row, Recurring
  <2>2. CASE kind[x] = "razorpay"
    <3> DEFINE d == Dropped("razorpay")
    <3>1. /\ d \in Row /\ d.exists = row.exists /\ d.meta = row.meta
          /\ d.plan = Free /\ d.status = "CANCELLED" /\ d.sub["razorpay"] = None
      BY <1>4, DroppedTyped DEF Dropped, Row, Inductive, TypeOK, Recurring
    <3>2. row' = [d EXCEPT !.paid = None]
      BY <1>0, <2>2 DEF Drop
    <3> HIDE DEF d
    <3> QED
      BY <2>2, <3>1, <3>2 DEF Row
  <2>3. CASE kind[x] = "order"
    BY <1>0, <1>4, <2>3 DEF Drop, Dropped, Row, Recurring
  <2> QED
    BY <1>4, <2>1, <2>2, <2>3
<1>6. PaidIsOver'
  BY <1>1, <1>3, <1>5, NoneAssumption DEF PaidIsOver
<1>7. CASE Tracked
  <2>1. sold[x].state = "ended" /\ IF call[c].n = 0 THEN done[x] = sold[x].n ELSE call[c].n = sold[x].n
    BY <1>1, <1>2, <1>3, <1>7 DEF Clear, CallsFollow, CallFollows, DropFollows
  <2>2. sold[x].n > 0 /\ sold[x].n \in Nat /\ sold[x].n <= sold[x].n
    <3>1. sold[x].n > 1 /\ sold[x].n \in Nat
      BY <1>1, <1>7, <2>1, MailNumbers DEF Tracked, Numbered, Standing
    <3> QED
      BY <3>1
  <2>3. Note(x, sold[x].n)
    <3>1. CASE call[c].n = 0
      <4>1. ~(sold[x].n < sold[x].n) /\ ~(sold[x].n > sold[x].n)
        BY <2>2
      <4> QED
        BY <1>1, <2>1, <3>1, <4>1 DEF Note, Inductive, TypeOK
    <3>2. CASE call[c].n # 0
      BY <1>1, <2>1, <3>2
    <3> QED
      BY <3>1, <3>2
  <2>4. Written(sold[x].n)
    BY <1>1, <1>5, <1>7, <2>1 DEF Written, Tracked
  <2>5. kind[owner] # "crypto" /\ (row.exists => row'.exists)
    BY <1>1, <1>4, <1>5
  <2> QED
    BY <1>0, <1>1, <1>2, <1>3, <1>5, <1>6, <2>2, <2>3, <2>4, <2>5, CallWrites
<1>8. CASE ~Tracked
  <2>1. \A y \in Sources \ {owner} : done'[y] = done[y]
    BY <1>1 DEF Note, Inductive, TypeOK
  <2>2. \A d \in Calls : call'[d] = call[d] \/ call'[d] = Idle
    BY <1>1 DEF Return, Inductive, TypeOK
  <2>3. kind[owner] # "crypto" /\ (row.exists => row'.exists)
    BY <1>1, <1>4, <1>5
  <2> QED
    BY <1>1, <1>2, <1>3, <1>5, <1>6, <1>8, <2>1, <2>2, <2>3, WrittenAgrees
<1> QED
  BY <1>7, <1>8

-----------------------------------------------------------------------------
(* Every step keeps Agreeing: what is bought. *)

\* Whoever is not busy when something is bought beside it is over.
LEMMA BoughtAlone ==
  ASSUME Undisturbed', NEW x \in Sources, Owns(x),
         \A y \in Sources \ {x} : sold'[y] = sold[y], mail' = mail, row'.meta = row.meta,
         \A d \in Calls : call'[d] = call[d] \/ call'[d].src = x
  PROVE  owner' = x /\ OthersAreOver'
<1>1. owner' = x /\ \A y \in Sources \ {x} : ~Busy(y)
  BY DEF Owns, Undisturbed
<1>2. ASSUME NEW y \in Sources \ {x} PROVE Over(y)'
  <2>1. About(y)' = {} /\ MailOf(y)' = {}
    BY <1>1, <1>2 DEF Busy, About, MailOf
  <2> QED
    BY <1>1, <1>2, <2>1 DEF Busy, Over
<1> QED
  BY <1>1, <1>2 DEF OthersAreOver

\* A subscription or an order is bought.
LEMMA BuyAgrees ==
  ASSUME Inductive, Numbered, Undisturbed', NEW x \in Sources, Subscribe(x) \/ Order(x)
  PROVE  Clear'
<1> USE DEF tagVars
<1>1. /\ kind[x] \in Recurring \union {"order"} /\ kind' = kind /\ sold[x].state = "none"
      /\ sold'[x].state = "open" /\ \A y \in Sources \ {x} : sold'[y] = sold[y]
      /\ UNCHANGED <<mail, call, done>> /\ Owns(x) /\ row'.meta = row.meta
      /\ kind[x] = "razorpay" => row'.paid = row.paid
      /\ kind[x] \in {"stripe", "razorpay"} => row'.exists
  BY DEF Subscribe, Order, Inductive, TypeOK, Row, Sale, Recurring
<1>2. owner' = x /\ OthersAreOver'
  BY <1>1, BoughtAlone
<1>3. done[x] = 0
  <2>1. sold[x].n = 0
    BY <1>1 DEF Numbered, Standing
  <2>2. done[x] \in Nat /\ done[x] <= 0
    BY <2>1, MailNumbers
  <2> QED
    BY <2>2
<1>4. \A c \in About(x) : call[c].do = "idle"
  BY <1>1 DEF About, Numbered, CallNumbered, Inductive, CallsKnow, CallKnows, Recurring
<1>5. CallsFollow'
  <2> SUFFICES ASSUME NEW c \in About(x)' PROVE CallFollows(c)'
    BY <1>2 DEF CallsFollow
  <2>1. call'[c].do = "idle"
    BY <1>1, <1>4 DEF About
  <2> QED
    BY <2>1 DEF CallFollows, RecordFollows, CloseFollows, ReplanFollows, DropFollows
<1>6. EventsFollow'
  BY <1>1, <1>2, <1>3 DEF EventsFollow
<1>7. PaidIsOver'
  <2>1. row.paid = x => FALSE
    BY <1>1, NoneAssumption DEF Numbered
  <2> QED
    BY <1>1, <1>2, <2>1 DEF PaidIsOver
<1>8. RowIsThere' /\ IntentAgrees'
  BY <1>1, <1>2 DEF RowIsThere, IntentAgrees
<1> QED
  BY <1>2, <1>5, <1>6, <1>7, <1>8 DEF Clear

\* Of an order or an intent there is less to say.
LEMMA UntrackedAgrees ==
  ASSUME kind'[owner'] \in {"order", "crypto"}, OthersAreOver', IntentAgrees'
  PROVE  Clear'
  BY DEF Clear, PaidIsOver, RowIsThere, CallsFollow, EventsFollow, Tracked, Recurring

\* An intent is begun.
LEMMA IntentBegins ==
  ASSUME Inductive, Undisturbed', NEW c \in Calls, NEW x \in Sources, Intent(c, x)
  PROVE  Clear'
<1> USE DEF tagVars
<1>1. /\ kind[x] = "crypto" /\ sold[x].state = "none" /\ UNCHANGED <<kind, sold, mail>>
      /\ Owns(x) /\ row'.meta = row.meta
      /\ call'[c].src = x /\ \A d \in Calls \ {c} : call'[d] = call[d]
  BY DEF Intent, Begin, Idle, Inductive, TypeOK, Row
<1>2. owner' = x /\ OthersAreOver'
  BY <1>1, BoughtAlone
<1>3. IntentAgrees'
  BY <1>1, <1>2 DEF IntentAgrees
<1> QED
  BY <1>1, <1>2, <1>3, UntrackedAgrees

\* The steps about an order or an intent are steps about the owner.
LEMMA IntentAgreeing ==
  ASSUME Inductive, Numbered, Agreeing, Undisturbed', NEW x \in Sources,
         \/ Expire(x) \/ VerifyOrder(x)
         \/ \E c \in Calls : call[c].src = x /\ (WriteIntent(c) \/ Clean(c) \/ WriteConfirmed(c))
  PROVE  Clear'
<1> USE DEF tagVars, watchVars
<1>1. /\ UNCHANGED <<kind, mail, done, owner, mixed, overtaken, refunded>>
      /\ kind[x] \in {"order", "crypto"} /\ \A y \in Sources \ {x} : sold'[y] = sold[y]
      /\ \A d \in Calls : call'[d] = call[d] \/ call'[d] = Idle
  BY DEF Expire, VerifyOrder, WriteIntent, Clean, WriteConfirmed, Return, Inductive, TypeOK,
         CallsKnow, CallKnows
<1>2. Undisturbed /\ Clear
  BY <1>1, Calmer
<1>3. owner \in Sources /\ x = owner
  <2>1. owner \in Sources
    BY <1>2, OwnerBought
  <2>2. CASE Expire(x)
    BY <1>2, <2>1, <2>2, OthersAreStill DEF Expire
  <2>3. CASE VerifyOrder(x)
    <3>1. sold[x].n > 0 /\ sold[x].n \in Nat /\ kind[x] = "order"
      BY <2>3, MailNumbers DEF VerifyOrder
    <3>2. sold[x].n # 0
      BY <3>1
    <3> QED
      BY <1>2, <2>1, <3>1, <3>2, OthersAreStill DEF Numbered, Standing
  <2>4. CASE \E c \in Calls : call[c].src = x /\ (WriteIntent(c) \/ Clean(c) \/ WriteConfirmed(c))
    BY <1>2, <2>1, <2>4 DEF Clear, OthersAreOver, Over, About, WriteIntent, Clean, WriteConfirmed
  <2> QED
    BY <2>1, <2>2, <2>3, <2>4
<1>4. row'.meta.pending \in {row.meta.pending, x, None}
  <2>1. CASE Expire(x) \/ VerifyOrder(x)
    BY <2>1 DEF Expire, VerifyOrder, Inductive, TypeOK, Row
  <2>2. CASE \E c \in Calls : call[c].src = x /\ (WriteIntent(c) \/ Clean(c) \/ WriteConfirmed(c))
    <3>1. PICK c \in Calls : call[c].src = x /\ (WriteIntent(c) \/ Clean(c) \/ WriteConfirmed(c))
      BY <2>2
    <3>2. call[c].seen \in Meta /\ row \in Row
      BY DEF Inductive, TypeOK, ApiCall
    <3>3. CASE WriteIntent(c)
      BY <3>1, <3>2, <3>3 DEF WriteIntent, Row, Meta
    <3>4. CASE Clean(c)
      BY <3>1, <3>2, <3>4 DEF Clean, Row, Meta
    <3>5. CASE WriteConfirmed(c)
      BY <3>1, <3>2, <3>5 DEF WriteConfirmed, ConfirmedMeta, Row, Meta
    <3> QED
      BY <3>1, <3>3, <3>4, <3>5
  <2> QED
    BY <2>1, <2>2
<1>5. OthersAreOver'
  <2> SUFFICES ASSUME NEW y \in Sources \ {owner} PROVE Over(y)'
    BY <1>1 DEF OthersAreOver
  <2>1. Over(y)
    BY <1>2 DEF Clear, OthersAreOver
  <2>2. MailOf(y)' = MailOf(y) /\ \A d \in About(y)' : d \in About(y) /\ call'[d] = call[d]
    BY <1>1, NoneAssumption DEF MailOf, About, Idle
  <2> QED
    BY <1>1, <1>3, <1>4, <2>1, <2>2, NoneAssumption DEF Over
<1>6. IntentAgrees'
  <2> SUFFICES ASSUME kind[x] = "crypto", sold'[x].state = "active"
               PROVE  row'.plan = PlanOf[x] /\ row'.status = "ACTIVE"
    BY <1>1, <1>3 DEF IntentAgrees
  <2>1. CASE \E c \in Calls : call[c].src = x /\ WriteConfirmed(c)
    <3>1. PICK c \in Calls : call[c].src = x /\ WriteConfirmed(c)
      BY <2>1
    <3>2. row \in Row
      BY DEF Inductive, TypeOK
    <3> QED
      BY <3>1, <3>2 DEF WriteConfirmed, Row
  <2>2. CASE \E c \in Calls : call[c].src = x /\ Clean(c)
    <3>1. sold' = sold /\ row'.plan = row.plan /\ row'.status = row.status
      BY <2>2 DEF Clean, Inductive, TypeOK, Row
    <3> QED
      BY <1>2, <1>3, <3>1 DEF Clear, IntentAgrees
  <2>3. CASE Expire(x) \/ \E c \in Calls : call[c].src = x /\ WriteIntent(c)
    <3>1. \E s \in {"ended", "open"} : sold' = [sold EXCEPT ![x].state = s]
      BY <2>3 DEF Expire, WriteIntent
    <3> QED
      BY <3>1 DEF Inductive, TypeOK, Sale
  <2>4. CASE VerifyOrder(x)
    BY <2>4 DEF VerifyOrder
  <2> QED
    BY <2>1, <2>2, <2>3, <2>4
<1> QED
  BY <1>1, <1>3, <1>5, <1>6, UntrackedAgrees

\* The row is created by a look at it.
LEMMA VisitAgrees ==
  ASSUME Inductive, Agreeing, Undisturbed', Visit
  PROVE  Clear'
<1> USE DEF tagVars, watchVars
<1>1. /\ UNCHANGED <<kind, tagged, sold, mail, call, done, owner, mixed, overtaken, refunded>>
      /\ row' = [row EXCEPT !.exists = TRUE] /\ row \in Row
  BY DEF Visit, Inductive, TypeOK
<1>2. Undisturbed /\ Clear
  BY <1>1, Calmer
<1>3. /\ row'.exists /\ row'.sub = row.sub /\ row'.paid = row.paid /\ row'.plan = row.plan
      /\ row'.status = row.status /\ row'.closing = row.closing /\ row'.meta = row.meta
  BY <1>1 DEF Row
<1>4. OthersAreOver' /\ PaidIsOver' /\ RowIsThere' /\ IntentAgrees'
  BY <1>1, <1>2, <1>3 DEF Clear, OthersAreOver, Over, About, MailOf, PaidIsOver, RowIsThere, IntentAgrees
<1>5. MailOf(owner)' = MailOf(owner) /\ About(owner)' = About(owner) /\ Gap' = Gap
      /\ Tracked' = Tracked
  BY <1>1 DEF MailOf, About, Gap, Tracked
<1>6. CallsFollow'
  <2> SUFFICES ASSUME Tracked, NEW c \in About(owner) PROVE CallFollows(c)'
    BY <1>5 DEF CallsFollow
  <2>1. CallFollows(c)
    BY <1>2 DEF Clear, CallsFollow
  <2> QED
    BY <1>1, <1>3, <1>5, <2>1
    DEF CallFollows, RecordFollows, CloseFollows, ReplanFollows, DropFollows
<1>7. EventsFollow'
  BY <1>1, <1>2, <1>3, <1>5 DEF Clear, EventsFollow, RowFollows, Lives, Tells, Follows
<1> QED
  BY <1>4, <1>6, <1>7 DEF Clear

\* Every step keeps Agreeing.
LEMMA AgreeingStep == Inductive /\ Numbered /\ Chains /\ Agreeing /\ [Next]_vars => Agreeing'
<1> SUFFICES ASSUME Inductive, Numbered, Chains, Agreeing, [Next]_vars, Undisturbed'
             PROVE  Clear'
  BY DEF Agreeing
<1> USE DEF tagVars, watchVars
<1>1. CASE UNCHANGED vars
  <2>1. Undisturbed /\ Clear
    BY <1>1, Calmer DEF vars
  <2>2. /\ OthersAreOver' = OthersAreOver /\ PaidIsOver' = PaidIsOver /\ RowIsThere' = RowIsThere
        /\ IntentAgrees' = IntentAgrees /\ EventsFollow' = EventsFollow
    BY <1>1 DEF vars, OthersAreOver, Over, About, MailOf, PaidIsOver, RowIsThere, IntentAgrees,
       EventsFollow, Tracked, Gap, RowFollows, Lives, Tells, Follows
  <2>3. CallsFollow' = CallsFollow
    BY <1>1 DEF vars, CallsFollow, Tracked, About, MailOf, Gap, CallFollows, RecordFollows,
       CloseFollows, ReplanFollows, DropFollows
  <2> QED
    BY <2>1, <2>2, <2>3 DEF Clear
<1>2. CASE Visit
  BY <1>2, VisitAgrees
<1>3. ASSUME NEW x \in Sources, Provider(x) PROVE Clear'
  BY <1>3, ProviderAgrees
<1>4. ASSUME NEW x \in Sources, Expire(x) \/ Subscribe(x) \/ Order(x) \/ VerifyOrder(x)
      PROVE  Clear'
  BY <1>4, BuyAgrees, IntentAgreeing
<1>5. ASSUME NEW e \in mail, Deliver(e) \/ DeliverAgain(e) PROVE Clear'
  BY <1>5, WebhookAgrees
<1>6. ASSUME NEW c \in Calls, Open(c) \/ Step(c) \/ Crash(c) PROVE Clear'
  <2>1. CASE \/ \E x \in Sources : Activate(c, x) \/ Verify(c, x)
             \/ \E k \in Recurring : Cancel(c, k)
             \/ \E p \in Plans : Upgrade(c, p)
             \/ CancelPaid(c) \/ Poll(c) \/ Confirm(c)
    BY <2>1, OpenAgrees
  <2>2. CASE \E x \in Sources : Refund(c, x)
    BY <2>2 DEF Refund, Undisturbed
  <2>3. CASE \E x \in Sources : Intent(c, x)
    BY <2>3, IntentBegins
  <2>4. CASE Record(c)
    BY <2>4, RecordAgrees
  <2>5. CASE CancelThere(c)
    BY <2>5, CancelAgrees
  <2>6. CASE Refused(c) \/ Crash(c) \/ (UpgradeThere(c) /\ Return(c) /\ UNCHANGED <<sold, mail>>)
    BY <2>6, ReturnAgrees DEF Refused, Crash, UpgradeThere
  <2>7. CASE Drop(c)
    BY <2>7, DropAgrees
  <2>8. CASE Close(c) \/ Replan(c)
    BY <2>8, CloseAgrees
  <2>9. CASE UpgradeThere(c) /\ ~(Return(c) /\ UNCHANGED <<sold, mail>>)
    BY <2>9, UpgradeAgrees
  <2>10. CASE MarkRefunded(c)
    <3>1. CallNumbered(c) /\ call[c].do = "refund" /\ refunded' = refunded
      BY <2>10 DEF Numbered, MarkRefunded
    <3> QED
      BY <3>1 DEF CallNumbered, Undisturbed
  <2>11. CASE WriteIntent(c) \/ Clean(c) \/ WriteConfirmed(c)
    <3>1. PICK x \in Sources : x = call[c].src
      BY <2>11, CallKnowsSource DEF WriteIntent, Clean, WriteConfirmed
    <3> QED
      BY <2>11, <3>1, IntentAgreeing
  <2> QED
    BY <1>6, <2>1, <2>2, <2>3, <2>4, <2>5, <2>6, <2>7, <2>8, <2>9, <2>10, <2>11 DEF Open, Step
<1> QED
  BY <1>1, <1>2, <1>3, <1>4, <1>5, <1>6 DEF Next

\* When all is quiet, nothing is left to be written.
LEMMA QuietAgrees == Inductive /\ Numbered /\ Agreeing => RowAgrees
<1> SUFFICES ASSUME Inductive, Numbered, Agreeing, Quiet, Undisturbed, kind[owner] # "order",
                    kind[owner] = "stripe" => tagged
             PROVE  /\ Lives(owner) =>
                         /\ row.plan = sold[owner].plan
                         /\ row.status = StatusOf(sold[owner].state)
                         /\ kind[owner] # "crypto" => row.sub[kind[owner]] = owner
                         /\ kind[owner] = "stripe" => row.closing = sold[owner].closing
                    /\ kind[owner] \in Recurring /\ sold[owner].state = "ended" =>
                         row.plan = Free /\ row.status = "CANCELLED" /\ row.sub[kind[owner]] = None
  BY DEF RowAgrees, Undisturbed
<1> DEFINE x == owner
<1>1. x \in Sources /\ Clear
  BY OwnerBought DEF Agreeing
<1>2. MailOf(x) = {} /\ ~Gap
  BY DEF Quiet, MailOf, Gap
<1>3. sold[x].n > 0 => done[x] = sold[x].n
  <2> SUFFICES ASSUME sold[x].n > 0 PROVE done[x] = sold[x].n
    OBVIOUS
  <2>1. sold[x].n \in Nat /\ done[x] \in Nat /\ done[x] <= sold[x].n
    BY <1>1, MailNumbers
  <2>2. sold[x].n \in 1 .. sold[x].n
    BY <2>1
  <2>3. sold[x].n <= done[x]
    BY <1>1, <1>2, <2>2 DEF Numbered, Delivered
  <2> QED
    BY <2>1, <2>3
<1>4. CASE kind[x] \in Recurring
  <2> SUFFICES ASSUME Lives(x) \/ sold[x].state = "ended" PROVE RowFollows /\ done[x] = sold[x].n
    BY <1>4 DEF RowFollows, Recurring, Lives
  <2>1. sold[x].n > 0 /\ sold[x].n \in Nat
    <3>1. sold[x].n \in Nat /\ (sold[x].n > 0 \/ sold[x].n > 1)
      BY <1>1, <1>4, MailNumbers DEF Numbered, Standing, Lives
    <3> QED
      BY <3>1
  <2>2. done[x] = sold[x].n /\ done[x] > 0
    BY <1>3, <2>1
  <2>3. Tracked
    BY <1>4 DEF Tracked
  <2> QED
    BY <1>1, <1>2, <2>2, <2>3 DEF Clear, EventsFollow
<1>5. CASE kind[x] = "crypto"
  <2>1. Lives(x) => sold[x].state = "active" /\ sold[x].plan = PlanOf[x]
    BY <1>1, <1>5 DEF Numbered, Standing, Lives
  <2> QED
    BY <1>1, <1>5, <2>1 DEF Clear, IntentAgrees, StatusOf, Recurring
<1>6. CASE kind[x] \notin Kinds
  BY <1>1, <1>6 DEF Inductive, Bought, Lives, Kinds
<1> QED
  BY <1>4, <1>5, <1>6 DEF Kinds

\* When all webhooks are in and no call is under way, the row says what the
\* provider says, however the webhooks and the calls were interleaved, repeated
\* and cut off, for any number of them: the plan, whether it is paid, which
\* subscription it is and whether it is about to end.  What RowAgrees excuses is
\* excused here too.
THEOREM RowsAgree == Spec => []RowAgrees
<1>1. Init => Inductive /\ Numbered /\ Chains /\ Agreeing
  <2>1. Init => Chains /\ Agreeing
    BY DEF Init, Chains, Chained, MailOf, Agreeing, Undisturbed
  <2> QED
    BY <2>1, InductiveInit, NumberedInit
<1>2. Inductive /\ Numbered /\ Chains /\ Agreeing /\ [Next]_vars =>
        (Inductive /\ Numbered /\ Chains /\ Agreeing)'
  BY InductiveStep, NumberedStep, ChainsStep, AgreeingStep
<1>3. Inductive /\ Numbered /\ Chains /\ Agreeing => RowAgrees
  BY QuietAgrees
<1> QED
  BY <1>1, <1>2, <1>3, PTL DEF Spec
=============================================================================
