------------------------------ MODULE Billing ------------------------------
(***************************************************************************)
(* One tenant's billing_info row, which four rails write: subscriptions    *)
(* at Stripe, PayPal and Razorpay, one-time orders at Razorpay, and        *)
(* intents to pay in crypto that an administrator confirms by hand.        *)
(*                                                                         *)
(* A provider numbers what happens to a subscription and sends a webhook   *)
(* for each of it until one is answered, in any order.  Customer ids,      *)
(* periods and amounts are left out: no handler decides by them.           *)
(***************************************************************************)
EXTENDS Naturals

CONSTANTS
  Sources,    \* what may be bought: subscriptions, orders, intents
  Mixes,      \* bound: what is bought together, [Sources -> Kinds and None]
  Plans,      \* plans that cost something
  PlanOf,     \* [Sources -> Plans], the plan that is asked for
  Calls,      \* API calls of the tenant's administrators
  None,
  MaxEvents,  \* bound: [Kinds -> Nat], webhooks about one source
  MaxFaults   \* bound: lost acknowledgements and calls that die

Recurring == {"stripe", "paypal", "razorpay"}
Kinds == Recurring \union {"order", "crypto"}
Free == "FREE"

ASSUME MixAssumption == Mixes \subseteq [Sources -> Kinds \union {None}]
ASSUME PlanAssumption == PlanOf \in [Sources -> Plans] /\ Free \notin Plans
ASSUME NoneAssumption == None \notin Sources
ASSUME BoundAssumption == MaxEvents \in [Kinds -> Nat] /\ MaxFaults \in Nat

VARIABLES
  kind,       \* [Sources -> the rail it is bought on, None if it is not]
  tagged,     \* Stripe's subscriptions carry metadata.tenantId
  row,        \* billing_info
  sold,       \* [Sources -> how it stands at its provider]
  mail,       \* webhooks that are not acknowledged yet
  call,       \* [Calls -> the API call under way]
  faults,
  done,       \* observation: [Sources -> newest state written to the row]
  overtaken,  \* observation: sources with an older state written after that
  refunded,   \* observation: subscriptions with a full refund
  owner,      \* observation: what was bought last
  mixed,      \* observation: two purchases, or what is left of them, met
  raced,      \* observation: metadata was written from an outdated read
  spent,      \* observation: [Sources -> confirmations of the intent]
  latest      \* observation: the intent confirmed last

tagVars == <<kind, tagged>>
watchVars == <<done, overtaken, refunded, owner, mixed, raced, spent, latest>>
vars == <<tagVars, row, sold, mail, call, faults, watchVars>>

States == {"none", "open", "approved", "active", "due", "ended"}
Statuses == {"ACTIVE", "TRIALING", "PAST_DUE", "CANCELLED"}
Types == {"activated", "updated", "paid", "failed", "ended", "refunded", "captured"}
Versions == UNION {0 .. MaxEvents[k] : k \in Kinds}
SomeSource == Sources \union {None}
SomePlan == Plans \union {Free}
Meta == [pending : SomeSource, last : SomeSource]

Row == [exists : BOOLEAN, sub : [Recurring -> SomeSource], paid : SomeSource,
        plan : SomePlan, status : Statuses, closing : BOOLEAN, meta : Meta]
Sale == [state : States, plan : Plans, closing : BOOLEAN, n : Versions]
Event == [src : Sources, type : Types, n : Versions, plan : Plans,
          status : Statuses, closing : BOOLEAN]
ApiCall == [do : {"idle", "record", "cancel", "drop", "close", "revise", "replan",
                  "refund", "intent", "clean", "confirm"},
            src : SomeSource, n : Versions, plan : SomePlan, status : Statuses, seen : Meta]

TypeOK ==
  /\ kind \in [Sources -> Kinds \union {None}] /\ tagged \in BOOLEAN
  /\ row \in Row /\ sold \in [Sources -> Sale] /\ mail \subseteq Event
  /\ call \in [Calls -> ApiCall] /\ faults \in 0 .. MaxFaults
  /\ done \in [Sources -> Versions] /\ overtaken \subseteq Sources
  /\ refunded \subseteq Sources /\ owner \in SomeSource
  /\ mixed \in BOOLEAN /\ raced \in BOOLEAN
  /\ spent \in [Sources -> Nat] /\ latest \in SomeSource

NoMeta == [pending |-> None, last |-> None]
Idle == [do |-> "idle", src |-> None, n |-> 0, plan |-> Free,
         status |-> "ACTIVE", seen |-> NoMeta]

\* A tenant may have no row until something asks for it.
Init ==
  /\ kind \in Mixes
  /\ tagged \in {t \in BOOLEAN : t \/ \E x \in Sources : kind[x] = "stripe"}
  /\ row = [exists |-> FALSE, sub |-> [k \in Recurring |-> None], paid |-> None,
            plan |-> Free, status |-> "ACTIVE", closing |-> FALSE, meta |-> NoMeta]
  /\ sold = [x \in Sources |->
               [state |-> "none", plan |-> PlanOf[x], closing |-> FALSE, n |-> 0]]
  /\ mail = {} /\ call = [c \in Calls |-> Idle] /\ faults = 0
  /\ done = [x \in Sources |-> 0] /\ overtaken = {} /\ refunded = {}
  /\ owner = None /\ mixed = FALSE /\ raced = FALSE
  /\ spent = [x \in Sources |-> 0] /\ latest = None

Fault == faults < MaxFaults /\ faults' = faults + 1

\* The row now tells how x stood at its n-th event.
Note(x, n) ==
  /\ overtaken' = IF n < done[x] THEN overtaken \union {x} ELSE overtaken
  /\ done' = [done EXCEPT ![x] = IF n > @ THEN n ELSE @]

Lives(x) == sold[x].state \in {"active", "due"}

-----------------------------------------------------------------------------
(* The providers. *)

StatusOf(state) == IF state = "due" THEN "PAST_DUE" ELSE "ACTIVE"

\* The n-th event of x, and the webhook that tells of it.
Tell(x, type, new) ==
  /\ sold[x].n < MaxEvents[kind[x]]
  /\ sold' = [sold EXCEPT ![x] = [new EXCEPT !.n = sold[x].n + 1]]
  /\ mail' = mail \union
       {[src |-> x, type |-> type, n |-> sold[x].n + 1, plan |-> new.plan,
         status |-> StatusOf(new.state), closing |-> new.closing]}

\* PayPal: the customer approves, and the subscription starts some time later.
Approve(x) ==
  /\ kind[x] = "paypal" /\ sold[x].state = "open"
  /\ sold' = [sold EXCEPT ![x].state = "approved"]
  /\ UNCHANGED <<tagVars, row, mail, call, faults, watchVars>>

\* The checkout of the provider, which the browser opened, takes the money.
Start(x) ==
  /\ sold[x].state = (IF kind[x] = "paypal" THEN "approved" ELSE "open")
  /\ kind[x] # "crypto"
  /\ Tell(x, IF kind[x] = "order" THEN "captured" ELSE "activated",
          [sold[x] EXCEPT !.state = "active"])
  /\ UNCHANGED <<tagVars, row, call, faults, watchVars>>

Charge(x) ==
  /\ kind[x] \in Recurring /\ Lives(x)
  /\ Tell(x, "paid", [sold[x] EXCEPT !.state = "active"])
  /\ UNCHANGED <<tagVars, row, call, faults, watchVars>>

Decline(x) ==
  /\ kind[x] \in {"stripe", "paypal"} /\ sold[x].state = "active"
  /\ Tell(x, "failed", [sold[x] EXCEPT !.state = "due"])
  /\ UNCHANGED <<tagVars, row, call, faults, watchVars>>

\* The plan changes at the provider, in its portal or by a late approval.
Revise(x, p) ==
  /\ kind[x] \in {"stripe", "paypal"} /\ sold[x].state = "active" /\ sold[x].plan # p
  /\ Tell(x, "updated", [sold[x] EXCEPT !.plan = p])
  /\ UNCHANGED <<tagVars, row, call, faults, watchVars>>

End(x) ==
  /\ kind[x] \in Recurring /\ Lives(x)
  /\ Tell(x, "ended", [sold[x] EXCEPT !.state = "ended"])
  /\ UNCHANGED <<tagVars, row, call, faults, watchVars>>

Provider(x) ==
  Approve(x) \/ Start(x) \/ Charge(x) \/ Decline(x) \/ End(x) \/ \E p \in Plans : Revise(x, p)

-----------------------------------------------------------------------------
(* The webhooks. *)

\* Mutant: the subscription's id stays.
MutDropped(k) == [row EXCEPT !.plan = Free, !.status = "CANCELLED", !.closing = FALSE]

\* What the end of a subscription leaves of the row.
Dropped(k) ==
  [row EXCEPT !.sub[k] = None, !.plan = Free, !.status = "CANCELLED", !.closing = FALSE]

\* Mutant: the plan is not looked up in the event.
MutRecorded(x, plan, status) ==
  [row EXCEPT !.exists = TRUE, !.sub[kind[x]] = x, !.status = status]

\* The upsert of a subscription that stands.
Recorded(x, plan, status) ==
  [row EXCEPT !.exists = TRUE, !.sub[kind[x]] = x, !.plan = plan, !.status = status]

\* An event about a subscription names the tenant in its metadata, one about
\* an invoice or a charge through its customer.
StripeRow(e) ==
  CASE e.type \in {"activated", "updated"} ->
         IF tagged THEN [Recorded(e.src, e.plan, e.status) EXCEPT !.closing = e.closing] ELSE row
    [] e.type = "ended" ->
         IF tagged THEN [Dropped("stripe") EXCEPT !.exists = TRUE] ELSE row
    [] e.type = "paid" -> IF row.exists THEN [row EXCEPT !.status = "ACTIVE"] ELSE row
    [] e.type = "failed" -> IF row.exists THEN [row EXCEPT !.status = "PAST_DUE"] ELSE row
    [] e.type = "refunded" ->
         [row EXCEPT !.plan = Free, !.status = "CANCELLED", !.closing = FALSE]

PayPalRow(e) ==
  CASE e.type = "activated" -> Recorded(e.src, e.plan, "ACTIVE")
    [] e.type = "updated" -> [row EXCEPT !.plan = e.plan]
    [] e.type = "paid" -> [row EXCEPT !.status = "ACTIVE"]
    [] e.type = "failed" -> [row EXCEPT !.status = "PAST_DUE"]
    [] e.type = "ended" -> Dropped("paypal")

RazorpayRow(e) ==
  CASE e.type = "activated" -> Recorded(e.src, e.plan, "ACTIVE")
    [] e.type = "paid" -> [row EXCEPT !.status = "ACTIVE"]
    [] e.type = "captured" -> [row EXCEPT !.paid = e.src, !.status = "ACTIVE"]
    [] e.type = "ended" -> Dropped("razorpay")

\* An update of a row that is not there throws, and the webhook comes again.
Throws(e) ==
  /\ ~row.exists
  /\ e.type \notin (IF kind[e.src] = "stripe"
                      THEN {"activated", "updated", "ended", "paid", "failed"}
                      ELSE {"activated"})

Handle(e) ==
  /\ ~Throws(e)
  /\ row' = CASE kind[e.src] = "stripe" -> StripeRow(e)
              [] kind[e.src] = "paypal" -> PayPalRow(e)
              [] OTHER -> RazorpayRow(e)
  /\ Note(e.src, e.n)
  /\ UNCHANGED <<tagVars, sold, call, refunded, owner, mixed, raced, spent, latest>>

Deliver(e) == Handle(e) /\ mail' = mail \ {e} /\ UNCHANGED faults
DeliverAgain(e) == Handle(e) /\ Fault /\ UNCHANGED mail

-----------------------------------------------------------------------------
(* Buying. *)

About(x) == {c \in Calls : call[c].src = x}
Busy(x) ==
  \/ sold[x].state \notin {"none", "ended"} \/ row.meta.pending = x
  \/ About(x) # {} \/ \E e \in mail : e.src = x

Owns(x) ==
  /\ owner' = x
  /\ mixed' = (mixed \/ \E y \in Sources \ {x} : Busy(y))

\* createCheckoutSession and both createSubscription: Stripe's and Razorpay's
\* look for the row first and create it.
Subscribe(x) ==
  /\ kind[x] \in Recurring /\ sold[x].state = "none"
  /\ row' = IF kind[x] = "paypal" THEN row ELSE [row EXCEPT !.exists = TRUE]
  /\ sold' = [sold EXCEPT ![x].state = "open"]
  /\ Owns(x)
  /\ UNCHANGED <<tagVars, mail, call, faults, done, overtaken, refunded, raced, spent, latest>>

\* getBillingInfo.
Visit ==
  /\ ~row.exists /\ row' = [row EXCEPT !.exists = TRUE]
  /\ UNCHANGED <<tagVars, sold, mail, call, faults, watchVars>>

\* createOrder stores the order before it is paid; without a row it throws.
Order(x) ==
  /\ kind[x] = "order" /\ sold[x].state = "none"
  /\ row.exists /\ row' = [row EXCEPT !.paid = x]
  /\ sold' = [sold EXCEPT ![x].state = "open"]
  /\ Owns(x)
  /\ UNCHANGED <<tagVars, mail, call, faults, done, overtaken, refunded, raced, spent, latest>>

Begin(c, new) == call[c] = Idle /\ call' = [call EXCEPT ![c] = new]
Return(c) == call' = [call EXCEPT ![c] = Idle]

\* The status PayPal reports is one that may be activated.
Approved(x) == sold[x].state \in {"approved", "active"}

\* activatePayPalSubscription, up to PayPal's answer.
Activate(c, x) ==
  /\ kind[x] = "paypal" /\ Approved(x)
  /\ Begin(c, [Idle EXCEPT !.do = "record", !.src = x, !.n = sold[x].n, !.plan = sold[x].plan,
                 !.status = IF sold[x].state = "active" THEN "ACTIVE" ELSE "TRIALING"])
  /\ UNCHANGED <<tagVars, row, sold, mail, faults, watchVars>>

\* verifySubscriptionPayment, up to Razorpay's answer: the signature is that
\* of the first payment, and the subscription's status is not looked at.
Verify(c, x) ==
  /\ kind[x] = "razorpay" /\ sold[x].n > 0
  /\ Begin(c, [Idle EXCEPT !.do = "record", !.src = x, !.n = 1, !.plan = sold[x].plan])
  /\ UNCHANGED <<tagVars, row, sold, mail, faults, watchVars>>

Record(c) ==
  /\ call[c].do = "record"
  /\ LET x == call[c].src
         new == Recorded(x, call[c].plan, call[c].status)
     IN  row' = IF kind[x] = "razorpay" THEN [new EXCEPT !.paid = x] ELSE new
  /\ Note(call[c].src, call[c].n)
  /\ Return(c)
  /\ UNCHANGED <<tagVars, sold, mail, faults, refunded, owner, mixed, raced, spent, latest>>

\* verifyOrderPayment.
VerifyOrder(x) ==
  /\ kind[x] = "order" /\ sold[x].n > 0
  /\ row' = [row EXCEPT !.exists = TRUE, !.paid = x, !.plan = sold[x].plan, !.status = "ACTIVE"]
  /\ UNCHANGED <<tagVars, sold, mail, call, faults, watchVars>>

-----------------------------------------------------------------------------
(* Cancelling, upgrading, refunding: the row is read, the provider is told,  *)
(* the row is written.                                                       *)

Cancel(c, k) ==
  /\ row.sub[k] # None
  /\ Begin(c, [Idle EXCEPT !.do = "cancel", !.src = row.sub[k]])
  /\ UNCHANGED <<tagVars, row, sold, mail, faults, watchVars>>

\* An order or a payment without a subscription: there is nothing to tell.
CancelPaid(c) ==
  /\ row.sub["razorpay"] = None /\ row.paid # None
  /\ Begin(c, [Idle EXCEPT !.do = "drop", !.src = row.paid])
  /\ UNCHANGED <<tagVars, row, sold, mail, faults, watchVars>>

\* Stripe goes on until the period ends, the others end at once.
CancelThere(c) ==
  LET x == call[c].src
  IN  /\ call[c].do = "cancel" /\ Lives(x)
      /\ IF kind[x] = "stripe" THEN Tell(x, "updated", [sold[x] EXCEPT !.closing = TRUE])
                               ELSE Tell(x, "ended", [sold[x] EXCEPT !.state = "ended"])
      /\ call' = [call EXCEPT ![c].do = IF kind[x] = "stripe" THEN "close" ELSE "drop",
                              ![c].n = sold[x].n + 1]
      /\ UNCHANGED <<tagVars, row, faults, watchVars>>

\* The provider refuses what is not there any more.
Refused(c) ==
  /\ call[c].do \in {"cancel", "revise"} /\ ~Lives(call[c].src)
  /\ Return(c)
  /\ UNCHANGED <<tagVars, row, sold, mail, faults, watchVars>>

Drop(c) ==
  LET x == call[c].src
  IN  /\ call[c].do = "drop"
      /\ IF kind[x] = "paypal" THEN row' = Dropped("paypal")
                               ELSE row' = [Dropped("razorpay") EXCEPT !.paid = None]
      /\ IF call[c].n = 0 THEN UNCHANGED <<done, overtaken>> ELSE Note(x, call[c].n)
      /\ mixed' = (mixed \/ owner # x)
      /\ Return(c)
      /\ UNCHANGED <<tagVars, sold, mail, faults, refunded, owner, raced, spent, latest>>

Close(c) ==
  /\ call[c].do = "close"
  /\ row' = [row EXCEPT !.closing = TRUE]
  /\ Note(call[c].src, call[c].n)
  /\ Return(c)
  /\ UNCHANGED <<tagVars, sold, mail, faults, refunded, owner, mixed, raced, spent, latest>>

Upgrade(c, p) ==
  /\ row.sub["paypal"] # None
  /\ Begin(c, [Idle EXCEPT !.do = "revise", !.src = row.sub["paypal"], !.plan = p])
  /\ UNCHANGED <<tagVars, row, sold, mail, faults, watchVars>>

\* PayPal changes the plan at once, or asks the customer first.
UpgradeThere(c) ==
  LET x == call[c].src
  IN  /\ call[c].do = "revise" /\ Lives(x)
      /\ \/ /\ Tell(x, "updated", [sold[x] EXCEPT !.plan = call[c].plan])
            /\ call' = [call EXCEPT ![c].do = "replan", ![c].n = sold[x].n + 1]
         \/ Return(c) /\ UNCHANGED <<sold, mail>>
      /\ UNCHANGED <<tagVars, row, faults, watchVars>>

Replan(c) ==
  /\ call[c].do = "replan"
  /\ row' = [row EXCEPT !.plan = call[c].plan]
  /\ Note(call[c].src, call[c].n)
  /\ Return(c)
  /\ UNCHANGED <<tagVars, sold, mail, faults, refunded, owner, mixed, raced, spent, latest>>

\* refundLatestStripeInvoice, in full: Stripe may still be at it when it
\* answers.  A partial refund leaves the row alone.
Refund(c, x) ==
  /\ kind[x] = "stripe" /\ sold[x].n > 0 /\ x \notin refunded
  /\ \/ Begin(c, [Idle EXCEPT !.do = "refund", !.src = x, !.n = sold[x].n + 1])
     \/ call[c] = Idle /\ UNCHANGED call
  /\ Tell(x, "refunded", sold[x])
  /\ refunded' = refunded \union {x}
  /\ UNCHANGED <<tagVars, row, faults, done, overtaken, owner, mixed, raced, spent, latest>>

MarkRefunded(c) ==
  /\ call[c].do = "refund"
  /\ row' = [row EXCEPT !.status = "CANCELLED"]
  /\ Note(call[c].src, call[c].n)
  /\ Return(c)
  /\ UNCHANGED <<tagVars, sold, mail, faults, refunded, owner, mixed, raced, spent, latest>>

-----------------------------------------------------------------------------
(* Crypto: the intent lives in the row's metadata, which every call reads as *)
(* a whole and writes as a whole.                                            *)

Intent(c, x) ==
  /\ kind[x] = "crypto" /\ sold[x].state = "none" /\ About(x) = {}
  /\ row' = [row EXCEPT !.exists = TRUE]
  /\ Begin(c, [Idle EXCEPT !.do = "intent", !.src = x, !.seen = row.meta])
  /\ Owns(x)
  /\ UNCHANGED <<tagVars, sold, mail, faults, done, overtaken, refunded, raced, spent, latest>>

WriteIntent(c) ==
  LET x == call[c].src
  IN  /\ call[c].do = "intent"
      /\ row' = [row EXCEPT !.meta = [call[c].seen EXCEPT !.pending = x]]
      /\ sold' = [sold EXCEPT ![x].state = "open"]
      /\ raced' = (raced \/ row.meta # call[c].seen)
      /\ Return(c)
      /\ UNCHANGED <<tagVars, mail, faults, done, overtaken, refunded, owner, mixed, spent, latest>>

\* An intent is good for 24 hours.
Expire(x) ==
  /\ kind[x] = "crypto" /\ sold[x].state = "open"
  /\ sold' = [sold EXCEPT ![x].state = "ended"]
  /\ UNCHANGED <<tagVars, row, mail, call, faults, watchVars>>

\* getCryptoPaymentStatus finds an intent that expired ...
Poll(c) ==
  LET x == row.meta.pending
  IN  /\ x # None /\ sold[x].state = "ended"
      /\ Begin(c, [Idle EXCEPT !.do = "clean", !.src = x, !.seen = row.meta])
      /\ UNCHANGED <<tagVars, row, sold, mail, faults, watchVars>>

\* ... and cleans it up.
Clean(c) ==
  /\ call[c].do = "clean"
  /\ row' = [row EXCEPT !.meta = [call[c].seen EXCEPT !.pending = None]]
  /\ raced' = (raced \/ row.meta # call[c].seen)
  /\ Return(c)
  /\ UNCHANGED <<tagVars, sold, mail, faults, done, overtaken, refunded, owner, mixed, spent, latest>>

\* adminConfirmCryptoPayment confirms what is pending, expired or not.
Confirm(c) ==
  LET x == row.meta.pending
  IN  /\ x # None
      /\ Begin(c, [Idle EXCEPT !.do = "confirm", !.src = x, !.seen = row.meta])
      /\ UNCHANGED <<tagVars, row, sold, mail, faults, watchVars>>

\* Mutant: the pending intent is copied and kept.
MutConfirmedMeta(seen) == [seen EXCEPT !.last = seen.pending]

ConfirmedMeta(seen) == [pending |-> None, last |-> seen.pending]

WriteConfirmed(c) ==
  LET x == call[c].src
  IN  /\ call[c].do = "confirm"
      /\ row' = [row EXCEPT !.plan = PlanOf[x], !.status = "ACTIVE",
                            !.meta = ConfirmedMeta(call[c].seen)]
      /\ sold' = [sold EXCEPT ![x].state = "active"]
      /\ raced' = (raced \/ row.meta # call[c].seen)
      /\ spent' = [spent EXCEPT ![x] = @ + 1] /\ latest' = x
      /\ Return(c)
      /\ UNCHANGED <<tagVars, mail, faults, done, overtaken, refunded, owner, mixed>>

-----------------------------------------------------------------------------
\* The replica dies, or a request to a provider or the database fails.
Crash(c) ==
  /\ call[c] # Idle /\ Fault
  /\ Return(c)
  /\ UNCHANGED <<tagVars, row, sold, mail, watchVars>>

Open(c) ==
  \/ \E x \in Sources : Activate(c, x) \/ Verify(c, x) \/ Refund(c, x) \/ Intent(c, x)
  \/ \E k \in Recurring : Cancel(c, k)
  \/ \E p \in Plans : Upgrade(c, p)
  \/ CancelPaid(c) \/ Poll(c) \/ Confirm(c)

Step(c) ==
  \/ Record(c) \/ CancelThere(c) \/ Refused(c) \/ Drop(c) \/ Close(c)
  \/ UpgradeThere(c) \/ Replan(c) \/ MarkRefunded(c)
  \/ WriteIntent(c) \/ Clean(c) \/ WriteConfirmed(c)

Next ==
  \/ Visit
  \/ \E x \in Sources : Provider(x) \/ Expire(x) \/ Subscribe(x) \/ Order(x) \/ VerifyOrder(x)
  \/ \E e \in mail : Deliver(e) \/ DeliverAgain(e)
  \/ \E c \in Calls : Open(c) \/ Step(c) \/ Crash(c)

Spec == Init /\ [][Next]_vars

\* Providers send a webhook until it is acknowledged; node runs every await's
\* continuation.
Fairness ==
  /\ \A x \in Sources, n \in Versions :
       WF_vars(\E e \in mail : e.src = x /\ e.n = n /\ Deliver(e))
  /\ \A c \in Calls : WF_vars(Step(c))

FairSpec == Spec /\ Fairness

-----------------------------------------------------------------------------
(* What should hold. *)

Quiet == mail = {} /\ \A c \in Calls : call[c] = Idle

\* When all webhooks are in and no call is under way, the row says what the
\* provider says, although calls died half way and webhooks came twice: the
\* plan, whether it is paid, which subscription it is and whether it is about
\* to end.  Excused: two purchases at once, an older state written after a
\* newer one, a refund, and what Stripe does not tag.
RowAgrees ==
  LET x == owner
  IN  /\ Quiet /\ x # None /\ ~mixed /\ overtaken \union refunded = {}
      /\ kind[x] # "order" /\ (kind[x] = "stripe" => tagged)
      => /\ Lives(x) => /\ row.plan = sold[x].plan
                        /\ row.status = StatusOf(sold[x].state)
                        /\ kind[x] # "crypto" => row.sub[kind[x]] = x
                        /\ kind[x] = "stripe" => row.closing = sold[x].closing
         /\ (kind[x] \in Recurring /\ sold[x].state = "ended")
              => /\ row.plan = Free /\ row.status = "CANCELLED"
                 /\ row.sub[kind[x]] = None

\* An intent is confirmed once, is not pending after that, and the last one
\* confirmed stays on record, unless a call wrote the metadata over changes it
\* had not read.
IntentsAreSpentOnce ==
  \/ raced
  \/ /\ row.meta.last = latest
     /\ \A x \in Sources : spent[x] <= 1 /\ (spent[x] = 1 => row.meta.pending # x)

\* A subscription that ended leaves the row for good, even when the call that
\* cancelled it died before it wrote, unless an older state came later.
EndedIsDropped ==
  \A x \in Sources :
    sold[x].state = "ended" /\ kind[x] \in Recurring
      ~> []((\A k \in Recurring : row.sub[k] # x) \/ x \in overtaken)
=============================================================================
