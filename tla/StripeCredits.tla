---------------------------- MODULE StripeCredits ----------------------------
(***************************************************************************)
(* Credits for money: the Stripe webhook, the two database controls it     *)
(* calls, and what customers and Stripe do meanwhile.                      *)
(*                                                                         *)
(* A payment is a credit pack or a subscription invoice.  Each thing that  *)
(* happens to it is an event of Stripe, delivered at least once, in any    *)
(* order, several at a time, until it is answered with 200.  A handler     *)
(* claims the event, reads Stripe and the order, writes, and finishes the  *)
(* event; it may fail at each step.                                        *)
(*                                                                         *)
(* A payment is worth one credit and costs Price units, so that it can be  *)
(* refunded in parts.  All payments are of one customer.                   *)
(***************************************************************************)
EXTENDS Integers, FiniteSetsExt

CONSTANTS
  Packs, First, Renewals,  \* payments: credit packs, first invoice, later ones
  Handlers, NoEvent,
  Price,                   \* units a payment costs
  MaxFaults                \* bound: failed steps of handlers

Payments == Packs \cup First \cup Renewals

StripeAssumption ==
  /\ Packs \cap First = {} /\ Packs \cap Renewals = {} /\ First \cap Renewals = {}
  /\ Cardinality(First) <= 1 /\ (First = {} => Renewals = {})
  /\ Price \in Nat \ {0} /\ MaxFaults \in Nat

VARIABLES
  paid,      \* paid[p]: open, paid or expired, at Stripe
  refunded,  \* refunded[p]: units given back
  subscription,  \* active, ending (at its period's end), ended so, or canceled before
  events,    \* what Stripe has to tell
  answered,  \* events answered with 200
  inbox,     \* inbox[e]: status of the stripe_events row
  run,       \* run[h]: a webhook handler
  order,     \* order[p]: billing_orders.status of the order that p was made with
  control,   \* control[p]: stripe_credit_fulfillments.status
  granted, reversed,  \* entries of the credit ledger
  spent,     \* credits the customer used
  active,    \* profiles.status = 'active'
  faults

stripe == <<paid, refunded, subscription, events>>
credits == <<control, granted, reversed>>
customer == <<spent, active>>
vars == <<stripe, answered, inbox, run, order, credits, customer, faults>>

OrderStatus == {"checkout_created", "paid", "fulfilled", "failed", "expired", "canceled", "refunded"}
ControlStatus == {"none", "fulfilled", "refunded", "refund_needs_adjustment", "blocked"}

\* Refund events differ by the amount refunded when they were made.
Event == [type: {"paid", "attempt_failed", "expired"}, of: Payments, amount: {0}]
           \cup [type: {"refund"}, of: Payments, amount: 1..Price]
           \cup [type: {"subscription"}, of: First, amount: {0}]

Happens(type, p) == [type |-> type, of |-> p, amount |-> 0]

Ordered == Packs \cup First

\* The order a grant names, and the one a refund names: the metadata of a renewal
\* invoice is that of its subscription, with the order of the first invoice.
GrantOrder(p) == {p} \cap Ordered
RefundOrder(p) == IF p \in Renewals THEN First ELSE {p}

Balance == Cardinality(granted) - Cardinality(reversed) - spent

Gone == {"ended", "canceled"}

\* A handler that has read neither order nor subscription
Delivery(pc, e) == [pc |-> pc, event |-> e, order |-> "checkout_created", sub |-> "active"]
Idle == Delivery("idle", NoEvent)

Init ==
  /\ paid = [p \in Payments |-> "open"] /\ refunded = [p \in Payments |-> 0]
  /\ subscription = "active" /\ events = {} /\ answered = {}
  /\ inbox = [e \in Event |-> "none"]
  /\ run = [h \in Handlers |-> Idle]
  /\ order = [p \in Ordered |-> "checkout_created"]
  /\ control = [p \in Payments |-> "none"]
  /\ granted = {} /\ reversed = {} /\ spent = 0 /\ active = TRUE /\ faults = 0

-----------------------------------------------------------------------------
(* Stripe and the customer *)

Tell(e) == events' = events \cup {e}

AttemptFails(p) ==
  /\ paid[p] = "open" /\ Tell(Happens("attempt_failed", p))
  /\ UNCHANGED <<paid, refunded, subscription, answered, inbox, run, order, credits, customer, faults>>

Pay(p) ==
  /\ paid[p] = "open" /\ (p \in First => subscription \notin Gone)
  /\ (p \in Renewals => subscription = "active" /\ \A f \in First : paid[f] = "paid")
  /\ paid' = [paid EXCEPT ![p] = "paid"] /\ Tell(Happens("paid", p))
  /\ UNCHANGED <<refunded, subscription, answered, inbox, run, order, credits, customer, faults>>

CheckoutExpires(p) ==
  /\ paid[p] = "open" /\ p \in Packs
  /\ paid' = [paid EXCEPT ![p] = "expired"] /\ Tell(Happens("expired", p))
  /\ UNCHANGED <<refunded, subscription, answered, inbox, run, order, credits, customer, faults>>

Refund(p) ==
  /\ paid[p] = "paid" /\ refunded[p] < Price
  /\ \E n \in refunded[p] + 1..Price :
       /\ refunded' = [refunded EXCEPT ![p] = n]
       /\ Tell([type |-> "refund", of |-> p, amount |-> n])
  /\ UNCHANGED <<paid, subscription, answered, inbox, run, order, credits, customer, faults>>

SubscriptionEnds ==
  /\ First # {} /\ subscription \notin Gone
  /\ subscription' = IF subscription = "ending" THEN "ended" ELSE "canceled"
  /\ \E f \in First : Tell(Happens("subscription", f))
  /\ UNCHANGED <<paid, refunded, answered, inbox, run, order, credits, customer, faults>>

Spend ==
  /\ Balance > 0 /\ spent' = spent + 1
  /\ UNCHANGED <<stripe, answered, inbox, run, order, credits, active, faults>>

Suspend ==
  /\ active /\ active' = FALSE
  /\ UNCHANGED <<stripe, answered, inbox, run, order, credits, spent, faults>>

-----------------------------------------------------------------------------
(* The database *)

Orders(O, status) == order' = [o \in Ordered |-> IF o \in O THEN status ELSE order[o]]
Control(p, status) == control' = [control EXCEPT ![p] = status]
In(O, statuses) == \E o \in O : order[o] \in statuses

Granted(p) ==
  /\ Control(p, "fulfilled") /\ granted' = granted \cup {p}
  /\ Orders(GrantOrder(p), "fulfilled")

\* Mutant: a failed attempt closes the order for good.
ClosedByFailure == {"canceled", "expired", "failed"}

Closed == {"canceled", "expired"}

\* fulfill_stripe_credit_grant
Fulfill(p) ==
  LET settled == control[p] \in {"refunded", "refund_needs_adjustment", "blocked"} IN
  /\ UNCHANGED reversed
  /\ \/ settled /\ UNCHANGED <<control, granted, order>>
     \/ /\ ~settled /\ In(GrantOrder(p), {"refunded"})
        /\ Control(p, "refunded") /\ UNCHANGED <<granted, order>>
     \/ /\ ~settled /\ In(GrantOrder(p), Closed)
        /\ Control(p, "blocked") /\ UNCHANGED <<granted, order>>
     \/ /\ ~settled /\ ~In(GrantOrder(p), Closed \cup {"refunded"})
        /\ \/ control[p] = "fulfilled" /\ UNCHANGED <<control, granted, order>>
           \/ /\ control[p] = "none" /\ ~active
              /\ Control(p, "blocked") /\ Orders(GrantOrder(p), "paid") /\ UNCHANGED granted
           \/ control[p] = "none" /\ active /\ Granted(p)

\* Mutant: the balance is not looked at.
ReversibleAlways(p) == TRUE

\* reverse_credit_grant within record_stripe_credit_refund: the balance of the account
\* must cover it.
Reversible(p) == p \in reversed \/ Balance > 0

\* Mutant: a reversal that fails is recorded as done.
RecordRefundAnyway(p) ==
  /\ Control(p, "refunded")
  /\ reversed' = IF p \in granted /\ Reversible(p) THEN reversed \cup {p} ELSE reversed
  /\ Orders(RefundOrder(p), "refunded") /\ UNCHANGED granted

\* record_stripe_credit_refund
RecordRefund(p) ==
  /\ \/ p \notin granted /\ control[p] # "fulfilled" /\ Control(p, "refunded") /\ UNCHANGED reversed
     \/ /\ p \in granted /\ Reversible(p)
        /\ Control(p, "refunded") /\ reversed' = reversed \cup {p}
     \/ /\ p \in granted /\ ~Reversible(p)
        /\ Control(p, "refund_needs_adjustment") /\ UNCHANGED reversed
  /\ Orders(RefundOrder(p), "refunded") /\ UNCHANGED granted

-----------------------------------------------------------------------------
(* POST /api/stripe/webhook *)

At(h, pc) == run[h].pc = pc
Become(h, r) == run' = [run EXCEPT ![h] = r]
Goto(h, pc) == Become(h, [run[h] EXCEPT !.pc = pc])

\* Mutant: the event is marked processed when it is claimed.
DeliverAsProcessed(h, e) ==
  /\ At(h, "idle") /\ e \in events \ answered
  /\ inbox' = [inbox EXCEPT ![e] = "processed"]
  /\ IF inbox[e] # "processed"
     THEN Become(h, Delivery("claimed", e)) /\ UNCHANGED answered
     ELSE answered' = answered \cup {e} /\ UNCHANGED run
  /\ UNCHANGED <<stripe, order, credits, customer, faults>>

\* Mutant: any row of the event makes a delivery a duplicate.
DeliverOnce(h, e) ==
  /\ At(h, "idle") /\ e \in events \ answered
  /\ IF inbox[e] = "none"
     THEN /\ inbox' = [inbox EXCEPT ![e] = "processing"]
          /\ Become(h, Delivery("claimed", e)) /\ UNCHANGED answered
     ELSE answered' = answered \cup {e} /\ UNCHANGED <<inbox, run>>
  /\ UNCHANGED <<stripe, order, credits, customer, faults>>

\* Mutant: the conflict of a second delivery is an error.
DeliverConflict(h, e) ==
  /\ At(h, "idle") /\ e \in events \ answered
  /\ inbox[e] # "processed" /\ inbox' = [inbox EXCEPT ![e] = "processing"]
  /\ Become(h, Delivery("claimed", e))
  /\ UNCHANGED <<stripe, answered, order, credits, customer, faults>>

\* claimStripeEvent: an event that is being processed is processed again.
Deliver(h, e) ==
  /\ At(h, "idle") /\ e \in events \ answered
  /\ \/ /\ inbox[e] # "processed"
        /\ inbox' = [inbox EXCEPT ![e] = "processing"]
        /\ Become(h, Delivery("claimed", e))
        /\ UNCHANGED answered
     \/ /\ inbox[e] = "processed" /\ answered' = answered \cup {e}
        /\ UNCHANGED <<inbox, run>>
  /\ UNCHANGED <<stripe, order, credits, customer, faults>>

\* Mutant: every refund that succeeded is a full one.
AnyRefund(p) == refunded[p] > 0

\* The refunds of the payment that succeeded add up to what was paid.
FullRefund(p) == refunded[p] = Price

\* What a handler reads before its first write: the payment, refunds, subscription
\* and order as they are now.
Reads(h, type, pc) ==
  LET e == run[h].event  p == e.of IN
  /\ At(h, "claimed") /\ e.type = type
  /\ Become(h, [pc |-> pc, event |-> e, sub |-> subscription,
                order |-> IF p \in Ordered THEN order[p] ELSE "fulfilled"])
  /\ UNCHANGED <<stripe, answered, inbox, order, credits, customer, faults>>

\* handleCheckoutSession, of a pack that is paid
ReadPack(h) == Reads(h, "paid", "fulfill") /\ run[h].event.of \in Packs

\* handleInvoicePaid
ReadInvoice(h) == Reads(h, "paid", "sync") /\ run[h].event.of \notin Packs

ReadSubscription(h) == Reads(h, "subscription", "sync")

\* handleCheckoutFailure does not look whether the order is paid.
ReadExpiry(h) == Reads(h, "expired", "expire_order")

\* handlePaymentIntentFailure; a renewal has no order of its own.
ReadAttempt(h) ==
  LET p == run[h].event.of IN
  Reads(h, "attempt_failed", IF p \in Ordered /\ paid[p] # "paid" THEN "fail_order" ELSE "finish")

\* handleRefund, handleChargeRefunded
ReadRefund(h) ==
  Reads(h, "refund", IF FullRefund(run[h].event.of) THEN "refund" ELSE "finish")

Read(h) ==
  \/ ReadPack(h) \/ ReadInvoice(h) \/ ReadSubscription(h)
  \/ ReadExpiry(h) \/ ReadAttempt(h) \/ ReadRefund(h)

\* syncSubscription closes an order it has read as open when the subscription has
\* ended.
SyncSubscription(h) ==
  LET e == run[h].event
      open == run[h].order \in {"checkout_created", "paid"}
  IN
  /\ At(h, "sync")
  /\ IF run[h].sub \in Gone /\ open THEN Orders(First, "canceled") ELSE UNCHANGED order
  /\ Goto(h, IF e.type = "paid" THEN "fulfill" ELSE "finish")
  /\ UNCHANGED <<stripe, answered, inbox, credits, customer, faults>>

\* Mutant: a subscription without its credits goes on.
FulfillQuietly(h) ==
  /\ At(h, "fulfill") /\ Fulfill(run[h].event.of) /\ Goto(h, "finish")
  /\ UNCHANGED <<stripe, answered, inbox, customer, faults>>

FulfillStripeCredits(h) ==
  LET p == run[h].event.of IN
  /\ At(h, "fulfill")
  /\ Fulfill(p)
  /\ Goto(h, IF p \notin Packs /\ control'[p] = "blocked" /\ run[h].sub \notin {"ending", "ended"}
             THEN "stop" ELSE "finish")
  /\ UNCHANGED <<stripe, answered, inbox, customer, faults>>

\* A subscription whose credits could not be granted is not renewed.  Stripe refuses
\* to change a canceled one, and the handler throws.
StopRenewal(h) ==
  /\ At(h, "stop")
  /\ \/ /\ subscription \notin Gone /\ subscription' = "ending"
        /\ Goto(h, "finish") /\ UNCHANGED inbox
     \/ /\ subscription \in Gone /\ UNCHANGED subscription
        /\ Become(h, Idle) /\ inbox' = [inbox EXCEPT ![run[h].event] = "failed"]
  /\ UNCHANGED <<paid, refunded, events, answered, order, credits, customer, faults>>

\* Mutant: the type of the event is written as the status of the order.
WriteEventType(h) ==
  /\ At(h, "fail_order") \/ At(h, "expire_order")
  /\ Orders({run[h].event.of}, run[h].event.type)
  /\ Goto(h, "finish")
  /\ UNCHANGED <<stripe, answered, inbox, credits, customer, faults>>

\* updateBillingOrder, whatever the order has become.
WriteOrder(h) ==
  /\ \/ At(h, "fail_order") /\ Orders({run[h].event.of}, "failed")
     \/ At(h, "expire_order") /\ Orders({run[h].event.of}, "expired")
  /\ Goto(h, "finish")
  /\ UNCHANGED <<stripe, answered, inbox, credits, customer, faults>>

RecordFullRefund(h) ==
  /\ At(h, "refund") /\ RecordRefund(run[h].event.of)
  /\ Goto(h, "finish")
  /\ UNCHANGED <<stripe, answered, inbox, customer, faults>>

\* finishStripeEvent; the answer may be lost.
Finish(h) ==
  LET e == run[h].event IN
  /\ At(h, "finish")
  /\ inbox' = [inbox EXCEPT ![e] = "processed"]
  /\ \/ answered' = answered \cup {e} /\ UNCHANGED faults
     \/ faults < MaxFaults /\ faults' = faults + 1 /\ UNCHANGED answered
  /\ Become(h, Idle)
  /\ UNCHANGED <<stripe, order, credits, customer>>

\* A call of Stripe or the database fails, or the process dies before it can say so.
Fail(h) ==
  /\ ~At(h, "idle") /\ faults < MaxFaults /\ faults' = faults + 1
  /\ inbox' \in {inbox, [inbox EXCEPT ![run[h].event] = "failed"]}
  /\ Become(h, Idle)
  /\ UNCHANGED <<stripe, answered, order, credits, customer>>

Step(h) ==
  \/ Read(h) \/ SyncSubscription(h) \/ FulfillStripeCredits(h) \/ StopRenewal(h)
  \/ WriteOrder(h) \/ RecordFullRefund(h) \/ Finish(h)

Next ==
  \/ \E p \in Payments : AttemptFails(p) \/ Pay(p) \/ CheckoutExpires(p) \/ Refund(p)
  \/ SubscriptionEnds \/ Spend \/ Suspend
  \/ \E h \in Handlers : Step(h) \/ Fail(h) \/ \E e \in events : Deliver(h, e)

\* Stripe delivers an event again.
Retry(e) == \E h \in Handlers : Deliver(h, e)

Spec == Init /\ [][Next]_vars

-----------------------------------------------------------------------------
(* Properties *)

TypeOK ==
  /\ paid \in [Payments -> {"open", "paid", "expired"}] /\ refunded \in [Payments -> 0..Price]
  /\ subscription \in {"active", "ending"} \cup Gone
  /\ answered \subseteq events /\ events \subseteq Event
  /\ inbox \in [Event -> {"none", "processing", "processed", "failed"}]
  /\ run \in [Handlers -> [pc: {"idle", "claimed", "fulfill", "sync", "stop", "fail_order",
                                "expire_order", "refund", "finish"},
                           event: Event \cup {NoEvent}, order: OrderStatus,
                           sub: {"active", "ending"} \cup Gone]]
  /\ order \in [Ordered -> OrderStatus] /\ control \in [Payments -> ControlStatus]
  /\ granted \subseteq Payments /\ reversed \subseteq Payments
  /\ spent \in Nat /\ active \in BOOLEAN /\ faults \in 0..MaxFaults

Full(p) == refunded[p] = Price

\* docs/LAUNCH_CHECKLIST.md:61: paid and refunded in full, in whatever order the events
\* come, ends in "exactly one reversal or a suppressed late grant", or in a case for
\* an adjustment: a refund the database has recorded leaves no credit behind.
RefundedMeansReversed == \A p \in Payments : control[p] = "refunded" => p \notin granted \ reversed

\* Nothing is reversed, and no grant suppressed, that was not refunded in full.
SuppressedWasRefunded ==
  \A p \in Payments : control[p] \in {"refunded", "refund_needs_adjustment"} => Full(p)

\* Credits stand for money: no credit without its payment, none is taken twice, and
\* the account never goes below zero.
CreditsArePaid ==
  /\ \A p \in granted : paid[p] = "paid"
  /\ reversed \subseteq granted
  /\ spent <= Cardinality(granted) - Cardinality(reversed)

\* An event that is marked processed has had its effect: a payment is settled, a full
\* refund recorded.
ProcessedIsApplied ==
  \A e \in events : inbox[e] = "processed" =>
    /\ e.type = "paid" => control[e.of] # "none"
    /\ e.type = "refund" /\ e.amount = Price
         => control[e.of] \in {"refunded", "refund_needs_adjustment"}

\* A subscription that was paid for without credits is not renewed.
BlockedIsNotRenewed ==
  \A f \in First : control[f] = "blocked" /\ inbox[Happens("paid", f)] = "processed"
                  => subscription # "active"

\* What may become of a grant that was recorded: it is later refunded or stays, whichever
\* events come again or fail; that of a first invoice is blocked, too, when it is handled
\* again after its subscription is over.
GrantStays ==
  \A p \in Payments : control[p] = "fulfilled" =>
    \/ control'[p] \in {"fulfilled", "refunded", "refund_needs_adjustment"}
    \/ p \in First /\ control'[p] = "blocked" /\ subscription' \in Gone

\* The same without the exception: it holds of packs, and is refuted for first invoices.
FulfilledIsFinal ==
  \A p \in Payments : control[p] = "fulfilled"
    => control'[p] \in {"fulfilled", "refunded", "refund_needs_adjustment"}

\* docs/DATA_RETENTION_AND_REQUESTS.md:36: an account with "a fulfilled, non-refunded
\* credit-pack purchase" has paid capacity.  When no event is left, a pack with its
\* credits has its order fulfilled.
PackIsFulfilled ==
  answered = events /\ (\A h \in Handlers : At(h, "idle"))
    => \A p \in (Packs \cap granted) \ reversed : ~Full(p) => order[p] = "fulfilled"

\* A payment that came in, and one that is settled; a full refund that is recorded.
Paid(p) == paid[p] = "paid"
Decided(p) == control[p] # "none"
Returned(p) == control[p] \in {"refunded", "refund_needs_adjustment"}

\* An event that Stripe has to tell, and one that was answered.
Made(e) == e \in events
Answered(e) == e \in answered

\* Whatever Stripe has to tell is answered in the end.  Refuted for the payment of a
\* subscription that was canceled before: see NothingToStop.
EventsAnswered == \A e \in Event : Made(e) ~> Answered(e)

\* A first invoice whose subscription was canceled before its credits were granted, of
\* which the handler throws each time: there is nothing left to stop.
NothingToStop(e) ==
  e.type = "paid" /\ e.of \in First /\ control[e.of] = "blocked" /\ subscription = "canceled"
=============================================================================
