------------------------- MODULE MCWebhookLiveness --------------------------
(* What must happen in the end, in the components that answer the events of  *)
(* Stripe. A behaviour of this module is a behaviour of one component, the   *)
(* one that part names: x1, x2, ... stand for the variables of that          *)
(* component, in the order in which its module declares them.                *)
EXTENDS Integers, Sequences

CONSTANTS None, c1, c2

VARIABLES part, x1, x2, x3, x4, x5, x6, x7, x8, x9, x10, x11, x12, x13, x14

\* The events that are repeated until they are answered: of a credit pack, of the first
\* invoice of a subscription, and of a checkout session of a drywall order.
PackTypes == <<"paid", "attempt_failed", "expired", "refund">>
InvoiceTypes == <<"paid", "attempt_failed", "subscription", "refund">>
DrywallTypes == <<"completed", "succeeded">>

Pack == INSTANCE StripeCredits WITH
  Packs <- {c1}, First <- {}, Renewals <- {}, Handlers <- {c1},
  NoEvent <- None, Price <- 1, MaxFaults <- 1,
  paid <- x1, refunded <- x2, subscription <- x3, events <- x4,
  answered <- x5, inbox <- x6, run <- x7, order <- x8, control <- x9,
  granted <- x10, reversed <- x11, spent <- x12, active <- x13, faults <- x14

Invoice == INSTANCE StripeCredits WITH
  Packs <- {}, First <- {c1}, Renewals <- {}, Handlers <- {c1},
  NoEvent <- None, Price <- 1, MaxFaults <- 1,
  paid <- x1, refunded <- x2, subscription <- x3, events <- x4,
  answered <- x5, inbox <- x6, run <- x7, order <- x8, control <- x9,
  granted <- x10, reversed <- x11, spent <- x12, active <- x13, faults <- x14

Checkout == INSTANCE SubscriptionCheckout WITH
  Tabs <- {c1}, NoTab <- None, SavedBefore <- {"none", "old"},
  MaxFaults <- 2, MaxDeaths <- 1, MaxDeclined <- 1,
  tab <- x1, order <- x2, attached <- x3, session <- x4, reachable <- x5,
  saved <- x6, sub <- x7, row <- x8, events <- x9, active <- x10,
  admin <- x11, faults <- x12, deaths <- x13, declined <- x14

Alerts == INSTANCE BillingAlerts WITH
  Cases <- {"dispute"}, Handlers <- {c1}, MaxAlerts <- 1, MaxClicks <- 0,
  MaxFaults <- 1,
  status <- x1, inbox <- x2, stored <- x3, run <- x4, reviews <- x5,
  alerts <- x6, flagged <- x7, page <- x8, clicks <- x9, faults <- x10

\* Two checkout requests, which may make two sessions, and no failure.
Drywall == INSTANCE DrywallPayment WITH
  Files <- {c1}, Requests <- {c1, c2}, Sessions <- {c1, c2},
  Handlers <- {c1}, Volumes <- {"fixed"}, MaxFaults <- 0,
  status <- x1, scope <- x2, row <- x3, object <- x4, verifying <- x5,
  order <- x6, session <- x7, request <- x8, events <- x9, answered <- x10,
  run <- x11, confirmed <- x12, faults <- x13

\* Two checkout requests, one session, and a step of a request or a handler that fails.
FailingDrywall == INSTANCE DrywallPayment WITH
  Files <- {c1}, Requests <- {c1, c2}, Sessions <- {c2},
  Handlers <- {c1}, Volumes <- {"fixed"}, MaxFaults <- 1,
  status <- x1, scope <- x2, row <- x3, object <- x4, verifying <- x5,
  order <- x6, session <- x7, request <- x8, events <- x9, answered <- x10,
  run <- x11, confirmed <- x12, faults <- x13

Delivery == INSTANCE DrywallDelivery WITH
  Tabs <- {c1}, Batches <- {c1}, Requests <- {c2}, Refundable <- TRUE,
  Purges <- TRUE, MaxFaults <- 1,
  status <- x1, paid <- x2, due <- x3, rows <- x4, version <- x5,
  delivered <- x6, objects <- x7, tab <- x8, request <- x9, revision <- x10,
  cron <- x11, faults <- x12

xs == <<x1, x2, x3, x4, x5, x6, x7, x8, x9, x10, x11, x12, x13, x14>>
vars == <<part, xs>>

Init ==
  \/ /\ part = "pack" /\ Pack!Init
  \/ /\ part = "invoice" /\ Invoice!Init
  \/ /\ part = "checkout" /\ Checkout!Init
  \/ /\ part = "alerts" /\ Alerts!Init
     /\ x11 = 0 /\ x12 = 0 /\ x13 = 0 /\ x14 = 0
  \/ /\ part = "drywall" /\ Drywall!Init
     /\ x14 = 0
  \/ /\ part = "failing drywall" /\ FailingDrywall!Init
     /\ x14 = 0
  \/ /\ part = "delivery" /\ Delivery!Init
     /\ x13 = 0 /\ x14 = 0

Next ==
  \/ /\ part = "pack" /\ Pack!Next
     /\ UNCHANGED <<part>>
  \/ /\ part = "invoice" /\ Invoice!Next
     /\ UNCHANGED <<part>>
  \/ /\ part = "checkout" /\ Checkout!Next
     /\ UNCHANGED <<part>>
  \/ /\ part = "alerts" /\ Alerts!Next
     /\ UNCHANGED <<part, x11, x12, x13, x14>>
  \/ /\ part = "drywall" /\ Drywall!Next
     /\ UNCHANGED <<part, x14>>
  \/ /\ part = "failing drywall" /\ FailingDrywall!Next
     /\ UNCHANGED <<part, x14>>
  \/ /\ part = "delivery" /\ Delivery!Next
     /\ UNCHANGED <<part, x13, x14>>

\* Stripe repeats the k-th event of the component that runs.
Retried(k) ==
  \/ /\ part = "pack" /\ k <= Len(PackTypes)
     /\ \E e \in Pack!Event : e.type = PackTypes[k] /\ Pack!Retry(e)
     /\ UNCHANGED <<part>>
  \/ /\ part = "invoice" /\ k <= Len(InvoiceTypes)
     /\ \E e \in Invoice!Event : e.type = InvoiceTypes[k] /\ Invoice!Retry(e)
     /\ UNCHANGED <<part>>
  \/ /\ part = "checkout" /\ k = 1 /\ Checkout!Retry(c1)
     /\ UNCHANGED <<part>>
  \/ /\ part = "alerts" /\ k \in {1, 2} /\ Alerts!Retry(<<"dispute", k>>)
     /\ UNCHANGED <<part, x11, x12, x13, x14>>
  \/ /\ part = "drywall" /\ k <= Len(DrywallTypes)
     /\ \E e \in Drywall!Event : e.type = DrywallTypes[k] /\ e.of = c2 /\ Drywall!Retry(e)
     /\ UNCHANGED <<part, x14>>
  \/ /\ part = "failing drywall" /\ k <= Len(DrywallTypes)
     /\ \E e \in FailingDrywall!Event : e.type = DrywallTypes[k] /\ FailingDrywall!Retry(e)
     /\ UNCHANGED <<part, x14>>

Fairness ==
  (* A handler that runs ends. *)
  /\ \A x \in {c1} : WF_(Pack!vars)(part = "pack" /\ Pack!Step(x))
  /\ \A x \in {c1} : WF_(Invoice!vars)(part = "invoice" /\ Invoice!Step(x))
  \* Stripe bills a subscription until it is told not to, and a suspension
  \* that was begun is carried through.
  /\ WF_(Checkout!vars)(part = "checkout" /\ Checkout!Webhook(c1))
  /\ WF_(Checkout!vars)(part = "checkout" /\ Checkout!Renew(c1))
  /\ WF_(Checkout!vars)(part = "checkout" /\ Checkout!Suspending)
  (* A handler that runs ends. *)
  /\ \A x \in {c1} : WF_(Alerts!vars)(part = "alerts" /\ Alerts!HandlerStep(x))
  (* A handler that runs ends. *)
  /\ \A x \in {c1} : WF_(Drywall!vars)(part = "drywall" /\ Drywall!HandlerStep(x))
  /\ \A x \in {c1} :
       WF_(FailingDrywall!vars)(part = "failing drywall" /\ FailingDrywall!HandlerStep(x))
  (* The cron comes every day; a request that began goes on. *)
  /\ WF_(Delivery!vars)(part = "delivery" /\ Delivery!Purge)
  /\ WF_(Delivery!vars)(part = "delivery" /\ Delivery!Correct(c2))
  \* Stripe delivers an event again until it is answered.
  /\ \A k \in 1..4 : SF_vars(Retried(k))

Spec == Init /\ [][Next]_vars /\ Fairness

ASSUME Pack!StripeAssumption
ASSUME Invoice!StripeAssumption
ASSUME Checkout!CheckoutAssumption
ASSUME Alerts!CasesAssumption
ASSUME Drywall!DrywallPaymentAssumption
ASSUME FailingDrywall!DrywallPaymentAssumption
ASSUME Delivery!DrywallDeliveryAssumption
-----------------------------------------------------------------------------

\* What came in: the payment of a pack, of a first invoice, or of the session that a
\* drywall order names.
Paid ==
  \/ part = "pack" /\ Pack!Paid(c1)
  \/ part = "invoice" /\ Invoice!Paid(c1)
  \/ part = "drywall" /\ Drywall!Received(c2)
  \/ part = "failing drywall" /\ FailingDrywall!Received(c2)

\* Its credits are decided, or the drywall order says that it was paid. (Recorded names
\* the two orders that do not: one that names another session meanwhile, and one that
\* the failure of another session closed.)
Settled ==
  \/ part = "pack" /\ Pack!Decided(c1)
  \/ part = "invoice" /\ Invoice!Decided(c1)
  \/ part = "drywall" /\ Drywall!Recorded(c2)
  \/ part = "failing drywall" /\ FailingDrywall!Recorded(c2)

PaymentsSettle == Paid ~> Settled

\* Every full refund of a pack or a first invoice is recorded in the end.
RefundsSettle ==
  (part = "pack" /\ Pack!Full(c1)) \/ (part = "invoice" /\ Invoice!Full(c1))
    ~> (part = "pack" /\ Pack!Returned(c1)) \/ (part = "invoice" /\ Invoice!Returned(c1))

\* The k-th event of a pack or a first invoice, or the k-th change of a case, is there.
Told(k) ==
  \/ part = "pack" /\ \E e \in Pack!Event : e.type = PackTypes[k] /\ Pack!Made(e)
  \/ part = "invoice" /\ \E e \in Invoice!Event : e.type = InvoiceTypes[k] /\ Invoice!Made(e)
  \/ part = "alerts" /\ k \in {1, 2} /\ Alerts!Due(<<"dispute", k>>)

\* It is answered, and a change has become an alert. (NothingToStop is the one event that
\* never is: a first payment without credits whose subscription was canceled.)
Heard(k) ==
  \/ part = "pack" /\ \E e \in Pack!Event : e.type = PackTypes[k] /\ Pack!Answered(e)
  \/ part = "invoice" /\ \E e \in Invoice!Event :
       e.type = InvoiceTypes[k] /\ (Invoice!Answered(e) \/ Invoice!NothingToStop(e))
  \/ part = "alerts" /\ k \in {1, 2} /\ Alerts!Answered(<<"dispute", k>>)

EventsAnswered == \A k \in 1..4 : Told(k) ~> Heard(k)

\* A subscription of a suspended customer is not renewed for ever: the
\* suspension cancels it, or the webhook does when its next payment earns
\* nothing.
RenewalStops ==
  (part = "checkout" /\ Checkout!Suspended) ~> (part = "checkout" /\ Checkout!NothingRenews)

\* The files of a project that is closed go when their time has come.
DeliveryIsPurged ==
  (part = "delivery" /\ Delivery!PurgeIsDue) ~> (part = "delivery" /\ ~Delivery!PurgeIsDue)

\* Payments, refunds and disputes settle, their events are answered, renewals of suspended
\* customers stop, and the files of closed projects go, although a step of a handler fails.
EventsSettle ==
  /\ PaymentsSettle
  /\ RefundsSettle
  /\ EventsAnswered
  /\ RenewalStops
  /\ DeliveryIsPurged
=============================================================================
