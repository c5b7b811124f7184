------------------------ MODULE StripeCredits_proofs ------------------------
(***************************************************************************)
(* Theorems about credits for money, for any payments, handlers, prices    *)
(* and faults, and events in any number, order and overlap.                *)
(***************************************************************************)
EXTENDS StripeCredits, FiniteSetTheorems, TLAPS

Settled == {"refunded", "refund_needs_adjustment", "blocked"}
Recorded == {"refunded", "refund_needs_adjustment"}

\* An event is about something that happened and is not undone.
EventInv ==
  \A e \in events :
    /\ e.type \in {"paid", "expired"} => paid[e.of] = e.type
    /\ e.type = "refund" => e.amount <= refunded[e.of]

\* The effect of an event, which no later one takes back
Applied(e, ctl, sub) ==
  /\ e.type = "paid" =>
       /\ ctl[e.of] # "none"
       /\ e.of \in First /\ ctl[e.of] = "blocked" => sub # "active"
  /\ e.type = "refund" /\ e.amount = Price => ctl[e.of] \in Recorded

\* What a handler knows at each of its steps, of what may have changed since
RunOK(r, told, back, ctl, sub) ==
  /\ r.pc # "idle" => r.event \in told
  /\ r.sub # "active" => sub # "active"
  /\ r.sub \in Gone => sub \in Gone
  /\ r.pc = "sync" => r.event.type \in {"paid", "subscription"}
  /\ r.pc = "fulfill" => r.event.type = "paid"
  /\ r.pc = "stop" => r.event.type = "paid" /\ ctl[r.event.of] # "none"
  /\ r.pc = "refund" => r.event.type = "refund" /\ back[r.event.of] = Price
  /\ r.pc = "fail_order" => r.event.type = "attempt_failed"
  /\ r.pc = "expire_order" => r.event.type = "expired"
  /\ r.pc = "finish" => Applied(r.event, ctl, sub)

RunInv == \A h \in Handlers : RunOK(run[h], events, refunded, control, subscription)

InboxInv == \A e \in Event : inbox[e] = "processed" => Applied(e, control, subscription)

\* A closed order is closed for good reason.
CloseInv ==
  \A p \in Ordered :
    /\ order[p] = "expired" => paid[p] = "expired"
    /\ order[p] = "canceled" => p \in First /\ subscription \in Gone

\* The ledger of credits
LedgerInv ==
  /\ IsFiniteSet(granted) /\ IsFiniteSet(reversed)
  /\ \A p \in Payments : control[p] = "none" => p \notin granted
  /\ CreditsArePaid

\* Payments whose refund closes no order but their own: that of a renewal
\* closes the order of the first invoice.
OwnRefund == {p \in Payments : p \in First => Renewals = {}}

\* What is recorded as refunded was, and has no credit left.
RefundInv ==
  \A p \in OwnRefund :
    /\ p \in Ordered /\ order[p] = "refunded" => control[p] \in Recorded
    /\ control[p] = "refunded" => p \notin granted \ reversed
    /\ control[p] \in Recorded => Full(p)

StripeInv ==
  TypeOK /\ EventInv /\ RunInv /\ InboxInv /\ CloseInv /\ LedgerInv /\ RefundInv

-----------------------------------------------------------------------------
(* Types *)

PCs == {"idle", "claimed", "fulfill", "sync", "stop", "fail_order", "expire_order",
        "refund", "finish"}
Subscription == {"active", "ending"} \cup Gone

StripeOK ==
  /\ paid \in [Payments -> {"open", "paid", "expired"}]
  /\ refunded \in [Payments -> 0..Price]
  /\ subscription \in Subscription /\ events \subseteq Event
InboxOK ==
  answered \subseteq events /\ inbox \in [Event -> {"none", "processing", "processed", "failed"}]
RunTypeOK ==
  run \in [Handlers -> [pc: PCs, event: Event \cup {NoEvent}, order: OrderStatus,
                        sub: Subscription]]
OrderOK == order \in [Ordered -> OrderStatus]
CreditsOK ==
  /\ control \in [Payments -> ControlStatus]
  /\ granted \subseteq Payments /\ reversed \subseteq Payments
CustomerOK == spent \in Nat /\ active \in BOOLEAN
FaultsOK == faults \in 0..MaxFaults

\* TypeOK in parts, so that a step need only be looked at for what it changes
LEMMA TypeParts ==
  TypeOK <=> /\ StripeOK /\ InboxOK /\ RunTypeOK /\ OrderOK /\ CreditsOK /\ CustomerOK
             /\ FaultsOK
BY DEF TypeOK, StripeOK, InboxOK, RunTypeOK, OrderOK, CreditsOK, CustomerOK, FaultsOK,
       PCs, Subscription

\* The same for a step's result
LEMMA TypePartsNext ==
  TypeOK' <=> /\ StripeOK' /\ InboxOK' /\ RunTypeOK' /\ OrderOK' /\ CreditsOK'
              /\ CustomerOK' /\ FaultsOK'
BY DEF TypeOK, StripeOK, InboxOK, RunTypeOK, OrderOK, CreditsOK, CustomerOK, FaultsOK,
       PCs, Subscription

\* What a part keeps when its variables do not change
LEMMA Untouched ==
  ASSUME TypeOK
  PROVE  /\ UNCHANGED stripe => StripeOK'
         /\ UNCHANGED <<answered, inbox, events>> => InboxOK'
         /\ UNCHANGED run => RunTypeOK'
         /\ UNCHANGED order => OrderOK'
         /\ UNCHANGED credits => CreditsOK'
         /\ UNCHANGED customer => CustomerOK'
         /\ UNCHANGED faults => FaultsOK'
BY TypeParts
DEF StripeOK, InboxOK, RunTypeOK, OrderOK, CreditsOK, CustomerOK, FaultsOK, stripe,
    credits, customer

\* The fields of an event
LEMMA EventFields ==
  ASSUME NEW e \in Event
  PROVE  /\ e.of \in Payments
         /\ e.type \in {"paid", "attempt_failed", "expired", "refund", "subscription"}
         /\ e.type # "refund" => e = Happens(e.type, e.of) /\ e.amount = 0
         /\ e.type = "refund" => e.amount \in 1..Price
BY DEF Event, Happens, Payments

\* What happens at Stripe is told as an event.
LEMMA EventTyped ==
  /\ \A p \in Payments : \A t \in {"paid", "attempt_failed", "expired"} : Happens(t, p) \in Event
  /\ \A p \in First : Happens("subscription", p) \in Event
  /\ \A p \in Payments, n \in 1..Price : [type |-> "refund", of |-> p, amount |-> n] \in Event
BY DEF Event, Happens

\* A handler that goes on
LEMMA BecomeTyped ==
  ASSUME TypeOK, NEW h \in Handlers, NEW pc \in PCs, NEW e \in Event \cup {NoEvent},
         NEW o \in OrderStatus, NEW s \in Subscription,
         Become(h, [pc |-> pc, event |-> e, order |-> o, sub |-> s])
  PROVE  RunTypeOK'
BY TypeParts DEF RunTypeOK, Become

\* The record of a handler, by its fields
LEMMA RunFields ==
  ASSUME TypeOK, NEW h \in Handlers
  PROVE  /\ run[h] = [pc |-> run[h].pc, event |-> run[h].event, order |-> run[h].order,
                      sub |-> run[h].sub]
         /\ run[h].pc \in PCs /\ run[h].event \in Event \cup {NoEvent}
         /\ run[h].order \in OrderStatus /\ run[h].sub \in Subscription
BY TypeParts DEF RunTypeOK

\* A step of a handler that changes only where it is
LEMMA GotoEffect ==
  ASSUME TypeOK, NEW h \in Handlers, NEW pc, Goto(h, pc)
  PROVE  /\ run'[h] = [pc |-> pc, event |-> run[h].event, order |-> run[h].order,
                       sub |-> run[h].sub]
         /\ \A g \in Handlers \ {h} : run'[g] = run[g]
         /\ pc \in PCs => RunTypeOK'
<1> DEFINE r == [pc |-> pc, event |-> run[h].event, order |-> run[h].order, sub |-> run[h].sub]
<1>0. [run[h] EXCEPT !.pc = pc] = r
  BY TypeParts DEF RunTypeOK
<1>1. Become(h, r)
  BY <1>0 DEF Goto, Become
<1>2. run'[h] = r
  BY <1>1, TypeParts DEF RunTypeOK, Become
<1>3. \A g \in Handlers \ {h} : run'[g] = run[g]
  BY TypeParts DEF RunTypeOK, Goto, Become
<1>4. ASSUME pc \in PCs
      PROVE  RunTypeOK'
  BY <1>1, <1>4, BecomeTyped, RunFields
<1> QED
  BY <1>2, <1>3, <1>4

-----------------------------------------------------------------------------
(* What the steps do *)

\* The event a handler works on is one that Stripe has told.
LEMMA OwnEvent ==
  ASSUME TypeOK, RunInv, NEW h \in Handlers, run[h].pc # "idle"
  PROVE  run[h].event \in events /\ run[h].event \in Event /\ run[h].event.of \in Payments
BY TypeParts, EventFields DEF RunInv, RunOK, StripeOK

\* A handler reads the subscription and goes on.
LEMMA ReadsEffect ==
  ASSUME TypeOK, RunInv, NEW h \in Handlers, NEW type, NEW pc \in PCs, Reads(h, type, pc)
  PROVE  /\ run[h].pc = "claimed" /\ run[h].event.type = type
         /\ run'[h].pc = pc /\ run'[h].event = run[h].event /\ run'[h].sub = subscription
         /\ \A g \in Handlers \ {h} : run'[g] = run[g]
         /\ RunTypeOK'
<1> DEFINE e == run[h].event
           o == IF e.of \in Ordered THEN order[e.of] ELSE "fulfilled"
           r == [pc |-> pc, event |-> e, order |-> o, sub |-> subscription]
<1>1. e \in Event
  BY OwnEvent DEF Reads, At
<1>2. o \in OrderStatus /\ subscription \in Subscription
  BY TypeParts DEF OrderOK, OrderStatus, StripeOK
<1>4. Become(h, r)
  BY DEF Reads, Become
<1>5. RunTypeOK'
  <2> HIDE DEF e, o
  <2> QED
    BY <1>1, <1>2, <1>4, BecomeTyped
<1>6. run'[h] = r /\ \A g \in Handlers \ {h} : run'[g] = run[g]
  BY <1>4, TypeParts DEF RunTypeOK, Become
<1> QED
  BY <1>5, <1>6 DEF Reads, At

\* Where a handler goes that has read, and what it knows then
LEMMA ReadEffect ==
  ASSUME TypeOK, RunInv, NEW h \in Handlers, Read(h)
  PROVE  LET e == run[h].event  pc == run'[h].pc IN
         /\ run[h].pc = "claimed" /\ e \in events /\ e \in Event
         /\ run'[h].event = e /\ run'[h].sub = subscription
         /\ \A g \in Handlers \ {h} : run'[g] = run[g]
         /\ RunTypeOK'
         /\ \/ pc = "fulfill" /\ e.type = "paid"
            \/ pc = "sync" /\ e.type \in {"paid", "subscription"}
            \/ pc = "expire_order" /\ e.type = "expired"
            \/ pc \in {"fail_order", "finish"} /\ e.type = "attempt_failed"
            \/ pc = "refund" /\ e.type = "refund" /\ refunded[e.of] = Price
            \/ pc = "finish" /\ e.type = "refund" /\ refunded[e.of] # Price
         /\ UNCHANGED <<stripe, answered, inbox, order, credits, customer, faults>>
<1> USE DEF PCs
<1>1. CASE ReadPack(h)
  BY <1>1, ReadsEffect, OwnEvent DEF ReadPack, Reads, At
<1>2. CASE ReadInvoice(h)
  BY <1>2, ReadsEffect, OwnEvent DEF ReadInvoice, Reads, At
<1>3. CASE ReadSubscription(h)
  BY <1>3, ReadsEffect, OwnEvent DEF ReadSubscription, Reads, At
<1>4. CASE ReadExpiry(h)
  BY <1>4, ReadsEffect, OwnEvent DEF ReadExpiry, Reads, At
<1>5. CASE ReadAttempt(h)
  <2>1. PICK pc \in {"fail_order", "finish"} : Reads(h, "attempt_failed", pc)
    BY <1>5 DEF ReadAttempt
  <2> QED
    BY <2>1, ReadsEffect, OwnEvent DEF Reads, At
<1>6. CASE ReadRefund(h)
  <2>1. CASE refunded[run[h].event.of] = Price
    <3>1. Reads(h, "refund", "refund")
      BY <1>6, <2>1 DEF ReadRefund, FullRefund
    <3> QED
      BY <2>1, <3>1, ReadsEffect, OwnEvent DEF Reads, At
  <2>2. CASE refunded[run[h].event.of] # Price
    <3>1. Reads(h, "refund", "finish")
      BY <1>6, <2>2 DEF ReadRefund, FullRefund
    <3> QED
      BY <2>2, <3>1, ReadsEffect, OwnEvent DEF Reads, At
  <2> QED
    BY <2>1, <2>2
<1> QED
  BY <1>1, <1>2, <1>3, <1>4, <1>5, <1>6 DEF Read

\* The status of orders
LEMMA OrdersEffect ==
  ASSUME TypeOK, NEW O, NEW s \in OrderStatus, Orders(O, s)
  PROVE  OrderOK' /\ \A o \in Ordered : order'[o] = IF o \in O THEN s ELSE order[o]
BY TypeParts DEF Orders, OrderOK

\* The status of a payment
LEMMA ControlEffect ==
  ASSUME TypeOK, NEW p, NEW s \in ControlStatus, Control(p, s)
  PROVE  /\ control' \in [Payments -> ControlStatus]
         /\ \A q \in Payments : control'[q] = IF q = p THEN s ELSE control[q]
BY TypeParts DEF Control, CreditsOK

\* A grant changes the status of the payment only, to one of three.
LEMMA FulfillEffect ==
  ASSUME TypeOK, NEW p \in Payments, Fulfill(p)
  PROVE  /\ CreditsOK' /\ OrderOK' /\ reversed' = reversed
         /\ \A q \in Payments \ {p} : control'[q] = control[q]
         /\ \/ /\ control[p] \in Settled \cup {"fulfilled"}
               /\ UNCHANGED <<control, granted, order>>
            \/ /\ control[p] \notin Settled /\ control'[p] = "refunded"
               /\ p \in Ordered /\ order[p] = "refunded" /\ UNCHANGED <<granted, order>>
            \/ /\ control[p] \notin Settled /\ control'[p] = "blocked"
               /\ p \in Ordered /\ order[p] \in Closed /\ UNCHANGED <<granted, order>>
            \/ /\ control[p] = "none" /\ control'[p] = "blocked" /\ UNCHANGED granted
               /\ \A o \in Ordered : order'[o] = IF o = p THEN "paid" ELSE order[o]
            \/ /\ control[p] = "none" /\ control'[p] = "fulfilled"
               /\ granted' = granted \cup {p}
               /\ \A o \in Ordered : order'[o] = IF o = p THEN "fulfilled" ELSE order[o]
<1> DEFINE settled == control[p] \in {"refunded", "refund_needs_adjustment", "blocked"}
<1>0. /\ \A S : In(GrantOrder(p), S) => p \in Ordered /\ order[p] \in S
      /\ \A o \in Ordered : o \in GrantOrder(p) <=> o = p
  BY DEF In, GrantOrder
<1>1. CreditsOK /\ OrderOK /\ reversed' = reversed
  BY TypeParts DEF Fulfill
<1>2. CASE settled /\ UNCHANGED <<control, granted, order>>
  BY <1>1, <1>2 DEF Settled, CreditsOK, OrderOK
<1>3. CASE ~settled /\ In(GrantOrder(p), {"refunded"}) /\ Control(p, "refunded")
           /\ UNCHANGED <<granted, order>>
  BY <1>0, <1>1, <1>3, ControlEffect DEF Settled, CreditsOK, OrderOK, ControlStatus
<1>4. CASE ~settled /\ In(GrantOrder(p), Closed) /\ Control(p, "blocked")
           /\ UNCHANGED <<granted, order>>
  BY <1>0, <1>1, <1>4, ControlEffect DEF Settled, CreditsOK, OrderOK, ControlStatus
<1>5. CASE control[p] = "fulfilled" /\ UNCHANGED <<control, granted, order>>
  BY <1>1, <1>5 DEF CreditsOK, OrderOK
<1>6. CASE control[p] = "none" /\ Control(p, "blocked") /\ Orders(GrantOrder(p), "paid")
           /\ UNCHANGED granted
  BY <1>0, <1>1, <1>6, ControlEffect, OrdersEffect
  DEF CreditsOK, ControlStatus, OrderStatus
<1>7. CASE control[p] = "none" /\ Granted(p)
  BY <1>0, <1>1, <1>7, ControlEffect, OrdersEffect
  DEF Granted, CreditsOK, ControlStatus, OrderStatus
<1> QED
  BY <1>1, <1>2, <1>3, <1>4, <1>5, <1>6, <1>7 DEF Fulfill

\* A refund is recorded as done with its reversal, or as a case for a person.
LEMMA RecordRefundEffect ==
  ASSUME TypeOK, NEW p \in Payments, RecordRefund(p)
  PROVE  /\ CreditsOK' /\ OrderOK' /\ granted' = granted
         /\ \A q \in Payments \ {p} : control'[q] = control[q]
         /\ \/ p \notin granted /\ control'[p] = "refunded" /\ reversed' = reversed
            \/ /\ p \in granted /\ Reversible(p) /\ control'[p] = "refunded"
               /\ reversed' = reversed \cup {p}
            \/ /\ p \in granted /\ control'[p] = "refund_needs_adjustment"
               /\ reversed' = reversed
         /\ \A o \in Ordered : order'[o] = IF o \in RefundOrder(p) THEN "refunded" ELSE order[o]
BY TypeParts, ControlEffect, OrdersEffect
DEF RecordRefund, CreditsOK, ControlStatus, OrderStatus

\* Every step of Stripe, the customer and the handlers keeps the types.
LEMMA TypeStep ==
  ASSUME StripeAssumption, TypeOK, RunInv, [Next]_vars
  PROVE  TypeOK'
<1> USE TypeParts, TypePartsNext, Untouched DEF stripe, credits, customer
<1>1. ASSUME NEW p \in Payments, AttemptFails(p) \/ Pay(p) \/ CheckoutExpires(p)
      PROVE  TypeOK'
  <2>1. StripeOK' /\ InboxOK'
    BY <1>1, EventTyped
    DEF AttemptFails, Pay, CheckoutExpires, Tell, StripeOK, InboxOK
  <2> QED
    BY <1>1, <2>1 DEF AttemptFails, Pay, CheckoutExpires
<1>2. ASSUME NEW p \in Payments, Refund(p)
      PROVE  TypeOK'
  <2>1. PICK n \in refunded[p] + 1..Price :
          /\ refunded' = [refunded EXCEPT ![p] = n]
          /\ Tell([type |-> "refund", of |-> p, amount |-> n])
    BY <1>2 DEF Refund
  <2>2. n \in 1..Price /\ n \in 0..Price
    BY DEF StripeAssumption, StripeOK
  <2>3. StripeOK' /\ InboxOK'
    BY <1>2, <2>1, <2>2, EventTyped DEF Refund, Tell, StripeOK, InboxOK
  <2> QED
    BY <1>2, <2>3 DEF Refund
<1>3. CASE SubscriptionEnds
  <2>1. StripeOK' /\ InboxOK'
    BY <1>3, EventTyped
    DEF SubscriptionEnds, Tell, StripeOK, InboxOK, Subscription, Gone
  <2> QED
    BY <1>3, <2>1 DEF SubscriptionEnds
<1>4. CASE Spend
  BY <1>4 DEF Spend, CustomerOK
<1>5. CASE Suspend
  BY <1>5 DEF Suspend, CustomerOK
<1>6. ASSUME NEW h \in Handlers, Read(h)
      PROVE  TypeOK'
  BY <1>6, ReadEffect DEF InboxOK
<1>7. ASSUME NEW h \in Handlers, SyncSubscription(h)
      PROVE  TypeOK'
  <2>1. RunTypeOK'
    BY <1>7, GotoEffect DEF SyncSubscription, PCs
  <2>2. OrderOK'
    BY <1>7, OrdersEffect DEF SyncSubscription, OrderStatus
  <2> QED
    BY <1>7, <2>1, <2>2 DEF SyncSubscription
<1>8. ASSUME NEW h \in Handlers, FulfillStripeCredits(h)
      PROVE  TypeOK'
  <2>1. RunTypeOK'
    BY <1>8, GotoEffect DEF FulfillStripeCredits, PCs
  <2>2. CreditsOK' /\ OrderOK'
    BY <1>8, OwnEvent, FulfillEffect DEF FulfillStripeCredits, At
  <2> QED
    BY <1>8, <2>1, <2>2 DEF FulfillStripeCredits
<1>9. ASSUME NEW h \in Handlers, StopRenewal(h)
      PROVE  TypeOK'
  <2>1. CASE Goto(h, "finish") /\ subscription' = "ending" /\ UNCHANGED inbox
    BY <1>9, <2>1, GotoEffect DEF StopRenewal, PCs, StripeOK, Subscription
  <2>2. CASE /\ Become(h, Idle) /\ inbox' = [inbox EXCEPT ![run[h].event] = "failed"]
             /\ UNCHANGED subscription
    <3>1. RunTypeOK'
      BY <2>2, BecomeTyped DEF Idle, Delivery, PCs, OrderStatus, Subscription
    <3>2. InboxOK'
      BY <1>9, <2>2, OwnEvent DEF StopRenewal, At, InboxOK
    <3> QED
      BY <1>9, <2>2, <3>1, <3>2 DEF StopRenewal
  <2> QED
    BY <1>9, <2>1, <2>2 DEF StopRenewal
<1>10. ASSUME NEW h \in Handlers, WriteOrder(h)
       PROVE  TypeOK'
  <2>1. RunTypeOK'
    BY <1>10, GotoEffect DEF WriteOrder, PCs
  <2>2. OrderOK'
    BY <1>10, OrdersEffect DEF WriteOrder, OrderStatus
  <2> QED
    BY <1>10, <2>1, <2>2 DEF WriteOrder
<1>11. ASSUME NEW h \in Handlers, RecordFullRefund(h)
       PROVE  TypeOK'
  <2>1. RunTypeOK'
    BY <1>11, GotoEffect DEF RecordFullRefund, PCs
  <2>2. CreditsOK' /\ OrderOK'
    BY <1>11, OwnEvent, RecordRefundEffect DEF RecordFullRefund, At
  <2> QED
    BY <1>11, <2>1, <2>2 DEF RecordFullRefund
<1>12. ASSUME NEW h \in Handlers, Finish(h) \/ Fail(h)
       PROVE  TypeOK'
  <2>1. RunTypeOK'
    BY <1>12, BecomeTyped DEF Finish, Fail, Idle, Delivery, PCs, OrderStatus, Subscription
  <2>2. InboxOK'
    BY <1>12, OwnEvent DEF Finish, Fail, At, InboxOK
  <2>3. FaultsOK'
    BY <1>12 DEF Finish, Fail, FaultsOK, StripeAssumption
  <2> QED
    BY <1>12, <2>1, <2>2, <2>3 DEF Finish, Fail
<1>13. ASSUME NEW h \in Handlers, NEW e \in events, Deliver(h, e)
       PROVE  TypeOK'
  <2>1. e \in Event
    BY DEF StripeOK
  <2>2. RunTypeOK'
    <3>1. CASE UNCHANGED run
      BY <3>1
    <3>2. CASE Become(h, Delivery("claimed", e))
      <4>1. Become(h, [pc |-> "claimed", event |-> e, order |-> "checkout_created",
                       sub |-> "active"])
        BY <3>2 DEF Delivery
      <4> QED
        BY <2>1, <4>1, BecomeTyped DEF PCs, OrderStatus, Subscription
    <3> QED
      BY <1>13, <3>1, <3>2 DEF Deliver
  <2>3. InboxOK'
    BY <1>13, <2>1 DEF Deliver, InboxOK
  <2> QED
    BY <1>13, <2>2, <2>3 DEF Deliver
<1>14. CASE UNCHANGED vars
  BY <1>14 DEF vars
<1> QED
  BY <1>1, <1>2, <1>3, <1>4, <1>5, <1>6, <1>7, <1>8, <1>9, <1>10, <1>11, <1>12,
     <1>13, <1>14
  DEF Next, Step

-----------------------------------------------------------------------------
(* Nothing is undone *)

\* What is paid, refunded, ended or settled stays so; a grant is blocked later
\* only when the subscription is over.
Onward ==
  /\ events \subseteq events'
  /\ \A p \in Payments :
       /\ paid[p] # "open" => paid'[p] = paid[p]
       /\ refunded[p] <= refunded'[p]
       /\ control[p] # "none" => control'[p] # "none"
       /\ control[p] \in Recorded => control'[p] \in Recorded
       /\ control[p] \notin {"none", "blocked"} /\ control'[p] = "blocked"
          => p \in First /\ subscription' \in Gone
  /\ subscription # "active" => subscription' # "active"
  /\ subscription \in Gone => subscription' \in Gone

\* A payment that a handler grants credits for came in.
LEMMA GrantedIsPaid ==
  ASSUME TypeOK, EventInv, RunInv, NEW h \in Handlers, run[h].pc = "fulfill"
  PROVE  paid[run[h].event.of] = "paid"
BY OwnEvent DEF EventInv, RunInv, RunOK

\* So goes every step.
LEMMA OnwardStep ==
  ASSUME StripeAssumption, StripeInv, [Next]_vars
  PROVE  Onward
<1> USE TypeParts DEF StripeInv
<1>1. ASSUME UNCHANGED <<stripe, control>>
      PROVE  Onward
  BY <1>1 DEF Onward, stripe, StripeOK
<1>2. ASSUME NEW p \in Payments,
             AttemptFails(p) \/ Pay(p) \/ CheckoutExpires(p) \/ Refund(p)
      PROVE  Onward
  BY <1>2 DEF AttemptFails, Pay, CheckoutExpires, Refund, Tell, Onward, StripeOK, credits,
              StripeAssumption
<1>3. CASE SubscriptionEnds
  BY <1>3 DEF SubscriptionEnds, Tell, Onward, StripeOK, credits, Gone
<1>4. CASE Spend \/ Suspend
  BY <1>1, <1>4 DEF Spend, Suspend, credits
<1>5. ASSUME NEW h \in Handlers, Read(h)
      PROVE  Onward
  BY <1>1, <1>5, ReadEffect DEF credits
<1>6. ASSUME NEW h \in Handlers, SyncSubscription(h) \/ WriteOrder(h) \/ Finish(h) \/ Fail(h)
      PROVE  Onward
  BY <1>1, <1>6 DEF SyncSubscription, WriteOrder, Finish, Fail, credits
<1>7. ASSUME NEW h \in Handlers, FulfillStripeCredits(h)
      PROVE  Onward
  <2>1. PICK p \in Payments : p = run[h].event.of
    BY <1>7, OwnEvent DEF FulfillStripeCredits, At
  <2>2. Fulfill(p) /\ paid[p] = "paid" /\ UNCHANGED stripe
    BY <1>7, <2>1, GrantedIsPaid DEF FulfillStripeCredits, At
  <2>3. \A q \in Payments \ {p} : control'[q] = control[q]
    BY <2>2, FulfillEffect
  <2>4. /\ control[p] # "none" => control'[p] # "none"
        /\ control[p] \in Recorded => control'[p] \in Recorded
    BY <2>2, FulfillEffect DEF Recorded, Settled
  <2>5. control[p] \notin {"none", "blocked"} /\ control'[p] = "blocked"
        => p \in Ordered /\ order[p] \in Closed
    BY <2>2, FulfillEffect
  <2>6. p \in Ordered /\ order[p] \in Closed => p \in First /\ subscription \in Gone
    BY <2>2 DEF CloseInv, Closed
  <2> QED
    BY <2>2, <2>3, <2>4, <2>5, <2>6 DEF Onward, stripe, StripeOK
<1>8. ASSUME NEW h \in Handlers, RecordFullRefund(h)
      PROVE  Onward
  <2>1. PICK p \in Payments : p = run[h].event.of
    BY <1>8, OwnEvent DEF RecordFullRefund, At
  <2>2. RecordRefund(p) /\ UNCHANGED stripe
    BY <1>8, <2>1 DEF RecordFullRefund
  <2>3. (\A q \in Payments \ {p} : control'[q] = control[q]) /\ control'[p] \in Recorded
    BY <2>2, RecordRefundEffect DEF Recorded
  <2> QED
    BY <2>2, <2>3 DEF Onward, stripe, StripeOK, Recorded
<1>9. ASSUME NEW h \in Handlers, StopRenewal(h)
      PROVE  Onward
  BY <1>9 DEF StopRenewal, Onward, StripeOK, credits, Gone
<1>10. ASSUME NEW h \in Handlers, NEW e \in events, Deliver(h, e)
       PROVE  Onward
  BY <1>1, <1>10 DEF Deliver, credits
<1>11. CASE UNCHANGED vars
  BY <1>1, <1>11 DEF vars, credits
<1> QED
  BY <1>2, <1>3, <1>4, <1>5, <1>6, <1>7, <1>8, <1>9, <1>10, <1>11 DEF Next, Step

\* An effect that was had is kept.
LEMMA AppliedKept ==
  ASSUME Onward, NEW e \in Event, Applied(e, control, subscription)
  PROVE  Applied(e, control', subscription')
BY EventFields DEF Applied, Onward, Gone

\* What a handler knows stays true.
LEMMA RunKept ==
  ASSUME Onward, TypeOK, TypeOK', NEW r, RunOK(r, events, refunded, control, subscription)
  PROVE  RunOK(r, events', refunded', control', subscription')
<1> USE TypeParts, TypePartsNext DEF StripeOK
<1>1. CASE r.pc = "idle"
  BY <1>1 DEF RunOK, Onward
<1>2. CASE r.pc # "idle"
  <2>1. r.event \in events /\ r.event \in Event /\ r.event.of \in Payments
    BY <1>2, EventFields DEF RunOK
  <2>2. r.pc = "finish" => Applied(r.event, control', subscription')
    BY <2>1, AppliedKept DEF RunOK
  <2>3. refunded[r.event.of] = Price => refunded'[r.event.of] = Price
    BY <2>1 DEF Onward
  <2> QED
    BY <2>1, <2>2, <2>3 DEF RunOK, Onward
<1> QED
  BY <1>1, <1>2

-----------------------------------------------------------------------------
(* The steps *)

\* An event that is told is true.
LEMMA EventStep ==
  ASSUME StripeAssumption, StripeInv, TypeOK', [Next]_vars
  PROVE  EventInv'
<1> USE TypeParts, TypePartsNext DEF StripeInv
<1>1. Onward
  BY OnwardStep
<1>2. ASSUME NEW e \in events
      PROVE  /\ e.type \in {"paid", "expired"} => paid'[e.of] = e.type
             /\ e.type = "refund" => e.amount <= refunded'[e.of]
  <2>1. e \in Event /\ e.of \in Payments /\ (e.type = "refund" => e.amount \in 1..Price)
    BY EventFields DEF StripeOK
  <2>2. refunded[e.of] \in Nat /\ refunded'[e.of] \in Nat /\ Price \in Nat
    BY <2>1 DEF StripeOK, StripeAssumption
  <2> QED
    BY <1>1, <2>1, <2>2 DEF EventInv, Onward
<1>3. CASE events' = events
  BY <1>2, <1>3 DEF EventInv
<1>4. ASSUME NEW p \in Payments, NEW t \in {"attempt_failed", "subscription"},
             events' = events \cup {Happens(t, p)}
      PROVE  EventInv'
  BY <1>2, <1>4 DEF EventInv, Happens
<1>5. ASSUME NEW p \in Payments, NEW t \in {"paid", "expired"}, paid'[p] = t,
             events' = events \cup {Happens(t, p)}
      PROVE  EventInv'
  BY <1>2, <1>5 DEF EventInv, Happens
<1>6. ASSUME NEW p \in Payments, Refund(p)
      PROVE  EventInv'
  <2>1. PICK n \in refunded[p] + 1..Price :
          /\ refunded' = [refunded EXCEPT ![p] = n]
          /\ Tell([type |-> "refund", of |-> p, amount |-> n])
    BY <1>6 DEF Refund
  <2>2. n <= refunded'[p]
    BY <2>1 DEF StripeOK, StripeAssumption
  <2> QED
    BY <1>2, <2>1, <2>2 DEF EventInv, Tell
<1>7. ASSUME NEW p \in Payments, AttemptFails(p)
      PROVE  EventInv'
  BY <1>4, <1>7 DEF AttemptFails, Tell
<1>8. ASSUME NEW p \in Payments, Pay(p)
      PROVE  EventInv'
  BY <1>5, <1>8 DEF Pay, Tell, StripeOK
<1>9. ASSUME NEW p \in Payments, CheckoutExpires(p)
      PROVE  EventInv'
  BY <1>5, <1>9 DEF CheckoutExpires, Tell, StripeOK
<1>10. CASE SubscriptionEnds
  BY <1>4, <1>10 DEF SubscriptionEnds, Tell, Payments
<1>11. CASE Spend \/ Suspend \/ UNCHANGED vars
  BY <1>3, <1>11 DEF Spend, Suspend, vars, stripe
<1>12. ASSUME NEW h \in Handlers, Step(h) \/ Fail(h)
       PROVE  EventInv'
  <2>1. events' = events
    BY <1>12, ReadEffect
    DEF Step, SyncSubscription, FulfillStripeCredits, StopRenewal, WriteOrder,
        RecordFullRefund, Finish, Fail, stripe
  <2> QED
    BY <1>3, <2>1
<1>13. ASSUME NEW h \in Handlers, NEW e \in events, Deliver(h, e)
       PROVE  EventInv'
  BY <1>3, <1>13 DEF Deliver, stripe
<1> QED
  BY <1>6, <1>7, <1>8, <1>9, <1>10, <1>11, <1>12, <1>13 DEF Next

\* What a handler that goes on knows
LEMMA GotoKnows ==
  ASSUME TypeOK, NEW h \in Handlers, NEW pc \in PCs, Goto(h, pc),
         NEW told, NEW back, NEW ctl, NEW sub, RunOK(run[h], told, back, ctl, sub),
         pc = "fulfill" => run[h].event.type = "paid",
         pc = "stop" => run[h].event.type = "paid" /\ ctl[run[h].event.of] # "none",
         pc = "finish" => Applied(run[h].event, ctl, sub),
         pc \in {"fulfill", "stop", "finish"}, run[h].pc # "idle"
  PROVE  RunOK(run'[h], told, back, ctl, sub)
<1>0. run'[h] = [pc |-> pc, event |-> run[h].event, order |-> run[h].order,
                 sub |-> run[h].sub]
  BY GotoEffect
<1>1. /\ run'[h].pc = pc /\ run'[h].event = run[h].event /\ run'[h].sub = run[h].sub
  BY <1>0
<1>2. run[h].event \in told /\ (run[h].sub # "active" => sub # "active")
      /\ (run[h].sub \in Gone => sub \in Gone)
  BY DEF RunOK
<1>3. CASE pc = "fulfill"
  BY <1>1, <1>2, <1>3 DEF RunOK
<1>4. CASE pc = "stop"
  BY <1>1, <1>2, <1>4 DEF RunOK
<1>5. CASE pc = "finish"
  BY <1>1, <1>2, <1>5 DEF RunOK
<1> QED
  BY <1>3, <1>4, <1>5

\* One handler moves, and knows what it should.
LEMMA RunMoves ==
  ASSUME Onward, TypeOK, TypeOK', RunInv, NEW h \in Handlers,
         \A g \in Handlers \ {h} : run'[g] = run[g],
         RunOK(run'[h], events', refunded', control', subscription')
  PROVE  RunInv'
BY RunKept DEF RunInv

\* A handler that is idle knows nothing.
LEMMA IdleRuns ==
  ASSUME Onward, TypeOK, TypeOK', RunInv, NEW h \in Handlers, Become(h, Idle)
  PROVE  RunInv'
<1>1. run'[h] = Idle /\ \A g \in Handlers \ {h} : run'[g] = run[g]
  BY TypeParts DEF Become, RunTypeOK
<1>2. RunOK(Idle, events', refunded', control', subscription')
  BY DEF RunOK, Idle, Delivery, Gone
<1> QED
  BY <1>1, <1>2, RunMoves

\* What the handlers know is kept and learned.
LEMMA RunStep ==
  ASSUME StripeAssumption, StripeInv, TypeOK', [Next]_vars
  PROVE  RunInv'
<1> USE TypeParts, TypePartsNext DEF StripeInv
<1>1. Onward
  BY OnwardStep
<1>2. CASE UNCHANGED run
  BY <1>1, <1>2, RunKept DEF RunInv
<1>3. ASSUME NEW h \in Handlers, Read(h)
      PROVE  RunInv'
  <2>1. /\ run'[h].event \in events' /\ run'[h].event = run[h].event
        /\ run'[h].sub = subscription'
        /\ \A g \in Handlers \ {h} : run'[g] = run[g]
    BY <1>3, ReadEffect DEF stripe
  <2>2. run'[h].event.type = "refund" /\ refunded'[run'[h].event.of] # Price
        => run'[h].event.amount # Price
    <3>1. run[h].event \in events /\ run[h].event \in Event /\ UNCHANGED refunded
      BY <1>3, ReadEffect DEF stripe
    <3>2. /\ run[h].event.of \in Payments
          /\ run[h].event.type = "refund" => run[h].event.amount <= refunded[run[h].event.of]
      BY <3>1, EventFields DEF EventInv
    <3>3. refunded[run[h].event.of] \in 0..Price /\ Price \in Nat
      BY <3>2 DEF StripeOK, StripeAssumption
    <3> QED
      BY <2>1, <3>1, <3>2, <3>3
  <2>3. RunOK(run'[h], events', refunded', control', subscription')
    BY <1>3, <2>1, <2>2, ReadEffect DEF RunOK, Applied, stripe, Gone
  <2> QED
    BY <1>1, <2>1, <2>3, RunMoves
<1>4. ASSUME NEW h \in Handlers, SyncSubscription(h)
      PROVE  RunInv'
  <2>1. RunOK(run[h], events', refunded', control', subscription') /\ run[h].pc = "sync"
    BY <1>1, <1>4, RunKept DEF RunInv, SyncSubscription, At
  <2>2. PICK pc \in {"fulfill", "finish"} :
          Goto(h, pc) /\ (pc = "fulfill" <=> run[h].event.type = "paid")
    BY <1>4 DEF SyncSubscription
  <2>3. RunOK(run'[h], events', refunded', control', subscription')
    <3>1. run[h].event.type # "paid" => Applied(run[h].event, control', subscription')
      BY <2>1 DEF RunOK, Applied
    <3> QED
      BY <2>1, <2>2, <3>1, GotoKnows DEF PCs
  <2> QED
    BY <1>1, <2>2, <2>3, GotoEffect, RunMoves
<1>5. ASSUME NEW h \in Handlers, FulfillStripeCredits(h)
      PROVE  RunInv'
  <2>1. RunOK(run[h], events', refunded', control', subscription') /\ run[h].pc = "fulfill"
    BY <1>1, <1>5, RunKept DEF RunInv, FulfillStripeCredits, At
  <2>2. PICK p \in Payments : p = run[h].event.of
    BY <2>1, OwnEvent
  <2>3. control'[p] # "none"
    BY <1>5, <2>2, FulfillEffect DEF FulfillStripeCredits, Settled
  <2>4. PICK pc \in {"stop", "finish"} :
          /\ Goto(h, pc)
          /\ pc = "finish" /\ p \notin Packs /\ control'[p] = "blocked"
             => run[h].sub \in {"ending", "ended"}
    BY <1>5, <2>2 DEF FulfillStripeCredits
  <2>5. p \in First => p \notin Packs
    BY DEF StripeAssumption
  <2>6. RunOK(run'[h], events', refunded', control', subscription')
    <3>1. run[h].event.type = "paid"
      BY <2>1 DEF RunOK
    <3>2. pc = "finish" => Applied(run[h].event, control', subscription')
      BY <2>1, <2>2, <2>3, <2>4, <2>5, <3>1 DEF RunOK, Applied
    <3> QED
      BY <2>1, <2>2, <2>3, <2>4, <3>1, <3>2, GotoKnows DEF PCs
  <2> QED
    BY <1>1, <2>4, <2>6, GotoEffect, RunMoves
<1>6. ASSUME NEW h \in Handlers, StopRenewal(h)
      PROVE  RunInv'
  <2>1. CASE Goto(h, "finish") /\ subscription' = "ending"
    <3>1. RunOK(run[h], events', refunded', control', subscription') /\ run[h].pc = "stop"
      BY <1>1, <1>6, RunKept DEF RunInv, StopRenewal, At
    <3>2. RunOK(run'[h], events', refunded', control', subscription')
      <4>1. Applied(run[h].event, control', subscription')
        BY <2>1, <3>1 DEF RunOK, Applied
      <4> QED
        BY <2>1, <3>1, <4>1, GotoKnows DEF PCs
    <3> QED
      BY <1>1, <2>1, <3>2, GotoEffect, RunMoves
  <2>2. CASE Become(h, Idle)
    BY <1>1, <2>2, IdleRuns
  <2> QED
    BY <1>6, <2>1, <2>2 DEF StopRenewal
<1>7. ASSUME NEW h \in Handlers, WriteOrder(h)
      PROVE  RunInv'
  <2>1. /\ RunOK(run[h], events', refunded', control', subscription')
        /\ run[h].pc \in {"fail_order", "expire_order"} /\ Goto(h, "finish")
    BY <1>1, <1>7, RunKept DEF RunInv, WriteOrder, At
  <2>2. RunOK(run'[h], events', refunded', control', subscription')
    <3>1. Applied(run[h].event, control', subscription')
      BY <2>1 DEF RunOK, Applied
    <3> QED
      BY <2>1, <3>1, GotoKnows DEF PCs
  <2> QED
    BY <1>1, <2>1, <2>2, GotoEffect, RunMoves
<1>8. ASSUME NEW h \in Handlers, RecordFullRefund(h)
      PROVE  RunInv'
  <2>1. /\ RunOK(run[h], events', refunded', control', subscription')
        /\ run[h].pc = "refund" /\ Goto(h, "finish")
    BY <1>1, <1>8, RunKept DEF RunInv, RecordFullRefund, At
  <2>2. control'[run[h].event.of] \in Recorded
    BY <1>8, <2>1, OwnEvent, RecordRefundEffect DEF RecordFullRefund, Recorded
  <2>3. RunOK(run'[h], events', refunded', control', subscription')
    <3>1. Applied(run[h].event, control', subscription')
      BY <2>1, <2>2 DEF RunOK, Applied
    <3> QED
      BY <2>1, <3>1, GotoKnows DEF PCs
  <2> QED
    BY <1>1, <2>1, <2>3, GotoEffect, RunMoves
<1>9. ASSUME NEW h \in Handlers, Finish(h) \/ Fail(h)
      PROVE  RunInv'
  BY <1>1, <1>9, IdleRuns DEF Finish, Fail
<1>10. ASSUME NEW h \in Handlers, NEW e \in events, Deliver(h, e)
       PROVE  RunInv'
  <2>1. CASE Become(h, Delivery("claimed", e))
    <3>1. run'[h] = Delivery("claimed", e) /\ \A g \in Handlers \ {h} : run'[g] = run[g]
      BY <2>1 DEF Become, RunTypeOK
    <3>2. RunOK(Delivery("claimed", e), events', refunded', control', subscription')
      BY <1>1 DEF RunOK, Delivery, Gone, Onward
    <3> QED
      BY <1>1, <3>1, <3>2, RunMoves
  <2> QED
    BY <1>2, <1>10, <2>1 DEF Deliver
<1>11. ASSUME NEW p \in Payments,
              AttemptFails(p) \/ Pay(p) \/ CheckoutExpires(p) \/ Refund(p)
       PROVE  RunInv'
  BY <1>2, <1>11 DEF AttemptFails, Pay, CheckoutExpires, Refund
<1>12. CASE SubscriptionEnds \/ Spend \/ Suspend \/ UNCHANGED vars
  BY <1>2, <1>12 DEF SubscriptionEnds, Spend, Suspend, vars
<1> QED
  BY <1>3, <1>4, <1>5, <1>6, <1>7, <1>8, <1>9, <1>10, <1>11, <1>12 DEF Next, Step

\* An event is marked processed by a handler that has applied it.
LEMMA InboxStep ==
  ASSUME StripeAssumption, StripeInv, [Next]_vars
  PROVE  InboxInv'
<1> USE TypeParts DEF StripeInv
<1>1. Onward
  BY OnwardStep
<1>2. \A e \in Event : inbox[e] = "processed" => Applied(e, control', subscription')
  BY <1>1, AppliedKept DEF InboxInv
<1>3. ASSUME NEW e \in Event, NEW s \in {"processing", "failed"},
             inbox' = [inbox EXCEPT ![e] = s]
      PROVE  InboxInv'
  BY <1>2, <1>3 DEF InboxInv, InboxOK
<1>4. CASE UNCHANGED inbox
  BY <1>2, <1>4 DEF InboxInv
<1>5. ASSUME NEW p \in Payments,
             AttemptFails(p) \/ Pay(p) \/ CheckoutExpires(p) \/ Refund(p)
      PROVE  InboxInv'
  BY <1>4, <1>5 DEF AttemptFails, Pay, CheckoutExpires, Refund
<1>6. CASE SubscriptionEnds \/ Spend \/ Suspend \/ UNCHANGED vars
  BY <1>4, <1>6 DEF SubscriptionEnds, Spend, Suspend, vars
<1>7. ASSUME NEW h \in Handlers,
             \/ Read(h) \/ SyncSubscription(h) \/ FulfillStripeCredits(h) \/ WriteOrder(h)
             \/ RecordFullRefund(h)
      PROVE  InboxInv'
  BY <1>4, <1>7, ReadEffect
  DEF SyncSubscription, FulfillStripeCredits, WriteOrder, RecordFullRefund
<1>8. ASSUME NEW h \in Handlers, StopRenewal(h) \/ Fail(h)
      PROVE  InboxInv'
  <2>1. run[h].event \in Event
    BY <1>8, OwnEvent DEF StopRenewal, Fail, At
  <2> QED
    BY <1>3, <1>4, <1>8, <2>1 DEF StopRenewal, Fail
<1>9. ASSUME NEW h \in Handlers, Finish(h)
      PROVE  InboxInv'
  <2>1. PICK e \in Event : e = run[h].event
    BY <1>9, OwnEvent DEF Finish, At
  <2>2. Applied(e, control, subscription)
    BY <1>9, <2>1 DEF Finish, At, RunInv, RunOK
  <2>3. Applied(e, control', subscription')
    BY <1>1, <2>2, AppliedKept
  <2>4. inbox' = [inbox EXCEPT ![e] = "processed"]
    BY <1>9, <2>1 DEF Finish
  <2> QED
    BY <1>2, <2>3, <2>4 DEF InboxInv, InboxOK
<1>10. ASSUME NEW h \in Handlers, NEW e \in events, Deliver(h, e)
       PROVE  InboxInv'
  BY <1>3, <1>4, <1>10 DEF Deliver, StripeOK
<1> QED
  BY <1>5, <1>6, <1>7, <1>8, <1>9, <1>10 DEF Next, Step

\* Orders are canceled when their subscription has ended, and expire with their
\* checkout.
LEMMA CloseStep ==
  ASSUME StripeAssumption, StripeInv, [Next]_vars
  PROVE  CloseInv'
<1> USE TypeParts DEF StripeInv
<1>1. Onward
  BY OnwardStep
<1>2. ASSUME \A o \in Ordered : order'[o] = order[o] \/ order'[o] \notin Closed
      PROVE  CloseInv'
  BY <1>1, <1>2 DEF CloseInv, Onward, Closed, Ordered, Payments
<1>3. CASE UNCHANGED order
  BY <1>2, <1>3
<1>4. ASSUME NEW p \in Payments,
             AttemptFails(p) \/ Pay(p) \/ CheckoutExpires(p) \/ Refund(p)
      PROVE  CloseInv'
  BY <1>3, <1>4 DEF AttemptFails, Pay, CheckoutExpires, Refund
<1>5. CASE SubscriptionEnds \/ Spend \/ Suspend \/ UNCHANGED vars
  BY <1>3, <1>5 DEF SubscriptionEnds, Spend, Suspend, vars
<1>6. ASSUME NEW h \in Handlers, Read(h) \/ StopRenewal(h) \/ Finish(h) \/ Fail(h)
      PROVE  CloseInv'
  BY <1>3, <1>6, ReadEffect DEF StopRenewal, Finish, Fail
<1>7. ASSUME NEW h \in Handlers, NEW e \in events, Deliver(h, e)
      PROVE  CloseInv'
  BY <1>3, <1>7 DEF Deliver
<1>8. ASSUME NEW h \in Handlers, FulfillStripeCredits(h)
      PROVE  CloseInv'
  <2>1. PICK p \in Payments : p = run[h].event.of
    BY <1>8, OwnEvent DEF FulfillStripeCredits, At
  <2>2. \A o \in Ordered : order'[o] \in {order[o], "paid", "fulfilled"}
    BY <1>8, <2>1, FulfillEffect DEF FulfillStripeCredits
  <2> QED
    BY <1>2, <2>2 DEF Closed
<1>9. ASSUME NEW h \in Handlers, RecordFullRefund(h)
      PROVE  CloseInv'
  <2>1. PICK p \in Payments : p = run[h].event.of
    BY <1>9, OwnEvent DEF RecordFullRefund, At
  <2>2. \A o \in Ordered : order'[o] \in {order[o], "refunded"}
    BY <1>9, <2>1, RecordRefundEffect DEF RecordFullRefund
  <2> QED
    BY <1>2, <2>2 DEF Closed
<1>10. ASSUME NEW h \in Handlers, SyncSubscription(h)
       PROVE  CloseInv'
  <2>1. CASE run[h].sub \in Gone /\ Orders(First, "canceled")
    <3>1. subscription' \in Gone
      BY <1>1, <2>1 DEF RunInv, RunOK, Onward
    <3>2. \A o \in Ordered : order'[o] = IF o \in First THEN "canceled" ELSE order[o]
      BY <2>1, OrdersEffect DEF OrderStatus
    <3> QED
      BY <1>1, <3>1, <3>2 DEF CloseInv, Onward, Ordered, Payments
  <2> QED
    BY <1>3, <1>10, <2>1 DEF SyncSubscription
<1>11. ASSUME NEW h \in Handlers, WriteOrder(h)
       PROVE  CloseInv'
  <2>1. PICK p \in Payments : p = run[h].event.of
    BY <1>11, OwnEvent DEF WriteOrder, At
  <2>2. CASE Orders({p}, "failed")
    BY <1>2, <2>2, OrdersEffect DEF OrderStatus, Closed
  <2>3. CASE run[h].pc = "expire_order" /\ Orders({p}, "expired")
    <3>1. paid[p] = "expired"
      BY <2>1, <2>3, OwnEvent DEF RunInv, RunOK, EventInv
    <3>2. \A o \in Ordered : order'[o] = IF o = p THEN "expired" ELSE order[o]
      BY <2>3, OrdersEffect DEF OrderStatus
    <3> QED
      BY <1>1, <3>1, <3>2 DEF CloseInv, Onward, Ordered, Payments
  <2> QED
    BY <1>11, <2>1, <2>2, <2>3 DEF WriteOrder, At
<1> QED
  BY <1>4, <1>5, <1>6, <1>7, <1>8, <1>9, <1>10, <1>11 DEF Next, Step

\* What a step does to credits: nothing, a grant of what was paid, the record of
\* a full refund, or a use of what is left.
LEMMA CreditsStep ==
  ASSUME StripeAssumption, StripeInv, [Next]_vars
  PROVE  \/ UNCHANGED <<control, granted, reversed, spent>>
         \/ /\ UNCHANGED <<control, granted, reversed>> /\ Balance > 0 /\ spent' = spent + 1
         \/ \E p \in Payments : Fulfill(p) /\ paid[p] = "paid" /\ UNCHANGED spent
         \/ \E p \in Payments : RecordRefund(p) /\ Full(p) /\ UNCHANGED spent
<1> USE DEF StripeInv
<1>1. ASSUME NEW p \in Payments,
             AttemptFails(p) \/ Pay(p) \/ CheckoutExpires(p) \/ Refund(p)
      PROVE  UNCHANGED <<control, granted, reversed, spent>>
  BY <1>1 DEF AttemptFails, Pay, CheckoutExpires, Refund, credits, customer
<1>2. CASE SubscriptionEnds \/ Suspend \/ UNCHANGED vars
  BY <1>2 DEF SubscriptionEnds, Suspend, vars, credits, customer
<1>3. CASE Spend
  BY <1>3 DEF Spend, credits
<1>4. ASSUME NEW h \in Handlers,
             \/ Read(h) \/ SyncSubscription(h) \/ StopRenewal(h) \/ WriteOrder(h)
             \/ Finish(h) \/ Fail(h)
      PROVE  UNCHANGED <<control, granted, reversed, spent>>
  BY <1>4, ReadEffect
  DEF SyncSubscription, StopRenewal, WriteOrder, Finish, Fail, credits, customer
<1>5. ASSUME NEW h \in Handlers, FulfillStripeCredits(h)
      PROVE  \E p \in Payments : Fulfill(p) /\ paid[p] = "paid" /\ UNCHANGED spent
  BY <1>5, OwnEvent, GrantedIsPaid DEF FulfillStripeCredits, At, customer
<1>6. ASSUME NEW h \in Handlers, RecordFullRefund(h)
      PROVE  \E p \in Payments : RecordRefund(p) /\ Full(p) /\ UNCHANGED spent
  BY <1>6, OwnEvent DEF RecordFullRefund, At, RunInv, RunOK, Full, customer
<1>7. ASSUME NEW h \in Handlers, NEW e \in events, Deliver(h, e)
      PROVE  UNCHANGED <<control, granted, reversed, spent>>
  BY <1>7 DEF Deliver, credits, customer
<1> QED
  BY <1>1, <1>2, <1>3, <1>4, <1>5, <1>6, <1>7 DEF Next, Step

\* Credits stand for money after every step.
LEMMA LedgerStep ==
  ASSUME StripeAssumption, StripeInv, [Next]_vars
  PROVE  LedgerInv'
<1> USE DEF StripeInv
<1>1. /\ Onward
      /\ \A p \in granted : p \in Payments /\ paid[p] = "paid" /\ paid'[p] = "paid"
      /\ \A p \in Payments : paid[p] = "paid" => paid'[p] = "paid"
  BY OnwardStep, TypeParts DEF Onward, LedgerInv, CreditsArePaid, CreditsOK
<1>2. /\ IsFiniteSet(granted) /\ IsFiniteSet(reversed) /\ reversed \subseteq granted
      /\ Cardinality(granted) \in Nat /\ Cardinality(reversed) \in Nat /\ spent \in Nat
      /\ spent <= Cardinality(granted) - Cardinality(reversed)
  BY FS_CardinalityType, TypeParts DEF LedgerInv, CreditsArePaid, CustomerOK
<1>3. CASE UNCHANGED <<control, granted, reversed>> /\ spent' \in {spent, spent + 1}
           /\ (spent' = spent + 1 => Balance > 0)
  BY <1>1, <1>2, <1>3 DEF LedgerInv, CreditsArePaid, Balance
<1>4. ASSUME NEW p \in Payments, Fulfill(p), paid[p] = "paid", UNCHANGED spent
      PROVE  LedgerInv'
  <2>1. reversed' = reversed /\ \A q \in Payments \ {p} : control'[q] = control[q]
    BY <1>4, FulfillEffect
  <2>2. CASE UNCHANGED granted /\ (control'[p] = "none" => control[p] = "none")
    BY <1>1, <1>2, <1>4, <2>1, <2>2 DEF LedgerInv, CreditsArePaid
  <2>3. CASE control[p] = "none" /\ control'[p] = "fulfilled" /\ granted' = granted \cup {p}
    <3>1. p \notin granted
      BY <2>3 DEF LedgerInv
    <3>2. IsFiniteSet(granted') /\ Cardinality(granted') = Cardinality(granted) + 1
      BY <1>2, <2>3, <3>1, FS_AddElement
    <3> QED
      BY <1>1, <1>2, <1>4, <2>1, <2>3, <3>2 DEF LedgerInv, CreditsArePaid
  <2> QED
    BY <1>4, <2>2, <2>3, FulfillEffect
<1>5. ASSUME NEW p \in Payments, RecordRefund(p), UNCHANGED spent
      PROVE  LedgerInv'
  <2>1. /\ granted' = granted /\ \A q \in Payments \ {p} : control'[q] = control[q]
        /\ control'[p] # "none"
    BY <1>5, RecordRefundEffect
  <2>2. CASE reversed' = reversed
    BY <1>1, <1>2, <1>5, <2>1, <2>2 DEF LedgerInv, CreditsArePaid
  <2>3. CASE p \in granted /\ Reversible(p) /\ reversed' = reversed \cup {p} /\ p \notin reversed
    <3>1. IsFiniteSet(reversed') /\ Cardinality(reversed') = Cardinality(reversed) + 1
      BY <1>2, <2>3, FS_AddElement
    <3>2. spent <= Cardinality(granted) - Cardinality(reversed')
      BY <1>2, <2>3, <3>1 DEF Reversible, Balance
    <3> QED
      BY <1>1, <1>2, <1>5, <2>1, <2>3, <3>1, <3>2 DEF LedgerInv, CreditsArePaid
  <2> QED
    BY <1>5, <2>2, <2>3, RecordRefundEffect
<1> QED
  BY <1>2, <1>3, <1>4, <1>5, CreditsStep

\* An order is marked refunded by the record of a refund only.
LEMMA OrderStep ==
  ASSUME StripeAssumption, StripeInv, [Next]_vars, NEW o \in Ordered,
         order[o] # "refunded", order'[o] = "refunded"
  PROVE  \E p \in Payments : RecordRefund(p) /\ Full(p) /\ o \in RefundOrder(p)
<1> USE DEF StripeInv
<1>1. order'[o] # order[o]
  OBVIOUS
<1>2. ASSUME NEW h \in Handlers, FulfillStripeCredits(h)
      PROVE  FALSE
  <2>1. PICK p \in Payments : p = run[h].event.of
    BY <1>2, OwnEvent DEF FulfillStripeCredits, At
  <2>2. order'[o] \in {order[o], "paid", "fulfilled"}
    BY <1>2, <2>1, FulfillEffect DEF FulfillStripeCredits
  <2> QED
    BY <1>1, <2>2
<1>3. ASSUME NEW h \in Handlers, SyncSubscription(h)
      PROVE  FALSE
  <2>1. order'[o] \in {order[o], "canceled"}
    BY <1>3, OrdersEffect DEF SyncSubscription, OrderStatus
  <2> QED
    BY <1>1, <2>1
<1>4. ASSUME NEW h \in Handlers, WriteOrder(h)
      PROVE  FALSE
  <2>1. order'[o] \in {order[o], "failed", "expired"}
    BY <1>4, OrdersEffect DEF WriteOrder, OrderStatus
  <2> QED
    BY <1>1, <2>1
<1>5. ASSUME NEW h \in Handlers, RecordFullRefund(h)
      PROVE  \E p \in Payments : RecordRefund(p) /\ Full(p) /\ o \in RefundOrder(p)
  <2>1. PICK p \in Payments : p = run[h].event.of
    BY <1>5, OwnEvent DEF RecordFullRefund, At
  <2>2. RecordRefund(p) /\ Full(p)
    BY <1>5, <2>1 DEF RecordFullRefund, At, RunInv, RunOK, Full
  <2>3. o \in RefundOrder(p)
    BY <1>1, <2>2, RecordRefundEffect
  <2> QED
    BY <2>2, <2>3
<1>6. ASSUME NEW p \in Payments,
             AttemptFails(p) \/ Pay(p) \/ CheckoutExpires(p) \/ Refund(p)
      PROVE  FALSE
  BY <1>1, <1>6 DEF AttemptFails, Pay, CheckoutExpires, Refund
<1>7. ASSUME SubscriptionEnds \/ Spend \/ Suspend \/ UNCHANGED vars
      PROVE  FALSE
  BY <1>1, <1>7 DEF SubscriptionEnds, Spend, Suspend, vars
<1>8. ASSUME NEW h \in Handlers, Read(h) \/ StopRenewal(h) \/ Finish(h) \/ Fail(h)
      PROVE  FALSE
  BY <1>1, <1>8, ReadEffect DEF StopRenewal, Finish, Fail
<1>9. ASSUME NEW h \in Handlers, NEW e \in events, Deliver(h, e)
      PROVE  FALSE
  BY <1>1, <1>9 DEF Deliver
<1> QED
  BY <1>2, <1>3, <1>4, <1>5, <1>6, <1>7, <1>8, <1>9 DEF Next, Step

\* What is recorded as refunded was refunded, and has no credit left.
LEMMA RefundStep ==
  ASSUME StripeAssumption, StripeInv, TypeOK', [Next]_vars
  PROVE  RefundInv'
<1> USE DEF StripeInv
<1>0. SUFFICES ASSUME NEW p \in OwnRefund
               PROVE  /\ p \in Ordered /\ order'[p] = "refunded" => control'[p] \in Recorded
                      /\ control'[p] = "refunded" => p \notin granted' \ reversed'
                      /\ control'[p] \in Recorded => Full(p)'
  BY DEF RefundInv, OwnRefund
<1>1. Onward /\ p \in Payments /\ (p \in First => Renewals = {})
  BY OnwardStep DEF OwnRefund
<1>2. Full(p) => Full(p)'
  BY <1>1, TypeParts, TypePartsNext DEF Full, Onward, StripeOK, StripeAssumption
<1>3. ASSUME NEW q \in Payments, RecordRefund(q), p \in RefundOrder(q)
      PROVE  q = p
  BY <1>1, <1>3 DEF RefundOrder
<1>4. p \in Ordered /\ order'[p] = "refunded" => control'[p] \in Recorded
  <2> SUFFICES ASSUME p \in Ordered, order'[p] = "refunded"
               PROVE  control'[p] \in Recorded
    OBVIOUS
  <2>1. CASE order[p] = "refunded"
    BY <1>1, <2>1 DEF RefundInv, Onward
  <2>2. CASE order[p] # "refunded"
    <3>1. RecordRefund(p)
      BY <1>3, <2>2, OrderStep
    <3> QED
      BY <1>1, <3>1, RecordRefundEffect DEF Recorded
  <2> QED
    BY <2>1, <2>2
<1>5. CASE UNCHANGED <<control, granted, reversed>>
  BY <1>1, <1>2, <1>4, <1>5 DEF RefundInv
<1>6. ASSUME NEW q \in Payments, Fulfill(q)
      PROVE  /\ control'[p] = "refunded" => p \notin granted' \ reversed'
             /\ control'[p] \in Recorded => Full(p)'
  <2>1. CASE q # p
    <3>1. control'[p] = control[p] /\ reversed' = reversed /\ (p \in granted' => p \in granted)
      BY <1>1, <1>6, <2>1, FulfillEffect
    <3> QED
      BY <1>2, <3>1 DEF RefundInv
  <2>2. CASE q = p
    <3>1. control'[p] \in Recorded => control[p] = control'[p] /\ UNCHANGED <<granted, reversed>>
      BY <1>6, <2>2, FulfillEffect DEF RefundInv, Recorded, Settled
    <3> QED
      BY <1>2, <3>1 DEF RefundInv, Recorded
  <2> QED
    BY <2>1, <2>2
<1>7. ASSUME NEW q \in Payments, RecordRefund(q), Full(q)
      PROVE  /\ control'[p] = "refunded" => p \notin granted' \ reversed'
             /\ control'[p] \in Recorded => Full(p)'
  <2>1. CASE q # p
    <3>1. control'[p] = control[p] /\ granted' = granted /\ (p \in reversed => p \in reversed')
      BY <1>1, <1>7, <2>1, RecordRefundEffect
    <3> QED
      BY <1>2, <3>1 DEF RefundInv
  <2>2. CASE q = p
    <3>1. control'[p] = "refunded" => p \notin granted' \ reversed'
      BY <1>7, <2>2, RecordRefundEffect
    <3> QED
      BY <1>2, <1>7, <2>2, <3>1
  <2> QED
    BY <2>1, <2>2
<1> QED
  BY <1>4, <1>5, <1>6, <1>7, CreditsStep

-----------------------------------------------------------------------------
(* The theorems *)

\* What is known of the webhook, whatever it is told and however it fails
THEOREM StripeInvariant == StripeAssumption => (Spec => []StripeInv)
<1> SUFFICES ASSUME StripeAssumption
             PROVE  Spec => []StripeInv
  OBVIOUS
<1>1. Init => StripeInv
  <2> SUFFICES ASSUME Init
               PROVE  StripeInv
    OBVIOUS
  <2>1. StripeOK /\ InboxOK
    BY DEF StripeAssumption, Init, StripeOK, InboxOK, Subscription
  <2>2. RunTypeOK
    <3>1. Idle \in [pc: PCs, event: Event \cup {NoEvent}, order: OrderStatus, sub: Subscription]
      BY DEF Idle, Delivery, PCs, OrderStatus, Subscription
    <3> QED
      BY <3>1 DEF Init, RunTypeOK
  <2>3. OrderOK /\ CreditsOK
    BY DEF Init, OrderOK, OrderStatus, CreditsOK, ControlStatus
  <2>4. CustomerOK /\ FaultsOK
    BY DEF StripeAssumption, Init, CustomerOK, FaultsOK
  <2>5. EventInv /\ InboxInv /\ CloseInv
    BY DEF Init, EventInv, InboxInv, CloseInv
  <2>6. RunInv
    BY DEF Init, RunInv, RunOK, Idle, Delivery, Gone
  <2>7. LedgerInv
    BY FS_EmptySet DEF Init, LedgerInv, CreditsArePaid
  <2>8. RefundInv
    BY DEF Init, RefundInv, OwnRefund, Recorded
  <2> QED
    BY <2>1, <2>2, <2>3, <2>4, <2>5, <2>6, <2>7, <2>8, TypeParts DEF StripeInv
<1>2. StripeInv /\ [Next]_vars => StripeInv'
  <2> SUFFICES ASSUME StripeInv, [Next]_vars
               PROVE  StripeInv'
    OBVIOUS
  <2>1. TypeOK'
    BY TypeStep DEF StripeInv
  <2> QED
    BY <2>1, EventStep, RunStep, InboxStep, CloseStep, LedgerStep, RefundStep DEF StripeInv
<1> QED
  BY <1>1, <1>2, PTL DEF Spec

\* No credit without its payment, none is taken back twice, and the account never
\* goes below zero, in whatever order the events of Stripe arrive.
THEOREM CreditsArePaidHolds == StripeAssumption => (Spec => []CreditsArePaid)
<1>1. StripeInv => CreditsArePaid
  BY DEF StripeInv, LedgerInv
<1> QED
  BY <1>1, StripeInvariant, PTL

\* An event that is marked processed has had its effect, and no other handler
\* that runs or comes later takes it back.
THEOREM ProcessedIsAppliedHolds == StripeAssumption => (Spec => []ProcessedIsApplied)
<1>1. StripeInv => ProcessedIsApplied
  BY TypeParts DEF StripeInv, InboxInv, Applied, ProcessedIsApplied, Recorded, StripeOK
<1> QED
  BY <1>1, StripeInvariant, PTL

\* A subscription that was paid for without credits is not renewed.
THEOREM BlockedIsNotRenewedHolds == StripeAssumption => (Spec => []BlockedIsNotRenewed)
<1>1. StripeInv => BlockedIsNotRenewed
  <2> SUFFICES ASSUME StripeInv, NEW f \in First, control[f] = "blocked",
                      inbox[Happens("paid", f)] = "processed"
               PROVE  subscription # "active"
    BY DEF BlockedIsNotRenewed
  <2>1. Happens("paid", f) \in Event
    BY EventTyped DEF Payments
  <2>2. Applied(Happens("paid", f), control, subscription)
    BY <2>1 DEF StripeInv, InboxInv
  <2> QED
    BY <2>2 DEF Applied, Happens
<1> QED
  BY <1>1, StripeInvariant, PTL

\* A refund that is recorded leaves no credit behind, as long as no renewal of a
\* subscription can close the order of its first invoice.
THEOREM RefundedMeansReversedHolds ==
  StripeAssumption /\ Renewals = {} => (Spec => []RefundedMeansReversed)
<1> SUFFICES ASSUME StripeAssumption, Renewals = {}
             PROVE  Spec => []RefundedMeansReversed
  OBVIOUS
<1>1. StripeInv => RefundedMeansReversed
  BY DEF StripeInv, RefundInv, OwnRefund, RefundedMeansReversed
<1> QED
  BY <1>1, StripeInvariant, PTL

\* And nothing is reversed, and no grant suppressed, that was not refunded in full.
THEOREM SuppressedWasRefundedHolds ==
  StripeAssumption /\ Renewals = {} => (Spec => []SuppressedWasRefunded)
<1> SUFFICES ASSUME StripeAssumption, Renewals = {}
             PROVE  Spec => []SuppressedWasRefunded
  OBVIOUS
<1>1. StripeInv => SuppressedWasRefunded
  BY DEF StripeInv, RefundInv, OwnRefund, SuppressedWasRefunded, Recorded
<1> QED
  BY <1>1, StripeInvariant, PTL

\* A grant of a pack or a renewal is refunded or stays; that of a first invoice is
\* blocked, too, when its subscription is over.
THEOREM GrantsStay == StripeAssumption => (Spec => [][GrantStays]_vars)
<1> SUFFICES ASSUME StripeAssumption
             PROVE  Spec => [][GrantStays]_vars
  OBVIOUS
<1>1. StripeInv /\ StripeInv' /\ [Next]_vars => [GrantStays]_vars
  <2> SUFFICES ASSUME StripeInv, StripeInv', [Next]_vars
               PROVE  GrantStays
    OBVIOUS
  <2>1. Onward
    BY OnwardStep
  <2> QED
    BY <2>1, TypePartsNext
    DEF StripeInv, GrantStays, Onward, Recorded, CreditsOK, ControlStatus
<1> QED
  BY <1>1, StripeInvariant, PTL DEF Spec

\* So where packs are sold only, a grant that was recorded is final but for a
\* refund: a failed attempt, an expiry or an event that comes again changes nothing.
THEOREM FulfilledIsFinalHolds ==
  StripeAssumption /\ First = {} => (Spec => [][FulfilledIsFinal]_vars)
<1> SUFFICES ASSUME StripeAssumption, First = {}
             PROVE  Spec => [][FulfilledIsFinal]_vars
  OBVIOUS
<1>1. [GrantStays]_vars => [FulfilledIsFinal]_vars
  BY DEF GrantStays, FulfilledIsFinal, Recorded
<1> QED
  BY <1>1, GrantsStay, PTL
=============================================================================
