-------------------------- MODULE SubscriptionCheckout --------------------------
(***************************************************************************)
(* How one customer gets a subscription: the checkout requests of several  *)
(* tabs, the Stripe customer and the Checkout sessions they make, the      *)
(* payment, what the webhook writes afterwards, and an administrator who   *)
(* suspends the customer meanwhile.                                        *)
(*                                                                         *)
(* A tab asks once; its order, its session and its subscription carry the  *)
(* name of the tab.  The inner steps of the webhook, and its retries, are  *)
(* in StripeCredits: here an event is handled in one step, or not yet.     *)
(***************************************************************************)
EXTENDS Naturals, FiniteSets

CONSTANTS
  Tabs, NoTab,
  SavedBefore,  \* stripe_customer_id at the start: none, or of another Stripe account
  MaxFaults,    \* bound: calls that fail
  MaxDeaths,    \* bound: requests that die
  MaxDeclined   \* bound: payment attempts that are declined

CheckoutAssumption ==
  /\ NoTab \notin Tabs
  /\ SavedBefore \subseteq {"none", "old"} /\ {MaxFaults, MaxDeaths, MaxDeclined} \subseteq Nat

VARIABLES
  tab,       \* tab[t]: the request of the tab
  order,     \* billing_orders.status; "none" before the insert
  attached,  \* orders with a stripe_checkout_session_id
  session,   \* session[t]: none, open, complete or expired, at Stripe
  reachable, \* sessions whose URL a tab was given
  saved,     \* profiles.stripe_customer_id
  sub,       \* subscriptions at Stripe: none, active, ending or ended
  row,       \* rows of public.subscriptions
  events,    \* what Stripe has yet to tell
  active,    \* profiles.status = 'active'
  admin,     \* the suspension that is under way
  faults, deaths, declined

stripe == <<session, sub, events>>
database == <<order, attached, saved, row, active>>
counters == <<faults, deaths, declined>>
vars == <<tab, stripe, reachable, database, admin, counters>>

CustomerIds == {"none", "old", "new"} \cup Tabs

\* Rows of subscriptions_one_current_per_user_idx, orders of
\* billing_orders_one_open_subscription_checkout_idx.
Current(s) == s \in {"active", "ending"}
Open == {t \in Tabs : order[t] \in {"pending", "checkout_created"}}

Idle == [pc |-> "idle", customer |-> "none", by |-> NoTab]

Init ==
  /\ tab = [t \in Tabs |-> Idle]
  /\ order = [t \in Tabs |-> "none"] /\ attached = {}
  /\ session = [t \in Tabs |-> "none"] /\ reachable = {}
  /\ saved \in SavedBefore
  /\ sub = [t \in Tabs |-> "none"] /\ row = [t \in Tabs |-> "none"] /\ events = {}
  /\ active = TRUE /\ admin = [pc |-> "idle", subs |-> {}, orders |-> {}]
  /\ faults = 0 /\ deaths = 0 /\ declined = 0

-----------------------------------------------------------------------------
(* A checkout request *)

At(t, pc) == tab[t].pc = pc
Goto(t, pc) == tab' = [tab EXCEPT ![t].pc = pc]
Order(t, status) == order' = [order EXCEPT ![t] = status]
Fault == faults < MaxFaults /\ faults' = faults + 1 /\ UNCHANGED <<deaths, declined>>

\* An active profile without a current subscription; the profile's customer is kept.
Begin(t) ==
  /\ At(t, "idle") /\ active /\ \A u \in Tabs : ~Current(row[u])
  /\ tab' = [tab EXCEPT ![t].pc = "customer", ![t].customer = saved]
  /\ UNCHANGED <<stripe, reachable, database, admin, counters>>

\* Customers are made with one key per user: Stripe answers a second call with the first.
Created == "new"

Usable(c) == c \notin {"none", "old"}

\* getOrCreateStripeCustomer: what is saved, or a customer that has yet to be saved.
GetCustomer(t) ==
  /\ At(t, "customer")
  /\ IF Usable(tab[t].customer) THEN Goto(t, "insert")
     ELSE Goto(t, "claim")
  /\ UNCHANGED <<stripe, reachable, database, admin, counters>>

\* Mutant: each request makes a customer and saves it, whatever is saved by then.
ClaimForRequest(t) ==
  /\ At(t, "claim")
  /\ saved' = t /\ tab' = [tab EXCEPT ![t].pc = "insert", ![t].customer = t]
  /\ UNCHANGED <<stripe, reachable, order, attached, row, active, admin, counters>>

\* The claim fails when the profile holds another customer by now: that one is used.
ClaimCustomer(t) ==
  LET customer == IF saved = tab[t].customer THEN Created ELSE saved IN
  /\ At(t, "claim")
  /\ saved' = customer
  /\ tab' = [tab EXCEPT ![t].pc = IF Usable(customer) THEN "insert" ELSE "refused",
                        ![t].customer = customer]
  /\ UNCHANGED <<stripe, reachable, order, attached, row, active, admin, counters>>

\* Mutant: no unique index on the open orders.
InsertOrderFreely(t) ==
  /\ At(t, "insert") /\ Order(t, "pending") /\ Goto(t, "create")
  /\ UNCHANGED <<stripe, reachable, attached, saved, row, active, admin, counters>>

InsertOrder(t) ==
  /\ At(t, "insert")
  /\ IF Open = {} THEN Order(t, "pending") /\ Goto(t, "create")
     ELSE Goto(t, "lookup") /\ UNCHANGED order
  /\ UNCHANGED <<stripe, reachable, attached, saved, row, active, admin, counters>>

\* getOpenSubscriptionCheckoutUrl: there is one open order at most.
LookUp(t) ==
  /\ At(t, "lookup")
  /\ \/ Open = {} /\ Goto(t, "refused") /\ UNCHANGED <<reachable, order>>
     \/ \E o \in Open :
          LET found == IF o \in attached THEN session[o] ELSE "none" IN
          IF found = "open"
          THEN Goto(t, "served") /\ reachable' = reachable \cup {o} /\ UNCHANGED order
          ELSE /\ tab' = [tab EXCEPT ![t].pc = "refused", ![t].by = o]
               /\ order' = IF found = "expired" THEN [order EXCEPT ![o] = "expired"] ELSE order
               /\ UNCHANGED reachable
  /\ UNCHANGED <<stripe, attached, saved, row, active, admin, counters>>

CreateSession(t) ==
  /\ At(t, "create") /\ session' = [session EXCEPT ![t] = "open"] /\ Goto(t, "attach")
  /\ UNCHANGED <<sub, events, reachable, database, admin, counters>>

\* No row is an order that the webhook or an administrator moved on: no error.
Attach(t) ==
  /\ At(t, "attach")
  /\ IF order[t] = "pending"
     THEN Order(t, "checkout_created") /\ attached' = attached \cup {t}
     ELSE UNCHANGED <<order, attached>>
  /\ Goto(t, "served") /\ reachable' = reachable \cup {t}
  /\ UNCHANGED <<stripe, saved, row, active, admin, counters>>

\* A step fails: the order is closed, the session, if Stripe made it, is not.
StepFails(t) ==
  /\ tab[t].pc \in {"customer", "claim", "insert", "lookup", "create", "attach"} /\ Fault
  /\ IF tab[t].pc \in {"create", "attach"} THEN Order(t, "failed") ELSE UNCHANGED order
  /\ session' \in {session} \cup (IF At(t, "create") THEN {[session EXCEPT ![t] = "open"]} ELSE {})
  /\ Goto(t, "refused")
  /\ UNCHANGED <<sub, events, reachable, attached, saved, row, active, admin>>

RequestDies(t) ==
  /\ tab[t].pc \in {"claim", "insert", "create", "attach"} /\ deaths < MaxDeaths
  /\ deaths' = deaths + 1 /\ Goto(t, "dead")
  /\ UNCHANGED <<stripe, reachable, database, admin, faults, declined>>

Request(t) ==
  \/ Begin(t) \/ GetCustomer(t) \/ ClaimCustomer(t) \/ InsertOrder(t) \/ LookUp(t)
  \/ CreateSession(t) \/ Attach(t) \/ StepFails(t) \/ RequestDies(t)

-----------------------------------------------------------------------------
(* Stripe and the customer *)

Tell(type, t) == events' = events \cup {<<type, t>>}

Pay(t) ==
  /\ t \in reachable /\ session[t] = "open"
  /\ session' = [session EXCEPT ![t] = "complete"] /\ sub' = [sub EXCEPT ![t] = "active"]
  /\ Tell("paid", t)
  /\ UNCHANGED <<tab, reachable, database, admin, counters>>

Declined(t) ==
  /\ t \in reachable /\ session[t] = "open" /\ declined < MaxDeclined
  /\ declined' = declined + 1 /\ Tell("declined", t)
  /\ UNCHANGED <<tab, session, sub, reachable, database, admin, faults, deaths>>

SessionExpires(t) ==
  /\ session[t] = "open"
  /\ session' = [session EXCEPT ![t] = "expired"] /\ Tell("expired", t)
  /\ UNCHANGED <<tab, sub, reachable, database, admin, counters>>

Renew(t) ==
  /\ sub[t] = "active" /\ session[t] = "complete" /\ Tell("renewed", t)
  /\ UNCHANGED <<tab, session, sub, reachable, database, admin, counters>>

CancelInPortal(t) ==
  /\ active /\ sub[t] = "active"
  /\ sub' = [sub EXCEPT ![t] = "ending"] /\ Tell("updated", t)
  /\ UNCHANGED <<tab, session, reachable, database, admin, counters>>

PeriodEnds(t) ==
  /\ sub[t] = "ending"
  /\ sub' = [sub EXCEPT ![t] = "ended"] /\ Tell("updated", t)
  /\ UNCHANGED <<tab, session, reachable, database, admin, counters>>

Stripe(t) ==
  \/ Pay(t) \/ Declined(t) \/ SessionExpires(t) \/ Renew(t) \/ CancelInPortal(t) \/ PeriodEnds(t)

-----------------------------------------------------------------------------
(* The webhook *)

Answer(type, t) == <<type, t>> \in events /\ events' = events \ {<<type, t>>}

\* The row can be written unless another subscription of the customer is current.
Synced(t, status) ==
  /\ Current(status) => \A u \in Tabs \ {t} : ~Current(row[u])
  /\ row' = [row EXCEPT ![t] = status]

\* Mutant: a payment that earns no credits leaves the subscription as it is.
KeepRenewing(t) == sub' = sub /\ Synced(t, sub[t])

\* Mutant: a status that is not one of the table.
StopRenewalByHand(t) == sub' = [sub EXCEPT ![t] = "stopped"] /\ Synced(t, "stopped")

\* A payment that earns no credits stops the renewal.
StopRenewal(t) ==
  LET status == IF sub[t] = "active" THEN "ending" ELSE sub[t] IN
  /\ Synced(t, status) /\ sub' = [sub EXCEPT ![t] = status]

\* A payment of the first period or of a later one; the former settles the order.
HandleInvoicePaid(type, t) ==
  LET first == type = "paid"
      granted == active /\ ~(first /\ order[t] \in {"expired", "canceled"})
  IN
  /\ Answer(type, t)
  /\ IF granted THEN Synced(t, sub[t]) /\ UNCHANGED sub ELSE StopRenewal(t)
  /\ IF first /\ order[t] \notin {"expired", "canceled"}
     THEN Order(t, IF granted THEN "fulfilled" ELSE "failed") ELSE UNCHANGED order
  /\ UNCHANGED <<tab, session, reachable, attached, saved, active, admin, counters>>

\* A declined attempt closes the order, though its session stays open.
HandleDeclined(t) ==
  /\ Answer("declined", t)
  /\ IF session[t] = "complete" THEN UNCHANGED order ELSE Order(t, "failed")
  /\ UNCHANGED <<tab, session, sub, reachable, attached, saved, row, active, admin, counters>>

HandleExpired(t) ==
  /\ Answer("expired", t) /\ Order(t, "expired")
  /\ UNCHANGED <<tab, session, sub, reachable, attached, saved, row, active, admin, counters>>

HandleUpdated(t) ==
  /\ Answer("updated", t) /\ Synced(t, sub[t])
  /\ IF t \in Open /\ sub[t] = "ended" THEN Order(t, "canceled") ELSE UNCHANGED order
  /\ UNCHANGED <<tab, session, sub, reachable, attached, saved, active, admin, counters>>

Webhook(t) ==
  \/ HandleInvoicePaid("paid", t) \/ HandleInvoicePaid("renewed", t)
  \/ HandleDeclined(t) \/ HandleExpired(t) \/ HandleUpdated(t)

-----------------------------------------------------------------------------
(* An administrator suspends the customer *)

AdminGoto(pc) == admin.pc = pc[1] /\ admin' = [admin EXCEPT !.pc = pc[2]]

ReadSubscriptions ==
  /\ admin.pc = "idle"
  /\ admin' = [admin EXCEPT !.pc = "cancel", !.subs = {t \in Tabs : Current(row[t])}]
  /\ UNCHANGED <<tab, stripe, reachable, database, counters>>

\* Each cancellation may fail: the others go on, and an alert tells of it.
CancelSubscriptions ==
  /\ AdminGoto(<<"cancel", "read">>)
  /\ \E S \in {admin.subs, {}} :
       LET ending == {t \in S : sub[t] = "active"} IN
       /\ (IF S = admin.subs THEN UNCHANGED counters ELSE Fault)
       /\ sub' = [t \in Tabs |-> IF t \in ending THEN "ending" ELSE sub[t]]
       /\ row' = [t \in Tabs |-> IF t \in S /\ row[t] = "active" THEN "ending" ELSE row[t]]
       /\ events' = events \cup ({"updated"} \X ending)
  /\ UNCHANGED <<tab, session, reachable, order, attached, saved, active>>

ReadCheckouts ==
  /\ admin.pc = "read"
  /\ admin' = [admin EXCEPT !.pc = "expire",
                            !.orders = {t \in attached : order[t] = "checkout_created"}]
  /\ UNCHANGED <<tab, stripe, reachable, database, counters>>

\* Stripe expires the sessions that are still open.
ExpireCheckouts ==
  /\ AdminGoto(<<"expire", "status">>)
  /\ \E O \in {{t \in admin.orders : session[t] = "open"}, {}} :
       /\ (O = {} => admin.orders = {} \/ (\A t \in admin.orders : session[t] # "open")
                       \/ faults < MaxFaults)
       /\ faults' = IF O = {} /\ (\E t \in admin.orders : session[t] = "open")
                    THEN faults + 1 ELSE faults
       /\ session' = [t \in Tabs |-> IF t \in O THEN "expired" ELSE session[t]]
       /\ events' = events \cup ({"expired"} \X O)
       /\ order' = [t \in Tabs |-> IF t \in O /\ order[t] = "checkout_created"
                                   THEN "expired" ELSE order[t]]
  /\ UNCHANGED <<tab, sub, reachable, attached, saved, row, active, deaths, declined>>

SetStatus ==
  /\ AdminGoto(<<"status", "done">>) /\ active' = FALSE
  /\ UNCHANGED <<tab, stripe, reachable, order, attached, saved, row, counters>>

UpdateUserStatus ==
  \/ ReadSubscriptions \/ CancelSubscriptions \/ ReadCheckouts \/ ExpireCheckouts \/ SetStatus

-----------------------------------------------------------------------------
Next ==
  \/ \E t \in Tabs : Request(t) \/ Stripe(t) \/ Webhook(t)
  \/ UpdateUserStatus

\* Stripe repeats what it has to tell of a renewal.
Retry(t) == HandleInvoicePaid("renewed", t)

\* A suspension that was begun goes on.
Suspending == admin.pc # "idle" /\ UpdateUserStatus

Spec == Init /\ [][Next]_vars
-----------------------------------------------------------------------------
(* Properties *)

\* The variables hold what the tables, Stripe and the requests can hold.
TypeOK ==
  /\ \A t \in Tabs :
       /\ tab[t].pc \in {"idle", "customer", "claim", "insert", "lookup", "create", "attach",
                         "served", "refused", "dead"}
       /\ tab[t].customer \in CustomerIds /\ tab[t].by \in Tabs \cup {NoTab}
       /\ order[t] \in {"none", "pending", "checkout_created", "fulfilled", "failed",
                        "expired", "canceled"}
       /\ session[t] \in {"none", "open", "complete", "expired"}
       /\ sub[t] \in {"none", "active", "ending", "ended"}
       /\ row[t] \in {"none", "active", "ending", "ended"}
  /\ attached \subseteq Tabs /\ reachable \subseteq Tabs /\ saved \in CustomerIds
  /\ events \subseteq {"paid", "renewed", "declined", "expired", "updated"} \X Tabs
  /\ active \in BOOLEAN

\* Checkouts that the customer was sent to and can still pay.
Payable == {t \in reachable : session[t] = "open"}

\* Of those, the ones whose order a declined attempt to pay closed while the session
\* stays open: the unique index of the open orders does not see them any more.
LeftOpen == {t \in Payable : order[t] = "failed"}

\* The customer never has two checkouts that can be paid, except that a declined attempt
\* leaves its own one behind (billing/checkout, the Stripe webhook at 1195): whatever
\* tabs, faults, deaths and suspensions do, every other order leaves the index of the
\* open ones only after its session did.
OneCheckout ==
  /\ \A t, u \in Payable \ LeftOpen : t = u
  /\ LeftOpen # {} => declined > 0

\* What the index is for, without the exception: refuted by a declined attempt.
OnePayable == \A t, u \in Payable : t = u

\* The customer never pays for two subscriptions at a time.
OneSubscription == Cardinality({t \in Tabs : Current(sub[t])}) <= 1

\* Every session is of one and the same Stripe customer, which the profile names
\* (getOrCreateStripeCustomer): the webhook refuses payments of any other.
OneCustomer == \A t \in Tabs : session[t] # "none" => tab[t].customer = saved /\ Usable(saved)

\* A tab that is told that a checkout is in progress is told so of an order that has a
\* session, or whose request is still at work.
BusyIsTrue ==
  \A t \in Tabs : tab'[t].by # tab[t].by =>
       LET o == tab'[t].by IN session[o] # "none" \/ tab[o].pc \in {"create", "attach"}

\* A customer who is suspended, and one whose subscriptions all end.
Suspended == ~active
NothingRenews == \A t \in Tabs : sub[t] # "active"
-----------------------------------------------------------------------------
(* The inductive invariant of OneCheckout and OneCustomer *)

Shaped ==
  /\ tab \in [Tabs -> [pc : {"idle", "customer", "claim", "insert", "lookup", "create", "attach",
                             "served", "refused", "dead"},
                       customer : {"none", "old", "new"}, by : Tabs \cup {NoTab}]]
  /\ order \in [Tabs -> {"none", "pending", "checkout_created", "fulfilled", "failed",
                         "expired", "canceled"}]
  /\ session \in [Tabs -> {"none", "open", "complete", "expired"}]
  /\ sub \in [Tabs -> {"none", "active", "ending", "ended"}]
  /\ attached \subseteq Tabs /\ reachable \subseteq Tabs
  /\ saved \in {"none", "old", "new"} /\ declined \in Nat

\* What a request has made so far, and that nobody was sent to its session yet.
Stages ==
  \A t \in Tabs :
    /\ tab[t].pc \in {"idle", "customer", "claim", "insert", "lookup"} =>
         order[t] = "none" /\ session[t] = "none" /\ t \notin reachable
    /\ At(t, "create") => order[t] = "pending" /\ session[t] = "none" /\ t \notin reachable
    /\ At(t, "attach") => /\ session[t] # "none" /\ t \notin reachable
                          /\ session[t] = "open" => order[t] = "pending"

\* What Stripe tells is so: a session ends once, and an attempt to pay was declined of
\* a session that a tab was sent to.
Told ==
  \A t \in Tabs :
    /\ \A type \in {"paid", "renewed", "updated"} :
         <<type, t>> \in events => session[t] = "complete"
    /\ sub[t] # "none" => session[t] = "complete"
    /\ <<"expired", t>> \in events => session[t] = "expired"
    /\ <<"declined", t>> \in events => t \in reachable /\ declined > 0

\* A session that can be paid belongs to the one order that is open, or to one that a
\* declined attempt closed.
PayableIsOpen ==
  /\ attached \subseteq reachable
  /\ \A t \in reachable : session[t] = "open" =>
       t \in Open \/ (order[t] = "failed" /\ declined > 0)

\* The unique index.
OneOpen == \A t, u \in Open : t = u

\* A customer that can be used is the saved one, and is not replaced.
Customers ==
  \A t \in Tabs :
    /\ Usable(tab[t].customer) => tab[t].customer = saved
    /\ At(t, "claim") => ~Usable(tab[t].customer)
    /\ tab[t].pc \in {"insert", "lookup", "create", "attach"} \/ session[t] # "none" =>
         Usable(tab[t].customer)

CheckoutInv == Shaped /\ Stages /\ Told /\ PayableIsOpen /\ OneOpen /\ Customers
=============================================================================
