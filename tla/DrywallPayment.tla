---------------------------- MODULE DrywallPayment ----------------------------
(***************************************************************************)
(* One guest order of a drywall takeoff, from the draft to the payment:     *)
(* the browser, the draft, verification and checkout routes, Stripe, and    *)
(* the webhook that turns a payment into work.                              *)
(*                                                                          *)
(* Every route runs as steps between which the others move.  Events of      *)
(* Stripe are delivered in any order, several at a time, until one delivery *)
(* of them succeeds; the claim of an event is the business of StripeCredits *)
(* and left out.  A full refund is the only refund.                         *)
(***************************************************************************)
EXTENDS Naturals, FiniteSets

CONSTANTS
  Files,        \* the plans of the order
  Requests,     \* checkout requests, one after the other or at once
  Sessions,     \* checkout sessions that Stripe may create
  Handlers,     \* webhook deliveries that run at once
  Volumes,      \* selected sheets: "fixed" up to the limit, "custom" above it
  MaxFaults,    \* failed calls and lost processes
  None

DrywallPaymentAssumption ==
  /\ Files # {} /\ Volumes \subseteq {"fixed", "custom"} /\ MaxFaults \in Nat
  /\ None \notin Files \cup Requests \cup Sessions \cup Handlers

VARIABLES
  status,     \* drywall_takeoff_projects.status
  scope,      \* the selected sheets of the project
  row,        \* drywall_takeoff_files.upload_status of each file
  object,     \* what storage holds of it
  verifying,  \* the verification request
  order,      \* the row of drywall_takeoff_orders, None before the first checkout
  session,    \* the sessions at Stripe
  request,    \* the checkout requests
  events,     \* what Stripe has to tell
  answered,   \* events that were handled
  run,        \* the webhook deliveries
  confirmed,  \* orders confirmed by email, counted up to 2
  faults

project == <<status, scope, row, object, verifying>>
stripe == <<session, events>>
vars == <<project, order, stripe, request, answered, run, confirmed, faults>>

SessionStates == {"none", "open", "expired", "pending", "failed", "paid", "refunded"}
Event == [type : {"completed", "later", "succeeded", "failed", "expired", "refund"}, of : Sessions]

NoSession == [state |-> "none", key |-> None]
IdleRequest == [at |-> "new", volume |-> None, seen |-> None, key |-> None, made |-> None]
IdleRun == [at |-> "idle", event |-> None]

Init ==
  /\ status = "none" /\ scope = None /\ verifying = "idle"
  /\ row = [f \in Files |-> "none"] /\ object = [f \in Files |-> "absent"]
  /\ order = None
  /\ session = [s \in Sessions |-> NoSession] /\ events = {} /\ answered = {}
  /\ request = [r \in Requests |-> IdleRequest]
  /\ run = [h \in Handlers |-> IdleRun]
  /\ confirmed = 0 /\ faults = 0

State(s) == session[s].state
Charged(s) == State(s) \in {"paid", "refunded"}
OrderIs(what) == order # None /\ order.status = what
Verified == \A f \in Files : row[f] = "verified"

-----------------------------------------------------------------------------
(* POST /api/drywall/orders, the upload, and /verify                        *)

CreateDraft ==
  /\ status = "none" /\ status' = "upload_incomplete"
  /\ row' = [f \in Files |-> "pending"]
  /\ UNCHANGED <<scope, object, verifying, order, stripe, request, answered, run, confirmed, faults>>

\* To the signed URL: an object is written once, whole or not a plan at all.
Upload(f) ==
  /\ row[f] # "none" /\ object[f] = "absent"
  /\ \E what \in {"plan", "other"} : object' = [object EXCEPT ![f] = what]
  /\ UNCHANGED <<status, scope, row, verifying, order, stripe, request, answered, run, confirmed, faults>>

StartVerify ==
  /\ verifying = "idle" /\ status = "upload_incomplete"
  /\ verifying' = "reading"
  /\ UNCHANGED <<status, scope, row, object, order, stripe, request, answered, run, confirmed, faults>>

\* A verification that takes the word of the browser.
VerifyDeclared ==
  /\ verifying = "reading" /\ verifying' = "good"
  /\ row' = [f \in Files |-> "verified"]
  /\ UNCHANGED <<status, scope, object, order, stripe, request, answered, run, confirmed, faults>>

\* File after file: those before the first bad one are kept as verified.
VerifyFiles ==
  /\ verifying = "reading"
  /\ \E good \in SUBSET {f \in Files : object[f] = "plan"} :
       /\ row' = [f \in Files |-> IF f \in good \/ row[f] = "verified" THEN "verified"
                                  ELSE "rejected"]
       /\ verifying' = IF good = Files THEN "good" ELSE "idle"
  /\ UNCHANGED <<status, scope, object, order, stripe, request, answered, run, confirmed, faults>>

Approve ==
  /\ verifying = "good"
  /\ status' = IF status = "upload_incomplete" THEN "awaiting_payment" ELSE status
  /\ verifying' = "idle"
  /\ UNCHANGED <<scope, row, object, order, stripe, request, answered, run, confirmed, faults>>

-----------------------------------------------------------------------------
(* POST /api/drywall/orders/{id}/checkout                                   *)

At(r, at) == request[r].at = at
Becomes(r, fields) == request' = [request EXCEPT ![r] = fields]
Goto(r, at) == Becomes(r, [request[r] EXCEPT !.at = at])

Checkout(r) ==
  /\ At(r, "new") /\ status \in {"awaiting_payment", "custom_review"}
  /\ \E v \in Volumes : Becomes(r, [request[r] EXCEPT !.at = "files", !.volume = v])
  /\ UNCHANGED <<project, order, stripe, answered, run, confirmed, faults>>

CheckoutFiles(r) ==
  /\ At(r, "files") /\ Goto(r, IF Verified THEN "save" ELSE "end")
  /\ UNCHANGED <<project, order, stripe, answered, run, confirmed, faults>>

\* A checkout that saves whatever was selected and goes on.
SaveScopeOnly(r) ==
  /\ At(r, "save") /\ Goto(r, "order")
  /\ scope' = request[r].volume
  /\ UNCHANGED <<status, row, object, verifying, order, stripe, answered, run, confirmed, faults>>

\* The update names the project only, whatever has become of its status.
SaveScope(r) ==
  /\ At(r, "save")
  /\ scope' = request[r].volume
  /\ status' = IF request[r].volume = "custom" THEN "custom_review" ELSE "awaiting_payment"
  /\ Goto(r, IF request[r].volume = "custom" THEN "end" ELSE "order")
  /\ UNCHANGED <<row, object, verifying, order, stripe, answered, run, confirmed, faults>>

ReadOrder(r) ==
  /\ At(r, "order")
  /\ Becomes(r, [request[r] EXCEPT
       !.seen = order,
       !.at = IF order = None THEN "insert"
              ELSE IF order.status = "paid" THEN "end"
              ELSE IF order.session = None THEN "create" ELSE "inspect"])
  /\ UNCHANGED <<project, order, stripe, answered, run, confirmed, faults>>

\* An open session is used again; the key of a new one names the last one.
InspectSession(r) ==
  LET s == request[r].seen.session IN
  /\ At(r, "inspect")
  /\ IF State(s) = "open" THEN Goto(r, "end")
     ELSE Becomes(r, [request[r] EXCEPT !.at = "create", !.key = s])
  /\ UNCHANGED <<project, order, stripe, answered, run, confirmed, faults>>

\* A session whose id is kept before Stripe has it.
LinkUnknown(r) ==
  /\ At(r, "insert")
  /\ order' = [status |-> "unpaid", session |-> CHOOSE s \in Sessions : TRUE, intent |-> None]
  /\ Goto(r, "create")
  /\ UNCHANGED <<project, stripe, answered, run, confirmed, faults>>

\* The second order of a project is refused by the database.
InsertOrder(r) ==
  /\ At(r, "insert")
  /\ IF order = None
     THEN order' = [status |-> "unpaid", session |-> None, intent |-> None] /\ Goto(r, "create")
     ELSE UNCHANGED order /\ Goto(r, "end")
  /\ UNCHANGED <<project, stripe, answered, run, confirmed, faults>>

Keys == {session[s].key : s \in {x \in Sessions : State(x) # "none"}}

\* A key that changes with every request.
CreateSessionAnyKey(r) ==
  /\ At(r, "create")
  /\ \E s \in Sessions :
       /\ State(s) = "none"
       /\ session' = [session EXCEPT ![s] = [state |-> "open", key |-> request[r].key]]
       /\ Becomes(r, [request[r] EXCEPT !.at = "link", !.made = s])
  /\ UNCHANGED <<project, order, events, answered, run, confirmed, faults>>

\* Stripe refuses a key it has seen with other parameters, and the parameters of two
\* requests always differ (integration_identifier).
CreateSession(r) ==
  /\ At(r, "create")
  /\ IF request[r].key \in Keys
     THEN Goto(r, "end") /\ UNCHANGED session
     ELSE \E s \in Sessions :
       /\ State(s) = "none"
       /\ session' = [session EXCEPT ![s] = [state |-> "open", key |-> request[r].key]]
       /\ Becomes(r, [request[r] EXCEPT !.at = "link", !.made = s])
  /\ UNCHANGED <<project, order, events, answered, run, confirmed, faults>>

\* Nor does the last update look at the status it overwrites.
LinkSession(r) ==
  /\ At(r, "link")
  /\ order' = [order EXCEPT !.session = request[r].made, !.status = "checkout_created"]
  /\ Goto(r, "end")
  /\ UNCHANGED <<project, stripe, answered, run, confirmed, faults>>

RequestFails(r) ==
  /\ ~At(r, "new") /\ ~At(r, "end") /\ faults < MaxFaults
  /\ faults' = faults + 1 /\ Goto(r, "end")
  /\ UNCHANGED <<project, order, stripe, answered, run, confirmed>>

-----------------------------------------------------------------------------
(* Stripe and the customer at its page                                      *)

Turns(s, from, to, type) ==
  /\ State(s) = from
  /\ session' = [session EXCEPT ![s].state = to]
  /\ events' = events \cup {[type |-> type, of |-> s]}
  /\ UNCHANGED <<project, order, request, answered, run, confirmed, faults>>

Pay(s) == Turns(s, "open", "paid", "completed")
PayLater(s) == Turns(s, "open", "pending", "later")
Expire(s) == Turns(s, "open", "expired", "expired")
Succeed(s) == Turns(s, "pending", "paid", "succeeded")
PaymentFails(s) == Turns(s, "pending", "failed", "failed")
Refund(s) == Turns(s, "paid", "refunded", "refund")

-----------------------------------------------------------------------------
(* POST /api/stripe/webhook                                                 *)

Does(h, at) == run[h].at = at
RunGoto(h, at) == run' = [run EXCEPT ![h].at = at]
EndRun(h) == run' = [run EXCEPT ![h] = IdleRun]
Answer(h) == answered' = answered \cup {run[h].event} /\ EndRun(h)

\* What the handler of an event does first: the session is read again when it is
\* said to have failed or expired.
FirstStep(e) ==
  CASE e.type = "refund" -> "refund"
    [] e.type \in {"failed", "expired"} /\ ~Charged(e.of) -> "close"
    [] OTHER -> "match"

Deliver(h, e) ==
  /\ Does(h, "idle") /\ e \in events \ answered
  /\ run' = [run EXCEPT ![h] = [at |-> FirstStep(e), event |-> e]]
  /\ UNCHANGED <<project, order, stripe, request, answered, confirmed, faults>>

\* A completed session is taken for a paid one.
MatchUnpaid(h) ==
  /\ Does(h, "match")
  /\ IF order = None \/ order.session # run[h].event.of
     THEN EndRun(h) ELSE RunGoto(h, "pay")
  /\ UNCHANGED <<project, order, stripe, request, answered, confirmed, faults>>

\* A session that is not the last of its order is left alone.
MatchOrIgnore(h) ==
  /\ Does(h, "match")
  /\ IF order = None \/ order.session # run[h].event.of \/ run[h].event.type = "later"
     THEN Answer(h) ELSE RunGoto(h, "pay") /\ UNCHANGED answered
  /\ UNCHANGED <<project, order, stripe, request, confirmed, faults>>

\* A session that is not the last of its order is an error, and tried again.
Match(h) ==
  /\ Does(h, "match")
  /\ \/ /\ order = None \/ order.session # run[h].event.of
        /\ EndRun(h) /\ UNCHANGED answered
     \/ /\ order # None /\ order.session = run[h].event.of
        /\ IF run[h].event.type = "later" THEN Answer(h)
           ELSE RunGoto(h, "pay") /\ UNCHANGED answered
  /\ UNCHANGED <<project, order, stripe, request, confirmed, faults>>

\* An update that every delivery makes.
MarkPaidAgain(h) ==
  /\ Does(h, "pay")
  /\ order' = [order EXCEPT !.status = "paid", !.intent = run[h].event.of]
  /\ RunGoto(h, "schedule")
  /\ UNCHANGED <<project, stripe, request, answered, confirmed, faults>>

\* The conditional update: who changes the row goes on, all others are done.
MarkPaid(h) ==
  /\ Does(h, "pay")
  /\ IF order.status \in {"unpaid", "checkout_created"}
     THEN /\ order' = [order EXCEPT !.status = "paid", !.intent = run[h].event.of]
          /\ RunGoto(h, "schedule") /\ UNCHANGED answered
     ELSE Answer(h) /\ UNCHANGED order
  /\ UNCHANGED <<project, stripe, request, confirmed, faults>>

Schedule(h) ==
  /\ Does(h, "schedule")
  /\ status' = "order_received"
  /\ RunGoto(h, "confirm")
  /\ UNCHANGED <<scope, row, object, verifying, order, stripe, request, answered, confirmed, faults>>

Confirm(h) ==
  /\ Does(h, "confirm")
  /\ confirmed' = IF confirmed < 2 THEN confirmed + 1 ELSE confirmed
  /\ Answer(h)
  /\ UNCHANGED <<project, order, stripe, request, faults>>

\* handleDrywallCheckoutFailure, of whichever session of the order.
CloseCheckout(h) ==
  /\ Does(h, "close") /\ Answer(h)
  /\ order' = IF order = None \/ order.status = "paid" THEN order
              ELSE [order EXCEPT !.status = IF run[h].event.type = "failed" THEN "failed" ELSE "unpaid"]
  /\ UNCHANGED <<project, stripe, request, confirmed, faults>>

\* A refund of a payment that no order knows is none of this handler's business.
\* The errors of its updates are not looked at.
CloseRefunded(h) ==
  /\ Does(h, "refund") /\ Answer(h)
  /\ LET known == order # None /\ order.intent = run[h].event.of /\ order.status # "refunded"
     IN \E written \in SUBSET {"order", "project"} :
          /\ known \/ written = {}
          /\ known => \/ written = {"order", "project"} /\ UNCHANGED faults
                      \/ /\ written # {"order", "project"}
                         /\ faults < MaxFaults /\ faults' = faults + 1
          /\ ~known => UNCHANGED faults
          /\ order' = IF "order" \in written THEN [order EXCEPT !.status = "refunded"] ELSE order
          /\ status' = IF "project" \in written THEN "refunded" ELSE status
  /\ UNCHANGED <<scope, row, object, verifying, stripe, request, confirmed>>

RunFails(h) ==
  /\ ~Does(h, "idle") /\ faults < MaxFaults
  /\ faults' = faults + 1 /\ EndRun(h)
  /\ UNCHANGED <<project, order, stripe, request, answered, confirmed>>

-----------------------------------------------------------------------------
Customer == CreateDraft \/ (\E f \in Files : Upload(f)) \/ StartVerify

Verification == VerifyFiles \/ Approve

CheckoutStep(r) ==
  \/ CheckoutFiles(r) \/ SaveScope(r) \/ ReadOrder(r) \/ InspectSession(r)
  \/ InsertOrder(r) \/ CreateSession(r) \/ LinkSession(r)

Buyer(s) == Pay(s) \/ PayLater(s) \/ Expire(s) \/ Succeed(s) \/ PaymentFails(s) \/ Refund(s)

Webhook(h) ==
  \/ \E e \in events : Deliver(h, e)
  \/ Match(h) \/ MarkPaid(h) \/ Schedule(h) \/ Confirm(h)
  \/ CloseCheckout(h) \/ CloseRefunded(h)

Next ==
  \/ Customer \/ Verification
  \/ \E r \in Requests : Checkout(r) \/ CheckoutStep(r) \/ RequestFails(r)
  \/ \E s \in Sessions : Buyer(s)
  \/ \E h \in Handlers : Webhook(h) \/ RunFails(h)

\* Stripe delivers an event again.
Retry(e) == \E h \in Handlers : Deliver(h, e)

\* A handler goes on after its delivery was matched.
HandlerStep(h) ==
  Match(h) \/ MarkPaid(h) \/ Schedule(h) \/ Confirm(h) \/ CloseCheckout(h) \/ CloseRefunded(h)

Spec == Init /\ [][Next]_vars

-----------------------------------------------------------------------------
\* The project, its files, its order and the sessions are in states that the tables
\* and Stripe know, and a session that was linked exists.
TypeOK ==
  /\ status \in {"none", "upload_incomplete", "awaiting_payment", "custom_review",
                 "order_received", "refunded"}
  /\ scope \in Volumes \cup {None}
  /\ \A f \in Files : row[f] \in {"none", "pending", "verified", "rejected"}
                      /\ object[f] \in {"absent", "plan", "other"}
  /\ verifying \in {"idle", "reading", "good"}
  /\ \A s \in Sessions : State(s) \in SessionStates
  /\ order # None =>
       /\ order.status \in {"unpaid", "checkout_created", "paid", "failed", "refunded"}
       /\ order.session \in {None} \cup {s \in Sessions : State(s) # "none"}
       /\ order.intent \in {None} \cup {s \in Sessions : Charged(s)}
  /\ answered \subseteq events /\ events \subseteq Event
  /\ confirmed \in 0..2 /\ faults \in 0..MaxFaults

\* An order is called paid, and work is confirmed, only for a session whose money
\* came in: not when a delayed payment was merely begun (handleDrywallCheckoutSession).
PaidMeansPaid ==
  /\ order # None /\ order.status \in {"paid", "refunded"} => \E s \in Sessions : Charged(s)
  /\ confirmed > 0 => \E s \in Sessions : Charged(s)

\* Two requests, or one that is repeated after a failure, never leave the customer
\* with two pages on which the same order can be paid (idempotencyKey).
OneOpenCheckout == Cardinality({s \in Sessions : State(s) = "open"}) <= 1

\* A plan that was not verified is never for sale, whichever files of a failed
\* verification had passed (POST verify, POST checkout).
SoldPlansAreVerified ==
  (\E s \in Sessions : State(s) # "none") => \A f \in Files : object[f] = "plan"

\* An order that was closed by its refund is never opened again, whatever event of
\* it comes late or twice (handleDrywallRefund, handleDrywallCheckoutFailure).
RefundIsFinal == OrderIs("refunded") => OrderIs("refunded")'

\* An order that was paid is changed by nothing but the refund of that payment, and one
\* that was refunded stays so, whatever the events of its session say late, twice or at
\* once. Two writers that do not look at what the order has become are left out: the last
\* update of a checkout request, and the failure or expiry of another session of a
\* refunded order (handleDrywallCheckoutSession, handleDrywallRefund).
PaymentIsFinal ==
  LET linked == \E r \in Requests : At(r, "link") /\ ~At(r, "link")'
      closed == \E h \in Handlers : Does(h, "close") /\ Does(h, "idle")'
                                    /\ run[h].event.of # order.intent
  IN order' # order /\ ~linked =>
       /\ OrderIs("paid") => /\ OrderIs("refunded")' /\ order'.intent = order.intent
                             /\ State(order.intent) = "refunded"
       /\ OrderIs("refunded") => closed

\* Nobody goes on working for money that was given back.
NoWorkAfterRefund ==
  \A s \in Sessions : State(s) = "refunded" ~> status # "order_received"

\* The work that was paid at the fixed price has at most the sheets it allows.
PaidScopeIsFixed ==
  (\E s \in Sessions : State(s) = "paid") => scope = "fixed"

\* An order is paid once.
PaidOnce == Cardinality({s \in Sessions : Charged(s)}) <= 1

\* Money that came in on the session that the order names; and an order that says that
\* it was paid, names another session meanwhile, or was closed by the failure of another.
Received(s) == State(s) = "paid" /\ order # None /\ order.session = s
Recorded(s) ==
  /\ order # None
  /\ \/ order.session # s \/ order.status \in {"paid", "refunded"}
     \/ order.status = "failed" /\ \E other \in Sessions \ {s} : State(other) = "failed"

\* Money that came in becomes work or is given back.  Refuted when a handler fails between
\* its two updates, and by a checkout request that was read before the payment.
PaidIsScheduled ==
  \A s \in Sessions :
    State(s) = "paid" ~> status = "order_received" \/ State(s) = "refunded"
=============================================================================
