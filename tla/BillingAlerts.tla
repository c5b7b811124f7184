---------------------------- MODULE BillingAlerts ---------------------------
(***************************************************************************)
(* How a dispute or a refund of a payment reaches the operators.           *)
(*                                                                         *)
(* Every change of a case at Stripe sends an event, which Stripe delivers  *)
(* again until it is answered with success.  The webhook claims the event, *)
(* asks Stripe for the case as it is NOW, writes it into the metadata of   *)
(* the order, and creates the case's alert or touches the one that is      *)
(* active: it reads the alert first, and updates it by its id (route.ts).  *)
(* Meanwhile an administrator acknowledges and resolves alerts from a page *)
(* that was loaded earlier (admin/actions.ts).                             *)
(*                                                                         *)
(* The cases are of one order.  A refund here is one of a part, or one     *)
(* that fails: what a full refund does to the credits is StripeCredits.    *)
(***************************************************************************)
EXTENDS Integers, FiniteSets, Sequences

CONSTANTS
    Cases,      \* a subset of {"dispute", "refund"}
    Handlers,   \* invocations of the webhook that run at a time
    MaxAlerts,  \* BOUND: rows of admin_alerts
    MaxClicks,  \* BOUND: updates by administrators
    MaxFaults   \* BOUND: failing calls and handlers that die

CasesAssumption == Cases \subseteq {"dispute", "refund"}

VARIABLES
    status,     \* status[c]: the case at Stripe
    inbox,      \* inbox[e]: "none", "due" to be delivered, "answered"
    stored,     \* stripe_events.status
    run,        \* run[h]: an invocation of the webhook
    reviews,    \* the order's metadata: reviews[c], a status or "none"
    alerts,     \* the rows of admin_alerts with the cases' dedupe keys
    flagged,    \* events with an alert of their own, that they failed
    page,       \* the alerts an administrator's page shows, with their states
    clicks, faults

vars == <<status, inbox, stored, run, reviews, alerts, flagged, page, clicks,
          faults>>
stripe == <<status, inbox>>
admin == <<page, clicks>>

\* The first event of a case, and the one of its outcome.
Events == Cases \X {1, 2}
Outcomes == [dispute |-> {"won", "lost"}, refund |-> {"succeeded", "failed"}]
NoStatus == "none"

\* A refund of a part that succeeded requires follow-up, as does one that fails.
Severity(c, s) ==
    CASE c = "dispute" -> IF s = "won" THEN "info" ELSE "critical"
      [] c = "refund" -> IF s = "pending" THEN "warning" ELSE "critical"

Active == {"open", "acknowledged"}
ActiveOf(c) == {i \in DOMAIN alerts : alerts[i].of = c
                                      /\ alerts[i].state \in Active}

IdleRun == [pc |-> "idle", event |-> <<NoStatus, 0>>, read |-> NoStatus,
            order |-> [c \in Cases |-> NoStatus], alert |-> 0]

Init ==
    /\ status = [c \in Cases |-> NoStatus]
    /\ inbox = [e \in Events |-> "none"]
    /\ stored = [e \in Events |-> "none"]
    /\ run = [h \in Handlers |-> IdleRun]
    /\ reviews = [c \in Cases |-> NoStatus]
    /\ alerts = <<>> /\ flagged = {} /\ page = {}
    /\ clicks = 0 /\ faults = 0

----------------------------------------------------------------------------
(* Stripe *)

Opens(c) ==
    /\ status[c] = NoStatus
    /\ status' = [status EXCEPT ![c] = "pending"]
    /\ inbox' = [inbox EXCEPT ![<<c, 1>>] = "due"]
    /\ UNCHANGED <<stored, run, reviews, alerts, flagged, faults, admin>>

Settles(c) ==
    /\ status[c] = "pending"
    /\ \E s \in Outcomes[c] : status' = [status EXCEPT ![c] = s]
    /\ inbox' = [inbox EXCEPT ![<<c, 2>>] = "due"]
    /\ UNCHANGED <<stored, run, reviews, alerts, flagged, faults, admin>>

----------------------------------------------------------------------------
(* The webhook *)

At(h, pc) == run[h].pc = pc
Goto(h, pc) == run' = [run EXCEPT ![h].pc = pc]
CaseOf(h) == run[h].event[1]
Fault == faults < MaxFaults /\ faults' = faults + 1

\* Mutant: an event that failed is a duplicate when it comes again.
DeliverOnce(h, e) ==
    /\ At(h, "idle") /\ inbox[e] = "due"
    /\ IF stored[e] \in {"processed", "failed"}
       THEN /\ inbox' = [inbox EXCEPT ![e] = "answered"]
            /\ UNCHANGED <<stored, run>>
       ELSE /\ stored' = [stored EXCEPT ![e] = "processing"]
            /\ run' = [run EXCEPT ![h] = [IdleRun EXCEPT !.pc = "retrieve",
                                                         !.event = e]]
            /\ UNCHANGED inbox
    /\ UNCHANGED <<status, reviews, alerts, flagged, faults, admin>>

\* Mutant: an event that is being processed is refused.
DeliverUnclaimed(h, e) ==
    /\ At(h, "idle") /\ inbox[e] = "due" /\ stored[e] # "processing"
    /\ stored' = [stored EXCEPT ![e] = "processing"]
    /\ run' = [run EXCEPT ![h] = [IdleRun EXCEPT !.pc = "retrieve",
                                                 !.event = e]]
    /\ UNCHANGED <<stripe, reviews, alerts, flagged, faults, admin>>

\* claimStripeEvent: only one that was processed is a duplicate, and one that
\* is being processed is processed again.
Deliver(h, e) ==
    /\ At(h, "idle") /\ inbox[e] = "due"
    /\ IF stored[e] = "processed"
       THEN /\ inbox' = [inbox EXCEPT ![e] = "answered"]
            /\ UNCHANGED <<stored, run>>
       ELSE /\ stored' = [stored EXCEPT ![e] = "processing"]
            /\ run' = [run EXCEPT ![h] = [IdleRun EXCEPT !.pc = "retrieve",
                                                         !.event = e]]
            /\ UNCHANGED inbox
    /\ UNCHANGED <<status, reviews, alerts, flagged, faults, admin>>

\* Mutant: the case as the event has it.
RetrieveEvent(h) ==
    /\ At(h, "retrieve")
    /\ run' = [run EXCEPT ![h].pc = "order", ![h].read =
                  IF run[h].event[2] = 1 THEN "pending" ELSE status[CaseOf(h)]]
    /\ UNCHANGED <<stripe, stored, reviews, alerts, flagged, faults, admin>>

\* handleLatestDispute, handleLatestRefund
Retrieve(h) ==
    /\ At(h, "retrieve")
    /\ run' = [run EXCEPT ![h].pc = "order", ![h].read = status[CaseOf(h)]]
    /\ UNCHANGED <<stripe, stored, reviews, alerts, flagged, faults, admin>>

ReadOrder(h) ==
    /\ At(h, "order")
    /\ run' = [run EXCEPT ![h].pc = "review", ![h].order = reviews]
    /\ UNCHANGED <<stripe, stored, reviews, alerts, flagged, faults, admin>>

\* Mutant: the review replaces the metadata.
ReviewAlone(h) ==
    /\ At(h, "review") /\ Goto(h, "alert")
    /\ reviews' = [c \in Cases |-> IF c = CaseOf(h) THEN run[h].read ELSE NoStatus]
    /\ UNCHANGED <<stripe, stored, alerts, flagged, faults, admin>>

\* recordBillingRisk: the metadata that was read, with this case's review.
Review(h) ==
    /\ At(h, "review") /\ Goto(h, "alert")
    /\ reviews' = [run[h].order EXCEPT ![CaseOf(h)] = run[h].read]
    /\ UNCHANGED <<stripe, stored, alerts, flagged, faults, admin>>

ReadAlert(h) ==
    /\ At(h, "alert")
    /\ run' = [run EXCEPT ![h].pc = "write", ![h].alert =
                  IF ActiveOf(CaseOf(h)) = {} THEN 0
                  ELSE CHOOSE i \in ActiveOf(CaseOf(h)) : TRUE]
    /\ UNCHANGED <<stripe, stored, reviews, alerts, flagged, faults, admin>>

\* By its id, whatever has become of it.
Touch(h) ==
    /\ At(h, "write") /\ run[h].alert # 0 /\ Goto(h, "finish")
    /\ alerts' = [alerts EXCEPT ![run[h].alert].severity =
                      Severity(CaseOf(h), run[h].read)]
    /\ UNCHANGED <<stripe, stored, reviews, flagged, faults, admin>>

\* Mutant: the row is inserted whatever is active.
InsertAnyway(h) ==
    /\ At(h, "write") /\ run[h].alert = 0 /\ Goto(h, "finish")
    /\ Len(alerts) < MaxAlerts
    /\ alerts' = Append(alerts, [of |-> CaseOf(h), state |-> "open",
                           severity |-> Severity(CaseOf(h), run[h].read)])
    /\ UNCHANGED <<stripe, stored, reviews, flagged, faults, admin>>

\* The unique index refuses a second active row; the refusal is ignored.
Insert(h) ==
    /\ At(h, "write") /\ run[h].alert = 0 /\ Goto(h, "finish")
    /\ IF ActiveOf(CaseOf(h)) # {} THEN UNCHANGED alerts
       ELSE /\ Len(alerts) < MaxAlerts
            /\ alerts' = Append(alerts, [of |-> CaseOf(h), state |-> "open",
                                   severity |-> Severity(CaseOf(h), run[h].read)])
    /\ UNCHANGED <<stripe, stored, reviews, flagged, faults, admin>>

\* finishStripeEvent, and the answer, which Stripe may not get.
Finish(h) ==
    /\ At(h, "finish") /\ run' = [run EXCEPT ![h] = IdleRun]
    /\ stored' = [stored EXCEPT ![run[h].event] = "processed"]
    /\ \/ inbox' = [inbox EXCEPT ![run[h].event] = "answered"] /\ UNCHANGED faults
       \/ Fault /\ UNCHANGED inbox
    /\ UNCHANGED <<status, reviews, alerts, flagged, admin>>

\* A call fails: the event is marked and flagged, and answered with an error.
Fails(h) ==
    /\ ~At(h, "idle") /\ Fault /\ run' = [run EXCEPT ![h] = IdleRun]
    /\ stored' = [stored EXCEPT ![run[h].event] = "failed"]
    /\ flagged' = flagged \union {run[h].event}
    /\ UNCHANGED <<stripe, reviews, alerts, admin>>

Dies(h) ==
    /\ ~At(h, "idle") /\ Fault /\ run' = [run EXCEPT ![h] = IdleRun]
    /\ UNCHANGED <<stripe, stored, reviews, alerts, flagged, admin>>

----------------------------------------------------------------------------
(* The administrator *)

Look ==
    /\ page' = {<<i, alerts[i].state>> : i \in
                   {j \in DOMAIN alerts : alerts[j].state \in Active}}
    /\ page' # page
    /\ UNCHANGED <<stripe, stored, run, reviews, alerts, flagged, clicks, faults>>

\* resolveAlert, from what the page offers for the state it shows.  The unique
\* index refuses to make a second row active.
Click(i, s) ==
    /\ clicks < MaxClicks /\ clicks' = clicks + 1
    /\ \/ s = "acknowledged" /\ <<i, "open">> \in page
       \/ s = "resolved" /\ \E shown \in Active : <<i, shown>> \in page
    /\ IF s = "acknowledged" /\ ActiveOf(alerts[i].of) \ {i} # {}
       THEN UNCHANGED alerts
       ELSE alerts' = [alerts EXCEPT ![i].state = s]
    /\ UNCHANGED <<stripe, stored, run, reviews, flagged, page, faults>>

HandlerStep(h) ==
    \/ Retrieve(h) \/ ReadOrder(h) \/ Review(h)
    \/ ReadAlert(h) \/ Touch(h) \/ Insert(h) \/ Finish(h)

Next ==
    \/ \E c \in Cases : Opens(c) \/ Settles(c)
    \/ \E h \in Handlers : \/ \E e \in Events : Deliver(h, e)
                           \/ HandlerStep(h) \/ Fails(h) \/ Dies(h)
    \/ Look
    \/ \E i \in DOMAIN alerts, s \in {"acknowledged", "resolved"} : Click(i, s)

\* Stripe delivers an event again.
Retry(e) == \E h \in Handlers : Deliver(h, e)

Spec == Init /\ [][Next]_vars

----------------------------------------------------------------------------
\* Types, and that a case never has two active alerts.
TypeOK ==
    /\ \A c \in Cases : status[c] \in {NoStatus, "pending"} \union Outcomes[c]
    /\ inbox \in [Events -> {"none", "due", "answered"}]
    /\ stored \in [Events -> {"none", "processing", "failed", "processed"}]
    /\ \A i \in DOMAIN alerts :
         alerts[i] \in [of : Cases, state : Active \union {"resolved"},
                        severity : {"info", "warning", "critical"}]
    /\ flagged \subseteq Events
    /\ \A c \in Cases : Cardinality(ActiveOf(c)) <= 1

Quiet == /\ \A e \in Events : inbox[e] # "due"
         /\ \A h \in Handlers : At(h, "idle")

\* Once every event is answered, an alert that is still open says how the case
\* ended and not how it began, in whatever order the events came, failed and
\* came again, provided that one was handled at a time.
SettledAlertIsTrue ==
    Quiet => \A i \in DOMAIN alerts :
                alerts[i].state = "open" =>
                    alerts[i].severity = Severity(alerts[i].of,
                                                  status[alerts[i].of])

\* The order's metadata then has the latest review of each of its cases: the
\* handler of one has not written back what it read before the other's.
ReviewsKept == Quiet => reviews = status

\* Whatever overlaps, an event that was answered left its case with an alert.
AnsweredIsAlerted ==
    \A e \in Events : inbox[e] = "answered" =>
        \E i \in DOMAIN alerts : alerts[i].of = e[1]

\* An event that Stripe has to tell, and one that was answered.
Due(e) == inbox[e] = "due"
Answered(e) == inbox[e] = "answered"
=============================================================================
