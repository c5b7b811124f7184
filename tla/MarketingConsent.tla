-------------------------- MODULE MarketingConsent --------------------------
(* The visitor's choice about optional analytics, and what follows from it:  *)
(* the consent cookie that every tab of a browser shares, the tracker of a   *)
(* page (components/site/marketing-analytics.tsx), the consent state a page  *)
(* hands to Google's tag (google-ads-consent.tsx, google-ads-bootstrap.ts),  *)
(* and the route that stores and erases events (api/marketing/events).       *)
(*                                                                           *)
(* A browser runs the handlers of one tab one after the other, up to the     *)
(* next await; the tabs run side by side, and so do the calls at the server. *)
(* The work a tab still has to do without leaving the event loop is the      *)
(* sequence tabs[t].todo; what waits for an answer travels with the call.    *)
(* Attribution, the session identifier and the columns of an event are left  *)
(* out: they are written and deleted together with the visitor identifier.   *)
EXTENDS Naturals, FiniteSets, Sequences, SequencesExt

CONSTANTS Tabs,           \* the tabs of one browser
          Ids,            \* the random visitor identifiers it may draw
          NoId,           \* no identifier cookie
          Regions,        \* what the country lookup of this visitor may say
          GoogleRegions,  \* where Google itself may place the visitor
          MaxChoices,     \* how often the visitor chooses
          MaxEvents,      \* how many events are posted
          MaxViews,       \* how many pages are opened or navigated to
          Faults,         \* how many calls fail
          MaxLeaves       \* how many tabs are closed

ConsentAssumption ==
  /\ Regions \subseteq {"standard", "regulated", "unknown"}
  /\ GoogleRegions \subseteq {"listed", "other"}
  /\ {MaxChoices, MaxEvents, MaxViews, Faults, MaxLeaves} \subseteq Nat
  /\ NoId \notin Ids

VARIABLES choice,    \* the consent cookie; "legacy": only an old rejection
          identity,  \* the visitor identifier cookie
          created,   \* the cookie that says an account has just been created
          gpc,       \* the browser sends Global Privacy Control
          place,     \* where Google places the visitor
          tabs,      \* the pages open in the tabs
          calls,     \* requests on their way to the server
          answers,   \* answers on their way back
          rows,      \* the marketing events stored
          used,      \* the identifiers drawn so far
          seen,      \* what has happened, for the properties
          left       \* what is left of the bounds

vars == <<choice, identity, created, gpc, place, tabs, calls, answers, rows,
          used, seen, left>>

Closed == [open |-> FALSE, region |-> "pending", google |-> "denied",
           viewed |-> FALSE, todo |-> <<>>, waiting |-> <<>>]

Init ==
  /\ choice \in {"none", "legacy"}
  /\ identity = NoId
  /\ created \in BOOLEAN
  /\ gpc \in BOOLEAN
  /\ place \in GoogleRegions
  /\ tabs = [t \in Tabs |-> Closed]
  /\ calls = {} /\ answers = {} /\ rows = {} /\ used = {}
  /\ seen = [signUps |-> 0, purchases |-> {}, erased |-> {}, lost |-> {},
             told |-> {}, cut |-> FALSE]
  /\ left = [choices |-> MaxChoices, events |-> MaxEvents, views |-> MaxViews,
             faults |-> Faults, leaves |-> MaxLeaves]

Spend(what) == left[what] > 0 /\ left' = [left EXCEPT ![what] = @ - 1]
Idle(t) == tabs[t].open /\ tabs[t].todo = <<>>

-----------------------------------------------------------------------------
(* Mutant: the cookie's value is handed on as it is.                         *)
BootstrapRaw ==
  IF gpc THEN "denied"
  ELSE IF choice # "none" THEN choice
  ELSE IF place = "other" THEN "granted" ELSE "denied"

(* The consent state a page starts Google's tag with: the choice where there *)
(* is one, and otherwise what Google's own region rule makes of the default. *)
Bootstrap ==
  IF gpc \/ choice \in {"denied", "legacy"} THEN "denied"
  ELSE IF choice = "granted" \/ place = "other" THEN "granted"
  ELSE "denied"

(* May the tracker of a page in this region collect, as it reads the cookies *)
(* now.                                                                      *)
Enabled(region) ==
  /\ ~gpc
  /\ \/ choice = "granted"
     \/ choice = "none" /\ region = "standard"

(* Handlers that need the region run at once when it is known, and otherwise *)
(* when it arrives.                                                          *)
Handle(tab, handler) ==
  IF tab.region = "pending"
  THEN [tab EXCEPT !.waiting = Append(@, handler)]
  ELSE [tab EXCEPT !.todo = Append(@, handler)]

Open(t) ==
  /\ ~tabs[t].open
  /\ Spend("views")
  /\ tabs' = [tabs EXCEPT ![t] =
       Handle([Closed EXCEPT !.open = TRUE, !.google = Bootstrap], "sync")]
  /\ seen' = [seen EXCEPT !.told = @ \union {t}]
  /\ UNCHANGED <<choice, identity, created, gpc, place, calls, answers, rows,
                 used>>

(* The answer of /api/privacy/region, asked for once per page.  A failed     *)
(* call or lookup counts as an unknown region.                               *)
RegionComes(t) ==
  /\ Idle(t) /\ tabs[t].region = "pending"
  /\ \E region \in Regions :
       tabs' = [tabs EXCEPT ![t].region = region,
                            ![t].todo = tabs[t].waiting, ![t].waiting = <<>>]
  /\ UNCHANGED <<choice, identity, created, gpc, place, calls, answers, rows,
                 used, seen, left>>

(* The visitor follows a link inside the site: the effect runs again for     *)
(* another path.                                                             *)
Navigate(t) ==
  /\ Idle(t)
  /\ Spend("views")
  /\ tabs' = [tabs EXCEPT ![t] = Handle([@ EXCEPT !.viewed = FALSE], "sync")]
  /\ UNCHANGED <<choice, identity, created, gpc, place, calls, answers, rows,
                 used, seen>>

(* Mutant: the choice is written, Google's tag keeps its consent state.      *)
ChooseQuietly(t, c) ==
  /\ Idle(t) /\ tabs[t].region # "pending"
  /\ Spend("choices")
  /\ choice' = IF gpc THEN "denied" ELSE c
  /\ tabs' = [tabs EXCEPT ![t] = Handle(@, "choice")]
  /\ seen' = [seen EXCEPT !.told = {t}]
  /\ UNCHANGED <<identity, created, gpc, place, calls, answers, rows, used>>

(* The visitor presses one of the two buttons; under Global Privacy Control  *)
(* a grant is written as a rejection.  The cookie is every tab's, Google's   *)
(* consent state and the event that tells the tracker are this tab's only.   *)
Effective(c) == IF gpc THEN "denied" ELSE c
Choose(t, c) ==
  /\ Idle(t) /\ tabs[t].region # "pending"
  /\ Spend("choices")
  /\ choice' = Effective(c)
  /\ tabs' = [tabs EXCEPT ![t] =
       Handle([@ EXCEPT !.google = Effective(c)], "choice")]
  /\ seen' = [seen EXCEPT !.told = {t}]
  /\ UNCHANGED <<identity, created, gpc, place, calls, answers, rows, used>>

(* The page of a paid order reports the purchase to Google with the page's   *)
(* consent state, and emits it as an event of its own.                       *)
Purchase(t) ==
  /\ Idle(t)
  /\ Spend("views")
  /\ seen' = [seen EXCEPT !.purchases =
       @ \union {[google |-> tabs[t].google, choice |-> choice,
                  told |-> t \in seen.told]}]
  /\ tabs' = [tabs EXCEPT ![t] = Handle(@, "purchase")]
  /\ UNCHANGED <<choice, identity, created, gpc, place, calls, answers, rows,
                 used>>

-----------------------------------------------------------------------------
(* sendMarketingEvent: the cookies are read and the identifier is written in *)
(* one go; the request carries both.  A beacon the browser accepts needs no  *)
(* answer, the fetch that replaces a refused beacon is awaited.  "then" is   *)
(* what the caller does after it; n tells two calls of one kind apart.       *)
EventCall(t, event, id, then) ==
  [kind |-> "post", tab |-> t, event |-> event, id |-> id, choice |-> choice,
   then |-> then, n |-> left.events]

Send(t, event, then) ==
  LET rest == Tail(tabs[t].todo)
      after == IF then = "none" THEN rest ELSE Append(rest, then)
  IN IF ~Enabled(tabs[t].region)
     THEN /\ tabs' = [tabs EXCEPT ![t].todo = after]
          /\ UNCHANGED <<identity, used, calls, seen, left>>
     ELSE /\ Spend("events")
          /\ IF identity = NoId
             THEN \E id \in Ids \ used : identity' = id
             ELSE UNCHANGED identity
          /\ used' = used \union {identity'}
          /\ seen' = [seen EXCEPT !.signUps =
               IF event = "sign_up_completed" THEN @ + 1 ELSE @]
          /\ \/ /\ calls' = calls \union {EventCall(t, event, identity', "none")}
                /\ tabs' = [tabs EXCEPT ![t].todo = after,
                                        ![t].viewed = @ \/ event = "page_view"]
             \/ /\ calls' = calls \union {EventCall(t, event, identity', then)}
                /\ tabs' = [tabs EXCEPT ![t].todo = rest,
                                        ![t].viewed = @ \/ event = "page_view"]

Done(t) == tabs' = [tabs EXCEPT ![t].todo = Tail(@)]

(* syncPageView: one page view per page, then the account just created.      *)
SyncPageView(t) ==
  IF ~Enabled(tabs[t].region)
  THEN /\ tabs' = [tabs EXCEPT ![t].viewed = FALSE, ![t].todo = Tail(@)]
       /\ UNCHANGED <<identity, used, calls, seen, left>>
  ELSE IF tabs[t].viewed
       THEN Done(t) /\ UNCHANGED <<identity, used, calls, seen, left>>
       ELSE Send(t, "page_view", "signup")

SignUpCompleted(t) ==
  IF created THEN Send(t, "sign_up_completed", "clear")
  ELSE Done(t) /\ UNCHANGED <<identity, used, calls, seen, left>>

(* Mutant: the erasure is sent and the cookies are forgotten about.          *)
ForgetEventsOnly(t) ==
  /\ tabs' = [tabs EXCEPT ![t].viewed = FALSE, ![t].todo = Tail(@)]
  /\ calls' = IF identity = NoId THEN calls
              ELSE calls \union {[kind |-> "delete", tab |-> t,
                                  event |-> "none", id |-> identity,
                                  choice |-> choice, then |-> "none",
                                  n |-> left.choices]}
  /\ UNCHANGED <<identity, used, seen, left>>

(* Mutant: the cookies are deleted first, so that the erasure has no         *)
(* identifier to go by.                                                      *)
ForgetCookiesFirst(t) ==
  /\ tabs' = [tabs EXCEPT ![t].viewed = FALSE, ![t].todo = Tail(@)]
  /\ identity' = NoId
  /\ UNCHANGED <<used, calls, seen, left>>

(* handleConsentChange when collection is no longer allowed: the events of   *)
(* the identifier are erased first, the cookies once the call has returned.  *)
Forget(t) ==
  /\ tabs' = [tabs EXCEPT ![t].viewed = FALSE, ![t].todo = Tail(@)]
  /\ calls' = IF identity = NoId THEN calls
              ELSE calls \union {[kind |-> "delete", tab |-> t,
                                  event |-> "none", id |-> identity,
                                  choice |-> choice, then |-> "forget",
                                  n |-> left.choices]}
  /\ UNCHANGED <<identity, used, seen, left>>

Step(t) ==
  /\ tabs[t].todo # <<>>
  /\ LET task == Head(tabs[t].todo) IN
       \/ task = "sync" /\ SyncPageView(t) /\ UNCHANGED created
       \/ task = "signup" /\ SignUpCompleted(t) /\ UNCHANGED created
       \/ task = "purchase" /\ Send(t, "purchase_completed", "none")
                            /\ UNCHANGED created
       \/ task = "clear" /\ created' = FALSE /\ Done(t)
                         /\ UNCHANGED <<identity, used, calls, seen, left>>
       \/ /\ task = "choice" /\ UNCHANGED created
          /\ IF Enabled(tabs[t].region) THEN SyncPageView(t) ELSE Forget(t)
  /\ UNCHANGED <<choice, gpc, place, answers, rows>>

-----------------------------------------------------------------------------
(* POST: the server decides from the cookies of the request, and from its    *)
(* own lookup of the country where they say nothing.                         *)
Permitted(call) ==
  \/ call.choice = "granted"
  \/ call.choice = "none" /\ "standard" \in Regions

Answer(call) ==
  answers' = IF call.then = "none" THEN answers
             ELSE answers \union {[tab |-> call.tab, id |-> call.id,
                                   then |-> call.then, n |-> call.n]}

ServePost(call) ==
  /\ call.kind = "post"
  /\ \/ /\ Permitted(call)
        /\ rows' = rows \union {[id |-> call.id, event |-> call.event,
                                 late |-> call.id \in seen.erased]}
     \/ /\ call.choice # "granted" /\ Regions # {"standard"}
        /\ UNCHANGED rows
  /\ UNCHANGED seen

(* DELETE: every event of the identifier in the request's cookie.            *)
ServeDelete(call) ==
  /\ call.kind = "delete"
  /\ rows' = {r \in rows : r.id # call.id}
  /\ seen' = [seen EXCEPT !.erased = @ \union {call.id}]

Serve(call) ==
  /\ calls' = calls \ {call}
  /\ Answer(call)
  /\ ServePost(call) \/ ServeDelete(call)
  /\ UNCHANGED <<choice, identity, created, gpc, place, tabs, used, left>>

(* The call is refused, limited or lost; the page goes on as if it had been  *)
(* answered.                                                                 *)
Fail(call) ==
  /\ Spend("faults")
  /\ calls' = calls \ {call}
  /\ Answer(call)
  /\ seen' = [seen EXCEPT !.lost =
       IF call.kind = "delete" THEN @ \union {call.id} ELSE @]
  /\ UNCHANGED <<choice, identity, created, gpc, place, tabs, rows, used>>

(* An answer reaches its page.  After a deletion the page deletes the        *)
(* identifier cookie, whichever identifier it holds by now.                  *)
Returned(answer) ==
  /\ answers' = answers \ {answer}
  /\ IF answer.then = "forget"
     THEN /\ identity' = NoId
          /\ seen' = [seen EXCEPT !.lost =
               IF identity \in Ids \ {answer.id} THEN @ \union {identity}
               ELSE @]
          /\ UNCHANGED tabs
     ELSE /\ tabs' = [tabs EXCEPT ![answer.tab].todo = Append(@, answer.then)]
          /\ UNCHANGED <<identity, seen>>

Comes(answer) ==
  /\ Idle(answer.tab)
  /\ Returned(answer)
  /\ UNCHANGED <<choice, created, gpc, place, calls, rows, used, left>>

(* The visitor closes the tab or leaves the site.  Calls under way are still *)
(* made (keepalive); nothing runs after them.                                *)
Unfinished(t) ==
  \/ \E i \in DOMAIN tabs[t].todo : tabs[t].todo[i] = "choice"
  \/ \E c \in calls : c.tab = t /\ c.then = "forget"
  \/ \E a \in answers : a.tab = t /\ a.then = "forget"

Leave(t) ==
  /\ tabs[t].open
  /\ Spend("leaves")
  /\ tabs' = [tabs EXCEPT ![t] = Closed]
  /\ calls' = {IF c.tab = t THEN [c EXCEPT !.then = "none"] ELSE c : c \in calls}
  /\ answers' = {a \in answers : a.tab # t}
  /\ seen' = [seen EXCEPT
       !.cut = @ \/ Unfinished(t),
       !.lost = IF \E i \in DOMAIN tabs[t].todo : tabs[t].todo[i] = "choice"
                THEN @ \union ({identity} \ {NoId}) ELSE @]
  /\ UNCHANGED <<choice, identity, created, gpc, place, rows, used>>

Next ==
  \/ \E t \in Tabs : Open(t) \/ RegionComes(t) \/ Navigate(t) \/ Purchase(t)
                     \/ Step(t) \/ Leave(t)
  \/ \E t \in Tabs, c \in {"granted", "denied"} : Choose(t, c)
  \/ \E call \in calls : Serve(call) \/ Fail(call)
  \/ \E answer \in answers : Comes(answer)

(* A queued call is served; an answer comes.                                 *)
SomeServed == \E call \in calls : Serve(call)
SomeComes == \E answer \in answers : Comes(answer)

Spec == Init /\ [][Next]_vars

-----------------------------------------------------------------------------
Cookies == {"none", "legacy", "granted", "denied"}
Tasks == {"sync", "choice", "signup", "purchase", "clear"}

(* Type invariant.                                                           *)
TypeOK ==
  /\ choice \in Cookies /\ identity \in Ids \union {NoId}
  /\ created \in BOOLEAN /\ gpc \in BOOLEAN
  /\ \A t \in Tabs : /\ tabs[t].region \in Regions \union {"pending"}
                     /\ tabs[t].google \in {"granted", "denied"}
                     /\ tabs[t].todo \in Seq(Tasks)
                     /\ tabs[t].waiting \in Seq(Tasks)
  /\ \A c \in calls : c.id \in Ids
  /\ \A r \in rows : r.id \in used

(* A purchase the visitor has refused measurement for is reported to Google  *)
(* with consent denied by every page that was told: the one in which the     *)
(* choice was made, and all that were opened since. A page that was open in  *)
(* another tab keeps the consent state it had.                               *)
MeasuredAsTold ==
  \A p \in seen.purchases :
    p.told /\ p.choice \in {"denied", "legacy"} => p.google = "denied"

(* The same of every page, also of one that was open in another tab.         *)
MeasuredAsChosen ==
  \A p \in seen.purchases : p.choice = "denied" => p.google = "denied"

(* The identifier cookie of a visitor who has refused is on its way out: the *)
(* handler that deletes it is queued or waits for the erasure's answer,      *)
(* unless the visitor left the page in the middle of it.                     *)
IdentityNeedsPermission ==
  choice = "denied" /\ identity # NoId =>
    seen.cut \/ \E t \in Tabs : Unfinished(t)

(* When everything has settled after a refusal, an event is still stored     *)
(* only if its insert came after the erasure of its identifier, if the       *)
(* erasure failed, or if the answer of an older erasure made the browser     *)
(* forget a newer identifier.                                                *)
LeftOverIsLate ==
  choice = "denied" /\ calls = {} /\ answers = {}
  /\ (\A t \in Tabs : tabs[t].todo = <<>>)
    => \A r \in rows : r.late \/ r.id \in seen.lost

(* One account created is one conversion reported to Google.                 *)
OneSignUp == seen.signUps <= 1

(* Where the country cannot be resolved, a page without a choice does not    *)
(* allow Google's optional storage.                                          *)
UnresolvedIsOptIn ==
  \A t \in Tabs : tabs[t].open /\ tabs[t].region = "unknown" /\ choice = "none"
                    => tabs[t].google = "denied"

(* A refusal, and what ends it: the identifier goes, or the visitor grants   *)
(* again, or has left.                                                       *)
Denied == choice = "denied"
Forgotten == identity = NoId \/ choice # "denied" \/ seen.cut
=============================================================================
