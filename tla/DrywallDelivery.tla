---------------------------- MODULE DrywallDelivery ----------------------------
(***************************************************************************)
(* What follows the payment of a drywall order: the workflow of the admin,  *)
(* deliveries of a marked plan and a workbook, corrections that the         *)
(* customer asks for, the refund, and the purge when retention is over.     *)
(*                                                                          *)
(* Each admin tab prepares two rows, uploads two objects and finalizes      *)
(* them; every call of the database or of storage is a step.  The plans of  *)
(* the customer, which the purge deletes as well, are left out.             *)
(***************************************************************************)
EXTENDS FiniteSetsExt, Integers, Sequences

CONSTANTS
  Tabs,        \* delivery forms of the admin
  Batches,     \* pairs of deliverables that are ever prepared
  Requests,    \* corrections the customer may ask for
  Refundable,  \* whether the order may be refunded
  Purges,      \* whether ninety days may pass
  MaxFaults,   \* failed calls and lost processes
  None

DrywallDeliveryAssumption ==
  Refundable \in BOOLEAN /\ Purges \in BOOLEAN /\ MaxFaults \in Nat /\ None \notin Batches

VARIABLES
  status,     \* drywall_takeoff_projects.status
  paid,       \* the order is paid, and not refunded
  due,        \* retention_delete_at: "none", "set" or "due"
  rows,       \* drywall_takeoff_deliverables
  version,    \* their version
  delivered,  \* those with delivered_at
  objects,    \* the bucket of results
  tab,
  request,    \* where each correction request is
  revision,   \* drywall_takeoff_revision_requests
  cron,       \* the purge of this project
  faults

files == <<rows, version, delivered, objects>>
asking == <<request, revision>>
vars == <<status, paid, due, files, tab, asking, cron, faults>>

Kinds == {"pdf", "workbook"}
Pair(b) == {b} \X Kinds
Finished == {"delivered", "revised", "completed"}
Closed == Finished \cup {"refunded"}

IdleTab == [at |-> "idle", batch |-> None, version |-> 0, seen |-> {}]
IdleCron == [at |-> "idle", seen |-> {}]

Init ==
  /\ status = "order_received" /\ paid = TRUE /\ due = "none"
  /\ rows = {} /\ version = [b \in Batches |-> 0] /\ delivered = {} /\ objects = {}
  /\ tab = [t \in Tabs |-> IdleTab]
  /\ request = [q \in Requests |-> "new"] /\ revision = [q \in Requests |-> "none"]
  /\ cron = IdleCron /\ faults = 0

OpenRevision == \E q \in Requests : revision[q] = "open"
Latest == Max({0} \cup {version[r[1]] : r \in rows})

-----------------------------------------------------------------------------
(* transitionDrywallProject: a compare and set                              *)

Transitions == {
  <<"order_received", "initial_review">>, <<"initial_review", "takeoff_in_progress">>,
  <<"takeoff_in_progress", "quality_review">>, <<"quality_review", "takeoff_in_progress">>,
  <<"delivered", "completed">>, <<"revised", "completed">>,
  <<"revision_requested", "takeoff_in_progress">>}

TransitionDrywallProject ==
  /\ \E s \in Transitions : status = s[1] /\ status' = s[2]
  /\ UNCHANGED <<paid, due, files, tab, asking, cron, faults>>

-----------------------------------------------------------------------------
(* POST /api/admin/drywall/{id}/deliverables and the form that calls it     *)

At(t, at) == tab[t].at = at
Goto(t, at) == tab' = [tab EXCEPT ![t].at = at]
Leave(t) == tab' = [tab EXCEPT ![t] = IdleTab]

Eligible == paid /\ status # "refunded"
Pending == {r \in rows : version[r[1]] = Latest /\ r \notin delivered}
Unused == {b \in Batches : version[b] = 0 /\ \A t \in Tabs : tab[t].batch # b}

PrepareOver(t, seen) ==
  /\ At(t, "idle") /\ Eligible /\ Unused # {}
  /\ tab' = [tab EXCEPT ![t] =
       [at |-> IF seen = {} THEN "pdf" ELSE "remove", batch |-> CHOOSE b \in Unused : TRUE,
        version |-> IF seen = {} THEN Latest + 1 ELSE Latest, seen |-> seen]]
  /\ UNCHANGED <<status, paid, due, files, asking, cron, faults>>

\* A prepared delivery is replaced, a published one too.
PrepareLatest(t) == PrepareOver(t, {r \in rows : version[r[1]] = Latest})

\* A prepared delivery that was not published is replaced under its version.
Prepare(t) == PrepareOver(t, Pending)

\* The error of the storage is not looked at.
RemoveOld(t) ==
  /\ At(t, "remove") /\ Goto(t, "delete")
  /\ \/ objects' = objects \ tab[t].seen /\ UNCHANGED faults
     \/ faults < MaxFaults /\ faults' = faults + 1 /\ UNCHANGED objects
  /\ UNCHANGED <<status, paid, due, rows, version, delivered, asking, cron>>

DeleteOld(t) ==
  /\ At(t, "delete") /\ Goto(t, "pdf")
  /\ rows' = rows \ tab[t].seen /\ delivered' = delivered \ tab[t].seen
  /\ UNCHANGED <<status, paid, due, version, objects, asking, cron, faults>>

\* A version has one row of a kind; the rows of a pair that cannot be completed go.
InsertRow(t, kind) ==
  LET b == tab[t].batch
      taken == \E r \in rows : r[2] = kind /\ version[r[1]] = tab[t].version
  IN /\ At(t, kind)
     /\ IF taken THEN rows' = rows \ Pair(b) /\ Leave(t)
        ELSE rows' = rows \cup {<<b, kind>>} /\ Goto(t, IF kind = "pdf" THEN "workbook" ELSE "put pdf")
     /\ version' = [version EXCEPT ![b] = tab[t].version]
     /\ UNCHANGED <<status, paid, due, delivered, objects, asking, cron, faults>>

\* The signed address outlives the row.
Upload(t, kind) ==
  /\ At(t, "put " \o kind)
  /\ objects' = objects \cup {<<tab[t].batch, kind>>}
  /\ Goto(t, IF kind = "pdf" THEN "put workbook" ELSE "finalize")
  /\ UNCHANGED <<status, paid, due, rows, version, delivered, asking, cron, faults>>

\* Any row that was asked for will do.
FinalizeAny(t) ==
  /\ At(t, "finalize")
  /\ IF Eligible /\ Pair(tab[t].batch) \cap rows # {} THEN Goto(t, "publish") ELSE Leave(t)
  /\ UNCHANGED <<status, paid, due, files, asking, cron, faults>>

Finalize(t) ==
  /\ At(t, "finalize")
  /\ IF Eligible /\ Pair(tab[t].batch) \subseteq rows \ delivered THEN Goto(t, "verify") ELSE Leave(t)
  /\ UNCHANGED <<status, paid, due, files, asking, cron, faults>>

Verify(t) ==
  /\ At(t, "verify")
  /\ IF Pair(tab[t].batch) \subseteq objects THEN Goto(t, "publish") ELSE Leave(t)
  /\ UNCHANGED <<status, paid, due, files, asking, cron, faults>>


Publish(t) ==
  /\ At(t, "publish") /\ Goto(t, "close")
  /\ delivered' = delivered \cup (Pair(tab[t].batch) \cap rows)
  /\ UNCHANGED <<status, paid, due, rows, version, objects, asking, cron, faults>>

\* A correction that is delivered stays open.
CloseAlone(t) ==
  /\ At(t, "close") /\ Leave(t) /\ due' = "set"
  /\ status' = IF tab[t].version > 1 THEN "revised" ELSE "delivered"
  /\ UNCHANGED <<paid, files, asking, cron, faults>>

\* Nothing is read again: whatever the project has become is overwritten.
CloseProject(t) ==
  /\ At(t, "close")
  /\ status' = IF tab[t].version > 1 THEN "revised" ELSE "delivered"
  /\ due' = "set"
  /\ IF tab[t].version > 1 THEN Goto(t, "resolve") ELSE Leave(t)
  /\ UNCHANGED <<paid, files, asking, cron, faults>>

Resolve(t) ==
  /\ At(t, "resolve") /\ Leave(t)
  /\ revision' = [q \in Requests |-> IF revision[q] = "open" THEN "resolved" ELSE revision[q]]
  /\ UNCHANGED <<status, paid, due, files, request, cron, faults>>

TabFails(t) ==
  /\ ~At(t, "idle") /\ faults < MaxFaults
  /\ faults' = faults + 1 /\ Leave(t)
  /\ UNCHANGED <<status, paid, due, files, asking, cron>>

-----------------------------------------------------------------------------
(* POST /api/drywall/orders/{id}/revision                                   *)

RequestGoto(q, at) == request' = [request EXCEPT ![q] = at]

Ask(q) ==
  /\ request[q] = "new" /\ status \in Finished /\ rows # {} /\ ~OpenRevision
  /\ RequestGoto(q, "insert")
  /\ UNCHANGED <<status, paid, due, files, tab, revision, cron, faults>>

\* Two requests that saw no open correction both open one.
InsertSecondRevision(q) ==
  /\ request[q] = "insert" /\ RequestGoto(q, "status")
  /\ revision' = [revision EXCEPT ![q] = "open"]
  /\ UNCHANGED <<status, paid, due, files, tab, cron, faults>>

\* One open correction is all that the index allows.
InsertRevision(q) ==
  /\ request[q] = "insert"
  /\ IF OpenRevision THEN RequestGoto(q, "end") /\ UNCHANGED revision
     ELSE RequestGoto(q, "status") /\ revision' = [revision EXCEPT ![q] = "open"]
  /\ UNCHANGED <<status, paid, due, files, tab, cron, faults>>

\* Neither the status it replaces nor its own result is looked at.
SetRequested(q) ==
  /\ request[q] = "status" /\ RequestGoto(q, "end")
  /\ \/ status' = "revision_requested" /\ UNCHANGED faults
     \/ faults < MaxFaults /\ faults' = faults + 1 /\ UNCHANGED status
  /\ UNCHANGED <<paid, due, files, tab, revision, cron>>

-----------------------------------------------------------------------------
(* The refund, and the cron                                                 *)

HandleDrywallRefund ==
  /\ Refundable /\ paid /\ paid' = FALSE /\ status' = "refunded"
  /\ UNCHANGED <<due, files, tab, asking, cron, faults>>

NinetyDaysPass ==
  /\ Purges /\ due = "set" /\ due' = "due"
  /\ UNCHANGED <<status, paid, files, tab, asking, cron, faults>>

\* Only what the admin has completed.
PurgeCompleted ==
  /\ cron.at = "idle" /\ due = "due" /\ status = "completed"
  /\ cron' = [cron EXCEPT !.at = "list"]
  /\ UNCHANGED <<status, paid, due, files, tab, asking, faults>>

PurgeSelect ==
  /\ cron.at = "idle" /\ due = "due" /\ status \in Closed
  /\ cron' = [cron EXCEPT !.at = "list"]
  /\ UNCHANGED <<status, paid, due, files, tab, asking, faults>>

PurgeList ==
  /\ cron.at = "list" /\ cron' = [at |-> "objects", seen |-> rows]
  /\ UNCHANGED <<status, paid, due, files, tab, asking, faults>>

PurgeObjects ==
  /\ cron.at = "objects" /\ cron' = [cron EXCEPT !.at = "rows"]
  /\ objects' = objects \ cron.seen
  /\ UNCHANGED <<status, paid, due, rows, version, delivered, tab, asking, faults>>

\* All rows of the project, the ones that were not listed too.
PurgeRows ==
  /\ cron.at = "rows" /\ cron' = [cron EXCEPT !.at = "done"]
  /\ rows' = {} /\ delivered' = {}
  /\ UNCHANGED <<status, paid, due, version, objects, tab, asking, faults>>

PurgeDone ==
  /\ cron.at = "done" /\ cron' = IdleCron /\ due' = "none"
  /\ UNCHANGED <<status, paid, files, tab, asking, faults>>

PurgeFails ==
  /\ cron.at # "idle" /\ faults < MaxFaults
  /\ faults' = faults + 1 /\ cron' = IdleCron
  /\ UNCHANGED <<status, paid, due, files, tab, asking>>

-----------------------------------------------------------------------------
Delivery(t) ==
  \/ RemoveOld(t) \/ DeleteOld(t) \/ \E kind \in Kinds : InsertRow(t, kind) \/ Upload(t, kind)
  \/ Finalize(t) \/ Verify(t) \/ Publish(t) \/ CloseProject(t) \/ Resolve(t)

Purge == PurgeSelect \/ PurgeList \/ PurgeObjects \/ PurgeRows \/ PurgeDone

Next ==
  \/ TransitionDrywallProject \/ HandleDrywallRefund \/ NinetyDaysPass
  \/ \E t \in Tabs : Prepare(t) \/ Delivery(t) \/ TabFails(t)
  \/ \E q \in Requests : Ask(q) \/ InsertRevision(q) \/ SetRequested(q)
  \/ Purge \/ PurgeFails

\* The two steps of a correction that was asked for.
Correct(q) == InsertRevision(q) \/ SetRequested(q)

Spec == Init /\ [][Next]_vars

-----------------------------------------------------------------------------
\* A version has one row of a kind, a project one open correction, and what is marked
\* as delivered is a row (the unique constraints of the tables).
TypeOK ==
  /\ status \in Closed \cup {s[1] : s \in Transitions} /\ paid \in BOOLEAN
  /\ due \in {"none", "set", "due"} /\ cron.at \in {"idle", "list", "objects", "rows", "done"}
  /\ rows \cup objects \subseteq Batches \X Kinds /\ delivered \subseteq rows
  /\ version \in [Batches -> 0..Cardinality(Batches)]
  /\ \A r, s \in rows : r[2] = s[2] /\ version[r[1]] = version[s[1]] => r = s
  /\ \A p, q \in Requests : revision[p] = "open" /\ revision[q] = "open" => p = q
  /\ faults \in 0..MaxFaults

\* A delivery is a marked plan together with a workbook, whatever the purge did to
\* the rows while it was prepared.
PublishedPairs == \A r \in delivered : Pair(r[1]) \subseteq delivered

\* What was published is not replaced by a later delivery.
PublishedStays == delivered \subseteq delivered' \/ due = "due"

\* A project that is called delivered has a delivery that can be downloaded, until its
\* retention is over.
DeliveredHasFiles ==
  status \in Finished /\ due = "set" => \E b \in Batches : Pair(b) \subseteq delivered \cap objects

\* A correction that was opened is seen: its project is not among the finished ones,
\* unless a delivery is just about to resolve it.
RevisionIsSeen ==
  OpenRevision /\ (\A q \in Requests : request[q] # "status") /\ (\A t \in Tabs : ~At(t, "resolve"))
    => status \notin Finished

\* A refunded project is closed for good.
RefundedStaysClosed == paid \/ status = "refunded"

\* Files that are wanted for an open correction are not purged.
IncidentKeepsFiles == OpenRevision => delivered \subseteq delivered'

\* Every object of the bucket is known to a row, by which the purge will find it, or
\* to a form that is at work.
ObjectsAreKnown ==
  \A o \in objects : o \in rows \/ cron.at # "idle" \/ \E t \in Tabs : tab[t].batch = o[1]

\* One correction is included.
OneCorrection == Cardinality({q \in Requests : revision[q] # "none"}) <= 1

\* The files of a closed project whose time has come.
PurgeIsDue == due = "due" /\ status \in Closed
=============================================================================
