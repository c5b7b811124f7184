----------------------------- MODULE MCLiveness -----------------------------
(* What must happen in the end, in the components whose steps are taken by a *)
(* scheduler, a timer or a clock. A behaviour of this module is a behaviour  *)
(* of one component, the one that part names: x1, x2, ... stand for the      *)
(* variables of that component, in the order in which its module declares    *)
(* them.                                                                     *)
EXTENDS Integers

CONSTANTS None, c1, c2, c3

VARIABLES part, x1, x2, x3, x4, x5, x6, x7, x8, x9, x10, x11, x12, x13, x14,
                x15, x16

Broker == INSTANCE ExecutorBroker WITH
  Jobs <- {c1}, Executions <- {c1}, Clients <- {c1}, NoJob <- None,
  NoExecution <- None, NoClient <- None, MaxConcurrentJobs <- 1,
  MaxFaults <- 2,
  up <- x1, mem <- x2, disk <- x3, owner <- x4, res <- x5, req <- x6,
  lock <- x7, todo <- x8, failed <- x9, expired <- x10, attached <- x11,
  stopped <- x12, accepted <- x13, faults <- x14

Budget == INSTANCE TokenBudget WITH
  Jobs <- {c1}, Tokens <- {c1}, Handlers <- {c1}, NoJob <- None,
  NoToken <- None, NoHandler <- None, MaxCost <- 2, MaxRequests <- 2,
  Costs <- {1}, MaxInFlight <- 1, MaxFaults <- 2,
  mem <- x1, disk <- x2, up <- x3, call <- x4, revoking <- x5, revoked <- x6,
  drawn <- x7, expired <- x8, used <- x9, overshot <- x10, overshoot <- x11,
  faults <- x12

Analyses == INSTANCE Processor WITH
  Jobs <- {c1}, Uploads <- [j \in {c1} |-> {"replay"}], MaxWorkers <- 1,
  MaxTurns <- 1, MaxFaults <- 1, MaxCrashes <- 1,
  record <- x1, inputs <- x2, cut <- x3, files <- x4, book <- x5,
  events <- x6, removing <- x7, boot <- x8, todo <- x9, request <- x10,
  active <- x11, queue <- x12, run <- x13, unreported <- x14, faults <- x15,
  crashes <- x16

Download == INSTANCE ArtifactDownload WITH
  Artifacts <- 1, Size <- [a \in 1..1 |-> 2], BrokerLimit <- 1,
  WorkerLimit <- 3, MaxAttempts <- 2, MaxFaults <- 2,
  worker <- x1, attempts <- x2, execution <- x3, runs <- x4, stored <- x5,
  handlers <- x6, disk <- x7, parts <- x8, faults <- x9

Health == INSTANCE WorkerHealth WITH
  Heartbeat <- 2, CallLimit <- 2, MinTtl <- 2, MaxTtl <- 30, Landing <- 3,
  Horizon <- 5, MaxFaults <- 1,
  up <- x1, processor <- x2, timer <- x3, loop <- x4, report <- x5,
  posts <- x6, row <- x7, since <- x8, faults <- x9

Plan == INSTANCE PlanVerification WITH
  Jobs <- {c1}, Samples <- {}, Requests <- {c1, c2}, Pages <- {1},
  DraftLimit <- 1, Lease <- 2, MaxFaults <- 1, MaxStalls <- 1,
  status <- x1, token <- x2, age <- x3, file <- x4, plan <- x5, sample <- x6,
  late <- x12, archive <- x7, old <- x8, req <- x9, faults <- x10, stalls <- x11

Lease == INSTANCE PlanVerification WITH
  Jobs <- {c1}, Samples <- {}, Requests <- {c1, c2}, Pages <- {1},
  DraftLimit <- 1, Lease <- 2, MaxFaults <- 1, MaxStalls <- 1,
  status <- x1, token <- x2, age <- x3, file <- x4, plan <- x5, sample <- x6,
  late <- x12, archive <- x7, old <- x8, req <- x9, faults <- x10, stalls <- x11

Pdf == INSTANCE PdfVerification WITH
  MaxPages <- 1,
  pdf <- x1, sample <- x2, pc <- x3, child <- x4, pages <- x5, cut <- x6,
  dir <- x7, troubled <- x8, verdict <- x9

Upload == INSTANCE PlanUpload WITH
  Contents <- {c1, c2}, Large <- {c2}, NoContent <- None, Jobs <- {c1, c2},
  NoJob <- None, Limit <- 2, Credit <- 1, MaxEdits <- 2, MaxFaults <- 1,
  MaxLost <- 0,
  pc <- x1, content <- x2, draft <- x3, uploaded <- x4, quote <- x5,
  told <- x6, job <- x7, reserved <- x8, cron <- x9, edits <- x10,
  faults <- x11, lost <- x12

Abandoned == INSTANCE PlanUpload WITH
  Contents <- {c2}, Large <- {c2}, NoContent <- None, Jobs <- {c1},
  NoJob <- None, Limit <- 2, Credit <- 1, MaxEdits <- 1, MaxFaults <- 2,
  MaxLost <- 0,
  pc <- x1, content <- x2, draft <- x3, uploaded <- x4, quote <- x5,
  told <- x6, job <- x7, reserved <- x8, cron <- x9, edits <- x10,
  faults <- x11, lost <- x12

Retention == INSTANCE ProjectFileRetention WITH
  Jobs <- {c1}, Samples <- {}, Historic <- {}, Runs <- {c1, c2},
  Overrun <- FALSE, Erasures <- TRUE, MaxLate <- 0, MaxLost <- 1,
  MaxFaults <- 1,
  job <- x1, rows <- x2, objects <- x3, archived <- x4, run <- x5,
  late <- x6, lost <- x7, faults <- x8

Consent == INSTANCE MarketingConsent WITH
  Tabs <- {c1}, Ids <- {c1}, NoId <- None, Regions <- {"standard"},
  GoogleRegions <- {"other"}, MaxChoices <- 2, MaxEvents <- 1, MaxViews <- 1,
  Faults <- 1, MaxLeaves <- 1,
  choice <- x1, identity <- x2, created <- x3, gpc <- x4, place <- x5,
  tabs <- x6, calls <- x7, answers <- x8, rows <- x9, used <- x10,
  seen <- x11, left <- x12

Catalog == INSTANCE BillingCatalog WITH
  Packs <- {c1}, Subscriptions <- {}, Versions <- {c1, c2}, Servers <- {c1},
  Orders <- {c3}, NoSku <- None, NoPrice <- None, MaxDeploys <- 3,
  config <- x1, archived <- x2, plan <- x3, sync <- x4, order <- x5,
  due <- x6, granted <- x7, deploys <- x8

Archive == INSTANCE DocumentArchive WITH
  Admins <- {c1, c2}, LateCalls <- TRUE, Losses <- TRUE, MaxTokens <- 2,
  MaxFaults <- 1,
  status <- x1, hold <- x2, requester <- x3, approver <- x4, token <- x5,
  tokens <- x6, expired <- x7, window <- x8, object <- x9, lost <- x10,
  late <- x11, act <- x12, integrity <- x13, alert <- x14, cron <- x15,
  faults <- x16

xs == <<x1, x2, x3, x4, x5, x6, x7, x8, x9, x10, x11, x12, x13, x14, x15, x16>>
vars == <<part, xs>>

Init ==
  \/ /\ part = "broker" /\ Broker!Init
     /\ x15 = 0 /\ x16 = 0
  \/ /\ part = "budget" /\ Budget!Init
     /\ x13 = 0 /\ x14 = 0 /\ x15 = 0 /\ x16 = 0
  \/ /\ part = "processor" /\ Analyses!Init
  \/ /\ part = "download" /\ Download!Init
     /\ x10 = 0 /\ x11 = 0 /\ x12 = 0 /\ x13 = 0 /\ x14 = 0 /\ x15 = 0
     /\ x16 = 0
  \/ /\ part = "health" /\ Health!Init
     /\ x10 = 0 /\ x11 = 0 /\ x12 = 0 /\ x13 = 0 /\ x14 = 0 /\ x15 = 0
     /\ x16 = 0
  \/ /\ part = "plan" /\ Plan!Init
     /\ x13 = 0 /\ x14 = 0 /\ x15 = 0 /\ x16 = 0
  \/ /\ part = "lease" /\ Lease!Init
     /\ x13 = 0 /\ x14 = 0 /\ x15 = 0 /\ x16 = 0
  \/ /\ part = "pdf" /\ Pdf!Init
     /\ x10 = 0 /\ x11 = 0 /\ x12 = 0 /\ x13 = 0 /\ x14 = 0 /\ x15 = 0
     /\ x16 = 0
  \/ /\ part = "upload" /\ Upload!Init
     /\ x13 = 0 /\ x14 = 0 /\ x15 = 0 /\ x16 = 0
  \/ /\ part = "abandoned" /\ Abandoned!Init
     /\ x13 = 0 /\ x14 = 0 /\ x15 = 0 /\ x16 = 0
  \/ /\ part = "retention" /\ Retention!Init
     /\ x9 = 0 /\ x10 = 0 /\ x11 = 0 /\ x12 = 0 /\ x13 = 0 /\ x14 = 0
     /\ x15 = 0 /\ x16 = 0
  \/ /\ part = "consent" /\ Consent!Init
     /\ x13 = 0 /\ x14 = 0 /\ x15 = 0 /\ x16 = 0
  \/ /\ part = "catalog" /\ Catalog!Init
     /\ x9 = 0 /\ x10 = 0 /\ x11 = 0 /\ x12 = 0 /\ x13 = 0 /\ x14 = 0
     /\ x15 = 0 /\ x16 = 0
  \/ /\ part = "archive" /\ Archive!Init

Next ==
  \/ /\ part = "broker" /\ Broker!Next
     /\ UNCHANGED <<part, x15, x16>>
  \/ /\ part = "budget" /\ Budget!Next
     /\ UNCHANGED <<part, x13, x14, x15, x16>>
  \/ /\ part = "processor" /\ Analyses!Next
     /\ UNCHANGED <<part>>
  \/ /\ part = "download" /\ Download!Next
     /\ UNCHANGED <<part, x10, x11, x12, x13, x14, x15, x16>>
  \/ /\ part = "health" /\ Health!Next
     /\ UNCHANGED <<part, x10, x11, x12, x13, x14, x15, x16>>
  \/ /\ part = "plan" /\ Plan!Next
     /\ UNCHANGED <<part, x13, x14, x15, x16>>
  \/ /\ part = "lease" /\ Lease!Next
     /\ UNCHANGED <<part, x13, x14, x15, x16>>
  \/ /\ part = "pdf" /\ Pdf!Next
     /\ UNCHANGED <<part, x10, x11, x12, x13, x14, x15, x16>>
  \/ /\ part = "upload" /\ Upload!Next
     /\ UNCHANGED <<part, x13, x14, x15, x16>>
  \/ /\ part = "abandoned" /\ Abandoned!Next
     /\ UNCHANGED <<part, x13, x14, x15, x16>>
  \/ /\ part = "retention" /\ Retention!Next
     /\ UNCHANGED <<part, x9, x10, x11, x12, x13, x14, x15, x16>>
  \/ /\ part = "consent" /\ Consent!Next
     /\ UNCHANGED <<part, x13, x14, x15, x16>>
  \/ /\ part = "catalog" /\ Catalog!Next
     /\ UNCHANGED <<part, x9, x10, x11, x12, x13, x14, x15, x16>>
  \/ /\ part = "archive" /\ Archive!Next
     /\ UNCHANGED <<part>>

Fairness ==
  \* The timer fires, awaits resolve, systemd restarts the container of the
  \* broker, and time passes. Nobody has to call; the cleanup of an execution
  \* is tried again at every sweep.
  /\ WF_(Broker!vars)(part = "broker" /\ Broker!Handler(c1))
  /\ WF_(Broker!vars)(part = "broker" /\ Broker!Section)
  /\ WF_(Broker!vars)(part = "broker" /\ Broker!Startup)
  /\ WF_(Broker!vars)(part = "broker" /\ Broker!SweepExpired)
  /\ WF_(Broker!vars)(part = "broker" /\ Broker!SweepUnhealthy)
  /\ SF_(Broker!vars)(part = "broker" /\ Broker!CleanNext(c1))
  /\ WF_(Broker!vars)(part = "broker" /\ Broker!Expire(c1))
  /\ WF_(Broker!vars)(part = "broker" /\ Broker!TokenExpires(c1))
  \* Calls have deadlines, writes end, a client reads or leaves, tokens
  \* expire, the purge timer fires and systemd restarts the proxy.
  /\ SF_(Budget!vars)(part = "budget" /\ Budget!Handler(c1))
  /\ WF_(Budget!vars)(part = "budget" /\ Budget!EndCall(c1))
  /\ WF_(Budget!vars)(part = "budget" /\ Budget!Expire(c1))
  /\ WF_(Budget!vars)(part = "budget" /\ Budget!PurgeExpired)
  /\ WF_(Budget!vars)(part = "budget" /\ Budget!Restart)
  \* Threads run; Codex ends or is killed at its timeout; the process is
  \* started again and its start-up goes on.
  /\ WF_(Analyses!vars)(part = "processor" /\ Analyses!Work(c1))
  /\ WF_(Analyses!vars)(part = "processor" /\ Analyses!Recover(c1))
  /\ WF_(Analyses!vars)(part = "processor" /\ Analyses!Dequeue)
  /\ WF_(Analyses!vars)(part = "processor" /\ Analyses!Stop)
  /\ WF_(Analyses!vars)(part = "processor" /\ Analyses!Boot)
  /\ WF_(Analyses!vars)(part = "processor" /\ Analyses!ListPending)
  /\ WF_(Analyses!vars)(part = "processor" /\ Analyses!Serve)
  \* The worker goes on, and the broker proxies, or its timer ends what it
  \* proxies; the timer of the worker is not needed.
  /\ WF_(Download!vars)(part = "download" /\ Download!Step)
  /\ \A r \in Download!Requests : WF_(Download!vars)(part = "download" /\ Download!Proxy(r))
  \* Timers, answers and time itself go on; the process is restarted and the
  \* processor comes back.
  /\ WF_(Health!vars)(part = "health" /\ Health!Start)
  /\ WF_(Health!vars)(part = "health" /\ Health!Fire)
  /\ WF_(Health!vars)(part = "health" /\ Health!Probe)
  /\ WF_(Health!vars)(part = "health" /\ Health!GivesUp)
  /\ WF_(Health!vars)(part = "health" /\ Health!SomeAnswer)
  /\ WF_(Health!vars)(part = "health" /\ Health!StaleIsLost)
  /\ WF_(Health!vars)(part = "health" /\ Health!ProcessorRecovers)
  /\ WF_(Health!vars)(part = "health" /\ Health!Tick)
  (* Requests run to their end, time passes, and the cron runs. *)
  /\ WF_(Plan!vars)(part = "plan" /\ Plan!Tick)
  /\ \A x \in {c1, c2} : WF_(Plan!vars)(part = "plan" /\ Plan!Step(x))
  /\ WF_(Plan!vars)(part = "plan" /\ Plan!Expire(c1))
  /\ WF_(Plan!vars)(part = "plan" /\ Plan!GrowOld(c1))
  (* The same without the cron: leases must not need it. *)
  /\ WF_(Lease!vars)(part = "lease" /\ Lease!Tick)
  /\ \A x \in {c1, c2} : WF_(Lease!vars)(part = "lease" /\ Lease!Step(x))
  \* The parent goes on and its timer fires; nothing is assumed of the child.
  /\ WF_(Pdf!vars)(part = "pdf" /\ Pdf!Parent)
  /\ WF_(Pdf!vars)(part = "pdf" /\ Pdf!WallTimeout)
  \* The customer submits a form again whose quote did not come; an upload
  \* goes on while the form waits for it.
  /\ WF_(Upload!vars)(part = "upload" /\ Upload!Resubmit)
  /\ WF_(Upload!vars)(part = "upload" /\ Upload!CreateDraft)
  /\ WF_(Upload!vars)(part = "upload" /\ Upload!SendPlan)
  /\ WF_(Upload!vars)(part = "upload" /\ Upload!GetQuote)
  /\ WF_(Upload!vars)(part = "upload" /\ Upload!ReserveAndStart)
  (* The cron job runs; nobody else has to do anything. *)
  /\ WF_(Abandoned!vars)(part = "abandoned" /\ Abandoned!CronGoes)
  (* The timer starts a run every day, and a lease ends. *)
  /\ \A x \in {c1, c2} : WF_(Retention!vars)(part = "retention" /\ Retention!Cleanup(x))
  /\ \A x \in {c1, c2} : WF_(Retention!vars)(part = "retention" /\ Retention!Expire(x))
  (* A browser runs what it has queued, and a call is answered or fails. *)
  /\ WF_(Consent!vars)(part = "consent" /\ Consent!Step(c1))
  /\ WF_(Consent!vars)(part = "consent" /\ Consent!RegionComes(c1))
  /\ WF_(Consent!vars)(part = "consent" /\ Consent!SomeServed)
  /\ WF_(Consent!vars)(part = "consent" /\ Consent!SomeComes)
  (* Stripe delivers an event again until a server has answered it. *)
  /\ \A x \in Catalog!Payments : WF_(Catalog!vars)(part = "catalog" /\ Catalog!Creditable(x))
  (* The check runs every day. *)
  /\ WF_(Archive!vars)(part = "archive" /\ Archive!Check)

Spec == Init /\ [][Next]_vars /\ Fairness

ASSUME Broker!BrokerAssumption
ASSUME Budget!BudgetAssumption
ASSUME Analyses!ProcessorAssumption
ASSUME Download!DownloadAssumption
ASSUME Health!TicksAssumption
ASSUME Plan!VerificationAssumption
ASSUME Lease!VerificationAssumption
ASSUME Pdf!PdfAssumption
ASSUME Upload!UploadAssumption
ASSUME Abandoned!UploadAssumption
ASSUME Retention!RetentionAssumption
ASSUME Consent!ConsentAssumption
ASSUME Catalog!CatalogAssumption
ASSUME Archive!DocumentArchiveAssumption
-----------------------------------------------------------------------------

\* Everything that was made for an execution is taken away in the end, the
\* token of a lost registration included: a slot is never lost for good.
Reclaimed ==
  (part = "broker" /\ Broker!Occupied(c1)) ~> (part = "broker" /\ Broker!Freed(c1))

\* A handler answers, whatever the lock, the sweeps and the faults do.
HandlersAnswer ==
  (part = "broker" /\ Broker!Waiting(c1))
    ~> (part = "broker" /\ ~Broker!Waiting(c1))

\* Every reservation is settled in the end, whoever lost track of it.
ReservationsEnd ==
  (part = "budget" /\ Budget!HasReservation(c1))
    ~> (part = "budget" /\ ~Budget!HasReservation(c1))

\* A job whose creation was answered ends, or is removed, or the disk refused
\* the report of its end.
AnsweredJobEnds ==
  (part = "processor" /\ Analyses!Promised(c1)) ~> (part = "processor" /\ Analyses!Ended(c1))

\* The worker ends its attempt and waits for the next takeoff again, whatever
\* the processor and the broker do with its requests (runTakeoff: every wait
\* has a limit).
AttemptEnds ==
  (part = "download" /\ Download!Attempting) ~> (part = "download" /\ ~Download!Attempting)

\* The requests that the broker proxies end, also when their worker is gone.
ProxiesEnd ==
  (part = "download" /\ Download!Proxying) ~> (part = "download" /\ ~Download!Proxying)

\* Once the faults end the launch checklist is ready again, and again.
BecomesReady == (part = "health") ~> (part = "health" /\ Health!Ready)

\* ... and the rows no longer lapse between two reports: a report skipped
\* because one was being made, and the two waits of each, fit in the life of
\* the last one.
NeverLapses == <>[](part = "health" => ~Health!Lapsed)

\* A verification that was cut off does not keep the lease: it ends, whether
\* or not the cron comes.
LeaseEnds ==
  (part = "lease" /\ Lease!Active(c1)) ~> (part = "lease" /\ ~Lease!Active(c1))

\* Every draft ends, queued or canceled: its place returns to the customer.
DraftsEnd ==
  (part = "plan" /\ c1 \in Plan!Outstanding)
    ~> (part = "plan" /\ c1 \notin Plan!Outstanding)

\* A verification ends, whatever its child does.
InspectionEnds == (part = "pdf") ~> (part = "pdf" /\ Pdf!Ended)

\* A form whose answers arrive gets its quote, whatever requests failed and
\* uploads were canceled: the next submission goes on where the last one
\* stopped, while its draft lives.
QuoteComes ==
  (part = "upload" /\ Upload!Filled) ~> (part = "upload" /\ Upload!Quoted)

\* The upload of an abandoned draft is removed.
AbandonedIsRemoved ==
  (part = "abandoned" /\ Abandoned!Abandoned(c1))
    ~> (part = "abandoned" /\ Abandoned!Removed(c1))

\* The files of a takeoff that is past its days are purged, unless a file
\* came in.
FilesArePurged ==
  (part = "retention" /\ Retention!Overdue(c1)) ~> (part = "retention" /\ Retention!Purged(c1))

\* A refusal is carried out: the identifier goes, or the visitor grants
\* again, or has left.
DenialForgets ==
  (part = "consent" /\ Consent!Denied) ~> (part = "consent" /\ Consent!Forgotten)

\* A payment that comes to fit the catalog, and stays so, is credited,
\* however often it was refused before.
CreditedOnceItFits ==
  \A x \in Catalog!Payments : (part = "catalog" /\ Catalog!Owed(x)) ~> (part = "catalog" /\ Catalog!Credited(x))

\* A plan that is missing while nobody removes it becomes an alert.
LossIsTold ==
  (part = "archive" /\ Archive!Lost) ~> (part = "archive" /\ Archive!Told)

\* Every wait ends: handlers of the broker answer, reservations are settled,
\* attempts and what is proxied for them end, an analysis whose creation was
\* answered ends, an inspection ends, a form gets its quote, and the launch
\* checklist becomes ready again.
WorkEnds ==
  /\ HandlersAnswer
  /\ ReservationsEnd
  /\ AnsweredJobEnds
  /\ AttemptEnds
  /\ ProxiesEnd
  /\ BecomesReady
  /\ NeverLapses
  /\ InspectionEnds
  /\ QuoteComes
  /\ CreditedOnceItFits

\* What is held is given back: everything made for an execution is taken
\* away, leases and drafts end, abandoned uploads and overdue files are
\* removed, a refusal of consent is carried out, and a plan that was lost is
\* told.
CleanupsHappen ==
  /\ Reclaimed
  /\ LeaseEnds
  /\ DraftsEnd
  /\ AbandonedIsRemoved
  /\ FilesArePurged
  /\ DenialForgets
  /\ LossIsTold
=============================================================================
