------------------------------ MODULE Processor ------------------------------
(***************************************************************************)
(* The takeoff processor: jobs accepted over HTTP, kept as directories on   *)
(* disk, run by a pool of threads (services/takeoff/app/main.py, store.py,  *)
(* pipeline.py, codex_runner.py).  The disk survives a crash, the queue and *)
(* the set of active jobs do not; what a restart makes of the jobs it finds *)
(* is decided by recover_pending.                                           *)
(*                                                                          *)
(* A record is written to a temporary file and renamed, so it is read whole *)
(* or not at all; uploads and rmtree are not, and may be cut.  Messages,    *)
(* stages, progress and metrics of the record are left out.                 *)
(***************************************************************************)
EXTENDS Naturals, Sequences, FiniteSets

CONSTANTS
  Jobs,        \* the job ids that clients obtain
  Uploads,     \* the optional files of each job: "template", "replay", "workbook"
  MaxWorkers,  \* settings.max_workers
  MaxTurns,    \* completed turns of one Codex run
  MaxFaults,   \* failed accesses to the disk that lose a report
  MaxCrashes,  \* times that the process is killed
  None

Artifacts == {"takeoff", "methodology", "annotated", "audit", "workbook"}

Records ==
  [status : {"queued", "running", "completed", "failed"}, usage : Nat \cup {None},
   artifacts : SUBSET Artifacts, code : {"processing_failed", "processor_restarted", None}]

\* Where a workbook comes from
Books == {"uploaded", "canonical", "codex"}

ProcessorAssumption ==
  /\ Uploads \in [Jobs -> SUBSET {"template", "replay", "workbook"}]
  \* main.py refuses a workbook_result without takeoff_json
  /\ \A j \in Jobs : "workbook" \in Uploads[j] => "replay" \in Uploads[j]
  /\ MaxWorkers \in Nat \ {0} /\ {MaxTurns, MaxFaults, MaxCrashes} \subseteq Nat
  /\ None \notin Nat /\ None \notin Records /\ None \notin Books

VARIABLES
  record,      \* job.json of a job, None when it has none
  inputs,      \* the files of a job's inputs directory
  cut,         \* jobs whose last input file is not (yet) whole
  files,       \* the files of a job's artifacts directory
  book,        \* where its workbook comes from
  events,      \* completed turns in codex-events.jsonl
  removing,    \* jobs whose directory was only partly removed
  boot,        \* phase of the process
  todo,        \* records that recover_pending has still to look at
  request,     \* the create request of a job
  active,      \* PipelineManager._active
  queue,       \* jobs waiting for a thread
  run,         \* the run of a job
  unreported,  \* jobs whose end could not be written since the last boot
  faults, crashes

disk == <<record, inputs, cut, files, book, events, removing>>
memory == <<todo, request, active, queue, run, unreported>>
vars == <<disk, boot, memory, faults, crashes>>

Steps == {"none", "start", "copy", "index", "codex", "validate", "annotate",
          "finish", "diagnose", "report", "done"}

IdleRun == [at |-> "none", replay |-> FALSE, book |-> FALSE, usage |-> None]

Init ==
  /\ record = [j \in Jobs |-> None] /\ inputs = [j \in Jobs |-> {}]
  /\ files = [j \in Jobs |-> {}] /\ book = [j \in Jobs |-> None]
  /\ events = [j \in Jobs |-> 0] /\ cut = {} /\ removing = {}
  /\ boot = "down" /\ todo = {} /\ request = [j \in Jobs |-> "none"]
  /\ active = {} /\ queue = <<>> /\ run = [j \in Jobs |-> IdleRun]
  /\ unreported = {} /\ faults = 0 /\ crashes = 0

Exists(j) == record[j] # None
HasStatus(j, statuses) == Exists(j) /\ record[j].status \in statuses
Terminal(j) == HasStatus(j, {"completed", "failed"})
Open(j) == HasStatus(j, {"queued", "running"})

\* collect_codex_usage finds nothing to report when no turn was completed
UsageFromEvents(j) == IF events[j] = 0 THEN None ELSE events[j]

Save(j, changes) == record' = [record EXCEPT ![j] = changes]

Wipe(j) ==
  /\ record' = [record EXCEPT ![j] = None] /\ inputs' = [inputs EXCEPT ![j] = {}]
  /\ files' = [files EXCEPT ![j] = {}] /\ book' = [book EXCEPT ![j] = None]
  /\ events' = [events EXCEPT ![j] = 0]
  /\ cut' = cut \ {j} /\ removing' = removing \ {j}

-----------------------------------------------------------------------------
(* POST /v1/jobs                                                            *)

\* The directories and the record, before any file is read.
Create(j) ==
  /\ boot = "up" /\ request[j] = "none"
  /\ Save(j, [status |-> "queued", usage |-> None, artifacts |-> {}, code |-> None])
  /\ request' = [request EXCEPT ![j] = "saving"]
  /\ UNCHANGED <<inputs, cut, files, book, events, removing, boot, todo, active,
                 queue, run, unreported, faults, crashes>>

Expected(j) == {"drawings"} \cup Uploads[j]

\* The order of the uploads in create_job.
NextUpload(j) ==
  CHOOSE f \in Expected(j) \ inputs[j] :
    LET Before(g) == CASE g = "drawings" -> 0 [] g = "template" -> 1
                       [] g = "replay" -> 2 [] g = "workbook" -> 3
    IN \A g \in Expected(j) \ inputs[j] : Before(f) <= Before(g)

\* save_upload opens the file, writes it chunk by chunk, and closes it.
OpenUpload(j) ==
  /\ request[j] = "saving" /\ j \notin cut /\ Expected(j) \ inputs[j] # {}
  /\ inputs' = [inputs EXCEPT ![j] = @ \cup {NextUpload(j)}]
  /\ cut' = cut \cup {j}
  /\ UNCHANGED <<record, files, book, events, removing, boot, memory, faults, crashes>>

CloseUpload(j) ==
  /\ request[j] = "saving" /\ j \in cut
  /\ cut' = cut \ {j}
  /\ UNCHANGED <<record, inputs, files, book, events, removing, boot, memory, faults, crashes>>

\* A file that is too large, empty or of another type: the directory is removed,
\* or, errors being ignored, left where it is.
Reject(j) ==
  /\ request[j] = "saving"
  /\ request' = [request EXCEPT ![j] = "refused"]
  /\ \/ Wipe(j) /\ UNCHANGED <<faults, unreported>>
     \/ /\ faults < MaxFaults /\ faults' = faults + 1
        /\ unreported' = unreported \cup {j}
        /\ UNCHANGED disk
  /\ UNCHANGED <<boot, todo, active, queue, run, crashes>>

\* PipelineManager.submit of a job that is not active.
Enqueue(j, replay, withBook) ==
  /\ active' = active \cup {j}
  /\ queue' = Append(queue, j)
  /\ run' = [run EXCEPT ![j] = [IdleRun EXCEPT !.replay = replay, !.book = withBook]]

\* All files are in: their hashes are recorded, the job is submitted and answered.
Submit(j) ==
  /\ request[j] = "saving" /\ j \notin cut /\ inputs[j] = Expected(j)
  /\ j \notin active
  /\ Enqueue(j, "replay" \in inputs[j], "workbook" \in inputs[j])
  /\ request' = [request EXCEPT ![j] = "answered"]
  /\ UNCHANGED <<disk, boot, todo, unreported, faults, crashes>>

-----------------------------------------------------------------------------
(* PipelineManager._run on a thread of the pool                             *)

Goto(j, at) == run' = [run EXCEPT ![j].at = at]
Keeps == UNCHANGED <<boot, todo, request, crashes>>
Running == {j \in Jobs : run[j].at # "none"}

Dequeue ==
  /\ boot # "down" /\ queue # <<>> /\ Cardinality(Running) < MaxWorkers
  /\ Goto(Head(queue), "start")
  /\ queue' = Tail(queue)
  /\ UNCHANGED <<disk, active, unreported, faults>> /\ Keeps

Start(j) ==
  /\ run[j].at = "start"
  /\ Save(j, [record[j] EXCEPT !.status = "running", !.usage = None])
  /\ Goto(j, IF run[j].replay THEN "copy" ELSE "index")
  /\ UNCHANGED <<inputs, cut, files, book, events, removing, active, queue, unreported, faults>>
  /\ Keeps

\* The uploaded takeoff and workbook stand in for the analysis.
CopyReplay(j) ==
  /\ run[j].at = "copy" /\ j \notin cut
  /\ files' = [files EXCEPT ![j] = @ \cup {"takeoff", "methodology"}
                                      \cup (IF run[j].book THEN {"workbook"} ELSE {})]
  /\ book' = [book EXCEPT ![j] = IF run[j].book THEN "uploaded" ELSE @]
  /\ Goto(j, "validate")
  /\ UNCHANGED <<record, inputs, cut, events, removing, active, queue, unreported, faults>>
  /\ Keeps

PrepareIndex(j) ==
  /\ run[j].at = "index" /\ j \notin cut
  /\ Goto(j, "codex")
  /\ UNCHANGED <<disk, active, queue, unreported, faults>> /\ Keeps

Turn(j) ==
  /\ run[j].at = "codex" /\ events[j] < MaxTurns
  /\ events' = [events EXCEPT ![j] = @ + 1]
  /\ UNCHANGED <<record, inputs, cut, files, book, removing, active, queue, run, unreported, faults>>
  /\ Keeps

\* Codex exits with 0 and says "completed"; what it wrote is checked afterwards.
CodexEnds(j) ==
  /\ run[j].at = "codex"
  /\ \E made \in SUBSET {"takeoff", "methodology", "workbook"} :
       /\ files' = [files EXCEPT ![j] = @ \cup made]
       /\ book' = [book EXCEPT ![j] = IF "workbook" \in made THEN "codex" ELSE @]
  /\ run' = [run EXCEPT ![j].at = "validate", ![j].usage = UsageFromEvents(j)]
  /\ UNCHANGED <<record, inputs, cut, events, removing, active, queue, unreported, faults>>
  /\ Keeps

CanonicalAlways(j) == ~run[j].book
Canonical(j) == "template" \notin inputs[j] /\ ~run[j].book

\* The workbook is rebuilt from the takeoff unless it fills a template or was
\* uploaded; an analysis without one is refused, a replay without one is not.
Validate(j) ==
  /\ run[j].at = "validate"
  /\ {"takeoff", "methodology"} \subseteq files[j]
  /\ Canonical(j) \/ run[j].replay \/ "workbook" \in files[j]
  /\ files' = [files EXCEPT ![j] = @ \cup (IF Canonical(j) THEN {"workbook"} ELSE {})]
  /\ book' = [book EXCEPT ![j] = IF Canonical(j) THEN "canonical" ELSE @]
  /\ Goto(j, "annotate")
  /\ UNCHANGED <<record, inputs, cut, events, removing, active, queue, unreported, faults>>
  /\ Keeps

Annotate(j) ==
  /\ run[j].at = "annotate"
  /\ files' = [files EXCEPT ![j] = @ \cup {"annotated", "audit"}]
  /\ Goto(j, "finish")
  /\ UNCHANGED <<record, inputs, cut, book, events, removing, active, queue, unreported, faults>>
  /\ Keeps

\* The workbook is listed when the directory has one.
Finish(j) ==
  /\ run[j].at = "finish"
  /\ Save(j, [status |-> "completed", artifacts |-> files[j], code |-> None,
              usage |-> IF run[j].replay THEN None ELSE run[j].usage])
  /\ Goto(j, "done")
  /\ UNCHANGED <<inputs, cut, files, book, events, removing, active, queue, unreported, faults>>
  /\ Keeps

\* Any exception: a check that fails, a timeout of Codex, an update not written.
Raise(j) ==
  /\ run[j].at \in {"start", "copy", "index", "codex", "validate", "annotate", "finish"}
  /\ Goto(j, "diagnose")
  /\ UNCHANGED <<disk, active, queue, unreported, faults>> /\ Keeps

Diagnose(j) ==
  /\ run[j].at = "diagnose"
  /\ Goto(j, "report")
  /\ UNCHANGED <<disk, active, queue, unreported, faults>> /\ Keeps

ReportFailure(j) ==
  /\ run[j].at = "report"
  /\ Save(j, [record[j] EXCEPT
                !.status = "failed", !.code = "processing_failed",
                !.usage = IF ~run[j].replay /\ run[j].usage = None
                          THEN UsageFromEvents(j) ELSE run[j].usage])
  /\ Goto(j, "done")
  /\ UNCHANGED <<inputs, cut, files, book, events, removing, active, queue, unreported, faults>>
  /\ Keeps

\* The handler itself fails: the exception ends in the future, which nobody reads.
LoseReport(j) ==
  /\ run[j].at \in {"diagnose", "report"} /\ faults < MaxFaults
  /\ faults' = faults + 1
  /\ unreported' = unreported \cup {j}
  /\ Goto(j, "done")
  /\ UNCHANGED <<disk, active, queue>> /\ Keeps

\* A done callback that leaves the job in the set of active jobs.
DiscardRunOnly(j) ==
  /\ run[j].at = "done"
  /\ run' = [run EXCEPT ![j] = IdleRun]
  /\ UNCHANGED <<disk, active, queue, unreported, faults>> /\ Keeps

\* The done callback of the future.
Discard(j) ==
  /\ run[j].at = "done"
  /\ active' = active \ {j}
  /\ run' = [run EXCEPT ![j] = IdleRun]
  /\ UNCHANGED <<disk, queue, unreported, faults>> /\ Keeps

-----------------------------------------------------------------------------
(* Start and end of the process; removal of jobs                            *)

Forget ==
  /\ boot' = "down" /\ todo' = {} /\ active' = {} /\ queue' = <<>>
  /\ run' = [j \in Jobs |-> IdleRun] /\ unreported' = {}
  /\ request' = [j \in Jobs |-> IF request[j] = "saving" THEN "refused" ELSE request[j]]

Crash ==
  /\ boot # "down" /\ crashes < MaxCrashes
  /\ crashes' = crashes + 1
  /\ Forget
  /\ UNCHANGED <<disk, faults>>

\* An exception of the lifespan ends the process once its threads are idle.
Stop ==
  /\ boot = "stopping" /\ queue = <<>> /\ Running = {}
  /\ Forget
  /\ UNCHANGED <<disk, faults, crashes>>

Boot ==
  /\ boot = "down" /\ boot' = "cleanup"
  /\ UNCHANGED <<disk, memory, faults, crashes>>

\* rmtree is done, or fails with part of the directory gone and the record left.
Remove(j, failed) ==
  \/ Wipe(j) /\ boot' = boot /\ UNCHANGED faults
  \/ /\ faults < MaxFaults /\ faults' = faults + 1
     /\ files' = [files EXCEPT ![j] = {}] /\ removing' = removing \cup {j}
     /\ boot' = failed
     /\ UNCHANGED <<record, inputs, cut, book, events>>

\* cleanup_expired: any terminal job may have outlived the retention days.
CleanupExpired(j) ==
  /\ boot = "cleanup" /\ Terminal(j)
  /\ Remove(j, "stopping")
  /\ UNCHANGED <<memory, crashes>>

\* Recoveries that list every record, or only those that never started.
PendingAnyStatus == {j \in Jobs : Exists(j)}
PendingQueued == {j \in Jobs : HasStatus(j, {"queued"})}
Pending == {j \in Jobs : Open(j)}

ListPending ==
  /\ boot = "cleanup"
  /\ boot' = "recover" /\ todo' = Pending
  /\ UNCHANGED <<disk, request, active, queue, run, unreported, faults, crashes>>

\* Recoveries that forget the uploaded workbook, to submit the job, or the usage.
RecoverReplayBare(j) ==
  /\ Save(j, [record[j] EXCEPT !.status = "queued", !.code = None])
  /\ Enqueue(j, TRUE, FALSE)

RecoverReplayUnsubmitted(j) ==
  /\ Save(j, [record[j] EXCEPT !.status = "queued", !.code = None])
  /\ UNCHANGED <<active, queue, run>>

RecoverReplay(j) ==
  /\ Save(j, [record[j] EXCEPT !.status = "queued", !.code = None])
  /\ Enqueue(j, TRUE, "workbook" \in inputs[j])

FailInterruptedBare(j) ==
  /\ Save(j, [record[j] EXCEPT !.status = "failed", !.code = "processor_restarted"])
  /\ UNCHANGED <<active, queue, run>>

FailInterrupted(j) ==
  /\ Save(j, [record[j] EXCEPT
                !.status = "failed", !.code = "processor_restarted",
                !.usage = IF @ # None THEN @ ELSE UsageFromEvents(j)])
  /\ UNCHANGED <<active, queue, run>>

Recover(j) ==
  /\ boot = "recover" /\ j \in todo
  /\ todo' = todo \ {j}
  /\ IF "replay" \in inputs[j] THEN RecoverReplay(j) ELSE FailInterrupted(j)
  /\ UNCHANGED <<inputs, cut, files, book, events, removing, boot, request, unreported, faults, crashes>>

RecoverFails ==
  /\ boot = "recover" /\ todo # {} /\ faults < MaxFaults
  /\ faults' = faults + 1 /\ boot' = "stopping"
  /\ UNCHANGED <<disk, memory, crashes>>

Serve ==
  /\ boot = "recover" /\ todo = {}
  /\ boot' = "up"
  /\ UNCHANGED <<disk, memory, faults, crashes>>

\* DELETE /v1/jobs/{id}
Delete(j) ==
  /\ boot = "up" /\ Terminal(j) /\ j \notin active
  /\ Remove(j, boot)
  /\ UNCHANGED <<memory, crashes>>

\* GET /v1/jobs/{id}/artifacts/{filename}
GetArtifact(j, name) ==
  IF ~Exists(j) \/ name \notin record[j].artifacts THEN 404
  ELSE IF name \notin files[j] THEN 410 ELSE 200

-----------------------------------------------------------------------------
Work(j) ==
  \/ Start(j) \/ CopyReplay(j) \/ PrepareIndex(j) \/ CodexEnds(j) \/ Validate(j)
  \/ Annotate(j) \/ Finish(j) \/ Raise(j) \/ Diagnose(j) \/ ReportFailure(j)
  \/ LoseReport(j) \/ Discard(j)

Next ==
  \/ \E j \in Jobs :
       \/ Create(j) \/ OpenUpload(j) \/ CloseUpload(j) \/ Reject(j) \/ Submit(j)
       \/ Work(j) \/ Turn(j)
       \/ CleanupExpired(j) \/ Recover(j) \/ Delete(j)
  \/ Dequeue \/ Crash \/ Stop \/ Boot \/ ListPending \/ RecoverFails \/ Serve

Spec == Init /\ [][Next]_vars

-----------------------------------------------------------------------------
\* A record, its files and the run of a job have their shape, at most MaxWorkers
\* runs are on threads, and every queued or running job is active.
TypeOK ==
  /\ \A j \in Jobs :
       /\ record[j] = None \/
          /\ record[j].status \in {"queued", "running", "completed", "failed"}
          /\ record[j].usage \in 0..MaxTurns \cup {None}
          /\ record[j].artifacts \subseteq Artifacts
       /\ inputs[j] \subseteq Expected(j) /\ files[j] \subseteq Artifacts
       /\ book[j] \in {"uploaded", "canonical", "codex", None}
       /\ events[j] \in 0..MaxTurns
       /\ request[j] \in {"none", "saving", "answered", "refused"}
       /\ run[j].at \in Steps /\ run[j].usage \in 0..MaxTurns \cup {None}
  /\ cut \cup removing \cup todo \cup unreported \subseteq Jobs
  /\ boot \in {"down", "cleanup", "recover", "up", "stopping"}
  /\ Cardinality(Running) <= MaxWorkers
  /\ active = Running \cup {queue[i] : i \in 1..Len(queue)}

\* While the service answers, a job that its record calls queued or running is
\* being received, is active, or could not be reported since the last boot: no
\* restart leaves a job behind (recover_pending).
NobodyIsForgotten ==
  boot = "up" => \A j \in Jobs :
    Open(j) => request[j] = "saving" \/ j \in active \/ j \in unreported

Workbook(j) ==
  IF "workbook" \in Uploads[j] THEN "uploaded"
  ELSE IF "template" \notin Uploads[j] THEN "canonical"
  ELSE IF "replay" \in Uploads[j] THEN None ELSE "codex"

\* A completed job that a client was told of was built from all the files of its
\* request, however often it was interrupted, and every artifact of its record is
\* served, unless the directory is partly removed (_run, recover_pending,
\* get_artifact).
CompletedIsWhole ==
  \A j \in Jobs :
    HasStatus(j, {"completed"}) /\ request[j] = "answered" /\ j \notin removing =>
      /\ book[j] = Workbook(j)
      /\ record[j].artifacts =
           Artifacts \ (IF book[j] = None THEN {"workbook"} ELSE {})
      /\ \A name \in record[j].artifacts : GetArtifact(j, name) = 200

\* The record of an analysis that ended in any way, a restart included, carries the
\* usage of the turns that were paid for (ProcessorUsage, _usage_from_events).
PaidTurnsAreReported ==
  \A j \in Jobs :
    Terminal(j) /\ "replay" \notin inputs[j] => record[j].usage = UsageFromEvents(j)

\* What a job ended with is never rewritten; the record can only be removed.
EndIsFinal == \A j \in Jobs : Terminal(j) => record'[j] \in {record[j], None}

\* A job whose creation was answered, and the end of it that somebody sees: unless the
\* disk refused the report of it.
Promised(j) == request[j] = "answered" /\ Open(j)
Ended(j) == ~Open(j) \/ j \in unreported
-----------------------------------------------------------------------------
(* Why they hold: an inductive invariant, job by job *)

Runs == [at : Steps, replay : BOOLEAN, book : BOOLEAN, usage : Nat \cup {None}]

Shaped ==
  /\ record \in [Jobs -> Records \cup {None}] /\ run \in [Jobs -> Runs]
  /\ inputs \in [Jobs -> SUBSET {"drawings", "template", "replay", "workbook"}]
  /\ files \in [Jobs -> SUBSET Artifacts] /\ book \in [Jobs -> Books \cup {None}]
  /\ events \in [Jobs -> Nat] /\ request \in [Jobs -> {"none", "saving", "answered", "refused"}]
  /\ queue \in Seq(Jobs)

\* No job waits for a thread twice, nothing is active before the recovery, and the recovery is
\* over when requests are served.
Booted ==
  /\ \A i, k \in DOMAIN queue : queue[i] = queue[k] => i = k
  /\ boot \in {"down", "cleanup"} => active = {}
  /\ boot = "up" => todo = {}

Blank(j) == files[j] = {} /\ book[j] = None /\ events[j] = 0 /\ j \notin removing

\* What the state of its request says of a job.
Requested(j) ==
  /\ request[j] = "none" => record[j] = None /\ inputs[j] = {} /\ Blank(j)
  /\ request[j] = "saving" => boot = "up" /\ Open(j) /\ Blank(j)
  /\ request[j] = "answered" /\ Exists(j) => inputs[j] = Expected(j)
  /\ j \in active => Exists(j) /\ request[j] \in {"answered", "refused"} /\ j \notin todo
  /\ j \in todo => Open(j)
  /\ j \in removing => Terminal(j)

Queued(j) == \E i \in DOMAIN queue : queue[i] = j

\* Only active jobs wait or run, and they run until their record has its end, unless that could
\* not be written.
Placed(j) ==
  /\ Queued(j) => j \in active /\ run[j].at = "none" /\ Open(j)
  /\ run[j].at # "none" => j \in active
  /\ run[j].at \notin {"none", "done"} => Open(j)
  /\ run[j].at = "done" => Terminal(j) \/ j \in unreported

Remembered(j) ==
  boot \in {"recover", "up"} /\ Open(j) =>
    request[j] = "saving" \/ j \in todo \/ j \in active \/ j \in unreported

\* A run knows which of its inputs stand in for the analysis.
Flagged(j) ==
  /\ j \in active =>
       /\ run[j].replay <=> "replay" \in inputs[j]
       /\ run[j].book <=> "workbook" \in inputs[j]
       /\ run[j].book => run[j].replay
  /\ run[j].at \in {"index", "codex"} => ~run[j].replay
  /\ run[j].at = "copy" => run[j].replay

\* Usage is set with the end of a job and from the turns that were completed by then.
Paid(j) ==
  /\ Open(j) => record[j].usage = None
  /\ Terminal(j) /\ "replay" \notin inputs[j] => record[j].usage = UsageFromEvents(j)
  /\ run[j].at \in {"none", "start", "copy", "index", "codex"} => run[j].usage = None
  /\ run[j].at \in {"validate", "annotate", "finish"} /\ ~run[j].replay =>
       run[j].usage = UsageFromEvents(j)
  /\ run[j].at \in {"diagnose", "report"} /\ ~run[j].replay =>
       run[j].usage \in {None, UsageFromEvents(j)}

\* A template is only ever filled by Codex, and an uploaded workbook is in its place once copied.
Booked(j) ==
  /\ j \notin removing => ("workbook" \in files[j] <=> book[j] # None)
  /\ request[j] = "answered" /\ "template" \in Uploads[j] /\ "workbook" \notin Uploads[j] =>
       book[j] \in (IF "replay" \in Uploads[j] THEN {None} ELSE {"codex", None})
  /\ run[j].at \in {"validate", "annotate", "finish"} /\ run[j].book => book[j] = "uploaded"

\* What a run has made when it comes to its last steps, and what a completed job has.
Built(j) ==
  /\ run[j].at \in {"annotate", "finish"} =>
       /\ {"takeoff", "methodology"} \subseteq files[j]
       /\ request[j] = "answered" => book[j] = Workbook(j)
  /\ run[j].at = "finish" => {"annotated", "audit"} \subseteq files[j]
  /\ HasStatus(j, {"completed"}) /\ j \notin removing =>
       /\ record[j].artifacts = files[j] /\ Artifacts \ {"workbook"} \subseteq files[j]
       /\ request[j] = "answered" => book[j] = Workbook(j)

JobInv(j) ==
  /\ Requested(j) /\ Placed(j) /\ Remembered(j) /\ Flagged(j)
  /\ Paid(j) /\ Booked(j) /\ Built(j)

ProcessorInv == Shaped /\ Booted /\ \A j \in Jobs : JobInv(j)
=============================================================================
