---------------------------- MODULE TakeoffWorker ----------------------------
(***************************************************************************)
(* The worker program (worker/src) at work on the control plane of         *)
(* TakeoffJobs, through the worker endpoints of the application.           *)
(*                                                                         *)
(* A worker takes one takeoff at a time from poll to cleanup.  The calls   *)
(* it makes cross a network: a call may never arrive, arrive after the     *)
(* worker gave it up, or change the database and lose its response.  All   *)
(* three are a call that the worker sees fail and that stays in late until *)
(* it lands or is dropped.  The worker may crash at any point; the systemd *)
(* unit restarts it, and it knows nothing of what it was doing.            *)
(*                                                                         *)
(* The execution broker is external here: one execution per takeoff, which *)
(* a second submission of the takeoff is given again while it exists.  A   *)
(* run of the processor stands for the bytes it produces: two runs never   *)
(* produce the same two files.                                             *)
(***************************************************************************)
EXTENDS TakeoffJobs

CONSTANTS NoJob,       \* no takeoff in hand
          MaxFaults    \* bound: lost calls, crashes, dying handlers, lost executions

ASSUME WorkerAssumption == NoJob \notin Jobs /\ MaxFaults \in Nat

VARIABLES
  worker,      \* worker[w]: the local variables of processOnce
  execution,   \* execution[j]: the run the broker holds for j, or NoRun
  runs,        \* runs[j]: how many runs of j were started
  objects,     \* stored result objects: <<takeoff, token in path, name, run>>
  inserting,   \* rows a finalize request is about to insert: <<j, token, name>>
  late,        \* calls the worker gave up and that have not landed
  faults       \* how many faults there were

extVars == <<execution, runs>>
storeVars == <<objects, inserting>>
faultVars == <<late, faults>>
workerVars == <<worker, extVars, storeVars, faultVars>>
allVars == <<vars, workerVars>>

NoRun == 0
PC == {"down", "poll", "acknowledge", "begin", "submit", "wait", "prepare",
       "upload", "register", "deliver", "report", "cleanup"}

\* The steps that work under the claim
Working == {"begin", "submit", "wait", "prepare", "upload", "register", "deliver"}

AtPC(pc) == [pc |-> pc, job |-> NoJob, token |-> NoToken, run |-> NoRun,
             todo |-> {}, putFailed |-> FALSE, retryable |-> FALSE]

WorkerInit ==
  /\ Init
  /\ worker = [w \in Workers |-> AtPC("poll")]
  /\ execution = [j \in Jobs |-> NoRun]
  /\ runs = [j \in Jobs |-> 0]
  /\ objects = {}
  /\ inserting = {}
  /\ late = {}
  /\ faults = 0

-----------------------------------------------------------------------------
(* Pieces of processOnce *)

At(w, pc) == worker[w].pc = pc
Become(w, r) == worker' = [worker EXCEPT ![w] = r]
Goto(w, pc) == Become(w, [worker[w] EXCEPT !.pc = pc])

\* An exception reaches the catch block, which classifies it.
Throw(w, retryable) ==
  Become(w, [worker[w] EXCEPT !.pc = "report", !.retryable = retryable])

Owns(w) == OwnsClaim(w, worker[w].job, worker[w].token)
Holds(w, j) == status[j] = "processing" /\ claimed_by[j] = w

\* A call that updates the row under the claim: progress, and the guard of the
\* artifacts endpoint.
Beat(w) ==
  IF stale[worker[w].job]
  THEN Progress(w, worker[w].job, worker[w].token)
  ELSE UNCHANGED vars

Fault == faults < MaxFaults /\ faults' = faults + 1

Call(op, w, retryable) ==
  [op |-> op, worker |-> w, job |-> worker[w].job, token |-> worker[w].token,
   retryable |-> retryable]

\* The worker sees the call fail; the call is still on its way.
GiveUp(call) == Fault /\ late' = late \cup {call}

Stored(j, t, a) == {o \in objects : o[1] = j /\ o[2] = t /\ o[3] = a}

\* The object of an artifact is the one this run produced.
StoredFromRun(w, a) == <<worker[w].job, worker[w].token, a, worker[w].run>> \in objects

Registered(j, t, a) == <<t, a>> \in files[j]

-----------------------------------------------------------------------------
(* Claiming *)

\* GET next: the claim the worker already holds (any of them, where the code
\* takes the one with the earliest claimed_at), or the head of the queue.
Poll(w) ==
  /\ At(w, "poll")
  /\ \E j \in Jobs :
       /\ \/ Holds(w, j) /\ UNCHANGED vars
          \/ ClaimNext(w) /\ claim_token'[j] # claim_token[j]
       /\ Become(w, [AtPC("acknowledge") EXCEPT !.job = j])
  /\ UNCHANGED <<extVars, storeVars, faultVars>>

\* A second claim for the same lease, as before claim_takeoff_job was made
\* idempotent.
AcknowledgeByClaimingAgain(w) ==
  LET j == worker[w].job IN
  /\ Holds(w, j)
  /\ attempt_count[j] < MaxAttempts
  /\ claim_token' = [claim_token EXCEPT ![j] = attempt_count[j] + 1]
  /\ attempt_count' = [attempt_count EXCEPT ![j] = @ + 1]
  /\ UNCHANGED <<status, claimed_by, queued_before, creditVars, files, cronVars,
                 customerVars>>

\* A claim endpoint that returns the row whoever holds it.
AcknowledgeUnchecked(w) == UNCHANGED vars

\* claim_takeoff_job of a claim the worker holds returns the row unchanged.
AcknowledgeHeld(w) == Holds(w, worker[w].job) /\ UNCHANGED vars

\* POST claim
Acknowledge(w) ==
  LET j == worker[w].job IN
  /\ At(w, "acknowledge")
  /\ \/ /\ \/ AcknowledgeHeld(w)
           \/ ~Holds(w, j) /\ ClaimJob(w, j)
        /\ Become(w, [worker[w] EXCEPT !.pc = "begin", !.token = claim_token'[j]])
     \/ /\ ~Holds(w, j) /\ ~Claimable(j)   \* 409
        /\ Become(w, AtPC("poll"))
        /\ UNCHANGED vars
  /\ UNCHANGED <<extVars, storeVars, faultVars>>

LoseClaimCall(w) ==
  /\ \/ At(w, "poll") /\ GiveUp(Call("next", w, FALSE))
     \/ At(w, "acknowledge") /\ GiveUp(Call("claim", w, FALSE))
  /\ Become(w, AtPC("poll"))
  /\ UNCHANGED <<vars, extVars, storeVars>>

-----------------------------------------------------------------------------
(* Processing *)

\* The first progress call; what follows up to the answer of the submission, the
\* input download with it, is the step "submit".
Begin(w) ==
  /\ At(w, "begin")
  /\ Owns(w)
  /\ Beat(w)
  /\ Goto(w, "submit")
  /\ UNCHANGED <<extVars, storeVars, faultVars>>

\* submitTakeoff: a new execution, or the one the broker has for the takeoff
Submit(w) ==
  LET j == worker[w].job
      r == IF execution[j] = NoRun THEN runs[j] + 1 ELSE execution[j]
  IN /\ At(w, "submit")
     /\ execution' = [execution EXCEPT ![j] = r]
     /\ runs' = [runs EXCEPT ![j] = IF @ < r THEN r ELSE @]
     /\ Become(w, [worker[w] EXCEPT !.pc = "wait", !.run = r])
     /\ UNCHANGED <<vars, storeVars, faultVars>>

\* The broker refuses: 503 when it is full, 409 while it cleans up an earlier
\* execution of the takeoff, which is not retryable.  The input download and
\* its checks may fail either way too.
Refused(w) ==
  /\ At(w, "submit")
  /\ \E retryable \in BOOLEAN : Throw(w, retryable)
  /\ UNCHANGED <<vars, extVars, storeVars, faultVars>>

\* The response of the submission is lost: no processor job id to clean up.
LoseSubmission(w) ==
  LET j == worker[w].job IN
  /\ At(w, "submit")
  /\ Fault
  /\ execution' = [execution EXCEPT ![j] = IF @ = NoRun THEN runs[j] + 1 ELSE @]
  /\ runs' = [runs EXCEPT ![j] = IF execution[j] = NoRun THEN @ + 1 ELSE @]
  /\ Throw(w, TRUE)
  /\ UNCHANGED <<vars, storeVars, late>>

\* waitForTakeoff reports progress, at the latest every heartbeat interval.
Heartbeat(w) ==
  /\ At(w, "wait")
  /\ Owns(w)
  /\ stale[worker[w].job]
  /\ Beat(w)
  /\ UNCHANGED workerVars

\* The processor is done: the artifacts are downloaded from its run.
RunCompleted(w) ==
  /\ At(w, "wait")
  /\ execution[worker[w].job] = worker[w].run
  /\ Owns(w)
  /\ Beat(w)
  /\ Goto(w, "prepare")
  /\ UNCHANGED <<extVars, storeVars, faultVars>>

\* The run failed, which is final.
RunFailed(w) ==
  /\ At(w, "wait")
  /\ Throw(w, FALSE)
  /\ UNCHANGED <<vars, extVars, storeVars, faultVars>>

\* A worker without a job timeout.
WaitForever(w) == FALSE

\* The job timeout of waitForTakeoff
Deadline(w) ==
  /\ At(w, "wait")
  /\ Throw(w, TRUE)
  /\ UNCHANGED <<vars, extVars, storeVars, faultVars>>

\* A call is answered 403 or 409, because the claim is gone (before delivery the
\* last progress call is), or 404, because the execution is.
ClaimGone(w) ==
  /\ worker[w].pc \in {"begin", "wait", "prepare", "deliver"}
  /\ ~Owns(w)
  /\ Throw(w, FALSE)
  /\ UNCHANGED <<vars, extVars, storeVars, faultVars>>

ExecutionGone(w) ==
  /\ At(w, "wait")
  /\ execution[worker[w].job] # worker[w].run
  /\ Throw(w, FALSE)
  /\ UNCHANGED <<vars, extVars, storeVars, faultVars>>

-----------------------------------------------------------------------------
(* Artifacts *)

\* action: prepare.  A row of another run under this claim is a conflict; an
\* object that is already there is not uploaded again.
Prepare(w) ==
  LET j == worker[w].job
      t == worker[w].token
  IN /\ At(w, "prepare")
     /\ Owns(w)
     /\ Beat(w)
     /\ IF \E a \in Artifacts : Registered(j, t, a) /\ ~StoredFromRun(w, a)
        THEN Throw(w, FALSE)
        ELSE Become(w, [worker[w] EXCEPT
                          !.pc = "upload",
                          !.todo = {a \in Artifacts : Stored(j, t, a) = {}}])
     /\ UNCHANGED <<extVars, storeVars, faultVars>>

\* PUT to the signed URL, without upsert
Put(j, t, a, r) ==
  objects' = IF Stored(j, t, a) = {} THEN objects \cup {<<j, t, a, r>>} ELSE objects

\* uploadArtifactDirectly remembers a failure and goes on.
Upload1(w, a) ==
  LET j == worker[w].job
      t == worker[w].token
  IN /\ At(w, "upload")
     /\ a \in worker[w].todo
     /\ Put(j, t, a, worker[w].run)
     /\ Become(w, [worker[w] EXCEPT
                     !.todo = @ \ {a},
                     !.putFailed = @ \/ Stored(j, t, a) # {}])
     /\ UNCHANGED <<vars, extVars, inserting, faultVars>>

LosePut(w, a) ==
  /\ At(w, "upload")
  /\ a \in worker[w].todo
  /\ GiveUp([op |-> "put", job |-> worker[w].job, token |-> worker[w].token,
             name |-> a, run |-> worker[w].run])
  /\ Become(w, [worker[w] EXCEPT !.todo = @ \ {a}, !.putFailed = TRUE])
  /\ UNCHANGED <<vars, extVars, storeVars>>

\* A finalize that trusts what prepare called already uploaded.
SomethingStored(w) ==
  \A a \in Artifacts : Stored(worker[w].job, worker[w].token, a) # {}

\* Size and SHA-256 of every stored object are those of this run.
Verified(w) == \A a \in Artifacts : StoredFromRun(w, a)

\* action: finalize, up to the guard behind the verification.  Objects never
\* change, so what was verified before the guard still is at the guard.
Finalize(w) ==
  LET j == worker[w].job
      t == worker[w].token
  IN /\ At(w, "upload")
     /\ worker[w].todo = {}
     /\ IF Owns(w) /\ Verified(w)
        THEN /\ Beat(w)
             /\ inserting' = inserting \cup
                  {<<j, t, a>> : a \in {a \in Artifacts : ~Registered(j, t, a)}}
             /\ Goto(w, "register")
        ELSE /\ Throw(w, worker[w].putFailed)
             /\ UNCHANGED <<vars, inserting>>
     /\ UNCHANGED <<objects, extVars, faultVars>>

\* The finalize handler inserts its rows, whoever waits for it.
InsertRow(j, t, a) ==
  /\ <<j, t, a>> \in inserting
  /\ inserting' = inserting \ {<<j, t, a>>}
  /\ IF Registered(j, t, a) THEN UNCHANGED vars ELSE PublishArtifact(j, t, a)
  /\ UNCHANGED <<worker, extVars, objects, faultVars>>

\* The handler dies (maxDuration), with some of its rows not inserted.
HandlerDies(j, t) ==
  /\ \E i \in inserting : i[1] = j /\ i[2] = t
  /\ Fault
  /\ inserting' = {i \in inserting : i[1] # j \/ i[2] # t}
  /\ UNCHANGED <<vars, worker, extVars, objects, late>>

\* The worker has the answer of finalize, or the error of a dead handler.
RowsAnswered(w) ==
  LET j == worker[w].job
      t == worker[w].token
  IN /\ At(w, "register")
     /\ ~ \E i \in inserting : i[1] = j /\ i[2] = t
     /\ IF \A a \in Artifacts : Registered(j, t, a)
        THEN Goto(w, "deliver") ELSE Throw(w, TRUE)
     /\ UNCHANGED <<vars, extVars, storeVars, faultVars>>

-----------------------------------------------------------------------------
(* Delivery, failure and cleanup *)

\* POST complete, after a last progress call that changes nothing here; a takeoff
\* already completed under this claim is accepted.
Deliver(w) ==
  LET j == worker[w].job IN
  /\ At(w, "deliver")
  /\ \/ Complete(w, j, worker[w].token)
     \/ /\ status[j] = "completed" /\ claim_token[j] = worker[w].token
        /\ UNCHANGED vars
  /\ Goto(w, "cleanup")
  /\ UNCHANGED <<extVars, storeVars, faultVars>>

\* The response of a call under the claim is lost, or the call itself is.
LoseCall(w) ==
  /\ \/ worker[w].pc \in {"begin", "wait", "prepare", "upload", "register"}
        /\ Fault /\ UNCHANGED late
     \/ At(w, "deliver") /\ GiveUp(Call("complete", w, FALSE))
  /\ Throw(w, TRUE)
  /\ UNCHANGED <<vars, extVars, storeVars>>

\* reportFailure: one of three POSTs to fail is answered.  A rejected report
\* is not an error the worker acts on.
Report(w) ==
  LET j == worker[w].job IN
  /\ At(w, "report")
  /\ IF Owns(w)
     THEN FailJob(w, j, worker[w].token, worker[w].retryable)
     ELSE UNCHANGED vars
  /\ Goto(w, "cleanup")
  /\ UNCHANGED <<extVars, storeVars, faultVars>>

\* A report is lost: another one is sent, or it was the third.
LoseReport(w) ==
  /\ At(w, "report")
  /\ GiveUp(Call("fail", w, worker[w].retryable))
  /\ Goto(w, "report") \/ Goto(w, "cleanup")
  /\ UNCHANGED <<vars, extVars, storeVars>>

\* cleanupTakeoffJob, when the worker learned the id of the processor job
Cleanup(w) ==
  LET j == worker[w].job IN
  /\ At(w, "cleanup")
  /\ execution' = IF worker[w].run # NoRun /\ execution[j] = worker[w].run
                  THEN [execution EXCEPT ![j] = NoRun]
                  ELSE execution
  /\ Become(w, AtPC("poll"))
  /\ UNCHANGED <<vars, runs, storeVars, faultVars>>

LoseCleanup(w) ==
  /\ At(w, "cleanup")
  /\ Fault
  /\ Become(w, AtPC("poll"))
  /\ UNCHANGED <<vars, extVars, storeVars, late>>

-----------------------------------------------------------------------------
(* The environment *)

Crash(w) ==
  /\ worker[w].pc # "down"
  /\ Fault
  /\ Become(w, AtPC("down"))
  /\ UNCHANGED <<vars, extVars, storeVars, late>>

\* systemd, Restart=on-failure
Restart(w) ==
  /\ At(w, "down")
  /\ Become(w, AtPC("poll"))
  /\ UNCHANGED <<vars, extVars, storeVars, faultVars>>

\* The broker sweeps an expired or unhealthy execution.
SweepExecution(j) ==
  /\ execution[j] # NoRun
  /\ Fault
  /\ execution' = [execution EXCEPT ![j] = NoRun]
  /\ UNCHANGED <<vars, worker, runs, storeVars, late>>

\* A call the worker gave up takes effect after all.
Land(call) ==
  /\ late' = late \ {call}
  /\ IF call.op = "put"
     THEN Put(call.job, call.token, call.name, call.run) /\ UNCHANGED vars
     ELSE /\ \/ call.op = "next" /\ ClaimNext(call.worker)
             \/ /\ call.op = "claim" /\ ~Holds(call.worker, call.job)
                /\ ClaimJob(call.worker, call.job)
             \/ /\ call.op = "complete"
                /\ Complete(call.worker, call.job, call.token)
             \/ /\ call.op = "fail"
                /\ FailJob(call.worker, call.job, call.token, call.retryable)
          /\ UNCHANGED objects
  /\ UNCHANGED <<worker, extVars, inserting, faults>>

\* It is lost, or the application rejects it.
Drop(call) ==
  /\ late' = late \ {call}
  /\ UNCHANGED <<vars, worker, extVars, storeVars, faults>>

\* Customers, admins, the cron and the clock
Others ==
  /\ \/ \E j \in Jobs : Customer(j) \/ GoStale(j) \/ Cron(j) \/ Admin(j)
     \/ \E u \in Users : SetProfileStatus(u)
  /\ UNCHANGED workerVars

-----------------------------------------------------------------------------
\* The steps the program takes on its own, when nothing goes wrong.
Step(w) ==
  \/ Poll(w) \/ Acknowledge(w)
  \/ Begin(w) \/ Submit(w) \/ Deadline(w) \/ ClaimGone(w) \/ ExecutionGone(w)
  \/ Prepare(w) \/ (\E a \in Artifacts : Upload1(w, a)) \/ Finalize(w)
  \/ RowsAnswered(w) \/ Deliver(w) \/ Report(w) \/ Cleanup(w)

\* What the processor and the broker answer
Processor(w) == RunCompleted(w) \/ RunFailed(w) \/ Refused(w)

Trouble(w) ==
  \/ LoseClaimCall(w) \/ LoseSubmission(w) \/ LoseCall(w) \/ LoseReport(w)
  \/ LoseCleanup(w) \/ Crash(w) \/ (\E a \in Artifacts : LosePut(w, a))

Handler ==
  \E j \in Jobs, t \in 1..MaxAttempts :
    HandlerDies(j, t) \/ \E a \in Artifacts : InsertRow(j, t, a)

WorkerNext ==
  \/ \E w \in Workers :
       Step(w) \/ Processor(w) \/ Heartbeat(w) \/ Trouble(w) \/ Restart(w)
  \/ Handler
  \/ \E j \in Jobs : SweepExecution(j)
  \/ \E call \in late : Land(call) \/ Drop(call)
  \/ Others

\* The program runs, systemd restarts it, the application finishes its
\* requests, time passes and the cron is called.  Nothing is assumed of
\* customers, admins, the processor, or the network.
Fairness ==
  /\ \A w \in Workers : WF_allVars(Step(w)) /\ WF_allVars(Restart(w))
  /\ \A j \in Jobs :
       /\ WF_allVars(\E t \in 1..MaxAttempts, a \in Artifacts : InsertRow(j, t, a))
       /\ WF_allVars(GoStale(j) /\ UNCHANGED workerVars)
       /\ WF_allVars(ReconcileRead(j) /\ UNCHANGED workerVars)
       /\ WF_allVars(ReconcileFail(j) /\ UNCHANGED workerVars)

WorkerSpec == WorkerInit /\ [][WorkerNext]_allVars

FairSpec == WorkerSpec /\ Fairness
-----------------------------------------------------------------------------
(* Properties *)

\* Every local variable of a worker and every stored object stays in its type,
\* and a worker that works has a takeoff in hand and a claim that was made.
WorkerTypeOK ==
  /\ worker \in [Workers -> [pc : PC, job : Jobs \cup {NoJob}, token : Nat,
                             run : Nat, todo : SUBSET Artifacts,
                             putFailed : BOOLEAN, retryable : BOOLEAN]]
  /\ execution \in [Jobs -> Nat]
  /\ runs \in [Jobs -> Nat]
  /\ objects \subseteq Jobs \X Tokens \X Artifacts \X Nat
  /\ inserting \subseteq Jobs \X Tokens \X Artifacts
  /\ faults \in 0..MaxFaults
  /\ \A w \in Workers :
       worker[w].pc \in Working \cup {"report", "cleanup"} =>
         worker[w].job \in Jobs
           /\ worker[w].token \in 1..attempt_count[worker[w].job]

\* What the customer gets is one takeoff: the marked drawings and the workbook
\* of a delivered takeoff come from the same run of the processor, though a
\* claim may survive a worker restart and be worked on by a second run.
DeliveredFromOneRun ==
  \A j \in Jobs :
    status[j] = "completed" =>
      \E r \in 1..runs[j] : \A a \in Artifacts :
        /\ Registered(j, claim_token[j], a)
        /\ <<j, claim_token[j], a, r>> \in objects

\* Nobody takes a takeoff from a worker that is busy with it and was heard of
\* in the last 30 minutes: not a call of an earlier claim that lands late, not
\* the cron with what it read before the heartbeat.  Only an admin may, and
\* the late calls made under this very claim.
NoEviction ==
  [][\A w \in Workers :
       LET j == worker[w].job
           t == worker[w].token
       IN /\ worker[w].pc \in Working
          /\ worker'[w] = worker[w]
          /\ OwnsClaim(w, j, t)
          /\ ~stale[j]
          /\ \A call \in late : call.op # "put" => call.job # j \/ call.token # t
          => OwnsClaim(w, j, t)' \/ status'[j] = "canceled"]_allVars

\* The worker program only makes steps of TakeoffJobs, so that module's theorems
\* hold of it.
JobsSpec == Spec

\* Every claim ends: whatever was lost, whoever crashed, a takeoff does not
\* stay with a worker for ever.
ClaimEnds ==
  \A j \in Jobs, t \in 1..MaxAttempts :
    (status[j] = "processing" /\ claim_token[j] = t)
      ~> ~(status[j] = "processing" /\ claim_token[j] = t)

\* A queued takeoff that has attempts left is worked on.
QueueMoves ==
  \A j \in Jobs :
    (status[j] = "queued" /\ attempt_count[j] < MaxAttempts)
      ~> status[j] # "queued"

\* A requeued takeoff gets its processing pass: "The correction or exception was
\* queued for another processing pass." (admin_resolve_takeoff)
RequeuedIsProcessed ==
  \A j \in Jobs : status[j] = "queued" ~> status[j] # "queued"

\* The claims of a worker: "Keep one active claim per worker so a lost HTTP
\* response or worker restart resumes the current lease instead of consuming
\* another job attempt." (atomic_priority_takeoff_claim)
OneClaimPerWorker ==
  \A w \in Workers : Cardinality({j \in Jobs : Holds(w, j)}) <= 1
=============================================================================
