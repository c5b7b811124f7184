-------------------------- MODULE ArtifactDownload --------------------------
(***************************************************************************)
(* How the artifacts of a run reach the disk of the worker: an attempt of  *)
(* the worker from its submission to its cleanup (worker/src), every       *)
(* download through the broker's proxy (executor/src/broker-server.mjs)    *)
(* from the processor that ran (services/takeoff/app/main.py).             *)
(*                                                                         *)
(* An artifact is a number of pieces.  Its bytes are those the processor   *)
(* announced in the record of the run, or have been altered on its disk    *)
(* since.  Everything that makes a handler of the broker end is an event   *)
(* of the worker, unless the worker has given that request up.  What an    *)
(* attempt does under its claim is in TakeoffWorker, what the broker does  *)
(* with an execution in ExecutorBroker.                                    *)
(***************************************************************************)
EXTENDS Naturals, FiniteSets

CONSTANTS Artifacts,    \* a run makes the artifacts 1..Artifacts, in the order of their names
          Size,         \* Size[a]: the pieces of an artifact
          BrokerLimit,  \* maxUploadBytes of the broker
          WorkerLimit,  \* maxFileBytes of the worker
          MaxAttempts,  \* bound: attempts of the worker
          MaxFaults     \* bound: lost answers, cuts, silence, crashes, full disks ...

DownloadAssumption ==
  /\ Artifacts \in Nat \ {0} /\ Size \in [1..Artifacts -> Nat \ {0}]
  /\ {BrokerLimit, WorkerLimit, MaxAttempts, MaxFaults} \subseteq Nat

VARIABLES
  worker,     \* the attempt: its place, and the local variables of processOnce and runTakeoff
  attempts,   \* how many attempts there were
  execution,  \* the run whose execution the broker holds, or 0
  runs,       \* how many runs there were
  stored,     \* stored[a]: the processor's file: "whole", "altered" or "missing"
  handlers,   \* downloads the broker is proxying
  disk,       \* disk[a]: what the output directory has under the name of a
  parts,      \* temporary files, by the request that wrote them
  faults      \* how many faults there were

vars == <<worker, attempts, execution, runs, stored, handlers, disk, parts, faults>>
hostVars == <<execution, runs, stored>>
fileVars == <<disk, parts>>

Idle == [pc |-> "idle", run |-> 0, made |-> 0, usage |-> 0, next |-> 1, req |-> 0,
         sound |-> TRUE, outcome |-> "none", told |-> 0, ended |-> FALSE, asked |-> FALSE]
Nothing == [run |-> 0, sound |-> FALSE]

Init ==
  /\ worker = Idle /\ attempts = 0
  /\ execution = 0 /\ runs = 0 /\ stored = [a \in 1..Artifacts |-> "missing"]
  /\ handlers = {}
  /\ disk = [a \in 1..Artifacts |-> Nothing] /\ parts = {}
  /\ faults = 0

At(pc) == worker.pc = pc
Become(w) == worker' = w
Fault == faults < MaxFaults /\ faults' = faults + 1

\* Mutant: an error forgets what the run cost.
ThrownBare(outcome) ==
  [worker EXCEPT !.pc = "report", !.outcome = outcome, !.usage = 0]

\* An error ends runTakeoff; what the run cost travels with it.
Thrown(outcome) ==
  [worker EXCEPT !.pc = "report", !.outcome = outcome,
                 !.usage = IF worker.ended THEN worker.run ELSE 0]

\* downloadVerifiedFile discards what it wrote; if that fails too, the file stays.
Discard == \/ parts' = parts \ {worker.req} /\ UNCHANGED faults
           \/ worker.req \in parts /\ Fault /\ UNCHANGED parts

-----------------------------------------------------------------------------
(* An attempt up to the end of its run *)

\* The claim was made or is resumed; the last attempt was not final.
Start ==
  /\ At("idle") /\ attempts < MaxAttempts
  /\ worker.outcome \notin {"final", "delivered"}
  /\ Become([Idle EXCEPT !.pc = "submit"])
  /\ attempts' = attempts + 1
  /\ UNCHANGED <<hostVars, handlers, fileVars, faults>>

\* Mutant: a new run is taken for the one before it.
AcceptedAgain ==
  /\ execution' = IF execution = 0 THEN runs + 1 ELSE execution
  /\ UNCHANGED runs
  /\ stored' = IF execution = 0 THEN [a \in 1..Artifacts |-> "whole"] ELSE stored

\* The broker starts an execution, or gives the one it has.
Accepted ==
  LET r == IF execution = 0 THEN runs + 1 ELSE execution IN
  /\ execution' = r
  /\ runs' = IF execution = 0 THEN r ELSE runs
  /\ stored' = IF execution = 0 THEN [a \in 1..Artifacts |-> "whole"] ELSE stored

Submit ==
  /\ At("submit") /\ Accepted
  /\ Become([worker EXCEPT !.pc = "wait", !.run = execution', !.made = execution'])
  /\ UNCHANGED <<attempts, handlers, fileVars, faults>>

\* The answer is lost: the worker does not learn the identifier of the job.
SubmissionIsLost ==
  /\ At("submit") /\ Fault /\ Accepted
  /\ Become([Thrown("retryable") EXCEPT !.made = execution'])
  /\ UNCHANGED <<attempts, handlers, fileVars>>

\* Something before the submission fails, or the broker refuses it.
Refused ==
  /\ At("submit")
  /\ \E outcome \in {"retryable", "final"} : Become(Thrown(outcome))
  /\ UNCHANGED <<attempts, hostVars, handlers, fileVars, faults>>

\* waitForTakeoff reads the record of the completed run.
Completed ==
  /\ At("wait") /\ execution = worker.run
  /\ Become([worker EXCEPT !.pc = "ask", !.ended = TRUE])
  /\ UNCHANGED <<attempts, hostVars, handlers, fileVars, faults>>

\* The record of a run that failed, which is final, tells its cost as well.
RunFails ==
  /\ At("wait") /\ execution = worker.run
  /\ Become([Thrown("final") EXCEPT !.ended = TRUE, !.usage = worker.run])
  /\ UNCHANGED <<attempts, hostVars, handlers, fileVars, faults>>

\* The deadline, a lost claim, or a broker that fails or does not know the job.
WaitFails ==
  /\ At("wait")
  /\ \E outcome \in {"retryable", "final"} : Become(Thrown(outcome))
  /\ UNCHANGED <<attempts, hostVars, handlers, fileVars, faults>>

-----------------------------------------------------------------------------
(* One download: the worker asks, the broker asks the processor *)

Ask ==
  /\ At("ask")
  /\ LET req == attempts * (Artifacts + 1) + worker.next IN
       /\ Become([worker EXCEPT !.pc = "head", !.req = req, !.sound = TRUE])
       /\ handlers' = handlers \union
            {[req |-> req, run |-> worker.run, art |-> worker.next,
              at |-> "ask", sent |-> 0, silent |-> FALSE]}
  /\ UNCHANGED <<attempts, hostVars, fileVars, faults>>

\* The worker still waits for what this handler brings.
Awaited(h) == worker.pc \in {"head", "read"} /\ worker.req = h.req
Tells(h, w) == worker' = IF Awaited(h) THEN w ELSE worker

\* The handler ends and the worker, if it waits, throws.
EndsWith(h, outcome) ==
  /\ handlers' = handlers \ {h}
  /\ Tells(h, Thrown(outcome))
  /\ IF Awaited(h) THEN Discard ELSE UNCHANGED <<parts, faults>>
  /\ UNCHANGED <<attempts, hostVars, disk>>

\* Any status but 2xx is an error of no kind that is retried.
ErrorStatus(h) ==
  /\ h.at = "ask" /\ ~h.silent
  /\ execution # h.run \/ stored[h.art] # "whole"
  /\ EndsWith(h, "final")

\* The processor does not answer the broker, which answers 500.
Unreachable(h) ==
  /\ h.at = "ask" /\ ~h.silent /\ Fault
  /\ handlers' = handlers \ {h} /\ Tells(h, Thrown("final"))
  /\ UNCHANGED <<attempts, hostVars, fileVars>>

\* The processor has compared size and digest, and announces the length.
Header(h) ==
  /\ h.at = "ask" /\ ~h.silent /\ execution = h.run /\ stored[h.art] = "whole"
  /\ handlers' = (handlers \ {h}) \union {[h EXCEPT !.at = "body"]}
  /\ IF Size[h.art] > WorkerLimit
     THEN Tells(h, Thrown("final")) /\ UNCHANGED parts
     ELSE /\ Tells(h, [worker EXCEPT !.pc = "read"])
          /\ parts' = IF Awaited(h) THEN parts \union {h.req} ELSE parts
  /\ UNCHANGED <<attempts, hostVars, disk, faults>>

\* A piece passes the broker's limit and is hashed and written by the worker.
Piece(h) ==
  /\ h.at = "body" /\ ~h.silent /\ execution = h.run
  /\ h.sent < Size[h.art] /\ h.sent < BrokerLimit
  /\ handlers' = (handlers \ {h}) \union {[h EXCEPT !.sent = @ + 1]}
  /\ Tells(h, [worker EXCEPT !.sound = @ /\ stored[h.art] = "whole"])
  /\ UNCHANGED <<attempts, hostVars, fileVars, faults>>

\* The piece that would pass the limit: the broker destroys the response.
OverLimit(h) ==
  /\ h.at = "body" /\ BrokerLimit = h.sent /\ h.sent < Size[h.art]
  /\ EndsWith(h, "retryable")

EndOfBody(h) ==
  /\ h.at = "body" /\ h.sent = Size[h.art]
  /\ handlers' = handlers \ {h}
  /\ Tells(h, [worker EXCEPT !.pc = "check"])
  /\ UNCHANGED <<attempts, hostVars, fileVars, faults>>

\* The execution was taken away under the stream.
Cut(h) ==
  /\ h.at = "body" /\ execution # h.run /\ h.sent < Size[h.art]
  /\ EndsWith(h, "retryable")

\* The broker restarts: every connection is reset.
BrokerDies ==
  /\ handlers # {} /\ Fault
  /\ handlers' = {}
  /\ IF \E h \in handlers : Awaited(h)
     THEN worker' = Thrown("retryable") /\ parts' = parts \ {worker.req}
     ELSE UNCHANGED <<worker, parts>>
  /\ UNCHANGED <<attempts, hostVars, disk>>

\* The processor stops answering or sending without closing.
FallsSilent(h) ==
  /\ ~h.silent /\ Fault
  /\ handlers' = (handlers \ {h}) \union {[h EXCEPT !.silent = TRUE]}
  /\ UNCHANGED <<worker, attempts, hostVars, fileVars>>

\* Mutant: the timer stops when the answer has begun.
TimeoutOfHead(h) ==
  /\ h.silent /\ h.at = "ask"
  /\ EndsWith(h, "final")

\* The broker's timer: 500 before the answer began, a broken body after.
BrokerTimeout(h) ==
  /\ h.silent
  /\ EndsWith(h, IF h.at = "ask" THEN "final" ELSE "retryable")

\* The worker's timer runs from the request to the last byte; the handler goes on.
WorkerTimeout(h) ==
  /\ h.silent /\ Awaited(h)
  /\ Become(Thrown("retryable")) /\ Discard
  /\ UNCHANGED <<attempts, hostVars, handlers, disk>>

\* Nobody reads any more: the pipeline to the response fails.
ClientGone(h) ==
  /\ ~Awaited(h)
  /\ handlers' = handlers \ {h}
  /\ UNCHANGED <<worker, attempts, hostVars, fileVars, faults>>

\* The file system of the worker fails a write.
WriteFails ==
  /\ At("read") /\ Fault
  /\ Become(Thrown("final")) /\ parts' = parts \ {worker.req}
  /\ UNCHANGED <<attempts, hostVars, handlers, disk>>

\* Mutant: the digest is not compared.
VerifyNothing ==
  /\ At("check")
  /\ Become([worker EXCEPT !.pc = "save"])
  /\ UNCHANGED <<attempts, hostVars, handlers, fileVars, faults>>

\* The digest of what was written is the announced one, or the file is discarded.
Verify ==
  /\ At("check")
  /\ IF worker.sound
     THEN Become([worker EXCEPT !.pc = "save"]) /\ UNCHANGED <<parts, faults>>
     ELSE Become(Thrown("final")) /\ Discard
  /\ UNCHANGED <<attempts, hostVars, handlers, disk>>

\* Mutant: a file that has the name already is kept.
SaveOnce ==
  /\ At("save")
  /\ disk' = [disk EXCEPT ![worker.next] =
                IF @.run # 0 THEN @ ELSE [run |-> worker.run, sound |-> worker.sound]]
  /\ parts' = parts \ {worker.req}
  /\ Become([worker EXCEPT !.pc = IF worker.next = Artifacts THEN "upload" ELSE "ask",
                           !.next = @ + 1])
  /\ UNCHANGED <<attempts, hostVars, handlers, faults>>

\* The file gets its name, in the place of one an earlier attempt left.
Save ==
  /\ At("save")
  /\ disk' = [disk EXCEPT ![worker.next] = [run |-> worker.run, sound |-> worker.sound]]
  /\ parts' = parts \ {worker.req}
  /\ Become([worker EXCEPT !.pc = IF worker.next = Artifacts THEN "upload" ELSE "ask",
                           !.next = @ + 1])
  /\ UNCHANGED <<attempts, hostVars, handlers, faults>>

-----------------------------------------------------------------------------
(* The end of an attempt *)

\* The files are uploaded and the takeoff completed, with what the run cost.
Deliver ==
  /\ At("upload")
  /\ Become([worker EXCEPT !.pc = "cleanup", !.outcome = "delivered", !.usage = worker.run,
                           !.told = worker.run])
  /\ UNCHANGED <<attempts, hostVars, handlers, fileVars, faults>>

DeliveryFails ==
  /\ At("upload")
  /\ \E outcome \in {"retryable", "final"} : Become(Thrown(outcome))
  /\ UNCHANGED <<attempts, hostVars, handlers, fileVars, faults>>

ReportFailure ==
  /\ At("report")
  /\ Become([worker EXCEPT !.pc = "cleanup", !.told = worker.usage])
  /\ UNCHANGED <<attempts, hostVars, handlers, fileVars, faults>>

\* The finally block deletes the execution if it knows the job ...
CleanUp ==
  /\ At("cleanup")
  /\ Become([worker EXCEPT !.pc = "remove", !.asked = worker.run # 0])
  /\ execution' = IF worker.run # 0 /\ execution = worker.run THEN 0 ELSE execution
  /\ UNCHANGED <<attempts, runs, stored, handlers, fileVars, faults>>

\* ... three tries of which may fail ...
CleanUpFails ==
  /\ At("cleanup") /\ worker.run # 0 /\ Fault
  /\ Become([worker EXCEPT !.pc = "remove", !.asked = TRUE])
  /\ UNCHANGED <<attempts, hostVars, handlers, fileVars>>

\* ... and removes the directory of the takeoff, whatever attempt wrote into it.
RemoveLocal ==
  /\ At("remove")
  /\ Become([worker EXCEPT !.pc = "idle"])
  /\ \/ disk' = [a \in 1..Artifacts |-> Nothing] /\ parts' = {} /\ UNCHANGED faults
     \/ Fault /\ UNCHANGED fileVars
  /\ UNCHANGED <<attempts, hostVars, handlers>>

Crash ==
  /\ ~At("idle") /\ Fault
  /\ Become(Idle)
  /\ UNCHANGED <<attempts, hostVars, handlers, fileVars>>

-----------------------------------------------------------------------------
(* The host of the processor *)

\* A file changes or goes on the processor's disk, after it was announced.
Alter ==
  /\ execution # 0 /\ Fault
  /\ \E a \in 1..Artifacts, to \in {"altered", "missing"} :
       stored[a] = "whole" /\ stored' = [stored EXCEPT ![a] = to]
  /\ UNCHANGED <<worker, attempts, execution, runs, handlers, fileVars>>

\* A sweep of the broker, or a late delete call, takes the execution away.
Sweep ==
  /\ execution # 0 /\ Fault
  /\ execution' = 0
  /\ UNCHANGED <<worker, attempts, runs, stored, handlers, fileVars>>

Handler(h) ==
  \/ ErrorStatus(h) \/ Header(h) \/ Piece(h) \/ OverLimit(h) \/ EndOfBody(h)
  \/ Cut(h) \/ BrokerTimeout(h) \/ ClientGone(h)

Step ==
  \/ Submit \/ Refused \/ Completed \/ RunFails \/ WaitFails \/ Ask \/ Verify \/ Save
  \/ Deliver \/ DeliveryFails \/ ReportFailure \/ CleanUp \/ RemoveLocal

Trouble ==
  \/ SubmissionIsLost \/ WriteFails \/ CleanUpFails \/ Crash
  \/ BrokerDies \/ Alter \/ Sweep
  \/ \E h \in handlers : Unreachable(h) \/ FallsSilent(h)

Next ==
  \/ Start \/ Step \/ Trouble
  \/ \E h \in handlers : Handler(h) \/ WorkerTimeout(h)

\* The requests of all attempts, and what the broker does for one of them.
Requests == 1..((MaxAttempts + 1) * (Artifacts + 1))
Proxy(r) == \E h \in handlers : h.req = r /\ Handler(h)

Spec == Init /\ [][Next]_vars

-----------------------------------------------------------------------------
(* Properties *)

\* Types, and that a request has one handler.
TypeOK ==
  /\ worker.pc \in {"idle", "submit", "wait", "ask", "head", "read", "check", "save",
                    "upload", "report", "cleanup", "remove"}
  /\ worker.outcome \in {"none", "retryable", "final", "delivered"}
  /\ {worker.run, worker.made, worker.usage, worker.told} \subseteq 0..runs
  /\ worker.next \in 1..(Artifacts + 1) /\ attempts \in 0..MaxAttempts
  /\ execution \in {0, runs} /\ parts \subseteq Requests
  /\ disk \in [1..Artifacts -> [run : 0..runs, sound : BOOLEAN]]
  /\ \A h \in handlers : h.sent \in 0..Size[h.art] /\ h.req \in Requests
  /\ \A h, g \in handlers : h.req = g.req => h = g

\* README of the worker, step 7: what is uploaded is, of every artifact, the bytes that
\* the run of this attempt announced, whatever an earlier attempt left on the disk, and
\* whatever happened to the file, the stream or the execution.
UploadedIsAnnounced ==
  At("upload") => \A a \in 1..Artifacts : disk[a] = [run |-> worker.run, sound |-> TRUE]

\* A file that has its name is one that was verified, after a crash too.
NamedIsVerified == \A a \in 1..Artifacts : disk[a].run # 0 => disk[a].sound

\* What a run cost, completed or failed, is told with the completion and with every failure
\* that follows the run: a failed download loses the artifacts, not the bill.
CostIsTold ==
  worker.pc \in {"cleanup", "remove"} /\ worker.ended => worker.told = worker.run

\* README of the worker: after every completed or failed attempt the execution is deleted.
AttemptIsCleaned == At("remove") /\ worker.made # 0 => worker.asked

\* The worker is in an attempt; the broker proxies a request.
Attempting == worker.pc # "idle"
Proxying == handlers # {}
=============================================================================
