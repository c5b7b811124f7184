---------------------------- MODULE ExecutorBroker ----------------------------
(***************************************************************************)
(* The execution broker (executor/src): per takeoff it starts one          *)
(* disposable processor, and takes it away again.                          *)
(*                                                                         *)
(* Every start and every cleanup is a critical section of the controller's *)
(* lock and awaits many things in it; requests, sweeps and the binding of  *)
(* a processor job run between.  The record of an execution is in memory   *)
(* and in a file that is written first: a write that fails may have        *)
(* reached the file.  The broker, the egress proxy, a container and every  *)
(* outside call may fail at any point.                                     *)
(***************************************************************************)
EXTENDS Naturals, FiniteSets

CONSTANTS
  Jobs,          \* source jobs: the takeoffs
  Executions,    \* execution identifiers, drawn at random and never twice
  Clients,       \* request handlers
  NoJob, NoExecution, NoClient,
  MaxConcurrentJobs,
  MaxFaults      \* bound: failures of all kinds

BrokerAssumption ==
  /\ NoJob \notin Jobs /\ NoExecution \notin Executions /\ NoClient \notin Clients
  /\ MaxConcurrentJobs \in Nat /\ MaxFaults \in Nat
  /\ IsFiniteSet(Executions)

VARIABLES
  up,        \* the broker process: "down", "reconciling" or "serving"
  mem,       \* mem[e]: status of the record of e in memory
  disk,      \* the same in the state file
  owner,     \* owner[e]: the source job e was drawn for
  res,       \* res[e]: what exists of e outside the broker
  req,       \* req[c]: where handler c is, its job and its execution
  lock,      \* the critical section under way
  todo,      \* executions that sweeps and the reconciliation still clean up
  failed,    \* a cleanup of the startup reconciliation failed
  expired,   \* executions past expiresAt
  attached,  \* executions registered with the egress instance that runs now
  stopped,   \* executions whose container has exited
  accepted,  \* executions answered to a submission with 202
  faults     \* how many faults there were

records == <<mem, disk>>
world == <<res, attached, stopped>>
sweeps == <<todo, failed>>
history == <<owner, expired, accepted>>
vars == <<up, records, world, req, lock, sweeps, history, faults>>

\* A record is "bound" when it is running and has a processor job.
Status == {"none", "starting", "running", "bound", "cleaning"}
Resources == {"token", "directory", "network", "container"}

Idle == [pc |-> "idle", job |-> NoJob, e |-> NoExecution]
Free == [step |-> "free", e |-> NoExecution, by |-> NoClient, broken |-> FALSE]

Init ==
  /\ up = "serving"
  /\ mem = [e \in Executions |-> "none"]
  /\ disk = mem
  /\ owner = [e \in Executions |-> NoJob]
  /\ res = [e \in Executions |-> {}]
  /\ req = [c \in Clients |-> Idle]
  /\ lock = Free
  /\ todo = {} /\ failed = FALSE
  /\ expired = {} /\ attached = {} /\ stopped = {} /\ accepted = {}
  /\ faults = 0

-----------------------------------------------------------------------------
(* The pieces *)

Fault == faults < MaxFaults /\ faults' = faults + 1

\* AtomicJsonState.mutate
Commit(e, status) ==
  /\ mem' = [mem EXCEPT ![e] = status]
  /\ disk' = mem'
  /\ UNCHANGED faults

\* The write fails before or after the file was renamed into place.
CommitFails(e, status) ==
  /\ Fault
  /\ disk' \in {disk, [mem EXCEPT ![e] = status]}
  /\ UNCHANGED mem

Records == {e \in Executions : mem[e] # "none"}
RecordsOf(j) == {e \in Records : owner[e] = j}
Runtime(e) == res[e] \ {"token"} # {}
Inspectable(e) == {"container", "network"} \subseteq res[e]
Attested(e) == Inspectable(e) /\ e \notin stopped

At(c, pc) == up = "serving" /\ req[c].pc = pc
Goto(c, pc, e) == req' = [req EXCEPT ![c] = [@ EXCEPT !.pc = pc, !.e = e]]
Answer(c) == req' = [req EXCEPT ![c] = Idle]

Locked(step) == lock.step = step
Unlock == lock' = Free
LockStep(step) == lock' = [lock EXCEPT !.step = step]

-----------------------------------------------------------------------------
(* POST /v1/jobs *)

\* recoverProcessorJob.  A record that is not bound answers 409, as does one of
\* another customer or budget class: nothing changes then.
Submit(c, j) ==
  /\ At(c, "idle")
  /\ \/ /\ \E e \in RecordsOf(j) : mem[e] = "bound" /\ accepted' = accepted \cup {e}
        /\ UNCHANGED req
     \/ /\ RecordsOf(j) = {}
        /\ req' = [req EXCEPT ![c] = [Idle EXCEPT !.pc = "start", !.job = j]]
        /\ UNCHANGED accepted
  /\ UNCHANGED <<up, records, world, lock, sweeps, owner, expired, faults>>

\* The limit alone, as if recoverProcessorJob had settled that there is no other.
RefusedByLimit(c) == Cardinality(Records) >= MaxConcurrentJobs

\* startExecution enters the lock and looks again.
Refused(c) == RecordsOf(req[c].job) # {} \/ Cardinality(Records) >= MaxConcurrentJobs

\* Bound: an instance has so many executions; a start beyond them is refused.
UsedUp == \A e \in Executions : owner[e] # NoJob

RefuseStart(c) ==
  /\ At(c, "start") /\ Locked("free")
  /\ Refused(c) \/ UsedUp
  /\ Answer(c)
  /\ UNCHANGED <<up, records, world, lock, sweeps, history, faults>>

\* egress.register is awaited before anything is written.  When its answer is
\* lost the token exists and nobody knows it.
Register(c, e) ==
  /\ At(c, "start") /\ Locked("free")
  /\ ~Refused(c)
  /\ owner[e] = NoJob
  /\ owner' = [owner EXCEPT ![e] = req[c].job]
  /\ res' = [res EXCEPT ![e] = {"token"}]
  /\ attached' = attached \cup {e}
  /\ \/ /\ lock' = [Free EXCEPT !.step = "write", !.e = e, !.by = c]
        /\ Goto(c, "starting", e)
        /\ UNCHANGED faults
     \/ Fault /\ Answer(c) /\ UNCHANGED lock
  /\ UNCHANGED <<up, records, stopped, sweeps, expired, accepted>>

\* An error inside the lock: cleanup of the record, then the answer.
AbandonStart ==
  /\ LockStep("revoke")
  /\ Answer(lock.by)

WriteStarting ==
  /\ Locked("write")
  /\ \/ Commit(lock.e, "starting") /\ LockStep("launch") /\ UNCHANGED req
     \/ CommitFails(lock.e, "starting") /\ AbandonStart
  /\ UNCHANGED <<up, world, sweeps, history>>

\* prepareJobDirectory, then the network and the container of docker.start.
Launch ==
  LET e == lock.e IN
  /\ Locked("launch")
  /\ \/ /\ \/ "directory" \notin res[e] /\ res' = [res EXCEPT ![e] = @ \cup {"directory"}]
           \/ /\ "directory" \in res[e] /\ "network" \notin res[e]
              /\ res' = [res EXCEPT ![e] = @ \cup {"network"}]
           \/ /\ {"directory", "network"} \subseteq res[e]
              /\ res' = [res EXCEPT ![e] = @ \cup {"container"}]
        /\ LockStep(IF "container" \in res'[e] THEN "ready" ELSE "launch")
        /\ UNCHANGED <<req, faults>>
     \* a failed docker.start tries to remove what it made
     \/ /\ Fault /\ AbandonStart
        /\ \E left \in SUBSET {"network", "container"} :
             res' = [res EXCEPT ![e] = (@ \cap {"token", "directory"}) \cup left]
  /\ UNCHANGED <<up, records, attached, stopped, sweeps, history>>

\* The processor answers its readiness check and the record becomes running.
BecomeRunning ==
  LET e == lock.e IN
  /\ Locked("ready")
  /\ Attested(e)
  /\ \/ Commit(e, "running") /\ Unlock /\ Goto(lock.by, "proxy", e)
     \/ CommitFails(e, "running") /\ AbandonStart
  /\ UNCHANGED <<up, world, sweeps, history>>

\* waitUntilReady runs into its deadline.
NotReady ==
  /\ Locked("ready")
  /\ IF Attested(lock.e) THEN Fault ELSE UNCHANGED faults
  /\ AbandonStart
  /\ UNCHANGED <<up, records, world, sweeps, history>>

\* The upload goes to the processor, which takes the job or does not.
ProxyCreate(c) ==
  /\ At(c, "proxy")
  /\ \/ Attested(req[c].e) /\ Goto(c, "bind", req[c].e)
     \/ Goto(c, "undo", req[c].e)
  /\ UNCHANGED <<up, records, world, lock, sweeps, history, faults>>

\* The answer goes out whether or not the binding was written.
AnswerBeforeBinding(c) ==
  LET e == req[c].e IN
  /\ At(c, "bind")
  /\ mem[e] = "running"
  /\ Commit(e, "bound") \/ CommitFails(e, "bound")
  /\ accepted' = accepted \cup {e}
  /\ Answer(c)
  /\ UNCHANGED <<up, world, lock, sweeps, owner, expired>>

\* bindProcessorJob is not under the lock.
BindProcessorJob(c) ==
  LET e == req[c].e IN
  /\ At(c, "bind")
  /\ \/ /\ mem[e] = "running"
        /\ Commit(e, "bound")
        /\ accepted' = accepted \cup {e}
        /\ Answer(c)
     \/ /\ mem[e] = "running"
        /\ CommitFails(e, "bound")
        /\ Goto(c, "undo", e)
        /\ UNCHANGED accepted
     \/ /\ mem[e] # "running"
        /\ Goto(c, "undo", e)
        /\ UNCHANGED <<records, accepted, faults>>
  /\ UNCHANGED <<up, world, lock, sweeps, owner, expired>>

\* DELETE /v1/jobs/<id>: cleanupProcessorJob
DeleteJob(c, e) ==
  /\ At(c, "idle")
  /\ e \in accepted /\ mem[e] # "none"
  /\ Goto(c, "undo", e)
  /\ UNCHANGED <<up, records, world, lock, sweeps, history, faults>>

-----------------------------------------------------------------------------
(* cleanupExecution: under the lock, mark the record, then #cleanupRecord *)

\* Only the startup keeps account of failed cleanups; elsewhere they are logged.
NoteFailure == failed' = (up = "reconciling")

\* The record is left as it is until everything is gone.
CleanUnmarked(e) ==
  /\ up # "down" /\ Locked("free")
  /\ lock' = IF mem[e] = "none" THEN Free ELSE [Free EXCEPT !.step = "revoke", !.e = e]
  /\ UNCHANGED <<records, failed, faults>>

MarkCleaning(e) ==
  /\ up # "down" /\ Locked("free")
  /\ \/ mem[e] = "none" /\ UNCHANGED <<records, lock, failed, faults>>
     \/ /\ mem[e] # "none"
        /\ Commit(e, "cleaning")
        /\ lock' = [Free EXCEPT !.step = "revoke", !.e = e]
        /\ UNCHANGED failed
     \/ /\ mem[e] # "none"
        /\ CommitFails(e, "cleaning")
        /\ NoteFailure
        /\ UNCHANGED lock

Undo(c) ==
  /\ At(c, "undo")
  /\ MarkCleaning(req[c].e)
  /\ Answer(c)
  /\ UNCHANGED <<up, world, todo, history>>

CleanNext(e) ==
  /\ e \in todo
  /\ MarkCleaning(e)
  /\ todo' = todo \ {e}
  /\ UNCHANGED <<up, world, req, history>>

\* Revoke the token, remove container and network, remove the directory: each
\* is tried whatever became of the one before.
Targets == [revoke |-> {"token"}, remove |-> {"container", "network"}, rmdir |-> {"directory"}]

\* Failures are logged, and the record is deleted all the same.
DestroyAndForget ==
  LET e == lock.e  step == lock.step IN
  /\ step \in DOMAIN Targets
  /\ \E left \in SUBSET (res[e] \cap Targets[step]) :
       /\ IF left # {} THEN Fault ELSE UNCHANGED faults
       /\ res' = [res EXCEPT ![e] = (@ \ Targets[step]) \cup left]
  /\ LockStep(CASE step = "revoke" -> "remove" [] step = "remove" -> "rmdir" [] OTHER -> "delete")
  /\ UNCHANGED <<up, records, attached, stopped, req, sweeps, history>>

\* The promise chain is not caught: a cleanup that fails is never left.
DestroyHoldingLock ==
  LET e == lock.e  step == lock.step IN
  /\ step \in DOMAIN Targets
  /\ \E broken \in BOOLEAN :
       /\ IF broken THEN Fault ELSE UNCHANGED faults
       /\ res' = [res EXCEPT ![e] = @ \ Targets[step]]
       /\ LockStep(CASE broken -> "rejected"
                      [] step = "revoke" -> "remove"
                      [] step = "remove" -> "rmdir"
                      [] OTHER -> "delete")
  /\ UNCHANGED <<up, records, attached, stopped, req, sweeps, history>>

Destroy ==
  LET e == lock.e  step == lock.step IN
  /\ step \in DOMAIN Targets
  /\ \E left \in SUBSET (res[e] \cap Targets[step]), broken \in BOOLEAN :
       /\ IF broken THEN Fault ELSE left = {} /\ UNCHANGED faults
       /\ res' = [res EXCEPT ![e] = (@ \ Targets[step]) \cup left]
       /\ lock' =
            CASE step = "revoke" -> [lock EXCEPT !.step = "remove", !.broken = broken]
              [] step = "remove" -> [lock EXCEPT !.step = "rmdir", !.broken = @ \/ broken]
              [] step = "rmdir" -> IF lock.broken \/ broken THEN Free
                                   ELSE [lock EXCEPT !.step = "delete"]
       /\ IF lock' = Free THEN NoteFailure ELSE UNCHANGED failed
  /\ UNCHANGED <<up, records, attached, stopped, req, todo, history>>

\* The record stays, with a status the state file does not allow.
KeepFinishedRecord ==
  /\ Locked("delete")
  /\ Commit(lock.e, "finished")
  /\ Unlock
  /\ UNCHANGED <<up, world, req, sweeps, history>>

DeleteRecord ==
  /\ Locked("delete")
  /\ \/ Commit(lock.e, "none") /\ UNCHANGED failed
     \/ CommitFails(lock.e, "none") /\ NoteFailure
  /\ Unlock
  /\ UNCHANGED <<up, world, req, todo, history>>

-----------------------------------------------------------------------------
(* Sweeps and startup *)

\* Only executions that run are looked at.
SweepExpiredRunning ==
  /\ up = "serving"
  /\ todo' = todo \cup {e \in expired : mem[e] \in {"running", "bound"}}
  /\ UNCHANGED <<up, records, world, req, lock, failed, history, faults>>

SweepExpired ==
  /\ up = "serving"
  /\ todo' = todo \cup (Records \cap expired)
  /\ UNCHANGED <<up, records, world, req, lock, failed, history, faults>>

Unhealthy ==
  {e \in Records : \/ mem[e] = "cleaning"
                   \/ mem[e] = "bound" /\ (e \notin attached \/ ~Attested(e))}

\* docker.inspect of a container that is gone throws out of the whole sweep.
SweepThrows == \E e \in Records \cap attached : mem[e] = "bound" /\ ~Inspectable(e)

SweepUnhealthy ==
  /\ up = "serving"
  /\ ~SweepThrows
  /\ todo' = todo \cup Unhealthy
  /\ UNCHANGED <<up, records, world, req, lock, failed, history, faults>>

\* The state file is read and reconcileStartup begins.
Boot ==
  /\ up = "down"
  /\ up' = "reconciling"
  /\ mem' = disk
  /\ todo' = {e \in Executions :
                /\ disk[e] # "none"
                /\ \/ disk[e] # "bound"
                   \/ e \in expired \/ e \notin attached \/ ~Attested(e)}
  /\ failed' = FALSE
  /\ UNCHANGED <<disk, world, req, lock, history, faults>>

\* One failure aborts the start; so does an execution that is not ready.
Ready == ~failed /\ \A e \in Records : mem[e] = "bound" => e \in attached /\ Attested(e)

FinishStartup ==
  /\ up = "reconciling"
  /\ todo = {} /\ Locked("free")
  /\ \/ Ready /\ up' = "serving" /\ disk' = mem
     \/ ~Ready /\ up' = "down" /\ UNCHANGED disk
  /\ UNCHANGED <<mem, world, req, lock, sweeps, history, faults>>

\* GET /readyz rewrites the file from memory.
VerifyWritable ==
  /\ up = "serving" /\ disk # mem
  /\ disk' = mem
  /\ UNCHANGED <<up, mem, world, req, lock, sweeps, history, faults>>

-----------------------------------------------------------------------------
(* What happens to the broker *)

Crash ==
  /\ up # "down" /\ Fault
  /\ up' = "down"
  /\ req' = [c \in Clients |-> Idle]
  /\ Unlock
  /\ todo' = {}
  /\ UNCHANGED <<records, world, failed, history>>

EgressRestarts ==
  /\ attached # {} /\ Fault
  /\ attached' = {}
  /\ UNCHANGED <<up, records, res, stopped, req, lock, sweeps, history>>

\* A container exits, or is removed from the host by other hands.
ContainerDies(e) ==
  /\ "container" \in res[e] /\ Fault
  /\ \/ e \notin stopped /\ stopped' = stopped \cup {e} /\ UNCHANGED res
     \/ res' = [res EXCEPT ![e] = @ \ {"container"}] /\ UNCHANGED stopped
  /\ UNCHANGED <<up, records, attached, req, lock, sweeps, history>>

Expire(e) ==
  /\ owner[e] # NoJob /\ e \notin expired
  /\ expired' = expired \cup {e}
  /\ UNCHANGED <<up, records, world, req, lock, sweeps, owner, accepted, faults>>

\* The registry drops a token at the same instant the record expires at.
TokenExpires(e) ==
  /\ e \in expired /\ "token" \in res[e]
  /\ res' = [res EXCEPT ![e] = @ \ {"token"}]
  /\ UNCHANGED <<up, records, attached, stopped, req, lock, sweeps, history, faults>>

-----------------------------------------------------------------------------

Handler(c) ==
  \/ RefuseStart(c) \/ \E e \in Executions : Register(c, e)
  \/ ProxyCreate(c) \/ BindProcessorJob(c) \/ Undo(c)

Section == WriteStarting \/ Launch \/ BecomeRunning \/ NotReady \/ Destroy \/ DeleteRecord

Startup == Boot \/ FinishStartup

Environment ==
  \/ Crash \/ EgressRestarts
  \/ \E e \in Executions : ContainerDies(e) \/ Expire(e) \/ TokenExpires(e)

Next ==
  \/ \E c \in Clients : \/ Handler(c)
                        \/ \E j \in Jobs : Submit(c, j)
                        \/ \E e \in Executions : DeleteJob(c, e)
  \/ Section
  \/ \E e \in Executions : CleanNext(e)
  \/ SweepExpired \/ SweepUnhealthy \/ VerifyWritable
  \/ Startup
  \/ Environment

Spec == Init /\ [][Next]_vars

-----------------------------------------------------------------------------
(* Properties *)

TypeOK ==
  /\ up \in {"down", "reconciling", "serving"}
  /\ mem \in [Executions -> Status] /\ disk \in [Executions -> Status]
  /\ owner \in [Executions -> Jobs \cup {NoJob}]
  /\ res \in [Executions -> SUBSET Resources]
  /\ req \in [Clients -> [pc: {"idle", "start", "starting", "proxy", "bind", "undo"},
                         job: Jobs \cup {NoJob}, e: Executions \cup {NoExecution}]]
  /\ lock \in [step: {"free", "write", "launch", "ready", "revoke", "remove", "rmdir", "delete"},
              e: Executions \cup {NoExecution}, by: Clients \cup {NoClient}, broken: BOOLEAN]
  /\ todo \subseteq Executions /\ failed \in BOOLEAN
  /\ expired \subseteq Executions /\ attached \subseteq Executions
  /\ stopped \subseteq Executions /\ accepted \subseteq Executions
  /\ faults \in 0..MaxFaults

\* Whatever exists of an execution on the host is in the state file, so that a
\* broker that crashes at any point finds it when it starts again.
RuntimesAreTracked == \A e \in Executions : Runtime(e) => disk[e] # "none"

\* A token without a record opens nothing: its execution has no container, no network
\* and no directory, and none of its submissions was answered with 202. Such tokens
\* exist: that of a start whose registration was not answered, or whose record was
\* not written before the broker died. They are left to expire.
LostTokensAreUnused ==
  \A e \in Executions :
    "token" \in res[e] /\ disk[e] = "none" => ~Runtime(e) /\ e \notin accepted

\* A submission answered with 202 is never forgotten: as long as the execution
\* exists a resubmission of the takeoff finds its processor job, also after a
\* crash, a failed write or in the middle of a sweep.
AcceptedIsRecoverable ==
  \A e \in accepted : {mem[e], disk[e]} \subseteq {"bound", "cleaning", "none"}

\* The token is revoked first, but never before the record says so: what the
\* broker still counts as running can still call the model.
RunningHasToken ==
  up = "serving" =>
    \A e \in Executions \ expired : mem[e] \in {"running", "bound"} => "token" \in res[e]

\* The runtimes on the host are a pool: at most one per takeoff, and never more
\* than maxConcurrentJobs, whoever starts, sweeps or restarts meanwhile.
Working(j) == {e \in Executions : owner[e] = j /\ Runtime(e)}

heldBar == [j \in Jobs |-> IF Working(j) = {} THEN NoExecution ELSE CHOOSE e \in Working(j) : TRUE]

Pool == INSTANCE ExecutionPool WITH held <- heldBar, Limit <- MaxConcurrentJobs
PoolSpec == Pool!Spec

\* What the broker still owes an execution, and what a caller still waits for.
Occupied(e) == owner[e] # NoJob
Freed(e) == res[e] = {} /\ mem[e] = "none"
Waiting(c) == req[c].pc # "idle"
=============================================================================
