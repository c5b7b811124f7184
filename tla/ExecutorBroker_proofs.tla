------------------------ MODULE ExecutorBroker_proofs ------------------------
(***************************************************************************)
(* Theorems about the execution broker, for every number of takeoffs,      *)
(* executions, request handlers and faults, and every limit.               *)
(***************************************************************************)
EXTENDS ExecutorBroker, FiniteSetTheorems, TLAPS

Building == {"write", "launch", "ready"}
Clearing == {"revoke", "remove", "rmdir", "delete"}
Runtimes == {e \in Executions : Runtime(e)}

\* What has a trace anywhere was drawn for a takeoff, and a handler past its
\* first step has the takeoff or the execution it needs.
OwnerInv ==
  /\ \A e \in Executions :
       mem[e] # "none" \/ disk[e] # "none" \/ res[e] # {} \/ e \in accepted
       => owner[e] \in Jobs
  /\ \A c \in Clients :
       /\ req[c].pc = "start" => req[c].job \in Jobs
       /\ req[c].pc \in {"proxy", "bind", "undo"} => req[c].e \in Executions

\* What the critical section knows of its execution at each of its steps.  A
\* cleanup that is still whole has taken away what its step says.
LockInv ==
  LET e == lock.e  step == lock.step IN
  /\ step # "free" => up # "down" /\ e \in Executions
  /\ step \in Building =>
       up = "serving" /\ owner[e] \in Jobs /\ lock.by \in Clients
  /\ step = "write" => /\ mem[e] = "none" /\ disk[e] = "none"
                       /\ res[e] \subseteq {"token"} /\ e \notin accepted
  /\ step \in {"launch", "ready"} => mem[e] = "starting" /\ disk[e] = "starting"
  /\ step \in Clearing => mem[e] \notin {"running", "bound"}
  /\ step = "rmdir" /\ ~lock.broken => res[e] \cap {"network", "container"} = {}
  /\ step = "delete" => res[e] \subseteq {"token"}

\* A runtime is on disk, and in the memory of a broker that is up.
TrackInv ==
  \A e \in Runtimes : disk[e] # "none" /\ (up # "down" => mem[e] # "none")

\* How far the file and the memory may differ about a bound record
CopyInv ==
  \A e \in Executions :
    /\ up # "down" /\ disk[e] = "bound" => mem[e] \in {"bound", "running"}
    /\ mem[e] = "bound" => disk[e] \in {"bound", "cleaning", "none"}

\* What is bound anywhere, running or being built has its token until it
\* expires.  A start that succeeds leaves no record in between.
TokenInv ==
  /\ \A e \in Executions \ expired :
       \/ mem[e] = "bound" /\ up # "down"
       \/ disk[e] = "bound"
       \/ mem[e] = "running" /\ up = "serving"
       \/ lock.step \in Building /\ lock.e = e
       => "token" \in res[e]
  /\ up = "reconciling" /\ ~failed =>
       \A e \in Executions : mem[e] = "running" => e \in todo

\* A cleanup that is still whole has revoked the token, so that a record goes after the
\* token, from memory as from the file.
RevokedInv ==
  /\ \A e \in Executions : "token" \in res[e] =>
       /\ up # "down" /\ mem[e] # "none" => disk[e] # "none"
       /\ e \in accepted => disk[e] # "none" /\ (up # "down" => mem[e] # "none")
  /\ \/ lock.step = "delete"
     \/ lock.step \in {"remove", "rmdir"} /\ ~lock.broken
     => "token" \notin res[lock.e]

\* The limit and the exclusion of a second start, which were checked when the
\* lock was taken, hold until the record is written and the runtime is made.
PoolInv ==
  /\ \A e, f \in Runtimes : owner[e] = owner[f] => e = f
  /\ Cardinality(Runtimes) <= MaxConcurrentJobs
  /\ lock.step = "write" => /\ RecordsOf(owner[lock.e]) = {}
                            /\ Cardinality(Records) < MaxConcurrentJobs
  /\ lock.step = "launch" => /\ RecordsOf(owner[lock.e]) \subseteq {lock.e}
                             /\ Cardinality(Records) <= MaxConcurrentJobs

BrokerInv ==
  /\ TypeOK /\ OwnerInv /\ LockInv /\ TrackInv /\ CopyInv /\ TokenInv
  /\ AcceptedIsRecoverable

-----------------------------------------------------------------------------
(* Types *)

PCs == {"idle", "start", "starting", "proxy", "bind", "undo"}
Steps == {"free"} \cup Building \cup Clearing

RecordsOK == mem \in [Executions -> Status] /\ disk \in [Executions -> Status]
ReqOK == req \in [Clients -> [pc: PCs, job: Jobs \cup {NoJob},
                              e: Executions \cup {NoExecution}]]
LockOK == lock \in [step: Steps, e: Executions \cup {NoExecution},
                    by: Clients \cup {NoClient}, broken: BOOLEAN]
SweepsOK == todo \subseteq Executions /\ failed \in BOOLEAN
WorldOK == /\ res \in [Executions -> SUBSET Resources]
           /\ attached \subseteq Executions /\ stopped \subseteq Executions
HistoryOK == /\ owner \in [Executions -> Jobs \cup {NoJob}]
             /\ expired \subseteq Executions /\ accepted \subseteq Executions
FaultsOK == faults \in 0..MaxFaults

\* TypeOK in parts, so that a step need only be looked at for what it changes
LEMMA TypeParts ==
  TypeOK <=> /\ up \in {"down", "reconciling", "serving"}
             /\ RecordsOK /\ ReqOK /\ LockOK /\ SweepsOK /\ WorldOK /\ HistoryOK
             /\ FaultsOK
BY DEF TypeOK, RecordsOK, ReqOK, LockOK, SweepsOK, WorldOK, HistoryOK, FaultsOK,
       PCs, Steps, Building, Clearing

\* The same for a step's result
LEMMA TypePartsNext ==
  TypeOK' <=> /\ up' \in {"down", "reconciling", "serving"}
              /\ RecordsOK' /\ ReqOK' /\ LockOK' /\ SweepsOK' /\ WorldOK' /\ HistoryOK'
              /\ FaultsOK'
BY DEF TypeOK, RecordsOK, ReqOK, LockOK, SweepsOK, WorldOK, HistoryOK, FaultsOK,
       PCs, Steps, Building, Clearing

\* What a part keeps when its variables do not change
LEMMA Untouched ==
  ASSUME TypeOK
  PROVE  /\ UNCHANGED records => RecordsOK'
         /\ UNCHANGED req => ReqOK'
         /\ UNCHANGED lock => LockOK'
         /\ UNCHANGED sweeps => SweepsOK'
         /\ UNCHANGED world => WorldOK'
         /\ UNCHANGED history => HistoryOK'
         /\ UNCHANGED faults => FaultsOK'
BY TypeParts
DEF RecordsOK, ReqOK, LockOK, SweepsOK, WorldOK, HistoryOK, FaultsOK, records,
    sweeps, world, history

\* A write of the state file, whether it succeeds or not
LEMMA WriteTyped ==
  ASSUME BrokerAssumption, TypeOK, NEW e, NEW s \in Status, Commit(e, s) \/ CommitFails(e, s)
  PROVE  RecordsOK' /\ FaultsOK'
<1> USE TypeParts DEF BrokerAssumption, RecordsOK, FaultsOK
<1>1. CASE Commit(e, s)
  BY <1>1 DEF Commit
<1>2. CASE CommitFails(e, s)
  <2>1. [mem EXCEPT ![e] = s] \in [Executions -> Status]
    OBVIOUS
  <2> QED
    BY <1>2, <2>1 DEF CommitFails, Fault
<1> QED
  BY <1>1, <1>2

\* Faults are counted up to their bound.
LEMMA FaultTyped ==
  ASSUME BrokerAssumption, TypeOK, Fault \/ UNCHANGED faults
  PROVE  FaultsOK'
BY TypeParts DEF BrokerAssumption, Fault, FaultsOK

\* A handler that goes on, or answers and is idle again
LEMMA GotoTyped ==
  ASSUME TypeOK, NEW c, NEW pc \in PCs, NEW e \in Executions,
         Goto(c, pc, e) \/ Answer(c)
  PROVE  ReqOK'
<1> USE TypeParts DEF ReqOK
<1>1. CASE Goto(c, pc, e)
  BY <1>1 DEF Goto
<1>2. CASE Answer(c)
  BY <1>2 DEF Answer, Idle, PCs
<1> QED
  BY <1>1, <1>2

\* A critical section that goes on or ends
LEMMA LockTyped ==
  ASSUME TypeOK, NEW s \in Steps, LockStep(s) \/ Unlock
  PROVE  LockOK'
<1> USE TypeParts DEF LockOK
<1>1. CASE LockStep(s)
  BY <1>1 DEF LockStep
<1>2. CASE Unlock
  BY <1>2 DEF Unlock, Free, Steps
<1> QED
  BY <1>1, <1>2

\* A critical section that begins
LEMMA TakeTyped ==
  ASSUME TypeOK, NEW s \in Steps, NEW e \in Executions, NEW c \in Clients \cup {NoClient},
         lock' = [step |-> s, e |-> e, by |-> c, broken |-> FALSE]
  PROVE  LockOK'
BY DEF LockOK

\* The first step of a cleanup
LEMMA MarkTyped ==
  ASSUME BrokerAssumption, TypeOK, NEW e \in Executions, MarkCleaning(e)
  PROVE  RecordsOK' /\ LockOK' /\ failed' \in BOOLEAN /\ FaultsOK'
<1> USE TypeParts DEF BrokerAssumption
<1>1. failed \in BOOLEAN /\ failed' \in BOOLEAN
  BY DEF MarkCleaning, NoteFailure, SweepsOK
<1>2. CASE mem[e] = "none" /\ UNCHANGED <<records, lock, failed, faults>>
  BY <1>1, <1>2, Untouched
<1>3. CASE Commit(e, "cleaning") /\ lock' = [Free EXCEPT !.step = "revoke", !.e = e]
  <2>1. LockOK'
    BY <1>3, TakeTyped DEF Free, Steps, Clearing
  <2> QED
    BY <1>1, <1>3, <2>1, WriteTyped DEF Status
<1>4. CASE CommitFails(e, "cleaning") /\ UNCHANGED lock
  BY <1>1, <1>4, WriteTyped, Untouched DEF Status
<1> QED
  BY <1>2, <1>3, <1>4 DEF MarkCleaning

\* Every step of the broker and of what surrounds it keeps the types.
LEMMA TypeStep ==
  ASSUME BrokerAssumption, TypeOK, OwnerInv, LockInv, [Next]_vars
  PROVE  TypeOK'
<1> USE TypeParts, TypePartsNext, Untouched
<1>1. ASSUME NEW c \in Clients, NEW j \in Jobs, Submit(c, j)
      PROVE  TypeOK'
  <2>1. ReqOK'
    BY <1>1 DEF Submit, ReqOK, Idle, PCs
  <2>2. HistoryOK'
    BY <1>1 DEF Submit, HistoryOK, RecordsOf, Records
  <2> QED
    BY <1>1, <2>1, <2>2 DEF Submit
<1>2. ASSUME NEW c \in Clients, RefuseStart(c)
      PROVE  TypeOK'
  <2>1. ReqOK'
    BY <1>2 DEF RefuseStart, Answer, ReqOK, Idle, PCs
  <2> QED
    BY <1>2, <2>1 DEF RefuseStart
<1>3. ASSUME NEW c \in Clients, ProxyCreate(c)
      PROVE  TypeOK'
  <2>1. ReqOK'
    BY <1>3, GotoTyped DEF ProxyCreate, At, OwnerInv, PCs
  <2> QED
    BY <1>3, <2>1 DEF ProxyCreate
<1>4. ASSUME NEW c \in Clients, NEW e \in Executions, DeleteJob(c, e)
      PROVE  TypeOK'
  <2>1. ReqOK'
    BY <1>4, GotoTyped DEF DeleteJob, PCs
  <2> QED
    BY <1>4, <2>1 DEF DeleteJob
<1>5. ASSUME NEW c \in Clients, NEW e \in Executions, Register(c, e)
      PROVE  TypeOK'
  <2>1. ReqOK'
    BY <1>5, GotoTyped DEF Register, PCs
  <2>2. LockOK'
    BY <1>5, TakeTyped DEF Register, Free, Steps, Building
  <2>3. FaultsOK'
    BY <1>5, FaultTyped DEF Register
  <2>4. WorldOK'
    BY <1>5 DEF Register, WorldOK, Resources
  <2>5. HistoryOK'
    BY <1>5 DEF Register, HistoryOK, OwnerInv, At
  <2> QED
    BY <1>5, <2>1, <2>2, <2>3, <2>4, <2>5 DEF Register
<1>6. ASSUME NEW c \in Clients, BindProcessorJob(c)
      PROVE  TypeOK'
  <2>1. req[c].e \in Executions
    BY <1>6 DEF BindProcessorJob, At, OwnerInv
  <2>2. ReqOK'
    BY <1>6, <2>1, GotoTyped DEF BindProcessorJob, PCs
  <2>3. RecordsOK' /\ FaultsOK'
    BY <1>6, <2>1, WriteTyped DEF BindProcessorJob, Status
  <2>4. HistoryOK'
    BY <1>6, <2>1 DEF BindProcessorJob, HistoryOK
  <2> QED
    BY <1>6, <2>2, <2>3, <2>4 DEF BindProcessorJob
<1>7. ASSUME NEW c \in Clients, Undo(c)
      PROVE  TypeOK'
  <2>1. req[c].e \in Executions
    BY <1>7 DEF Undo, At, OwnerInv
  <2>2. ReqOK'
    BY <1>7, <2>1, GotoTyped DEF Undo, PCs
  <2>3. RecordsOK' /\ LockOK' /\ failed' \in BOOLEAN /\ FaultsOK'
    BY <1>7, <2>1, MarkTyped DEF Undo
  <2> QED
    BY <1>7, <2>2, <2>3 DEF Undo, SweepsOK
<1>8. CASE WriteStarting
  <2>1. lock.e \in Executions
    BY <1>8 DEF WriteStarting, Locked, LockInv
  <2>2. ReqOK' /\ LockOK'
    BY <1>8, <2>1, GotoTyped, LockTyped
    DEF WriteStarting, AbandonStart, PCs, Steps, Building, Clearing
  <2>3. RecordsOK' /\ FaultsOK'
    BY <1>8, <2>1, WriteTyped DEF WriteStarting, Status
  <2> QED
    BY <1>8, <2>2, <2>3 DEF WriteStarting
<1>9. CASE Launch
  <2>1. lock.e \in Executions
    BY <1>9 DEF Launch, Locked, LockInv
  <2>2. ReqOK' /\ LockOK'
    BY <1>9, <2>1, GotoTyped, LockTyped
    DEF Launch, AbandonStart, PCs, Steps, Building, Clearing
  <2>3. WorldOK'
    BY <1>9, <2>1 DEF Launch, WorldOK, Resources
  <2>4. FaultsOK'
    BY <1>9, FaultTyped DEF Launch
  <2> QED
    BY <1>9, <2>2, <2>3, <2>4 DEF Launch
<1>10. CASE BecomeRunning
  <2>1. lock.e \in Executions
    BY <1>10 DEF BecomeRunning, Locked, LockInv
  <2>2. ReqOK' /\ LockOK'
    BY <1>10, <2>1, GotoTyped, LockTyped
    DEF BecomeRunning, AbandonStart, PCs, Steps, Building, Clearing
  <2>3. RecordsOK' /\ FaultsOK'
    BY <1>10, <2>1, WriteTyped DEF BecomeRunning, Status
  <2> QED
    BY <1>10, <2>2, <2>3 DEF BecomeRunning
<1>11. CASE NotReady
  <2>1. lock.e \in Executions
    BY <1>11 DEF NotReady, Locked, LockInv
  <2>2. ReqOK' /\ LockOK'
    BY <1>11, <2>1, GotoTyped, LockTyped
    DEF NotReady, AbandonStart, PCs, Steps, Clearing
  <2>3. FaultsOK'
    BY <1>11, FaultTyped DEF NotReady
  <2> QED
    BY <1>11, <2>2, <2>3 DEF NotReady
<1>12. CASE Destroy
  <2>0. DOMAIN Targets = {"revoke", "remove", "rmdir"}
    BY DEF Targets
  <2>1. WorldOK'
    <3>1. PICK left \in SUBSET (res[lock.e] \cap Targets[lock.step]) :
            res' = [res EXCEPT ![lock.e] = (@ \ Targets[lock.step]) \cup left]
      BY <1>12 DEF Destroy
    <3>2. lock.e \in Executions
      BY <1>12, <2>0 DEF Destroy, LockInv
    <3>3. (res[lock.e] \ Targets[lock.step]) \cup left \in SUBSET Resources
      BY <3>2 DEF WorldOK
    <3> QED
      BY <1>12, <3>1, <3>3 DEF Destroy, WorldOK
  <2>2. FaultsOK'
    BY <1>12, FaultTyped DEF Destroy
  <2>3. LockOK'
    <3>1. PICK b \in BOOLEAN :
            \/ lock' = [lock EXCEPT !.step = "remove", !.broken = b]
            \/ lock' = [lock EXCEPT !.step = "rmdir", !.broken = @ \/ b]
            \/ lock' = Free
            \/ lock' = [lock EXCEPT !.step = "delete"]
      BY <1>12, <2>0 DEF Destroy
    <3>2. CASE lock' = Free
      BY <3>2 DEF LockOK, Free, Steps
    <3>3. CASE lock' = [lock EXCEPT !.step = "delete"]
      BY <3>3 DEF LockOK, Steps, Clearing
    <3>4. CASE lock' = [lock EXCEPT !.step = "remove", !.broken = b]
      BY <3>4 DEF LockOK, Steps, Clearing
    <3>5. CASE lock' = [lock EXCEPT !.step = "rmdir", !.broken = @ \/ b]
      <4>1. (lock.broken \/ b) \in BOOLEAN
        BY DEF LockOK
      <4> QED
        BY <3>5, <4>1 DEF LockOK, Steps, Clearing
    <3> QED
      BY <3>1, <3>2, <3>3, <3>4, <3>5
  <2>4. SweepsOK'
    BY <1>12 DEF Destroy, SweepsOK, NoteFailure
  <2> QED
    BY <1>12, <2>1, <2>2, <2>3, <2>4 DEF Destroy
<1>13. CASE DeleteRecord
  <2>1. LockOK'
    BY <1>13, LockTyped DEF DeleteRecord, Steps
  <2>2. RecordsOK' /\ FaultsOK'
    BY <1>13, WriteTyped DEF DeleteRecord, Status
  <2>3. SweepsOK'
    BY <1>13 DEF DeleteRecord, SweepsOK, NoteFailure
  <2> QED
    BY <1>13, <2>1, <2>2, <2>3 DEF DeleteRecord
<1>14. ASSUME NEW e \in Executions, CleanNext(e)
       PROVE  TypeOK'
  <2>1. RecordsOK' /\ LockOK' /\ failed' \in BOOLEAN /\ FaultsOK'
    BY <1>14, MarkTyped DEF CleanNext
  <2>2. SweepsOK'
    BY <1>14, <2>1 DEF CleanNext, SweepsOK
  <2> QED
    BY <1>14, <2>1, <2>2 DEF CleanNext
<1>15. CASE SweepExpired \/ SweepUnhealthy
  <2>1. SweepsOK'
    BY <1>15 DEF SweepExpired, SweepUnhealthy, SweepsOK, Records, Unhealthy
  <2> QED
    BY <1>15, <2>1 DEF SweepExpired, SweepUnhealthy
<1>16. CASE VerifyWritable
  BY <1>16 DEF VerifyWritable, RecordsOK
<1>17. CASE Boot
  BY <1>17 DEF Boot, RecordsOK, SweepsOK
<1>18. CASE FinishStartup
  BY <1>18 DEF FinishStartup, RecordsOK
<1>19. CASE Crash
  <2>1. ReqOK' /\ SweepsOK'
    BY <1>19 DEF Crash, ReqOK, SweepsOK, Idle, PCs
  <2>2. LockOK' /\ FaultsOK'
    BY <1>19, LockTyped, FaultTyped DEF Crash, Steps
  <2> QED
    BY <1>19, <2>1, <2>2 DEF Crash
<1>20. CASE EgressRestarts
  BY <1>20, FaultTyped DEF EgressRestarts, WorldOK
<1>21. ASSUME NEW e \in Executions, ContainerDies(e)
       PROVE  TypeOK'
  BY <1>21, FaultTyped DEF ContainerDies, WorldOK
<1>22. ASSUME NEW e \in Executions, Expire(e)
       PROVE  TypeOK'
  BY <1>22 DEF Expire, HistoryOK
<1>23. ASSUME NEW e \in Executions, TokenExpires(e)
       PROVE  TypeOK'
  BY <1>23 DEF TokenExpires, WorldOK
<1>24. CASE UNCHANGED vars
  BY <1>24 DEF vars
<1> QED
  BY <1>1, <1>2, <1>3, <1>4, <1>5, <1>6, <1>7, <1>8, <1>9, <1>10, <1>11, <1>12,
     <1>13, <1>14, <1>15, <1>16, <1>17, <1>18, <1>19, <1>20, <1>21, <1>22, <1>23,
     <1>24
  DEF Next, Handler, Section, Startup, Environment

-----------------------------------------------------------------------------
(* What the pieces do, execution by execution *)

\* A write that succeeds
LEMMA CommitEffect ==
  ASSUME TypeOK, NEW e, NEW s, Commit(e, s)
  PROVE  \A f \in Executions :
           mem'[f] = (IF f = e THEN s ELSE mem[f]) /\ disk'[f] = mem'[f]
BY TypeParts DEF RecordsOK, Commit

\* A write that fails, and may have reached the file
LEMMA CommitFailsEffect ==
  ASSUME TypeOK, NEW e, NEW s, CommitFails(e, s)
  PROVE  /\ mem' = mem
         /\ \/ disk' = disk
            \/ \A f \in Executions : disk'[f] = IF f = e THEN s ELSE mem[f]
BY TypeParts DEF RecordsOK, CommitFails

\* A handler that goes on
LEMMA GotoEffect ==
  ASSUME TypeOK, NEW c, NEW pc, NEW e, Goto(c, pc, e)
  PROVE  \A d \in Clients :
           /\ req'[d].pc = IF d = c THEN pc ELSE req[d].pc
           /\ req'[d].e = IF d = c THEN e ELSE req[d].e
           /\ req'[d].job = req[d].job
BY TypeParts DEF ReqOK, Goto

\* A handler that answers
LEMMA AnswerEffect ==
  ASSUME TypeOK, NEW c, Answer(c)
  PROVE  \A d \in Clients : IF d = c THEN req'[d].pc = "idle" ELSE req'[d] = req[d]
BY TypeParts DEF ReqOK, Answer, Idle

\* A critical section that goes on
LEMMA LockStepEffect ==
  ASSUME TypeOK, NEW s, LockStep(s)
  PROVE  /\ lock'.step = s /\ lock'.e = lock.e
         /\ lock'.by = lock.by /\ lock'.broken = lock.broken
BY TypeParts DEF LockOK, LockStep

\* A start that fails is cleaned up by the same critical section.
LEMMA AbandonEffect ==
  ASSUME TypeOK, AbandonStart
  PROVE  /\ lock'.step = "revoke" /\ lock'.e = lock.e
         /\ \A d \in Clients :
              IF d = lock.by THEN req'[d].pc = "idle" ELSE req'[d] = req[d]
BY LockStepEffect, AnswerEffect DEF AbandonStart

\* A cleanup begins with a record that is marked, or does not begin.
LEMMA MarkEffect ==
  ASSUME TypeOK, NEW e \in Executions, MarkCleaning(e)
  PROVE  /\ up # "down" /\ lock.step = "free"
         /\ \/ /\ mem[e] = "none" /\ UNCHANGED <<mem, disk, lock, failed>>
            \/ /\ mem[e] # "none" /\ UNCHANGED failed
               /\ \A f \in Executions :
                    /\ mem'[f] = IF f = e THEN "cleaning" ELSE mem[f]
                    /\ disk'[f] = mem'[f]
               /\ lock'.step = "revoke" /\ lock'.e = e
            \/ /\ mem[e] # "none" /\ failed' = (up = "reconciling")
               /\ UNCHANGED <<mem, lock>>
               /\ \/ disk' = disk
                  \/ \A f \in Executions :
                       disk'[f] = IF f = e THEN "cleaning" ELSE mem[f]
<1>1. up # "down" /\ lock.step = "free"
  BY DEF MarkCleaning, Locked
<1>2. CASE mem[e] = "none" /\ UNCHANGED <<records, lock, failed, faults>>
  BY <1>1, <1>2 DEF records
<1>3. CASE mem[e] # "none" /\ Commit(e, "cleaning")
           /\ lock' = [Free EXCEPT !.step = "revoke", !.e = e] /\ UNCHANGED failed
  BY <1>1, <1>3, CommitEffect DEF Free
<1>4. CASE mem[e] # "none" /\ CommitFails(e, "cleaning") /\ NoteFailure /\ UNCHANGED lock
  BY <1>1, <1>4, CommitFailsEffect DEF NoteFailure
<1> QED
  BY <1>1, <1>2, <1>3, <1>4 DEF MarkCleaning

\* The launch adds the directory, the network and the container in turn; when
\* it fails it gives up the network and the container, and may fail in that.
LEMMA LaunchEffect ==
  ASSUME TypeOK, LockInv, Launch
  PROVE  /\ lock.step = "launch" /\ lock.e \in Executions
         /\ \A f \in Executions \ {lock.e} : res'[f] = res[f]
         /\ "token" \in res[lock.e] => "token" \in res'[lock.e]
         /\ lock'.e = lock.e
         /\ \/ /\ lock'.step \in {"launch", "ready"} /\ lock'.by = lock.by
               /\ UNCHANGED req
            \/ AbandonStart
<1> USE TypeParts DEF WorldOK
<1>1. lock.step = "launch" /\ lock.e \in Executions
  BY DEF Launch, Locked, LockInv
<1>2. \A f \in Executions \ {lock.e} : res'[f] = res[f]
  BY DEF Launch
<1>3. "token" \in res[lock.e] => "token" \in res'[lock.e]
  BY <1>1 DEF Launch
<1>4. \/ /\ lock'.step \in {"launch", "ready"} /\ lock'.by = lock.by /\ lock'.e = lock.e
         /\ UNCHANGED req
      \/ AbandonStart
  BY LockStepEffect DEF Launch
<1> QED
  BY <1>1, <1>2, <1>3, <1>4, AbandonEffect

\* A cleanup goes on to the next step whatever fails, and only one that was
\* whole comes to delete the record.
LEMMA DestroyEffect ==
  ASSUME TypeOK, LockInv, Destroy
  PROVE  LET e == lock.e IN
         /\ lock.step \in {"revoke", "remove", "rmdir"} /\ e \in Executions
         /\ \A f \in Executions \ {e} : res'[f] = res[f]
         /\ res'[e] \subseteq res[e]
         /\ lock.step # "revoke" => ("token" \in res[e] <=> "token" \in res'[e])
         /\ \/ lock.step = "revoke" /\ lock'.step = "remove" /\ lock'.e = e
            \/ /\ lock.step = "remove" /\ lock'.step = "rmdir" /\ lock'.e = e
               /\ ~lock'.broken => res'[e] \cap {"network", "container"} = {}
            \/ /\ lock.step = "rmdir" /\ lock'.step = "delete" /\ lock'.e = e
               /\ ~lock.broken /\ "directory" \notin res'[e]
            \/ lock' = Free
         /\ failed' = (IF lock' = Free THEN up = "reconciling" ELSE failed)
<1> USE TypeParts DEF WorldOK
<1>0. DOMAIN Targets = {"revoke", "remove", "rmdir"}
      /\ Targets["revoke"] = {"token"} /\ Targets["remove"] = {"container", "network"}
      /\ Targets["rmdir"] = {"directory"}
  BY DEF Targets
<1>1. lock.step \in {"revoke", "remove", "rmdir"} /\ lock.e \in Executions
  BY <1>0 DEF Destroy, LockInv
<1>2. PICK left \in SUBSET (res[lock.e] \cap Targets[lock.step]), b \in BOOLEAN :
        /\ ~b => left = {}
        /\ res' = [res EXCEPT ![lock.e] = (@ \ Targets[lock.step]) \cup left]
        /\ \/ lock.step = "revoke" /\ lock' = [lock EXCEPT !.step = "remove", !.broken = b]
           \/ lock.step = "remove" /\ lock' = [lock EXCEPT !.step = "rmdir", !.broken = @ \/ b]
           \/ lock.step = "rmdir" /\ (lock.broken \/ b) /\ lock' = Free
           \/ lock.step = "rmdir" /\ ~lock.broken /\ ~b
              /\ lock' = [lock EXCEPT !.step = "delete"]
  BY <1>0, <1>1 DEF Destroy
<1>3. /\ \A f \in Executions \ {lock.e} : res'[f] = res[f]
      /\ res'[lock.e] = (res[lock.e] \ Targets[lock.step]) \cup left
      /\ res'[lock.e] \subseteq res[lock.e]
  BY <1>1, <1>2
<1>4. failed' = (IF lock' = Free THEN up = "reconciling" ELSE failed)
  BY DEF Destroy, NoteFailure
<1>5. CASE lock.step = "revoke"
  BY <1>1, <1>2, <1>3, <1>4, <1>5 DEF LockOK
<1>6. CASE lock.step = "remove"
  <2>1. ~b => res'[lock.e] \cap {"network", "container"} = {}
    BY <1>0, <1>2, <1>3, <1>6
  <2>2. lock' = [lock EXCEPT !.step = "rmdir", !.broken = @ \/ b]
    BY <1>2, <1>6
  <2>3. lock'.step = "rmdir" /\ lock'.e = lock.e /\ (~lock'.broken => ~b)
    BY <2>2 DEF LockOK
  <2>4. "token" \in res[lock.e] <=> "token" \in res'[lock.e]
    BY <1>0, <1>3, <1>6
  <2> QED
    BY <1>1, <1>3, <1>4, <1>6, <2>1, <2>3, <2>4
<1>7. CASE lock.step = "rmdir"
  <2>1. "token" \in res[lock.e] <=> "token" \in res'[lock.e]
    BY <1>0, <1>3, <1>7
  <2>2. CASE lock' = Free
    BY <1>1, <1>3, <1>4, <1>7, <2>1, <2>2
  <2>3. CASE ~lock.broken /\ ~b /\ lock' = [lock EXCEPT !.step = "delete"]
    <3>1. "directory" \notin res'[lock.e]
      BY <1>0, <1>2, <1>3, <1>7, <2>3
    <3>2. lock'.step = "delete" /\ lock'.e = lock.e
      BY <2>3 DEF LockOK
    <3> QED
      BY <1>1, <1>3, <1>4, <1>7, <2>1, <2>3, <3>1, <3>2
  <2> QED
    BY <1>2, <1>7, <2>2, <2>3
<1> QED
  BY <1>1, <1>5, <1>6, <1>7

-----------------------------------------------------------------------------
(* The invariant, part by part *)

\* Owners and handlers are in order after every step.
LEMMA OwnerStep ==
  ASSUME TypeOK, OwnerInv, LockInv, [Next]_vars
  PROVE  OwnerInv'
<1> USE TypeParts DEF RecordsOK, WorldOK, HistoryOK, OwnerInv, records, world, history
<1>1. ASSUME NEW c \in Clients, NEW j \in Jobs, Submit(c, j)
      PROVE  OwnerInv'
  <2>1. \A e \in Executions : e \in accepted' => e \in accepted \/ mem[e] = "bound"
    BY <1>1 DEF Submit, RecordsOf, Records
  <2>2. \A d \in Clients :
          req'[d] = req[d] \/ (req'[d].pc = "start" /\ req'[d].job \in Jobs)
    BY <1>1 DEF Submit, ReqOK, Idle
  <2> QED
    BY <1>1, <2>1, <2>2 DEF Submit
<1>2. ASSUME NEW c \in Clients, RefuseStart(c)
      PROVE  OwnerInv'
  BY <1>2, AnswerEffect DEF RefuseStart
<1>3. ASSUME NEW c \in Clients, ProxyCreate(c)
      PROVE  OwnerInv'
  BY <1>3, GotoEffect DEF ProxyCreate, At
<1>4. ASSUME NEW c \in Clients, NEW e \in Executions, DeleteJob(c, e)
      PROVE  OwnerInv'
  BY <1>4, GotoEffect DEF DeleteJob
<1>5. ASSUME NEW c \in Clients, NEW e \in Executions, Register(c, e)
      PROVE  OwnerInv'
  BY <1>5, GotoEffect, AnswerEffect DEF Register, At
<1>6. ASSUME NEW c \in Clients, BindProcessorJob(c)
      PROVE  OwnerInv'
  BY <1>6, GotoEffect, AnswerEffect, CommitEffect, CommitFailsEffect
  DEF BindProcessorJob, At
<1>7. ASSUME NEW c \in Clients, Undo(c)
      PROVE  OwnerInv'
  BY <1>7, AnswerEffect, MarkEffect DEF Undo, At
<1>8. CASE WriteStarting
  BY <1>8, CommitEffect, CommitFailsEffect, AbandonEffect
  DEF WriteStarting, Locked, LockInv, Building
<1>9. CASE Launch
  <2>1. UNCHANGED <<mem, disk, owner, accepted>>
    BY <1>9 DEF Launch
  <2> QED
    BY <1>9, <2>1, LaunchEffect, AbandonEffect DEF LockInv, Building
<1>10. CASE BecomeRunning
  BY <1>10, CommitEffect, CommitFailsEffect, AbandonEffect, GotoEffect
  DEF BecomeRunning, Locked, LockInv, Building
<1>11. CASE NotReady
  BY <1>11, AbandonEffect DEF NotReady
<1>12. CASE Destroy
  <2>1. UNCHANGED <<mem, disk, owner, accepted, req>>
    BY <1>12 DEF Destroy
  <2> QED
    BY <1>12, <2>1, DestroyEffect
<1>13. CASE DeleteRecord
  BY <1>13, CommitEffect, CommitFailsEffect DEF DeleteRecord
<1>14. ASSUME NEW e \in Executions, CleanNext(e)
       PROVE  OwnerInv'
  BY <1>14, MarkEffect DEF CleanNext
<1>15. CASE SweepExpired \/ SweepUnhealthy \/ VerifyWritable
  BY <1>15 DEF SweepExpired, SweepUnhealthy, VerifyWritable
<1>16. CASE Boot \/ FinishStartup
  BY <1>16 DEF Boot, FinishStartup
<1>17. CASE Crash \/ EgressRestarts
  BY <1>17 DEF Crash, EgressRestarts, Idle
<1>18. ASSUME NEW e \in Executions, ContainerDies(e) \/ Expire(e) \/ TokenExpires(e)
       PROVE  OwnerInv'
  BY <1>18 DEF ContainerDies, Expire, TokenExpires
<1>19. CASE UNCHANGED vars
  BY <1>19 DEF vars
<1> QED
  BY <1>1, <1>2, <1>3, <1>4, <1>5, <1>6, <1>7, <1>8, <1>9, <1>10, <1>11, <1>12,
     <1>13, <1>14, <1>15, <1>16, <1>17, <1>18, <1>19
  DEF Next, Handler, Section, Startup, Environment

\* So is the critical section.
LEMMA LockInvStep ==
  ASSUME BrokerAssumption, TypeOK, OwnerInv, LockInv, CopyInv, AcceptedIsRecoverable, [Next]_vars
  PROVE  LockInv'
<1> USE TypeParts DEF RecordsOK, WorldOK, HistoryOK, LockInv, Building, Clearing,
        records, world, history
<1>1. ASSUME NEW c \in Clients, NEW j \in Jobs, Submit(c, j)
      PROVE  LockInv'
  BY <1>1 DEF Submit, RecordsOf, Records
<1>2. ASSUME NEW c \in Clients, RefuseStart(c) \/ ProxyCreate(c)
      PROVE  LockInv'
  BY <1>2 DEF RefuseStart, ProxyCreate
<1>20. ASSUME NEW c \in Clients, NEW e \in Executions, DeleteJob(c, e)
       PROVE  LockInv'
  BY <1>20 DEF DeleteJob
<1>3. ASSUME NEW c \in Clients, NEW e \in Executions, Register(c, e)
      PROVE  LockInv'
  <2>1. /\ mem[e] = "none" /\ disk[e] = "none" /\ e \notin accepted
        /\ res'[e] = {"token"} /\ owner'[e] \in Jobs /\ up = "serving"
    BY <1>3 DEF BrokerAssumption, Register, OwnerInv, At
  <2>2. CASE lock' = [Free EXCEPT !.step = "write", !.e = e, !.by = c]
    BY <1>3, <2>1, <2>2 DEF Register, Free
  <2>3. CASE UNCHANGED lock
    BY <1>3, <2>3 DEF Register, Locked
  <2> QED
    BY <1>3, <2>2, <2>3 DEF Register
<1>4. ASSUME NEW c \in Clients, BindProcessorJob(c)
      PROVE  LockInv'
  BY <1>4, CommitEffect, CommitFailsEffect DEF BindProcessorJob, At, OwnerInv
<1>5. ASSUME NEW c \in Clients, Undo(c)
      PROVE  LockInv'
  BY <1>5, MarkEffect DEF Undo, At, OwnerInv
<1>6. CASE WriteStarting
  BY <1>6, CommitEffect, CommitFailsEffect, LockStepEffect, AbandonEffect
  DEF WriteStarting, Locked
<1>7. CASE Launch
  <2>1. UNCHANGED <<mem, disk, owner, accepted, up>>
    BY <1>7 DEF Launch
  <2> QED
    BY <1>7, <2>1, LaunchEffect, AbandonEffect
<1>8. CASE BecomeRunning
  BY <1>8, CommitFailsEffect, AbandonEffect DEF BecomeRunning, Locked, Unlock, Free
<1>9. CASE NotReady
  BY <1>9, AbandonEffect DEF NotReady, Locked
<1>10. CASE Destroy
  <2>1. UNCHANGED <<mem, disk, owner, accepted, up>>
    BY <1>10 DEF Destroy
  <2>2. lock' = Free => lock'.step = "free"
    BY DEF Free
  <2> QED
    BY <1>10, <2>1, <2>2, DestroyEffect DEF Resources
<1>11. CASE DeleteRecord
  BY <1>11 DEF DeleteRecord, Unlock, Free
<1>12. ASSUME NEW e \in Executions, CleanNext(e)
       PROVE  LockInv'
  BY <1>12, MarkEffect DEF CleanNext
<1>13. CASE SweepExpired \/ SweepUnhealthy
  BY <1>13 DEF SweepExpired, SweepUnhealthy
<1>14. CASE VerifyWritable \/ FinishStartup
  BY <1>14 DEF VerifyWritable, FinishStartup, Locked
<1>15. CASE Boot
  BY <1>15 DEF Boot
<1>16. CASE Crash
  BY <1>16 DEF Crash, Unlock, Free
<1>17. CASE EgressRestarts
  BY <1>17 DEF EgressRestarts
<1>18. ASSUME NEW e \in Executions, ContainerDies(e) \/ Expire(e) \/ TokenExpires(e)
       PROVE  LockInv'
  BY <1>18 DEF ContainerDies, Expire, TokenExpires
<1>19. CASE UNCHANGED vars
  BY <1>19 DEF vars
<1> QED
  BY <1>1, <1>2, <1>3, <1>4, <1>5, <1>6, <1>7, <1>8, <1>9, <1>10, <1>11, <1>12,
     <1>13, <1>14, <1>15, <1>16, <1>17, <1>18, <1>19, <1>20
  DEF Next, Handler, Section, Startup, Environment

\* What may change of an execution's records when nothing is added to a host:
\* no step but the write of a start makes a record, and none but the last of a
\* whole cleanup deletes one.
LEMMA TrackStep ==
  ASSUME TypeOK, OwnerInv, LockInv, TrackInv, [Next]_vars
  PROVE  TrackInv'
<1> USE TypeParts DEF RecordsOK, WorldOK, TrackInv, Runtimes, Runtime, records, world,
        history
<1>1. ASSUME NEW c \in Clients, RefuseStart(c) \/ ProxyCreate(c)
      PROVE  TrackInv'
  BY <1>1 DEF RefuseStart, ProxyCreate
<1>17. ASSUME NEW c \in Clients, NEW j \in Jobs, Submit(c, j)
       PROVE  TrackInv'
  BY <1>17 DEF Submit
<1>18. ASSUME NEW c \in Clients, NEW e \in Executions, DeleteJob(c, e)
       PROVE  TrackInv'
  BY <1>18 DEF DeleteJob
<1>2. ASSUME NEW c \in Clients, NEW e \in Executions, Register(c, e)
      PROVE  TrackInv'
  BY <1>2 DEF Register
<1>3. ASSUME NEW c \in Clients, BindProcessorJob(c)
      PROVE  TrackInv'
  BY <1>3, CommitEffect, CommitFailsEffect DEF BindProcessorJob, At
<1>4. ASSUME NEW c \in Clients, Undo(c)
      PROVE  TrackInv'
  BY <1>4, MarkEffect DEF Undo, At, OwnerInv
<1>5. CASE WriteStarting
  BY <1>5, CommitEffect, CommitFailsEffect DEF WriteStarting, Locked, LockInv
<1>6. CASE Launch
  <2>1. UNCHANGED <<mem, disk, up>>
    BY <1>6 DEF Launch
  <2> QED
    BY <1>6, <2>1, LaunchEffect DEF LockInv
<1>7. CASE BecomeRunning
  BY <1>7, CommitEffect, CommitFailsEffect DEF BecomeRunning, Locked, LockInv
<1>8. CASE NotReady
  BY <1>8 DEF NotReady
<1>9. CASE Destroy
  <2>1. UNCHANGED <<mem, disk, up>>
    BY <1>9 DEF Destroy
  <2> QED
    BY <1>9, <2>1, DestroyEffect
<1>10. CASE DeleteRecord
  BY <1>10, CommitEffect, CommitFailsEffect DEF DeleteRecord, Locked, LockInv
<1>11. ASSUME NEW e \in Executions, CleanNext(e)
       PROVE  TrackInv'
  BY <1>11, MarkEffect DEF CleanNext
<1>12. CASE SweepExpired \/ SweepUnhealthy \/ VerifyWritable
  BY <1>12 DEF SweepExpired, SweepUnhealthy, VerifyWritable
<1>13. CASE Boot \/ FinishStartup
  BY <1>13 DEF Boot, FinishStartup
<1>14. CASE Crash \/ EgressRestarts
  BY <1>14 DEF Crash, EgressRestarts
<1>15. ASSUME NEW e \in Executions, ContainerDies(e) \/ Expire(e) \/ TokenExpires(e)
       PROVE  TrackInv'
  BY <1>15 DEF ContainerDies, Expire, TokenExpires
<1>16. CASE UNCHANGED vars
  BY <1>16 DEF vars
<1> QED
  BY <1>1, <1>2, <1>3, <1>4, <1>5, <1>6, <1>7, <1>8, <1>9, <1>10, <1>11, <1>12,
     <1>13, <1>14, <1>15, <1>16, <1>17, <1>18
  DEF Next, Handler, Section, Startup, Environment

\* What the file may say of a bound record, and what was accepted, through
\* failed writes and restarts.
LEMMA CopyStep ==
  ASSUME TypeOK, OwnerInv, LockInv, CopyInv, AcceptedIsRecoverable, [Next]_vars
  PROVE  CopyInv' /\ AcceptedIsRecoverable'
<1> USE TypeParts DEF RecordsOK, HistoryOK, CopyInv, AcceptedIsRecoverable, records,
        world, history
<1>1. ASSUME NEW c \in Clients, NEW j \in Jobs, Submit(c, j)
      PROVE  CopyInv' /\ AcceptedIsRecoverable'
  <2>1. \A e \in Executions : e \in accepted' => e \in accepted \/ mem[e] = "bound"
    BY <1>1 DEF Submit, RecordsOf, Records
  <2>2. accepted' \subseteq Executions
    BY <1>1 DEF Submit, RecordsOf, Records
  <2> QED
    BY <1>1, <2>1, <2>2 DEF Submit
<1>2. ASSUME NEW c \in Clients, RefuseStart(c) \/ ProxyCreate(c)
      PROVE  CopyInv' /\ AcceptedIsRecoverable'
  BY <1>2 DEF RefuseStart, ProxyCreate
<1>15. ASSUME NEW c \in Clients, NEW e \in Executions,
             DeleteJob(c, e) \/ Register(c, e)
       PROVE  CopyInv' /\ AcceptedIsRecoverable'
  BY <1>15 DEF DeleteJob, Register
<1>3. ASSUME NEW c \in Clients, BindProcessorJob(c)
      PROVE  CopyInv' /\ AcceptedIsRecoverable'
  BY <1>3, CommitEffect, CommitFailsEffect DEF BindProcessorJob, At, OwnerInv
<1>4. ASSUME NEW c \in Clients, Undo(c)
      PROVE  CopyInv' /\ AcceptedIsRecoverable'
  BY <1>4, MarkEffect DEF Undo, At, OwnerInv
<1>5. CASE WriteStarting
  BY <1>5, CommitEffect, CommitFailsEffect DEF WriteStarting, Locked, LockInv
<1>6. CASE Launch \/ NotReady \/ Destroy
  BY <1>6 DEF Launch, NotReady, Destroy
<1>7. CASE BecomeRunning
  BY <1>7, CommitEffect, CommitFailsEffect DEF BecomeRunning, Locked, LockInv
<1>8. CASE DeleteRecord
  BY <1>8, CommitEffect, CommitFailsEffect DEF DeleteRecord, Locked, LockInv, Clearing
<1>9. ASSUME NEW e \in Executions, CleanNext(e)
       PROVE  CopyInv' /\ AcceptedIsRecoverable'
  BY <1>9, MarkEffect DEF CleanNext
<1>10. CASE SweepExpired \/ SweepUnhealthy \/ VerifyWritable
  BY <1>10 DEF SweepExpired, SweepUnhealthy, VerifyWritable
<1>11. CASE Boot \/ FinishStartup
  BY <1>11 DEF Boot, FinishStartup
<1>12. CASE Crash \/ EgressRestarts
  BY <1>12 DEF Crash, EgressRestarts
<1>13. ASSUME NEW e \in Executions, ContainerDies(e) \/ Expire(e) \/ TokenExpires(e)
       PROVE  CopyInv' /\ AcceptedIsRecoverable'
  BY <1>13 DEF ContainerDies, Expire, TokenExpires
<1>14. CASE UNCHANGED vars
  BY <1>14 DEF vars
<1> QED
  BY <1>1, <1>2, <1>3, <1>4, <1>5, <1>6, <1>7, <1>8, <1>9, <1>10, <1>11, <1>12,
     <1>13, <1>14, <1>15
  DEF Next, Handler, Section, Startup, Environment

\* A token is only revoked when neither the memory nor the file says that its
\* execution runs.
LEMMA TokenStep ==
  ASSUME TypeOK, OwnerInv, LockInv, CopyInv, TokenInv, [Next]_vars
  PROVE  TokenInv'
<1> USE TypeParts DEF RecordsOK, WorldOK, HistoryOK, TokenInv, Building, records,
        world, history
<1>1. ASSUME NEW c \in Clients, RefuseStart(c) \/ ProxyCreate(c)
      PROVE  TokenInv'
  BY <1>1 DEF RefuseStart, ProxyCreate, sweeps
<1>19. ASSUME NEW c \in Clients, NEW j \in Jobs, Submit(c, j)
       PROVE  TokenInv'
  BY <1>19 DEF Submit, sweeps
<1>20. ASSUME NEW c \in Clients, NEW e \in Executions, DeleteJob(c, e)
       PROVE  TokenInv'
  BY <1>20 DEF DeleteJob, sweeps
<1>2. ASSUME NEW c \in Clients, NEW e \in Executions, Register(c, e)
      PROVE  TokenInv'
  BY <1>2 DEF Register, sweeps, Free, Locked, At
<1>3. ASSUME NEW c \in Clients, BindProcessorJob(c)
      PROVE  TokenInv'
  BY <1>3, CommitEffect, CommitFailsEffect DEF BindProcessorJob, At, OwnerInv, sweeps
<1>4. ASSUME NEW c \in Clients, Undo(c)
      PROVE  TokenInv'
  BY <1>4, MarkEffect DEF Undo, At, OwnerInv
<1>5. CASE WriteStarting
  BY <1>5, CommitEffect, CommitFailsEffect, LockStepEffect, AbandonEffect
  DEF WriteStarting, Locked, LockInv, sweeps
<1>6. CASE Launch
  <2>1. UNCHANGED <<mem, disk, up, expired, todo, failed>>
    BY <1>6 DEF Launch, sweeps
  <2> QED
    BY <1>6, <2>1, LaunchEffect, AbandonEffect
<1>7. CASE BecomeRunning
  BY <1>7, CommitEffect, CommitFailsEffect, AbandonEffect
  DEF BecomeRunning, Locked, Unlock, Free, LockInv, sweeps
<1>8. CASE NotReady
  BY <1>8, AbandonEffect DEF NotReady, sweeps
<1>9. CASE Destroy
  <2>1. UNCHANGED <<mem, disk, up, expired, todo>>
    BY <1>9 DEF Destroy
  <2>2. mem[lock.e] \notin {"running", "bound"} /\ disk[lock.e] # "bound"
    BY <1>9, DestroyEffect DEF LockInv, Clearing, CopyInv
  <2>3. lock' = Free => lock'.step = "free"
    BY DEF Free
  <2> QED
    BY <1>9, <2>1, <2>2, <2>3, DestroyEffect DEF LockInv
<1>10. CASE DeleteRecord
  <2>1. /\ UNCHANGED <<up, res, expired, todo>> /\ lock'.step = "free" /\ up # "down"
    BY <1>10 DEF DeleteRecord, Locked, Unlock, Free, LockInv
  <2>2. CASE Commit(lock.e, "none") /\ UNCHANGED failed
    BY <2>1, <2>2, CommitEffect
  <2>3. CASE CommitFails(lock.e, "none") /\ NoteFailure
    <3>1. mem' = mem /\ failed' = (up = "reconciling")
      BY <2>3, CommitFailsEffect DEF NoteFailure
    <3>2. \A f \in Executions :
            disk'[f] = "bound" => disk[f] = "bound" \/ mem[f] = "bound"
      BY <2>3, CommitFailsEffect
    <3> QED
      BY <2>1, <3>1, <3>2
  <2> QED
    BY <1>10, <2>2, <2>3 DEF DeleteRecord
<1>11. ASSUME NEW e \in Executions, CleanNext(e)
       PROVE  TokenInv'
  BY <1>11, MarkEffect DEF CleanNext
<1>12. CASE SweepExpired \/ SweepUnhealthy \/ VerifyWritable
  BY <1>12 DEF SweepExpired, SweepUnhealthy, VerifyWritable, sweeps
<1>13. CASE Boot
  BY <1>13 DEF Boot, LockInv
<1>14. CASE FinishStartup
  BY <1>14 DEF FinishStartup, Ready, Locked
<1>15. CASE Crash
  BY <1>15 DEF Crash, Unlock, Free
<1>16. CASE EgressRestarts
  BY <1>16 DEF EgressRestarts, sweeps
<1>17. ASSUME NEW e \in Executions, ContainerDies(e) \/ Expire(e) \/ TokenExpires(e)
       PROVE  TokenInv'
  BY <1>17 DEF ContainerDies, Expire, TokenExpires, sweeps
<1>18. CASE UNCHANGED vars
  BY <1>18 DEF vars, sweeps
<1> QED
  BY <1>1, <1>2, <1>3, <1>4, <1>5, <1>6, <1>7, <1>8, <1>9, <1>10, <1>11, <1>12,
     <1>13, <1>14, <1>15, <1>16, <1>17, <1>18, <1>19, <1>20
  DEF Next, Handler, Section, Startup, Environment

\* A cleanup that fails says so to the steps after it.
LEMMA DestroyRevokes ==
  ASSUME TypeOK, LockInv, RevokedInv, Destroy
  PROVE  /\ UNCHANGED <<mem, disk, up, accepted>>
         /\ \A f \in Executions : "token" \in res'[f] => "token" \in res[f]
         /\ \/ lock'.step = "delete"
            \/ lock'.step \in {"remove", "rmdir"} /\ ~lock'.broken
            => "token" \notin res'[lock'.e]
<1> USE TypeParts DEF WorldOK
<1>0. DOMAIN Targets = {"revoke", "remove", "rmdir"} /\ Targets["revoke"] = {"token"}
  BY DEF Targets
<1>1. UNCHANGED <<mem, disk, up, accepted>>
  BY DEF Destroy, records, history
<1>2. /\ \A f \in Executions \ {lock.e} : res'[f] = res[f]
      /\ res'[lock.e] \subseteq res[lock.e] /\ lock.e \in Executions
  BY DestroyEffect
<1>3. \A f \in Executions : "token" \in res'[f] => "token" \in res[f]
  BY <1>2
<1>4. CASE lock.step = "revoke"
  <2>1. PICK left \in SUBSET (res[lock.e] \cap Targets["revoke"]), b \in BOOLEAN :
          /\ ~b => left = {}
          /\ res' = [res EXCEPT ![lock.e] = (@ \ Targets["revoke"]) \cup left]
          /\ lock' = [lock EXCEPT !.step = "remove", !.broken = b]
    BY <1>0, <1>4 DEF Destroy
  <2>2. lock'.step = "remove" /\ lock'.e = lock.e /\ lock'.broken = b
    BY <2>1 DEF LockOK
  <2>3. ~b => "token" \notin res'[lock.e]
    BY <1>0, <1>2, <2>1
  <2> QED
    BY <1>1, <1>3, <2>2, <2>3
<1>5. CASE lock.step = "remove"
  <2>1. PICK b \in BOOLEAN : lock' = [lock EXCEPT !.step = "rmdir", !.broken = @ \/ b]
    BY <1>0, <1>5 DEF Destroy
  <2>2. lock'.step = "rmdir" /\ lock'.e = lock.e /\ (~lock'.broken => ~lock.broken)
    BY <2>1 DEF LockOK
  <2> QED
    BY <1>1, <1>2, <1>3, <1>5, <2>2 DEF RevokedInv
<1>6. CASE lock.step = "rmdir"
  <2>1. lock' = Free \/ (~lock.broken /\ lock'.e = lock.e /\ lock'.step = "delete")
    BY <1>6, DestroyEffect
  <2> QED
    BY <1>1, <1>2, <1>3, <1>6, <2>1 DEF RevokedInv, Free
<1> QED
  BY <1>4, <1>5, <1>6, DestroyEffect

\* No step makes a record go before the token.
LEMMA RevokedStep ==
  ASSUME BrokerAssumption, TypeOK, OwnerInv, LockInv, CopyInv, RevokedInv, [Next]_vars
  PROVE  RevokedInv'
<1> USE TypeParts DEF RecordsOK, WorldOK, HistoryOK, RevokedInv, Building, records,
        world, history
<1>1. ASSUME NEW c \in Clients, RefuseStart(c) \/ ProxyCreate(c)
      PROVE  RevokedInv'
  BY <1>1 DEF RefuseStart, ProxyCreate
<1>19. ASSUME NEW c \in Clients, NEW j \in Jobs, Submit(c, j)
       PROVE  RevokedInv'
  <2>1. /\ UNCHANGED <<mem, disk, res, up, lock>> /\ up # "down"
        /\ \A e \in Executions : e \in accepted' => e \in accepted \/ mem[e] = "bound"
    BY <1>19 DEF Submit, RecordsOf, Records, At
  <2> QED
    BY <2>1
<1>20. ASSUME NEW c \in Clients, NEW e \in Executions, DeleteJob(c, e)
       PROVE  RevokedInv'
  BY <1>20 DEF DeleteJob
<1>2. ASSUME NEW c \in Clients, NEW e \in Executions, Register(c, e)
      PROVE  RevokedInv'
  <2>1. /\ UNCHANGED <<mem, disk, up, accepted>> /\ res' = [res EXCEPT ![e] = {"token"}]
        /\ lock'.step \in {"write", "free"}
    BY <1>2 DEF Register, Free, Locked
  <2>2. mem[e] = "none" /\ disk[e] = "none" /\ e \notin accepted
    BY <1>2 DEF Register, OwnerInv, BrokerAssumption
  <2> QED
    BY <2>1, <2>2
<1>3. ASSUME NEW c \in Clients, BindProcessorJob(c)
      PROVE  RevokedInv'
  <2>1. UNCHANGED <<res, up, lock>> /\ req[c].e \in Executions /\ up # "down"
    BY <1>3 DEF BindProcessorJob, At, OwnerInv
  <2> QED
    BY <1>3, <2>1, CommitEffect, CommitFailsEffect DEF BindProcessorJob
<1>4. ASSUME NEW c \in Clients, Undo(c)
      PROVE  RevokedInv'
  BY <1>4, MarkEffect DEF Undo, At, OwnerInv
<1>5. CASE WriteStarting
  BY <1>5, CommitEffect, CommitFailsEffect, LockStepEffect, AbandonEffect
  DEF WriteStarting, Locked, LockInv
<1>6. CASE Launch
  <2>1. UNCHANGED <<mem, disk, up, accepted>>
    BY <1>6 DEF Launch
  <2>2. lock'.step \in {"launch", "ready", "revoke"}
    BY <1>6, LaunchEffect, AbandonEffect
  <2>3. mem[lock.e] = "starting" /\ disk[lock.e] = "starting" /\ lock.e \in Executions
    BY <1>6 DEF Launch, Locked, LockInv
  <2> QED
    BY <1>6, <2>1, <2>2, <2>3, LaunchEffect
<1>7. CASE BecomeRunning
  BY <1>7, CommitEffect, CommitFailsEffect, AbandonEffect
  DEF BecomeRunning, Locked, Unlock, Free, LockInv
<1>8. CASE NotReady
  BY <1>8, AbandonEffect DEF NotReady
<1>9. CASE Destroy
  BY <1>9, DestroyRevokes
<1>10. CASE DeleteRecord
  <2>1. /\ UNCHANGED <<up, res, accepted>> /\ lock'.step = "free" /\ up # "down"
        /\ "token" \notin res[lock.e]
    BY <1>10 DEF DeleteRecord, Locked, Unlock, Free, LockInv
  <2> QED
    BY <1>10, <2>1, CommitEffect, CommitFailsEffect DEF DeleteRecord
<1>11. ASSUME NEW e \in Executions, CleanNext(e)
       PROVE  RevokedInv'
  BY <1>11, MarkEffect DEF CleanNext
<1>12. CASE SweepExpired \/ SweepUnhealthy \/ VerifyWritable
  BY <1>12 DEF SweepExpired, SweepUnhealthy, VerifyWritable
<1>13. CASE Boot
  BY <1>13 DEF Boot
<1>14. CASE FinishStartup
  BY <1>14 DEF FinishStartup
<1>15. CASE Crash
  BY <1>15 DEF Crash, Unlock, Free
<1>16. CASE EgressRestarts
  BY <1>16 DEF EgressRestarts
<1>17. ASSUME NEW e \in Executions, ContainerDies(e) \/ Expire(e) \/ TokenExpires(e)
       PROVE  RevokedInv'
  <2>1. UNCHANGED <<mem, disk, up, accepted, lock>>
    BY <1>17 DEF ContainerDies, Expire, TokenExpires
  <2>2. \A f \in Executions : res'[f] \subseteq res[f]
    BY <1>17 DEF ContainerDies, Expire, TokenExpires
  <2>3. lock.step \in {"remove", "rmdir", "delete"} => lock.e \in Executions
    BY DEF LockInv
  <2> QED
    BY <2>1, <2>2, <2>3
<1>18. CASE UNCHANGED vars
  BY <1>18 DEF vars
<1> QED
  BY <1>1, <1>2, <1>3, <1>4, <1>5, <1>6, <1>7, <1>8, <1>9, <1>10, <1>11, <1>12,
     <1>13, <1>14, <1>15, <1>16, <1>17, <1>18, <1>19, <1>20
  DEF Next, Handler, Section, Startup, Environment

\* What the broker knows of its executions, through every order of requests,
\* cleanups, sweeps, failed writes, crashes and restarts.
THEOREM BrokerInvariant == BrokerAssumption => (Spec => []BrokerInv)
<1> SUFFICES ASSUME BrokerAssumption
             PROVE  Spec => []BrokerInv
  OBVIOUS
<1>1. Init => BrokerInv
  <2> SUFFICES ASSUME Init
               PROVE  BrokerInv
    OBVIOUS
  <2>1. TypeOK
    <3>0. Idle.pc \in PCs /\ Free.step \in Steps
      BY DEF Idle, Free, PCs, Steps
    <3>1. ReqOK
      BY <3>0 DEF Init, ReqOK, Idle
    <3>3. LockOK
      <4>1. lock = [step |-> "free", e |-> NoExecution, by |-> NoClient, broken |-> FALSE]
        BY DEF Init, Free
      <4>2. "free" \in Steps /\ FALSE \in BOOLEAN
        BY DEF Steps
      <4> QED
        BY <4>1, <4>2 DEF LockOK
    <3>2. RecordsOK
      <4>1. "none" \in Status /\ mem = [e \in Executions |-> "none"] /\ disk = mem
        BY DEF Init, Status
      <4> QED
        BY <4>1 DEF RecordsOK
    <3>4. WorldOK /\ SweepsOK
      BY DEF Init, WorldOK, SweepsOK
    <3>5. HistoryOK /\ FaultsOK
      BY DEF BrokerAssumption, Init, HistoryOK, FaultsOK
    <3> QED
      BY <3>1, <3>2, <3>3, <3>4, <3>5, TypeParts DEF Init
  <2>2. OwnerInv /\ LockInv
    BY DEF Init, OwnerInv, LockInv, Idle, Free, Building, Clearing
  <2>3. TrackInv /\ CopyInv /\ TokenInv /\ AcceptedIsRecoverable
    BY DEF Init, TrackInv, CopyInv, TokenInv, AcceptedIsRecoverable, Runtimes, Runtime,
           Free, Building
  <2> QED
    BY <2>1, <2>2, <2>3 DEF BrokerInv
<1>2. BrokerInv /\ [Next]_vars => BrokerInv'
  BY TypeStep, OwnerStep, LockInvStep, TrackStep, CopyStep, TokenStep DEF BrokerInv
<1> QED
  BY <1>1, <1>2, PTL DEF Spec

\* Whatever exists on the host is in the state file.
THEOREM RuntimesAreTrackedHolds ==
  BrokerAssumption => (Spec => []RuntimesAreTracked)
<1>1. BrokerInv => RuntimesAreTracked
  BY DEF BrokerInv, TrackInv, Runtimes, RuntimesAreTracked
<1> QED
  BY <1>1, BrokerInvariant, PTL

\* A token that no record names belongs to an execution with no runtime, to which no
\* submission was answered with 202.
THEOREM LostTokensAreUnusedHolds ==
  BrokerAssumption => (Spec => []LostTokensAreUnused)
<1> SUFFICES ASSUME BrokerAssumption
             PROVE  Spec => []LostTokensAreUnused
  OBVIOUS
<1>1. Init => RevokedInv
  BY DEF Init, RevokedInv, Free
<1>2. BrokerInv /\ RevokedInv /\ [Next]_vars => RevokedInv'
  BY RevokedStep DEF BrokerInv
<1>3. BrokerInv /\ RevokedInv => LostTokensAreUnused
  BY DEF BrokerInv, RevokedInv, TrackInv, Runtimes, LostTokensAreUnused
<1> QED
  BY <1>1, <1>2, <1>3, BrokerInvariant, PTL DEF Spec

\* What was answered with 202 is found again by a resubmission.
THEOREM AcceptedIsRecoverableHolds ==
  BrokerAssumption => (Spec => []AcceptedIsRecoverable)
<1>1. BrokerInv => AcceptedIsRecoverable
  BY DEF BrokerInv
<1> QED
  BY <1>1, BrokerInvariant, PTL

\* What the broker counts as running can call the model.
THEOREM RunningHasTokenHolds ==
  BrokerAssumption => (Spec => []RunningHasToken)
<1>1. BrokerInv => RunningHasToken
  BY DEF BrokerInv, TokenInv, RunningHasToken
<1> QED
  BY <1>1, BrokerInvariant, PTL

-----------------------------------------------------------------------------
(* The pool *)

\* A step makes or ends at most one runtime, and only the launch makes one.
RuntimesMove ==
  /\ \A e \in Runtimes : owner'[e] = owner[e]
  /\ \/ Runtimes' = Runtimes
     \/ \E e \in Runtimes : Runtimes' = Runtimes \ {e}
     \/ /\ Launch /\ lock.e \notin Runtimes
        /\ Runtimes' = Runtimes \cup {lock.e}

\* Every step moves the runtimes in that way.
LEMMA EveryStepMoves ==
  ASSUME BrokerAssumption, TypeOK, OwnerInv, LockInv, [Next]_vars
  PROVE  RuntimesMove
<1>1. ASSUME UNCHANGED <<res, owner>>
      PROVE  RuntimesMove
  BY <1>1 DEF RuntimesMove, Runtimes, Runtime
<1>2. ASSUME NEW c \in Clients, NEW e \in Executions, Register(c, e)
      PROVE  RuntimesMove
  <2>1. res[e] = {} /\ owner[e] = NoJob
    BY <1>2, TypeParts DEF BrokerAssumption, Register, OwnerInv, WorldOK
  <2>2. res' = [res EXCEPT ![e] = {"token"}] /\ \E j : owner' = [owner EXCEPT ![e] = j]
    BY <1>2 DEF Register
  <2>3. \A f \in Executions : f # e => res'[f] = res[f] /\ owner'[f] = owner[f]
    BY <2>2, TypeParts DEF WorldOK, HistoryOK
  <2>4. e \notin Runtimes /\ e \notin Runtimes'
    BY <2>1, <2>2, TypeParts DEF Runtimes, Runtime, WorldOK
  <2> QED
    BY <2>3, <2>4 DEF RuntimesMove, Runtimes, Runtime
<1>3. ASSUME NEW e \in Executions, UNCHANGED owner,
             \A f \in Executions \ {e} : res'[f] = res[f], Runtime(e)' => Runtime(e)
      PROVE  RuntimesMove
  <2>1. CASE Runtime(e) /\ ~Runtime(e)'
    <3>1. Runtimes' = Runtimes \ {e} /\ e \in Runtimes
      BY <1>3, <2>1 DEF Runtimes, Runtime
    <3> QED
      BY <1>3, <3>1 DEF RuntimesMove
  <2>2. CASE Runtime(e) <=> Runtime(e)'
    BY <1>3, <2>2 DEF RuntimesMove, Runtimes, Runtime
  <2> QED
    BY <1>3, <2>1, <2>2
<1>4. CASE Launch
  <2>1. PICK e \in Executions : e = lock.e
    BY <1>4, LaunchEffect
  <2>2. UNCHANGED owner /\ \A f \in Executions \ {e} : res'[f] = res[f]
    BY <1>4, <2>1, LaunchEffect DEF Launch, history
  <2>3. CASE Runtime(e)' => Runtime(e)
    BY <1>3, <2>2, <2>3
  <2>4. CASE Runtime(e)' /\ ~Runtime(e)
    <3>1. Runtimes' = Runtimes \cup {e} /\ e \notin Runtimes
      BY <2>2, <2>4 DEF Runtimes, Runtime
    <3> QED
      BY <1>4, <2>1, <2>2, <3>1 DEF RuntimesMove
  <2> QED
    BY <2>3, <2>4
<1>5. CASE Destroy
  <2>1. PICK e \in Executions : e = lock.e
    BY <1>5, DestroyEffect
  <2>2. /\ UNCHANGED owner
        /\ \A f \in Executions \ {e} : res'[f] = res[f]
        /\ res'[e] \subseteq res[e]
    BY <1>5, <2>1, DestroyEffect DEF Destroy, history
  <2> QED
    BY <1>3, <2>2 DEF Runtime
<1>6. ASSUME NEW e \in Executions, ContainerDies(e) \/ TokenExpires(e)
      PROVE  RuntimesMove
  <2>1. /\ UNCHANGED owner
        /\ \A f \in Executions \ {e} : res'[f] = res[f]
        /\ res'[e] \subseteq res[e]
    BY <1>6, TypeParts DEF ContainerDies, TokenExpires, history, WorldOK
  <2> QED
    BY <1>3, <2>1 DEF Runtime
<1>7. ASSUME NEW c \in Clients, NEW j \in Jobs, Submit(c, j)
      PROVE  RuntimesMove
  BY <1>1, <1>7 DEF Submit, world
<1>8. ASSUME NEW c \in Clients, RefuseStart(c) \/ ProxyCreate(c) \/ BindProcessorJob(c) \/ Undo(c)
      PROVE  RuntimesMove
  BY <1>1, <1>8 DEF RefuseStart, ProxyCreate, BindProcessorJob, Undo, world, history
<1>9. ASSUME NEW c \in Clients, NEW e \in Executions, DeleteJob(c, e)
      PROVE  RuntimesMove
  BY <1>1, <1>9 DEF DeleteJob, world, history
<1>10. CASE WriteStarting \/ BecomeRunning \/ NotReady \/ DeleteRecord
  BY <1>1, <1>10 DEF WriteStarting, BecomeRunning, NotReady, DeleteRecord, world, history
<1>11. ASSUME NEW e \in Executions, CleanNext(e) \/ Expire(e)
       PROVE  RuntimesMove
  BY <1>1, <1>11 DEF CleanNext, Expire, world, history
<1>12. CASE SweepExpired \/ SweepUnhealthy \/ VerifyWritable \/ Boot \/ FinishStartup
  BY <1>1, <1>12 DEF SweepExpired, SweepUnhealthy, VerifyWritable, Boot, FinishStartup,
                     world, history
<1>13. CASE Crash \/ EgressRestarts \/ UNCHANGED vars
  BY <1>1, <1>13 DEF Crash, EgressRestarts, vars, world, history
<1> QED
  BY <1>2, <1>4, <1>5, <1>6, <1>7, <1>8, <1>9, <1>10, <1>11, <1>12, <1>13
  DEF Next, Handler, Section, Startup, Environment

\* No record appears, and the start under way goes on with its execution.
RecordsKept ==
  /\ Records' \subseteq Records
  /\ \A e \in Executions : owner[e] # NoJob => owner'[e] = owner[e]
  /\ lock'.step \in {"write", "launch"} => lock'.e = lock.e /\ lock'.step = lock.step

\* The registration, the first write and the restart apart, every step is such.
LEMMA EveryStepKeeps ==
  ASSUME BrokerAssumption, TypeOK, OwnerInv, LockInv, [Next]_vars
  PROVE  \/ RecordsKept \/ WriteStarting \/ Boot
         \/ \E c \in Clients, e \in Executions : Register(c, e)
<1>1. ASSUME UNCHANGED <<mem, owner, lock>>
      PROVE  RecordsKept
  BY <1>1 DEF RecordsKept, Records
<1>2. ASSUME UNCHANGED owner, lock'.step \notin {"write", "launch"}, Records' \subseteq Records
      PROVE  RecordsKept
  BY <1>2 DEF RecordsKept
<1>3. ASSUME NEW c \in Clients, NEW j \in Jobs, Submit(c, j)
      PROVE  RecordsKept
  BY <1>1, <1>3 DEF Submit, records
<1>4. ASSUME NEW c \in Clients, RefuseStart(c) \/ ProxyCreate(c)
      PROVE  RecordsKept
  BY <1>1, <1>4 DEF RefuseStart, ProxyCreate, records, history
<1>5. ASSUME NEW c \in Clients, NEW e \in Executions, DeleteJob(c, e)
      PROVE  RecordsKept
  BY <1>1, <1>5 DEF DeleteJob, records, history
<1>6. ASSUME NEW c \in Clients, BindProcessorJob(c)
      PROVE  RecordsKept
  <2>1. PICK e \in Executions : e = req[c].e
    BY <1>6 DEF BindProcessorJob, At, OwnerInv
  <2>2. UNCHANGED <<owner, lock>>
    BY <1>6 DEF BindProcessorJob
  <2>3. CASE mem[e] = "running" /\ Commit(e, "bound")
    BY <2>2, <2>3, CommitEffect DEF RecordsKept, Records
  <2>4. CASE CommitFails(e, "bound")
    BY <1>1, <2>2, <2>4, CommitFailsEffect
  <2>5. CASE UNCHANGED records
    BY <1>1, <2>2, <2>5 DEF records
  <2> QED
    BY <1>6, <2>1, <2>3, <2>4, <2>5 DEF BindProcessorJob
<1>7. ASSUME NEW e \in Executions, MarkCleaning(e), UNCHANGED owner
      PROVE  RecordsKept
  <2>1. lock.step = "free" /\ (lock' = lock \/ lock'.step = "revoke")
    BY <1>7, MarkEffect
  <2>2. Records' \subseteq Records
    BY <1>7, MarkEffect DEF Records
  <2> QED
    BY <1>2, <1>7, <2>1, <2>2
<1>8. ASSUME NEW c \in Clients, Undo(c)
      PROVE  RecordsKept
  BY <1>7, <1>8 DEF Undo, At, OwnerInv, history
<1>9. ASSUME NEW e \in Executions, CleanNext(e)
      PROVE  RecordsKept
  BY <1>7, <1>9 DEF CleanNext, history
<1>10. CASE Launch
  <2>1. Records' = Records /\ UNCHANGED owner
    BY <1>10 DEF Launch, records, history, Records
  <2>2. lock.step = "launch" /\ lock'.e = lock.e /\ lock'.step \in {"launch", "ready", "revoke"}
    BY <1>10, LaunchEffect, AbandonEffect
  <2> QED
    BY <2>1, <2>2 DEF RecordsKept
<1>11. CASE BecomeRunning
  <2>1. PICK e \in Executions : e = lock.e
    BY <1>11 DEF BecomeRunning, Locked, LockInv
  <2>2. mem[e] # "none" /\ UNCHANGED owner
    BY <1>11, <2>1 DEF BecomeRunning, Locked, LockInv, history
  <2>3. CASE Commit(e, "running") /\ Unlock
    BY <1>2, <2>2, <2>3, CommitEffect DEF Unlock, Free, Records
  <2>4. CASE CommitFails(e, "running") /\ AbandonStart
    BY <1>2, <2>2, <2>4, CommitFailsEffect, AbandonEffect DEF Records
  <2> QED
    BY <1>11, <2>1, <2>3, <2>4 DEF BecomeRunning
<1>12. CASE NotReady
  BY <1>2, <1>12, AbandonEffect DEF NotReady, records, history, Records
<1>13. CASE Destroy
  <2>1. Records' = Records /\ UNCHANGED owner
    BY <1>13 DEF Destroy, records, history, Records
  <2>2. lock'.step \notin {"write", "launch"}
    BY <1>13, DestroyEffect DEF Free
  <2> QED
    BY <1>2, <2>1, <2>2
<1>14. CASE DeleteRecord
  <2>1. PICK e \in Executions : e = lock.e
    BY <1>14 DEF DeleteRecord, Locked, LockInv
  <2>2. UNCHANGED owner /\ lock'.step = "free"
    BY <1>14 DEF DeleteRecord, history, Unlock, Free
  <2>3. CASE Commit(e, "none")
    BY <1>2, <2>2, <2>3, CommitEffect DEF Records
  <2>4. CASE CommitFails(e, "none")
    BY <1>2, <2>2, <2>4, CommitFailsEffect DEF Records
  <2> QED
    BY <1>14, <2>1, <2>3, <2>4 DEF DeleteRecord
<1>15. CASE SweepExpired \/ SweepUnhealthy \/ VerifyWritable \/ FinishStartup
  BY <1>1, <1>15 DEF SweepExpired, SweepUnhealthy, VerifyWritable, FinishStartup,
                     records, history
<1>16. CASE Crash
  BY <1>2, <1>16 DEF Crash, Unlock, Free, records, history, Records
<1>17. CASE EgressRestarts \/ UNCHANGED vars
  BY <1>1, <1>17 DEF EgressRestarts, vars, records, history
<1>18. ASSUME NEW e \in Executions, ContainerDies(e) \/ Expire(e) \/ TokenExpires(e)
       PROVE  RecordsKept
  BY <1>1, <1>18 DEF ContainerDies, Expire, TokenExpires, records, history
<1> QED
  BY <1>3, <1>4, <1>5, <1>6, <1>8, <1>9, <1>10, <1>11, <1>12, <1>13, <1>14, <1>15,
     <1>16, <1>17, <1>18
  DEF Next, Handler, Section, Startup, Environment

\* Runtimes and records are finite, and a broker that is up has a record of
\* every runtime.
LEMMA Finite ==
  ASSUME BrokerAssumption, TypeOK, TrackInv
  PROVE  /\ IsFiniteSet(Runtimes) /\ Cardinality(Runtimes) \in Nat
         /\ IsFiniteSet(Records) /\ Cardinality(Records) \in Nat
         /\ up # "down" => Runtimes \subseteq Records
<1>1. Runtimes \subseteq Executions /\ Records \subseteq Executions
  BY DEF Runtimes, Records
<1>2. up # "down" => Runtimes \subseteq Records
  BY DEF TrackInv, Runtimes, Records
<1> QED
  BY <1>1, <1>2, FS_Subset, FS_CardinalityType DEF BrokerAssumption

\* What the pool says of the runtimes, and what it says of the section under way
PoolNow ==
  /\ \A e, f \in Runtimes : owner[e] = owner[f] => e = f
  /\ Cardinality(Runtimes) <= MaxConcurrentJobs

PoolAhead ==
  /\ lock.step = "write" => /\ RecordsOf(owner[lock.e]) = {}
                            /\ Cardinality(Records) < MaxConcurrentJobs
  /\ lock.step = "launch" => /\ RecordsOf(owner[lock.e]) \subseteq {lock.e}
                             /\ Cardinality(Records) <= MaxConcurrentJobs

\* The two together are PoolInv.
LEMMA PoolParts == PoolInv <=> PoolNow /\ PoolAhead
BY DEF PoolInv, PoolNow, PoolAhead

\* And after a step
LEMMA PoolPartsNext == PoolInv' <=> PoolNow' /\ PoolAhead'
BY DEF PoolInv, PoolNow, PoolAhead

\* The runtimes stay a pool: the launch adds one for a takeoff that has none,
\* and within the limit, since what runs has a record.
LEMMA PoolNowStep ==
  ASSUME BrokerAssumption, BrokerInv, BrokerInv', PoolInv, [Next]_vars
  PROVE  PoolNow'
<1> USE DEF BrokerInv
<1>1. RuntimesMove
  BY EveryStepMoves
<1>2. /\ IsFiniteSet(Runtimes) /\ Cardinality(Runtimes) \in Nat
      /\ MaxConcurrentJobs \in Nat
  BY Finite DEF BrokerAssumption
<1>3. CASE Runtimes' = Runtimes
  BY <1>1, <1>3 DEF PoolInv, PoolNow, RuntimesMove
<1>4. CASE \E e \in Runtimes : Runtimes' = Runtimes \ {e}
  <2>1. Runtimes' \subseteq Runtimes
    BY <1>4
  <2>2. Cardinality(Runtimes') \in Nat /\ Cardinality(Runtimes') <= Cardinality(Runtimes)
    BY <1>2, <2>1, FS_Subset, FS_CardinalityType
  <2>3. Cardinality(Runtimes') <= MaxConcurrentJobs
    BY <1>2, <2>2 DEF PoolInv
  <2> QED
    BY <1>1, <2>1, <2>3 DEF PoolInv, PoolNow, RuntimesMove
<1>5. CASE Launch /\ lock.e \notin Runtimes /\ Runtimes' = Runtimes \cup {lock.e}
  <2>1. PICK e \in Executions : e = lock.e
    BY <1>5, LaunchEffect
  <2>2. lock.step = "launch" /\ up = "serving" /\ mem[e] # "none" /\ UNCHANGED owner
    BY <1>5, <2>1, LaunchEffect DEF LockInv, Building, Launch, history
  <2>3. Runtimes \subseteq Records /\ e \in Records /\ Runtimes' = Runtimes \cup {e}
    BY <1>5, <2>1, <2>2, Finite DEF Records
  <2>4. Cardinality(Runtimes') <= MaxConcurrentJobs
    <3>1. IsFiniteSet(Records) /\ Runtimes' \subseteq Records
      BY <2>3, Finite
    <3>2. Cardinality(Runtimes') <= Cardinality(Records) /\ Cardinality(Runtimes') \in Nat
      BY <3>1, FS_Subset, FS_CardinalityType
    <3>3. Cardinality(Records) <= MaxConcurrentJobs /\ Cardinality(Records) \in Nat
      BY <2>2, Finite DEF PoolInv
    <3> QED
      BY <1>2, <3>2, <3>3
  <2>5. \A f \in Runtimes : owner[f] # owner[e]
    BY <1>5, <2>1, <2>2, <2>3 DEF PoolInv, RecordsOf
  <2> QED
    BY <2>2, <2>3, <2>4, <2>5 DEF PoolInv, PoolNow
<1> QED
  BY <1>1, <1>3, <1>4, <1>5 DEF RuntimesMove

\* What the start checked under the lock holds until it has made its runtime.
LEMMA PoolAheadStep ==
  ASSUME BrokerAssumption, BrokerInv, BrokerInv', PoolInv, [Next]_vars
  PROVE  PoolAhead'
<1> USE DEF BrokerInv
<1>1. /\ IsFiniteSet(Records) /\ Cardinality(Records) \in Nat
      /\ MaxConcurrentJobs \in Nat
  BY Finite DEF BrokerAssumption
<1>2. CASE RecordsKept
  <2>1. Cardinality(Records') \in Nat /\ Cardinality(Records') <= Cardinality(Records)
    BY <1>1, <1>2, FS_Subset, FS_CardinalityType DEF RecordsKept
  <2>2. \A f \in Records : owner'[f] = owner[f]
    BY <1>2 DEF RecordsKept, OwnerInv, Records, BrokerAssumption
  <2>3. lock.step \in {"write", "launch"} => owner'[lock.e] = owner[lock.e]
    BY <1>2 DEF RecordsKept, LockInv, Building, BrokerAssumption
  <2>4. \A j : RecordsOf(j)' \subseteq RecordsOf(j)
    BY <1>2, <2>2 DEF RecordsKept, RecordsOf
  <2> QED
    BY <1>1, <1>2, <2>1, <2>3, <2>4 DEF RecordsKept, PoolInv, PoolAhead
<1>3. ASSUME NEW c \in Clients, NEW e \in Executions, Register(c, e)
      PROVE  PoolAhead'
  <2>1. CASE UNCHANGED lock
    BY <1>3, <2>1 DEF Register, Locked, PoolAhead
  <2>2. CASE lock' = [Free EXCEPT !.step = "write", !.e = e, !.by = c]
    <3>1. PICK j : j = req[c].job
      OBVIOUS
    <3>2. /\ owner[e] = NoJob /\ mem[e] = "none" /\ j # NoJob
          /\ RecordsOf(j) = {} /\ Cardinality(Records) < MaxConcurrentJobs
      BY <1>1, <1>3, <3>1
      DEF Register, Refused, At, OwnerInv, BrokerAssumption
    <3>3. owner' = [owner EXCEPT ![e] = j] /\ UNCHANGED mem
      BY <1>3, <3>1 DEF Register, records
    <3>4. owner'[e] = j /\ \A f \in Executions \ {e} : owner'[f] = owner[f]
      BY <3>3, TypeParts DEF HistoryOK
    <3>5. Records' = Records /\ RecordsOf(j)' = {}
      BY <3>2, <3>3, <3>4 DEF Records, RecordsOf
    <3>6. lock'.step = "write" /\ lock'.e = e
      BY <2>2 DEF Free
    <3> QED
      BY <3>2, <3>4, <3>5, <3>6 DEF PoolAhead
  <2> QED
    BY <1>3, <2>1, <2>2 DEF Register
<1>4. CASE WriteStarting
  <2>1. PICK e \in Executions : e = lock.e
    BY <1>4 DEF WriteStarting, Locked, LockInv
  <2>2. /\ UNCHANGED owner /\ mem[e] = "none" /\ RecordsOf(owner[e]) = {}
        /\ Cardinality(Records) < MaxConcurrentJobs
    BY <1>4, <2>1 DEF WriteStarting, Locked, LockInv, PoolInv, history
  <2>3. CASE Commit(e, "starting") /\ LockStep("launch")
    <3>1. Records' = Records \cup {e} /\ e \notin Records
      BY <2>2, <2>3, CommitEffect DEF Records
    <3>2. Cardinality(Records') = Cardinality(Records) + 1
      BY <1>1, <3>1, FS_AddElement
    <3>3. RecordsOf(owner[e])' \subseteq {e}
      BY <2>2, <3>1 DEF RecordsOf
    <3>4. lock'.step = "launch" /\ lock'.e = e
      BY <2>1, <2>3, LockStepEffect
    <3> QED
      BY <1>1, <2>2, <3>2, <3>3, <3>4 DEF PoolAhead
  <2>4. CASE AbandonStart
    BY <2>4, AbandonEffect DEF PoolAhead
  <2> QED
    BY <1>4, <2>1, <2>3, <2>4 DEF WriteStarting
<1>5. CASE Boot
  BY <1>5 DEF Boot, LockInv, PoolAhead
<1> QED
  BY <1>2, <1>3, <1>4, <1>5, EveryStepKeeps

\* The pool is kept by every step.
LEMMA PoolStep ==
  ASSUME BrokerAssumption, BrokerInv, BrokerInv', PoolInv, [Next]_vars
  PROVE  PoolInv'
BY PoolNowStep, PoolAheadStep, PoolPartsNext

\* The runtimes on the host are never more than maxConcurrentJobs, a takeoff
\* has at most one, and what a start checked under the lock still holds when it
\* makes its runtime.
THEOREM PoolInvariant == BrokerAssumption => (Spec => [](BrokerInv /\ PoolInv))
<1> SUFFICES ASSUME BrokerAssumption
             PROVE  Spec => [](BrokerInv /\ PoolInv)
  OBVIOUS
<1>1. Init => PoolInv
  <2> SUFFICES ASSUME Init
               PROVE  PoolInv
    OBVIOUS
  <2>1. Runtimes = {} /\ lock.step = "free"
    BY DEF Init, Runtimes, Runtime, Free
  <2>2. Cardinality(Runtimes) <= MaxConcurrentJobs
    BY <2>1, FS_EmptySet DEF BrokerAssumption
  <2> QED
    BY <2>1, <2>2 DEF PoolInv
<1>2. BrokerInv /\ BrokerInv' /\ PoolInv /\ [Next]_vars => PoolInv'
  BY PoolStep
<1> QED
  BY <1>1, <1>2, BrokerInvariant, PTL DEF Spec

-----------------------------------------------------------------------------
(* The broker implements ExecutionPool *)

\* What the pool holds for each takeoff is its one runtime.
HeldOK ==
  \A j \in Jobs :
    /\ \A e \in Runtimes : owner[e] = j => heldBar[j] = e
    /\ (\A e \in Runtimes : owner[e] # j) => heldBar[j] = NoExecution

\* That is so since there is at most one.
LEMMA Held ==
  ASSUME PoolNow
  PROVE  HeldOK
<1>1. \A j \in Jobs : Working(j) = {e \in Runtimes : owner[e] = j}
  BY DEF Working, Runtimes
<1>2. \A j \in Jobs, e \in Runtimes : owner[e] = j => Working(j) = {e}
  BY <1>1 DEF PoolNow
<1> QED
  BY <1>1, <1>2 DEF HeldOK, heldBar

\* And after a step
LEMMA HeldNext ==
  ASSUME PoolNow'
  PROVE  HeldOK'
<1>1. \A j \in Jobs : Working(j)' = {e \in Runtimes' : owner'[e] = j}
  BY DEF Working, Runtimes
<1>2. \A j \in Jobs, e \in Runtimes' : owner'[e] = j => Working(j)' = {e}
  BY <1>1 DEF PoolNow
<1> QED
  BY <1>1, <1>2 DEF HeldOK, heldBar

\* A step that keeps the runtimes keeps the pool.
LEMMA HeldFrame ==
  ASSUME HeldOK, HeldOK', Runtimes' = Runtimes, \A e \in Runtimes : owner'[e] = owner[e]
  PROVE  UNCHANGED heldBar
<1>1. \A j \in Jobs : heldBar'[j] = heldBar[j]
  BY DEF HeldOK
<1>2. heldBar = [j \in Jobs |-> heldBar[j]] /\ heldBar' = [j \in Jobs |-> heldBar'[j]]
  BY DEF heldBar
<1> QED
  BY <1>1, <1>2

\* A runtime that ends is given up by its takeoff.
LEMMA HeldStop ==
  ASSUME BrokerAssumption, HeldOK, HeldOK', NEW e \in Runtimes, owner[e] \in Jobs,
         Runtimes' = Runtimes \ {e}, \A f \in Runtimes : owner'[f] = owner[f], PoolNow
  PROVE  Pool!Stop(owner[e])
<1>1. heldBar[owner[e]] = e /\ e # NoExecution
  BY DEF HeldOK, Runtimes, BrokerAssumption
<1>2. \A f \in Runtimes' : owner'[f] # owner[e]
  BY DEF PoolNow
<1>3. heldBar'[owner[e]] = NoExecution
  BY <1>2 DEF HeldOK
<1>4. \A j \in Jobs \ {owner[e]} : heldBar'[j] = heldBar[j]
  BY DEF HeldOK
<1>5. heldBar = [j \in Jobs |-> heldBar[j]] /\ heldBar' = [j \in Jobs |-> heldBar'[j]]
  BY DEF heldBar
<1>6. heldBar' = [heldBar EXCEPT ![owner[e]] = NoExecution]
  BY <1>3, <1>4, <1>5
<1> QED
  BY <1>1, <1>6 DEF Pool!Stop

\* The instance counts as this module does.
LEMMA PoolCounts == \A S : Pool!Cardinality(S) = Cardinality(S)
BY DEF Pool!Cardinality, Cardinality

\* Takeoffs that hold a runtime are at most as many as there are runtimes.
LEMMA BusyBound ==
  ASSUME HeldOK, IsFiniteSet(Runtimes)
  PROVE  Cardinality(Pool!Busy) <= Cardinality(Runtimes) /\ IsFiniteSet(Pool!Busy)
<1>1. \A j \in Pool!Busy : heldBar[j] \in Runtimes /\ owner[heldBar[j]] = j
  BY DEF HeldOK, Pool!Busy
<1>2. [j \in Pool!Busy |-> heldBar[j]] \in Injection(Pool!Busy, Runtimes)
  BY <1>1 DEF Injection, IsInjective
<1> QED
  BY <1>2, FS_Injection

\* The launch takes a place in the pool for a takeoff that has none.
LEMMA HeldStart ==
  ASSUME BrokerAssumption, BrokerInv, BrokerInv', PoolInv, HeldOK, HeldOK',
         Launch, lock.e \notin Runtimes, Runtimes' = Runtimes \cup {lock.e}
  PROVE  Pool!Start(owner[lock.e], lock.e) /\ owner[lock.e] \in Jobs /\ lock.e \in Executions
<1> USE DEF BrokerInv
<1>1. PICK e \in Executions : e = lock.e
  BY LaunchEffect
<1>2. /\ lock.step = "launch" /\ up = "serving" /\ mem[e] # "none" /\ UNCHANGED owner
      /\ owner[e] \in Jobs
  BY <1>1, LaunchEffect DEF LockInv, Building, Launch, history
<1>3. Runtimes \subseteq Records \ {e} /\ e \in Records
  BY <1>1, <1>2, Finite DEF Records
<1>4. \A f \in Runtimes : owner[f] # owner[e]
  BY <1>1, <1>2, <1>3 DEF PoolInv, RecordsOf
<1>5. Cardinality(Pool!Busy) < MaxConcurrentJobs
  <2>1. /\ IsFiniteSet(Records \ {e})
        /\ Cardinality(Records \ {e}) = Cardinality(Records) - 1
    BY <1>3, Finite, FS_RemoveElement
  <2>2. Cardinality(Runtimes) <= Cardinality(Records) - 1
    BY <1>3, <2>1, FS_Subset
  <2>3. Cardinality(Pool!Busy) <= Cardinality(Runtimes) /\ Cardinality(Pool!Busy) \in Nat
    BY Finite, BusyBound, FS_CardinalityType
  <2>4. Cardinality(Records) <= MaxConcurrentJobs
    BY <1>2 DEF PoolInv
  <2> QED
    BY <2>2, <2>3, <2>4, Finite DEF BrokerAssumption
<1>6. heldBar[owner[e]] = NoExecution
  BY <1>2, <1>4 DEF HeldOK
<1>7. heldBar'[owner[e]] = e
  BY <1>1, <1>2 DEF HeldOK
<1>8. \A j \in Jobs \ {owner[e]} : heldBar'[j] = heldBar[j]
  BY <1>1, <1>2 DEF HeldOK
<1>9. heldBar = [j \in Jobs |-> heldBar[j]] /\ heldBar' = [j \in Jobs |-> heldBar'[j]]
  BY DEF heldBar
<1>10. heldBar' = [heldBar EXCEPT ![owner[e]] = e]
  BY <1>7, <1>8, <1>9
<1>11. Pool!Start(owner[e], e)
  BY <1>5, <1>6, <1>10, PoolCounts DEF Pool!Start
<1> QED
  BY <1>1, <1>2, <1>11

\* The broker keeps what ExecutionPool promises, step by step: the launch of a
\* first resource is a Start, the end of the last one a Stop, and every other
\* step, those of a crash and of the restart included, leaves the pool alone.
THEOREM ImplementsExecutionPool == BrokerAssumption => (Spec => PoolSpec)
<1> SUFFICES ASSUME BrokerAssumption
             PROVE  Spec => PoolSpec
  OBVIOUS
<1>1. Init => Pool!Init
  BY DEF Init, Pool!Init, heldBar, Working, Runtime
<1>2. (BrokerInv /\ PoolInv) /\ (BrokerInv /\ PoolInv)' /\ [Next]_vars
      => [Pool!Next]_heldBar
  <2> SUFFICES ASSUME BrokerInv, PoolInv, BrokerInv', PoolInv', [Next]_vars
               PROVE  [Pool!Next]_heldBar
    OBVIOUS
  <2>1. HeldOK /\ HeldOK' /\ PoolNow
    BY Held, HeldNext, PoolParts, PoolPartsNext
  <2>2. RuntimesMove
    BY EveryStepMoves DEF BrokerInv
  <2>3. CASE Runtimes' = Runtimes
    BY <2>1, <2>2, <2>3, HeldFrame DEF RuntimesMove
  <2>4. ASSUME NEW e \in Runtimes, Runtimes' = Runtimes \ {e}
        PROVE  Pool!Next
    <3>1. owner[e] \in Jobs
      BY DEF BrokerInv, OwnerInv, Runtimes, Runtime
    <3> QED
      BY <2>1, <2>2, <2>4, <3>1, HeldStop DEF RuntimesMove, Pool!Next
  <2>5. CASE Launch /\ lock.e \notin Runtimes /\ Runtimes' = Runtimes \cup {lock.e}
    BY <2>1, <2>5, HeldStart DEF Pool!Next
  <2> QED
    BY <2>2, <2>3, <2>4, <2>5 DEF RuntimesMove
<1> QED
  BY <1>1, <1>2, PoolInvariant, PTL DEF Spec, PoolSpec, Pool!Spec
=============================================================================
