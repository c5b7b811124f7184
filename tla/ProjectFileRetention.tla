------------------------- MODULE ProjectFileRetention -------------------------
(***************************************************************************)
(* The daily cleanup of the files of finished takeoffs: the lease, the      *)
(* removal of objects and rows, and the mark that the cleanup is complete,  *)
(* beside the triggers that guard takeoff_jobs and takeoff_files.           *)
(*                                                                         *)
(* A file is <<takeoff, role>>; its row is in takeoff_files and its object  *)
(* in storage, and the two change in different steps.  A run works on       *)
(* every takeoff it claimed; the limits of 50 takeoffs and 1000 files of a  *)
(* run are above the instances.                                             *)
(***************************************************************************)
EXTENDS FiniteSets, Naturals

CONSTANTS
  Jobs,
  Samples,     \* takeoffs of which a one-page copy is processed
  Historic,    \* takeoffs of before the archive
  Runs,        \* runs that may be under way together
  Overrun,     \* whether a run may outlive its lease
  Erasures,    \* whether an archived source may be erased
  MaxLate,     \* files registered after the end of their takeoff
  MaxLost,     \* uploads that are never registered
  MaxFaults,   \* failed calls and stopped runs
  None

RetentionAssumption ==
  /\ Samples \subseteq Jobs /\ Historic \subseteq Jobs \ Samples /\ None \notin Runs
  /\ Overrun \in BOOLEAN /\ Erasures \in BOOLEAN
  /\ MaxLate \in Nat /\ MaxLost \in Nat /\ MaxFaults \in Nat

VARIABLES
  job,        \* takeoff_jobs, the columns of the cleanup
  rows,       \* takeoff_files
  objects,    \* storage
  archived,   \* takeoffs with a document_archives row that is not deleted
  run,        \* runProjectFileRetention
  late, lost, faults

vars == <<job, rows, objects, archived, run, late, lost, faults>>
counters == <<late, lost, faults>>

Source(j) == <<j, "source">>
Sample(j) == <<j, "sample">>
Result(j) == <<j, "result">>
\* The one row of role input: of a sample it is the copy, submit/route.ts.
Input(j) == IF j \in Samples THEN Sample(j) ELSE Source(j)
Files == Jobs \X {"source", "sample", "result", "late", "unregistered"}

IdleRun == [at |-> "idle", ids |-> {}, files |-> {}, kept |-> {}, gone |-> {}, clean |-> {}]

Init ==
  /\ job = [j \in Jobs |-> [work |-> TRUE, past |-> FALSE, aged |-> FALSE, corrected |-> FALSE,
                            token |-> None, leased |-> FALSE, purged |-> FALSE]]
  /\ rows = {Input(j) : j \in Jobs}
  /\ objects = {Source(j) : j \in Jobs} \cup {Sample(j) : j \in Samples}
  /\ archived = Jobs \ Historic
  /\ run = [r \in Runs |-> IdleRun]
  /\ late = 0 /\ lost = 0 /\ faults = 0

-----------------------------------------------------------------------------
(* The takeoff.  guard_takeoff_project_file_retention refuses a change of   *)
(* its status under a lease, and clears the columns of one that is at work. *)

Guarded(j) == job[j].token # None /\ job[j].leased

Deliver(j) ==
  /\ job[j].work /\ Result(j) \notin rows
  /\ rows' = rows \cup {Result(j)} /\ objects' = objects \cup {Result(j)}
  /\ UNCHANGED <<job, archived, run, counters>>

\* prepared and uploaded, and the call that registers it is lost
UploadUnregistered(j) ==
  /\ job[j].work /\ lost < MaxLost /\ lost' = lost + 1
  /\ objects' = objects \cup {<<j, "unregistered">>}
  /\ UNCHANGED <<job, rows, archived, run, late, faults>>

Finish(j) ==
  /\ job[j].work
  /\ job' = [job EXCEPT ![j].work = FALSE, ![j].aged = FALSE]
  /\ UNCHANGED <<rows, objects, archived, run, counters>>

\* Files may be kept for less than the seven days of a correction.
AgeEarly(j) ==
  /\ ~job[j].work /\ ~job[j].aged
  /\ job' = [job EXCEPT ![j].aged = TRUE]
  /\ UNCHANGED <<rows, objects, archived, run, counters>>

\* project_files_retention_at falls behind the cutoff: parseProjectFileRetentionDays
\* lets no cutoff be nearer than the seven days of a correction.
Age(j) ==
  /\ ~job[j].work /\ ~job[j].aged
  /\ job' = [job EXCEPT ![j].aged = TRUE, ![j].past = TRUE]
  /\ UNCHANGED <<rows, objects, archived, run, counters>>

\* request_takeoff_correction
RequestCorrection(j) ==
  /\ ~job[j].work /\ ~job[j].past /\ ~job[j].purged /\ ~Guarded(j) /\ ~job[j].corrected
  /\ Input(j) \in rows /\ Result(j) \in rows
  /\ job' = [job EXCEPT ![j] = [@ EXCEPT !.work = TRUE, !.corrected = TRUE, !.aged = FALSE,
                                         !.token = None, !.leased = FALSE, !.purged = FALSE]]
  /\ UNCHANGED <<rows, objects, archived, run, counters>>

\* The mark of a finished cleanup stays.
InsertKeepsMark(j) ==
  /\ ~job[j].work /\ ~Guarded(j) /\ late < MaxLate /\ late' = late + 1 /\ <<j, "late">> \notin rows
  /\ rows' = rows \cup {<<j, "late">>} /\ objects' = objects \cup {<<j, "late">>}
  /\ job' = [job EXCEPT ![j].aged = FALSE]
  /\ UNCHANGED <<archived, run, lost, faults>>

\* guard_takeoff_file_insert_during_retention
InsertLate(j) ==
  /\ ~job[j].work /\ ~Guarded(j) /\ late < MaxLate /\ late' = late + 1 /\ <<j, "late">> \notin rows
  /\ rows' = rows \cup {<<j, "late">>} /\ objects' = objects \cup {<<j, "late">>}
  /\ job' = [job EXCEPT ![j] = [@ EXCEPT !.aged = FALSE, !.token = None, !.leased = FALSE,
                                         !.purged = FALSE]]
  /\ UNCHANGED <<archived, run, lost, faults>>

\* finalizeDocumentArchiveDeletion: the object, then the tombstone
EraseSource(j) ==
  /\ Erasures /\ ~job[j].work /\ j \in archived
  /\ archived' = archived \ {j} /\ objects' = objects \ {Source(j)}
  /\ UNCHANGED <<job, rows, run, counters>>

\* project_files_purge_expires_at
Expire(r) ==
  /\ Overrun \/ run[r].at = "idle"
  /\ \E j \in Jobs : job[j].token = r /\ job[j].leased
  /\ job' = [j \in Jobs |-> IF job[j].token = r THEN [job[j] EXCEPT !.leased = FALSE] ELSE job[j]]
  /\ UNCHANGED <<rows, objects, archived, run, counters>>

-----------------------------------------------------------------------------
(* A run                                                                    *)

At(r, at) == run[r].at = at
Goto(r, at) == run' = [run EXCEPT ![r].at = at]
Fault == faults < MaxFaults /\ faults' = faults + 1

Eligible(j) == ~job[j].work /\ ~job[j].purged /\ job[j].aged

\* A lease that is over is not taken over.
ClaimFree(r) ==
  LET ids == {j \in Jobs : Eligible(j) /\ job[j].token = None}
  IN /\ At(r, "idle") /\ ids # {}
     /\ \A j \in Jobs : job[j].token # r
     /\ job' = [j \in Jobs |-> IF j \in ids THEN [job[j] EXCEPT !.token = r, !.leased = TRUE] ELSE job[j]]
     /\ run' = [run EXCEPT ![r] = [IdleRun EXCEPT !.at = "list", !.ids = ids]]
     /\ UNCHANGED <<rows, objects, archived, counters>>

\* The candidates and claimRetentionJobs.  A token is new in each run: r claims again
\* when no takeoff has its last token.
Claim(r) ==
  LET ids == {j \in Jobs : Eligible(j) /\ ~Guarded(j)}
  IN /\ At(r, "idle") /\ ids # {}
     /\ \A j \in Jobs \ ids : job[j].token # r
     /\ job' = [j \in Jobs |-> IF j \in ids THEN [job[j] EXCEPT !.token = r, !.leased = TRUE] ELSE job[j]]
     /\ run' = [run EXCEPT ![r] = [IdleRun EXCEPT !.at = "list", !.ids = ids]]
     /\ UNCHANGED <<rows, objects, archived, counters>>

\* Only what the archive names is kept.
KeptByArchive(j) == rows \cap (IF j \in archived THEN {Source(j)} ELSE {})

\* partitionRetentionObjects: what the archive names, and every input but the copy
\* of a plan that is archived
Kept(j) == rows \cap ({Source(j)} \cup IF j \in archived THEN {} ELSE {Sample(j)})

List(r) ==
  LET mine == {f \in rows : f[1] \in run[r].ids}
      kept == UNION {Kept(j) : j \in run[r].ids}
  IN /\ At(r, "list")
     /\ run' = [run EXCEPT ![r] = [@ EXCEPT !.at = "remove", !.files = mine \ kept,
                                           !.kept = kept \cup {Source(j) : j \in run[r].ids \cap archived}]]
     /\ UNCHANGED <<job, rows, objects, archived, counters>>

\* A failed batch counts as removed.
RemoveObjectUnchecked(r) ==
  /\ At(r, "remove")
  /\ \E f \in run[r].files :
       /\ run' = [run EXCEPT ![r].at = "row", ![r].gone = {f}, ![r].files = @ \ {f}]
       /\ (objects' = objects \ {f} /\ UNCHANGED faults) \/ (Fault /\ UNCHANGED objects)
  /\ UNCHANGED <<job, rows, archived, late, lost>>

\* removeTrackedStorageObjects: after an error it looks, and tries again
RemoveObject(r) ==
  /\ At(r, "remove")
  /\ \E f \in run[r].files :
       \/ /\ objects' = objects \ {f} /\ UNCHANGED faults
          /\ run' = [run EXCEPT ![r].at = "row", ![r].gone = {f}, ![r].files = @ \ {f}]
       \/ /\ Fault /\ objects' \in {objects, objects \ {f}}
          /\ run' = [run EXCEPT ![r].files = @ \ {f}]
  /\ UNCHANGED <<job, rows, archived, late, lost>>

DeleteRow(r) ==
  /\ At(r, "row") /\ run' = [run EXCEPT ![r].at = "remove", ![r].gone = {}]
  /\ (rows' = rows \ run[r].gone /\ UNCHANGED faults) \/ (Fault /\ UNCHANGED rows)
  /\ UNCHANGED <<job, objects, archived, late, lost>>

\* markFullyPurgedJobs, its query: what is left of a takeoff is protected
Remaining(r) ==
  /\ At(r, "remove") /\ run[r].files = {}
  /\ run' = [run EXCEPT ![r].at = "mark",
       ![r].clean = {j \in run[r].ids : {f \in rows : f[1] = j} \subseteq run[r].kept}]
  /\ UNCHANGED <<job, rows, objects, archived, counters>>

\* The update does not ask for the token.
MarkAnyToken(r) ==
  LET marked == {j \in run[r].clean : ~job[j].work /\ ~job[j].purged}
  IN /\ At(r, "mark") /\ Goto(r, "release")
     /\ job' = [j \in Jobs |-> IF j \in marked THEN [job[j] EXCEPT !.purged = TRUE] ELSE job[j]]
     /\ UNCHANGED <<rows, objects, archived, counters>>

\* The trigger raises when the lease of one of them is over: none is marked.
Mark(r) ==
  LET marked == {j \in run[r].clean : ~job[j].work /\ ~job[j].purged /\ job[j].token = r}
  IN /\ At(r, "mark") /\ Goto(r, "release")
     /\ job' = [j \in Jobs |-> IF j \in marked /\ \A k \in marked : job[k].leased
                               THEN [job[j] EXCEPT !.purged = TRUE] ELSE job[j]]
     /\ UNCHANGED <<rows, objects, archived, counters>>

\* The expiry stays.
ReleaseKeepsExpiry(r) ==
  /\ At(r, "release") /\ run' = [run EXCEPT ![r] = IdleRun]
  /\ job' = [j \in Jobs |-> IF job[j].token = r THEN [job[j] EXCEPT !.token = None] ELSE job[j]]
  /\ UNCHANGED <<rows, objects, archived, counters>>

\* releaseRetentionClaim
Release(r) ==
  /\ At(r, "release") /\ run' = [run EXCEPT ![r] = IdleRun]
  /\ \/ /\ job' = [j \in Jobs |-> IF job[j].token = r
                                  THEN [job[j] EXCEPT !.token = None, !.leased = FALSE] ELSE job[j]]
        /\ UNCHANGED faults
     \/ Fault /\ UNCHANGED job
  /\ UNCHANGED <<rows, objects, archived, late, lost>>

\* A failed query or update: what is left of the run is skipped.
RunFails(r) ==
  /\ run[r].at \in {"list", "remove", "mark"} /\ Fault /\ Goto(r, "release")
  /\ UNCHANGED <<job, rows, objects, archived, late, lost>>

RunDies(r) ==
  /\ run[r].at # "idle" /\ Fault /\ run' = [run EXCEPT ![r] = IdleRun]
  /\ UNCHANGED <<job, rows, objects, archived, late, lost>>

-----------------------------------------------------------------------------
Takeoff(j) ==
  \/ Deliver(j) \/ UploadUnregistered(j) \/ Finish(j) \/ Age(j)
  \/ RequestCorrection(j) \/ InsertLate(j) \/ EraseSource(j)

Cleanup(r) ==
  \/ Claim(r) \/ List(r) \/ RemoveObject(r) \/ DeleteRow(r) \/ Remaining(r) \/ Mark(r) \/ Release(r)

Next ==
  \/ \E j \in Jobs : Takeoff(j)
  \/ \E r \in Runs : Expire(r) \/ Cleanup(r) \/ RunFails(r) \/ RunDies(r)

Spec == Init /\ [][Next]_vars

-----------------------------------------------------------------------------
\* The constraints of the table: only a finished takeoff has a lease or a mark.
TypeOK ==
  /\ rows \subseteq Files /\ objects \subseteq Files /\ archived \subseteq Jobs
  /\ \A j \in Jobs : /\ job[j].work => job[j].token = None /\ ~job[j].purged /\ ~job[j].aged
                     /\ job[j].leased => job[j].token # None
  /\ \A r \in Runs : run[r].at \in {"idle", "list", "remove", "row", "mark", "release"}
  /\ late \in 0..MaxLate /\ lost \in 0..MaxLost /\ faults \in 0..MaxFaults

\* A takeoff that is marked as purged has no row left but of what is protected, also
\* when a file came in while the run looked or two runs overlap.
PurgedIsGone ==
  \A j \in Jobs : job[j].purged => {f \in rows : f[1] = j} \subseteq {Source(j), Sample(j)}

\* No source plan is removed by the cleanup, of an archive or of before it.
SourcesSurvive == \A j \in Jobs : j \in archived \cup Historic => Source(j) \in objects

\* A row outlives its object, never the other way: what is left can be found again
\* (uploads that were never registered aside).
ObjectsAreTracked ==
  \A f \in objects : f[2] \in {"result", "late", "sample"} => f \in rows

\* A correction finds the files that it corrects, whatever a cleanup did before.
CorrectionHasFiles ==
  \A j \in Jobs : job[j].work /\ job[j].corrected => {Input(j), Result(j)} \subseteq rows \cap objects

\* After the cleanup nothing of the takeoff is in storage but a source plan.
NothingElseIsStored ==
  \A j \in Jobs : job[j].purged => {f \in objects : f[1] = j} \subseteq {Source(j)}

\* A takeoff past its days, and one whose files are purged or that a file came to.
Overdue(j) == job[j].aged
Purged(j) == job[j].purged \/ ~job[j].aged
=============================================================================
