-------------------------- MODULE MCBilling_proofs --------------------------
(***************************************************************************)
(* Proofs about MCBilling, for every value of its constants: the inductive *)
(* invariants of the archive (DocumentArchive), of the verification of a   *)
(* PDF (PdfVerification) and of the checkouts (SubscriptionCheckout), and  *)
(* the properties of the run, which also rest on the theorems of           *)
(* StripeCredits_proofs and PlanVerification_proofs.                       *)
(***************************************************************************)
EXTENDS MCBilling, FiniteSetTheorems, TLAPS

-----------------------------------------------------------------------------
(* The archive of a plan.  Its variables have their own names here.         *)

status == x1
hold == x2
requester == x3
approver == x4
token == x5
tokens == x6
expired == x7
window == x8
object == x9
lost == x10
late == x11
act == x12
integrity == x13
alert == x14
cron == x15
faults == x16
USE DEF status, hold, requester, approver, token, tokens, expired, window, object, lost, late, act, integrity, alert, cron, faults

\* A removal in storage takes the object, late if its lease is over, or fails.
LEMMA RemoveDoes ==
  ASSUME NEW a \in Admins, Archive!Remove(a)
  PROVE  /\ act[a].at = "remove" /\ act' = [act EXCEPT ![a].at = "look"]
         /\ UNCHANGED <<Archive!row, window, lost, Archive!watch>>
         /\ late' \in {late, late \cup {"due"}, late \cup {"took"}}
         /\ \/ /\ object' = FALSE /\ faults' = faults
               /\ object /\ ~Archive!Claims(a) => late' = late \cup {"took"}
            \/ faults < MaxArchiveFaults /\ faults' = faults + 1 /\ object' = object
BY ArchiveAssumed DEF Archive!DocumentArchiveAssumption, Archive!Remove, Archive!At, Archive!Goto

\* A plan that was registered is in storage, and nobody removes it.
LEMMA ArchiveInitial ==
  ASSUME Archive!Init
  PROVE  Archive!ArchiveInv
<1> USE ArchiveAssumed DEF Archive!DocumentArchiveAssumption, Archive!Init, Archive!IdleAct, Archive!IdleCron
<1>1. Archive!RowTypes BY DEF Archive!RowTypes
<1>6. Archive!TokenTypes BY DEF Archive!TokenTypes
<1>2. Archive!StorageTypes BY DEF Archive!StorageTypes
<1>3. Archive!CallTypes BY DEF Archive!CallTypes
<1>4. Archive!WatchTypes BY DEF Archive!WatchTypes
<1>5. Archive!LeaseInv BY DEF Archive!LeaseInv
<1>. QED BY <1>1, <1>2, <1>3, <1>4, <1>5, <1>6 DEF Archive!ArchiveInv, Archive!Types

\* Whatever happens to the row, the removals, storage and the daily check, the invariant is kept.
LEMMA ArchiveStep ==
  ASSUME Archive!ArchiveInv, [Archive!Next]_Archive!vars
  PROVE  Archive!ArchiveInv'
<1> USE ArchiveAssumed DEF Archive!DocumentArchiveAssumption, Archive!ArchiveInv, Archive!Types,
        Archive!row, Archive!storage, Archive!watch, Archive!At, Archive!Goto,
        Archive!Leave, Archive!IdleAct, Archive!IdleCron, Archive!Claims, Archive!Open
<1>1. CASE Archive!PlaceHold \/ Archive!ReleaseHold \/ Archive!CancelDeletion
  <2> USE <1>1 DEF Archive!PlaceHold, Archive!ReleaseHold, Archive!CancelDeletion
  <2>1. Archive!RowTypes' BY DEF Archive!RowTypes
  <2>6. Archive!TokenTypes' BY DEF Archive!TokenTypes, Archive!CallTypes
  <2>2. Archive!StorageTypes' BY DEF Archive!StorageTypes
  <2>3. Archive!CallTypes' BY DEF Archive!CallTypes, Archive!TokenTypes
  <2>4. Archive!WatchTypes' BY DEF Archive!WatchTypes, Archive!StorageTypes
  <2>5. Archive!LeaseInv' BY DEF Archive!LeaseInv, Archive!RowTypes, Archive!TokenTypes, Archive!StorageTypes, Archive!CallTypes
  <2>. QED BY <2>1, <2>2, <2>3, <2>4, <2>5, <2>6
<1>2. ASSUME NEW a \in Admins, Archive!RequestDeletion(a) PROVE Archive!ArchiveInv'
  <2> USE <1>2 DEF Archive!RequestDeletion
  <2>1. Archive!RowTypes' BY DEF Archive!RowTypes
  <2>6. Archive!TokenTypes' BY DEF Archive!TokenTypes, Archive!CallTypes
  <2>2. Archive!StorageTypes' BY DEF Archive!StorageTypes
  <2>3. Archive!CallTypes' BY DEF Archive!CallTypes, Archive!TokenTypes
  <2>4. Archive!WatchTypes' BY DEF Archive!WatchTypes, Archive!StorageTypes
  <2>5. Archive!LeaseInv' BY DEF Archive!LeaseInv, Archive!RowTypes, Archive!TokenTypes, Archive!StorageTypes, Archive!CallTypes
  <2>. QED BY <2>1, <2>2, <2>3, <2>4, <2>5, <2>6
<1>3. ASSUME NEW a \in Admins, Archive!Begin(a) PROVE Archive!ArchiveInv'
  <2> USE <1>3 DEF Archive!Begin, Archive!Claim, Archive!Claimable
  <2>1. Archive!RowTypes' BY DEF Archive!RowTypes
  <2>6. Archive!TokenTypes' BY DEF Archive!TokenTypes, Archive!CallTypes
  <2>2. Archive!StorageTypes' BY DEF Archive!StorageTypes
  <2>3. Archive!CallTypes' BY DEF Archive!CallTypes, Archive!TokenTypes
  <2>4. Archive!WatchTypes' BY DEF Archive!WatchTypes, Archive!StorageTypes
  <2>5. Archive!LeaseInv' BY DEF Archive!LeaseInv, Archive!RowTypes, Archive!TokenTypes, Archive!StorageTypes, Archive!CallTypes
  <2>. QED BY <2>1, <2>2, <2>3, <2>4, <2>5, <2>6
<1>4. ASSUME NEW a \in Admins, Archive!Remove(a) PROVE Archive!ArchiveInv'
  <2>0. /\ act[a].at = "remove" /\ act' = [act EXCEPT ![a].at = "look"]
        /\ UNCHANGED <<Archive!row, window, lost, Archive!watch>>
        /\ late' \in {late, late \cup {"due"}, late \cup {"took"}}
        /\ \/ /\ object' = FALSE /\ faults' = faults
              /\ object /\ ~Archive!Claims(a) => late' = late \cup {"took"}
           \/ faults < MaxArchiveFaults /\ faults' = faults + 1 /\ object' = object
    BY <1>4, RemoveDoes
  <2> USE <2>0
  <2>1. Archive!RowTypes' BY DEF Archive!RowTypes
  <2>6. Archive!TokenTypes' BY DEF Archive!TokenTypes, Archive!CallTypes
  <2>2. Archive!StorageTypes' BY DEF Archive!StorageTypes
  <2>3. Archive!CallTypes' BY DEF Archive!CallTypes, Archive!TokenTypes
  <2>4. Archive!WatchTypes' BY DEF Archive!WatchTypes, Archive!StorageTypes
  <2>5. Archive!LeaseInv' BY DEF Archive!LeaseInv, Archive!RowTypes, Archive!TokenTypes, Archive!StorageTypes, Archive!CallTypes
  <2>. QED BY <2>1, <2>2, <2>3, <2>4, <2>5, <2>6
<1>5. ASSUME NEW a \in Admins, Archive!Look(a) PROVE Archive!ArchiveInv'
  <2> USE <1>5 DEF Archive!Look
  <2>1. Archive!RowTypes' BY DEF Archive!RowTypes
  <2>6. Archive!TokenTypes' BY DEF Archive!TokenTypes, Archive!CallTypes
  <2>2. Archive!StorageTypes' BY DEF Archive!StorageTypes
  <2>3. Archive!CallTypes' BY DEF Archive!CallTypes, Archive!TokenTypes
  <2>4. Archive!WatchTypes' BY DEF Archive!WatchTypes, Archive!StorageTypes
  <2>5. Archive!LeaseInv' BY DEF Archive!LeaseInv, Archive!RowTypes, Archive!TokenTypes, Archive!StorageTypes, Archive!CallTypes
  <2>. QED BY <2>1, <2>2, <2>3, <2>4, <2>5, <2>6
<1>6. ASSUME NEW a \in Admins, Archive!Release(a) PROVE Archive!ArchiveInv'
  <2> USE <1>6 DEF Archive!Release
  <2>1. Archive!RowTypes' BY DEF Archive!RowTypes
  <2>6. Archive!TokenTypes' BY DEF Archive!TokenTypes, Archive!CallTypes
  <2>2. Archive!StorageTypes' BY DEF Archive!StorageTypes
  <2>3. Archive!CallTypes' BY DEF Archive!CallTypes, Archive!TokenTypes
  <2>4. Archive!WatchTypes' BY DEF Archive!WatchTypes, Archive!StorageTypes
  <2>5. Archive!LeaseInv' BY DEF Archive!LeaseInv, Archive!RowTypes, Archive!TokenTypes, Archive!StorageTypes, Archive!CallTypes
  <2>. QED BY <2>1, <2>2, <2>3, <2>4, <2>5, <2>6
<1>7. ASSUME NEW a \in Admins, Archive!Finalize(a) PROVE Archive!ArchiveInv'
  <2> USE <1>7 DEF Archive!Finalize
  <2>1. Archive!RowTypes' BY DEF Archive!RowTypes
  <2>6. Archive!TokenTypes' BY DEF Archive!TokenTypes, Archive!CallTypes
  <2>2. Archive!StorageTypes' BY DEF Archive!StorageTypes
  <2>3. Archive!CallTypes' BY DEF Archive!CallTypes, Archive!TokenTypes
  <2>4. Archive!WatchTypes' BY DEF Archive!WatchTypes, Archive!StorageTypes
  <2>5. Archive!LeaseInv' BY DEF Archive!LeaseInv, Archive!RowTypes, Archive!TokenTypes, Archive!StorageTypes, Archive!CallTypes
  <2>. QED BY <2>1, <2>2, <2>3, <2>4, <2>5, <2>6
<1>8. ASSUME NEW a \in Admins, Archive!ActFails(a) PROVE Archive!ArchiveInv'
  <2> USE <1>8 DEF Archive!ActFails
  <2>1. Archive!RowTypes' BY DEF Archive!RowTypes
  <2>6. Archive!TokenTypes' BY DEF Archive!TokenTypes, Archive!CallTypes
  <2>2. Archive!StorageTypes' BY DEF Archive!StorageTypes
  <2>3. Archive!CallTypes' BY DEF Archive!CallTypes, Archive!TokenTypes
  <2>4. Archive!WatchTypes' BY DEF Archive!WatchTypes, Archive!StorageTypes
  <2>5. Archive!LeaseInv' BY DEF Archive!LeaseInv, Archive!RowTypes, Archive!TokenTypes, Archive!StorageTypes, Archive!CallTypes
  <2>. QED BY <2>1, <2>2, <2>3, <2>4, <2>5, <2>6
<1>9. CASE Archive!Expire \/ Archive!CloseWindow \/ Archive!UploadAgain
  <2> USE <1>9 DEF Archive!Expire, Archive!CloseWindow, Archive!UploadAgain
  <2>1. Archive!RowTypes' BY DEF Archive!RowTypes
  <2>6. Archive!TokenTypes' BY DEF Archive!TokenTypes, Archive!CallTypes
  <2>2. Archive!StorageTypes' BY DEF Archive!StorageTypes
  <2>3. Archive!CallTypes' BY DEF Archive!CallTypes, Archive!TokenTypes
  <2>4. Archive!WatchTypes' BY DEF Archive!WatchTypes, Archive!StorageTypes
  <2>5. Archive!LeaseInv' BY DEF Archive!LeaseInv, Archive!RowTypes, Archive!TokenTypes, Archive!StorageTypes, Archive!CallTypes
  <2>. QED BY <2>1, <2>2, <2>3, <2>4, <2>5, <2>6
<1>10. CASE Archive!RemoveLate \/ Archive!Lose \/ Archive!Recover
  <2> USE <1>10 DEF Archive!RemoveLate, Archive!Lose, Archive!Recover
  <2>1. Archive!RowTypes' BY DEF Archive!RowTypes
  <2>6. Archive!TokenTypes' BY DEF Archive!TokenTypes, Archive!CallTypes
  <2>2. Archive!StorageTypes' BY DEF Archive!StorageTypes
  <2>3. Archive!CallTypes' BY DEF Archive!CallTypes, Archive!TokenTypes
  <2>4. Archive!WatchTypes' BY DEF Archive!WatchTypes, Archive!StorageTypes
  <2>5. Archive!LeaseInv' BY DEF Archive!LeaseInv, Archive!RowTypes, Archive!TokenTypes, Archive!StorageTypes, Archive!CallTypes
  <2>. QED BY <2>1, <2>2, <2>3, <2>4, <2>5, <2>6
<1>11. CASE Archive!Check \/ Archive!CronFails
  <2> USE <1>11 DEF Archive!Check, Archive!CronFails, Archive!CronRead, Archive!CronExists,
     Archive!CronRecord, Archive!CronAlert, Archive!CronResolve
  <2>1. Archive!RowTypes' BY DEF Archive!RowTypes
  <2>6. Archive!TokenTypes' BY DEF Archive!TokenTypes, Archive!CallTypes
  <2>2. Archive!StorageTypes' BY DEF Archive!StorageTypes
  <2>3. Archive!CallTypes' BY DEF Archive!CallTypes, Archive!TokenTypes
  <2>4. Archive!WatchTypes'
    <3> USE DEF Archive!WatchTypes, Archive!StorageTypes
    <3>1. CASE Archive!CronRead BY <3>1
    <3>2. CASE Archive!CronExists BY <3>2
    <3>3. CASE Archive!CronRecord BY <3>3
    <3>4. CASE Archive!CronAlert BY <3>4
    <3>5. CASE Archive!CronResolve BY <3>5
    <3>6. CASE Archive!CronFails BY <3>6
    <3>. QED BY <3>1, <3>2, <3>3, <3>4, <3>5, <3>6
  <2>5. Archive!LeaseInv' BY DEF Archive!LeaseInv, Archive!RowTypes, Archive!TokenTypes, Archive!StorageTypes, Archive!CallTypes
  <2>. QED BY <2>1, <2>2, <2>3, <2>4, <2>5, <2>6
<1>12. CASE UNCHANGED Archive!vars
  <2> USE <1>12 DEF Archive!vars
  <2>1. Archive!RowTypes' BY DEF Archive!RowTypes
  <2>6. Archive!TokenTypes' BY DEF Archive!TokenTypes, Archive!CallTypes
  <2>2. Archive!StorageTypes' BY DEF Archive!StorageTypes
  <2>3. Archive!CallTypes' BY DEF Archive!CallTypes, Archive!TokenTypes
  <2>4. Archive!WatchTypes' BY DEF Archive!WatchTypes, Archive!StorageTypes
  <2>5. Archive!LeaseInv' BY DEF Archive!LeaseInv, Archive!RowTypes, Archive!TokenTypes, Archive!StorageTypes, Archive!CallTypes
  <2>. QED BY <2>1, <2>2, <2>3, <2>4, <2>5, <2>6
<1>. QED BY <1>1, <1>2, <1>3, <1>4, <1>5, <1>6, <1>7, <1>8, <1>9, <1>10, <1>11, <1>12
         DEF Archive!Next, Archive!Deletion

\* Nothing is removed at first.
LEMMA HeldInitial ==
  ASSUME Archive!Init
  PROVE  Archive!HeldInv
BY ArchiveAssumed DEF Archive!DocumentArchiveAssumption, Archive!Init, Archive!HeldInv, Archive!Accounted, Archive!IdleAct

\* A step that opens the row again leaves the object, or it is known what took it.
LEMMA HeldStep ==
  ASSUME Archive!ArchiveInv, Archive!HeldInv,
         [Archive!Next]_Archive!vars
  PROVE  Archive!HeldInv'
<1> USE ArchiveAssumed DEF Archive!DocumentArchiveAssumption, Archive!ArchiveInv, Archive!Types, Archive!LeaseInv,
        Archive!RowTypes, Archive!TokenTypes, Archive!StorageTypes, Archive!CallTypes, Archive!HeldInv, Archive!Accounted, Archive!row, Archive!storage, Archive!watch, Archive!At,
        Archive!Goto, Archive!Leave, Archive!IdleAct, Archive!Claims, Archive!Open
<1>1. CASE Archive!PlaceHold \/ Archive!ReleaseHold \/ Archive!CancelDeletion
  BY <1>1 DEF Archive!PlaceHold, Archive!ReleaseHold, Archive!CancelDeletion
<1>2. ASSUME NEW a \in Admins, Archive!RequestDeletion(a) PROVE Archive!HeldInv'
  BY <1>2 DEF Archive!RequestDeletion
<1>3. ASSUME NEW a \in Admins, Archive!Begin(a) PROVE Archive!HeldInv'
  BY <1>3 DEF Archive!Begin, Archive!Claim, Archive!Claimable
<1>4. ASSUME NEW a \in Admins, Archive!Remove(a) PROVE Archive!HeldInv'
  <2>1. /\ act[a].at = "remove" /\ act' = [act EXCEPT ![a].at = "look"]
        /\ UNCHANGED <<Archive!row, window, lost, Archive!watch>>
        /\ late' \in {late, late \cup {"due"}, late \cup {"took"}}
        /\ \/ /\ object' = FALSE /\ faults' = faults
              /\ object /\ ~Archive!Claims(a) => late' = late \cup {"took"}
           \/ faults < MaxArchiveFaults /\ faults' = faults + 1 /\ object' = object
    BY <1>4, RemoveDoes
  <2>. QED BY <2>1
<1>5. ASSUME NEW a \in Admins, Archive!Look(a) PROVE Archive!HeldInv'
  BY <1>5 DEF Archive!Look
<1>6. ASSUME NEW a \in Admins, Archive!Release(a) PROVE Archive!HeldInv'
  BY <1>6 DEF Archive!Release
<1>7. ASSUME NEW a \in Admins, Archive!Finalize(a) PROVE Archive!HeldInv'
  BY <1>7 DEF Archive!Finalize
<1>8. ASSUME NEW a \in Admins, Archive!ActFails(a) PROVE Archive!HeldInv'
  BY <1>8 DEF Archive!ActFails
<1>9. CASE Archive!Expire \/ Archive!CloseWindow \/ Archive!UploadAgain
  BY <1>9 DEF Archive!Expire, Archive!CloseWindow, Archive!UploadAgain
<1>10. CASE Archive!RemoveLate \/ Archive!Lose \/ Archive!Recover
  BY <1>10 DEF Archive!RemoveLate, Archive!Lose, Archive!Recover
<1>11. CASE Archive!Check \/ Archive!CronFails
  BY <1>11
  DEF Archive!Check, Archive!CronFails, Archive!CronRead, Archive!CronExists, Archive!CronRecord,
      Archive!CronAlert, Archive!CronResolve
<1>12. CASE UNCHANGED Archive!vars
  BY <1>12 DEF Archive!vars
<1>. QED BY <1>1, <1>2, <1>3, <1>4, <1>5, <1>6, <1>7, <1>8, <1>9, <1>10, <1>11, <1>12
         DEF Archive!Next, Archive!Deletion

\* The archive's invariant holds, for any administrators, claims and failures of calls.
THEOREM ArchiveInvariant == Archive!Spec => [](Archive!ArchiveInv /\ Archive!HeldInv)
BY ArchiveInitial, ArchiveStep, HeldInitial, HeldStep, PTL DEF Archive!Spec

\* What is erased is gone and took two, and what is held is there or was taken late.
LEMMA ArchiveTold ==
  Archive!ArchiveInv /\ Archive!HeldInv
    => Archive!DeletedIsGone /\ Archive!HeldIsKept /\ Archive!TwoTookPart /\ Archive!TypeOK
BY ArchiveAssumed
DEF Archive!ArchiveInv, Archive!Types, Archive!RowTypes, Archive!TokenTypes, Archive!StorageTypes,
    Archive!WatchTypes, Archive!LeaseInv, Archive!HeldInv, Archive!Accounted, Archive!DocumentArchiveAssumption,
    Archive!DeletedIsGone, Archive!HeldIsKept, Archive!TwoTookPart, Archive!TypeOK

-----------------------------------------------------------------------------
(* The verification of a PDF.                                               *)

pdf == x1
sample == x2
pc == x3
child == x4
pages == x5
cut == x6
dir == x7
troubled == x8
verdict == x9
USE DEF pdf, sample, pc, child, pages, cut, dir, troubled, verdict

\* A child ends with the code qpdf ends with, or of a limit, and then there is trouble.
LEMMA ExitsDoes ==
  ASSUME Pdf!Types, Pdf!ChildExits
  PROVE  /\ child.state = "alive" /\ UNCHANGED <<Pdf!plan, pc, pages, dir, verdict>>
         /\ child' \in [state: {"exited"}, killed: {child.killed}, exit: {0, 2, 3, None},
                        settled: {child.settled}]
         /\ child'.exit # None => child'.exit \in Pdf!Exits
         /\ troubled' <=> troubled \/ child'.exit = None
         /\ IF pc = "extract" /\ child'.exit # None
            THEN cut' = [page |-> sample, large |-> pdf.largeCut]
            ELSE cut' = cut
<1>1. PICK code \in Pdf!Exits \cup {None} :
        /\ child' = [child EXCEPT !.state = "exited", !.exit = code]
        /\ troubled' = (troubled \/ code = None)
        /\ cut' = IF pc = "extract" /\ code # None
                  THEN [page |-> sample, large |-> pdf.largeCut]
                  ELSE cut
  BY DEF Pdf!ChildExits
<1>2. code \in {0, 2, 3, None}
  BY <1>1 DEF Pdf!Exits
<1>3. child'.exit = code /\ child' \in [state: {"exited"}, killed: {child.killed}, exit: {0, 2, 3, None},
                                        settled: {child.settled}]
  BY <1>1, <1>2 DEF Pdf!Types
<1>4. child.state = "alive" /\ UNCHANGED <<Pdf!plan, pc, pages, dir, verdict>>
  BY DEF Pdf!ChildExits
<1>5. code # None => code \in Pdf!Exits
  BY <1>1
<1>. QED BY <1>1, <1>3, <1>4, <1>5

\* The first to settle a promise decides how it ends; a child that is terminated is killed.
LEMMA SettleDoes ==
  ASSUME Pdf!Types, child.settled = None, NEW s \in {"exited", "alive", "closed"}, NEW how \in Pdf!Endings
  PROVE  /\ Pdf!Settle(Pdf!Terminated(child), how) \in [state: {child.state}, killed: {TRUE}, exit: {child.exit},
                                                        settled: {how}]
         /\ Pdf!Settle([child EXCEPT !.state = s], how) \in [state: {s}, killed: {child.killed}, exit: {child.exit},
                                                             settled: {how}]
BY DEF Pdf!Types, Pdf!Settle, Pdf!Terminated

\* A child closes after it ended, and the promise is settled then at the latest.
LEMMA CloseDoes ==
  ASSUME Pdf!Types, Pdf!Close
  PROVE  /\ child.state = "exited" /\ UNCHANGED <<Pdf!plan, pc, pages, cut, dir, troubled, verdict>>
         /\ child' \in [state: {"closed"}, killed: {child.killed}, exit: {child.exit},
                          settled: {IF child.settled # None THEN child.settled ELSE IF child.exit = None THEN "spawn" ELSE "exit"}]
BY DEF Pdf!Types, Pdf!Settle, Pdf!Close

\* A child that was not asked anything, and one that just was.
LEMMA BlankChild ==
   /\ Pdf!NoChild \in [state: {"none"}, killed: {FALSE}, exit: {None}, settled: {None}]
   /\ [Pdf!NoChild EXCEPT !.state = "alive"] \in [state: {"alive"}, killed: {FALSE}, exit: {None},
                                                  settled: {None}]
BY DEF Pdf!NoChild

\* Too much output, the timer and a failed spawn settle a promise first and are trouble.
LEMMA CutDoes ==
  ASSUME Pdf!Types, Pdf!TooMuchOutput \/ Pdf!WallTimeout \/ Pdf!SpawnFails
  PROVE  /\ UNCHANGED <<Pdf!plan, pc, pages, cut, dir, verdict>> /\ troubled'
         /\ child.state # "none" /\ child.settled = None
         /\ \/ child' \in [state: {child.state}, killed: {TRUE}, exit: {child.exit},
                           settled: {"output_limit", "timeout"}]
            \/ child.state = "alive" /\ child' \in [state: {"exited"}, killed: {child.killed}, exit: {child.exit},
                                                    settled: {"spawn"}]
<1>1. CASE Pdf!TooMuchOutput
  BY <1>1, SettleDoes DEF Pdf!TooMuchOutput, Pdf!Endings
<1>2. CASE Pdf!WallTimeout
  BY <1>2, SettleDoes DEF Pdf!WallTimeout, Pdf!Endings
<1>3. CASE Pdf!SpawnFails
  BY <1>3, SettleDoes DEF Pdf!SpawnFails, Pdf!Endings
<1>. QED BY <1>1, <1>2, <1>3

\* The end of a child keeps the invariant: its code is the true answer to its question.
LEMMA ExitsKeeps ==
  ASSUME Pdf!PdfInv, Pdf!ChildExits
  PROVE  Pdf!PdfInv'
<1>. USE DEF Pdf!plan, Pdf!Pages, Pdf!Questions
<1>1. Pdf!Types BY DEF Pdf!PdfInv
<1>2. /\ child.state = "alive" /\ UNCHANGED <<Pdf!plan, pc, pages, dir, verdict>>
      /\ child' \in [state: {"exited"}, killed: {child.killed}, exit: {0, 2, 3, None},
                     settled: {child.settled}]
      /\ child'.exit # None => child'.exit \in Pdf!Exits
      /\ troubled' <=> troubled \/ child'.exit = None
      /\ IF pc = "extract" /\ child'.exit # None
         THEN cut' = [page |-> sample, large |-> pdf.largeCut]
         ELSE cut' = cut
  BY <1>1, ExitsDoes
<1>0. \A x \in Pdf!Codes \cup Pdf!Endings : x # None
  BY PdfAssumed DEF Pdf!PdfAssumption
<1>8. "accepted" # None /\ None \notin Nat
  BY PdfAssumed DEF Pdf!PdfAssumption, Pdf!Codes
<1>3. Pdf!Types'
  BY <1>1, <1>2, PdfAssumed
  DEF Pdf!PdfAssumption, Pdf!Codes, Pdf!Endings, Pdf!Types, Pdf!PdfInv, Pdf!Learnt, Pdf!Exits
<1>4. Pdf!TruthTold'
  BY <1>1, <1>2, <1>0, <1>8
  DEF Pdf!Endings, Pdf!Codes, Pdf!Types, Pdf!PdfInv, Pdf!TruthTold, Pdf!Broken, Pdf!Exits
<1>5. Pdf!ChildInv'
  BY <1>1, <1>2, <1>0, <1>8 DEF Pdf!Endings, Pdf!Codes, Pdf!Types, Pdf!PdfInv, Pdf!ChildInv, Pdf!Exits
<1>6. Pdf!Learnt'
  BY <1>1, <1>2, <1>0, <1>8
  DEF Pdf!Endings, Pdf!Codes, Pdf!Types, Pdf!PdfInv, Pdf!TruthTold, Pdf!Learnt, Pdf!Broken, Pdf!ChildInv,
      Pdf!Exits
<1>7. Pdf!Judged'
  BY <1>1, <1>2, <1>0, <1>8
  DEF Pdf!Endings, Pdf!Codes, Pdf!Types, Pdf!PdfInv, Pdf!Judged, Pdf!AcceptedIsSound, Pdf!Sound,
      Pdf!TruthTold, Pdf!ChildInv, Pdf!Learnt, Pdf!Broken, Pdf!Exits
<1>9. Pdf!Flags'
  BY <1>2, Zenon DEF Pdf!PdfInv, Pdf!Flags, Pdf!ChildExits
<1>. QED BY <1>3, <1>4, <1>5, <1>6, <1>7, <1>9 DEF Pdf!PdfInv

\* What cuts a child short keeps the invariant: it is trouble.
LEMMA CutKeeps ==
  ASSUME Pdf!PdfInv, Pdf!TooMuchOutput \/ Pdf!WallTimeout \/ Pdf!SpawnFails
  PROVE  Pdf!PdfInv'
<1>. USE DEF Pdf!plan, Pdf!Pages, Pdf!Questions
<1>1. Pdf!Types BY DEF Pdf!PdfInv
<1>2. /\ UNCHANGED <<Pdf!plan, pc, pages, cut, dir, verdict>> /\ troubled'
      /\ child.state # "none" /\ child.settled = None
      /\ \/ child' \in [state: {child.state}, killed: {TRUE}, exit: {child.exit},
                        settled: {"output_limit", "timeout"}]
         \/ child.state = "alive" /\ child' \in [state: {"exited"}, killed: {child.killed}, exit: {child.exit},
                                                 settled: {"spawn"}]
  BY <1>1, CutDoes
<1>0. \A x \in Pdf!Codes \cup Pdf!Endings : x # None
  BY PdfAssumed DEF Pdf!PdfAssumption
<1>8. "accepted" # None /\ None \notin Nat
  BY PdfAssumed DEF Pdf!PdfAssumption, Pdf!Codes
<1>10. child' \in [state: {"none", "alive", "exited", "closed"}, killed: BOOLEAN,
                  exit: {0, 2, 3, None}, settled: Pdf!Endings \cup {None}]
  <2>1. CASE child' \in [state: {child.state}, killed: {TRUE}, exit: {child.exit},
                         settled: {"output_limit", "timeout"}]
    BY <1>1, <2>1 DEF Pdf!Types, Pdf!Endings
  <2>2. CASE child' \in [state: {"exited"}, killed: {child.killed}, exit: {child.exit},
                         settled: {"spawn"}]
    BY <1>1, <2>2 DEF Pdf!Types, Pdf!Endings
  <2>. QED BY <1>2, <2>1, <2>2
<1>3. Pdf!Types'
  BY <1>1, <1>2, <1>10 DEF Pdf!Types
<1>4. Pdf!TruthTold'
  BY <1>1, <1>2, <1>0, <1>8 DEF Pdf!Endings, Pdf!Codes, Pdf!Types, Pdf!PdfInv, Pdf!TruthTold, Pdf!Broken
<1>5. Pdf!ChildInv'
  BY <1>1, <1>2, <1>0, <1>8 DEF Pdf!Endings, Pdf!Codes, Pdf!Types, Pdf!PdfInv, Pdf!ChildInv
<1>6. Pdf!Learnt'
  BY <1>1, <1>2, <1>0, <1>8
  DEF Pdf!Endings, Pdf!Codes, Pdf!Types, Pdf!PdfInv, Pdf!TruthTold, Pdf!Learnt, Pdf!Broken, Pdf!ChildInv
<1>7. Pdf!Judged'
  BY <1>1, <1>2, <1>0, <1>8
  DEF Pdf!Endings, Pdf!Codes, Pdf!Types, Pdf!PdfInv, Pdf!Judged, Pdf!AcceptedIsSound, Pdf!Sound,
      Pdf!TruthTold, Pdf!ChildInv, Pdf!Learnt, Pdf!Broken
<1>9. Pdf!Flags'
  BY <1>2, Zenon DEF Pdf!PdfInv, Pdf!Flags, Pdf!TooMuchOutput, Pdf!WallTimeout, Pdf!SpawnFails
<1>. QED BY <1>3, <1>4, <1>5, <1>6, <1>7, <1>9 DEF Pdf!PdfInv

\* The close of a child keeps the invariant.
LEMMA CloseKeeps ==
  ASSUME Pdf!PdfInv, Pdf!Close
  PROVE  Pdf!PdfInv'
<1>. USE DEF Pdf!plan, Pdf!Pages, Pdf!Questions
<1>1. Pdf!Types BY DEF Pdf!PdfInv
<1>2. /\ child.state = "exited" /\ UNCHANGED <<Pdf!plan, pc, pages, cut, dir, troubled, verdict>>
      /\ child' \in [state: {"closed"}, killed: {child.killed}, exit: {child.exit},
                       settled: {IF child.settled # None THEN child.settled ELSE IF child.exit = None THEN "spawn" ELSE "exit"}]
  BY <1>1, CloseDoes
<1>0. \A x \in Pdf!Codes \cup Pdf!Endings : x # None
  BY PdfAssumed DEF Pdf!PdfAssumption
<1>8. "accepted" # None /\ None \notin Nat
  BY PdfAssumed DEF Pdf!PdfAssumption, Pdf!Codes
<1>3. Pdf!Types'
  BY <1>1, <1>2, PdfAssumed DEF Pdf!PdfAssumption, Pdf!Codes, Pdf!Endings, Pdf!Types, Pdf!PdfInv, Pdf!Learnt
<1>4. Pdf!TruthTold'
  BY <1>1, <1>2, <1>0, <1>8 DEF Pdf!Endings, Pdf!Codes, Pdf!Types, Pdf!PdfInv, Pdf!TruthTold, Pdf!Broken
<1>5. Pdf!ChildInv'
  BY <1>1, <1>2, <1>0, <1>8 DEF Pdf!Endings, Pdf!Codes, Pdf!Types, Pdf!PdfInv, Pdf!ChildInv
<1>6. Pdf!Learnt'
  BY <1>1, <1>2, <1>0, <1>8
  DEF Pdf!Endings, Pdf!Codes, Pdf!Types, Pdf!PdfInv, Pdf!TruthTold, Pdf!Learnt, Pdf!Broken, Pdf!ChildInv
<1>7. Pdf!Judged'
  BY <1>1, <1>2, <1>0, <1>8
  DEF Pdf!Endings, Pdf!Codes, Pdf!Types, Pdf!PdfInv, Pdf!Judged, Pdf!AcceptedIsSound, Pdf!Sound,
      Pdf!TruthTold, Pdf!ChildInv, Pdf!Learnt, Pdf!Broken
<1>9. Pdf!Flags'
  BY <1>2, Zenon DEF Pdf!PdfInv, Pdf!Flags, Pdf!Close
<1>. QED BY <1>3, <1>4, <1>5, <1>6, <1>7, <1>9 DEF Pdf!PdfInv

\* The check of the sample page keeps the invariant.
LEMMA StartKeeps ==
  ASSUME Pdf!PdfInv, Pdf!Start
  PROVE  Pdf!PdfInv'
<1>. USE DEF Pdf!plan, Pdf!Pages, Pdf!Questions
<1>1. Pdf!Types BY DEF Pdf!PdfInv
<1>2. /\ Pdf!NoChild \in [state: {"none"}, killed: {FALSE}, exit: {None}, settled: {None}]
      /\ [Pdf!NoChild EXCEPT !.state = "alive"] \in [state: {"alive"}, killed: {FALSE}, exit: {None},
                                                     settled: {None}]
  BY <1>1, BlankChild
<1>0. \A x \in Pdf!Codes \cup Pdf!Endings : x # None
  BY PdfAssumed DEF Pdf!PdfAssumption
<1>8. "accepted" # None /\ None \notin Nat
  BY PdfAssumed DEF Pdf!PdfAssumption, Pdf!Codes
<1>3. Pdf!Types'
  BY <1>1, <1>2, PdfAssumed
  DEF Pdf!PdfAssumption, Pdf!Codes, Pdf!Endings, Pdf!Types, Pdf!PdfInv, Pdf!Learnt, Pdf!Start
<1>4. Pdf!TruthTold'
  BY <1>1, <1>2, <1>0, <1>8
  DEF Pdf!Endings, Pdf!Codes, Pdf!Types, Pdf!PdfInv, Pdf!TruthTold, Pdf!Broken, Pdf!Start
<1>5. Pdf!ChildInv'
  BY <1>1, <1>2, <1>0, <1>8 DEF Pdf!Endings, Pdf!Codes, Pdf!Types, Pdf!PdfInv, Pdf!ChildInv, Pdf!Start
<1>6. Pdf!Learnt'
  BY <1>1, <1>2, <1>0, <1>8
  DEF Pdf!Endings, Pdf!Codes, Pdf!Types, Pdf!PdfInv, Pdf!TruthTold, Pdf!Learnt, Pdf!Broken, Pdf!ChildInv,
      Pdf!Start
<1>7. Pdf!Judged'
  BY <1>1, <1>2, <1>0, <1>8
  DEF Pdf!Endings, Pdf!Codes, Pdf!Types, Pdf!PdfInv, Pdf!Judged, Pdf!AcceptedIsSound, Pdf!Sound,
      Pdf!TruthTold, Pdf!ChildInv, Pdf!Learnt, Pdf!Broken, Pdf!Start
<1>9. Pdf!Flags'
  BY <1>2, Zenon DEF Pdf!PdfInv, Pdf!Flags, Pdf!Start
<1>. QED BY <1>3, <1>4, <1>5, <1>6, <1>7, <1>9 DEF Pdf!PdfInv

\* The staging of the upload keeps the invariant: it goes on with a small PDF only.
LEMMA StageKeeps ==
  ASSUME Pdf!PdfInv, Pdf!Stage
  PROVE  Pdf!PdfInv'
<1>. USE DEF Pdf!plan, Pdf!Pages, Pdf!Questions
<1>1. Pdf!Types BY DEF Pdf!PdfInv
<1>2. /\ Pdf!NoChild \in [state: {"none"}, killed: {FALSE}, exit: {None}, settled: {None}]
      /\ [Pdf!NoChild EXCEPT !.state = "alive"] \in [state: {"alive"}, killed: {FALSE}, exit: {None},
                                                     settled: {None}]
  BY <1>1, BlankChild
<1>0. \A x \in Pdf!Codes \cup Pdf!Endings : x # None
  BY PdfAssumed DEF Pdf!PdfAssumption
<1>8. "accepted" # None /\ None \notin Nat
  BY PdfAssumed DEF Pdf!PdfAssumption, Pdf!Codes
<1>3. Pdf!Types'
  BY <1>1, <1>2, PdfAssumed
  DEF Pdf!PdfAssumption, Pdf!Codes, Pdf!Endings, Pdf!Types, Pdf!PdfInv, Pdf!Learnt, Pdf!Stage, Pdf!Refuse,
      Pdf!Ask
<1>4. Pdf!TruthTold'
  BY <1>1, <1>2, <1>0, <1>8
  DEF Pdf!Endings, Pdf!Codes, Pdf!Types, Pdf!PdfInv, Pdf!TruthTold, Pdf!Broken, Pdf!Stage, Pdf!Refuse,
      Pdf!Ask
<1>5. Pdf!ChildInv'
  BY <1>1, <1>2, <1>0, <1>8
  DEF Pdf!Endings, Pdf!Codes, Pdf!Types, Pdf!PdfInv, Pdf!ChildInv, Pdf!Stage, Pdf!Refuse, Pdf!Ask
<1>6. Pdf!Learnt'
  BY <1>1, <1>2, <1>0, <1>8
  DEF Pdf!Endings, Pdf!Codes, Pdf!Types, Pdf!PdfInv, Pdf!TruthTold, Pdf!Learnt, Pdf!Broken, Pdf!ChildInv,
      Pdf!Stage, Pdf!Refuse, Pdf!Ask
<1>7. Pdf!Judged'
  BY <1>1, <1>2, <1>0, <1>8
  DEF Pdf!Endings, Pdf!Codes, Pdf!Types, Pdf!PdfInv, Pdf!Judged, Pdf!AcceptedIsSound, Pdf!Sound,
      Pdf!TruthTold, Pdf!ChildInv, Pdf!Learnt, Pdf!Broken, Pdf!Stage, Pdf!Refuse, Pdf!Ask
<1>9. Pdf!Flags'
  BY <1>2, Zenon DEF Pdf!PdfInv, Pdf!Flags, Pdf!Stage
<1>. QED BY <1>3, <1>4, <1>5, <1>6, <1>7, <1>9 DEF Pdf!PdfInv

\* The answer about encryption keeps the invariant: only a plain PDF goes on.
LEMMA JudgeEncryptionKeeps ==
  ASSUME Pdf!PdfInv, Pdf!JudgeEncryption
  PROVE  Pdf!PdfInv'
<1>. USE DEF Pdf!plan, Pdf!Pages, Pdf!Questions
<1>1. Pdf!Types BY DEF Pdf!PdfInv
<1>2. /\ Pdf!NoChild \in [state: {"none"}, killed: {FALSE}, exit: {None}, settled: {None}]
      /\ [Pdf!NoChild EXCEPT !.state = "alive"] \in [state: {"alive"}, killed: {FALSE}, exit: {None},
                                                     settled: {None}]
  BY <1>1, BlankChild
<1>0. \A x \in Pdf!Codes \cup Pdf!Endings : x # None
  BY PdfAssumed DEF Pdf!PdfAssumption
<1>8. "accepted" # None /\ None \notin Nat
  BY PdfAssumed DEF Pdf!PdfAssumption, Pdf!Codes
<1>3. Pdf!Types'
  BY <1>1, <1>2, PdfAssumed
  DEF Pdf!PdfAssumption, Pdf!Codes, Pdf!Endings, Pdf!Types, Pdf!PdfInv, Pdf!Learnt, Pdf!JudgeEncryption,
      Pdf!Refuse, Pdf!Answered, Pdf!Ask
<1>4. Pdf!TruthTold'
  BY <1>1, <1>2, <1>0, <1>8
  DEF Pdf!Endings, Pdf!Codes, Pdf!Types, Pdf!PdfInv, Pdf!TruthTold, Pdf!Broken, Pdf!JudgeEncryption,
      Pdf!Refuse, Pdf!Answered, Pdf!Ask
<1>5. Pdf!ChildInv'
  BY <1>1, <1>2, <1>0, <1>8
  DEF Pdf!Endings, Pdf!Codes, Pdf!Types, Pdf!PdfInv, Pdf!ChildInv, Pdf!JudgeEncryption, Pdf!Refuse,
      Pdf!Answered, Pdf!Ask
<1>6. Pdf!Learnt'
  BY <1>1, <1>2, <1>0, <1>8
  DEF Pdf!Endings, Pdf!Codes, Pdf!Types, Pdf!PdfInv, Pdf!TruthTold, Pdf!Learnt, Pdf!Broken, Pdf!ChildInv,
      Pdf!JudgeEncryption, Pdf!Refuse, Pdf!Answered, Pdf!Ask
<1>7. Pdf!Judged'
  BY <1>1, <1>2, <1>0, <1>8
  DEF Pdf!Endings, Pdf!Codes, Pdf!Types, Pdf!PdfInv, Pdf!Judged, Pdf!AcceptedIsSound, Pdf!Sound,
      Pdf!TruthTold, Pdf!ChildInv, Pdf!Learnt, Pdf!Broken, Pdf!JudgeEncryption, Pdf!Refuse, Pdf!Answered,
      Pdf!Ask
<1>9. Pdf!Flags'
  BY <1>2, Zenon DEF Pdf!PdfInv, Pdf!Flags, Pdf!JudgeEncryption
<1>. QED BY <1>3, <1>4, <1>5, <1>6, <1>7, <1>9 DEF Pdf!PdfInv

\* The page count keeps the invariant: the pages are those of the PDF, and few enough.
LEMMA JudgePagesKeeps ==
  ASSUME Pdf!PdfInv, Pdf!JudgePages
  PROVE  Pdf!PdfInv'
<1>. USE DEF Pdf!plan, Pdf!Pages, Pdf!Questions
<1>1. Pdf!Types BY DEF Pdf!PdfInv
<1>2. /\ Pdf!NoChild \in [state: {"none"}, killed: {FALSE}, exit: {None}, settled: {None}]
      /\ [Pdf!NoChild EXCEPT !.state = "alive"] \in [state: {"alive"}, killed: {FALSE}, exit: {None},
                                                     settled: {None}]
  BY <1>1, BlankChild
<1>0. \A x \in Pdf!Codes \cup Pdf!Endings : x # None
  BY PdfAssumed DEF Pdf!PdfAssumption
<1>8. "accepted" # None /\ None \notin Nat
  BY PdfAssumed DEF Pdf!PdfAssumption, Pdf!Codes
<1>3. Pdf!Types'
  BY <1>1, <1>2, PdfAssumed
  DEF Pdf!PdfAssumption, Pdf!Codes, Pdf!Endings, Pdf!Types, Pdf!PdfInv, Pdf!Learnt, Pdf!JudgePages,
      Pdf!Refuse, Pdf!Answered, Pdf!isQpdfSuccess, Pdf!HasPage, Pdf!Ask
<1>4. Pdf!TruthTold'
  BY <1>1, <1>2, <1>0, <1>8
  DEF Pdf!Endings, Pdf!Codes, Pdf!Types, Pdf!PdfInv, Pdf!TruthTold, Pdf!Broken, Pdf!JudgePages, Pdf!Refuse,
      Pdf!Answered, Pdf!isQpdfSuccess, Pdf!HasPage, Pdf!Ask
<1>5. Pdf!ChildInv'
  BY <1>1, <1>2, <1>0, <1>8
  DEF Pdf!Endings, Pdf!Codes, Pdf!Types, Pdf!PdfInv, Pdf!ChildInv, Pdf!JudgePages, Pdf!Refuse, Pdf!Answered,
      Pdf!isQpdfSuccess, Pdf!HasPage, Pdf!Ask
<1>6. Pdf!Learnt'
  BY <1>1, <1>2, <1>0, <1>8
  DEF Pdf!Endings, Pdf!Codes, Pdf!Types, Pdf!PdfInv, Pdf!TruthTold, Pdf!Learnt, Pdf!Broken, Pdf!ChildInv,
      Pdf!JudgePages, Pdf!Refuse, Pdf!Answered, Pdf!isQpdfSuccess, Pdf!HasPage, Pdf!Ask
<1>7. Pdf!Judged'
  <2> USE <1>1, <1>2, <1>0, <1>8
       DEF Pdf!Codes, Pdf!Types, Pdf!PdfInv, Pdf!Judged, Pdf!AcceptedIsSound, Pdf!Sound, Pdf!TruthTold,
           Pdf!ChildInv, Pdf!Learnt, Pdf!Broken, Pdf!JudgePages, Pdf!Refuse, Pdf!Answered,
           Pdf!isQpdfSuccess, Pdf!HasPage, Pdf!Ask
  <2>1. CASE ~Pdf!isQpdfSuccess(child.exit)
    BY <2>1
  <2>2. CASE Pdf!isQpdfSuccess(child.exit) /\ pc' = "cleanup"
    <3>1. ~Pdf!Broken /\ pages' = pdf.pages /\ MaxPages \in Nat /\ "page_count" # None /\ UNCHANGED <<Pdf!plan, cut, dir, troubled>>
      BY <2>2, PdfAssumed DEF Pdf!PdfAssumption
    <3>2. CASE pdf.pages > MaxPages
      <4>1. verdict' = "page_count"
        BY <2>2, <3>1, <3>2
      <4>. QED BY <2>2, <3>1, <3>2, <4>1
    <3>3. CASE pdf.pages <= MaxPages /\ ~Pdf!HasPage(pdf.pages)
      BY <2>2, <3>1, <3>3
    <3>4. CASE pdf.pages <= MaxPages /\ Pdf!HasPage(pdf.pages)
      <4>1. verdict' = "accepted" /\ sample = None
        BY <2>2, <3>1, <3>4
      <4>. QED BY <2>2, <3>1, <3>4, <4>1
    <3>. QED BY <3>2, <3>3, <3>4, PdfAssumed DEF Pdf!PdfAssumption
  <2>3. CASE Pdf!isQpdfSuccess(child.exit) /\ pc' = "extract"
    BY <2>3
  <2>. QED BY <2>1, <2>2, <2>3
<1>9. Pdf!Flags'
  BY <1>2, Zenon DEF Pdf!PdfInv, Pdf!Flags, Pdf!JudgePages
<1>. QED BY <1>3, <1>4, <1>5, <1>6, <1>7, <1>9 DEF Pdf!PdfInv

\* The extraction of the sample keeps the invariant: the sample is what it was cut to.
LEMMA JudgeExtractionKeeps ==
  ASSUME Pdf!PdfInv, Pdf!JudgeExtraction
  PROVE  Pdf!PdfInv'
<1>. USE DEF Pdf!plan, Pdf!Pages, Pdf!Questions
<1>1. Pdf!Types BY DEF Pdf!PdfInv
<1>2. /\ Pdf!NoChild \in [state: {"none"}, killed: {FALSE}, exit: {None}, settled: {None}]
      /\ [Pdf!NoChild EXCEPT !.state = "alive"] \in [state: {"alive"}, killed: {FALSE}, exit: {None},
                                                     settled: {None}]
  BY <1>1, BlankChild
<1>0. \A x \in Pdf!Codes \cup Pdf!Endings : x # None
  BY PdfAssumed DEF Pdf!PdfAssumption
<1>8. "accepted" # None /\ None \notin Nat
  BY PdfAssumed DEF Pdf!PdfAssumption, Pdf!Codes
<1>3. Pdf!Types'
  BY <1>1, <1>2, PdfAssumed
  DEF Pdf!PdfAssumption, Pdf!Codes, Pdf!Endings, Pdf!Types, Pdf!PdfInv, Pdf!Learnt, Pdf!JudgeExtraction,
      Pdf!Refuse, Pdf!Answered, Pdf!isQpdfSuccess, Pdf!Ask
<1>4. Pdf!TruthTold'
  BY <1>1, <1>2, <1>0, <1>8
  DEF Pdf!Endings, Pdf!Codes, Pdf!Types, Pdf!PdfInv, Pdf!TruthTold, Pdf!Broken, Pdf!JudgeExtraction,
      Pdf!Refuse, Pdf!Answered, Pdf!isQpdfSuccess, Pdf!Ask
<1>5. Pdf!ChildInv'
  BY <1>1, <1>2, <1>0, <1>8
  DEF Pdf!Endings, Pdf!Codes, Pdf!Types, Pdf!PdfInv, Pdf!ChildInv, Pdf!JudgeExtraction, Pdf!Refuse,
      Pdf!Answered, Pdf!isQpdfSuccess, Pdf!Ask
<1>6. Pdf!Learnt'
  BY <1>1, <1>2, <1>0, <1>8
  DEF Pdf!Endings, Pdf!Codes, Pdf!Types, Pdf!PdfInv, Pdf!TruthTold, Pdf!Learnt, Pdf!Broken, Pdf!ChildInv,
      Pdf!JudgeExtraction, Pdf!Refuse, Pdf!Answered, Pdf!isQpdfSuccess, Pdf!Ask
<1>7. Pdf!Judged'
  BY <1>1, <1>2, <1>0, <1>8
  DEF Pdf!Endings, Pdf!Codes, Pdf!Types, Pdf!PdfInv, Pdf!Judged, Pdf!AcceptedIsSound, Pdf!Sound,
      Pdf!TruthTold, Pdf!ChildInv, Pdf!Learnt, Pdf!Broken, Pdf!JudgeExtraction, Pdf!Refuse, Pdf!Answered,
      Pdf!isQpdfSuccess, Pdf!Ask
<1>9. Pdf!Flags'
  BY <1>2, Zenon DEF Pdf!PdfInv, Pdf!Flags, Pdf!JudgeExtraction
<1>. QED BY <1>3, <1>4, <1>5, <1>6, <1>7, <1>9 DEF Pdf!PdfInv

\* The page count of the sample keeps the invariant.
LEMMA JudgeSampleKeeps ==
  ASSUME Pdf!PdfInv, Pdf!JudgeSample
  PROVE  Pdf!PdfInv'
<1>. USE DEF Pdf!plan, Pdf!Pages, Pdf!Questions
<1>1. Pdf!Types BY DEF Pdf!PdfInv
<1>2. /\ Pdf!NoChild \in [state: {"none"}, killed: {FALSE}, exit: {None}, settled: {None}]
      /\ [Pdf!NoChild EXCEPT !.state = "alive"] \in [state: {"alive"}, killed: {FALSE}, exit: {None},
                                                     settled: {None}]
  BY <1>1, BlankChild
<1>0. \A x \in Pdf!Codes \cup Pdf!Endings : x # None
  BY PdfAssumed DEF Pdf!PdfAssumption
<1>8. "accepted" # None /\ None \notin Nat
  BY PdfAssumed DEF Pdf!PdfAssumption, Pdf!Codes
<1>3. Pdf!Types'
  BY <1>1, <1>2, PdfAssumed
  DEF Pdf!PdfAssumption, Pdf!Codes, Pdf!Endings, Pdf!Types, Pdf!PdfInv, Pdf!Learnt, Pdf!JudgeSample,
      Pdf!Refuse, Pdf!Answered, Pdf!isQpdfSuccess
<1>4. Pdf!TruthTold'
  BY <1>1, <1>2, <1>0, <1>8
  DEF Pdf!Endings, Pdf!Codes, Pdf!Types, Pdf!PdfInv, Pdf!TruthTold, Pdf!Broken, Pdf!JudgeSample, Pdf!Refuse,
      Pdf!Answered, Pdf!isQpdfSuccess
<1>5. Pdf!ChildInv'
  BY <1>1, <1>2, <1>0, <1>8
  DEF Pdf!Endings, Pdf!Codes, Pdf!Types, Pdf!PdfInv, Pdf!ChildInv, Pdf!JudgeSample, Pdf!Refuse,
      Pdf!Answered, Pdf!isQpdfSuccess
<1>6. Pdf!Learnt'
  BY <1>1, <1>2, <1>0, <1>8
  DEF Pdf!Endings, Pdf!Codes, Pdf!Types, Pdf!PdfInv, Pdf!TruthTold, Pdf!Learnt, Pdf!Broken, Pdf!ChildInv,
      Pdf!JudgeSample, Pdf!Refuse, Pdf!Answered, Pdf!isQpdfSuccess
<1>7. Pdf!Judged'
  BY <1>1, <1>2, <1>0, <1>8
  DEF Pdf!Endings, Pdf!Codes, Pdf!Types, Pdf!PdfInv, Pdf!Judged, Pdf!AcceptedIsSound, Pdf!Sound,
      Pdf!TruthTold, Pdf!ChildInv, Pdf!Learnt, Pdf!Broken, Pdf!JudgeSample, Pdf!Refuse, Pdf!Answered,
      Pdf!isQpdfSuccess
<1>9. Pdf!Flags'
  BY <1>2, Zenon DEF Pdf!PdfInv, Pdf!Flags, Pdf!JudgeSample
<1>. QED BY <1>3, <1>4, <1>5, <1>6, <1>7, <1>9 DEF Pdf!PdfInv

\* A promise that was rejected keeps the invariant: it never accepts.
LEMMA RejectedKeeps ==
  ASSUME Pdf!PdfInv, Pdf!Rejected
  PROVE  Pdf!PdfInv'
<1>. USE DEF Pdf!plan, Pdf!Pages, Pdf!Questions
<1>1. Pdf!Types BY DEF Pdf!PdfInv
<1>2. /\ Pdf!NoChild \in [state: {"none"}, killed: {FALSE}, exit: {None}, settled: {None}]
      /\ [Pdf!NoChild EXCEPT !.state = "alive"] \in [state: {"alive"}, killed: {FALSE}, exit: {None},
                                                     settled: {None}]
  BY <1>1, BlankChild
<1>0. \A x \in Pdf!Codes \cup Pdf!Endings : x # None
  BY PdfAssumed DEF Pdf!PdfAssumption
<1>8. "accepted" # None /\ None \notin Nat
  BY PdfAssumed DEF Pdf!PdfAssumption, Pdf!Codes
<1>3. Pdf!Types'
  BY <1>1, <1>2, PdfAssumed
  DEF Pdf!PdfAssumption, Pdf!Codes, Pdf!Endings, Pdf!Types, Pdf!PdfInv, Pdf!Learnt, Pdf!Rejected, Pdf!Refuse
<1>4. Pdf!TruthTold'
  BY <1>1, <1>2, <1>0, <1>8
  DEF Pdf!Endings, Pdf!Codes, Pdf!Types, Pdf!PdfInv, Pdf!TruthTold, Pdf!Broken, Pdf!Rejected, Pdf!Refuse
<1>5. Pdf!ChildInv'
  BY <1>1, <1>2, <1>0, <1>8
  DEF Pdf!Endings, Pdf!Codes, Pdf!Types, Pdf!PdfInv, Pdf!ChildInv, Pdf!Rejected, Pdf!Refuse
<1>6. Pdf!Learnt'
  BY <1>1, <1>2, <1>0, <1>8
  DEF Pdf!Endings, Pdf!Codes, Pdf!Types, Pdf!PdfInv, Pdf!TruthTold, Pdf!Learnt, Pdf!Broken, Pdf!ChildInv,
      Pdf!Rejected, Pdf!Refuse
<1>7. Pdf!Judged'
  BY <1>1, <1>2, <1>0, <1>8
  DEF Pdf!Endings, Pdf!Codes, Pdf!Types, Pdf!PdfInv, Pdf!Judged, Pdf!AcceptedIsSound, Pdf!Sound,
      Pdf!TruthTold, Pdf!ChildInv, Pdf!Learnt, Pdf!Broken, Pdf!Rejected, Pdf!Refuse
<1>9. Pdf!Flags'
  BY <1>2, Zenon DEF Pdf!PdfInv, Pdf!Flags, Pdf!Rejected
<1>. QED BY <1>3, <1>4, <1>5, <1>6, <1>7, <1>9 DEF Pdf!PdfInv

\* The removal of the directory keeps the invariant.
LEMMA CleanupKeeps ==
  ASSUME Pdf!PdfInv, Pdf!Cleanup
  PROVE  Pdf!PdfInv'
<1>. USE DEF Pdf!plan, Pdf!Pages, Pdf!Questions
<1>1. Pdf!Types BY DEF Pdf!PdfInv
<1>2. /\ Pdf!NoChild \in [state: {"none"}, killed: {FALSE}, exit: {None}, settled: {None}]
      /\ [Pdf!NoChild EXCEPT !.state = "alive"] \in [state: {"alive"}, killed: {FALSE}, exit: {None},
                                                     settled: {None}]
  BY <1>1, BlankChild
<1>0. \A x \in Pdf!Codes \cup Pdf!Endings : x # None
  BY PdfAssumed DEF Pdf!PdfAssumption
<1>8. "accepted" # None /\ None \notin Nat
  BY PdfAssumed DEF Pdf!PdfAssumption, Pdf!Codes
<1>3. Pdf!Types'
  BY <1>1, <1>2, PdfAssumed
  DEF Pdf!PdfAssumption, Pdf!Codes, Pdf!Endings, Pdf!Types, Pdf!PdfInv, Pdf!Learnt, Pdf!Cleanup
<1>4. Pdf!TruthTold'
  BY <1>1, <1>2, <1>0, <1>8
  DEF Pdf!Endings, Pdf!Codes, Pdf!Types, Pdf!PdfInv, Pdf!TruthTold, Pdf!Broken, Pdf!Cleanup
<1>5. Pdf!ChildInv'
  BY <1>1, <1>2, <1>0, <1>8 DEF Pdf!Endings, Pdf!Codes, Pdf!Types, Pdf!PdfInv, Pdf!ChildInv, Pdf!Cleanup
<1>6. Pdf!Learnt'
  BY <1>1, <1>2, <1>0, <1>8
  DEF Pdf!Endings, Pdf!Codes, Pdf!Types, Pdf!PdfInv, Pdf!TruthTold, Pdf!Learnt, Pdf!Broken, Pdf!ChildInv,
      Pdf!Cleanup
<1>7. Pdf!Judged'
  BY <1>1, <1>2, <1>0, <1>8
  DEF Pdf!Endings, Pdf!Codes, Pdf!Types, Pdf!PdfInv, Pdf!Judged, Pdf!AcceptedIsSound, Pdf!Sound,
      Pdf!TruthTold, Pdf!ChildInv, Pdf!Learnt, Pdf!Broken, Pdf!Cleanup
<1>9. Pdf!Flags'
  BY <1>2, Zenon DEF Pdf!PdfInv, Pdf!Flags, Pdf!Cleanup
<1>. QED BY <1>3, <1>4, <1>5, <1>6, <1>7, <1>9 DEF Pdf!PdfInv

\* Nothing is known of an upload at first.
LEMMA PdfInitial == Pdf!Init => Pdf!PdfInv
<1>. SUFFICES ASSUME Pdf!Init PROVE Pdf!PdfInv
  OBVIOUS
<1>. USE PdfAssumed DEF Pdf!Init, Pdf!NoChild, Pdf!Pages, Pdf!Questions
<1>1. Pdf!Types BY DEF Pdf!Types, Pdf!PdfAssumption
<1>2. Pdf!Flags BY Zenon DEF Pdf!Flags
<1>3. Pdf!TruthTold /\ Pdf!ChildInv BY DEF Pdf!TruthTold, Pdf!ChildInv, Pdf!Endings, Pdf!PdfAssumption
<1>4. Pdf!Learnt BY DEF Pdf!Learnt
<1>5. Pdf!Judged BY DEF Pdf!Judged, Pdf!AcceptedIsSound, Pdf!PdfAssumption, Pdf!Codes
<1>. QED BY <1>1, <1>2, <1>3, <1>4, <1>5 DEF Pdf!PdfInv

\* A step that changes nothing keeps the invariant.
LEMMA PdfStill == Pdf!PdfInv /\ UNCHANGED Pdf!vars => Pdf!PdfInv'
BY DEF Pdf!vars, Pdf!plan, Pdf!PdfInv, Pdf!Types, Pdf!Flags, Pdf!TruthTold, Pdf!ChildInv, Pdf!Learnt,
       Pdf!Judged, Pdf!AcceptedIsSound, Pdf!Sound, Pdf!Broken

\* The invariant of the verification of a PDF holds, for any number of pages it allows.
THEOREM PdfInvariant == Pdf!Spec => []Pdf!PdfInv
<1>1. Pdf!PdfInv /\ [Pdf!Next]_Pdf!vars => Pdf!PdfInv'
  BY ExitsKeeps, CutKeeps, CloseKeeps, StartKeeps, StageKeeps, JudgeEncryptionKeeps, JudgePagesKeeps,
     JudgeExtractionKeeps, JudgeSampleKeeps, RejectedKeeps, CleanupKeeps, PdfStill DEF Pdf!Next, Pdf!Parent
<1>. QED BY <1>1, PdfInitial, PTL DEF Pdf!Spec

\* What is accepted is sound, what is sound is accepted, and nothing is left.
LEMMA PdfTold == Pdf!PdfInv => Pdf!AcceptedIsSound /\ Pdf!SoundIsAccepted /\ Pdf!NothingIsLeft /\ Pdf!TypeOK
<1>1. Pdf!PdfInv => Pdf!AcceptedIsSound /\ Pdf!SoundIsAccepted
  BY DEF Pdf!PdfInv, Pdf!Judged, Pdf!SoundIsAccepted
<1>2. Pdf!PdfInv => Pdf!NothingIsLeft
  BY DEF Pdf!PdfInv, Pdf!Judged, Pdf!ChildInv, Pdf!NothingIsLeft
<1>3. Pdf!PdfInv => Pdf!TypeOK
  BY DEF Pdf!PdfInv, Pdf!Types, Pdf!Flags, Pdf!TypeOK
<1>. QED BY <1>1, <1>2, <1>3

-----------------------------------------------------------------------------
(* The checkouts of a subscription.                                         *)

tab == x1
order == x2
attached == x3
session == x4
reachable == x5
saved == x6
sub == x7
events == x9
declined == x14
USE DEF tab, order, attached, session, reachable, saved, sub, events, declined

\* Where a request can be.
Stops == {"idle", "customer", "claim", "insert", "lookup", "create", "attach", "served", "refused", "dead"}

\* One tab's request goes on: what it is, and that no other request does.
Moves(t, stop, customer) ==
  /\ \A u \in Handlers \ {t} : tab'[u] = tab[u]
  /\ tab'[t].pc = stop /\ tab'[t].customer = customer
  /\ tab' \in [Handlers -> [pc : Stops, customer : {"none", "old", "new"}, by : Handlers \cup {None}]]

\* A request goes on to its next step.
LEMMA GotoMoves ==
  ASSUME NEW t \in Handlers, Checkout!Shaped, NEW stop \in Stops, Checkout!Goto(t, stop)
  PROVE  Moves(t, stop, tab[t].customer)
BY DEF Checkout!Shaped, Checkout!Goto, Moves, Stops

\* A request goes on with a customer.
LEMMA CustomerMoves ==
  ASSUME NEW t \in Handlers, Checkout!Shaped, NEW stop \in Stops, NEW customer \in {"none", "old", "new"},
         tab' = [tab EXCEPT ![t].pc = stop, ![t].customer = customer]
  PROVE  Moves(t, stop, customer)
<1> DEFINE S == {"none", "old", "new"}
           C == Handlers \cup {None}
<1>1. tab \in [Handlers -> [pc : Stops, customer : S, by : C]] BY DEF Checkout!Shaped, Stops
<1>2. customer \in S OBVIOUS
<1>. HIDE DEF S, C
<1>3. /\ \A u \in Handlers \ {t} : tab'[u] = tab[u]
      /\ tab'[t].pc = stop /\ tab'[t].customer = customer
      /\ tab' \in [Handlers -> [pc : Stops, customer : S, by : C]]
  BY <1>1, <1>2
<1>. QED BY <1>3 DEF Moves, S, C

\* A request goes on, and is told of an order.
LEMMA ByMoves ==
  ASSUME NEW t \in Handlers, Checkout!Shaped, NEW stop \in Stops, NEW o \in Handlers,
         tab' = [tab EXCEPT ![t].pc = stop, ![t].by = o]
  PROVE  Moves(t, stop, tab[t].customer)
<1> DEFINE S == {"none", "old", "new"}
           C == Handlers \cup {None}
<1>1. tab \in [Handlers -> [pc : Stops, customer : S, by : C]] BY DEF Checkout!Shaped, Stops
<1>2. o \in C OBVIOUS
<1>. HIDE DEF S, C
<1>3. /\ \A u \in Handlers \ {t} : tab'[u] = tab[u]
      /\ tab'[t].pc = stop /\ tab'[t].customer = tab[t].customer
      /\ tab' \in [Handlers -> [pc : Stops, customer : S, by : C]]
  BY <1>1, <1>2
<1>. QED BY <1>3 DEF Moves, S, C

\* A request begins with the customer that is saved.
LEMMA BeginMoves ==
  ASSUME NEW t \in Handlers, Checkout!Shaped, Checkout!Begin(t)
  PROVE  Moves(t, "customer", saved)
<1>1. tab' = [tab EXCEPT ![t].pc = "customer", ![t].customer = saved] BY DEF Checkout!Begin
<1>. QED BY <1>1, CustomerMoves DEF Checkout!Shaped, Stops

\* A request goes on with the customer that is saved now.
LEMMA ClaimMoves ==
  ASSUME NEW t \in Handlers, Checkout!Shaped, Checkout!ClaimCustomer(t)
  PROVE  Moves(t, IF saved' = "new" THEN "insert" ELSE "refused", saved')
<1> DEFINE stop == IF saved' = "new" THEN "insert" ELSE "refused"
<1>1. saved' \in {"none", "old", "new"} BY DEF Checkout!Shaped, Checkout!ClaimCustomer, Checkout!Created
<1>2. saved' = IF saved = tab[t].customer THEN Checkout!Created ELSE saved BY DEF Checkout!ClaimCustomer
<1>3. tab' = [tab EXCEPT ![t].pc = IF Checkout!Usable(saved') THEN "insert" ELSE "refused",
                       ![t].customer = saved']
  BY <1>2 DEF Checkout!ClaimCustomer
<1>4. (IF Checkout!Usable(saved') THEN "insert" ELSE "refused") = stop BY <1>1 DEF Checkout!Usable
<1>5. tab' = [tab EXCEPT ![t].pc = stop, ![t].customer = saved'] BY <1>3, <1>4
<1>6. stop \in Stops BY DEF Stops
<1>. HIDE DEF stop
<1>7. Moves(t, stop, saved') BY <1>1, <1>5, <1>6, CustomerMoves
<1>. QED BY <1>7 DEF stop

\* A request that looked up the open order is served or refused.
LEMMA LookUpMoves ==
  ASSUME NEW t \in Handlers, Checkout!Shaped, Checkout!LookUp(t)
  PROVE  \E stop \in {"served", "refused"} : Moves(t, stop, tab[t].customer)
<1>1. CASE \E stop \in {"served", "refused"} : Checkout!Goto(t, stop)
  BY <1>1, GotoMoves DEF Stops
<1>2. CASE \E o \in Checkout!Open : tab' = [tab EXCEPT ![t].pc = "refused", ![t].by = o]
  <2>1. PICK o \in Handlers : tab' = [tab EXCEPT ![t].pc = "refused", ![t].by = o]
    BY <1>2 DEF Checkout!Open
  <2>. QED BY <2>1, ByMoves DEF Stops
<1>3. \/ Checkout!Goto(t, "served") \/ Checkout!Goto(t, "refused")
      \/ \E o \in Checkout!Open : tab' = [tab EXCEPT ![t].pc = "refused", ![t].by = o]
  BY ZenonT(30) DEF Checkout!LookUp
<1>. QED BY <1>1, <1>2, <1>3

\* A request that begins has no order and no session.
LEMMA BeginKeeps ==
  ASSUME Checkout!CheckoutInv, NEW t \in Handlers, Checkout!Begin(t)
  PROVE  Checkout!CheckoutInv'
<1> USE DEF Checkout!stripe, Checkout!database, Checkout!counters, Checkout!At, Checkout!Order, Checkout!Fault
<1>1. Moves(t, "customer", saved) /\ tab[t].pc = "idle" BY BeginMoves DEF Checkout!CheckoutInv, Checkout!Begin
<1>2. UNCHANGED <<order, attached, session, reachable, saved, sub, events, declined>> BY DEF Checkout!Begin
<1>. USE <1>1, <1>2 DEF Moves, Checkout!CheckoutInv
<1>3. Checkout!Shaped' BY DEF Checkout!Shaped, Stops
<1>4. Checkout!Stages' BY DEF Checkout!Stages
<1>5. Checkout!Told' BY DEF Checkout!Told
<1>6. Checkout!PayableIsOpen' /\ Checkout!OneOpen' BY DEF Checkout!PayableIsOpen, Checkout!OneOpen, Checkout!Open
<1>7. Checkout!Customers' BY DEF Checkout!Customers, Checkout!Stages, Checkout!Usable
<1>. QED BY <1>3, <1>4, <1>5, <1>6, <1>7

\* A customer that can be used is the saved one.
LEMMA GetCustomerKeeps ==
  ASSUME Checkout!CheckoutInv, NEW t \in Handlers, Checkout!GetCustomer(t)
  PROVE  Checkout!CheckoutInv'
<1> USE DEF Checkout!stripe, Checkout!database, Checkout!counters, Checkout!At, Checkout!Order, Checkout!Fault
<1>1. /\ Moves(t, IF Checkout!Usable(tab[t].customer) THEN "insert" ELSE "claim", tab[t].customer)
      /\ tab[t].pc = "customer"
  BY GotoMoves DEF Stops, Checkout!CheckoutInv, Checkout!GetCustomer
<1>2. UNCHANGED <<order, attached, session, reachable, saved, sub, events, declined>> BY DEF Checkout!GetCustomer
<1>. USE <1>1, <1>2 DEF Moves, Checkout!CheckoutInv
<1>3. Checkout!Shaped' BY DEF Checkout!Shaped, Stops
<1>4. Checkout!Stages' BY DEF Checkout!Stages
<1>5. Checkout!Told' BY DEF Checkout!Told
<1>6. Checkout!PayableIsOpen' /\ Checkout!OneOpen' BY DEF Checkout!PayableIsOpen, Checkout!OneOpen, Checkout!Open
<1>7. Checkout!Customers' BY DEF Checkout!Customers, Checkout!Stages, Checkout!Usable
<1>. QED BY <1>3, <1>4, <1>5, <1>6, <1>7

\* A customer is saved when there is none that can be used, and by one request.
LEMMA ClaimCustomerKeeps ==
  ASSUME Checkout!CheckoutInv, NEW t \in Handlers, Checkout!ClaimCustomer(t)
  PROVE  Checkout!CheckoutInv'
<1> USE DEF Checkout!stripe, Checkout!database, Checkout!counters, Checkout!At, Checkout!Order, Checkout!Fault
<1>1. /\ Moves(t, IF saved' = "new" THEN "insert" ELSE "refused", saved') /\ tab[t].pc = "claim"
  BY ClaimMoves DEF Checkout!CheckoutInv, Checkout!ClaimCustomer
<1>2. UNCHANGED <<order, attached, session, reachable, sub, events, declined>> BY DEF Checkout!ClaimCustomer
<1>8. saved' = IF saved = tab[t].customer THEN "new" ELSE saved BY DEF Checkout!ClaimCustomer, Checkout!Created
<1>. USE <1>1, <1>2 DEF Moves, Checkout!CheckoutInv
<1>3. Checkout!Shaped' BY <1>8 DEF Checkout!Shaped, Stops
<1>4. Checkout!Stages' BY DEF Checkout!Stages
<1>5. Checkout!Told' BY DEF Checkout!Told
<1>6. Checkout!PayableIsOpen' /\ Checkout!OneOpen' BY DEF Checkout!PayableIsOpen, Checkout!OneOpen, Checkout!Open
<1>7. Checkout!Customers' BY <1>8 DEF Checkout!Customers, Checkout!Stages, Checkout!Usable, Checkout!Shaped
<1>. QED BY <1>3, <1>4, <1>5, <1>6, <1>7

\* An order is inserted when none is open.
LEMMA InsertOrderKeeps ==
  ASSUME Checkout!CheckoutInv, NEW t \in Handlers, Checkout!InsertOrder(t)
  PROVE  Checkout!CheckoutInv'
<1> USE DEF Checkout!stripe, Checkout!database, Checkout!counters, Checkout!At, Checkout!Order, Checkout!Fault
<1>1. /\ Moves(t, IF Checkout!Open = {} THEN "create" ELSE "lookup", tab[t].customer)
      /\ tab[t].pc = "insert"
  BY GotoMoves DEF Stops, Checkout!CheckoutInv, Checkout!InsertOrder
<1>2. UNCHANGED <<attached, session, reachable, saved, sub, events, declined>> BY DEF Checkout!InsertOrder
<1>8. order' = IF Checkout!Open = {} THEN [order EXCEPT ![t] = "pending"] ELSE order BY DEF Checkout!InsertOrder
<1>. USE <1>1, <1>2, <1>8 DEF Moves, Checkout!CheckoutInv
<1>3. Checkout!Shaped' BY DEF Checkout!Shaped, Stops
<1>4. Checkout!Stages' BY DEF Checkout!Stages, Checkout!Shaped
<1>5. Checkout!Told' BY DEF Checkout!Told
<1>6. Checkout!PayableIsOpen' /\ Checkout!OneOpen'
  BY DEF Checkout!PayableIsOpen, Checkout!OneOpen, Checkout!Open, Checkout!Shaped, Checkout!Stages
<1>7. Checkout!Customers' BY DEF Checkout!Customers, Checkout!Stages, Checkout!Usable
<1>. QED BY <1>3, <1>4, <1>5, <1>6, <1>7

\* An order is closed when its session expired, and a tab is sent to an order that has a session.
LEMMA LookUpKeeps ==
  ASSUME Checkout!CheckoutInv, NEW t \in Handlers, Checkout!LookUp(t)
  PROVE  Checkout!CheckoutInv'
<1> USE DEF Checkout!stripe, Checkout!database, Checkout!counters, Checkout!At, Checkout!Order, Checkout!Fault
<1>1. PICK stop \in {"served", "refused"} : Moves(t, stop, tab[t].customer)
  BY LookUpMoves DEF Checkout!CheckoutInv
<1>2. UNCHANGED <<attached, session, saved, sub, events, declined>> /\ tab[t].pc = "lookup" BY DEF Checkout!LookUp
<1>8. \/ order' = order /\ reachable' = reachable
      \/ \E o \in attached : order' = order /\ reachable' = reachable \cup {o}
      \/ \E o \in Handlers : session[o] = "expired" /\ order' = [order EXCEPT ![o] = "expired"] /\ reachable' = reachable
  BY DEF Checkout!LookUp, Checkout!Open
<1>9. reachable' = reachable BY <1>8 DEF Checkout!CheckoutInv, Checkout!PayableIsOpen
<1>. USE <1>1, <1>2, <1>8, <1>9 DEF Moves, Checkout!CheckoutInv
<1>3. Checkout!Shaped' BY DEF Checkout!Shaped, Stops
<1>4. Checkout!Stages' BY DEF Checkout!Stages, Checkout!Shaped
<1>5. Checkout!Told' BY DEF Checkout!Told
<1>6. Checkout!PayableIsOpen' /\ Checkout!OneOpen'
  BY DEF Checkout!PayableIsOpen, Checkout!OneOpen, Checkout!Open, Checkout!Shaped
<1>7. Checkout!Customers' BY DEF Checkout!Customers, Checkout!Stages, Checkout!Usable
<1>. QED BY <1>3, <1>4, <1>5, <1>6, <1>7

\* A request that fails closes an order whose session nobody was sent to.
LEMMA StepFailsKeeps ==
  ASSUME Checkout!CheckoutInv, NEW t \in Handlers, Checkout!StepFails(t)
  PROVE  Checkout!CheckoutInv'
<1> USE DEF Checkout!stripe, Checkout!database, Checkout!counters, Checkout!At, Checkout!Order, Checkout!Fault
<1>1. Moves(t, "refused", tab[t].customer)
  BY GotoMoves DEF Stops, Checkout!CheckoutInv, Checkout!StepFails
<1>2. UNCHANGED <<attached, reachable, saved, sub, events, declined>> BY DEF Checkout!StepFails
<1>8. /\ tab[t].pc \in {"customer", "claim", "insert", "lookup", "create", "attach"}
      /\ order' = IF tab[t].pc \in {"create", "attach"} THEN [order EXCEPT ![t] = "failed"] ELSE order
      /\ session' = session \/ (tab[t].pc = "create" /\ session' = [session EXCEPT ![t] = "open"])
  BY DEF Checkout!StepFails
<1>. USE <1>1, <1>2, <1>8 DEF Moves, Checkout!CheckoutInv
<1>3. Checkout!Shaped' BY DEF Checkout!Shaped, Stops
<1>4. Checkout!Stages' BY DEF Checkout!Stages, Checkout!Shaped
<1>5. Checkout!Told'
  <2>1. session' # session => session[t] = "none" BY DEF Checkout!Stages
  <2>2. \A u \in Handlers \ {t} : session'[u] = session[u] BY DEF Checkout!Shaped
  <2>. QED BY <2>1, <2>2 DEF Checkout!Told, Checkout!Shaped
<1>6. Checkout!PayableIsOpen' /\ Checkout!OneOpen'
  BY DEF Checkout!PayableIsOpen, Checkout!OneOpen, Checkout!Open, Checkout!Shaped, Checkout!Stages
<1>7. Checkout!Customers' BY DEF Checkout!Customers, Checkout!Stages, Checkout!Usable, Checkout!Shaped
<1>. QED BY <1>3, <1>4, <1>5, <1>6, <1>7

\* The invariant is of what is written, and of what was asked and told.
LEMMA CheckoutSame ==
  ASSUME Checkout!CheckoutInv,
         UNCHANGED <<tab, order, attached, session, reachable, saved, sub, events, declined>>
  PROVE  Checkout!CheckoutInv'
BY DEF Checkout!CheckoutInv, Checkout!Shaped, Checkout!Stages, Checkout!Told, Checkout!PayableIsOpen,
       Checkout!OneOpen, Checkout!Customers, Checkout!At, Checkout!Open

\* A request for a checkout keeps the invariant, whatever it does and wherever it fails.
LEMMA RequestKeeps ==
  ASSUME Checkout!CheckoutInv, NEW t \in Handlers, Checkout!Request(t)
  PROVE  Checkout!CheckoutInv'
<1> USE CheckoutAssumed DEF Checkout!CheckoutAssumption, Checkout!stripe, Checkout!database, Checkout!counters,
        Checkout!At, Checkout!Goto, Checkout!Order, Checkout!Fault, Checkout!Tell, Checkout!Answer, Checkout!Open,
        Checkout!Usable
<1>1. CASE Checkout!Begin(t) BY <1>1, BeginKeeps
<1>2. CASE Checkout!GetCustomer(t) BY <1>2, GetCustomerKeeps
<1>3. CASE Checkout!ClaimCustomer(t) BY <1>3, ClaimCustomerKeeps
<1>4. CASE Checkout!InsertOrder(t) BY <1>4, InsertOrderKeeps
<1>5. CASE Checkout!LookUp(t) BY <1>5, LookUpKeeps
<1>6. CASE Checkout!StepFails(t) BY <1>6, StepFailsKeeps
<1>7. CASE Checkout!CreateSession(t)
  <2>1. Checkout!Shaped'
    BY <1>7 DEF Checkout!CheckoutInv, Checkout!Shaped, Checkout!CreateSession
  <2>2. Checkout!Stages'
    BY <1>7 DEF Checkout!CheckoutInv, Checkout!Stages, Checkout!Shaped, Checkout!Told,
               Checkout!PayableIsOpen, Checkout!CreateSession
  <2>3. Checkout!Told'
    BY <1>7 DEF Checkout!CheckoutInv, Checkout!Told, Checkout!Shaped, Checkout!Stages,
               Checkout!CreateSession
  <2>4. Checkout!PayableIsOpen'
    BY <1>7 DEF Checkout!CheckoutInv, Checkout!PayableIsOpen, Checkout!Shaped, Checkout!Stages,
               Checkout!Told, Checkout!CreateSession
  <2>5. Checkout!OneOpen'
    BY <1>7 DEF Checkout!CheckoutInv, Checkout!OneOpen, Checkout!Shaped, Checkout!Stages,
               Checkout!CreateSession
  <2>6. Checkout!Customers'
    BY <1>7 DEF Checkout!CheckoutInv, Checkout!Customers, Checkout!Shaped, Checkout!Stages,
               Checkout!Told, Checkout!CreateSession
  <2>. QED
    BY <2>1, <2>2, <2>3, <2>4, <2>5, <2>6 DEF Checkout!CheckoutInv
<1>8. CASE Checkout!Attach(t)
  <2>1. Checkout!Shaped'
    BY <1>8 DEF Checkout!CheckoutInv, Checkout!Shaped, Checkout!Attach
  <2>2. Checkout!Stages'
    BY <1>8 DEF Checkout!CheckoutInv, Checkout!Stages, Checkout!Shaped, Checkout!Told,
               Checkout!PayableIsOpen, Checkout!Attach
  <2>3. Checkout!Told'
    BY <1>8 DEF Checkout!CheckoutInv, Checkout!Told, Checkout!Shaped, Checkout!Stages,
               Checkout!Attach
  <2>4. Checkout!PayableIsOpen'
    BY <1>8 DEF Checkout!CheckoutInv, Checkout!PayableIsOpen, Checkout!Shaped, Checkout!Stages,
               Checkout!Told, Checkout!Attach
  <2>5. Checkout!OneOpen'
    BY <1>8 DEF Checkout!CheckoutInv, Checkout!OneOpen, Checkout!Shaped, Checkout!Stages,
               Checkout!Attach
  <2>6. Checkout!Customers'
    BY <1>8 DEF Checkout!CheckoutInv, Checkout!Customers, Checkout!Shaped, Checkout!Stages,
               Checkout!Told, Checkout!Attach
  <2>. QED
    BY <2>1, <2>2, <2>3, <2>4, <2>5, <2>6 DEF Checkout!CheckoutInv
<1>9. CASE Checkout!RequestDies(t)
  <2>1. Checkout!Shaped'
    BY <1>9 DEF Checkout!CheckoutInv, Checkout!Shaped, Checkout!RequestDies
  <2>2. Checkout!Stages'
    BY <1>9 DEF Checkout!CheckoutInv, Checkout!Stages, Checkout!Shaped, Checkout!Told,
               Checkout!PayableIsOpen, Checkout!RequestDies
  <2>3. Checkout!Told'
    BY <1>9 DEF Checkout!CheckoutInv, Checkout!Told, Checkout!Shaped, Checkout!Stages,
               Checkout!RequestDies
  <2>4. Checkout!PayableIsOpen'
    BY <1>9 DEF Checkout!CheckoutInv, Checkout!PayableIsOpen, Checkout!Shaped, Checkout!Stages,
               Checkout!Told, Checkout!RequestDies
  <2>5. Checkout!OneOpen'
    BY <1>9 DEF Checkout!CheckoutInv, Checkout!OneOpen, Checkout!Shaped, Checkout!Stages,
               Checkout!RequestDies
  <2>6. Checkout!Customers'
    BY <1>9 DEF Checkout!CheckoutInv, Checkout!Customers, Checkout!Shaped, Checkout!Stages,
               Checkout!Told, Checkout!RequestDies
  <2>. QED
    BY <2>1, <2>2, <2>3, <2>4, <2>5, <2>6 DEF Checkout!CheckoutInv
<1>. QED
  BY <1>1, <1>2, <1>3, <1>4, <1>5, <1>6, <1>7, <1>8, <1>9 DEF Checkout!Request

\* What the customer pays, what is declined and what Stripe ends keeps the invariant.
LEMMA StripeKeeps ==
  ASSUME Checkout!CheckoutInv, NEW t \in Handlers, Checkout!Stripe(t)
  PROVE  Checkout!CheckoutInv'
<1> USE CheckoutAssumed DEF Checkout!CheckoutAssumption, Checkout!stripe, Checkout!database, Checkout!counters,
        Checkout!At, Checkout!Goto, Checkout!Order, Checkout!Fault, Checkout!Tell, Checkout!Answer, Checkout!Open,
        Checkout!Usable
<1>1. CASE Checkout!Declined(t)
  <2>1. Checkout!Shaped'
    BY <1>1 DEF Checkout!CheckoutInv, Checkout!Shaped, Checkout!Declined
  <2>2. Checkout!Stages'
    BY <1>1 DEF Checkout!CheckoutInv, Checkout!Stages, Checkout!Declined
  <2>3. Checkout!Told'
    <3>1. /\ events' = events \cup {<<"declined", t>>} /\ t \in reachable /\ declined' = declined + 1
          /\ UNCHANGED <<session, sub, reachable>> /\ declined \in Nat
      BY <1>1 DEF Checkout!CheckoutInv, Checkout!Shaped, Checkout!Declined
    <3>2. \A u \in Handlers :
            /\ \A type \in {"paid", "renewed", "updated", "expired"} :
                 <<type, u>> \in events' => <<type, u>> \in events
            /\ <<"declined", u>> \in events' => <<"declined", u>> \in events \/ u = t
      BY <3>1
    <3>3. \A u \in Handlers : \A type \in {"paid", "renewed", "updated"} :
            <<type, u>> \in events' => session'[u] = "complete"
      BY <3>1, <3>2 DEF Checkout!CheckoutInv, Checkout!Told
    <3>4. \A u \in Handlers :
            /\ sub'[u] # "none" => session'[u] = "complete"
            /\ <<"expired", u>> \in events' => session'[u] = "expired"
      BY <3>1, <3>2 DEF Checkout!CheckoutInv, Checkout!Told
    <3>5. \A u \in Handlers : <<"declined", u>> \in events => u \in reachable
      BY DEF Checkout!CheckoutInv, Checkout!Told
    <3>6. \A u \in Handlers : <<"declined", u>> \in events' => u \in reachable'
      BY <3>1, <3>2, <3>5
    <3>7. declined' > 0
      BY <3>1
    <3>. QED BY <3>3, <3>4, <3>6, <3>7 DEF Checkout!Told
  <2>4. Checkout!PayableIsOpen'
    BY <1>1 DEF Checkout!CheckoutInv, Checkout!PayableIsOpen, Checkout!Shaped, Checkout!Declined
  <2>5. Checkout!OneOpen' /\ Checkout!Customers'
    BY <1>1 DEF Checkout!CheckoutInv, Checkout!OneOpen, Checkout!Customers, Checkout!Declined
  <2>. QED
    BY <2>1, <2>2, <2>3, <2>4, <2>5 DEF Checkout!CheckoutInv
<1>2. CASE Checkout!Pay(t)
  <2>1. Checkout!Shaped'
    BY <1>2 DEF Checkout!CheckoutInv, Checkout!Shaped, Checkout!Pay
  <2>2. Checkout!Stages'
    BY <1>2 DEF Checkout!CheckoutInv, Checkout!Stages, Checkout!Shaped, Checkout!Told,
               Checkout!PayableIsOpen, Checkout!Pay
  <2>3. Checkout!Told'
    BY <1>2 DEF Checkout!CheckoutInv, Checkout!Told, Checkout!Shaped, Checkout!Stages,
               Checkout!Pay
  <2>4. Checkout!PayableIsOpen'
    BY <1>2 DEF Checkout!CheckoutInv, Checkout!PayableIsOpen, Checkout!Shaped, Checkout!Stages,
               Checkout!Told, Checkout!Pay
  <2>5. Checkout!OneOpen'
    BY <1>2 DEF Checkout!CheckoutInv, Checkout!OneOpen, Checkout!Shaped, Checkout!Stages,
               Checkout!Pay
  <2>6. Checkout!Customers'
    BY <1>2 DEF Checkout!CheckoutInv, Checkout!Customers, Checkout!Shaped, Checkout!Stages,
               Checkout!Told, Checkout!Pay
  <2>. QED
    BY <2>1, <2>2, <2>3, <2>4, <2>5, <2>6 DEF Checkout!CheckoutInv
<1>3. CASE Checkout!SessionExpires(t)
  <2>1. Checkout!Shaped'
    BY <1>3 DEF Checkout!CheckoutInv, Checkout!Shaped, Checkout!SessionExpires
  <2>2. Checkout!Stages'
    BY <1>3 DEF Checkout!CheckoutInv, Checkout!Stages, Checkout!Shaped, Checkout!Told,
               Checkout!PayableIsOpen, Checkout!SessionExpires
  <2>3. Checkout!Told'
    BY <1>3 DEF Checkout!CheckoutInv, Checkout!Told, Checkout!Shaped, Checkout!Stages,
               Checkout!SessionExpires
  <2>4. Checkout!PayableIsOpen'
    BY <1>3 DEF Checkout!CheckoutInv, Checkout!PayableIsOpen, Checkout!Shaped, Checkout!Stages,
               Checkout!Told, Checkout!SessionExpires
  <2>5. Checkout!OneOpen'
    BY <1>3 DEF Checkout!CheckoutInv, Checkout!OneOpen, Checkout!Shaped, Checkout!Stages,
               Checkout!SessionExpires
  <2>6. Checkout!Customers'
    BY <1>3 DEF Checkout!CheckoutInv, Checkout!Customers, Checkout!Shaped, Checkout!Stages,
               Checkout!Told, Checkout!SessionExpires
  <2>. QED
    BY <2>1, <2>2, <2>3, <2>4, <2>5, <2>6 DEF Checkout!CheckoutInv
<1>4. CASE Checkout!Renew(t)
  <2>1. Checkout!Shaped'
    BY <1>4 DEF Checkout!CheckoutInv, Checkout!Shaped, Checkout!Renew
  <2>2. Checkout!Stages'
    BY <1>4 DEF Checkout!CheckoutInv, Checkout!Stages, Checkout!Shaped, Checkout!Told,
               Checkout!PayableIsOpen, Checkout!Renew
  <2>3. Checkout!Told'
    BY <1>4 DEF Checkout!CheckoutInv, Checkout!Told, Checkout!Shaped, Checkout!Stages,
               Checkout!Renew
  <2>4. Checkout!PayableIsOpen'
    BY <1>4 DEF Checkout!CheckoutInv, Checkout!PayableIsOpen, Checkout!Shaped, Checkout!Stages,
               Checkout!Told, Checkout!Renew
  <2>5. Checkout!OneOpen'
    BY <1>4 DEF Checkout!CheckoutInv, Checkout!OneOpen, Checkout!Shaped, Checkout!Stages,
               Checkout!Renew
  <2>6. Checkout!Customers'
    BY <1>4 DEF Checkout!CheckoutInv, Checkout!Customers, Checkout!Shaped, Checkout!Stages,
               Checkout!Told, Checkout!Renew
  <2>. QED
    BY <2>1, <2>2, <2>3, <2>4, <2>5, <2>6 DEF Checkout!CheckoutInv
<1>5. CASE Checkout!CancelInPortal(t)
  <2>1. Checkout!Shaped'
    BY <1>5 DEF Checkout!CheckoutInv, Checkout!Shaped, Checkout!CancelInPortal
  <2>2. Checkout!Stages'
    BY <1>5 DEF Checkout!CheckoutInv, Checkout!Stages, Checkout!Shaped, Checkout!Told,
               Checkout!PayableIsOpen, Checkout!CancelInPortal
  <2>3. Checkout!Told'
    BY <1>5 DEF Checkout!CheckoutInv, Checkout!Told, Checkout!Shaped, Checkout!Stages,
               Checkout!CancelInPortal
  <2>4. Checkout!PayableIsOpen'
    BY <1>5 DEF Checkout!CheckoutInv, Checkout!PayableIsOpen, Checkout!Shaped, Checkout!Stages,
               Checkout!Told, Checkout!CancelInPortal
  <2>5. Checkout!OneOpen'
    BY <1>5 DEF Checkout!CheckoutInv, Checkout!OneOpen, Checkout!Shaped, Checkout!Stages,
               Checkout!CancelInPortal
  <2>6. Checkout!Customers'
    BY <1>5 DEF Checkout!CheckoutInv, Checkout!Customers, Checkout!Shaped, Checkout!Stages,
               Checkout!Told, Checkout!CancelInPortal
  <2>. QED
    BY <2>1, <2>2, <2>3, <2>4, <2>5, <2>6 DEF Checkout!CheckoutInv
<1>6. CASE Checkout!PeriodEnds(t)
  <2>1. Checkout!Shaped'
    BY <1>6 DEF Checkout!CheckoutInv, Checkout!Shaped, Checkout!PeriodEnds
  <2>2. Checkout!Stages'
    BY <1>6 DEF Checkout!CheckoutInv, Checkout!Stages, Checkout!Shaped, Checkout!Told,
               Checkout!PayableIsOpen, Checkout!PeriodEnds
  <2>3. Checkout!Told'
    BY <1>6 DEF Checkout!CheckoutInv, Checkout!Told, Checkout!Shaped, Checkout!Stages,
               Checkout!PeriodEnds
  <2>4. Checkout!PayableIsOpen'
    BY <1>6 DEF Checkout!CheckoutInv, Checkout!PayableIsOpen, Checkout!Shaped, Checkout!Stages,
               Checkout!Told, Checkout!PeriodEnds
  <2>5. Checkout!OneOpen'
    BY <1>6 DEF Checkout!CheckoutInv, Checkout!OneOpen, Checkout!Shaped, Checkout!Stages,
               Checkout!PeriodEnds
  <2>6. Checkout!Customers'
    BY <1>6 DEF Checkout!CheckoutInv, Checkout!Customers, Checkout!Shaped, Checkout!Stages,
               Checkout!Told, Checkout!PeriodEnds
  <2>. QED
    BY <2>1, <2>2, <2>3, <2>4, <2>5, <2>6 DEF Checkout!CheckoutInv
<1>. QED
  BY <1>1, <1>2, <1>3, <1>4, <1>5, <1>6 DEF Checkout!Stripe

\* The webhook closes an order when its session ended, and keeps the invariant.
LEMMA WebhookKeeps ==
  ASSUME Checkout!CheckoutInv, NEW t \in Handlers, Checkout!Webhook(t)
  PROVE  Checkout!CheckoutInv'
<1> USE CheckoutAssumed DEF Checkout!CheckoutAssumption, Checkout!stripe, Checkout!database, Checkout!counters,
        Checkout!At, Checkout!Goto, Checkout!Order, Checkout!Fault, Checkout!Tell, Checkout!Answer, Checkout!Open,
        Checkout!Usable
<1>1. CASE Checkout!HandleInvoicePaid("paid", t)
  <2>7. session[t] = "complete"
    BY <1>1 DEF Checkout!CheckoutInv, Checkout!Told, Checkout!HandleInvoicePaid, Checkout!Synced, Checkout!StopRenewal
  <2>1. Checkout!Shaped'
    BY <1>1 DEF Checkout!CheckoutInv, Checkout!Shaped, Checkout!HandleInvoicePaid,
               Checkout!Synced, Checkout!StopRenewal
  <2>2. Checkout!Stages'
    BY <1>1, <2>7 DEF Checkout!CheckoutInv, Checkout!Stages, Checkout!Shaped, Checkout!Told,
                     Checkout!PayableIsOpen, Checkout!HandleInvoicePaid, Checkout!Synced,
                     Checkout!StopRenewal
  <2>3. Checkout!Told'
    BY <1>1 DEF Checkout!CheckoutInv, Checkout!Told, Checkout!Shaped, Checkout!Stages,
               Checkout!HandleInvoicePaid, Checkout!Synced, Checkout!StopRenewal
  <2>4. Checkout!PayableIsOpen'
    BY <1>1, <2>7 DEF Checkout!CheckoutInv, Checkout!PayableIsOpen, Checkout!Shaped,
                     Checkout!Stages, Checkout!Told, Checkout!HandleInvoicePaid,
                     Checkout!Synced, Checkout!StopRenewal
  <2>5. Checkout!OneOpen'
    BY <1>1 DEF Checkout!CheckoutInv, Checkout!OneOpen, Checkout!Shaped, Checkout!Stages,
               Checkout!HandleInvoicePaid, Checkout!Synced, Checkout!StopRenewal
  <2>6. Checkout!Customers'
    BY <1>1 DEF Checkout!CheckoutInv, Checkout!Customers, Checkout!Shaped, Checkout!Stages,
               Checkout!Told, Checkout!HandleInvoicePaid, Checkout!Synced, Checkout!StopRenewal
  <2>. QED
    BY <2>1, <2>2, <2>3, <2>4, <2>5, <2>6 DEF Checkout!CheckoutInv
<1>2. CASE Checkout!HandleInvoicePaid("renewed", t)
  <2>7. session[t] = "complete"
    BY <1>2 DEF Checkout!CheckoutInv, Checkout!Told, Checkout!HandleInvoicePaid, Checkout!Synced, Checkout!StopRenewal
  <2>1. Checkout!Shaped'
    BY <1>2 DEF Checkout!CheckoutInv, Checkout!Shaped, Checkout!HandleInvoicePaid,
               Checkout!Synced, Checkout!StopRenewal
  <2>2. Checkout!Stages'
    BY <1>2, <2>7 DEF Checkout!CheckoutInv, Checkout!Stages, Checkout!Shaped, Checkout!Told,
                     Checkout!PayableIsOpen, Checkout!HandleInvoicePaid, Checkout!Synced,
                     Checkout!StopRenewal
  <2>3. Checkout!Told'
    BY <1>2 DEF Checkout!CheckoutInv, Checkout!Told, Checkout!Shaped, Checkout!Stages,
               Checkout!HandleInvoicePaid, Checkout!Synced, Checkout!StopRenewal
  <2>4. Checkout!PayableIsOpen'
    BY <1>2, <2>7 DEF Checkout!CheckoutInv, Checkout!PayableIsOpen, Checkout!Shaped,
                     Checkout!Stages, Checkout!Told, Checkout!HandleInvoicePaid,
                     Checkout!Synced, Checkout!StopRenewal
  <2>5. Checkout!OneOpen'
    BY <1>2 DEF Checkout!CheckoutInv, Checkout!OneOpen, Checkout!Shaped, Checkout!Stages,
               Checkout!HandleInvoicePaid, Checkout!Synced, Checkout!StopRenewal
  <2>6. Checkout!Customers'
    BY <1>2 DEF Checkout!CheckoutInv, Checkout!Customers, Checkout!Shaped, Checkout!Stages,
               Checkout!Told, Checkout!HandleInvoicePaid, Checkout!Synced, Checkout!StopRenewal
  <2>. QED
    BY <2>1, <2>2, <2>3, <2>4, <2>5, <2>6 DEF Checkout!CheckoutInv
<1>3. CASE Checkout!HandleDeclined(t)
  <2>7. t \in reachable /\ declined > 0
    BY <1>3 DEF Checkout!HandleDeclined, Checkout!CheckoutInv, Checkout!Told
  <2>8. order' = order \/ order' = [order EXCEPT ![t] = "failed"]
    BY <1>3 DEF Checkout!HandleDeclined
  <2>1. Checkout!Shaped'
    BY <1>3, <2>8 DEF Checkout!CheckoutInv, Checkout!Shaped, Checkout!HandleDeclined
  <2>2. Checkout!Stages'
    BY <1>3, <2>7, <2>8 DEF Checkout!CheckoutInv, Checkout!Stages, Checkout!Shaped, Checkout!HandleDeclined
  <2>3. Checkout!Told'
    BY <1>3 DEF Checkout!CheckoutInv, Checkout!Told, Checkout!HandleDeclined
  <2>4. Checkout!PayableIsOpen'
    BY <1>3, <2>7, <2>8 DEF Checkout!CheckoutInv, Checkout!PayableIsOpen, Checkout!Shaped, Checkout!HandleDeclined
  <2>5. Checkout!OneOpen' /\ Checkout!Customers'
    BY <1>3, <2>8 DEF Checkout!CheckoutInv, Checkout!OneOpen, Checkout!Shaped, Checkout!Customers,
                      Checkout!HandleDeclined
  <2>. QED
    BY <2>1, <2>2, <2>3, <2>4, <2>5 DEF Checkout!CheckoutInv
<1>4. CASE Checkout!HandleExpired(t)
  <2>7. session[t] = "expired"
    BY <1>4 DEF Checkout!CheckoutInv, Checkout!Told, Checkout!HandleExpired
  <2>1. Checkout!Shaped'
    BY <1>4 DEF Checkout!CheckoutInv, Checkout!Shaped, Checkout!HandleExpired
  <2>2. Checkout!Stages'
    BY <1>4, <2>7 DEF Checkout!CheckoutInv, Checkout!Stages, Checkout!Shaped, Checkout!Told,
                     Checkout!PayableIsOpen, Checkout!HandleExpired
  <2>3. Checkout!Told'
    BY <1>4 DEF Checkout!CheckoutInv, Checkout!Told, Checkout!Shaped, Checkout!Stages,
               Checkout!HandleExpired
  <2>4. Checkout!PayableIsOpen'
    BY <1>4, <2>7 DEF Checkout!CheckoutInv, Checkout!PayableIsOpen, Checkout!Shaped,
                     Checkout!Stages, Checkout!Told, Checkout!HandleExpired
  <2>5. Checkout!OneOpen'
    BY <1>4 DEF Checkout!CheckoutInv, Checkout!OneOpen, Checkout!Shaped, Checkout!Stages,
               Checkout!HandleExpired
  <2>6. Checkout!Customers'
    BY <1>4 DEF Checkout!CheckoutInv, Checkout!Customers, Checkout!Shaped, Checkout!Stages,
               Checkout!Told, Checkout!HandleExpired
  <2>. QED
    BY <2>1, <2>2, <2>3, <2>4, <2>5, <2>6 DEF Checkout!CheckoutInv
<1>5. CASE Checkout!HandleUpdated(t)
  <2>7. session[t] = "complete"
    BY <1>5 DEF Checkout!CheckoutInv, Checkout!Told, Checkout!HandleUpdated, Checkout!Synced
  <2>1. Checkout!Shaped'
    BY <1>5 DEF Checkout!CheckoutInv, Checkout!Shaped, Checkout!HandleUpdated, Checkout!Synced
  <2>2. Checkout!Stages'
    BY <1>5, <2>7 DEF Checkout!CheckoutInv, Checkout!Stages, Checkout!Shaped, Checkout!Told,
                     Checkout!PayableIsOpen, Checkout!HandleUpdated, Checkout!Synced
  <2>3. Checkout!Told'
    BY <1>5 DEF Checkout!CheckoutInv, Checkout!Told, Checkout!Shaped, Checkout!Stages,
               Checkout!HandleUpdated, Checkout!Synced
  <2>4. Checkout!PayableIsOpen'
    <3>1. /\ UNCHANGED <<session, reachable, attached, declined>>
          /\ \A u \in Handlers : u # t => order'[u] = order[u]
      BY <1>5 DEF Checkout!CheckoutInv, Checkout!Shaped, Checkout!HandleUpdated
    <3>2. ASSUME NEW u \in reachable, session[u] = "open"
          PROVE  order'[u] = order[u]
      BY <3>1, <3>2, <2>7 DEF Checkout!CheckoutInv, Checkout!Shaped
    <3>3. ASSUME NEW u \in reachable', session'[u] = "open"
          PROVE  u \in Checkout!Open' \/ (order'[u] = "failed" /\ declined' > 0)
      BY <3>1, <3>2, <3>3 DEF Checkout!CheckoutInv, Checkout!PayableIsOpen
    <3>4. attached' \subseteq reachable'
      BY <3>1 DEF Checkout!CheckoutInv, Checkout!PayableIsOpen
    <3>. QED BY <3>3, <3>4 DEF Checkout!PayableIsOpen
  <2>5. Checkout!OneOpen'
    BY <1>5 DEF Checkout!CheckoutInv, Checkout!OneOpen, Checkout!Shaped, Checkout!Stages,
               Checkout!HandleUpdated, Checkout!Synced
  <2>6. Checkout!Customers'
    BY <1>5 DEF Checkout!CheckoutInv, Checkout!Customers, Checkout!Shaped, Checkout!Stages,
               Checkout!Told, Checkout!HandleUpdated, Checkout!Synced
  <2>. QED
    BY <2>1, <2>2, <2>3, <2>4, <2>5, <2>6 DEF Checkout!CheckoutInv
<1>. QED
  BY <1>1, <1>2, <1>3, <1>4, <1>5 DEF Checkout!Webhook

\* A suspension keeps the invariant: an order whose session it expires is closed after it.
LEMMA SuspensionKeeps ==
  ASSUME Checkout!CheckoutInv, Checkout!UpdateUserStatus
  PROVE  Checkout!CheckoutInv'
<1> USE CheckoutAssumed DEF Checkout!CheckoutAssumption, Checkout!stripe, Checkout!database, Checkout!counters,
        Checkout!At, Checkout!Goto, Checkout!Order, Checkout!Fault, Checkout!Tell, Checkout!Answer, Checkout!Open,
        Checkout!Usable
<1>1. CASE Checkout!ReadSubscriptions
  BY <1>1, CheckoutSame DEF Checkout!ReadSubscriptions
<1>2. CASE Checkout!CancelSubscriptions
  <2>1. Checkout!Shaped'
    BY <1>2 DEF Checkout!CheckoutInv, Checkout!Shaped, Checkout!CancelSubscriptions,
               Checkout!AdminGoto
  <2>2. Checkout!Stages'
    BY <1>2 DEF Checkout!CheckoutInv, Checkout!Stages, Checkout!Shaped, Checkout!Told,
               Checkout!PayableIsOpen, Checkout!CancelSubscriptions, Checkout!AdminGoto
  <2>3. Checkout!Told'
    <3>1. PICK A : LET ending == {u \in A : sub[u] = "active"} IN
                   /\ sub' = [u \in Handlers |-> IF u \in ending THEN "ending" ELSE sub[u]]
                   /\ events' = events \cup ({"updated"} \X ending)
      BY <1>2 DEF Checkout!CancelSubscriptions
    <3>2. \A u \in Handlers :
            /\ <<"paid", u>> \in events' => <<"paid", u>> \in events
            /\ <<"renewed", u>> \in events' => <<"renewed", u>> \in events
            /\ <<"updated", u>> \in events' => <<"updated", u>> \in events \/ sub[u] = "active"
            /\ <<"expired", u>> \in events' => <<"expired", u>> \in events
            /\ <<"declined", u>> \in events' => <<"declined", u>> \in events
      BY <3>1
    <3>3. \A u \in Handlers : sub'[u] # "none" => sub[u] # "none"
      BY <3>1
    <3>4. UNCHANGED <<session, reachable, declined>>
      BY <1>2 DEF Checkout!CancelSubscriptions
    <3>. QED BY <3>2, <3>3, <3>4 DEF Checkout!CheckoutInv, Checkout!Told
  <2>4. Checkout!PayableIsOpen'
    BY <1>2 DEF Checkout!CheckoutInv, Checkout!PayableIsOpen, Checkout!Shaped, Checkout!Stages,
               Checkout!Told, Checkout!CancelSubscriptions, Checkout!AdminGoto
  <2>5. Checkout!OneOpen'
    BY <1>2 DEF Checkout!CheckoutInv, Checkout!OneOpen, Checkout!Shaped, Checkout!Stages,
               Checkout!CancelSubscriptions, Checkout!AdminGoto
  <2>6. Checkout!Customers'
    BY <1>2 DEF Checkout!CheckoutInv, Checkout!Customers, Checkout!Shaped, Checkout!Stages,
               Checkout!Told, Checkout!CancelSubscriptions, Checkout!AdminGoto
  <2>. QED
    BY <2>1, <2>2, <2>3, <2>4, <2>5, <2>6 DEF Checkout!CheckoutInv
<1>3. CASE Checkout!ReadCheckouts
  BY <1>3, CheckoutSame DEF Checkout!ReadCheckouts
<1>4. CASE Checkout!ExpireCheckouts
  <2>1. Checkout!Shaped'
    BY <1>4 DEF Checkout!CheckoutInv, Checkout!Shaped, Checkout!ExpireCheckouts,
               Checkout!AdminGoto
  <2>2. Checkout!Stages'
    BY <1>4 DEF Checkout!CheckoutInv, Checkout!Stages, Checkout!Shaped, Checkout!Told,
               Checkout!PayableIsOpen, Checkout!ExpireCheckouts, Checkout!AdminGoto
  <2>3. Checkout!Told'
    <3>1. PICK A : /\ \A u \in A : session[u] = "open"
                   /\ session' = [u \in Handlers |-> IF u \in A THEN "expired" ELSE session[u]]
                   /\ events' = events \cup ({"expired"} \X A)
      BY <1>4 DEF Checkout!ExpireCheckouts
    <3>2. \A u \in Handlers :
            /\ <<"paid", u>> \in events' => <<"paid", u>> \in events
            /\ <<"renewed", u>> \in events' => <<"renewed", u>> \in events
            /\ <<"updated", u>> \in events' => <<"updated", u>> \in events
            /\ <<"expired", u>> \in events' => <<"expired", u>> \in events \/ u \in A
            /\ <<"declined", u>> \in events' => <<"declined", u>> \in events
      BY <3>1
    <3>3. \A u \in Handlers : u \notin A => session'[u] = session[u]
      BY <3>1
    <3>4. \A u \in Handlers : u \in A => session[u] = "open" /\ session'[u] = "expired"
      BY <3>1
    <3>5. UNCHANGED <<sub, reachable, declined>>
      BY <1>4 DEF Checkout!ExpireCheckouts
    <3>. QED BY <3>2, <3>3, <3>4, <3>5 DEF Checkout!CheckoutInv, Checkout!Told
  <2>4. Checkout!PayableIsOpen'
    BY <1>4 DEF Checkout!CheckoutInv, Checkout!PayableIsOpen, Checkout!Shaped, Checkout!Stages,
               Checkout!Told, Checkout!ExpireCheckouts, Checkout!AdminGoto
  <2>5. Checkout!OneOpen'
    BY <1>4 DEF Checkout!CheckoutInv, Checkout!OneOpen, Checkout!Shaped, Checkout!Stages,
               Checkout!ExpireCheckouts, Checkout!AdminGoto
  <2>6. Checkout!Customers'
    BY <1>4 DEF Checkout!CheckoutInv, Checkout!Customers, Checkout!Shaped, Checkout!Stages,
               Checkout!Told, Checkout!ExpireCheckouts, Checkout!AdminGoto
  <2>. QED
    BY <2>1, <2>2, <2>3, <2>4, <2>5, <2>6 DEF Checkout!CheckoutInv
<1>5. CASE Checkout!SetStatus
  BY <1>5, CheckoutSame DEF Checkout!SetStatus
<1>. QED
  BY <1>1, <1>2, <1>3, <1>4, <1>5 DEF Checkout!UpdateUserStatus

\* A customer without an order, and without a Stripe customer that can be used.
LEMMA CheckoutInitial == Checkout!Init => Checkout!CheckoutInv
<1> SUFFICES ASSUME Checkout!Init
             PROVE  Checkout!CheckoutInv
  OBVIOUS
<1> USE CheckoutAssumed DEF Checkout!CheckoutAssumption, Checkout!Init, Checkout!Idle, Checkout!Usable, Checkout!At
<1>1. Checkout!Shaped
  BY DEF Checkout!Shaped
<1>2. Checkout!Stages
  BY DEF Checkout!Stages
<1>3. Checkout!Told
  BY DEF Checkout!Told
<1>4. Checkout!PayableIsOpen /\ Checkout!OneOpen
  BY DEF Checkout!PayableIsOpen, Checkout!OneOpen, Checkout!Open
<1>5. Checkout!Customers
  BY DEF Checkout!Customers
<1>. QED BY <1>1, <1>2, <1>3, <1>4, <1>5 DEF Checkout!CheckoutInv

\* The invariant of the checkouts holds, for any number of tabs and whichever customer
\* was saved before.
LEMMA CheckoutInvariant == Checkout!Spec => []Checkout!CheckoutInv
<1>1. Checkout!CheckoutInv /\ [Checkout!Next]_Checkout!vars => Checkout!CheckoutInv'
  BY RequestKeeps, StripeKeeps, WebhookKeeps, SuspensionKeeps, CheckoutSame
     DEF Checkout!Next, Checkout!vars, Checkout!stripe, Checkout!database, Checkout!counters
<1>. QED BY <1>1, CheckoutInitial, PTL DEF Checkout!Spec

\* At most one checkout can be paid that no declined attempt left open, and every session
\* is of the customer that is saved.
LEMMA CheckoutTold == Checkout!CheckoutInv => Checkout!OneCheckout /\ Checkout!OneCustomer
<1> SUFFICES ASSUME Checkout!CheckoutInv
             PROVE  Checkout!OneCheckout /\ Checkout!OneCustomer
  OBVIOUS
<1>1. Checkout!OneCheckout
  BY DEF Checkout!OneCheckout, Checkout!Payable, Checkout!LeftOpen, Checkout!CheckoutInv,
         Checkout!Shaped, Checkout!PayableIsOpen, Checkout!OneOpen, Checkout!Open
<1>2. Checkout!OneCustomer
  BY DEF Checkout!OneCustomer, Checkout!CheckoutInv, Checkout!Customers
<1>. QED BY <1>1, <1>2


-----------------------------------------------------------------------------
(* The properties of the run.  A behaviour keeps to the part it begins with  *)
(* and is a behaviour of that component, whose theorems then apply to it.    *)

\* A behaviour of this part is one of the credits of a pack.
LEMMA PackPart == Spec => ([](part = "pack") /\ Pack!Spec) \/ [](~(part = "pack"))
<1>1. Init /\ part = "pack" => Pack!Init
  BY DEF Init
<1>2. part = "pack" /\ [Next]_vars => [Pack!Next]_Pack!vars
  BY DEF Next, vars, xs, Pack!vars, Pack!stripe, Pack!credits, Pack!customer
<1>3. part = "pack" /\ [Next]_vars => (part = "pack")'
  BY DEF Next, vars
<1>4. ~(part = "pack") /\ [Next]_vars => (~(part = "pack"))'
  BY DEF Next, vars
<1>. QED BY <1>1, <1>2, <1>3, <1>4, PTL DEF Spec, Pack!Spec

\* A behaviour of this part is one of the credits of a subscription.
LEMMA SubscriptionPart == Spec => ([](part = "subscription") /\ Subscription!Spec) \/ [](~(part = "subscription"))
<1>1. Init /\ part = "subscription" => Subscription!Init
  BY DEF Init
<1>2. part = "subscription" /\ [Next]_vars => [Subscription!Next]_Subscription!vars
  BY DEF Next, vars, xs, Subscription!vars, Subscription!stripe, Subscription!credits, Subscription!customer
<1>3. part = "subscription" /\ [Next]_vars => (part = "subscription")'
  BY DEF Next, vars
<1>4. ~(part = "subscription") /\ [Next]_vars => (~(part = "subscription"))'
  BY DEF Next, vars
<1>. QED BY <1>1, <1>2, <1>3, <1>4, PTL DEF Spec, Subscription!Spec

\* A behaviour of this part is one of the verification of plans.
LEMMA PlanPart == Spec => ([](part = "plan") /\ Plan!Spec) \/ [](~(part = "plan"))
<1>1. Init /\ part = "plan" => Plan!Init
  BY DEF Init
<1>2. part = "plan" /\ [Next]_vars => [Plan!Next]_Plan!vars
  BY DEF Next, vars, xs, Plan!vars, Plan!job, Plan!storage, Plan!bounds
<1>3. part = "plan" /\ [Next]_vars => (part = "plan")'
  BY DEF Next, vars
<1>4. ~(part = "plan") /\ [Next]_vars => (~(part = "plan"))'
  BY DEF Next, vars
<1>. QED BY <1>1, <1>2, <1>3, <1>4, PTL DEF Spec, Plan!Spec

\* A behaviour of this part is one of the verification of plans, with calls that stall.
LEMMA StallsPart == Spec => ([](part = "stalls") /\ Stalls!Spec) \/ [](~(part = "stalls"))
<1>1. Init /\ part = "stalls" => Stalls!Init
  BY DEF Init
<1>2. part = "stalls" /\ [Next]_vars => [Stalls!Next]_Stalls!vars
  BY DEF Next, vars, xs, Stalls!vars, Stalls!job, Stalls!storage, Stalls!bounds
<1>3. part = "stalls" /\ [Next]_vars => (part = "stalls")'
  BY DEF Next, vars
<1>4. ~(part = "stalls") /\ [Next]_vars => (~(part = "stalls"))'
  BY DEF Next, vars
<1>. QED BY <1>1, <1>2, <1>3, <1>4, PTL DEF Spec, Stalls!Spec

\* A behaviour of this part is one of the verification of a PDF.
LEMMA PdfPart == Spec => ([](part = "pdf") /\ Pdf!Spec) \/ [](~(part = "pdf"))
<1>1. Init /\ part = "pdf" => Pdf!Init
  BY DEF Init
<1>2. part = "pdf" /\ [Next]_vars => [Pdf!Next]_Pdf!vars
  BY DEF Next, vars, xs, Pdf!vars, Pdf!plan
<1>3. part = "pdf" /\ [Next]_vars => (part = "pdf")'
  BY DEF Next, vars
<1>4. ~(part = "pdf") /\ [Next]_vars => (~(part = "pdf"))'
  BY DEF Next, vars
<1>. QED BY <1>1, <1>2, <1>3, <1>4, PTL DEF Spec, Pdf!Spec

\* A behaviour of this part is one of the archive.
LEMMA ArchivePart == Spec => ([](part = "archive") /\ Archive!Spec) \/ [](~(part = "archive"))
<1>1. Init /\ part = "archive" => Archive!Init
  BY DEF Init
<1>2. part = "archive" /\ [Next]_vars => [Archive!Next]_Archive!vars
  BY DEF Next, vars, xs, Archive!vars, Archive!row, Archive!storage, Archive!watch
<1>3. part = "archive" /\ [Next]_vars => (part = "archive")'
  BY DEF Next, vars
<1>4. ~(part = "archive") /\ [Next]_vars => (~(part = "archive"))'
  BY DEF Next, vars
<1>. QED BY <1>1, <1>2, <1>3, <1>4, PTL DEF Spec, Archive!Spec

\* A behaviour of this part is one of the checkouts of a subscription.
LEMMA CheckoutPart == Spec => ([](part = "checkout") /\ Checkout!Spec) \/ [](~(part = "checkout"))
<1>1. Init /\ part = "checkout" => Checkout!Init
  BY DEF Init
<1>2. part = "checkout" /\ [Next]_vars => [Checkout!Next]_Checkout!vars
  BY DEF Next, vars, xs, Checkout!vars, Checkout!stripe, Checkout!database, Checkout!counters
<1>3. part = "checkout" /\ [Next]_vars => (part = "checkout")'
  BY DEF Next, vars
<1>4. ~(part = "checkout") /\ [Next]_vars => (~(part = "checkout"))'
  BY DEF Next, vars
<1>. QED BY <1>1, <1>2, <1>3, <1>4, PTL DEF Spec, Checkout!Spec

\* Credits follow the money, once each way, whatever the events of Stripe do.
THEOREM CreditsFollowMoneyHolds == Spec => []CreditsFollowMoney
<1>1. Pack!Spec => /\ []Pack!SuppressedWasRefunded /\ []Pack!ProcessedIsApplied
                   /\ []Pack!RefundedMeansReversed /\ []Pack!CreditsArePaid
  BY StripeAssumed, Pack!SuppressedWasRefundedHolds, Pack!ProcessedIsAppliedHolds,
     Pack!RefundedMeansReversedHolds, Pack!CreditsArePaidHolds
<1>2. Subscription!Spec => /\ []Subscription!RefundedMeansReversed /\ []Subscription!CreditsArePaid
                           /\ []Subscription!ProcessedIsApplied /\ []Subscription!BlockedIsNotRenewed
  BY StripeAssumed, Subscription!RefundedMeansReversedHolds, Subscription!CreditsArePaidHolds,
     Subscription!ProcessedIsAppliedHolds, Subscription!BlockedIsNotRenewedHolds
<1>3. CreditsFollowMoney <=>
        /\ part = "pack" => Pack!SuppressedWasRefunded /\ Pack!ProcessedIsApplied
                            /\ Pack!RefundedMeansReversed /\ Pack!CreditsArePaid
        /\ part = "subscription" => Subscription!RefundedMeansReversed
                            /\ Subscription!CreditsArePaid /\ Subscription!ProcessedIsApplied
                            /\ Subscription!BlockedIsNotRenewed
  BY DEF CreditsFollowMoney
<1>. QED BY <1>1, <1>2, <1>3, PackPart, SubscriptionPart, PTL

\* A customer never has two checkouts that can be paid, save for one that a declined
\* attempt left open, and never two Stripe customers.
THEOREM OneCheckoutHolds == Spec => []OneCheckout
<1>1. OneCheckout <=> (part = "checkout" => Checkout!OneCheckout /\ Checkout!OneCustomer)
  BY DEF OneCheckout
<1>. QED BY <1>1, CheckoutPart, CheckoutInvariant, CheckoutTold, PTL

\* While calls stall: drafts are limited, what is quoted was verified, archived and is
\* stored unless a late request stored another page over it, and one verification runs
\* at a time, beside those whose drafts were canceled.
THEOREM QuotesAreSoundHolds == Spec => []QuotesAreSound
<1>1. Plan!Spec => /\ []Plan!DraftsAreLimited /\ []Plan!QuotedIsArchived
                   /\ []Plan!VerifiedIsStored /\ []Plan!LeaseSerializes
  BY PlanAssumed, Plan!DraftsAreLimitedHolds, Plan!QuotedIsArchivedHolds,
     Plan!VerifiedIsStoredHolds, Plan!LeaseSerializesHolds
<1>2. Stalls!Spec => []Stalls!LeaseSerializes
  BY PlanAssumed, Stalls!LeaseSerializesHolds
<1>3. QuotesAreSound <=>
        /\ part = "plan" => Plan!DraftsAreLimited /\ Plan!QuotedIsArchived
                            /\ Plan!VerifiedIsStored /\ Plan!LeaseSerializes
        /\ part = "stalls" => Stalls!LeaseSerializes
  BY DEF QuotesAreSound
<1>. QED BY <1>1, <1>2, <1>3, PlanPart, StallsPart, PTL

\* A PDF is accepted when it is sound and only then, and nothing is left of its inspection.
THEOREM VerdictsAreRightHolds == Spec => []VerdictsAreRight
<1>1. VerdictsAreRight <=>
        (part = "pdf" => Pdf!AcceptedIsSound /\ Pdf!SoundIsAccepted /\ Pdf!NothingIsLeft)
  BY DEF VerdictsAreRight
<1>. QED BY <1>1, PdfPart, PdfInvariant, PdfTold, PTL

\* What is erased is gone, for two administrators, and what is held is there unless storage
\* lost it or a removal that came too late took it.
THEOREM ErasedIsGoneHolds == Spec => []ErasedIsGone
<1>1. ErasedIsGone <=>
        (part = "archive" => Archive!DeletedIsGone /\ Archive!HeldIsKept /\ Archive!TwoTookPart)
  BY DEF ErasedIsGone
<1>. QED BY <1>1, ArchivePart, ArchiveInvariant, ArchiveTold, PTL

\* The grant of a pack stays or is refunded, that of a first invoice is blocked, too, when
\* its subscription is over, and a quote never changes.
THEOREM SettledIsFinalHolds == Spec => SettledIsFinal
<1>. DEFINE Final == /\ part = "pack" => Pack!FulfilledIsFinal
                     /\ part = "subscription" => Subscription!GrantStays
                     /\ part = "plan" => Plan!QuoteIsFixed
                     /\ part = "stalls" => Stalls!QuoteIsFixed
<1>1. Pack!Spec => [][Pack!FulfilledIsFinal]_Pack!vars
  BY StripeAssumed, Pack!FulfilledIsFinalHolds
<1>2. Subscription!Spec => [][Subscription!GrantStays]_Subscription!vars
  BY StripeAssumed, Subscription!GrantsStay
<1>3. Plan!Spec => [][Plan!QuoteIsFixed]_Plan!vars
  BY PlanAssumed, Plan!QuoteIsFixedHolds
<1>4. Stalls!Spec => [][Stalls!QuoteIsFixed]_Stalls!vars
  BY PlanAssumed, Stalls!QuoteIsFixedHolds
<1>5. part = "pack" /\ [Next]_vars /\ [Pack!FulfilledIsFinal]_Pack!vars => [Final]_vars
  BY DEF Next, vars, xs, Pack!vars, Pack!stripe, Pack!credits, Pack!customer
<1>6. part = "subscription" /\ [Next]_vars /\ [Subscription!GrantStays]_Subscription!vars
        => [Final]_vars
  BY DEF Next, vars, xs, Subscription!vars, Subscription!stripe, Subscription!credits,
         Subscription!customer
<1>7. part = "plan" /\ [Next]_vars /\ [Plan!QuoteIsFixed]_Plan!vars => [Final]_vars
  BY DEF Next, vars, xs, Plan!vars, Plan!job, Plan!storage, Plan!bounds
<1>8. part = "stalls" /\ [Next]_vars /\ [Stalls!QuoteIsFixed]_Stalls!vars => [Final]_vars
  BY DEF Next, vars, xs, Stalls!vars, Stalls!job, Stalls!storage, Stalls!bounds
<1>9. part \notin {"pack", "subscription", "plan", "stalls"} => [Final]_vars
  OBVIOUS
<1>. HIDE DEF Final
<1>10. (part = "pack" \/ part = "subscription" \/ part = "plan" \/ part = "stalls")
        \/ [Final]_vars
  BY <1>9
<1>11. Spec => [][Final]_vars
  BY <1>1, <1>2, <1>3, <1>4, <1>5, <1>6, <1>7, <1>8, <1>10,
     PackPart, SubscriptionPart, PlanPart, StallsPart, PTL DEF Spec
<1>. QED BY <1>11 DEF Final, SettledIsFinal
=============================================================================
