------------------------- MODULE MCExecution_proofs -------------------------
(***************************************************************************)
(* Proofs about MCExecution, for every value of its constants: the         *)
(* inductive invariants of the processor (Processor), of the audit of its  *)
(* usage (UsageAudit) and of the prices of a model call (BudgetPolicy),    *)
(* and the properties of the execution run, which also rest on the         *)
(* theorems of ExecutorBroker_proofs and TokenBudget_proofs.               *)
(***************************************************************************)
EXTENDS MCExecution, Sequences, SetSums_proofs

-----------------------------------------------------------------------------
(* The processor.  Its variables have their own names here.                *)

record == x1
inputs == x2
cut == x3
files == x4
book == x5
events == x6
removing == x7
boot == x8
todo == x9
request == x10
active == x11
queue == x12
run == x13
unreported == x14
faults == x15
crashes == x16
USE DEF record, inputs, cut, files, book, events, removing, boot, todo, request, active, queue, run, unreported, faults, crashes

\* Nothing of k changes.
Unmoved(k) ==
  /\ record'[k] = record[k] /\ inputs'[k] = inputs[k] /\ files'[k] = files[k] /\ book'[k] = book[k]
  /\ events'[k] = events[k] /\ request'[k] = request[k] /\ run'[k] = run[k]
  /\ k \in removing' <=> k \in removing
  /\ k \in todo' <=> k \in todo
  /\ k \in active' <=> k \in active
  /\ k \in unreported' <=> k \in unreported
  /\ Analyses!Queued(k)' <=> Analyses!Queued(k)

\* A job that nothing happens to keeps its invariant, unless the process changes its phase.
LEMMA Frame ==
  ASSUME NEW k \in Takeoffs, Analyses!JobInv(k), Unmoved(k), boot' = boot
  PROVE  Analyses!JobInv(k)'
<1>. USE DEF Analyses!JobInv, Unmoved, Analyses!Exists, Analyses!HasStatus, Analyses!Terminal, Analyses!Open, Analyses!Blank
<1>1. Analyses!Requested(k)' BY DEF Analyses!Requested, Analyses!Expected
<1>2. Analyses!Placed(k)' BY DEF Analyses!Placed
<1>3. Analyses!Remembered(k)' BY DEF Analyses!Remembered
<1>4. Analyses!Flagged(k)' BY DEF Analyses!Flagged
<1>5. Analyses!Paid(k)' BY DEF Analyses!Paid, Analyses!UsageFromEvents
<1>6. Analyses!Booked(k)' BY DEF Analyses!Booked
<1>7. Analyses!Built(k)' BY DEF Analyses!Built, Analyses!Workbook
<1>. QED BY <1>1, <1>2, <1>3, <1>4, <1>5, <1>6, <1>7 DEF Analyses!JobInv

\* A run goes to its next step and keeps the rest.
LEMMA Goes ==
  ASSUME Analyses!Shaped, NEW j \in Takeoffs, NEW at, Analyses!Goto(j, at)
  PROVE  /\ \A k \in Takeoffs : k # j => run'[k] = run[k]
         /\ run'[j].at = at /\ run'[j].replay = run[j].replay
         /\ run'[j].book = run[j].book /\ run'[j].usage = run[j].usage
<1>. run[j] \in Analyses!Runs /\ DOMAIN run = Takeoffs
  BY DEF Analyses!Shaped
<1>. QED BY DEF Analyses!Goto, Analyses!Runs

\* Saving the record of a job leaves the others.
LEMMA Saves ==
  ASSUME Analyses!Shaped, NEW j \in Takeoffs, NEW r, Analyses!Save(j, r)
  PROVE  record'[j] = r /\ \A k \in Takeoffs : k # j => record'[k] = record[k]
BY DEF Analyses!Shaped, Analyses!Save

\* The record that Start writes
LEMMA RunningForm ==
  ASSUME NEW r \in Analyses!Records, NEW s, s = [r EXCEPT !.status = "running", !.usage = None]
  PROVE  s \in Analyses!Records /\ s # None /\ s.status = "running" /\ s.usage = None
<1>1. s \in Analyses!Records /\ s.status = "running" /\ s.usage = None
  BY DEF Analyses!Records
<1>. QED BY <1>1, AnalysesAssumed DEF Analyses!ProcessorAssumption

\* The record that the recovery of a replay writes
LEMMA QueuedForm ==
  ASSUME NEW r \in Analyses!Records, NEW s, s = [r EXCEPT !.status = "queued", !.code = None]
  PROVE  s \in Analyses!Records /\ s # None /\ s.status = "queued" /\ s.usage = r.usage
<1>1. s \in Analyses!Records /\ s.status = "queued" /\ s.usage = r.usage
  BY DEF Analyses!Records
<1>. QED BY <1>1, AnalysesAssumed DEF Analyses!ProcessorAssumption

\* The record that a failure writes
LEMMA FailedForm ==
  ASSUME NEW r \in Analyses!Records, NEW u \in Nat \cup {None}, NEW c \in {"processing_failed", "processor_restarted"},
         NEW s, s = [r EXCEPT !.status = "failed", !.code = c, !.usage = u]
  PROVE  s \in Analyses!Records /\ s # None /\ s.status = "failed" /\ s.usage = u
<1>1. s \in Analyses!Records /\ s.status = "failed" /\ s.usage = u
  BY DEF Analyses!Records
<1>. QED BY <1>1, AnalysesAssumed DEF Analyses!ProcessorAssumption

\* What the invariant says of a job that a thread is at.
LEMMA AtWork ==
  ASSUME NEW j \in Takeoffs, Analyses!JobInv(j), run[j].at \notin {"none", "done"}
  PROVE  /\ Analyses!Exists(j) /\ record[j].status \in {"queued", "running"} /\ record[j].usage = None
         /\ j \in active /\ j \notin todo /\ j \notin removing /\ ~Analyses!Queued(j)
         /\ request[j] \in {"answered", "refused"}
         /\ request[j] = "answered" => inputs[j] = Analyses!Expected(j)
         /\ run[j].replay <=> "replay" \in inputs[j]
         /\ run[j].book <=> "workbook" \in inputs[j]
         /\ run[j].book => run[j].replay
BY DEF Analyses!JobInv, Analyses!Requested, Analyses!Placed, Analyses!Flagged, Analyses!Paid, Analyses!Open,
       Analyses!Terminal, Analyses!HasStatus

\* A thread begins with a job: the record says running.
LEMMA StartKeeps ==
  ASSUME Analyses!ProcessorInv, NEW j \in Takeoffs, Analyses!Start(j)
  PROVE  \A k \in Takeoffs : Analyses!JobInv(k)'
<1>0. Analyses!Shaped /\ Analyses!JobInv(j)
  BY DEF Analyses!ProcessorInv
<1>a. run[j].at = "start" /\ record[j] \in Analyses!Records
  BY <1>0
  DEF Analyses!Start, Analyses!JobInv, Analyses!Placed, Analyses!Open, Analyses!HasStatus, Analyses!Exists,
      Analyses!Shaped
<1>b. /\ record'[j] # None /\ record'[j].status = "running" /\ record'[j].usage = None
      /\ \A k \in Takeoffs : k # j => record'[k] = record[k]
  <2>. DEFINE s == [record[j] EXCEPT !.status = "running", !.usage = None]
  <2>1. Analyses!Save(j, s)
    BY DEF Analyses!Start
  <2>2. s # None /\ s.status = "running" /\ s.usage = None
    BY <1>a, RunningForm
  <2>. HIDE DEF s
  <2>. QED BY <1>0, <2>1, <2>2, Saves
<1>e. /\ run[j].at = "start"
      /\ record'[j] # None /\ record'[j].status = "running" /\ record'[j].usage = None
      /\ \A k \in Takeoffs : k # j => record'[k] = record[k] /\ run'[k] = run[k]
      /\ run'[j].at = (IF run[j].replay THEN "copy" ELSE "index") /\ run'[j].replay = run[j].replay
      /\ run'[j].book = run[j].book /\ run'[j].usage = run[j].usage
      /\ UNCHANGED <<inputs, files, book, events, removing, active, queue, unreported, boot, todo, request>>
  BY <1>0, <1>a, <1>b, Goes DEF Analyses!Start, Analyses!Keeps
<1>w. run[j].at \notin {"none", "done"}
  BY <1>e
<1>1. ASSUME NEW k \in Takeoffs, k # j PROVE Analyses!JobInv(k)'
  <2>1. Unmoved(k) /\ boot' = boot
    BY <1>0, <1>1, <1>e DEF Unmoved, Analyses!Queued, Analyses!Shaped
  <2>. QED BY <2>1, Frame DEF Analyses!ProcessorInv
<1>2. Analyses!JobInv(j)'
  <2>. USE <1>0, <1>e, <1>w DEF Analyses!JobInv, Analyses!Exists, Analyses!HasStatus, Analyses!Terminal, Analyses!Open, Analyses!Blank
  <2>1. Analyses!Requested(j)' BY AtWork DEF Analyses!Requested, Analyses!Expected
  <2>2. Analyses!Placed(j)' BY AtWork DEF Analyses!Placed, Analyses!Queued
  <2>3. Analyses!Remembered(j)' BY AtWork DEF Analyses!Remembered, Analyses!Placed
  <2>4. Analyses!Flagged(j)' BY AtWork DEF Analyses!Flagged
  <2>5. Analyses!Paid(j)' BY AtWork DEF Analyses!Paid, Analyses!UsageFromEvents, Analyses!Flagged
  <2>6. Analyses!Booked(j)' BY AtWork DEF Analyses!Booked, Analyses!Flagged, Analyses!Expected
  <2>7. Analyses!Built(j)' BY AtWork DEF Analyses!Built, Analyses!Workbook, Analyses!Booked, Analyses!Expected
  <2>. QED BY <2>1, <2>2, <2>3, <2>4, <2>5, <2>6, <2>7 DEF Analyses!JobInv
<1>. QED BY <1>1, <1>2

\* The index is only prepared for an analysis.
LEMMA PrepareIndexKeeps ==
  ASSUME Analyses!ProcessorInv, NEW j \in Takeoffs, Analyses!PrepareIndex(j)
  PROVE  \A k \in Takeoffs : Analyses!JobInv(k)'
<1>0. Analyses!Shaped /\ Analyses!JobInv(j)
  BY DEF Analyses!ProcessorInv
<1>e. /\ run[j].at = "index"
      /\ \A k \in Takeoffs : k # j => run'[k] = run[k]
      /\ run'[j].at = "codex" /\ run'[j].replay = run[j].replay
      /\ run'[j].book = run[j].book /\ run'[j].usage = run[j].usage
      /\ UNCHANGED <<record, inputs, files, book, events, removing, active, queue, unreported, boot, todo, request>>
  BY <1>0, Goes DEF Analyses!PrepareIndex, Analyses!Keeps, Analyses!disk
<1>w. run[j].at \notin {"none", "done"}
  BY <1>e
<1>1. ASSUME NEW k \in Takeoffs, k # j PROVE Analyses!JobInv(k)'
  <2>1. Unmoved(k) /\ boot' = boot
    BY <1>0, <1>1, <1>e DEF Unmoved, Analyses!Queued, Analyses!Shaped
  <2>. QED BY <2>1, Frame DEF Analyses!ProcessorInv
<1>2. Analyses!JobInv(j)'
  <2>. USE <1>0, <1>e, <1>w DEF Analyses!JobInv, Analyses!Exists, Analyses!HasStatus, Analyses!Terminal, Analyses!Open, Analyses!Blank
  <2>1. Analyses!Requested(j)' BY AtWork DEF Analyses!Requested, Analyses!Expected
  <2>2. Analyses!Placed(j)' BY AtWork DEF Analyses!Placed, Analyses!Queued
  <2>3. Analyses!Remembered(j)' BY AtWork DEF Analyses!Remembered, Analyses!Placed
  <2>4. Analyses!Flagged(j)' BY AtWork DEF Analyses!Flagged
  <2>5. Analyses!Paid(j)' BY AtWork DEF Analyses!Paid, Analyses!UsageFromEvents, Analyses!Flagged
  <2>6. Analyses!Booked(j)' BY AtWork DEF Analyses!Booked, Analyses!Flagged, Analyses!Expected
  <2>7. Analyses!Built(j)' BY AtWork DEF Analyses!Built, Analyses!Workbook, Analyses!Booked, Analyses!Expected
  <2>. QED BY <2>1, <2>2, <2>3, <2>4, <2>5, <2>6, <2>7 DEF Analyses!JobInv
<1>. QED BY <1>1, <1>2

\* Whatever raises, the job stays open and active.
LEMMA RaiseKeeps ==
  ASSUME Analyses!ProcessorInv, NEW j \in Takeoffs, Analyses!Raise(j)
  PROVE  \A k \in Takeoffs : Analyses!JobInv(k)'
<1>0. Analyses!Shaped /\ Analyses!JobInv(j)
  BY DEF Analyses!ProcessorInv
<1>e. /\ run[j].at \in {"start", "copy", "index", "codex", "validate", "annotate", "finish"}
      /\ \A k \in Takeoffs : k # j => run'[k] = run[k]
      /\ run'[j].at = "diagnose" /\ run'[j].replay = run[j].replay
      /\ run'[j].book = run[j].book /\ run'[j].usage = run[j].usage
      /\ UNCHANGED <<record, inputs, files, book, events, removing, active, queue, unreported, boot, todo, request>>
  BY <1>0, Goes DEF Analyses!Raise, Analyses!Keeps, Analyses!disk
<1>w. run[j].at \notin {"none", "done"}
  BY <1>e
<1>1. ASSUME NEW k \in Takeoffs, k # j PROVE Analyses!JobInv(k)'
  <2>1. Unmoved(k) /\ boot' = boot
    BY <1>0, <1>1, <1>e DEF Unmoved, Analyses!Queued, Analyses!Shaped
  <2>. QED BY <2>1, Frame DEF Analyses!ProcessorInv
<1>2. Analyses!JobInv(j)'
  <2>. USE <1>0, <1>e, <1>w DEF Analyses!JobInv, Analyses!Exists, Analyses!HasStatus, Analyses!Terminal, Analyses!Open, Analyses!Blank
  <2>1. Analyses!Requested(j)' BY AtWork DEF Analyses!Requested, Analyses!Expected
  <2>2. Analyses!Placed(j)' BY AtWork DEF Analyses!Placed, Analyses!Queued
  <2>3. Analyses!Remembered(j)' BY AtWork DEF Analyses!Remembered, Analyses!Placed
  <2>4. Analyses!Flagged(j)' BY AtWork DEF Analyses!Flagged
  <2>5. Analyses!Paid(j)' BY AtWork DEF Analyses!Paid, Analyses!UsageFromEvents, Analyses!Flagged
  <2>6. Analyses!Booked(j)' BY AtWork DEF Analyses!Booked, Analyses!Flagged, Analyses!Expected
  <2>7. Analyses!Built(j)' BY AtWork DEF Analyses!Built, Analyses!Workbook, Analyses!Booked, Analyses!Expected
  <2>. QED BY <2>1, <2>2, <2>3, <2>4, <2>5, <2>6, <2>7 DEF Analyses!JobInv
<1>. QED BY <1>1, <1>2

\* Diagnosing changes nothing but the step.
LEMMA DiagnoseKeeps ==
  ASSUME Analyses!ProcessorInv, NEW j \in Takeoffs, Analyses!Diagnose(j)
  PROVE  \A k \in Takeoffs : Analyses!JobInv(k)'
<1>0. Analyses!Shaped /\ Analyses!JobInv(j)
  BY DEF Analyses!ProcessorInv
<1>e. /\ run[j].at = "diagnose"
      /\ \A k \in Takeoffs : k # j => run'[k] = run[k]
      /\ run'[j].at = "report" /\ run'[j].replay = run[j].replay
      /\ run'[j].book = run[j].book /\ run'[j].usage = run[j].usage
      /\ UNCHANGED <<record, inputs, files, book, events, removing, active, queue, unreported, boot, todo, request>>
  BY <1>0, Goes DEF Analyses!Diagnose, Analyses!Keeps, Analyses!disk
<1>w. run[j].at \notin {"none", "done"}
  BY <1>e
<1>1. ASSUME NEW k \in Takeoffs, k # j PROVE Analyses!JobInv(k)'
  <2>1. Unmoved(k) /\ boot' = boot
    BY <1>0, <1>1, <1>e DEF Unmoved, Analyses!Queued, Analyses!Shaped
  <2>. QED BY <2>1, Frame DEF Analyses!ProcessorInv
<1>2. Analyses!JobInv(j)'
  <2>. USE <1>0, <1>e, <1>w DEF Analyses!JobInv, Analyses!Exists, Analyses!HasStatus, Analyses!Terminal, Analyses!Open, Analyses!Blank
  <2>1. Analyses!Requested(j)' BY AtWork DEF Analyses!Requested, Analyses!Expected
  <2>2. Analyses!Placed(j)' BY AtWork DEF Analyses!Placed, Analyses!Queued
  <2>3. Analyses!Remembered(j)' BY AtWork DEF Analyses!Remembered, Analyses!Placed
  <2>4. Analyses!Flagged(j)' BY AtWork DEF Analyses!Flagged
  <2>5. Analyses!Paid(j)' BY AtWork DEF Analyses!Paid, Analyses!UsageFromEvents, Analyses!Flagged
  <2>6. Analyses!Booked(j)' BY AtWork DEF Analyses!Booked, Analyses!Flagged, Analyses!Expected
  <2>7. Analyses!Built(j)' BY AtWork DEF Analyses!Built, Analyses!Workbook, Analyses!Booked, Analyses!Expected
  <2>. QED BY <2>1, <2>2, <2>3, <2>4, <2>5, <2>6, <2>7 DEF Analyses!JobInv
<1>. QED BY <1>1, <1>2

\* Copying a replay makes an uploaded workbook the book.
LEMMA CopyReplayKeeps ==
  ASSUME Analyses!ProcessorInv, NEW j \in Takeoffs, Analyses!CopyReplay(j)
  PROVE  \A k \in Takeoffs : Analyses!JobInv(k)'
<1>0. Analyses!Shaped /\ Analyses!JobInv(j)
  BY DEF Analyses!ProcessorInv
<1>e. /\ run[j].at = "copy"
      /\ \A k \in Takeoffs : k # j => run'[k] = run[k]
      /\ run'[j].at = "validate" /\ run'[j].replay = run[j].replay
      /\ run'[j].book = run[j].book /\ run'[j].usage = run[j].usage
      /\ \A k \in Takeoffs : k # j => files'[k] = files[k] /\ book'[k] = book[k]
      /\ files'[j] = files[j] \cup {"takeoff", "methodology"} \cup (IF run[j].book THEN {"workbook"} ELSE {})
      /\ book'[j] = (IF run[j].book THEN "uploaded" ELSE book[j])
      /\ UNCHANGED <<record, inputs, events, removing, active, queue, unreported, boot, todo, request>>
  BY <1>0, Goes DEF Analyses!CopyReplay, Analyses!Keeps, Analyses!Shaped
<1>w. run[j].at \notin {"none", "done"}
  BY <1>e
<1>1. ASSUME NEW k \in Takeoffs, k # j PROVE Analyses!JobInv(k)'
  <2>1. Unmoved(k) /\ boot' = boot
    BY <1>0, <1>1, <1>e DEF Unmoved, Analyses!Queued, Analyses!Shaped
  <2>. QED BY <2>1, Frame DEF Analyses!ProcessorInv
<1>2. Analyses!JobInv(j)'
  <2>. USE <1>0, <1>e, <1>w DEF Analyses!JobInv, Analyses!Exists, Analyses!HasStatus, Analyses!Terminal, Analyses!Open, Analyses!Blank
  <2>1. Analyses!Requested(j)' BY AtWork DEF Analyses!Requested, Analyses!Expected
  <2>2. Analyses!Placed(j)' BY AtWork DEF Analyses!Placed, Analyses!Queued
  <2>3. Analyses!Remembered(j)' BY AtWork DEF Analyses!Remembered, Analyses!Placed
  <2>4. Analyses!Flagged(j)' BY AtWork DEF Analyses!Flagged
  <2>5. Analyses!Paid(j)' BY AtWork DEF Analyses!Paid, Analyses!UsageFromEvents, Analyses!Flagged
  <2>6. Analyses!Booked(j)' BY AtWork, AnalysesAssumed DEF Analyses!Booked, Analyses!Flagged, Analyses!Expected, Analyses!Canonical, Analyses!ProcessorAssumption, Analyses!Books, Analyses!Artifacts
  <2>7. Analyses!Built(j)' BY AtWork, AnalysesAssumed DEF Analyses!Built, Analyses!Workbook, Analyses!Booked, Analyses!Expected, Analyses!Canonical, Analyses!ProcessorAssumption, Analyses!Books, Analyses!Artifacts
  <2>. QED BY <2>1, <2>2, <2>3, <2>4, <2>5, <2>6, <2>7 DEF Analyses!JobInv
<1>. QED BY <1>1, <1>2

\* What passes the validation has the book that its request implies.
LEMMA ValidateKeeps ==
  ASSUME Analyses!ProcessorInv, NEW j \in Takeoffs, Analyses!Validate(j)
  PROVE  \A k \in Takeoffs : Analyses!JobInv(k)'
<1>0. Analyses!Shaped /\ Analyses!JobInv(j)
  BY DEF Analyses!ProcessorInv
<1>e. /\ run[j].at = "validate" /\ {"takeoff", "methodology"} \subseteq files[j]
      /\ \A k \in Takeoffs : k # j => run'[k] = run[k]
      /\ run'[j].at = "annotate" /\ run'[j].replay = run[j].replay
      /\ run'[j].book = run[j].book /\ run'[j].usage = run[j].usage
      /\ \A k \in Takeoffs : k # j => files'[k] = files[k] /\ book'[k] = book[k]
      /\ Analyses!Canonical(j) \/ run[j].replay \/ "workbook" \in files[j]
      /\ files'[j] = files[j] \cup (IF Analyses!Canonical(j) THEN {"workbook"} ELSE {})
      /\ book'[j] = (IF Analyses!Canonical(j) THEN "canonical" ELSE book[j])
      /\ UNCHANGED <<record, inputs, events, removing, active, queue, unreported, boot, todo, request>>
  BY <1>0, Goes DEF Analyses!Validate, Analyses!Keeps, Analyses!Shaped
<1>w. run[j].at \notin {"none", "done"}
  BY <1>e
<1>1. ASSUME NEW k \in Takeoffs, k # j PROVE Analyses!JobInv(k)'
  <2>1. Unmoved(k) /\ boot' = boot
    BY <1>0, <1>1, <1>e DEF Unmoved, Analyses!Queued, Analyses!Shaped
  <2>. QED BY <2>1, Frame DEF Analyses!ProcessorInv
<1>2. Analyses!JobInv(j)'
  <2>. USE <1>0, <1>e, <1>w DEF Analyses!JobInv, Analyses!Exists, Analyses!HasStatus, Analyses!Terminal, Analyses!Open, Analyses!Blank
  <2>1. Analyses!Requested(j)' BY AtWork DEF Analyses!Requested, Analyses!Expected
  <2>2. Analyses!Placed(j)' BY AtWork DEF Analyses!Placed, Analyses!Queued
  <2>3. Analyses!Remembered(j)' BY AtWork DEF Analyses!Remembered, Analyses!Placed
  <2>4. Analyses!Flagged(j)' BY AtWork DEF Analyses!Flagged
  <2>5. Analyses!Paid(j)' BY AtWork DEF Analyses!Paid, Analyses!UsageFromEvents, Analyses!Flagged
  <2>6. Analyses!Booked(j)' BY AtWork, AnalysesAssumed DEF Analyses!Booked, Analyses!Flagged, Analyses!Expected, Analyses!Canonical, Analyses!ProcessorAssumption, Analyses!Books, Analyses!Artifacts
  <2>7. Analyses!Built(j)' BY AtWork, AnalysesAssumed DEF Analyses!Built, Analyses!Workbook, Analyses!Booked, Analyses!Expected, Analyses!Canonical, Analyses!ProcessorAssumption, Analyses!Books, Analyses!Artifacts
  <2>. QED BY <2>1, <2>2, <2>3, <2>4, <2>5, <2>6, <2>7 DEF Analyses!JobInv
<1>. QED BY <1>1, <1>2

\* Annotating adds what a completed job has besides.
LEMMA AnnotateKeeps ==
  ASSUME Analyses!ProcessorInv, NEW j \in Takeoffs, Analyses!Annotate(j)
  PROVE  \A k \in Takeoffs : Analyses!JobInv(k)'
<1>0. Analyses!Shaped /\ Analyses!JobInv(j)
  BY DEF Analyses!ProcessorInv
<1>e. /\ run[j].at = "annotate"
      /\ \A k \in Takeoffs : k # j => run'[k] = run[k]
      /\ run'[j].at = "finish" /\ run'[j].replay = run[j].replay
      /\ run'[j].book = run[j].book /\ run'[j].usage = run[j].usage
      /\ \A k \in Takeoffs : k # j => files'[k] = files[k]
      /\ files'[j] = files[j] \cup {"annotated", "audit"}
      /\ UNCHANGED <<record, inputs, book, events, removing, active, queue, unreported, boot, todo, request>>
  BY <1>0, Goes DEF Analyses!Annotate, Analyses!Keeps, Analyses!Shaped
<1>w. run[j].at \notin {"none", "done"}
  BY <1>e
<1>1. ASSUME NEW k \in Takeoffs, k # j PROVE Analyses!JobInv(k)'
  <2>1. Unmoved(k) /\ boot' = boot
    BY <1>0, <1>1, <1>e DEF Unmoved, Analyses!Queued, Analyses!Shaped
  <2>. QED BY <2>1, Frame DEF Analyses!ProcessorInv
<1>2. Analyses!JobInv(j)'
  <2>. USE <1>0, <1>e, <1>w DEF Analyses!JobInv, Analyses!Exists, Analyses!HasStatus, Analyses!Terminal, Analyses!Open, Analyses!Blank
  <2>1. Analyses!Requested(j)' BY AtWork DEF Analyses!Requested, Analyses!Expected
  <2>2. Analyses!Placed(j)' BY AtWork DEF Analyses!Placed, Analyses!Queued
  <2>3. Analyses!Remembered(j)' BY AtWork DEF Analyses!Remembered, Analyses!Placed
  <2>4. Analyses!Flagged(j)' BY AtWork DEF Analyses!Flagged
  <2>5. Analyses!Paid(j)' BY AtWork DEF Analyses!Paid, Analyses!UsageFromEvents, Analyses!Flagged
  <2>6. Analyses!Booked(j)' BY AtWork DEF Analyses!Booked, Analyses!Flagged, Analyses!Expected
  <2>7. Analyses!Built(j)' BY AtWork DEF Analyses!Built, Analyses!Workbook, Analyses!Booked, Analyses!Expected
  <2>. QED BY <2>1, <2>2, <2>3, <2>4, <2>5, <2>6, <2>7 DEF Analyses!JobInv
<1>. QED BY <1>1, <1>2

\* When Codex ends, the usage of its turns is taken.
LEMMA CodexEndsKeeps ==
  ASSUME Analyses!ProcessorInv, NEW j \in Takeoffs, Analyses!CodexEnds(j)
  PROVE  \A k \in Takeoffs : Analyses!JobInv(k)'
<1>0. Analyses!Shaped /\ Analyses!JobInv(j)
  BY DEF Analyses!ProcessorInv
<1>e. /\ run[j].at = "codex"
      /\ \A k \in Takeoffs : k # j => files'[k] = files[k] /\ book'[k] = book[k] /\ run'[k] = run[k]
      /\ \/ book'[j] = book[j] /\ ("workbook" \in files'[j] <=> "workbook" \in files[j])
         \/ book'[j] = "codex" /\ "workbook" \in files'[j]
      /\ run'[j].at = "validate" /\ run'[j].replay = run[j].replay /\ run'[j].book = run[j].book
      /\ run'[j].usage = Analyses!UsageFromEvents(j)
      /\ UNCHANGED <<record, inputs, events, removing, active, queue, unreported, boot, todo, request>>
  BY <1>0 DEF Analyses!CodexEnds, Analyses!Keeps, Analyses!Shaped, Analyses!Runs
<1>w. run[j].at \notin {"none", "done"}
  BY <1>e
<1>1. ASSUME NEW k \in Takeoffs, k # j PROVE Analyses!JobInv(k)'
  <2>1. Unmoved(k) /\ boot' = boot
    BY <1>0, <1>1, <1>e DEF Unmoved, Analyses!Queued, Analyses!Shaped
  <2>. QED BY <2>1, Frame DEF Analyses!ProcessorInv
<1>2. Analyses!JobInv(j)'
  <2>. USE <1>0, <1>e, <1>w DEF Analyses!JobInv, Analyses!Exists, Analyses!HasStatus, Analyses!Terminal, Analyses!Open, Analyses!Blank
  <2>1. Analyses!Requested(j)' BY AtWork DEF Analyses!Requested, Analyses!Expected
  <2>2. Analyses!Placed(j)' BY AtWork DEF Analyses!Placed, Analyses!Queued
  <2>3. Analyses!Remembered(j)' BY AtWork DEF Analyses!Remembered, Analyses!Placed
  <2>4. Analyses!Flagged(j)' BY AtWork DEF Analyses!Flagged
  <2>5. Analyses!Paid(j)' BY AtWork DEF Analyses!Paid, Analyses!UsageFromEvents, Analyses!Flagged
  <2>6. Analyses!Booked(j)' BY AtWork, AnalysesAssumed DEF Analyses!Booked, Analyses!Flagged, Analyses!Expected, Analyses!Canonical, Analyses!ProcessorAssumption, Analyses!Books, Analyses!Artifacts
  <2>7. Analyses!Built(j)' BY AtWork, AnalysesAssumed DEF Analyses!Built, Analyses!Workbook, Analyses!Booked, Analyses!Expected, Analyses!Canonical, Analyses!ProcessorAssumption, Analyses!Books, Analyses!Artifacts
  <2>. QED BY <2>1, <2>2, <2>3, <2>4, <2>5, <2>6, <2>7 DEF Analyses!JobInv
<1>. QED BY <1>1, <1>2

\* A turn is paid while its job runs, so no record has a usage yet.
LEMMA TurnKeeps ==
  ASSUME Analyses!ProcessorInv, NEW j \in Takeoffs, Analyses!Turn(j)
  PROVE  \A k \in Takeoffs : Analyses!JobInv(k)'
<1>0. Analyses!Shaped /\ Analyses!JobInv(j)
  BY DEF Analyses!ProcessorInv
<1>e. /\ run[j].at = "codex" /\ events'[j] = events[j] + 1
      /\ \A k \in Takeoffs : k # j => events'[k] = events[k]
      /\ UNCHANGED <<record, inputs, files, book, removing, active, queue, run, unreported, boot, todo, request>>
  BY <1>0 DEF Analyses!Turn, Analyses!Keeps, Analyses!Shaped
<1>w. run[j].at \notin {"none", "done"}
  BY <1>e
<1>1. ASSUME NEW k \in Takeoffs, k # j PROVE Analyses!JobInv(k)'
  <2>1. Unmoved(k) /\ boot' = boot
    BY <1>0, <1>1, <1>e DEF Unmoved, Analyses!Queued, Analyses!Shaped
  <2>. QED BY <2>1, Frame DEF Analyses!ProcessorInv
<1>2. Analyses!JobInv(j)'
  <2>. USE <1>0, <1>e, <1>w DEF Analyses!JobInv, Analyses!Exists, Analyses!HasStatus, Analyses!Terminal, Analyses!Open, Analyses!Blank
  <2>1. Analyses!Requested(j)' BY AtWork DEF Analyses!Requested, Analyses!Expected
  <2>2. Analyses!Placed(j)' BY AtWork DEF Analyses!Placed, Analyses!Queued
  <2>3. Analyses!Remembered(j)' BY AtWork DEF Analyses!Remembered, Analyses!Placed
  <2>4. Analyses!Flagged(j)' BY AtWork DEF Analyses!Flagged
  <2>5. Analyses!Paid(j)' BY AtWork DEF Analyses!Paid, Analyses!UsageFromEvents, Analyses!Flagged
  <2>6. Analyses!Booked(j)' BY AtWork DEF Analyses!Booked, Analyses!Flagged, Analyses!Expected
  <2>7. Analyses!Built(j)' BY AtWork DEF Analyses!Built, Analyses!Workbook, Analyses!Booked, Analyses!Expected
  <2>. QED BY <2>1, <2>2, <2>3, <2>4, <2>5, <2>6, <2>7 DEF Analyses!JobInv
<1>. QED BY <1>1, <1>2

\* The record of a completed job lists the files there are, with the usage of its turns.
LEMMA FinishKeeps ==
  ASSUME Analyses!ProcessorInv, NEW j \in Takeoffs, Analyses!Finish(j)
  PROVE  \A k \in Takeoffs : Analyses!JobInv(k)'
<1>0. Analyses!Shaped /\ Analyses!JobInv(j)
  BY DEF Analyses!ProcessorInv
<1>e. /\ run[j].at = "finish"
      /\ record'[j] # None /\ record'[j].status = "completed" /\ record'[j].artifacts = files[j]
      /\ record'[j].usage = (IF run[j].replay THEN None ELSE run[j].usage)
      /\ \A k \in Takeoffs : k # j => record'[k] = record[k] /\ run'[k] = run[k]
      /\ run'[j].at = "done" /\ run'[j].replay = run[j].replay
      /\ run'[j].book = run[j].book /\ run'[j].usage = run[j].usage
      /\ UNCHANGED <<inputs, files, book, events, removing, active, queue, unreported, boot, todo, request>>
  <2>1. /\ [status |-> "completed", artifacts |-> files[j], code |-> None,
            usage |-> IF run[j].replay THEN None ELSE run[j].usage] \in Analyses!Records
    BY <1>0 DEF Analyses!Shaped, Analyses!Records, Analyses!Runs
  <2>. QED BY <1>0, <2>1, Goes, Saves, AnalysesAssumed
           DEF Analyses!Finish, Analyses!Keeps, Analyses!ProcessorAssumption
<1>w. run[j].at \notin {"none", "done"}
  BY <1>e
<1>1. ASSUME NEW k \in Takeoffs, k # j PROVE Analyses!JobInv(k)'
  <2>1. Unmoved(k) /\ boot' = boot
    BY <1>0, <1>1, <1>e DEF Unmoved, Analyses!Queued, Analyses!Shaped
  <2>. QED BY <2>1, Frame DEF Analyses!ProcessorInv
<1>2. Analyses!JobInv(j)'
  <2>. USE <1>0, <1>e, <1>w DEF Analyses!JobInv, Analyses!Exists, Analyses!HasStatus, Analyses!Terminal, Analyses!Open, Analyses!Blank
  <2>1. Analyses!Requested(j)' BY AtWork DEF Analyses!Requested, Analyses!Expected
  <2>2. Analyses!Placed(j)' BY AtWork DEF Analyses!Placed, Analyses!Queued
  <2>3. Analyses!Remembered(j)' BY AtWork DEF Analyses!Remembered, Analyses!Placed
  <2>4. Analyses!Flagged(j)' BY AtWork DEF Analyses!Flagged
  <2>5. Analyses!Paid(j)' BY AtWork DEF Analyses!Paid, Analyses!UsageFromEvents, Analyses!Flagged
  <2>6. Analyses!Booked(j)' BY AtWork, AnalysesAssumed DEF Analyses!Booked, Analyses!Flagged, Analyses!Expected, Analyses!Canonical, Analyses!ProcessorAssumption, Analyses!Books, Analyses!Artifacts
  <2>7. Analyses!Built(j)' BY AtWork, AnalysesAssumed DEF Analyses!Built, Analyses!Workbook, Analyses!Booked, Analyses!Expected, Analyses!Canonical, Analyses!ProcessorAssumption, Analyses!Books, Analyses!Artifacts
  <2>. QED BY <2>1, <2>2, <2>3, <2>4, <2>5, <2>6, <2>7 DEF Analyses!JobInv
<1>. QED BY <1>1, <1>2

\* The record of a failed job has the usage of its turns.
LEMMA ReportFailureKeeps ==
  ASSUME Analyses!ProcessorInv, NEW j \in Takeoffs, Analyses!ReportFailure(j)
  PROVE  \A k \in Takeoffs : Analyses!JobInv(k)'
<1>0. Analyses!Shaped /\ Analyses!JobInv(j)
  BY DEF Analyses!ProcessorInv
<1>a. run[j].at = "report" /\ record[j] \in Analyses!Records /\ run[j].usage \in Nat \cup {None} /\ events[j] \in Nat
  BY <1>0
  DEF Analyses!ReportFailure, Analyses!JobInv, Analyses!Placed, Analyses!Open, Analyses!HasStatus,
      Analyses!Exists, Analyses!Shaped, Analyses!Runs
<1>b. /\ record'[j] # None /\ record'[j].status = "failed"
      /\ record'[j].usage = IF ~run[j].replay /\ run[j].usage = None THEN Analyses!UsageFromEvents(j) ELSE run[j].usage
      /\ \A k \in Takeoffs : k # j => record'[k] = record[k]
  <2>1. (IF ~run[j].replay /\ run[j].usage = None THEN Analyses!UsageFromEvents(j) ELSE run[j].usage) \in Nat \cup {None}
    BY <1>a DEF Analyses!UsageFromEvents
  <2>. PICK u \in Nat \cup {None} : u = IF ~run[j].replay /\ run[j].usage = None THEN Analyses!UsageFromEvents(j) ELSE run[j].usage
    BY <2>1
  <2>. PICK r \in Analyses!Records : r = record[j]
    BY <1>a
  <2>. PICK c \in {"processing_failed", "processor_restarted"} : c = "processing_failed"
    OBVIOUS
  <2>. PICK s : s = [r EXCEPT !.status = "failed", !.code = c, !.usage = u]
    OBVIOUS
  <2>2. Analyses!Save(j, s)
    BY DEF Analyses!ReportFailure
  <2>3. s \in Analyses!Records /\ s.status = "failed" /\ s.usage = u
    BY ONLY r \in Analyses!Records, c \in {"processing_failed", "processor_restarted"},
            u \in Nat \cup {None}, s = [r EXCEPT !.status = "failed", !.code = c, !.usage = u]
    DEF Analyses!Records
  <2>4. s # None
    BY <2>3, AnalysesAssumed DEF Analyses!ProcessorAssumption
  <2>. QED BY <1>0, <2>2, <2>3, <2>4, Saves
<1>e. /\ run[j].at = "report"
      /\ record'[j] # None /\ record'[j].status = "failed"
      /\ record'[j].usage = IF ~run[j].replay /\ run[j].usage = None THEN Analyses!UsageFromEvents(j) ELSE run[j].usage
      /\ \A k \in Takeoffs : k # j => record'[k] = record[k] /\ run'[k] = run[k]
      /\ run'[j].at = "done" /\ run'[j].replay = run[j].replay
      /\ run'[j].book = run[j].book /\ run'[j].usage = run[j].usage
      /\ UNCHANGED <<inputs, files, book, events, removing, active, queue, unreported, boot, todo, request>>
  BY <1>0, <1>a, <1>b, Goes DEF Analyses!ReportFailure, Analyses!Keeps
<1>w. run[j].at \notin {"none", "done"}
  BY <1>e
<1>1. ASSUME NEW k \in Takeoffs, k # j PROVE Analyses!JobInv(k)'
  <2>1. Unmoved(k) /\ boot' = boot
    BY <1>0, <1>1, <1>e DEF Unmoved, Analyses!Queued, Analyses!Shaped
  <2>. QED BY <2>1, Frame DEF Analyses!ProcessorInv
<1>2. Analyses!JobInv(j)'
  <2>. USE <1>0, <1>e, <1>w DEF Analyses!JobInv, Analyses!Exists, Analyses!HasStatus, Analyses!Terminal, Analyses!Open, Analyses!Blank
  <2>1. Analyses!Requested(j)' BY AtWork DEF Analyses!Requested, Analyses!Expected
  <2>2. Analyses!Placed(j)' BY AtWork DEF Analyses!Placed, Analyses!Queued
  <2>3. Analyses!Remembered(j)' BY AtWork DEF Analyses!Remembered, Analyses!Placed
  <2>4. Analyses!Flagged(j)' BY AtWork DEF Analyses!Flagged
  <2>5. Analyses!Paid(j)' BY AtWork DEF Analyses!Paid, Analyses!UsageFromEvents, Analyses!Flagged
  <2>6. Analyses!Booked(j)' BY AtWork DEF Analyses!Booked, Analyses!Flagged, Analyses!Expected
  <2>7. Analyses!Built(j)' BY AtWork DEF Analyses!Built, Analyses!Workbook, Analyses!Booked, Analyses!Expected
  <2>. QED BY <2>1, <2>2, <2>3, <2>4, <2>5, <2>6, <2>7 DEF Analyses!JobInv
<1>. QED BY <1>1, <1>2

\* A job whose failure could not be written is among the unreported.
LEMMA LoseReportKeeps ==
  ASSUME Analyses!ProcessorInv, NEW j \in Takeoffs, Analyses!LoseReport(j)
  PROVE  \A k \in Takeoffs : Analyses!JobInv(k)'
<1>0. Analyses!Shaped /\ Analyses!JobInv(j)
  BY DEF Analyses!ProcessorInv
<1>e. /\ run[j].at \in {"diagnose", "report"}
      /\ \A k \in Takeoffs : k # j => run'[k] = run[k]
      /\ run'[j].at = "done" /\ run'[j].replay = run[j].replay
      /\ run'[j].book = run[j].book /\ run'[j].usage = run[j].usage
      /\ unreported' = unreported \cup {j}
      /\ UNCHANGED <<record, inputs, files, book, events, removing, active, queue, boot, todo, request>>
  BY <1>0, Goes DEF Analyses!LoseReport, Analyses!Keeps, Analyses!disk
<1>w. run[j].at \notin {"none", "done"}
  BY <1>e
<1>1. ASSUME NEW k \in Takeoffs, k # j PROVE Analyses!JobInv(k)'
  <2>1. Unmoved(k) /\ boot' = boot
    BY <1>0, <1>1, <1>e DEF Unmoved, Analyses!Queued, Analyses!Shaped
  <2>. QED BY <2>1, Frame DEF Analyses!ProcessorInv
<1>2. Analyses!JobInv(j)'
  <2>. USE <1>0, <1>e, <1>w DEF Analyses!JobInv, Analyses!Exists, Analyses!HasStatus, Analyses!Terminal, Analyses!Open, Analyses!Blank
  <2>1. Analyses!Requested(j)' BY AtWork DEF Analyses!Requested, Analyses!Expected
  <2>2. Analyses!Placed(j)' BY AtWork DEF Analyses!Placed, Analyses!Queued
  <2>3. Analyses!Remembered(j)' BY AtWork DEF Analyses!Remembered, Analyses!Placed
  <2>4. Analyses!Flagged(j)' BY AtWork DEF Analyses!Flagged
  <2>5. Analyses!Paid(j)' BY AtWork DEF Analyses!Paid, Analyses!UsageFromEvents, Analyses!Flagged
  <2>6. Analyses!Booked(j)' BY AtWork DEF Analyses!Booked, Analyses!Flagged, Analyses!Expected
  <2>7. Analyses!Built(j)' BY AtWork DEF Analyses!Built, Analyses!Workbook, Analyses!Booked, Analyses!Expected
  <2>. QED BY <2>1, <2>2, <2>3, <2>4, <2>5, <2>6, <2>7 DEF Analyses!JobInv
<1>. QED BY <1>1, <1>2

\* A job leaves the set of active jobs with its end, or unreported.
LEMMA DiscardKeeps ==
  ASSUME Analyses!ProcessorInv, NEW j \in Takeoffs, Analyses!Discard(j)
  PROVE  \A k \in Takeoffs : Analyses!JobInv(k)'
<1>0. Analyses!Shaped /\ Analyses!JobInv(j)
  BY DEF Analyses!ProcessorInv
<1>e. /\ run[j].at = "done" /\ run'[j].at = "none" /\ run'[j].usage = None
      /\ \A k \in Takeoffs : k # j => run'[k] = run[k]
      /\ active' = active \ {j}
      /\ UNCHANGED <<record, inputs, files, book, events, removing, queue, unreported, boot, todo, request>>
  BY <1>0 DEF Analyses!Discard, Analyses!Keeps, Analyses!Shaped, Analyses!IdleRun, Analyses!disk
<1>1. ASSUME NEW k \in Takeoffs, k # j PROVE Analyses!JobInv(k)'
  <2>1. Unmoved(k) /\ boot' = boot
    BY <1>0, <1>1, <1>e DEF Unmoved, Analyses!Queued, Analyses!Shaped
  <2>. QED BY <2>1, Frame DEF Analyses!ProcessorInv
<1>2. Analyses!JobInv(j)'
  <2>. USE <1>0, <1>e DEF Analyses!JobInv, Analyses!Exists, Analyses!HasStatus, Analyses!Terminal, Analyses!Open, Analyses!Blank
  <2>1. Analyses!Requested(j)' BY DEF Analyses!Requested, Analyses!Expected
  <2>2. Analyses!Placed(j)' BY DEF Analyses!Placed, Analyses!Queued
  <2>3. Analyses!Remembered(j)' BY DEF Analyses!Remembered, Analyses!Placed
  <2>4. Analyses!Flagged(j)' BY DEF Analyses!Flagged
  <2>5. Analyses!Paid(j)' BY DEF Analyses!Paid, Analyses!UsageFromEvents, Analyses!Flagged
  <2>6. Analyses!Booked(j)' BY DEF Analyses!Booked, Analyses!Flagged, Analyses!Expected
  <2>7. Analyses!Built(j)' BY DEF Analyses!Built, Analyses!Workbook, Analyses!Booked, Analyses!Expected
  <2>. QED BY <2>1, <2>2, <2>3, <2>4, <2>5, <2>6, <2>7 DEF Analyses!JobInv
<1>. QED BY <1>1, <1>2

\* A job that is not active neither waits nor runs.
LEMMA AtRest ==
  ASSUME NEW j \in Takeoffs, Analyses!Booted, Analyses!JobInv(j), request[j] \in {"none", "saving"} \/ Analyses!Terminal(j), j \in active => boot \in {"down", "cleanup"}
  PROVE  j \notin active /\ j \notin todo /\ ~Analyses!Queued(j) /\ run[j].at = "none"
BY DEF Analyses!Booted, Analyses!JobInv, Analyses!Requested, Analyses!Placed, Analyses!Open,
       Analyses!Terminal, Analyses!HasStatus, Analyses!Exists

\* Of a job that was removed nothing is left.
LEMMA Wiped ==
  ASSUME NEW j \in Takeoffs, Analyses!Booted, Analyses!JobInv(j), Analyses!Shaped, Analyses!Wipe(j),
         request[j] \in {"none", "saving"} \/ Analyses!Terminal(j), j \in active => boot \in {"down", "cleanup"},
         boot' = boot, request'[j] \in {request[j], "refused"}, request'[j] \in {"answered", "refused"},
         \A k \in Takeoffs : k # j => request'[k] = request[k],
         UNCHANGED <<todo, active, queue, run, unreported>>, \A k \in Takeoffs : Analyses!JobInv(k)
  PROVE  \A k \in Takeoffs : Analyses!JobInv(k)'
<1>a. j \notin active /\ j \notin todo /\ ~Analyses!Queued(j) /\ run[j].at = "none"
  BY AtRest
<1>e. /\ record'[j] = None /\ inputs'[j] = {} /\ files'[j] = {} /\ book'[j] = None /\ events'[j] = 0
      /\ j \notin removing'
      /\ \A k \in Takeoffs : k # j =>
           /\ record'[k] = record[k] /\ inputs'[k] = inputs[k] /\ files'[k] = files[k]
           /\ book'[k] = book[k] /\ events'[k] = events[k] /\ (k \in removing' <=> k \in removing)
  BY DEF Analyses!Wipe, Analyses!Shaped
<1>1. ASSUME NEW k \in Takeoffs, k # j PROVE Analyses!JobInv(k)'
  <2>1. Unmoved(k)
    BY <1>1, <1>e DEF Unmoved, Analyses!Queued
  <2>. QED BY <2>1, Frame
<1>2. Analyses!JobInv(j)'
  <2>. USE <1>a, <1>e DEF Analyses!JobInv, Analyses!Exists, Analyses!HasStatus, Analyses!Terminal, Analyses!Open, Analyses!Blank
  <2>1. Analyses!Requested(j)' BY DEF Analyses!Requested
  <2>2. Analyses!Placed(j)' BY DEF Analyses!Placed, Analyses!Queued
  <2>3. Analyses!Remembered(j)' BY DEF Analyses!Remembered
  <2>4. Analyses!Flagged(j)' BY DEF Analyses!Flagged
  <2>5. Analyses!Paid(j)' BY DEF Analyses!Paid
  <2>6. Analyses!Booked(j)' BY DEF Analyses!Booked
  <2>7. Analyses!Built(j)' BY DEF Analyses!Built
  <2>. QED BY <2>1, <2>2, <2>3, <2>4, <2>5, <2>6, <2>7 DEF Analyses!JobInv
<1>. QED BY <1>1, <1>2

\* Part of a directory is gone, its record is left.
LEMMA PartlyRemoved ==
  ASSUME NEW j \in Takeoffs, Analyses!Booted, Analyses!Shaped, \A k \in Takeoffs : Analyses!JobInv(k), Analyses!Terminal(j),
         j \in active => boot \in {"down", "cleanup"}, boot' \in {boot, "stopping"}, boot = "up" => boot' = boot,
         files' = [files EXCEPT ![j] = {}], removing' = removing \cup {j},
         UNCHANGED <<record, inputs, book, events, request, todo, active, queue, run, unreported>>
  PROVE  \A k \in Takeoffs : Analyses!JobInv(k)'
<1>a. j \notin active /\ j \notin todo /\ ~Analyses!Queued(j) /\ run[j].at = "none"
  BY AtRest
<1>e. files'[j] = {} /\ \A k \in Takeoffs : k # j => files'[k] = files[k] /\ (k \in removing' <=> k \in removing)
  BY DEF Analyses!Shaped
<1>. TAKE k \in Takeoffs
<1>. USE <1>a, <1>e DEF Analyses!JobInv, Analyses!Exists, Analyses!HasStatus, Analyses!Terminal, Analyses!Open, Analyses!Blank
<1>1. Analyses!Requested(k)' BY DEF Analyses!Requested, Analyses!Expected
<1>2. Analyses!Placed(k)' BY DEF Analyses!Placed, Analyses!Queued
<1>3. Analyses!Remembered(k)' BY DEF Analyses!Remembered
<1>4. Analyses!Flagged(k)' BY DEF Analyses!Flagged
<1>5. Analyses!Paid(k)' BY DEF Analyses!Paid, Analyses!UsageFromEvents
<1>6. Analyses!Booked(k)' BY DEF Analyses!Booked
<1>7. Analyses!Built(k)' BY DEF Analyses!Built, Analyses!Workbook
<1>. QED BY <1>1, <1>2, <1>3, <1>4, <1>5, <1>6, <1>7 DEF Analyses!JobInv

\* Only jobs with an end are removed.
LEMMA RemoveKeeps ==
  ASSUME Analyses!ProcessorInv, NEW j \in Takeoffs, Analyses!CleanupExpired(j) \/ Analyses!Delete(j)
  PROVE  \A k \in Takeoffs : Analyses!JobInv(k)'
<1>0. /\ Analyses!Shaped /\ Analyses!Booted /\ Analyses!JobInv(j) /\ (\A k \in Takeoffs : Analyses!JobInv(k)) /\ Analyses!Terminal(j)
      /\ j \in active => boot \in {"down", "cleanup"}
      /\ request[j] \in {"answered", "refused"}
      /\ UNCHANGED <<todo, request, active, queue, run, unreported>>
  BY DEF Analyses!ProcessorInv, Analyses!JobInv, Analyses!Requested, Analyses!CleanupExpired,
         Analyses!Delete, Analyses!memory, Analyses!Shaped, Analyses!Terminal, Analyses!Open,
         Analyses!HasStatus, Analyses!Exists
<1>1. CASE Analyses!Wipe(j) /\ boot' = boot
  BY <1>0, <1>1, Wiped
<1>2. CASE ~(Analyses!Wipe(j) /\ boot' = boot)
  <2>1. /\ files' = [files EXCEPT ![j] = {}] /\ removing' = removing \cup {j}
        /\ boot' \in {boot, "stopping"} /\ (boot = "up" => boot' = boot)
        /\ UNCHANGED <<record, inputs, book, events>>
    BY <1>2 DEF Analyses!CleanupExpired, Analyses!Delete, Analyses!Remove
  <2>. QED BY <1>0, <2>1, PartlyRemoved
<1>. QED BY <1>1, <1>2

\* A new job has nothing but its record.
LEMMA CreateKeeps ==
  ASSUME Analyses!ProcessorInv, NEW j \in Takeoffs, Analyses!Create(j)
  PROVE  \A k \in Takeoffs : Analyses!JobInv(k)'
<1>0. Analyses!Shaped /\ Analyses!Booted /\ Analyses!JobInv(j)
  BY DEF Analyses!ProcessorInv
<1>a. j \notin active /\ j \notin todo /\ ~Analyses!Queued(j) /\ run[j].at = "none"
  BY <1>0, AtRest DEF Analyses!Create, Analyses!Booted, Analyses!JobInv, Analyses!Requested
<1>b. [status |-> "queued", usage |-> None, artifacts |-> {}, code |-> None] \in Analyses!Records
  BY DEF Analyses!Records
<1>e. /\ boot = "up" /\ request[j] = "none" /\ request'[j] = "saving"
      /\ record'[j] # None /\ record'[j].status = "queued" /\ record'[j].usage = None
      /\ \A k \in Takeoffs : k # j => record'[k] = record[k] /\ request'[k] = request[k]
      /\ UNCHANGED <<inputs, files, book, events, removing, boot, todo, active, queue, run, unreported>>
  BY <1>0, <1>b, Saves, AnalysesAssumed DEF Analyses!Create, Analyses!ProcessorAssumption, Analyses!Shaped
<1>1. ASSUME NEW k \in Takeoffs, k # j PROVE Analyses!JobInv(k)'
  <2>1. Unmoved(k) /\ boot' = boot
    BY <1>0, <1>1, <1>a, <1>e DEF Unmoved, Analyses!Queued, Analyses!Shaped
  <2>. QED BY <2>1, Frame DEF Analyses!ProcessorInv
<1>2. Analyses!JobInv(j)'
  <2>. USE <1>0, <1>a, <1>e DEF Analyses!JobInv, Analyses!Exists, Analyses!HasStatus, Analyses!Terminal, Analyses!Open, Analyses!Blank
  <2>1. Analyses!Requested(j)' BY DEF Analyses!Requested, Analyses!Expected
  <2>2. Analyses!Placed(j)' BY DEF Analyses!Placed, Analyses!Queued
  <2>3. Analyses!Remembered(j)' BY DEF Analyses!Remembered, Analyses!Placed
  <2>4. Analyses!Flagged(j)' BY DEF Analyses!Flagged
  <2>5. Analyses!Paid(j)' BY DEF Analyses!Paid, Analyses!UsageFromEvents, Analyses!Flagged
  <2>6. Analyses!Booked(j)' BY DEF Analyses!Booked, Analyses!Flagged, Analyses!Expected
  <2>7. Analyses!Built(j)' BY DEF Analyses!Built, Analyses!Workbook, Analyses!Booked, Analyses!Expected
  <2>. QED BY <2>1, <2>2, <2>3, <2>4, <2>5, <2>6, <2>7 DEF Analyses!JobInv
<1>. QED BY <1>1, <1>2

\* An upload adds to the inputs of a job that is being received.
LEMMA OpenUploadKeeps ==
  ASSUME Analyses!ProcessorInv, NEW j \in Takeoffs, Analyses!OpenUpload(j)
  PROVE  \A k \in Takeoffs : Analyses!JobInv(k)'
<1>0. Analyses!Shaped /\ Analyses!JobInv(j)
  BY DEF Analyses!ProcessorInv
<1>a. j \notin active /\ j \notin todo /\ ~Analyses!Queued(j) /\ run[j].at = "none"
  BY AtRest
  DEF Analyses!ProcessorInv, Analyses!OpenUpload, Analyses!Booted, Analyses!JobInv, Analyses!Requested
<1>e. /\ request[j] = "saving"
      /\ \A k \in Takeoffs : k # j => inputs'[k] = inputs[k]
      /\ UNCHANGED <<record, files, book, events, removing, boot, todo, active, queue, run, unreported, request>>
  BY <1>0 DEF Analyses!OpenUpload, Analyses!Shaped, Analyses!memory
<1>1. ASSUME NEW k \in Takeoffs, k # j PROVE Analyses!JobInv(k)'
  <2>1. Unmoved(k) /\ boot' = boot
    BY <1>0, <1>1, <1>a, <1>e DEF Unmoved, Analyses!Queued, Analyses!Shaped
  <2>. QED BY <2>1, Frame DEF Analyses!ProcessorInv
<1>2. Analyses!JobInv(j)'
  <2>. USE <1>0, <1>a, <1>e DEF Analyses!JobInv, Analyses!Exists, Analyses!HasStatus, Analyses!Terminal, Analyses!Open, Analyses!Blank
  <2>1. Analyses!Requested(j)' BY DEF Analyses!Requested, Analyses!Expected
  <2>2. Analyses!Placed(j)' BY DEF Analyses!Placed, Analyses!Queued
  <2>3. Analyses!Remembered(j)' BY DEF Analyses!Remembered, Analyses!Placed
  <2>4. Analyses!Flagged(j)' BY DEF Analyses!Flagged
  <2>5. Analyses!Paid(j)' BY DEF Analyses!Paid, Analyses!UsageFromEvents, Analyses!Flagged, Analyses!Requested
  <2>6. Analyses!Booked(j)' BY DEF Analyses!Booked, Analyses!Flagged, Analyses!Expected, Analyses!Requested, Analyses!Placed
  <2>7. Analyses!Built(j)' BY DEF Analyses!Built, Analyses!Workbook, Analyses!Booked, Analyses!Expected, Analyses!Requested, Analyses!Placed
  <2>. QED BY <2>1, <2>2, <2>3, <2>4, <2>5, <2>6, <2>7 DEF Analyses!JobInv
<1>. QED BY <1>1, <1>2

\* The end of an upload concerns no other part.
LEMMA CloseUploadKeeps ==
  ASSUME Analyses!ProcessorInv, NEW j \in Takeoffs, Analyses!CloseUpload(j)
  PROVE  \A k \in Takeoffs : Analyses!JobInv(k)'
<1>. TAKE k \in Takeoffs
<1>1. Unmoved(k) /\ boot' = boot
  BY DEF Analyses!CloseUpload, Unmoved, Analyses!Queued, Analyses!memory
<1>. QED BY <1>1, Frame DEF Analyses!ProcessorInv

\* A request that is refused leaves nothing, or is unreported.
LEMMA RejectKeeps ==
  ASSUME Analyses!ProcessorInv, NEW j \in Takeoffs, Analyses!Reject(j)
  PROVE  \A k \in Takeoffs : Analyses!JobInv(k)'
<1>0. /\ Analyses!Shaped /\ Analyses!Booted /\ Analyses!JobInv(j) /\ (\A k \in Takeoffs : Analyses!JobInv(k))
      /\ request[j] = "saving" /\ boot = "up" /\ request'[j] = "refused"
      /\ \A k \in Takeoffs : k # j => request'[k] = request[k]
      /\ UNCHANGED <<boot, todo, active, queue, run>>
  BY DEF Analyses!ProcessorInv, Analyses!JobInv, Analyses!Requested, Analyses!Reject, Analyses!Shaped
<1>a. j \notin active /\ j \notin todo /\ ~Analyses!Queued(j) /\ run[j].at = "none"
  BY <1>0, AtRest DEF Analyses!JobInv, Analyses!Requested
<1>1. CASE Analyses!Wipe(j) /\ UNCHANGED unreported
  BY <1>0, <1>a, <1>1, Wiped
<1>2. CASE unreported' = unreported \cup {j} /\ UNCHANGED Analyses!disk
  <2>. TAKE k \in Takeoffs
  <2>e. /\ k # j => request'[k] = request[k]
        /\ UNCHANGED <<record, inputs, files, book, events, removing>>
    BY <1>0, <1>2 DEF Analyses!disk
  <2>1. CASE k # j
    <3>1. Unmoved(k)
      BY <1>0, <1>2, <2>1, <2>e DEF Unmoved, Analyses!Queued
    <3>. QED BY <1>0, <3>1, Frame
  <2>2. CASE k = j
    <3>. USE <1>0, <1>2, <1>a, <2>e, <2>2 DEF Analyses!JobInv, Analyses!Exists, Analyses!HasStatus, Analyses!Terminal, Analyses!Open, Analyses!Blank
    <3>1. Analyses!Requested(j)' BY DEF Analyses!Requested
    <3>2. Analyses!Placed(j)' BY DEF Analyses!Placed, Analyses!Queued
    <3>3. Analyses!Remembered(j)' BY DEF Analyses!Remembered
    <3>4. Analyses!Flagged(j)' BY DEF Analyses!Flagged
    <3>5. Analyses!Paid(j)' BY DEF Analyses!Paid, Analyses!UsageFromEvents
    <3>6. Analyses!Booked(j)' BY DEF Analyses!Booked
    <3>7. Analyses!Built(j)' BY DEF Analyses!Built, Analyses!Requested
    <3>. QED BY <3>1, <3>2, <3>3, <3>4, <3>5, <3>6, <3>7 DEF Analyses!JobInv
  <2>. QED BY <2>1, <2>2
<1>. QED BY <1>1, <1>2 DEF Analyses!Reject

\* Waiting for a thread, at the end of the line.
LEMMA Appended ==
  ASSUME Analyses!Shaped, NEW j \in Takeoffs, queue' = Append(queue, j)
  PROVE  /\ \A k \in Takeoffs : Analyses!Queued(k)' <=> (Analyses!Queued(k) \/ k = j)
         /\ ~Analyses!Queued(j) /\ (\A i, k \in DOMAIN queue : queue[i] = queue[k] => i = k) =>
              \A i, k \in DOMAIN queue' : queue'[i] = queue'[k] => i = k
<1>. queue \in Seq(Takeoffs) /\ Len(queue') = Len(queue) + 1 /\ queue' \in Seq(Takeoffs)
  BY DEF Analyses!Shaped
<1>1. /\ DOMAIN queue = 1..Len(queue) /\ DOMAIN queue' = 1..(Len(queue) + 1) /\ Len(queue) \in Nat
      /\ \A i \in 1..Len(queue) : queue'[i] = queue[i]
      /\ queue'[Len(queue) + 1] = j
  OBVIOUS
<1>2. ASSUME NEW k \in Takeoffs PROVE Analyses!Queued(k)' <=> (Analyses!Queued(k) \/ k = j)
  BY <1>1 DEF Analyses!Queued
<1>3. ASSUME ~Analyses!Queued(j), \A i, k \in DOMAIN queue : queue[i] = queue[k] => i = k,
             NEW i \in DOMAIN queue', NEW k \in DOMAIN queue', queue'[i] = queue'[k]
      PROVE  i = k
  BY <1>1, <1>3 DEF Analyses!Queued
<1>. QED BY <1>2, <1>3

\* A job that is submitted has all inputs of its request, and its run knows which.
LEMMA SubmitKeeps ==
  ASSUME Analyses!ProcessorInv, NEW j \in Takeoffs, Analyses!Submit(j)
  PROVE  \A k \in Takeoffs : Analyses!JobInv(k)'
<1>0. Analyses!Shaped /\ Analyses!JobInv(j)
  BY DEF Analyses!ProcessorInv
<1>a. j \notin active /\ j \notin todo /\ ~Analyses!Queued(j) /\ run[j].at = "none"
  BY AtRest DEF Analyses!ProcessorInv, Analyses!Submit, Analyses!Booted, Analyses!JobInv, Analyses!Requested
<1>e. /\ request[j] = "saving" /\ request'[j] = "answered" /\ inputs[j] = Analyses!Expected(j)
      /\ \A k \in Takeoffs : k # j => request'[k] = request[k] /\ run'[k] = run[k]
      /\ run'[j].at = "none" /\ run'[j].usage = None
      /\ run'[j].replay <=> "replay" \in inputs[j]
      /\ run'[j].book <=> "workbook" \in inputs[j]
      /\ active' = active \cup {j} /\ \A k \in Takeoffs : Analyses!Queued(k)' <=> (Analyses!Queued(k) \/ k = j)
      /\ UNCHANGED <<record, inputs, files, book, events, removing, boot, todo, unreported>>
  BY <1>0, Appended DEF Analyses!Submit, Analyses!Enqueue, Analyses!Shaped, Analyses!IdleRun, Analyses!disk
<1>f. "workbook" \in inputs[j] => "replay" \in inputs[j]
  BY <1>e, AnalysesAssumed DEF Analyses!Expected, Analyses!ProcessorAssumption
<1>1. ASSUME NEW k \in Takeoffs, k # j PROVE Analyses!JobInv(k)'
  <2>1. Unmoved(k) /\ boot' = boot
    BY <1>0, <1>1, <1>a, <1>e, <1>f DEF Unmoved, Analyses!Queued, Analyses!Shaped
  <2>. QED BY <2>1, Frame DEF Analyses!ProcessorInv
<1>2. Analyses!JobInv(j)'
  <2>. USE <1>0, <1>a, <1>e, <1>f DEF Analyses!JobInv, Analyses!Exists, Analyses!HasStatus, Analyses!Terminal, Analyses!Open, Analyses!Blank
  <2>1. Analyses!Requested(j)' BY DEF Analyses!Requested, Analyses!Expected
  <2>2. Analyses!Placed(j)' BY DEF Analyses!Placed, Analyses!Queued, Analyses!Requested
  <2>3. Analyses!Remembered(j)' BY DEF Analyses!Remembered, Analyses!Placed
  <2>4. Analyses!Flagged(j)' BY DEF Analyses!Flagged
  <2>5. Analyses!Paid(j)' BY DEF Analyses!Paid, Analyses!UsageFromEvents, Analyses!Flagged
  <2>6. Analyses!Booked(j)' BY DEF Analyses!Booked, Analyses!Flagged, Analyses!Expected, Analyses!Requested
  <2>7. Analyses!Built(j)' BY DEF Analyses!Built, Analyses!Workbook, Analyses!Booked, Analyses!Expected, Analyses!Requested
  <2>. QED BY <2>1, <2>2, <2>3, <2>4, <2>5, <2>6, <2>7 DEF Analyses!JobInv
<1>. QED BY <1>1, <1>2

\* The recovery queues a replay again and fails an analysis with the usage of its turns.
LEMMA RecoverKeeps ==
  ASSUME Analyses!ProcessorInv, NEW j \in Takeoffs, Analyses!Recover(j)
  PROVE  \A k \in Takeoffs : Analyses!JobInv(k)'
<1>0. Analyses!Shaped /\ Analyses!JobInv(j)
  BY DEF Analyses!ProcessorInv
<1>a. /\ j \in todo /\ j \notin active /\ ~Analyses!Queued(j) /\ run[j].at = "none" /\ Analyses!Open(j)
      /\ record[j].usage = None /\ request[j] \in {"answered", "refused"} /\ j \notin removing
      /\ record[j] \in Analyses!Records /\ record[j] # None /\ events[j] \in Nat
      /\ boot = "recover" /\ boot' = boot /\ todo' = todo \ {j}
      /\ UNCHANGED <<inputs, files, book, events, removing, request, unreported>>
  BY <1>0
  DEF Analyses!Recover, Analyses!JobInv, Analyses!Requested, Analyses!Placed, Analyses!Paid, Analyses!Open,
      Analyses!Terminal, Analyses!HasStatus, Analyses!Exists, Analyses!Shaped
<1>1. CASE "replay" \in inputs[j]
  <2>. PICK r : r = [record[j] EXCEPT !.status = "queued", !.code = None]
    OBVIOUS
  <2>1. r # None /\ r.status = "queued" /\ r.usage = None
    BY <1>a, QueuedForm
  <2>2. Analyses!Save(j, r) /\ Analyses!Enqueue(j, TRUE, "workbook" \in inputs[j])
    BY <1>1 DEF Analyses!Recover, Analyses!RecoverReplay
  <2>e. /\ record'[j] # None /\ record'[j].status = "queued" /\ record'[j].usage = None
        /\ \A k \in Takeoffs : k # j => record'[k] = record[k] /\ run'[k] = run[k]
        /\ run'[j].at = "none" /\ run'[j].usage = None /\ run'[j].replay
        /\ run'[j].book <=> "workbook" \in inputs[j]
        /\ active' = active \cup {j} /\ \A k \in Takeoffs : Analyses!Queued(k)' <=> (Analyses!Queued(k) \/ k = j)
    <3>1. /\ record'[j] # None /\ record'[j].status = "queued" /\ record'[j].usage = None
          /\ \A k \in Takeoffs : k # j => record'[k] = record[k]
      BY <1>0, <2>1, <2>2, Saves
    <3>2. /\ \A k \in Takeoffs : k # j => run'[k] = run[k]
          /\ run'[j].at = "none" /\ run'[j].usage = None /\ run'[j].replay
          /\ run'[j].book <=> "workbook" \in inputs[j]
      BY <1>0, <2>2 DEF Analyses!Enqueue, Analyses!Shaped, Analyses!IdleRun
    <3>3. active' = active \cup {j} /\ \A k \in Takeoffs : Analyses!Queued(k)' <=> (Analyses!Queued(k) \/ k = j)
      BY <1>0, <2>2, Appended DEF Analyses!Enqueue
    <3>. QED BY <3>1, <3>2, <3>3
  <2>3. ASSUME NEW k \in Takeoffs, k # j PROVE Analyses!JobInv(k)'
    <3>1. Unmoved(k)
      BY <1>0, <1>a, <2>3, <2>e DEF Unmoved, Analyses!Queued
    <3>. QED BY <1>a, <3>1, Frame DEF Analyses!ProcessorInv
  <2>4. Analyses!JobInv(j)'
    <3>. USE <1>0, <1>a, <2>e, <1>1 DEF Analyses!JobInv, Analyses!Exists, Analyses!HasStatus, Analyses!Terminal, Analyses!Open, Analyses!Blank
    <3>1. Analyses!Requested(j)' BY DEF Analyses!Requested, Analyses!Expected
    <3>2. Analyses!Placed(j)' BY DEF Analyses!Placed, Analyses!Queued
    <3>3. Analyses!Remembered(j)' BY DEF Analyses!Remembered
    <3>4. Analyses!Flagged(j)' BY DEF Analyses!Flagged
    <3>5. Analyses!Paid(j)' BY DEF Analyses!Paid, Analyses!UsageFromEvents
    <3>6. Analyses!Booked(j)' BY DEF Analyses!Booked
    <3>7. Analyses!Built(j)' BY DEF Analyses!Built, Analyses!Workbook
    <3>. QED BY <3>1, <3>2, <3>3, <3>4, <3>5, <3>6, <3>7 DEF Analyses!JobInv
  <2>. QED BY <2>3, <2>4
<1>2. CASE "replay" \notin inputs[j]
  <2>. PICK u \in Nat \cup {None} : u = Analyses!UsageFromEvents(j)
    BY <1>a DEF Analyses!UsageFromEvents
  <2>. PICK c \in {"processing_failed", "processor_restarted"} : c = "processor_restarted"
    OBVIOUS
  <2>. PICK q \in Analyses!Records : q = record[j]
    BY <1>a
  <2>. PICK r : r = [q EXCEPT !.status = "failed", !.code = c, !.usage = u]
    OBVIOUS
  <2>1. r \in Analyses!Records /\ r.status = "failed" /\ r.usage = u
    BY ONLY q \in Analyses!Records, c \in {"processing_failed", "processor_restarted"},
            u \in Nat \cup {None}, r = [q EXCEPT !.status = "failed", !.code = c, !.usage = u]
    DEF Analyses!Records
  <2>2. Analyses!Save(j, r) /\ UNCHANGED <<active, queue, run>>
    BY <1>a, <1>2 DEF Analyses!Recover, Analyses!FailInterrupted
  <2>e. /\ record'[j] # None /\ record'[j].status = "failed" /\ record'[j].usage = Analyses!UsageFromEvents(j)
        /\ \A k \in Takeoffs : k # j => record'[k] = record[k]
        /\ UNCHANGED <<active, queue, run>>
    BY <1>0, <2>1, <2>2, Saves, AnalysesAssumed DEF Analyses!ProcessorAssumption
  <2>3. ASSUME NEW k \in Takeoffs, k # j PROVE Analyses!JobInv(k)'
    <3>1. Unmoved(k)
      BY <1>0, <1>a, <2>3, <2>e DEF Unmoved, Analyses!Queued
    <3>. QED BY <1>a, <3>1, Frame DEF Analyses!ProcessorInv
  <2>4. Analyses!JobInv(j)'
    <3>. USE <1>0, <1>a, <2>e, <1>2 DEF Analyses!JobInv, Analyses!Exists, Analyses!HasStatus, Analyses!Terminal, Analyses!Open, Analyses!Blank
    <3>1. Analyses!Requested(j)' BY DEF Analyses!Requested, Analyses!Expected
    <3>2. Analyses!Placed(j)' BY DEF Analyses!Placed, Analyses!Queued
    <3>3. Analyses!Remembered(j)' BY DEF Analyses!Remembered
    <3>4. Analyses!Flagged(j)' BY DEF Analyses!Flagged
    <3>5. Analyses!Paid(j)' BY DEF Analyses!Paid, Analyses!UsageFromEvents
    <3>6. Analyses!Booked(j)' BY DEF Analyses!Booked
    <3>7. Analyses!Built(j)' BY DEF Analyses!Built, Analyses!Workbook
    <3>. QED BY <3>1, <3>2, <3>3, <3>4, <3>5, <3>6, <3>7 DEF Analyses!JobInv
  <2>. QED BY <2>3, <2>4
<1>. QED BY <1>1, <1>2

\* Whatever happens to the process, the directories of the jobs stay.
LEMMA ForgetKeeps ==
  ASSUME Analyses!ProcessorInv, Analyses!Forget, UNCHANGED Analyses!disk
  PROVE  (\A k \in Takeoffs : Analyses!JobInv(k)')
<1>. TAKE k \in Takeoffs
<1>0. Analyses!JobInv(k) /\ Analyses!Shaped
  BY DEF Analyses!ProcessorInv
<1>e. /\ boot' = "down" /\ k \notin todo' /\ k \notin active' /\ ~Analyses!Queued(k)' /\ k \notin unreported'
      /\ run'[k].at = "none" /\ run'[k].usage = None
      /\ request'[k] = IF request[k] = "saving" THEN "refused" ELSE request[k]
      /\ UNCHANGED <<record, inputs, files, book, events, removing>>
  BY DEF Analyses!Forget, Analyses!disk, Analyses!IdleRun, Analyses!Queued
<1>. USE <1>0, <1>e DEF Analyses!JobInv, Analyses!Exists, Analyses!HasStatus, Analyses!Terminal, Analyses!Open, Analyses!Blank
<1>1. Analyses!Requested(k)' BY DEF Analyses!Requested, Analyses!Expected
<1>2. Analyses!Placed(k)' BY DEF Analyses!Placed
<1>3. Analyses!Remembered(k)' BY DEF Analyses!Remembered
<1>4. Analyses!Flagged(k)' BY DEF Analyses!Flagged
<1>5. Analyses!Paid(k)' BY DEF Analyses!Paid, Analyses!UsageFromEvents
<1>6. Analyses!Booked(k)' BY DEF Analyses!Booked, Analyses!Requested
<1>7. Analyses!Built(k)' BY DEF Analyses!Built, Analyses!Workbook, Analyses!Requested
<1>. QED BY <1>1, <1>2, <1>3, <1>4, <1>5, <1>6, <1>7 DEF Analyses!JobInv

\* The phases of the process
LEMMA PhaseKeeps ==
  ASSUME Analyses!ProcessorInv, Analyses!Boot \/ Analyses!ListPending \/ Analyses!RecoverFails \/ Analyses!Serve
  PROVE  (\A k \in Takeoffs : Analyses!JobInv(k)')
<1>. TAKE k \in Takeoffs
<1>0. Analyses!JobInv(k) /\ Analyses!Booted
  BY DEF Analyses!ProcessorInv
<1>e. /\ UNCHANGED <<record, inputs, files, book, events, removing, request, active, queue, run, unreported>>
      /\ \/ boot = "down" /\ boot' = "cleanup" /\ todo' = todo
         \/ boot = "cleanup" /\ boot' = "recover" /\ (k \in todo' <=> Analyses!Open(k)) /\ k \notin active
         \/ boot = "recover" /\ boot' = "stopping" /\ todo' = todo
         \/ boot = "recover" /\ boot' = "up" /\ todo' = todo /\ k \notin todo
  BY <1>0
  DEF Analyses!Boot, Analyses!ListPending, Analyses!RecoverFails, Analyses!Serve, Analyses!Pending,
      Analyses!disk, Analyses!memory, Analyses!Booted
<1>. USE <1>0, <1>e DEF Analyses!JobInv, Analyses!Exists, Analyses!HasStatus, Analyses!Terminal, Analyses!Open, Analyses!Blank
<1>1. Analyses!Requested(k)' BY DEF Analyses!Requested, Analyses!Expected
<1>2. Analyses!Placed(k)' BY DEF Analyses!Placed, Analyses!Queued
<1>3. Analyses!Remembered(k)' BY DEF Analyses!Remembered
<1>4. Analyses!Flagged(k)' BY DEF Analyses!Flagged
<1>5. Analyses!Paid(k)' BY DEF Analyses!Paid, Analyses!UsageFromEvents
<1>6. Analyses!Booked(k)' BY DEF Analyses!Booked
<1>7. Analyses!Built(k)' BY DEF Analyses!Built, Analyses!Workbook
<1>. QED BY <1>1, <1>2, <1>3, <1>4, <1>5, <1>6, <1>7 DEF Analyses!JobInv

\* The first in the line gets a thread.
LEMMA First ==
  ASSUME Analyses!Shaped, Analyses!Booted, queue # <<>>, queue' = Tail(queue)
  PROVE  /\ Head(queue) \in Takeoffs /\ Analyses!Queued(Head(queue))
         /\ \A k \in Takeoffs : Analyses!Queued(k)' <=> (Analyses!Queued(k) /\ k # Head(queue))
         /\ \A i, k \in DOMAIN queue' : queue'[i] = queue'[k] => i = k
<1>1. /\ queue \in Seq(Takeoffs) /\ Len(queue) \in Nat /\ Len(queue) > 0 /\ DOMAIN queue = 1..Len(queue)
      /\ Head(queue) = queue[1] /\ DOMAIN queue' = 1..(Len(queue) - 1)
      /\ \A i \in 1..(Len(queue) - 1) : queue'[i] = queue[i + 1]
  BY DEF Analyses!Shaped
<1>2. Head(queue) \in Takeoffs /\ Analyses!Queued(Head(queue))
  BY <1>1 DEF Analyses!Queued
<1>3. \A i, k \in 1..Len(queue) : queue[i] = queue[k] => i = k
  BY <1>1 DEF Analyses!Booted
<1>4. ASSUME NEW k \in Takeoffs, Analyses!Queued(k)' PROVE Analyses!Queued(k) /\ k # Head(queue)
  <2>. PICK i \in 1..(Len(queue) - 1) : queue[i + 1] = k
    BY <1>1, <1>4 DEF Analyses!Queued
  <2>1. i + 1 \in 1..Len(queue) /\ 1 \in 1..Len(queue) /\ i + 1 # 1
    BY <1>1
  <2>. QED BY <1>1, <1>3, <2>1 DEF Analyses!Queued
<1>5. ASSUME NEW k \in Takeoffs, Analyses!Queued(k), k # Head(queue) PROVE Analyses!Queued(k)'
  <2>. PICK i \in 1..Len(queue) : queue[i] = k
    BY <1>1, <1>5 DEF Analyses!Queued
  <2>1. i - 1 \in 1..(Len(queue) - 1) /\ (i - 1) + 1 = i
    BY <1>1, <1>5
  <2>. QED BY <1>1, <2>1 DEF Analyses!Queued
<1>6. ASSUME NEW i \in DOMAIN queue', NEW k \in DOMAIN queue', queue'[i] = queue'[k] PROVE i = k
  <2>1. i + 1 \in 1..Len(queue) /\ k + 1 \in 1..Len(queue) /\ i \in Nat /\ k \in Nat
    BY <1>1
  <2>2. queue[i + 1] = queue[k + 1]
    BY <1>1, <1>6
  <2>3. i + 1 = k + 1
    BY <1>3, <2>1, <2>2
  <2>. QED BY <2>1, <2>3
<1>. QED BY <1>2, <1>4, <1>5, <1>6

\* The job that gets a thread was waiting, and waits no more.
LEMMA DequeueKeeps ==
  ASSUME Analyses!ProcessorInv, Analyses!Dequeue
  PROVE  (\A k \in Takeoffs : Analyses!JobInv(k)')
<1>. PICK j \in Takeoffs : j = Head(queue)
  BY First DEF Analyses!ProcessorInv, Analyses!Dequeue
<1>0. /\ Analyses!Shaped /\ j \in Takeoffs /\ Analyses!JobInv(j) /\ Analyses!Queued(j)
      /\ \A k \in Takeoffs : Analyses!Queued(k)' <=> (Analyses!Queued(k) /\ k # j)
  BY First DEF Analyses!ProcessorInv, Analyses!Dequeue
<1>e. /\ run[j].at = "none" /\ j \in active /\ Analyses!Open(j)
      /\ \A k \in Takeoffs : k # j => run'[k] = run[k]
      /\ run'[j].at = "start" /\ run'[j].replay = run[j].replay
      /\ run'[j].book = run[j].book /\ run'[j].usage = run[j].usage
      /\ UNCHANGED <<record, inputs, files, book, events, removing, request, boot, todo, active, unreported>>
  BY <1>0, Goes DEF Analyses!Dequeue, Analyses!Keeps, Analyses!disk, Analyses!JobInv, Analyses!Placed
<1>1. ASSUME NEW k \in Takeoffs, k # j PROVE Analyses!JobInv(k)'
  <2>1. Unmoved(k)
    BY <1>0, <1>1, <1>e DEF Unmoved
  <2>. QED BY <1>e, <2>1, Frame DEF Analyses!ProcessorInv
<1>2. Analyses!JobInv(j)'
  <2>. USE <1>0, <1>e DEF Analyses!JobInv, Analyses!Exists, Analyses!HasStatus, Analyses!Terminal, Analyses!Open, Analyses!Blank
  <2>1. Analyses!Requested(j)' BY DEF Analyses!Requested, Analyses!Expected
  <2>2. Analyses!Placed(j)' BY DEF Analyses!Placed
  <2>3. Analyses!Remembered(j)' BY DEF Analyses!Remembered
  <2>4. Analyses!Flagged(j)' BY DEF Analyses!Flagged
  <2>5. Analyses!Paid(j)' BY DEF Analyses!Paid, Analyses!UsageFromEvents
  <2>6. Analyses!Booked(j)' BY DEF Analyses!Booked
  <2>7. Analyses!Built(j)' BY DEF Analyses!Built, Analyses!Workbook
  <2>. QED BY <2>1, <2>2, <2>3, <2>4, <2>5, <2>6, <2>7 DEF Analyses!JobInv
<1>. QED BY <1>1, <1>2

\* The next upload is one of the files that the request still lacks.
LEMMA UploadIsExpected ==
  ASSUME NEW j \in Takeoffs, Analyses!Expected(j) \ inputs[j] # {}
  PROVE  Analyses!NextUpload(j) \in Analyses!Expected(j)
<1>. DEFINE Missing == Analyses!Expected(j) \ inputs[j]
            Before(g) == CASE g = "drawings" -> 0 [] g = "template" -> 1 [] g = "replay" -> 2 [] g = "workbook" -> 3
<1>1. Missing \subseteq {"drawings", "template", "replay", "workbook"}
  BY AnalysesAssumed DEF Analyses!Expected, Analyses!ProcessorAssumption
<1>2. \E f \in Missing : \A g \in Missing : Before(f) <= Before(g)
  <2>1. CASE "drawings" \in Missing BY <1>1, <2>1
  <2>2. CASE "drawings" \notin Missing /\ "template" \in Missing BY <1>1, <2>2
  <2>3. CASE "drawings" \notin Missing /\ "template" \notin Missing /\ "replay" \in Missing BY <1>1, <2>3
  <2>4. CASE "drawings" \notin Missing /\ "template" \notin Missing /\ "replay" \notin Missing BY <1>1, <2>4
  <2>. QED BY <2>1, <2>2, <2>3, <2>4
<1>3. Analyses!NextUpload(j) \in Missing
  BY <1>2 DEF Analyses!NextUpload
<1>. QED BY <1>3

\* Every step writes records of their shape.
LEMMA RecordsShaped ==
  ASSUME Analyses!ProcessorInv, [Analyses!Next]_Analyses!vars
  PROVE  record' \in [Takeoffs -> Analyses!Records \cup {None}]
<1>. DEFINE G == record' \in [Takeoffs -> Analyses!Records \cup {None}]
<1>s. Analyses!Shaped /\ record \in [Takeoffs -> Analyses!Records \cup {None}]
  BY DEF Analyses!ProcessorInv, Analyses!Shaped
<1>0. ASSUME NEW j \in Takeoffs, NEW r \in Analyses!Records \cup {None}, Analyses!Save(j, r) PROVE G
  BY <1>s, <1>0 DEF Analyses!Save
<1>1. ASSUME NEW j \in Takeoffs, Analyses!Create(j) PROVE G
  <2>1. [status |-> "queued", usage |-> None, artifacts |-> {}, code |-> None] \in Analyses!Records
    BY DEF Analyses!Records
  <2>. QED BY <1>0, <1>1, <2>1 DEF Analyses!Create
<1>2. ASSUME NEW j \in Takeoffs, Analyses!Start(j) PROVE G
  <2>1. record[j] \in Analyses!Records
    BY <1>2
    DEF Analyses!ProcessorInv, Analyses!Shaped, Analyses!Start, Analyses!JobInv, Analyses!Placed,
        Analyses!Open, Analyses!HasStatus, Analyses!Exists
  <2>. PICK r : r = [record[j] EXCEPT !.status = "running", !.usage = None]
    OBVIOUS
  <2>2. r \in Analyses!Records
    BY <2>1, RunningForm
  <2>3. Analyses!Save(j, r)
    BY <1>2 DEF Analyses!Start
  <2>. QED BY <1>0, <2>2, <2>3
<1>3. ASSUME NEW j \in Takeoffs, Analyses!Finish(j) PROVE G
  <2>1. [status |-> "completed", artifacts |-> files[j], code |-> None,
         usage |-> IF run[j].replay THEN None ELSE run[j].usage] \in Analyses!Records
    BY <1>s DEF Analyses!Shaped, Analyses!Records, Analyses!Runs
  <2>. QED BY <1>0, <1>3, <2>1 DEF Analyses!Finish
<1>4. ASSUME NEW j \in Takeoffs, Analyses!ReportFailure(j) PROVE G
  <2>. PICK r \in Analyses!Records : r = record[j]
    BY <1>4
    DEF Analyses!ProcessorInv, Analyses!Shaped, Analyses!ReportFailure, Analyses!JobInv, Analyses!Placed,
        Analyses!Open, Analyses!HasStatus, Analyses!Exists
  <2>. PICK u \in Nat \cup {None} : u = IF ~run[j].replay /\ run[j].usage = None THEN Analyses!UsageFromEvents(j) ELSE run[j].usage
    BY <1>s DEF Analyses!Shaped, Analyses!Runs, Analyses!UsageFromEvents
  <2>. PICK c \in {"processing_failed", "processor_restarted"} : c = "processing_failed"
    OBVIOUS
  <2>. PICK s : s = [r EXCEPT !.status = "failed", !.code = c, !.usage = u]
    OBVIOUS
  <2>1. s \in Analyses!Records
    BY ONLY r \in Analyses!Records, c \in {"processing_failed", "processor_restarted"},
            u \in Nat \cup {None}, s = [r EXCEPT !.status = "failed", !.code = c, !.usage = u]
    DEF Analyses!Records
  <2>2. Analyses!Save(j, s)
    BY <1>4 DEF Analyses!ReportFailure
  <2>. QED BY <1>0, <2>1, <2>2
<1>5. ASSUME NEW j \in Takeoffs, Analyses!Recover(j) PROVE G
  <2>. PICK r \in Analyses!Records : r = record[j]
    BY <1>5
    DEF Analyses!ProcessorInv, Analyses!Shaped, Analyses!Recover, Analyses!JobInv, Analyses!Requested,
        Analyses!Open, Analyses!HasStatus, Analyses!Exists
  <2>a. record[j].usage = None
    BY <1>5 DEF Analyses!ProcessorInv, Analyses!Recover, Analyses!JobInv, Analyses!Requested, Analyses!Paid
  <2>1. CASE "replay" \in inputs[j]
    <3>. PICK s : s = [r EXCEPT !.status = "queued", !.code = None]
      OBVIOUS
    <3>1. s \in Analyses!Records
      BY QueuedForm
    <3>2. Analyses!Save(j, s)
      BY <1>5, <2>1 DEF Analyses!Recover, Analyses!RecoverReplay
    <3>. QED BY <1>0, <3>1, <3>2
  <2>2. CASE "replay" \notin inputs[j]
    <3>. PICK u \in Nat \cup {None} : u = Analyses!UsageFromEvents(j)
      BY <1>s DEF Analyses!Shaped, Analyses!UsageFromEvents
    <3>. PICK c \in {"processing_failed", "processor_restarted"} : c = "processor_restarted"
      OBVIOUS
    <3>. PICK s : s = [r EXCEPT !.status = "failed", !.code = c, !.usage = u]
      OBVIOUS
    <3>1. s \in Analyses!Records
      BY ONLY r \in Analyses!Records, c \in {"processing_failed", "processor_restarted"},
              u \in Nat \cup {None}, s = [r EXCEPT !.status = "failed", !.code = c, !.usage = u]
      DEF Analyses!Records
    <3>2. Analyses!Save(j, s)
      BY <1>5, <2>2, <2>a DEF Analyses!Recover, Analyses!FailInterrupted
    <3>. QED BY <1>0, <3>1, <3>2
  <2>. QED BY <2>1, <2>2
<1>6. ASSUME NEW j \in Takeoffs, Analyses!Wipe(j) PROVE G
  BY <1>s, <1>6 DEF Analyses!Wipe
<1>7. CASE UNCHANGED record
  BY <1>s, <1>7
<1>8. ASSUME NEW j \in Takeoffs, Analyses!Reject(j) \/ Analyses!CleanupExpired(j) \/ Analyses!Delete(j) PROVE G
  <2>1. Analyses!Wipe(j) \/ UNCHANGED record
    BY <1>8 DEF Analyses!Reject, Analyses!CleanupExpired, Analyses!Delete, Analyses!Remove, Analyses!disk
  <2>. QED BY <1>6, <1>7, <2>1
<1>9. ASSUME NEW j \in Takeoffs,
             \/ Analyses!OpenUpload(j) \/ Analyses!CloseUpload(j) \/ Analyses!Submit(j) \/ Analyses!CopyReplay(j) \/ Analyses!PrepareIndex(j)
             \/ Analyses!Turn(j) \/ Analyses!CodexEnds(j) \/ Analyses!Validate(j) \/ Analyses!Annotate(j) \/ Analyses!Raise(j) \/ Analyses!Diagnose(j)
             \/ Analyses!LoseReport(j) \/ Analyses!Discard(j)
      PROVE  UNCHANGED record
  BY <1>9
  DEF Analyses!OpenUpload, Analyses!CloseUpload, Analyses!Submit, Analyses!CopyReplay,
      Analyses!PrepareIndex, Analyses!Turn, Analyses!CodexEnds, Analyses!Validate, Analyses!Annotate,
      Analyses!Raise, Analyses!Diagnose, Analyses!LoseReport, Analyses!Discard, Analyses!disk
<1>10. CASE Analyses!Dequeue \/ Analyses!Crash \/ Analyses!Stop \/ Analyses!Boot \/ Analyses!ListPending \/ Analyses!RecoverFails \/ Analyses!Serve \/ UNCHANGED Analyses!vars
  BY <1>7, <1>10
  DEF Analyses!Dequeue, Analyses!Crash, Analyses!Stop, Analyses!Boot, Analyses!ListPending,
      Analyses!RecoverFails, Analyses!Serve, Analyses!disk, Analyses!vars
<1>11. CASE \E j \in Takeoffs : Analyses!Work(j) \/ Analyses!Turn(j)
  <2>. PICK j \in Takeoffs : Analyses!Work(j) \/ Analyses!Turn(j)
    BY <1>11
  <2>1. \/ Analyses!Start(j) \/ Analyses!Finish(j) \/ Analyses!ReportFailure(j)
        \/ \/ Analyses!CopyReplay(j) \/ Analyses!PrepareIndex(j) \/ Analyses!Turn(j) \/ Analyses!CodexEnds(j) \/ Analyses!Validate(j) \/ Analyses!Annotate(j) \/ Analyses!Raise(j)
           \/ Analyses!Diagnose(j) \/ Analyses!LoseReport(j) \/ Analyses!Discard(j)
    BY DEF Analyses!Work
  <2>. QED BY <2>1, <1>2, <1>3, <1>4, <1>7, <1>9
<1>12. CASE \E j \in Takeoffs : \/ Analyses!Create(j) \/ Analyses!OpenUpload(j) \/ Analyses!CloseUpload(j) \/ Analyses!Reject(j) \/ Analyses!Submit(j)
                             \/ Analyses!CleanupExpired(j) \/ Analyses!Recover(j) \/ Analyses!Delete(j)
  BY <1>12, <1>1, <1>5, <1>7, <1>8, <1>9
<1>. QED BY <1>10, <1>11, <1>12 DEF Analyses!Next

\* Every step leaves the runs their shape.
LEMMA RunsShaped ==
  ASSUME Analyses!ProcessorInv, [Analyses!Next]_Analyses!vars
  PROVE  run' \in [Takeoffs -> Analyses!Runs]
<1>. DEFINE G == run' \in [Takeoffs -> Analyses!Runs]
<1>s. run \in [Takeoffs -> Analyses!Runs] /\ events \in [Takeoffs -> Nat]
  BY DEF Analyses!ProcessorInv, Analyses!Shaped
<1>0. ASSUME NEW j \in Takeoffs, NEW at \in Analyses!Steps, Analyses!Goto(j, at) PROVE G
  BY <1>s, <1>0 DEF Analyses!Goto, Analyses!Runs
<1>1. ASSUME NEW j \in Takeoffs, NEW f, NEW w, Analyses!Enqueue(j, f, w), f \in BOOLEAN, w \in BOOLEAN PROVE G
  BY <1>s, <1>1 DEF Analyses!Enqueue, Analyses!IdleRun, Analyses!Runs, Analyses!Steps
<1>2. Analyses!IdleRun \in Analyses!Runs
  BY DEF Analyses!IdleRun, Analyses!Runs, Analyses!Steps
<1>3. ASSUME NEW j \in Takeoffs, Analyses!Submit(j) \/ Analyses!Recover(j) PROVE G
  <2>1. \A name : (name \in inputs[j]) \in BOOLEAN
    OBVIOUS
  <2>2. CASE Analyses!Submit(j)
    <3>1. Analyses!Enqueue(j, "replay" \in inputs[j], "workbook" \in inputs[j])
      BY <2>2 DEF Analyses!Submit
    <3>. QED BY <1>1, <2>1, <3>1, Zenon
  <2>3. CASE Analyses!Recover(j) /\ "replay" \in inputs[j]
    <3>1. Analyses!Enqueue(j, TRUE, "workbook" \in inputs[j])
      BY <2>3, Zenon DEF Analyses!Recover, Analyses!RecoverReplay
    <3>. QED BY <1>1, <2>1, <3>1, Zenon
  <2>4. CASE Analyses!Recover(j) /\ "replay" \notin inputs[j]
    BY <1>s, <2>4 DEF Analyses!Recover, Analyses!FailInterrupted
  <2>. QED BY <1>3, <2>2, <2>3, <2>4
<1>4. ASSUME NEW j \in Takeoffs, Analyses!Discard(j) PROVE G
  BY <1>s, <1>2, <1>4 DEF Analyses!Discard
<1>5. ASSUME NEW j \in Takeoffs, Analyses!CodexEnds(j) PROVE G
  <2>. PICK u \in Nat \cup {None} : u = Analyses!UsageFromEvents(j)
    BY <1>s DEF Analyses!UsageFromEvents
  <2>. PICK r \in Analyses!Runs : r = run[j]
    BY <1>s
  <2>. PICK s : s = [r EXCEPT !.at = "validate", !.usage = u]
    OBVIOUS
  <2>1. s \in Analyses!Runs
    BY ONLY r \in Analyses!Runs, u \in Nat \cup {None}, s = [r EXCEPT !.at = "validate", !.usage = u]
    DEF Analyses!Runs, Analyses!Steps
  <2>2. run' = [run EXCEPT ![j] = s]
    BY <1>s, <1>5 DEF Analyses!CodexEnds
  <2>. QED BY <1>s, <2>1, <2>2
<1>6. ASSUME NEW j \in Takeoffs,
             \/ Analyses!Start(j) \/ Analyses!CopyReplay(j) \/ Analyses!PrepareIndex(j) \/ Analyses!Validate(j) \/ Analyses!Annotate(j) \/ Analyses!Finish(j)
             \/ Analyses!Raise(j) \/ Analyses!Diagnose(j) \/ Analyses!ReportFailure(j) \/ Analyses!LoseReport(j)
      PROVE  \E at \in Analyses!Steps : Analyses!Goto(j, at)
  BY <1>6, Zenon
  DEF Analyses!Start, Analyses!CopyReplay, Analyses!PrepareIndex, Analyses!Validate, Analyses!Annotate,
      Analyses!Finish, Analyses!Raise, Analyses!Diagnose, Analyses!ReportFailure, Analyses!LoseReport,
      Analyses!Steps
<1>7. ASSUME NEW j \in Takeoffs,
             \/ Analyses!Create(j) \/ Analyses!OpenUpload(j) \/ Analyses!CloseUpload(j) \/ Analyses!Reject(j) \/ Analyses!Turn(j) \/ Analyses!CleanupExpired(j) \/ Analyses!Delete(j)
      PROVE  UNCHANGED run
  BY <1>7
  DEF Analyses!Create, Analyses!OpenUpload, Analyses!CloseUpload, Analyses!Reject, Analyses!Turn,
      Analyses!CleanupExpired, Analyses!Delete, Analyses!memory
<1>8. CASE Analyses!Crash \/ Analyses!Stop
  BY <1>2, <1>8 DEF Analyses!Crash, Analyses!Stop, Analyses!Forget
<1>9. CASE Analyses!Boot \/ Analyses!ListPending \/ Analyses!RecoverFails \/ Analyses!Serve \/ UNCHANGED Analyses!vars
  BY <1>s, <1>9
  DEF Analyses!Boot, Analyses!ListPending, Analyses!RecoverFails, Analyses!Serve, Analyses!vars,
      Analyses!memory
<1>10. CASE Analyses!Dequeue
  <2>1. Head(queue) \in Takeoffs
    BY <1>10, First DEF Analyses!ProcessorInv, Analyses!Dequeue
  <2>. QED BY <1>0, <1>10, <2>1 DEF Analyses!Dequeue, Analyses!Steps
<1>11. UNCHANGED run => G
  BY <1>s
<1>12. CASE \E j \in Takeoffs : Analyses!Work(j)
  <2>. PICK j \in Takeoffs : Analyses!Work(j)
    BY <1>12
  <2>1. \/ Analyses!CodexEnds(j) \/ Analyses!Discard(j)
        \/ \/ Analyses!Start(j) \/ Analyses!CopyReplay(j) \/ Analyses!PrepareIndex(j) \/ Analyses!Validate(j) \/ Analyses!Annotate(j) \/ Analyses!Finish(j)
           \/ Analyses!Raise(j) \/ Analyses!Diagnose(j) \/ Analyses!ReportFailure(j) \/ Analyses!LoseReport(j)
    BY DEF Analyses!Work
  <2>. QED BY <2>1, <1>0, <1>4, <1>5, <1>6
<1>13. CASE \E j \in Takeoffs : \/ Analyses!Create(j) \/ Analyses!OpenUpload(j) \/ Analyses!CloseUpload(j) \/ Analyses!Reject(j) \/ Analyses!Submit(j)
                             \/ Analyses!Turn(j) \/ Analyses!CleanupExpired(j) \/ Analyses!Recover(j) \/ Analyses!Delete(j)
  BY <1>13, <1>3, <1>7, <1>11
<1>. QED BY <1>8, <1>9, <1>10, <1>12, <1>13 DEF Analyses!Next

\* Every step leaves the files on the disk their shape.
LEMMA DiskShaped ==
  ASSUME Analyses!ProcessorInv, [Analyses!Next]_Analyses!vars
  PROVE  /\ inputs' \in [Takeoffs -> SUBSET {"drawings", "template", "replay", "workbook"}]
         /\ files' \in [Takeoffs -> SUBSET Analyses!Artifacts] /\ book' \in [Takeoffs -> Analyses!Books \cup {None}]
         /\ events' \in [Takeoffs -> Nat]
<1>. DEFINE G == /\ inputs' \in [Takeoffs -> SUBSET {"drawings", "template", "replay", "workbook"}]
                 /\ files' \in [Takeoffs -> SUBSET Analyses!Artifacts] /\ book' \in [Takeoffs -> Analyses!Books \cup {None}]
                 /\ events' \in [Takeoffs -> Nat]
<1>s. /\ inputs \in [Takeoffs -> SUBSET {"drawings", "template", "replay", "workbook"}]
      /\ files \in [Takeoffs -> SUBSET Analyses!Artifacts] /\ book \in [Takeoffs -> Analyses!Books \cup {None}]
      /\ events \in [Takeoffs -> Nat]
  BY DEF Analyses!ProcessorInv, Analyses!Shaped
<1>1. ASSUME NEW j \in Takeoffs, Analyses!OpenUpload(j) PROVE G
  <2>1. Analyses!NextUpload(j) \in Analyses!Expected(j)
    BY <1>1, UploadIsExpected DEF Analyses!OpenUpload
  <2>2. Analyses!NextUpload(j) \in {"drawings", "template", "replay", "workbook"}
    BY <2>1, AnalysesAssumed DEF Analyses!Expected, Analyses!ProcessorAssumption
  <2>. QED BY <1>s, <1>1, <2>2 DEF Analyses!OpenUpload
<1>2. ASSUME NEW j \in Takeoffs, Analyses!CopyReplay(j) \/ Analyses!Validate(j) \/ Analyses!Annotate(j) \/ Analyses!CodexEnds(j) PROVE G
  <2>1. UNCHANGED <<inputs, events>>
    BY <1>2 DEF Analyses!CopyReplay, Analyses!Validate, Analyses!Annotate, Analyses!CodexEnds
  <2>2. files' \in [Takeoffs -> SUBSET Analyses!Artifacts]
    BY <1>s, <1>2
    DEF Analyses!CopyReplay, Analyses!Validate, Analyses!Annotate, Analyses!CodexEnds, Analyses!Artifacts
  <2>3. book' \in [Takeoffs -> Analyses!Books \cup {None}]
    BY <1>s, <1>2
    DEF Analyses!CopyReplay, Analyses!Validate, Analyses!Annotate, Analyses!CodexEnds, Analyses!Books
  <2>. QED BY <1>s, <2>1, <2>2, <2>3
<1>3. ASSUME NEW j \in Takeoffs, Analyses!Turn(j) PROVE G
  BY <1>s, <1>3 DEF Analyses!Turn
<1>4. ASSUME NEW j \in Takeoffs, Analyses!Wipe(j) PROVE G
  BY <1>s, <1>4 DEF Analyses!Wipe
<1>5. ASSUME NEW j \in Takeoffs, files' = [files EXCEPT ![j] = {}], UNCHANGED <<inputs, book, events>> PROVE G
  BY <1>s, <1>5
<1>6. CASE UNCHANGED <<inputs, files, book, events>>
  BY <1>s, <1>6
<1>7. ASSUME NEW j \in Takeoffs, Analyses!Reject(j) \/ Analyses!CleanupExpired(j) \/ Analyses!Delete(j) PROVE G
  <2>1. \/ Analyses!Wipe(j) \/ UNCHANGED <<inputs, files, book, events>>
        \/ files' = [files EXCEPT ![j] = {}] /\ UNCHANGED <<inputs, book, events>>
    BY <1>7 DEF Analyses!Reject, Analyses!CleanupExpired, Analyses!Delete, Analyses!Remove, Analyses!disk
  <2>. QED BY <1>4, <1>5, <1>6, <2>1
<1>8. ASSUME NEW j \in Takeoffs,
             \/ Analyses!Create(j) \/ Analyses!CloseUpload(j) \/ Analyses!Submit(j) \/ Analyses!Start(j) \/ Analyses!PrepareIndex(j) \/ Analyses!Finish(j) \/ Analyses!Raise(j)
             \/ Analyses!Diagnose(j) \/ Analyses!ReportFailure(j) \/ Analyses!LoseReport(j) \/ Analyses!Discard(j) \/ Analyses!Recover(j)
      PROVE  UNCHANGED <<inputs, files, book, events>>
  BY <1>8
  DEF Analyses!Create, Analyses!CloseUpload, Analyses!Submit, Analyses!Start, Analyses!PrepareIndex,
      Analyses!Finish, Analyses!Raise, Analyses!Diagnose, Analyses!ReportFailure, Analyses!LoseReport,
      Analyses!Discard, Analyses!Recover, Analyses!disk
<1>9. CASE Analyses!Dequeue \/ Analyses!Crash \/ Analyses!Stop \/ Analyses!Boot \/ Analyses!ListPending \/ Analyses!RecoverFails \/ Analyses!Serve \/ UNCHANGED Analyses!vars
  BY <1>6, <1>9
  DEF Analyses!Dequeue, Analyses!Crash, Analyses!Stop, Analyses!Boot, Analyses!ListPending,
      Analyses!RecoverFails, Analyses!Serve, Analyses!disk, Analyses!vars
<1>10. CASE \E j \in Takeoffs : Analyses!Work(j)
  <2>. PICK j \in Takeoffs : Analyses!Work(j)
    BY <1>10
  <2>1. \/ Analyses!CopyReplay(j) \/ Analyses!Validate(j) \/ Analyses!Annotate(j) \/ Analyses!CodexEnds(j)
        \/ \/ Analyses!Start(j) \/ Analyses!PrepareIndex(j) \/ Analyses!Finish(j) \/ Analyses!Raise(j) \/ Analyses!Diagnose(j) \/ Analyses!ReportFailure(j)
           \/ Analyses!LoseReport(j) \/ Analyses!Discard(j)
    BY DEF Analyses!Work
  <2>. QED BY <2>1, <1>2, <1>6, <1>8
<1>11. CASE \E j \in Takeoffs : \/ Analyses!Create(j) \/ Analyses!OpenUpload(j) \/ Analyses!CloseUpload(j) \/ Analyses!Reject(j) \/ Analyses!Submit(j)
                             \/ Analyses!Turn(j) \/ Analyses!CleanupExpired(j) \/ Analyses!Recover(j) \/ Analyses!Delete(j)
  BY <1>11, <1>1, <1>3, <1>6, <1>7, <1>8
<1>. QED BY <1>9, <1>10, <1>11 DEF Analyses!Next

\* The line holds no job twice, nothing is active before the recovery, and nothing is left
\* to recover when requests are served.
LEMMA LineShaped ==
  ASSUME Analyses!ProcessorInv, [Analyses!Next]_Analyses!vars
  PROVE  request' \in [Takeoffs -> {"none", "saving", "answered", "refused"}] /\ queue' \in Seq(Takeoffs) /\ Analyses!Booted'
<1>. DEFINE Q == queue' \in Seq(Takeoffs) /\ \A i, k \in DOMAIN queue' : queue'[i] = queue'[k] => i = k
            B == /\ boot' \in {"down", "cleanup"} => active' = {}
                 /\ boot' = "up" => todo' = {}
            R == request' \in [Takeoffs -> {"none", "saving", "answered", "refused"}]
<1>. SUFFICES Q /\ B /\ R
  BY DEF Analyses!Booted
<1>s. /\ Analyses!Shaped /\ Analyses!Booted /\ queue \in Seq(Takeoffs) /\ request \in [Takeoffs -> {"none", "saving", "answered", "refused"}]
  BY DEF Analyses!ProcessorInv, Analyses!Shaped
<1>1. UNCHANGED queue => Q
  BY <1>s DEF Analyses!Booted
<1>2. UNCHANGED <<boot, active, todo>> => B
  BY <1>s DEF Analyses!Booted
<1>3. UNCHANGED request => R
  BY <1>s
<1>4. ASSUME NEW j \in Takeoffs, Analyses!Submit(j) \/ (Analyses!Recover(j) /\ queue' # queue) PROVE Q /\ B
  <2>1. ~Analyses!Queued(j) /\ queue' = Append(queue, j)
    BY <1>4
    DEF Analyses!Submit, Analyses!Recover, Analyses!RecoverReplay, Analyses!FailInterrupted,
        Analyses!Enqueue, Analyses!ProcessorInv, Analyses!JobInv, Analyses!Placed, Analyses!Requested
  <2>2. queue' \in Seq(Takeoffs)
    BY <1>s, <2>1
  <2>3. \A i, k \in DOMAIN queue' : queue'[i] = queue'[k] => i = k
    BY <1>s, <2>1, Appended DEF Analyses!Booted
  <2>4. B
    BY <1>4, <1>s
    DEF Analyses!Submit, Analyses!Recover, Analyses!Booted, Analyses!ProcessorInv, Analyses!JobInv,
        Analyses!Requested
  <2>. QED BY <2>2, <2>3, <2>4
<1>5. ASSUME NEW j \in Takeoffs, Analyses!Recover(j) PROVE B
  BY <1>5, <1>s DEF Analyses!Recover, Analyses!Booted
<1>6. ASSUME NEW j \in Takeoffs, Analyses!Discard(j) PROVE B
  BY <1>6, <1>s DEF Analyses!Discard, Analyses!Booted, Analyses!Keeps
<1>7. CASE Analyses!Crash \/ Analyses!Stop
  <2>1. queue' = <<>>
    BY <1>7 DEF Analyses!Crash, Analyses!Stop, Analyses!Forget
  <2>q. Q
    BY <2>1
  <2>2. B
    BY <1>7 DEF Analyses!Crash, Analyses!Stop, Analyses!Forget
  <2>3. R
    BY <1>s, <1>7 DEF Analyses!Crash, Analyses!Stop, Analyses!Forget
  <2>. QED BY <2>q, <2>2, <2>3
<1>8. CASE Analyses!Dequeue
  <2>1. queue' \in Seq(Takeoffs) /\ UNCHANGED <<boot, active, todo, request>>
    BY <1>s, <1>8 DEF Analyses!Dequeue, Analyses!Keeps
  <2>2. \A i, k \in DOMAIN queue' : queue'[i] = queue'[k] => i = k
    BY <1>s, <1>8, First DEF Analyses!Dequeue
  <2>. QED BY <1>2, <1>3, <2>1, <2>2
<1>9. CASE Analyses!Boot \/ Analyses!ListPending \/ Analyses!RecoverFails \/ Analyses!Serve
  <2>1. UNCHANGED <<queue, active, request>>
    BY <1>9 DEF Analyses!Boot, Analyses!ListPending, Analyses!RecoverFails, Analyses!Serve, Analyses!memory
  <2>b. \/ boot = "down" /\ boot' = "cleanup"
        \/ boot' \notin {"down", "cleanup", "up"}
        \/ boot' = "up" /\ todo = {} /\ todo' = {}
    BY <1>9 DEF Analyses!Boot, Analyses!ListPending, Analyses!RecoverFails, Analyses!Serve, Analyses!memory
  <2>2. B
    BY <1>s, <2>1, <2>b DEF Analyses!Booted
  <2>. QED BY <1>1, <1>3, <2>1, <2>2
<1>10. ASSUME NEW j \in Takeoffs, Analyses!Create(j) \/ Analyses!Reject(j) \/ Analyses!Submit(j) PROVE R
  BY <1>s, <1>10 DEF Analyses!Create, Analyses!Reject, Analyses!Submit
<1>11. ASSUME NEW j \in Takeoffs,
              \/ Analyses!Create(j) \/ Analyses!Reject(j) \/ Analyses!OpenUpload(j) \/ Analyses!CloseUpload(j) \/ Analyses!Delete(j) \/ Analyses!Turn(j) \/ Analyses!Start(j)
              \/ Analyses!CopyReplay(j) \/ Analyses!PrepareIndex(j) \/ Analyses!CodexEnds(j) \/ Analyses!Validate(j) \/ Analyses!Annotate(j) \/ Analyses!Finish(j)
              \/ Analyses!Raise(j) \/ Analyses!Diagnose(j) \/ Analyses!ReportFailure(j) \/ Analyses!LoseReport(j)
       PROVE  UNCHANGED <<queue, boot, active, todo>>
  BY <1>11
  DEF Analyses!Create, Analyses!Reject, Analyses!OpenUpload, Analyses!CloseUpload, Analyses!Delete,
      Analyses!Remove, Analyses!Turn, Analyses!Start, Analyses!CopyReplay, Analyses!PrepareIndex,
      Analyses!CodexEnds, Analyses!Validate, Analyses!Annotate, Analyses!Finish, Analyses!Raise,
      Analyses!Diagnose, Analyses!ReportFailure, Analyses!LoseReport, Analyses!Keeps, Analyses!memory
<1>12. ASSUME NEW j \in Takeoffs,
              \/ Analyses!OpenUpload(j) \/ Analyses!CloseUpload(j) \/ Analyses!Delete(j) \/ Analyses!Turn(j) \/ Analyses!Start(j) \/ Analyses!Recover(j)
              \/ Analyses!CopyReplay(j) \/ Analyses!PrepareIndex(j) \/ Analyses!CodexEnds(j) \/ Analyses!Validate(j) \/ Analyses!Annotate(j) \/ Analyses!Finish(j)
              \/ Analyses!Raise(j) \/ Analyses!Diagnose(j) \/ Analyses!ReportFailure(j) \/ Analyses!LoseReport(j) \/ Analyses!Discard(j) \/ Analyses!CleanupExpired(j)
       PROVE  UNCHANGED request
  BY <1>12
  DEF Analyses!OpenUpload, Analyses!CloseUpload, Analyses!Delete, Analyses!Turn, Analyses!Start,
      Analyses!Recover, Analyses!CopyReplay, Analyses!PrepareIndex, Analyses!CodexEnds, Analyses!Validate,
      Analyses!Annotate, Analyses!Finish, Analyses!Raise, Analyses!Diagnose, Analyses!ReportFailure,
      Analyses!LoseReport, Analyses!Discard, Analyses!CleanupExpired, Analyses!Keeps, Analyses!memory
<1>13. ASSUME NEW j \in Takeoffs, Analyses!CleanupExpired(j) PROVE UNCHANGED queue /\ B
  BY <1>s, <1>13 DEF Analyses!CleanupExpired, Analyses!Remove, Analyses!memory, Analyses!Booted
<1>14. ASSUME NEW j \in Takeoffs, Analyses!Discard(j) PROVE UNCHANGED queue
  BY <1>14 DEF Analyses!Discard
<1>15. CASE UNCHANGED Analyses!vars
  BY <1>1, <1>2, <1>3, <1>15 DEF Analyses!vars, Analyses!memory
<1>16. ASSUME NEW j \in Takeoffs,
              \/ Analyses!Create(j) \/ Analyses!OpenUpload(j) \/ Analyses!CloseUpload(j) \/ Analyses!Reject(j) \/ Analyses!Turn(j) \/ Analyses!CleanupExpired(j) \/ Analyses!Delete(j)
       PROVE  Q /\ B /\ R
  BY <1>1, <1>2, <1>3, <1>10, <1>11, <1>12, <1>13, <1>16
<1>17. ASSUME NEW j \in Takeoffs, Analyses!Submit(j) \/ Analyses!Recover(j) PROVE Q /\ B /\ R
  <2>1. CASE Analyses!Submit(j)
    BY <2>1, <1>4, <1>10
  <2>2. CASE Analyses!Recover(j) /\ queue' = queue
    <3>1. Q
      BY <2>2, <1>1
    <3>2. B
      BY <2>2, <1>5
    <3>3. R
      BY <2>2, <1>3, <1>12
    <3>. QED BY <3>1, <3>2, <3>3
  <2>3. CASE Analyses!Recover(j) /\ queue' # queue
    <3>1. Q
      BY <2>3, <1>4
    <3>2. B
      BY <2>3, <1>5
    <3>3. R
      BY <2>3, <1>3, <1>12
    <3>. QED BY <3>1, <3>2, <3>3
  <2>. QED BY <1>17, <2>1, <2>2, <2>3
<1>18. ASSUME NEW j \in Takeoffs, Analyses!Work(j) PROVE Q /\ B /\ R
  <2>1. \/ Analyses!Start(j) \/ Analyses!CopyReplay(j) \/ Analyses!PrepareIndex(j) \/ Analyses!CodexEnds(j) \/ Analyses!Validate(j) \/ Analyses!Annotate(j) \/ Analyses!Finish(j)
        \/ Analyses!Raise(j) \/ Analyses!Diagnose(j) \/ Analyses!ReportFailure(j) \/ Analyses!LoseReport(j)
        \/ Analyses!Discard(j)
    BY <1>18 DEF Analyses!Work
  <2>. QED BY <2>1, <1>1, <1>2, <1>3, <1>6, <1>11, <1>12, <1>14
<1>. QED BY <1>7, <1>8, <1>9, <1>15, <1>16, <1>17, <1>18 DEF Analyses!Next

\* Every step keeps the invariant of every job.
LEMMA JobsKept ==
  ASSUME Analyses!ProcessorInv, Analyses!Next
  PROVE  \A k \in Takeoffs : Analyses!JobInv(k)'
<1>1. ASSUME NEW j \in Takeoffs, Analyses!Work(j) PROVE \A k \in Takeoffs : Analyses!JobInv(k)'
  BY <1>1, StartKeeps, CopyReplayKeeps, PrepareIndexKeeps, CodexEndsKeeps, ValidateKeeps, AnnotateKeeps,
     FinishKeeps, RaiseKeeps, DiagnoseKeeps, ReportFailureKeeps, LoseReportKeeps, DiscardKeeps
  DEF Analyses!Work
<1>2. ASSUME NEW j \in Takeoffs,
             \/ Analyses!Create(j) \/ Analyses!OpenUpload(j) \/ Analyses!CloseUpload(j) \/ Analyses!Reject(j) \/ Analyses!Submit(j) \/ Analyses!Turn(j)
             \/ Analyses!CleanupExpired(j) \/ Analyses!Recover(j) \/ Analyses!Delete(j)
      PROVE  \A k \in Takeoffs : Analyses!JobInv(k)'
  BY <1>2, CreateKeeps, OpenUploadKeeps, CloseUploadKeeps, RejectKeeps, SubmitKeeps, TurnKeeps, RemoveKeeps,
     RecoverKeeps
<1>3. CASE Analyses!Crash \/ Analyses!Stop
  BY <1>3, ForgetKeeps DEF Analyses!Crash, Analyses!Stop
<1>. QED BY <1>1, <1>2, <1>3, DequeueKeeps, PhaseKeeps DEF Analyses!Next

\* The inductive invariant of the processor, whatever its jobs, uploads, threads, faults and
\* crashes.
THEOREM ProcessorInvariant == Analyses!Spec => []Analyses!ProcessorInv
<1>1. Analyses!Init => Analyses!ProcessorInv
  <2>. SUFFICES ASSUME Analyses!Init PROVE Analyses!ProcessorInv
    OBVIOUS
  <2>1. Analyses!Shaped
    BY DEF Analyses!Init, Analyses!Shaped, Analyses!IdleRun, Analyses!Runs, Analyses!Steps
  <2>2. Analyses!Booted
    BY DEF Analyses!Init, Analyses!Booted
  <2>3. ASSUME NEW j \in Takeoffs PROVE Analyses!JobInv(j)
    BY DEF Analyses!Init, Analyses!JobInv, Analyses!Requested, Analyses!Placed, Analyses!Queued,
           Analyses!Remembered, Analyses!Flagged, Analyses!Paid, Analyses!Booked, Analyses!Built,
           Analyses!Blank, Analyses!IdleRun, Analyses!Exists, Analyses!HasStatus, Analyses!Open,
           Analyses!Terminal
  <2>. QED BY <2>1, <2>2, <2>3 DEF Analyses!ProcessorInv
<1>2. Analyses!ProcessorInv /\ [Analyses!Next]_Analyses!vars => Analyses!ProcessorInv'
  <2>. SUFFICES ASSUME Analyses!ProcessorInv, [Analyses!Next]_Analyses!vars PROVE Analyses!ProcessorInv'
    OBVIOUS
  <2>1. Analyses!Shaped' /\ Analyses!Booted'
    BY RecordsShaped, RunsShaped, DiskShaped, LineShaped DEF Analyses!Shaped
  <2>2. CASE Analyses!Next
    BY <2>1, <2>2, JobsKept DEF Analyses!ProcessorInv
  <2>3. CASE UNCHANGED Analyses!vars
    <3>1. ASSUME NEW k \in Takeoffs PROVE Analyses!JobInv(k)'
      BY <2>3, Frame
      DEF Analyses!vars, Analyses!disk, Analyses!memory, Unmoved, Analyses!ProcessorInv, Analyses!Queued
    <3>. QED BY <2>1, <3>1 DEF Analyses!ProcessorInv
  <2>. QED BY <2>2, <2>3
<1>. QED BY <1>1, <1>2, PTL DEF Analyses!Spec

\* The invariant says what the run checks: no job is left behind, a completed job is whole,
\* and every paid turn is reported.
LEMMA ProcessorTold == Analyses!ProcessorInv => Analyses!NobodyIsForgotten /\ Analyses!CompletedIsWhole /\ Analyses!PaidTurnsAreReported
<1>. SUFFICES ASSUME Analyses!ProcessorInv PROVE Analyses!NobodyIsForgotten /\ Analyses!CompletedIsWhole /\ Analyses!PaidTurnsAreReported
  OBVIOUS
<1>1. Analyses!NobodyIsForgotten
  BY DEF Analyses!ProcessorInv, Analyses!Booted, Analyses!JobInv, Analyses!Remembered,
         Analyses!NobodyIsForgotten
<1>2. Analyses!PaidTurnsAreReported
  BY DEF Analyses!ProcessorInv, Analyses!JobInv, Analyses!Paid, Analyses!PaidTurnsAreReported
<1>3. ASSUME NEW j \in Takeoffs, Analyses!HasStatus(j, {"completed"}), request[j] = "answered", j \notin removing
      PROVE  /\ book[j] = Analyses!Workbook(j)
             /\ record[j].artifacts = Analyses!Artifacts \ (IF book[j] = None THEN {"workbook"} ELSE {})
             /\ \A name \in record[j].artifacts : Analyses!GetArtifact(j, name) = 200
  <2>1. /\ record[j].artifacts = files[j] /\ Analyses!Artifacts \ {"workbook"} \subseteq files[j] /\ book[j] = Analyses!Workbook(j)
        /\ "workbook" \in files[j] <=> book[j] # None
        /\ Analyses!Exists(j) /\ files[j] \subseteq Analyses!Artifacts
    BY <1>3
    DEF Analyses!ProcessorInv, Analyses!JobInv, Analyses!Built, Analyses!Booked, Analyses!HasStatus,
        Analyses!Shaped
  <2>2. record[j].artifacts = Analyses!Artifacts \ (IF book[j] = None THEN {"workbook"} ELSE {})
    BY <2>1 DEF Analyses!Artifacts
  <2>. QED BY <2>1, <2>2 DEF Analyses!GetArtifact
<1>4. Analyses!CompletedIsWhole
  BY <1>3 DEF Analyses!CompletedIsWhole
<1>. QED BY <1>1, <1>2, <1>4

\* No action rewrites a record that has its end.
LEMMA EndStays ==
  ASSUME Analyses!ProcessorInv, [Analyses!Next]_Analyses!vars
  PROVE  [Analyses!EndIsFinal]_Analyses!vars
<1>. SUFFICES ASSUME Analyses!Next, NEW k \in Takeoffs, Analyses!Terminal(k) PROVE record'[k] \in {record[k], None}
  BY DEF Analyses!EndIsFinal
<1>s. /\ Analyses!Shaped /\ Analyses!JobInv(k) /\ request[k] # "none" /\ k \notin todo /\ run[k].at \in {"none", "done"}
  BY DEF Analyses!ProcessorInv, Analyses!JobInv, Analyses!Requested, Analyses!Placed, Analyses!Terminal,
         Analyses!Open, Analyses!HasStatus, Analyses!Exists
<1>1. ASSUME NEW j \in Takeoffs, NEW r, Analyses!Save(j, r), j # k PROVE record'[k] = record[k]
  BY <1>s, <1>1, Saves
<1>2. ASSUME NEW j \in Takeoffs, Analyses!Wipe(j) PROVE record'[k] \in {record[k], None}
  BY <1>s, <1>2 DEF Analyses!Wipe, Analyses!Shaped
<1>3. ASSUME NEW j \in Takeoffs, Analyses!Create(j) \/ Analyses!Start(j) \/ Analyses!Finish(j) \/ Analyses!ReportFailure(j) \/ Analyses!Recover(j)
      PROVE  j # k /\ \E r : Analyses!Save(j, r)
  BY <1>s, <1>3
  DEF Analyses!Create, Analyses!Start, Analyses!Finish, Analyses!ReportFailure, Analyses!Recover,
      Analyses!RecoverReplay, Analyses!FailInterrupted
<1>4. ASSUME NEW j \in Takeoffs, Analyses!Reject(j) \/ Analyses!CleanupExpired(j) \/ Analyses!Delete(j) PROVE Analyses!Wipe(j) \/ UNCHANGED record
  BY <1>4 DEF Analyses!Reject, Analyses!CleanupExpired, Analyses!Delete, Analyses!Remove, Analyses!disk
<1>5. ASSUME NEW j \in Takeoffs,
             \/ Analyses!OpenUpload(j) \/ Analyses!CloseUpload(j) \/ Analyses!Submit(j) \/ Analyses!CopyReplay(j) \/ Analyses!PrepareIndex(j)
             \/ Analyses!Turn(j) \/ Analyses!CodexEnds(j) \/ Analyses!Validate(j) \/ Analyses!Annotate(j) \/ Analyses!Raise(j) \/ Analyses!Diagnose(j)
             \/ Analyses!LoseReport(j) \/ Analyses!Discard(j)
      PROVE  UNCHANGED record
  BY <1>5
  DEF Analyses!OpenUpload, Analyses!CloseUpload, Analyses!Submit, Analyses!CopyReplay,
      Analyses!PrepareIndex, Analyses!Turn, Analyses!CodexEnds, Analyses!Validate, Analyses!Annotate,
      Analyses!Raise, Analyses!Diagnose, Analyses!LoseReport, Analyses!Discard, Analyses!disk
<1>6. CASE Analyses!Dequeue \/ Analyses!Crash \/ Analyses!Stop \/ Analyses!Boot \/ Analyses!ListPending \/ Analyses!RecoverFails \/ Analyses!Serve
  BY <1>6
  DEF Analyses!Dequeue, Analyses!Crash, Analyses!Stop, Analyses!Boot, Analyses!ListPending,
      Analyses!RecoverFails, Analyses!Serve, Analyses!disk
<1>. QED BY <1>1, <1>2, <1>3, <1>4, <1>5, <1>6 DEF Analyses!Next, Analyses!Work

-----------------------------------------------------------------------------
(* The audit of the processor's usage                                      *)

rows == x1
alert == x2
health == x3
call == x4
lost == x5
overlapped == x6
auditFaults == x7
USE DEF rows, alert, health, call, lost, overlapped, auditFaults

\* Calls other than c keep their state.
Others(c) == \A d \in Clients : d # c => call'[d] = call[d]

\* A call that takes a state of its shape leaves the others.
LEMMA CallMoves ==
  ASSUME NEW c \in Clients, NEW s, Audit!Carries(s), Audit!CallsTyped, Audit!Become(c, s)
  PROVE  Audit!CallsTyped'
BY DEF Audit!CallsTyped, Audit!Become

\* Every step keeps the types of the rows and alerts.
LEMMA AuditTypes ==
  ASSUME Audit!Typed, Audit!CallsTyped, [Audit!Next]_Audit!vars
  PROVE  Audit!Typed'
<1>1. ASSUME NEW c \in Clients, Audit!Call(c) PROVE Audit!Typed'
  BY <1>1 DEF Audit!Typed, Audit!Call, Audit!Started
<1>2. ASSUME NEW c \in Clients, Audit!Persist(c) PROVE Audit!Typed'
  BY <1>2 DEF Audit!Typed, Audit!Persist, Audit!UpsertRow, Audit!Fault
<1>3. ASSUME NEW c \in Clients, Audit!LookForAlert(c) PROVE Audit!Typed'
  BY <1>3 DEF Audit!Typed, Audit!LookForAlert, Audit!Fault
<1>4. ASSUME NEW c \in Clients, Audit!WriteAlert(c) PROVE Audit!Typed'
  <2>1. call[c].attempt \in Executions
    BY <1>4 DEF Audit!CallsTyped, Audit!Carries, Audit!WriteAlert, Audit!At
  <2>2. lost' \subseteq Executions /\ auditFaults' \in Nat
    BY <1>4, <2>1 DEF Audit!Typed, Audit!WriteAlert, Audit!Fault
  <2>3. alert' \in [Executions -> BOOLEAN]
    BY <1>4, <2>1, Zenon DEF Audit!Typed, Audit!WriteAlert
  <2>. QED BY <1>4, <2>2, <2>3 DEF Audit!Typed, Audit!WriteAlert
<1>5. ASSUME NEW c \in Clients, Audit!Degrade(c) PROVE Audit!Typed'
  BY <1>5 DEF Audit!Typed, Audit!Degrade, Audit!Fault
<1>6. ASSUME NEW c \in Clients, Audit!Resolve(c) PROVE Audit!Typed'
  <2>1. alert' \in [Executions -> BOOLEAN]
    BY <1>6 DEF Audit!Typed, Audit!Resolve, Audit!ResolveAlert
  <2>. QED BY <1>6, <2>1 DEF Audit!Typed, Audit!Resolve, Audit!Fault
<1>7. ASSUME NEW c \in Clients, Audit!CountAlerts(c) PROVE Audit!Typed'
  BY <1>7 DEF Audit!Typed, Audit!CountAlerts, Audit!Fault
<1>8. ASSUME NEW c \in Clients, Audit!Report(c) PROVE Audit!Typed'
  BY <1>8 DEF Audit!Typed, Audit!Report, Audit!Fault
<1>9. CASE UNCHANGED Audit!vars
  BY <1>9 DEF Audit!Typed, Audit!vars, Audit!At
<1>. QED
  BY <1>1, <1>2, <1>3, <1>4, <1>5, <1>6, <1>7, <1>8, <1>9 DEF Audit!Next, Audit!Step

\* The states that a step of a call leads to have their shape.
LEMMA Forms ==
  ASSUME NEW s, Audit!Carries(s)
  PROVE  /\ \A p \in {"idle", "look", "alert", "degrade", "resolve", "count", "report"} :
              s.pc # "idle" => Audit!Carries([s EXCEPT !.pc = p])
         /\ \A b \in BOOLEAN : s.pc # "idle" =>
              /\ Audit!Carries([s EXCEPT !.pc = "alert", !.seen = b])
              /\ \A p \in {"count", "report"} : Audit!Carries([s EXCEPT !.pc = p, !.degraded = b])
BY DEF Audit!Carries, Audit!Shapes

\* A handler that is idle
LEMMA IdleForm == Audit!Carries(Audit!Idle)
BY DEF Audit!Carries, Audit!Shapes, Audit!Idle

\* Every step keeps the types of the calls.
LEMMA CallTypes ==
  ASSUME Audit!Typed, Audit!CallsTyped, [Audit!Next]_Audit!vars
  PROVE  Audit!CallsTyped'
<1>1. ASSUME NEW c \in Clients, Audit!Call(c) PROVE Audit!CallsTyped'
  <2>. PICK a \in Executions, value \in {"absent", "invalid", "valid"}, required \in BOOLEAN :
         Audit!Started(c, a, value, required)
    BY <1>1 DEF Audit!Call
  <2>1. Audit!Carries([Audit!Idle EXCEPT !.pc = "persist", !.attempt = a, !.value = value, !.required = required])
    BY DEF Audit!Carries, Audit!Shapes, Audit!Idle
  <2>. QED BY <2>1, CallMoves DEF Audit!Started
<1>. SUFFICES ASSUME NEW c \in Clients, Audit!Step(c) \/ UNCHANGED Audit!vars PROVE Audit!CallsTyped'
  BY <1>1 DEF Audit!Next, Audit!CallsTyped, Audit!vars
<1>2. CASE Audit!Persist(c)
  BY <1>2, Forms, CallMoves DEF Audit!CallsTyped, Audit!Persist, Audit!Issue, Audit!At, Audit!Goto
<1>3. CASE Audit!LookForAlert(c)
  <2>1. alert[call[c].attempt] \in BOOLEAN
    BY <1>3 DEF Audit!Typed, Audit!CallsTyped, Audit!Carries, Audit!LookForAlert, Audit!At
  <2>. QED BY <1>3, <2>1, Forms, CallMoves DEF Audit!CallsTyped, Audit!LookForAlert, Audit!At, Audit!Goto
<1>4. CASE Audit!WriteAlert(c)
  BY <1>4, Forms, CallMoves DEF Audit!CallsTyped, Audit!WriteAlert, Audit!At, Audit!Goto
<1>5. CASE Audit!Degrade(c)
  BY <1>5, IdleForm, CallMoves DEF Audit!Degrade
<1>6. CASE Audit!Resolve(c)
  BY <1>6, Forms, CallMoves DEF Audit!CallsTyped, Audit!Resolve, Audit!At, Audit!Goto
<1>7. CASE Audit!CountAlerts(c)
  <2>1. (call[c].degraded \/ Audit!Unresolved(c)) \in BOOLEAN
    OBVIOUS
  <2>. QED BY <1>7, <2>1, Forms, CallMoves DEF Audit!CallsTyped, Audit!CountAlerts, Audit!At
<1>8. CASE Audit!Report(c)
  BY <1>8, IdleForm, CallMoves DEF Audit!Report
<1>9. CASE UNCHANGED Audit!vars
  BY <1>9 DEF Audit!CallsTyped, Audit!vars
<1>. QED
  BY <1>2, <1>3, <1>4, <1>5, <1>6, <1>7, <1>8, <1>9 DEF Audit!Step

\* A call goes to its next step and keeps the rest.
LEMMA CallGoes ==
  ASSUME NEW c \in Clients, NEW p, Audit!CallsTyped, Audit!Goto(c, p)
  PROVE  /\ Others(c) /\ call'[c].pc = p /\ call'[c].attempt = call[c].attempt
         /\ call'[c].seen = call[c].seen /\ call'[c].degraded = call[c].degraded
<1>. call[c] \in Audit!Shapes
  BY DEF Audit!CallsTyped, Audit!Carries
<1>. QED BY DEF Audit!CallsTyped, Audit!Shapes, Audit!Goto, Audit!Become, Others

\* A call notes whether there was an alert.
LEMMA CallSees ==
  ASSUME NEW c \in Clients, NEW p, NEW b, Audit!CallsTyped, Audit!Become(c, [call[c] EXCEPT !.pc = p, !.seen = b])
  PROVE  Others(c) /\ call'[c].pc = p /\ call'[c].attempt = call[c].attempt /\ call'[c].seen = b
<1>. call[c] \in Audit!Shapes
  BY DEF Audit!CallsTyped, Audit!Carries
<1>. QED BY DEF Audit!CallsTyped, Audit!Shapes, Audit!Become, Others

\* A call notes whether the health is degraded.
LEMMA CallDegrades ==
  ASSUME NEW c \in Clients, NEW p, NEW b, Audit!CallsTyped, Audit!Become(c, [call[c] EXCEPT !.pc = p, !.degraded = b])
  PROVE  Others(c) /\ call'[c].pc = p /\ call'[c].attempt = call[c].attempt /\ call'[c].degraded = b
<1>. call[c] \in Audit!Shapes
  BY DEF Audit!CallsTyped, Audit!Carries
<1>. QED BY DEF Audit!CallsTyped, Audit!Shapes, Audit!Become, Others

\* What persisting a usage does: it writes the row, or finds the usage missing, or fails.
LEMMA PersistDoes ==
  ASSUME NEW c \in Clients, Audit!Typed, Audit!CallsTyped, Audit!Persist(c)
  PROVE  /\ call[c].pc = "persist" /\ call[c].attempt \in Executions
         /\ Others(c) /\ call'[c].attempt = call[c].attempt
         /\ call'[c].degraded = call[c].degraded
         /\ \/ rows' = rows /\ call'[c].pc \in {"idle", "look"}
            \/ /\ rows'[call[c].attempt] = 1 /\ call'[c].pc = "resolve"
               /\ \A a \in Executions : rows'[a] \in {rows[a], 1}
         /\ alert' = alert /\ health' = health /\ lost' = lost /\ overlapped' = overlapped
         /\ auditFaults' \in {auditFaults, auditFaults + 1}
<1>1. call[c].pc = "persist" /\ call[c].attempt \in Executions
  BY DEF Audit!Persist, Audit!At, Audit!CallsTyped, Audit!Carries
<1>2. CASE Audit!Issue(c) /\ UNCHANGED rows
  BY <1>1, <1>2, CallGoes DEF Audit!Issue, Audit!Persist, Audit!Fault
<1>3. CASE rows' = Audit!UpsertRow(call[c].attempt) /\ Audit!Goto(c, "resolve")
  BY <1>1, <1>3, CallGoes DEF Audit!Typed, Audit!UpsertRow, Audit!Persist, Audit!Fault
<1>. QED BY <1>2, <1>3 DEF Audit!Persist

\* What looking for an alert does: it notes the alert of its attempt, or fails.
LEMMA LookDoes ==
  ASSUME NEW c \in Clients, Audit!CallsTyped, Audit!LookForAlert(c)
  PROVE  /\ call[c].pc = "look" /\ call[c].attempt \in Executions
         /\ Others(c) /\ call'[c].attempt = call[c].attempt
         /\ \/ /\ call'[c].pc = "alert" /\ (call'[c].seen <=> alert[call[c].attempt])
               /\ auditFaults' = auditFaults
            \/ call'[c].pc = "degrade" /\ Audit!Fault
         /\ UNCHANGED <<rows, alert, health, lost, overlapped>>
<1>1. call[c].pc = "look" /\ call[c].attempt \in Executions
  BY DEF Audit!LookForAlert, Audit!At, Audit!CallsTyped, Audit!Carries
<1>2. CASE Audit!Become(c, [call[c] EXCEPT !.pc = "alert", !.seen = alert[call[c].attempt]]) /\ UNCHANGED <<lost, auditFaults>>
  <2>1. Others(c) /\ call'[c].pc = "alert" /\ call'[c].attempt = call[c].attempt /\ call'[c].seen = alert[call[c].attempt]
    BY <1>2, CallSees, Zenon
  <2>. QED BY <1>1, <1>2, <2>1 DEF Audit!LookForAlert
<1>3. CASE Audit!Fault /\ Audit!Goto(c, "degrade") /\ UNCHANGED lost
  BY <1>1, <1>3, CallGoes DEF Audit!LookForAlert
<1>. QED BY <1>2, <1>3 DEF Audit!LookForAlert

\* What raising an alert does: the alert is raised unless it was seen, or the write fails.
LEMMA WriteDoes ==
  ASSUME NEW c \in Clients, Audit!Typed, Audit!CallsTyped, Audit!WriteAlert(c)
  PROVE  /\ call[c].pc = "alert" /\ call[c].attempt \in Executions
         /\ Others(c) /\ call'[c].attempt = call[c].attempt /\ call'[c].pc = "degrade"
         /\ \/ /\ alert'[call[c].attempt] <=> alert[call[c].attempt] \/ ~call[c].seen
               /\ \A a \in Executions : a # call[c].attempt => alert'[a] = alert[a]
               /\ lost' = lost \cup {call[c].attempt} /\ auditFaults' = auditFaults
            \/ Audit!Fault /\ UNCHANGED <<alert, lost>>
         /\ UNCHANGED <<rows, health, overlapped>>
<1>1. call[c].pc = "alert" /\ call[c].attempt \in Executions
  BY DEF Audit!WriteAlert, Audit!At, Audit!CallsTyped, Audit!Carries
<1>2. DOMAIN alert = Executions
  BY DEF Audit!Typed
<1>. QED BY <1>1, <1>2, CallGoes, Zenon DEF Audit!WriteAlert

\* What resolving does: the alert of the attempt is resolved, or the write fails.
LEMMA ResolveDoes ==
  ASSUME NEW c \in Clients, Audit!Typed, Audit!CallsTyped, Audit!Resolve(c)
  PROVE  /\ call[c].pc = "resolve" /\ call[c].attempt \in Executions
         /\ Others(c) /\ call'[c].attempt = call[c].attempt /\ call'[c].pc = "count"
         /\ \/ /\ ~alert'[call[c].attempt]
               /\ \A a \in Executions : a # call[c].attempt => alert'[a] = alert[a]
               /\ auditFaults' = auditFaults /\ call'[c].degraded = call[c].degraded
            \/ Audit!Fault /\ UNCHANGED alert
         /\ UNCHANGED <<rows, health, lost, overlapped>>
<1>1. call[c].pc = "resolve" /\ call[c].attempt \in Executions
  BY DEF Audit!Resolve, Audit!At, Audit!CallsTyped, Audit!Carries
<1>2. DOMAIN alert = Executions
  BY DEF Audit!Typed
<1>. QED BY <1>1, <1>2, CallGoes, CallDegrades, Zenon DEF Audit!Resolve, Audit!ResolveAlert

\* What counting the unresolved alerts does: it learns whether another is left, or fails.
LEMMA CountDoes ==
  ASSUME NEW c \in Clients, Audit!CallsTyped, Audit!CountAlerts(c)
  PROVE  /\ call[c].pc = "count" /\ call[c].attempt \in Executions
         /\ Others(c) /\ call'[c].attempt = call[c].attempt /\ call'[c].pc = "report"
         /\ \/ (call'[c].degraded <=> call[c].degraded \/ Audit!Unresolved(c)) /\ auditFaults' = auditFaults
            \/ Audit!Fault
         /\ UNCHANGED <<rows, alert, health, lost, overlapped>>
<1>1. call[c].pc = "count" /\ call[c].attempt \in Executions
  BY DEF Audit!CountAlerts, Audit!At, Audit!CallsTyped, Audit!Carries
<1>. QED BY <1>1, CallDegrades, Zenon DEF Audit!CountAlerts

\* A call that ended concerns no other.
LEMMA IdleAgain ==
  ASSUME NEW c \in Clients, Audit!CallsTyped, Audit!Become(c, Audit!Idle)
  PROVE  Others(c) /\ call'[c].pc = "idle"
BY DEF Audit!CallsTyped, Audit!Become, Others, Audit!Idle

\* A usage that is missing has its alert or, since, its row.
LEMMA AuditBacked ==
  ASSUME Audit!Typed, Audit!CallsTyped, Audit!Backed, Audit!MissingIsAlerted, [Audit!Next]_Audit!vars
  PROVE  Audit!Backed' /\ Audit!MissingIsAlerted'
<1>. USE DEF Audit!Backed, Audit!MissingIsAlerted, Audit!At, Others
<1>0. /\ lost \subseteq Executions
      /\ \A d \in Clients : call[d].pc # "idle" => call[d].attempt \in Executions
  BY DEF Audit!Typed, Audit!CallsTyped, Audit!Carries
<1>1. ASSUME NEW c \in Clients, Audit!Call(c) PROVE Audit!Backed' /\ Audit!MissingIsAlerted'
  BY <1>1 DEF Audit!CallsTyped, Audit!Call, Audit!Started, Audit!Become, Audit!Idle
<1>2. ASSUME NEW c \in Clients, Audit!Persist(c) PROVE Audit!Backed' /\ Audit!MissingIsAlerted'
  <2>1. Audit!Backed' BY <1>0, <1>2, PersistDoes
  <2>2. Audit!MissingIsAlerted' BY <1>0, <1>2, PersistDoes
  <2>. QED BY <2>1, <2>2
<1>3. ASSUME NEW c \in Clients, Audit!LookForAlert(c) PROVE Audit!Backed' /\ Audit!MissingIsAlerted'
  <2>1. Audit!Backed' BY <1>0, <1>3, LookDoes
  <2>2. Audit!MissingIsAlerted' BY <1>0, <1>3, LookDoes
  <2>. QED BY <2>1, <2>2
<1>4. ASSUME NEW c \in Clients, Audit!WriteAlert(c) PROVE Audit!Backed' /\ Audit!MissingIsAlerted'
  <2>1. Audit!Backed' BY <1>0, <1>4, WriteDoes
  <2>2. Audit!MissingIsAlerted' BY <1>0, <1>4, WriteDoes
  <2>. QED BY <2>1, <2>2
<1>5. ASSUME NEW c \in Clients, Audit!Degrade(c) PROVE Audit!Backed' /\ Audit!MissingIsAlerted'
  <2>1. Audit!Backed' BY <1>0, <1>5, IdleAgain DEF Audit!Degrade
  <2>2. Audit!MissingIsAlerted' BY <1>0, <1>5, IdleAgain DEF Audit!Degrade
  <2>. QED BY <2>1, <2>2
<1>6. ASSUME NEW c \in Clients, Audit!Resolve(c) PROVE Audit!Backed' /\ Audit!MissingIsAlerted'
  <2>1. Audit!Backed' BY <1>0, <1>6, ResolveDoes
  <2>2. Audit!MissingIsAlerted' BY <1>0, <1>6, ResolveDoes
  <2>. QED BY <2>1, <2>2
<1>7. ASSUME NEW c \in Clients, Audit!CountAlerts(c) PROVE Audit!Backed' /\ Audit!MissingIsAlerted'
  <2>1. Audit!Backed' BY <1>0, <1>7, CountDoes
  <2>2. Audit!MissingIsAlerted' BY <1>0, <1>7, CountDoes
  <2>. QED BY <2>1, <2>2
<1>8. ASSUME NEW c \in Clients, Audit!Report(c) PROVE Audit!Backed' /\ Audit!MissingIsAlerted'
  <2>1. Audit!Backed' BY <1>0, <1>8, IdleAgain DEF Audit!Report
  <2>2. Audit!MissingIsAlerted' BY <1>0, <1>8, IdleAgain DEF Audit!Report
  <2>. QED BY <2>1, <2>2
<1>9. CASE UNCHANGED Audit!vars
  BY <1>9 DEF Audit!vars
<1>. QED
  BY <1>1, <1>2, <1>3, <1>4, <1>5, <1>6, <1>7, <1>8, <1>9 DEF Audit!Next, Audit!Step

\* While calls do not overlap and nothing fails, the health agrees with the alerts, or the
\* call under way knows.
LEMMA AuditInformed ==
  ASSUME Audit!Typed, Audit!CallsTyped, Audit!Alone, Audit!Informed, [Audit!Next]_Audit!vars
  PROVE  Audit!Alone' /\ Audit!Informed'
<1>. USE DEF Audit!Alone, Audit!Informed, Audit!HealthAgrees, Audit!Unresolved, Audit!At, Others, Audit!Fault
<1>0. /\ auditFaults \in Nat
      /\ \A d \in Clients : call[d].pc # "idle" => call[d].attempt \in Executions
  BY DEF Audit!Typed, Audit!CallsTyped, Audit!Carries
<1>1. ASSUME NEW c \in Clients, Audit!Call(c) PROVE Audit!Alone' /\ Audit!Informed'
  <2>. PICK a \in Executions, value \in {"absent", "invalid", "valid"}, required \in BOOLEAN :
         Audit!Started(c, a, value, required)
    BY <1>1 DEF Audit!Call
  <2>1. Others(c) /\ call'[c].pc = "persist" /\ ~call'[c].degraded
    BY DEF Audit!CallsTyped, Audit!Started, Audit!Become, Audit!Idle
  <2>2. /\ overlapped' <=> overlapped \/ \E d \in Clients : call[d].pc # "idle"
        /\ call[c].pc = "idle" /\ UNCHANGED <<rows, alert, health, lost, auditFaults>>
    BY Zenon DEF Audit!Started
  <2>3. Audit!Alone' BY <2>1, <2>2
  <2>4. Audit!Informed' BY <2>1, <2>2
  <2>. QED BY <2>3, <2>4
<1>2. ASSUME NEW c \in Clients, Audit!Persist(c) PROVE Audit!Alone' /\ Audit!Informed'
  <2>1. Audit!Alone' BY <1>0, <1>2, PersistDoes
  <2>2. Audit!Informed' BY <1>0, <1>2, PersistDoes
  <2>. QED BY <2>1, <2>2
<1>3. ASSUME NEW c \in Clients, Audit!LookForAlert(c) PROVE Audit!Alone' /\ Audit!Informed'
  <2>1. Audit!Alone' BY <1>0, <1>3, LookDoes
  <2>2. Audit!Informed' BY <1>0, <1>3, LookDoes
  <2>. QED BY <2>1, <2>2
<1>4. ASSUME NEW c \in Clients, Audit!WriteAlert(c) PROVE Audit!Alone' /\ Audit!Informed'
  <2>1. Audit!Alone' BY <1>0, <1>4, WriteDoes
  <2>2. Audit!Informed' BY <1>0, <1>4, WriteDoes
  <2>. QED BY <2>1, <2>2
<1>5. ASSUME NEW c \in Clients, Audit!Degrade(c) PROVE Audit!Alone' /\ Audit!Informed'
  <2>1. Audit!Alone' BY <1>0, <1>5, IdleAgain DEF Audit!Degrade
  <2>2. Audit!Informed' BY <1>0, <1>5, IdleAgain DEF Audit!Degrade
  <2>. QED BY <2>1, <2>2
<1>6. ASSUME NEW c \in Clients, Audit!Resolve(c) PROVE Audit!Alone' /\ Audit!Informed'
  <2>1. Audit!Alone' BY <1>0, <1>6, ResolveDoes
  <2>2. Audit!Informed' BY <1>0, <1>6, ResolveDoes
  <2>. QED BY <2>1, <2>2
<1>7. ASSUME NEW c \in Clients, Audit!CountAlerts(c) PROVE Audit!Alone' /\ Audit!Informed'
  <2>1. Audit!Alone' BY <1>0, <1>7, CountDoes
  <2>2. Audit!Informed' BY <1>0, <1>7, CountDoes
  <2>. QED BY <2>1, <2>2
<1>8. ASSUME NEW c \in Clients, Audit!Report(c) PROVE Audit!Alone' /\ Audit!Informed'
  <2>1. Audit!Alone' BY <1>0, <1>8, IdleAgain DEF Audit!Report
  <2>2. Audit!Informed' BY <1>0, <1>8, IdleAgain DEF Audit!Report
  <2>. QED BY <2>1, <2>2
<1>9. CASE UNCHANGED Audit!vars
  BY <1>9 DEF Audit!vars
<1>. QED
  BY <1>1, <1>2, <1>3, <1>4, <1>5, <1>6, <1>7, <1>8, <1>9 DEF Audit!Next, Audit!Step

\* The inductive invariant of the usage audit, for any attempts, callers and faults.
THEOREM AuditInvariant == Audit!Spec => []Audit!AuditInv
<1>1. Audit!Init => Audit!AuditInv
  BY DEF Audit!Init, Audit!AuditInv, Audit!Typed, Audit!CallsTyped, Audit!Carries, Audit!Shapes,
         Audit!Backed, Audit!MissingIsAlerted, Audit!Alone, Audit!Informed, Audit!HealthAgrees,
         Audit!Unresolved, Audit!Idle, Audit!At
<1>2. Audit!AuditInv /\ [Audit!Next]_Audit!vars => Audit!AuditInv'
  BY AuditTypes, CallTypes, AuditBacked, AuditInformed DEF Audit!AuditInv
<1>. QED BY <1>1, <1>2, PTL DEF Audit!Spec

\* The invariant says what the run checks: a missing usage is alerted, and the health is true.
LEMMA AuditTold == Audit!AuditInv => Audit!MissingIsAlerted /\ Audit!HealthIsTrue
BY DEF Audit!AuditInv, Audit!HealthIsTrue, Audit!Informed, Audit!Quiet, Audit!At

-----------------------------------------------------------------------------
(* The price of a model call                                                *)

asked == x1
reserved == x2
reported == x3
USE DEF asked, reserved, reported

\* Ceil rounds up.
LEMMA RoundsUp ==
  ASSUME NEW a \in Nat, NEW b \in Nat \ {0}
  PROVE  Policy!Ceil(a, b) \in Nat /\ a <= Policy!Ceil(a, b) * b
<1>. DEFINE x == a + b - 1
            q == x \div b
<1>1. x \in Nat /\ q \in Int /\ b * q <= x /\ x < b * q + b
  OBVIOUS
<1>2. q >= 0
  OBVIOUS
<1>3. a <= b * q
  BY <1>1
<1>. QED BY <1>1, <1>2, <1>3 DEF Policy!Ceil

\* A quotient is at most what its dividend is a multiple of.
LEMMA DivMonotone ==
  ASSUME NEW a \in Nat, NEW d \in Nat \ {0}, NEW q \in Nat, a <= q * d
  PROVE  a \div d \in Nat /\ a \div d <= q
OBVIOUS

\* Products of larger numbers are larger.
LEMMA TimesMonotone ==
  ASSUME NEW a \in Nat, NEW b \in Nat, NEW c \in Nat, NEW d \in Nat, a <= c, b <= d
  PROVE  a * b \in Nat /\ a * b <= c * d
OBVIOUS

\* The pixels of an image are at most those of the patches that cover it.
LEMMA PatchesCover ==
  ASSUME NEW image \in Policy!Images, NEW perPatch \in {1, 4}
  PROVE  Policy!Seen(image, perPatch) \in Nat /\ 4 * Policy!PatchCount(image) \in Nat
         /\ Policy!Seen(image, perPatch) <= 4 * Policy!PatchCount(image)
<1>. PICK w \in Nat, h \in Nat : w = image.width /\ h = image.height
  BY PolicyAssumed DEF Policy!Images, Policy!PolicyAssumption
<1>. PICK P \in Nat \ {0} : P = Patch
  BY PolicyAssumed DEF Policy!PolicyAssumption
<1>. PICK cw \in Nat, ch \in Nat : cw = Policy!Ceil(w, P) /\ ch = Policy!Ceil(h, P) /\ w <= cw * P /\ h <= ch * P
  BY RoundsUp
<1>1. w * h \in Nat /\ w * h <= (cw * P) * (ch * P)
  BY TimesMonotone
<1>2. (cw * P) * (ch * P) = (cw * ch) * (P * P)
  OBVIOUS
<1>. PICK area \in Nat : area = w * h
  BY <1>1
<1>. PICK patches \in Nat : patches = cw * ch
  OBVIOUS
<1>. PICK square \in Nat \ {0} : square = P * P
  OBVIOUS
<1>3. area <= patches * square
  BY <1>1, <1>2
<1>4. perPatch * area <= (4 * patches) * square /\ perPatch * area \in Nat
  BY <1>3
<1>. PICK pixels \in Nat, tokens \in Nat : pixels = perPatch * area /\ tokens = 4 * patches
  BY <1>4
<1>5. pixels \div square \in Nat /\ pixels \div square <= tokens
  BY <1>4, DivMonotone
<1>6. (perPatch * w) * h = perPatch * area
  OBVIOUS
<1>7. Policy!Seen(image, perPatch) = pixels \div square /\ Policy!PatchCount(image) = patches
  BY <1>6 DEF Policy!Seen, Policy!PatchCount
<1>. QED BY <1>5, <1>7

\* The estimate of a request covers the tokens that its text and images can make.
LEMMA Estimated ==
  ASSUME NEW r \in Policy!Requests, NEW perPatch \in {1, 4}
  PROVE  LET seen == Policy!Sum([i \in DOMAIN r.images |-> Policy!Seen(r.images[i], perPatch)])
         IN  /\ Policy!estimateRequestInputTokens(r) \in Nat
             /\ \A text \in {1, r.text} : text + seen \in 0..Policy!estimateRequestInputTokens(r)
<1>. PICK n \in Nat : r.images \in [1..n -> Policy!Images]
  BY DEF Policy!Requests
<1>. DEFINE D == DOMAIN r.images
            f == [i \in D |-> Policy!Seen(r.images[i], perPatch)]
            g == [i \in D |-> 4 * Policy!PatchCount(r.images[i])]
<1>1. D = 1..n /\ IsFiniteSet(D)
  BY FS_Interval
<1>2. f \in [D -> Nat] /\ g \in [D -> Nat] /\ \A i \in D : f[i] <= g[i]
  BY <1>1, PatchesCover
<1>3. SumOf(f, D) \in Nat /\ SumOf(g, D) \in Nat /\ SumOf(f, D) <= SumOf(g, D)
  BY <1>1, <1>2, SumOfType, SumOfLess
<1>4. Policy!Sum(f) = SumOf(f, D) /\ Policy!Sum(g) = SumOf(g, D)
  BY DEF Policy!Sum, Policy!MapThenSumSet, Policy!MapThenFoldSet, SumOf, MapThenSumSet, MapThenFoldSet
<1>5. r.text \in Nat \ {0} /\ Overhead \in Nat
  BY PolicyAssumed DEF Policy!Requests, Policy!PolicyAssumption
<1>6. Policy!estimateRequestInputTokens(r) = r.text + Overhead + SumOf(g, D)
  BY <1>4 DEF Policy!estimateRequestInputTokens
<1>. QED BY <1>3, <1>4, <1>5, <1>6

\* More tokens cost at least as much, the reserved rates are the highest of a model, and the
\* debited ones are at least those reported.
LEMMA Covered ==
  ASSUME NEW model \in Policy!Models, NEW tier \in Policy!Tiers, NEW tokens \in Nat, NEW output \in Nat,
         NEW most \in Nat, NEW limit \in Nat, tokens <= most, output <= limit
  PROVE  /\ Policy!enforcementUsageCostMicros(model, tier, tokens, output)
              <= Policy!reservationCostMicros(model, tier, most, limit)
         /\ Policy!usageCostMicros(model, tier, tokens, output)
              <= Policy!enforcementUsageCostMicros(model, tier, tokens, output)
<1>. PICK out \in Nat, in \in Nat : out = Policy!OutRate(model, tokens) /\ in = Policy!InRate(model, tokens)
                /\ out <= Policy!Rates[model].longOut /\ in <= Policy!Rates[model].reserve
  BY DEF Policy!OutRate, Policy!InRate, Policy!Rates, Policy!Models
<1>. PICK long \in {180, 90, 36}, keep \in {50, 25, 10} : long = Policy!Rates[model].longOut /\ keep = Policy!Rates[model].reserve
  BY DEF Policy!Rates, Policy!Models
<1>. PICK m \in {1, 2} : m = Policy!Multiplier(tier)
  BY DEF Policy!Multiplier
<1>1. tokens * keep <= most * keep /\ tokens * keep \in Nat /\ most * keep \in Nat
  OBVIOUS
<1>2. output * out <= limit * long /\ output * out \in Nat /\ limit * long \in Nat
  BY TimesMonotone
<1>3. tokens * in <= tokens * keep /\ tokens * in \in Nat
  BY TimesMonotone
<1>4. \A a, b \in Nat : a <= b => Policy!Ceil(a * m, 4) <= Policy!Ceil(b * m, 4)
  BY DEF Policy!Ceil
<1>7. PICK read, kept, priced, wrote, held \in Nat :
        /\ read = tokens * in /\ kept = tokens * keep /\ priced = most * keep
        /\ wrote = output * out /\ held = limit * long
  BY <1>1, <1>2, <1>3
<1>8. kept + wrote <= priced + held /\ read + wrote <= kept + wrote
  BY <1>1, <1>2, <1>3, <1>7
<1>9. {read + wrote, kept + wrote, priced + held} \subseteq Nat
  OBVIOUS
<1>5. Policy!Ceil((kept + wrote) * m, 4) <= Policy!Ceil((priced + held) * m, 4)
  BY <1>4, <1>8, <1>9
<1>6. Policy!Ceil((read + wrote) * m, 4) <= Policy!Ceil((kept + wrote) * m, 4)
  BY <1>4, <1>8, <1>9
<1>. QED BY <1>5, <1>6, <1>7
         DEF Policy!enforcementUsageCostMicros, Policy!reservationCostMicros, Policy!usageCostMicros

\* The inductive invariant of a call: it was priced for the most it can cost, whatever the sizes
\* and limits.
THEOREM PolicyInvariant == Policy!Spec => []Policy!PolicyInv
<1>1. Policy!Init => Policy!PolicyInv
  BY DEF Policy!Init, Policy!PolicyInv
<1>2. Policy!PolicyInv /\ [Policy!Next]_Policy!vars => Policy!PolicyInv'
  <2>. SUFFICES ASSUME Policy!PolicyInv, [Policy!Next]_Policy!vars PROVE Policy!PolicyInv'
    OBVIOUS
  <2>1. CASE Policy!Reserve
    BY <2>1 DEF Policy!PolicyInv, Policy!Reserve
  <2>2. CASE Policy!Answer
    <3>. PICK text \in {1, asked.text}, perPatch \in {1, 4}, output \in {0, asked.limit} :
           reported' = [input |-> text + Policy!Sum([i \in DOMAIN asked.images |-> Policy!Seen(asked.images[i], perPatch)]),
                     output |-> output]
      BY <2>2 DEF Policy!Answer
    <3>1. reported'.input \in 0..Policy!estimateRequestInputTokens(asked)
      BY Estimated DEF Policy!PolicyInv
    <3>. PICK limit \in Nat : limit = asked.limit
      BY PolicyAssumed DEF Policy!PolicyInv, Policy!Requests, Policy!PolicyAssumption
    <3>2. reported'.output \in 0..limit
      OBVIOUS
    <3>. QED BY <2>2, <3>1, <3>2 DEF Policy!PolicyInv, Policy!Answer
  <2>3. CASE UNCHANGED Policy!vars
    BY <2>3 DEF Policy!PolicyInv, Policy!vars
  <2>. QED BY <2>1, <2>2, <2>3 DEF Policy!Next
<1>. QED BY <1>1, <1>2, PTL DEF Policy!Spec

\* The invariant says what the run checks: the reservation covers the debit, and the debit the
\* report.
LEMMA PolicyTold == Policy!PolicyInv => Policy!ReservationCovers /\ Policy!ReportIsDebited
<1>. SUFFICES ASSUME Policy!PolicyInv, reported # Policy!NoUsage PROVE Policy!Report <= Policy!Debit /\ Policy!Debit <= reserved
  BY DEF Policy!ReservationCovers, Policy!ReportIsDebited
<1>1. /\ asked.model \in Policy!Models /\ asked.tier \in Policy!Tiers /\ asked.limit \in Nat /\ asked \in Policy!Requests
  BY PolicyAssumed DEF Policy!PolicyInv, Policy!Requests, Policy!PolicyAssumption
<1>2. Policy!estimateRequestInputTokens(asked) \in Nat
  BY <1>1, Estimated
<1>3. /\ reserved = Policy!reservationCostMicros(asked.model, asked.tier,
                                          Policy!estimateRequestInputTokens(asked), asked.limit)
      /\ reported.input \in 0..Policy!estimateRequestInputTokens(asked) /\ reported.output \in 0..asked.limit
  BY DEF Policy!PolicyInv
<1>. QED BY <1>1, <1>2, <1>3, Covered DEF Policy!Report, Policy!Debit

-----------------------------------------------------------------------------
(* The properties of the runs.  A behaviour keeps to the part it begins with *)
(* and is a behaviour of that component, whose theorems then apply to it.    *)

\* A behaviour of the broker's part is one of the broker.
LEMMA BrokerPart == Spec => ([](part = "broker") /\ Broker!Spec) \/ [](~(part = "broker"))
<1>1. Init /\ part = "broker" => Broker!Init
  BY DEF Init
<1>2. part = "broker" /\ [Next]_vars => [Broker!Next]_Broker!vars
  BY DEF Next, vars, xs, Broker!vars, Broker!records, Broker!world, Broker!sweeps, Broker!history
<1>3. part = "broker" /\ [Next]_vars => (part = "broker")'
  BY DEF Next, vars
<1>4. ~(part = "broker") /\ [Next]_vars => (~(part = "broker"))'
  BY DEF Next, vars
<1>. QED BY <1>1, <1>2, <1>3, <1>4, PTL DEF Spec, Broker!Spec

\* Also where the host has room for one execution.
LEMMA FullBrokerPart == Spec => ([](part = "full broker") /\ FullBroker!Spec) \/ [](~(part = "full broker"))
<1>1. Init /\ part = "full broker" => FullBroker!Init
  BY DEF Init
<1>2. part = "full broker" /\ [Next]_vars => [FullBroker!Next]_FullBroker!vars
  BY DEF Next, vars, xs, FullBroker!vars, FullBroker!records, FullBroker!world, FullBroker!sweeps,
         FullBroker!history
<1>3. part = "full broker" /\ [Next]_vars => (part = "full broker")'
  BY DEF Next, vars
<1>4. ~(part = "full broker") /\ [Next]_vars => (~(part = "full broker"))'
  BY DEF Next, vars
<1>. QED BY <1>1, <1>2, <1>3, <1>4, PTL DEF Spec, FullBroker!Spec

\* A behaviour of the budget's part is one of the egress proxy and its ledger.
LEMMA BudgetPart == Spec => ([](part = "budget") /\ Budget!Spec) \/ [](~(part = "budget"))
<1>1. Init /\ part = "budget" => Budget!Init
  BY DEF Init
<1>2. part = "budget" /\ [Next]_vars => [Budget!Next]_Budget!vars
  BY DEF Next, vars, xs, Budget!vars, Budget!registry, Budget!control, Budget!money
<1>3. part = "budget" /\ [Next]_vars => (part = "budget")'
  BY DEF Next, vars
<1>4. ~(part = "budget") /\ [Next]_vars => (~(part = "budget"))'
  BY DEF Next, vars
<1>. QED BY <1>1, <1>2, <1>3, <1>4, PTL DEF Spec, Budget!Spec

\* A behaviour of the processor's part is one of the processor.
LEMMA ProcessorPart == Spec => ([](part = "processor") /\ Analyses!Spec) \/ [](~(part = "processor"))
<1>1. Init /\ part = "processor" => Analyses!Init
  BY DEF Init
<1>2. part = "processor" /\ [Next]_vars => [Analyses!Next]_Analyses!vars
  BY DEF Next, vars, xs, Analyses!vars, Analyses!disk, Analyses!memory
<1>3. part = "processor" /\ [Next]_vars => (part = "processor")'
  BY DEF Next, vars
<1>4. ~(part = "processor") /\ [Next]_vars => (~(part = "processor"))'
  BY DEF Next, vars
<1>. QED BY <1>1, <1>2, <1>3, <1>4, PTL DEF Spec, Analyses!Spec

\* A behaviour of the audit's part is one of the usage audit.
LEMMA AuditPart == Spec => ([](part = "audit") /\ Audit!Spec) \/ [](~(part = "audit"))
<1>1. Init /\ part = "audit" => Audit!Init
  BY DEF Init
<1>2. part = "audit" /\ [Next]_vars => [Audit!Next]_Audit!vars
  BY DEF Next, vars, xs, Audit!vars
<1>3. part = "audit" /\ [Next]_vars => (part = "audit")'
  BY DEF Next, vars
<1>4. ~(part = "audit") /\ [Next]_vars => (~(part = "audit"))'
  BY DEF Next, vars
<1>. QED BY <1>1, <1>2, <1>3, <1>4, PTL DEF Spec, Audit!Spec

\* A behaviour of the policy's part prices one call.
LEMMA PolicyPart == Spec => ([](part = "policy") /\ Policy!Spec) \/ [](~(part = "policy"))
<1>1. Init /\ part = "policy" => Policy!Init
  BY DEF Init
<1>2. part = "policy" /\ [Next]_vars => [Policy!Next]_Policy!vars
  BY DEF Next, vars, xs, Policy!vars
<1>3. part = "policy" /\ [Next]_vars => (part = "policy")'
  BY DEF Next, vars
<1>4. ~(part = "policy") /\ [Next]_vars => (~(part = "policy"))'
  BY DEF Next, vars
<1>. QED BY <1>1, <1>2, <1>3, <1>4, PTL DEF Spec, Policy!Spec

\* Every runtime on the host has a record, a token that no record names belongs to an
\* execution without a runtime and without an accepted submission, every accepted
\* execution can be found after a restart, and whatever runs has its token.
THEOREM ExecutionsAreTrackedHolds == Spec => []ExecutionsAreTracked
<1>1. Broker!Spec => []Broker!RuntimesAreTracked
  BY BrokerAssumed, Broker!RuntimesAreTrackedHolds
<1>2. Broker!Spec => []Broker!LostTokensAreUnused
  BY BrokerAssumed, Broker!LostTokensAreUnusedHolds
<1>3. Broker!Spec => []Broker!AcceptedIsRecoverable
  BY BrokerAssumed, Broker!AcceptedIsRecoverableHolds
<1>4. Broker!Spec => []Broker!RunningHasToken
  BY BrokerAssumed, Broker!RunningHasTokenHolds
<1>5. ExecutionsAreTracked <=>
        (part = "broker" => Broker!RuntimesAreTracked /\ Broker!LostTokensAreUnused
                            /\ Broker!AcceptedIsRecoverable /\ Broker!RunningHasToken)
  BY DEF ExecutionsAreTracked
<1>. QED BY <1>1, <1>2, <1>3, <1>4, <1>5, BrokerPart, PTL

\* The host is a pool of runtimes with at most one for a takeoff, with room for several
\* executions and with room for one.
THEOREM PoolSpecHolds == Spec => PoolSpec
<1>1. Broker!Spec => Broker!Pool!Init /\ [][Broker!Pool!Next]_Broker!heldBar
  BY BrokerAssumed, Broker!ImplementsExecutionPool DEF Broker!PoolSpec, Broker!Pool!Spec
<1>2. FullBroker!Spec => FullBroker!Pool!Init /\ [][FullBroker!Pool!Next]_FullBroker!heldBar
  BY BrokerAssumed, FullBroker!ImplementsExecutionPool DEF FullBroker!PoolSpec, FullBroker!Pool!Spec
<1>3. [Broker!Pool!Next]_Broker!heldBar
        => [part = "broker" => UNCHANGED Broker!heldBar \/ Broker!Pool!Next]_vars
  OBVIOUS
<1>4. [FullBroker!Pool!Next]_FullBroker!heldBar
        => [part = "full broker" => UNCHANGED FullBroker!heldBar \/ FullBroker!Pool!Next]_vars
  OBVIOUS
<1>5. ~(part = "broker") => [part = "broker" => UNCHANGED Broker!heldBar \/ Broker!Pool!Next]_vars
  OBVIOUS
<1>6. ~(part = "full broker")
        => [part = "full broker" => UNCHANGED FullBroker!heldBar \/ FullBroker!Pool!Next]_vars
  OBVIOUS
<1>. QED BY <1>1, <1>2, <1>3, <1>4, <1>5, <1>6, BrokerPart, FullBrokerPart, PTL DEF PoolSpec

\* What is reserved is what is outstanding, everything charged is paid and within the budget,
\* and a call never costs more than was reserved for it, nor is more reported than debited.
THEOREM SpendingIsCoveredHolds == Spec => []SpendingIsCovered
<1>1. Budget!Spec => []Budget!Reconciles /\ []Budget!EverythingIsPaid /\ []Budget!WithinBudget
  BY BudgetAssumed, Budget!ReconcilesHolds, Budget!EverythingIsPaidHolds, Budget!WithinBudgetHolds
<1>2. SpendingIsCovered <=>
        /\ part = "budget" => Budget!Reconciles /\ Budget!EverythingIsPaid /\ Budget!WithinBudget
        /\ part = "policy" => Policy!ReservationCovers /\ Policy!ReportIsDebited
  BY DEF SpendingIsCovered
<1>. QED BY <1>1, <1>2, BudgetPart, PolicyPart, PolicyInvariant, PolicyTold, PTL

\* A budget that was overshot or closed takes nothing more, and the end of an analysis is
\* never rewritten.
THEOREM EndsAreFinalHolds == Spec => EndsAreFinal
<1>. DEFINE Final == /\ part = "budget" => Budget!OvershotIsStopped /\ Budget!ClosedForGood
                     /\ part = "processor" => Analyses!EndIsFinal
<1>1. Budget!Spec => [][Budget!OvershotIsStopped]_Budget!vars /\ [][Budget!ClosedForGood]_Budget!vars
  BY BudgetAssumed, Budget!OvershotIsStoppedHolds, Budget!ClosedForGoodHolds
<1>2. part = "budget" /\ [Next]_vars /\ [Budget!OvershotIsStopped]_Budget!vars
        /\ [Budget!ClosedForGood]_Budget!vars => [Final]_vars
  BY DEF Next, vars, xs, Budget!vars, Budget!registry, Budget!control, Budget!money
<1>3. part = "processor" /\ Analyses!ProcessorInv /\ [Next]_vars => [Final]_vars
  <2>. SUFFICES ASSUME part = "processor", Analyses!ProcessorInv, [Next]_vars
                PROVE  [Final]_vars
    OBVIOUS
  <2>1. CASE UNCHANGED vars
    BY <2>1
  <2>2. CASE Analyses!Next /\ ~UNCHANGED vars
    <3>1. [Analyses!EndIsFinal]_Analyses!vars
      BY <2>2, EndStays
    <3>2. UNCHANGED Analyses!vars => UNCHANGED vars
      BY DEF Next, vars, xs, Analyses!vars, Analyses!disk, Analyses!memory
    <3>. QED BY <2>2, <3>1, <3>2
  <2>. QED BY <2>1, <2>2 DEF Next
<1>4. ~(part = "budget") /\ ~(part = "processor") => [Final]_vars
  OBVIOUS
<1>. HIDE DEF Final
<1>5. Spec => [][Final]_vars
  BY <1>1, <1>2, <1>3, <1>4, BudgetPart, ProcessorPart, ProcessorInvariant, PTL DEF Spec
<1>. QED BY <1>5 DEF Final, EndsAreFinal

\* An analysis that ended has all it promises, no job is left behind, every paid turn is
\* reported, and a usage that could not be recorded is alerted.
THEOREM ResultsAreWholeHolds == Spec => []ResultsAreWhole
<1>1. ResultsAreWhole <=>
        /\ part = "processor" => Analyses!NobodyIsForgotten /\ Analyses!CompletedIsWhole
                                 /\ Analyses!PaidTurnsAreReported
        /\ part = "audit" => Audit!MissingIsAlerted /\ Audit!HealthIsTrue
  BY DEF ResultsAreWhole
<1>. QED BY <1>1, ProcessorPart, ProcessorInvariant, ProcessorTold, AuditPart, AuditInvariant, AuditTold, PTL
=============================================================================
