------------------------------- MODULE PlanUpload -------------------------------
(***************************************************************************)
(* A customer's order form and what it leaves behind: a draft takeoff, the *)
(* plan in storage, a quote, a started takeoff, and drafts that a cron job *)
(* expires after a day and removes the uploads of.                         *)
(*                                                                         *)
(* The form sends one request at a time.  A request is one step: the       *)
(* server refuses it, or handles it, and its answer may be lost.  What the *)
(* requests of several tabs do to one draft is in PlanVerification.        *)
(***************************************************************************)
EXTENDS Naturals, FiniteSets

CONSTANTS
  Contents,    \* what the form may hold: a plan with scopes, notes and page
  Large,       \* those whose plan is uploaded in pieces
  NoContent,
  Jobs, NoJob,
  Limit,       \* drafts that a customer may have unfinished
  Credit,      \* credits of the customer; a takeoff costs one
  MaxEdits,    \* bound: changes of the form
  MaxFaults,   \* bound: requests that fail before they are handled
  MaxLost      \* bound: answers that are lost

UploadAssumption ==
  /\ Large \subseteq Contents /\ NoContent \notin Contents /\ NoJob \notin Jobs
  /\ {Limit, Credit, MaxEdits, MaxFaults, MaxLost} \subseteq Nat

VARIABLES
  pc,        \* what the form is waiting for; idle when not busy
  content,   \* what it holds
  draft,     \* draftUpload
  uploaded,  \* uploadComplete
  quote,     \* the takeoff whose quote is shown
  told,      \* what the last confirmation was answered
  job,       \* takeoff_jobs with the input row and its object
  reserved,  \* credits reserved
  cron,      \* a run of the cron job
  edits, faults, lost

form == <<pc, content, draft, uploaded, quote, told>>
counters == <<edits, faults, lost>>
vars == <<form, job, reserved, cron, counters>>

NewJob(c, row) ==
  [status |-> "awaiting_upload", content |-> c, row |-> row, object |-> "none",
   verified |-> FALSE, cleaned |-> FALSE]

Unused == [NewJob(NoContent, FALSE) EXCEPT !.status = "none"]

Unfinished == {j \in Jobs : job[j].status \in {"awaiting_upload", "ready"}}
Started(j) == job[j].status \in {"queued", "processing"}

Init ==
  /\ pc = "idle" /\ content = NoContent /\ draft = NoJob /\ uploaded = FALSE
  /\ quote = NoJob /\ told = "nothing"
  /\ job = [j \in Jobs |-> Unused] /\ reserved = 0
  /\ cron = [pc |-> "idle", jobs |-> {}]
  /\ edits = 0 /\ faults = 0 /\ lost = 0

-----------------------------------------------------------------------------
(* The form *)

\* Mutant: another plan keeps the quote of the one before.
KeepPreparedDraft == UNCHANGED <<draft, uploaded, quote>>

ResetPreparedDraft == draft' = NoJob /\ uploaded' = FALSE /\ quote' = NoJob

\* Any change of the form drops the draft and its quote; the draft stays at the server.
Edit(c) ==
  /\ pc = "idle" /\ c # content /\ edits < MaxEdits
  /\ edits' = edits + 1 /\ content' = c /\ ResetPreparedDraft /\ told' = "nothing"
  /\ UNCHANGED <<pc, job, reserved, cron, faults, lost>>

\* Mutant: a plan that was uploaded is uploaded again.
PrepareFromDraft ==
  /\ pc = "idle" /\ content # NoContent
  /\ pc' = IF draft = NoJob THEN "draft" ELSE "upload"
  /\ UNCHANGED <<content, draft, uploaded, quote, told, job, reserved, cron, counters>>

\* prepareQuote goes on from the last step that it knows was done.
PrepareQuote ==
  /\ pc = "idle" /\ content # NoContent
  /\ pc' = IF draft = NoJob THEN "draft" ELSE IF uploaded THEN "quote" ELSE "upload"
  /\ UNCHANGED <<content, draft, uploaded, quote, told, job, reserved, cron, counters>>

Stop == pc' = "idle"

RequestFails ==
  /\ pc # "idle" /\ faults < MaxFaults /\ faults' = faults + 1
  /\ Stop /\ UNCHANGED <<content, draft, uploaded, quote, told, job, reserved, cron, edits, lost>>

\* The server did it: the form is told, or the answer is lost.
Answered(known, unknown) ==
  \/ known /\ UNCHANGED counters
  \/ unknown /\ Stop /\ lost < MaxLost /\ lost' = lost + 1 /\ UNCHANGED <<edits, faults>>

Change(j, value) == job' = [job EXCEPT ![j] = value]

\* A request that dies may leave a draft without its file row.
CreateDraft ==
  /\ pc = "draft"
  /\ \/ /\ Cardinality(Unfinished) >= Limit /\ Stop
        /\ UNCHANGED <<draft, job, counters>>
     \/ \E j \in {k \in Jobs : job[k] = Unused}, row \in BOOLEAN :
          /\ Cardinality(Unfinished) < Limit /\ Change(j, NewJob(content, row))
          /\ Answered(row /\ draft' = j /\ pc' = "upload", UNCHANGED draft)
  /\ UNCHANGED <<content, uploaded, quote, told, reserved, cron>>

\* The grant of an upload ends long before its draft expires.
Granted == job[draft].status # "canceled"

\* A plan in one piece is put where nothing is yet; a plan in pieces falls back to it
\* when storage does not take its token.
UploadWhole ==
  /\ pc = "upload"
  /\ IF ~Granted \/ job[draft].object = "whole" THEN Stop /\ UNCHANGED <<uploaded, job, counters>>
     ELSE /\ Change(draft, [job[draft] EXCEPT !.object = "whole"])
          /\ Answered(uploaded' = TRUE /\ pc' = "quote", UNCHANGED uploaded)
  /\ UNCHANGED <<content, draft, quote, told, reserved, cron>>

UploadPiece ==
  /\ pc = "upload" /\ Granted /\ content \in Large /\ job[draft].object = "none"
  /\ Change(draft, [job[draft] EXCEPT !.object = "part"])
  /\ UNCHANGED <<form, reserved, cron, counters>>

\* An upload in pieces goes on where it stopped, also when only its answer was lost.
UploadRest ==
  /\ pc = "upload" /\ Granted /\ content \in Large /\ job[draft].object # "none"
  /\ Change(draft, [job[draft] EXCEPT !.object = "whole"])
  /\ Answered(uploaded' = TRUE /\ pc' = "quote", UNCHANGED uploaded)
  /\ UNCHANGED <<content, draft, quote, told, reserved, cron>>

CancelUpload ==
  /\ pc = "upload" /\ content \in Large /\ faults < MaxFaults /\ faults' = faults + 1
  /\ Stop /\ UNCHANGED <<content, draft, uploaded, quote, told, job, reserved, cron, edits, lost>>

\* The server verifies an upload that is whole, once.
GetQuote ==
  /\ pc = "quote"
  /\ IF job[draft].status = "awaiting_upload" /\ job[draft].row /\ job[draft].object = "whole"
     THEN /\ Change(draft, [job[draft] EXCEPT !.status = "ready", !.verified = TRUE])
          /\ Answered(quote' = draft /\ Stop, UNCHANGED quote)
     ELSE Stop /\ UNCHANGED <<quote, job, counters>>
  /\ UNCHANGED <<content, draft, uploaded, told, reserved, cron>>

ConfirmTakeoff ==
  /\ pc = "idle" /\ quote # NoJob /\ told # "started" /\ pc' = "confirm"
  /\ UNCHANGED <<content, draft, uploaded, quote, told, job, reserved, cron, counters>>

Confirm(answer) == pc' = "idle" /\ told' = answer

\* Mutant: a takeoff that is queued reserves its credits again.
ReserveAgain ==
  /\ pc = "confirm" /\ job[quote].status \in {"ready", "queued"} /\ reserved < Credit
  /\ Change(quote, [job[quote] EXCEPT !.status = "queued"]) /\ reserved' = reserved + 1
  /\ Answered(Confirm("started"), told' = "error")
  /\ UNCHANGED <<content, draft, uploaded, quote, cron>>

\* confirmPreparedJob: a takeoff that is queued is confirmed again, any other is refused.
ReserveAndStart ==
  /\ pc = "confirm"
  /\ IF job[quote].status = "ready"
     THEN IF reserved < Credit
          THEN /\ Change(quote, [job[quote] EXCEPT !.status = "queued"])
               /\ reserved' = reserved + 1
               /\ Answered(Confirm("started"), told' = "error")
          ELSE Confirm("insufficient") /\ UNCHANGED <<job, reserved, counters>>
     ELSE /\ Confirm(IF job[quote].status = "queued" THEN "started" ELSE "verify first")
          /\ UNCHANGED <<job, reserved, counters>>
  /\ UNCHANGED <<content, draft, uploaded, quote, cron>>

Form ==
  \/ \E c \in Contents : Edit(c)
  \/ PrepareQuote \/ RequestFails \/ CreateDraft \/ UploadWhole \/ UploadPiece \/ UploadRest
  \/ CancelUpload \/ GetQuote \/ ConfirmTakeoff \/ ReserveAndStart

WorkerClaims(j) ==
  /\ job[j].status = "queued" /\ Change(j, [job[j] EXCEPT !.status = "processing"])
  /\ UNCHANGED <<form, reserved, cron, counters>>

-----------------------------------------------------------------------------
(* The cron job: drafts of the day before *)

\* A draft is a day old only while the form waits for nothing.
Expire(j) ==
  /\ j \in Unfinished /\ pc = "idle"
  /\ Change(j, [job[j] EXCEPT !.status = "canceled"])
  /\ UNCHANGED <<form, reserved, cron, counters>>

ListExpired ==
  /\ cron.pc = "idle" /\ \E j \in Jobs : job[j].status = "canceled" /\ ~job[j].cleaned
  /\ cron' = [pc |-> "objects", jobs |-> {j \in Jobs : job[j].status = "canceled" /\ ~job[j].cleaned}]
  /\ UNCHANGED <<form, job, reserved, counters>>

\* Mutant: the rows are deleted, and what cannot be removed is forgotten.
CronGoesOn ==
  /\ cron.pc = "objects" /\ faults < MaxFaults /\ faults' = faults + 1
  /\ cron' = [cron EXCEPT !.pc = "rows"]
  /\ UNCHANGED <<form, job, reserved, edits, lost>>

\* Mutant: the archived plan of a draft that was verified counts as an upload.
DeletableAll(j) == TRUE

\* partitionAbandonedUploadObjects: a verified input is kept for the archive.
Deletable(j) == ~job[j].verified

CronFails ==
  /\ cron.pc # "idle" /\ faults < MaxFaults /\ faults' = faults + 1
  /\ cron' = [pc |-> "idle", jobs |-> {}]
  /\ UNCHANGED <<form, job, reserved, edits, lost>>

\* The upload of each draft, whether or not it was finished; storage removes what it has.
RemoveObjects ==
  /\ cron.pc = "objects"
  /\ job' = [j \in Jobs |-> IF j \in cron.jobs /\ job[j].row /\ Deletable(j)
                            THEN [job[j] EXCEPT !.object = "none"] ELSE job[j]]
  /\ cron' = [cron EXCEPT !.pc = "rows"]
  /\ UNCHANGED <<form, reserved, counters>>

DeleteRows ==
  /\ cron.pc = "rows"
  /\ job' = [j \in Jobs |-> IF j \in cron.jobs /\ Deletable(j)
                            THEN [job[j] EXCEPT !.row = FALSE] ELSE job[j]]
  /\ cron' = [cron EXCEPT !.pc = "mark"]
  /\ UNCHANGED <<form, reserved, counters>>

MarkCleaned ==
  /\ cron.pc = "mark"
  /\ job' = [j \in Jobs |-> IF j \in cron.jobs THEN [job[j] EXCEPT !.cleaned = TRUE] ELSE job[j]]
  /\ cron' = [pc |-> "idle", jobs |-> {}]
  /\ UNCHANGED <<form, reserved, counters>>

CleanUp == ListExpired \/ RemoveObjects \/ DeleteRows \/ MarkCleaned \/ CronFails

-----------------------------------------------------------------------------
Next ==
  \/ Form \/ CleanUp
  \/ \E j \in Jobs : WorkerClaims(j) \/ Expire(j)

\* The form is sent again while there is no quote; the upload and the cron job go on.
Resubmit == quote = NoJob /\ PrepareQuote
SendPlan == UploadWhole \/ UploadPiece \/ UploadRest
CronGoes == ListExpired \/ RemoveObjects \/ DeleteRows \/ MarkCleaned

Spec == Init /\ [][Next]_vars
-----------------------------------------------------------------------------
(* Properties *)

\* The variables hold what the form, the tables and storage can hold.
TypeOK ==
  /\ pc \in {"idle", "draft", "upload", "quote", "confirm"}
  /\ content \in Contents \cup {NoContent} /\ {draft, quote} \subseteq Jobs \cup {NoJob}
  /\ uploaded \in BOOLEAN
  /\ told \in {"nothing", "started", "error", "insufficient", "verify first"}
  /\ reserved \in 0..Credit
  /\ \A j \in Jobs :
       /\ job[j].status \in {"none", "awaiting_upload", "ready", "queued", "processing", "canceled"}
       /\ job[j].object \in {"none", "part", "whole"}

\* The quote on the screen is that of the plan and the scopes on the screen, whatever was
\* changed, retried or canceled before (new-takeoff-form): it is what the customer confirms.
QuoteIsOfTheForm ==
  quote # NoJob => job[quote].content = content /\ job[quote].verified

\* Each started takeoff cost its credit once, whatever answers were lost and confirmations
\* sent again (confirmPreparedJob).
PaidOnce == reserved = Cardinality({j \in Jobs : Started(j)})

\* A started takeoff, and an archived plan, have their object: the cleanup takes neither.
VerifiedIsKept == \A j \in Jobs : job[j].verified => job[j].object = "whole"

\* A draft that is marked as cleaned has left nothing in storage.
CleanedIsGone ==
  \A j \in Jobs : job[j].cleaned /\ ~job[j].verified => job[j].object = "none" /\ ~job[j].row

\* Who is told to verify the plan first has not started the takeoff.
RefusalIsTrue == told = "verify first" => ~Started(quote)

\* A form with a plan in it, and one that has its quote or a draft that has ended.
Filled == content # NoContent
Quoted == quote # NoJob \/ (draft # NoJob /\ job[draft].status = "canceled")

\* The upload of a draft that nobody queued.
Abandoned(j) == job[j].status = "canceled" /\ ~job[j].verified
Removed(j) == job[j].object = "none"
=============================================================================
