--------------------------- MODULE PdfVerification ---------------------------
(***************************************************************************)
(* verifyPdfStream (lib/pdf-verification.ts): the plan is staged in a      *)
(* directory of its own and qpdf is asked about it, one child process      *)
(* after the other, each with limits.  The child, its output, its end and  *)
(* the wall-clock timer are heard of in any order, and the first of them   *)
(* settles the question.                                                   *)
(*                                                                         *)
(* qpdf is external: it tells the truth, with a warning or not, but it may *)
(* hang, die of a limit or write too much.                                 *)
(***************************************************************************)
EXTENDS Naturals

CONSTANTS MaxPages, None

VARIABLES
  pdf,     \* the upload: too large, no PDF, encrypted, and its pages (0: broken)
  sample,  \* options.samplePage, or None
  pc,      \* the question verifyPdfStream is at
  child,   \* the qpdf process of that question
  pages,   \* originalPageCount, once it is known
  cut,     \* sample.pdf: the page in it and whether it is too large
  dir,     \* the temporary directory exists
  troubled,  \* a child hung, died or wrote too much
  verdict

plan == <<pdf, sample>>
vars == <<plan, pc, child, pages, cut, dir, troubled, verdict>>

Pages == 0..MaxPages + 1
Questions == {"encrypted", "pages", "extract", "count"}
Codes == {"accepted", "encrypted", "invalid", "not_pdf", "page_count", "sample_page", "timeout", "too_large"}

\* How the promise of runRestrictedQpdf ends
Endings == {"exit", "output_limit", "spawn", "timeout"}

PdfAssumption == MaxPages \in Nat \ {0} /\ None \notin Nat \cup Codes \cup Endings

\* settled: how the promise of runRestrictedQpdf ended
NoChild == [state |-> "none", killed |-> FALSE, exit |-> None, settled |-> None]

Init ==
  /\ pdf \in [large: BOOLEAN, header: BOOLEAN, encrypted: BOOLEAN, pages: Pages, largeCut: BOOLEAN]
  /\ sample \in Pages \cup {None}
  /\ pc = "start" /\ child = NoChild /\ pages = 0 /\ cut = None
  /\ dir = FALSE /\ troubled = FALSE /\ verdict = None

Refuse(code) == pc' = "cleanup" /\ verdict' = code
Ask(question) ==
  /\ pc' = question /\ child' = [NoChild EXCEPT !.state = "alive"] /\ UNCHANGED verdict

Start ==
  /\ pc = "start"
  /\ IF sample = 0
     THEN pc' = "done" /\ verdict' = "sample_page" /\ UNCHANGED dir
     ELSE pc' = "stage" /\ dir' = TRUE /\ UNCHANGED verdict
  /\ UNCHANGED <<plan, child, pages, cut, troubled>>

\* stagePdf
Stage ==
  /\ pc = "stage"
  /\ \/ pdf.large /\ Refuse("too_large") /\ UNCHANGED child
     \/ ~pdf.large /\ ~pdf.header /\ Refuse("not_pdf") /\ UNCHANGED child
     \/ ~pdf.large /\ pdf.header /\ Ask("encrypted")
  /\ UNCHANGED <<plan, pages, cut, dir, troubled>>

-----------------------------------------------------------------------------
(* The child process, and what its parent hears of it *)

Broken == pdf.pages = 0 \/ pdf.encrypted

\* The exit code qpdf ends the question with.
Exits ==
  CASE pc = "encrypted" -> IF pdf.encrypted THEN {0} ELSE {2}
    [] pc = "pages" -> IF Broken THEN {2} ELSE {0, 3}
    [] OTHER -> {0, 3}

\* Mutant: warnings of qpdf are failures.
ExitZero(code) == code = 0

isQpdfSuccess(code) == code \in {0, 3}

ChildExits ==
  /\ child.state = "alive"
  /\ \E code \in Exits \cup {None} :
       /\ code # None => ~child.killed
       /\ child' = [child EXCEPT !.state = "exited", !.exit = code]
       /\ troubled' = (troubled \/ code = None)
       /\ cut' = IF pc = "extract" /\ code # None THEN [page |-> sample, large |-> pdf.largeCut] ELSE cut
  /\ UNCHANGED <<plan, pc, pages, dir, verdict>>

\* settle(): the first one counts.
Settle(c, how) == [c EXCEPT !.settled = IF @ = None THEN how ELSE @]

\* terminate(): SIGKILL to the group of the child
Terminated(c) == [c EXCEPT !.killed = TRUE]

\* Mutant: the promise is rejected and the child goes on.
RejectForOutput ==
  /\ child.state \in {"alive", "exited"} /\ child.settled = None
  /\ child' = Settle(child, "output_limit") /\ troubled' = TRUE
  /\ UNCHANGED <<plan, pc, pages, cut, dir, verdict>>

\* rejectForOutput, for what is read of either pipe before they are closed
TooMuchOutput ==
  /\ child.state \in {"alive", "exited"} /\ child.settled = None
  /\ child' = Settle(Terminated(child), "output_limit") /\ troubled' = TRUE
  /\ UNCHANGED <<plan, pc, pages, cut, dir, verdict>>

SpawnFails ==
  /\ child.state = "alive" /\ child.settled = None
  /\ child' = Settle([child EXCEPT !.state = "exited"], "spawn") /\ troubled' = TRUE
  /\ UNCHANGED <<plan, pc, pages, cut, dir, verdict>>

\* "close": the process ended and its pipes are read to their end.
Close ==
  /\ child.state = "exited"
  /\ child' = Settle([child EXCEPT !.state = "closed"], IF child.exit = None THEN "spawn" ELSE "exit")
  /\ UNCHANGED <<plan, pc, pages, cut, dir, troubled, verdict>>

\* Mutant: the timer kills the child and waits for its end.
TimeoutKills ==
  /\ child.state # "none" /\ child.settled = None
  /\ child' = Terminated(child) /\ troubled' = TRUE
  /\ UNCHANGED <<plan, pc, pages, cut, dir, verdict>>

WallTimeout ==
  /\ child.state # "none" /\ child.settled = None
  /\ child' = Settle(Terminated(child), "timeout") /\ troubled' = TRUE
  /\ UNCHANGED <<plan, pc, pages, cut, dir, verdict>>

-----------------------------------------------------------------------------
(* verifyPdfStream goes on *)

Answered(question) == pc = question /\ child.settled = "exit"

JudgeEncryption ==
  /\ Answered("encrypted")
  /\ \/ child.exit = 0 /\ Refuse("encrypted") /\ child' = NoChild
     \/ child.exit = 2 /\ Ask("pages")
  /\ UNCHANGED <<plan, pages, cut, dir, troubled>>

\* Mutant: the page asked for is not compared with the pages there are.
SomePage(n) == TRUE

HasPage(n) == IF sample = None THEN TRUE ELSE sample <= n

JudgePages ==
  /\ Answered("pages")
  /\ IF ~isQpdfSuccess(child.exit)
     THEN Refuse("invalid") /\ child' = NoChild /\ UNCHANGED pages
     ELSE /\ pages' = pdf.pages
          /\ \/ pdf.pages > MaxPages /\ Refuse("page_count") /\ child' = NoChild
             \/ pdf.pages <= MaxPages /\ ~HasPage(pdf.pages) /\ Refuse("sample_page") /\ child' = NoChild
             \/ pdf.pages <= MaxPages /\ HasPage(pdf.pages) /\ sample = None
                /\ Refuse("accepted") /\ child' = NoChild
             \/ pdf.pages <= MaxPages /\ HasPage(pdf.pages) /\ sample # None /\ Ask("extract")
  /\ UNCHANGED <<plan, cut, dir, troubled>>

JudgeExtraction ==
  /\ Answered("extract")
  /\ IF isQpdfSuccess(child.exit) THEN Ask("count") ELSE Refuse("invalid") /\ child' = NoChild
  /\ UNCHANGED <<plan, pages, cut, dir, troubled>>

\* Mutant: the size of the sample is not looked at.
JudgeCountOnly ==
  /\ Answered("count")
  /\ IF ~isQpdfSuccess(child.exit) THEN Refuse("invalid") ELSE Refuse("accepted")
  /\ child' = NoChild
  /\ UNCHANGED <<plan, pages, cut, dir, troubled>>

\* The sample has one page, a size within the limit, and the header of a PDF.
JudgeSample ==
  /\ Answered("count")
  /\ IF ~isQpdfSuccess(child.exit) THEN Refuse("invalid")
     ELSE IF cut.large THEN Refuse("too_large") ELSE Refuse("accepted")
  /\ child' = NoChild
  /\ UNCHANGED <<plan, pages, cut, dir, troubled>>

\* Mutant: the reason of the child is the code of the refusal.
RejectedReason ==
  /\ pc \in Questions /\ child.settled \in {"output_limit", "spawn", "timeout"}
  /\ Refuse(child.settled)
  /\ UNCHANGED <<plan, child, pages, cut, dir, troubled>>

\* executeQpdf: a timeout has a code of its own.
Rejected ==
  /\ pc \in Questions /\ child.settled \in {"output_limit", "spawn", "timeout"}
  /\ Refuse(IF child.settled = "timeout" THEN "timeout" ELSE "invalid")
  /\ UNCHANGED <<plan, child, pages, cut, dir, troubled>>

\* Mutant: the directory is removed when the plan is accepted.
CleanupAccepted ==
  /\ pc = "cleanup" /\ dir' = (verdict # "accepted" /\ dir) /\ pc' = "done"
  /\ UNCHANGED <<plan, child, pages, cut, troubled, verdict>>

\* removeOwnedTempDirectory, in a finally block
Cleanup ==
  /\ pc = "cleanup" /\ dir' = FALSE /\ pc' = "done"
  /\ UNCHANGED <<plan, child, pages, cut, troubled, verdict>>

Parent ==
  \/ Start \/ Stage \/ JudgeEncryption \/ JudgePages \/ JudgeExtraction \/ JudgeSample
  \/ Rejected \/ Cleanup

Next == Parent \/ ChildExits \/ TooMuchOutput \/ SpawnFails \/ Close \/ WallTimeout

Spec == Init /\ [][Next]_vars

-----------------------------------------------------------------------------
(* Properties *)

TypeOK ==
  /\ pc \in {"start", "stage", "cleanup", "done"} \cup Questions
  /\ child \in [state: {"none", "alive", "exited", "closed"}, killed: BOOLEAN,
                exit: {0, 2, 3, None}, settled: Endings \cup {None}]
  /\ pages \in Pages /\ {dir, troubled} \subseteq BOOLEAN /\ verdict \in Codes \cup {None}

Sound ==
  /\ ~pdf.large /\ pdf.header /\ ~pdf.encrypted /\ pdf.pages \in 1..MaxPages
  /\ sample # None => sample \in 1..pdf.pages /\ ~pdf.largeCut

\* What is accepted is a readable plan within every limit, its page count is the true
\* one, and a sample is the page that was asked for.
AcceptedIsSound ==
  verdict = "accepted" => /\ Sound /\ pages = pdf.pages
                          /\ sample # None => cut.page = sample /\ ~cut.large

\* A sound plan is refused only when qpdf hung, died or wrote too much: warnings of a
\* "real construction PDF" refuse nothing.
SoundIsAccepted == pc = "done" /\ Sound /\ ~troubled => verdict = "accepted"

\* When the request goes on, nothing of it is left: its files are gone, and a child that
\* still runs was killed.
NothingIsLeft == pc = "done" => ~dir /\ (child.state = "alive" => child.killed)

Ended == pc = "done"

-----------------------------------------------------------------------------
(* Why they hold.  Each question is asked of what the ones before it left:   *)
(* the answers are those of qpdf unless there was trouble, and trouble never *)
(* accepts.                                                                  *)

\* The upload, and what is known of it
Types ==
  /\ pdf \in [large: BOOLEAN, header: BOOLEAN, encrypted: BOOLEAN, pages: Pages, largeCut: BOOLEAN]
  /\ sample \in Pages \cup {None}
  /\ pc \in {"start", "stage", "cleanup", "done"} \cup Questions
  /\ child \in [state: {"none", "alive", "exited", "closed"}, killed: BOOLEAN,
                exit: {0, 2, 3, None}, settled: Endings \cup {None}]
  /\ pages \in Pages /\ verdict \in Codes \cup {None}

\* The booleans
Flags == dir \in BOOLEAN /\ troubled \in BOOLEAN

\* The code a child ended with is the answer to the question it was asked.
TruthTold ==
  child.exit # None =>
    /\ pc = "encrypted" => child.exit = (IF pdf.encrypted THEN 0 ELSE 2)
    /\ pc = "pages" => IF Broken THEN child.exit = 2 ELSE child.exit \in {0, 3}
    /\ pc \in {"extract", "count"} => child.exit \in {0, 3}

\* A promise is settled by the end of the child, or there was trouble and the child is
\* gone or killed.
ChildInv ==
  /\ child.state = "alive" => child.exit = None
  /\ child.settled = "exit" => child.state = "closed" /\ child.exit # None
  /\ child.settled \in {"output_limit", "spawn", "timeout"} => troubled
       /\ (child.state = "alive" => child.killed)
  /\ child.state \in {"exited", "closed"} /\ child.exit = None => troubled
  /\ pc \in {"start", "stage"} => child.state = "none"
  /\ pc \in {"cleanup", "done"} /\ child.state = "alive" => child.killed
  /\ pc \in {"cleanup", "done"} /\ child.state # "none" => child.settled # None

\* What the questions so far have shown
Learnt ==
  /\ pc = "start" => ~dir
  /\ pc \notin {"start", "done"} => sample # 0
  /\ pc \in Questions => ~pdf.large /\ pdf.header
  /\ pc \in {"pages", "extract", "count"} => ~pdf.encrypted
  /\ pc \in {"extract", "count"} =>
       /\ pages = pdf.pages /\ pdf.pages \in 1..MaxPages
       /\ sample # None /\ sample \in 1..pdf.pages
  /\ (pc = "extract" /\ child.exit # None) \/ pc = "count" =>
       cut = [page |-> sample, large |-> pdf.largeCut]

\* The verdict, as soon as there is one, follows from them.
Judged ==
  /\ verdict # None <=> pc \in {"cleanup", "done"}
  /\ AcceptedIsSound
  /\ pc \in {"cleanup", "done"} /\ Sound /\ ~troubled => verdict = "accepted"
  /\ pc = "done" => ~dir

PdfInv == Types /\ Flags /\ TruthTold /\ ChildInv /\ Learnt /\ Judged
=============================================================================
