---------------------------- MODULE WorkerHealth ----------------------------
(***************************************************************************)
(* What the Health page shows of the takeoff worker and its processor.     *)
(*                                                                         *)
(* The worker reports on an interval timer, and once more whenever a pass  *)
(* of its poll loop throws (worker/src/index.ts).  A report first asks the *)
(* processor whether it is ready and then posts both statuses; one flag    *)
(* keeps two reports from running at once, and the second is skipped.  The *)
(* application writes both rows in one upsert, at ITS time, to expire      *)
(* after the time to live the worker asked for (health/route.ts).  The     *)
(* page turns a row and the time of the snapshot into a label and into the *)
(* counts of the summary (admin-analytics.ts, admin/health/page.tsx).      *)
(*                                                                         *)
(* Time is counted in ticks.  A report the worker gave up waiting for may  *)
(* still be carried out, up to Landing ticks after it was sent.            *)
(***************************************************************************)
EXTENDS Integers, FiniteSets

CONSTANTS
    Heartbeat,      \* WORKER_HEARTBEAT_INTERVAL_MS
    CallLimit,      \* WORKER_API_TIMEOUT_MS: of the probe, and of the post
    MinTtl, MaxTtl, \* 60 and 900 seconds
    Landing,        \* how long after its sending a post can be carried out
    Horizon,        \* BOUND: how far back the history variable looks
    MaxFaults       \* BOUND: stops, lost calls, failing passes, outages

TicksAssumption ==
    /\ {Heartbeat, CallLimit, MinTtl} \subseteq Nat \ {0}
    /\ MaxTtl \in Nat /\ MinTtl <= MaxTtl
    /\ Landing \in Nat /\ CallLimit <= Landing

VARIABLES
    up,         \* the worker's process runs
    processor,  \* "ready", "not_ready" (answers 503) or "silent"
    timer,      \* ticks until the interval fires
    loop,       \* "polling", or "reporting": waiting for its own report
    report,     \* the report being made: at most one, healthReportRunning
    posts,      \* posts sent, neither carried out nor lost
    row,        \* the worker's two rows, written together; left is their life
    since,      \* HISTORY: ticks since the worker was up, the processor ready,
                \* a pass of the loop failed
    faults

vars == <<up, processor, timer, loop, report, posts, row, since, faults>>

Idle == [phase |-> "idle", left |-> 0, worker |-> "healthy", by |-> "timer"]
NoRow == [worker |-> "unknown", processor |-> "unknown", left |-> -1]
Missing == row = NoRow

----------------------------------------------------------------------------
(* The page *)

\* Mutant: a life that leaves no room for the two waits of a report.
TtlOfTwo == 2 * Heartbeat

Ttl == IF 3 * Heartbeat > MaxTtl THEN MaxTtl
       ELSE IF 3 * Heartbeat < MinTtl THEN MinTtl ELSE 3 * Heartbeat

Current == ~Missing /\ row.left > 0

\* Mutant: the badge forgets that reports expire.
LabelForever(check) == IF Missing THEN "missing" ELSE row[check]

\* The badge of a check: the page's own comparison, not the summary's.
Label(check) == IF Missing THEN "missing"
                ELSE IF row.left < 0 THEN "stale"
                ELSE row[check]

Summary(check) == IF Missing THEN "missing"
                  ELSE IF ~Current THEN "stale"
                  ELSE IF row[check] = "healthy" THEN "healthy" ELSE "unhealthy"

Readiness ==
    LET counted == {Summary(c) : c \in {"worker", "processor"}}
    IN  IF counted \cap {"missing", "unhealthy"} # {} THEN "critical"
        ELSE IF "stale" \in counted THEN "warning" ELSE "ok"

----------------------------------------------------------------------------
(* The worker *)

Init ==
    /\ up = FALSE /\ processor = "ready"
    /\ timer = Heartbeat /\ loop = "polling" /\ report = Idle
    /\ posts = {} /\ row = NoRow /\ faults = 0
    /\ since = [e \in {"up", "ready", "failed"} |->
                  IF e = "ready" THEN 0 ELSE Horizon]

\* Mutant: without the flag that one report is being made.
ReportingAnyway(worker, by) ==
    report' = [phase |-> "probe", left |-> CallLimit,
               worker |-> worker, by |-> by]

\* reportHealthSnapshot up to its first await: nothing while one is running.
Reporting(worker, by) ==
    report' = IF report.phase = "idle"
              THEN [phase |-> "probe", left |-> CallLimit,
                    worker |-> worker, by |-> by]
              ELSE report

\* The report's finally: whoever awaited it goes on.
Finish ==
    /\ report' = Idle
    /\ loop' = IF report.by = "loop" THEN "polling" ELSE loop

\* Nobody waits for what was posted so far.
Abandoned == {[p EXCEPT !.awaited = FALSE] : p \in posts}

Fault == faults < MaxFaults /\ faults' = faults + 1

\* The process starts: the timer first, then a report the loop waits for.
Start ==
    /\ ~up /\ up' = TRUE
    /\ timer' = Heartbeat /\ loop' = "reporting"
    /\ Reporting("healthy", "loop")
    /\ since' = [since EXCEPT !["up"] = 0]
    /\ UNCHANGED <<processor, posts, row, faults>>

\* It is killed at any step; what it posted is still on its way.
Stop ==
    /\ up /\ Fault /\ up' = FALSE
    /\ report' = Idle /\ loop' = "polling" /\ timer' = Heartbeat
    /\ posts' = Abandoned
    /\ UNCHANGED <<processor, row, since>>

Fire ==
    /\ up /\ timer = 0 /\ timer' = Heartbeat
    /\ Reporting("healthy", "timer")
    /\ UNCHANGED <<up, processor, loop, posts, row, since, faults>>

\* A pass of the loop throws: its report, unless one is being made.
PassFails ==
    /\ up /\ loop = "polling" /\ Fault
    /\ Reporting("degraded", "loop")
    /\ loop' = IF report.phase = "idle" THEN "reporting" ELSE "polling"
    /\ since' = [since EXCEPT !["failed"] = 0]
    /\ UNCHANGED <<up, processor, timer, posts, row>>

Post(verdict) ==
    /\ report' = [report EXCEPT !.phase = "post", !.left = CallLimit]
    /\ posts' = posts \union {[worker |-> report.worker, processor |-> verdict,
                               age |-> 0, awaited |-> TRUE]}
    /\ UNCHANGED <<up, processor, timer, loop, row, since, faults>>

\* The processor's answer; a call that fails for any other reason is "down".
Probe ==
    /\ report.phase = "probe"
    /\ \/ processor = "ready" /\ Post("healthy")
       \/ processor = "not_ready" /\ Post("degraded")
       \/ processor = "silent" /\ report.left = 0 /\ Post("down")

\* Mutant: a degraded worker stays degraded.
LandOnWorst(p) ==
    /\ row' = [worker |-> IF row.worker = "degraded" THEN row.worker
                          ELSE p.worker,
               processor |-> p.processor, left |-> Ttl]
    /\ posts' = posts \ {p}
    /\ UNCHANGED <<up, processor, timer, since>>

\* The application's handler: both rows, dated when it runs.
Land(p) ==
    /\ row' = [worker |-> p.worker, processor |-> p.processor, left |-> Ttl]
    /\ posts' = posts \ {p}
    /\ UNCHANGED <<up, processor, timer, since>>

Answered(p) == /\ p.awaited /\ report.phase = "post" /\ Land(p) /\ Finish
               /\ UNCHANGED faults

\* Carried out without the worker learning of it.
LandsUnseen(p) == /\ UNCHANGED <<report, loop>> /\ Land(p)
                  /\ IF p.awaited THEN Fault ELSE UNCHANGED faults

Lost(p) ==
    /\ posts' = posts \ {p}
    /\ IF p.awaited THEN Fault /\ Finish
       ELSE UNCHANGED <<report, loop, faults>>
    /\ UNCHANGED <<up, processor, timer, row, since>>

\* The worker stops waiting for its post.
GivesUp ==
    /\ report.phase = "post" /\ report.left = 0 /\ Finish
    /\ posts' = Abandoned
    /\ IF posts = Abandoned THEN UNCHANGED faults ELSE Fault
    /\ UNCHANGED <<up, processor, timer, row, since>>

ProcessorFails ==
    /\ processor = "ready" /\ Fault
    /\ processor' \in {"not_ready", "silent"}
    /\ UNCHANGED <<up, timer, loop, report, posts, row, since>>

ProcessorRecovers ==
    /\ processor # "ready" /\ processor' = "ready"
    /\ since' = [since EXCEPT !["ready"] = 0]
    /\ UNCHANGED <<up, timer, loop, report, posts, row, faults>>

\* Time passes when nothing is due.
Tick ==
    /\ up => timer > 0
    /\ report.phase # "idle" => report.left > 0
    /\ \A p \in posts : p.age < Landing
    /\ timer' = IF up THEN timer - 1 ELSE timer
    /\ report' = IF report.phase = "idle" THEN report
                 ELSE [report EXCEPT !.left = @ - 1]
    /\ posts' = {[p EXCEPT !.age = @ + 1] : p \in posts}
    /\ row' = IF row.left >= 0 THEN [row EXCEPT !.left = @ - 1] ELSE row
    /\ since' = [e \in DOMAIN since |->
                   CASE e = "up" /\ up -> 0
                     [] e = "ready" /\ processor = "ready" -> 0
                     [] since[e] = Horizon -> Horizon
                     [] OTHER -> since[e] + 1]
    /\ UNCHANGED <<up, processor, loop, faults>>

Next ==
    \/ Start \/ Stop \/ Fire \/ PassFails \/ Probe \/ GivesUp
    \/ \E p \in posts : Answered(p) \/ LandsUnseen(p) \/ Lost(p)
    \/ ProcessorFails \/ ProcessorRecovers \/ Tick

\* An answer arrives, and a report nobody waits for any more is lost.
SomeAnswer == \E p \in posts : Answered(p)
StaleIsLost == \E p \in posts : Lost(p) /\ ~p.awaited

Spec == Init /\ [][Next]_vars

----------------------------------------------------------------------------
Statuses == {"healthy", "degraded", "down"}

\* Types, and that the flag keeps at most one post awaited.
TypeOK ==
    /\ up \in BOOLEAN /\ processor \in {"ready", "not_ready", "silent"}
    /\ timer \in 0..Heartbeat /\ loop \in {"polling", "reporting"}
    /\ report \in [phase : {"idle", "probe", "post"}, left : 0..CallLimit,
                   worker : Statuses, by : {"timer", "loop"}]
    /\ posts \subseteq [worker : Statuses, processor : Statuses,
                        age : 0..Landing, awaited : BOOLEAN]
    /\ row \in [worker : Statuses, processor : Statuses, left : -1..MaxTtl]
              \union {NoRow}
    /\ since \in [{"up", "ready", "failed"} -> 0..Horizon]
    /\ faults \in 0..MaxFaults
    /\ Cardinality({p \in posts : p.awaited}) <= 1
    /\ (\E p \in posts : p.awaited) => report.phase = "post"

\* "A stopped worker or unreachable processor cannot remain green": what the
\* page's badges show was true at most three heartbeats and one late post ago,
\* whatever reports are lost, late, overtaken or skipped.
Longest == 3 * Heartbeat + Landing
GreenIsRecent ==
    /\ Label("worker") = "healthy" => since["up"] <= Longest
    /\ Label("processor") = "healthy" => since["ready"] <= Longest
    /\ Label("worker") = "degraded" => since["failed"] <= Longest + CallLimit

\* docs/ADMIN_METRICS.md: an expired report is never labelled healthy.  The
\* badge and the summary beside it compare the same two times differently.
ExpiredIsNotGreen ==
    \A c \in {"worker", "processor"} :
        Summary(c) = "stale" => Label(c) # "healthy"

\* The launch checklist is ready; the row of the worker lapsed.
Ready == Readiness = "ok"
Lapsed == Label("worker") \in {"missing", "stale"}
=============================================================================
