--------------------------------- MODULE RateLimit ---------------------------------
(***************************************************************************)
(* The request limiter: a counter per user and one per network address,    *)
(* each for a fixed window of time, kept by one statement of the database. *)
(*                                                                         *)
(* The statement takes its time before it waits for its row, so that it    *)
(* may run with a time that is older than the row.  Time is in ticks, of   *)
(* which a second has several; waits are told in whole seconds.            *)
(***************************************************************************)
EXTENDS Integers, FiniteSets

CONSTANTS
  Requests, Buckets,
  Charged,       \* Charged[r]: the two buckets of a request
  Limit,         \* Limit[b]: requests that a window of b has room for
  Second,        \* ticks of a second
  Window,        \* seconds of a window
  Keep,          \* seconds that an unused row is kept
  MaxWait,       \* bound: ticks that a statement waits for its row
  Horizon,       \* bound: ticks
  MaxFaults      \* bound: statements that fail

RateAssumption ==
  /\ Charged \in [Requests -> SUBSET Buckets] /\ Limit \in [Buckets -> Nat \ {0}]
  /\ {Second, Window} \subseteq Nat \ {0} /\ {Keep, MaxWait} \subseteq Nat
  /\ Keep >= Window /\ MaxWait < Second

VARIABLES
  now,
  row,      \* api_rate_limits; a count of 0 where there is no row
  call,     \* call[r]: the statements of a request, by bucket
  outcome,  \* outcome[r]: what the caller is told
  faults

vars == <<now, row, call, outcome, faults>>

NoRow == [start |-> 0, count |-> 0, updated |-> 0]
NotSent == [pc |-> "none", at |-> 0, done |-> 0, allowed |-> FALSE, wait |-> 0]

Init ==
  /\ now = 0 /\ row = [b \in Buckets |-> NoRow]
  /\ call = [r \in Requests |-> [b \in Buckets |-> NotSent]]
  /\ outcome = [r \in Requests |-> "none"] /\ faults = 0

Ticks == Window * Second

\* Mutant: a wait is cut to whole seconds.
FloorSeconds(ticks) == IF ticks <= 0 THEN 0 ELSE ticks \div Second

CeilSeconds(ticks) == IF ticks <= 0 THEN 0 ELSE (ticks + Second - 1) \div Second

\* A statement that waits long is not modelled: it fails.
Tick ==
  /\ now < Horizon /\ now' = now + 1
  /\ \A r \in Requests, b \in Buckets :
       call[r][b].pc = "stamped" => call[r][b].at > now - MaxWait
  /\ UNCHANGED <<row, call, outcome, faults>>

\* consumeTakeoffRateLimit sends both statements at once.
Consume(r) ==
  /\ outcome[r] = "none" /\ outcome' = [outcome EXCEPT ![r] = "asked"]
  /\ call' = [call EXCEPT ![r] = [b \in Buckets |->
       IF b \in Charged[r] THEN [NotSent EXCEPT !.pc = "sent"] ELSE NotSent]]
  /\ UNCHANGED <<now, row, faults>>

\* The statement takes its time.
Stamp(r, b) ==
  /\ call[r][b].pc = "sent"
  /\ call' = [call EXCEPT ![r][b] = [@ EXCEPT !.pc = "stamped", !.at = now]]
  /\ UNCHANGED <<now, row, outcome, faults>>

\* A window that is over begins anew.
Over(start, at) == start <= at - Ticks

\* Mutant: the row holds the end of its window.
BucketByEnd(b, at) ==
  LET fresh == row[b].count = 0 \/ Over(row[b].start, at) IN
  [start |-> IF fresh THEN at + Ticks ELSE row[b].start,
   count |-> IF fresh THEN 1 ELSE row[b].count + 1, updated |-> at]

\* consume_api_rate_limit
NewBucket(b, at) ==
  LET fresh == row[b].count = 0 \/ Over(row[b].start, at) IN
  [start |-> IF fresh THEN at ELSE row[b].start,
   count |-> IF fresh THEN 1 ELSE row[b].count + 1, updated |-> at]

Upsert(r, b) ==
  /\ call[r][b].pc = "stamped"
  /\ LET at == call[r][b].at bucket == NewBucket(b, at) IN
       /\ row' = [row EXCEPT ![b] = bucket]
       /\ call' = [call EXCEPT ![r][b] = [@ EXCEPT
            !.pc = "done", !.done = now, !.allowed = bucket.count <= Limit[b],
            !.wait = CeilSeconds(bucket.start + Ticks - at)]]
  /\ UNCHANGED <<now, outcome, faults>>

\* One statement fails: the request is refused, whatever the other does.
LimiterFails(r, b) ==
  /\ call[r][b].pc \in {"sent", "stamped"} /\ faults < MaxFaults /\ faults' = faults + 1
  /\ call' = [call EXCEPT ![r][b].pc = "failed"]
  /\ outcome' = [outcome EXCEPT ![r] = "unavailable"]
  /\ UNCHANGED <<now, row>>

\* Mutant: one of the two buckets is enough.
AnswerAny(r) ==
  /\ outcome[r] = "asked" /\ \A b \in Charged[r] : call[r][b].pc = "done"
  /\ outcome' = [outcome EXCEPT ![r] =
       IF \E b \in Charged[r] : call[r][b].allowed THEN "allowed" ELSE "refused"]
  /\ UNCHANGED <<now, row, call, faults>>

Answer(r) ==
  /\ outcome[r] = "asked" /\ \A b \in Charged[r] : call[r][b].pc = "done"
  /\ outcome' = [outcome EXCEPT ![r] =
       IF \A b \in Charged[r] : call[r][b].allowed THEN "allowed" ELSE "refused"]
  /\ UNCHANGED <<now, row, call, faults>>

\* Mutant: a row is dropped as soon as nobody uses it.
PurgeEarly(b) ==
  /\ row[b].count > 0 /\ row[b].updated < now
  /\ row' = [row EXCEPT ![b] = NoRow] /\ UNCHANGED <<now, call, outcome, faults>>

\* The cron job drops rows that nobody used for long.
Purge(b) ==
  /\ row[b].count > 0 /\ row[b].updated < now - Keep * Second
  /\ row' = [row EXCEPT ![b] = NoRow] /\ UNCHANGED <<now, call, outcome, faults>>

Next ==
  \/ Tick
  \/ \E r \in Requests : Consume(r) \/ Answer(r)
                          \/ \E b \in Charged[r] : Stamp(r, b) \/ Upsert(r, b) \/ LimiterFails(r, b)
  \/ \E b \in Buckets : Purge(b)

Spec == Init /\ [][Next]_vars
-----------------------------------------------------------------------------
(* Properties *)

Done(b) == {r \in Requests : call[r][b].pc = "done"}

\* The variables hold what the table and the limiter can hold.
TypeOK ==
  /\ now \in 0..Horizon
  /\ \A b \in Buckets : row[b].count \in 0..Cardinality(Requests) /\ row[b].start \in 0..now
  /\ \A r \in Requests, b \in Buckets : call[r][b].wait \in 0..Window + Horizon
  /\ \A r \in Requests : outcome[r] \in {"none", "asked", "allowed", "refused", "unavailable"}

\* No span of a window's length lets more through than two windows have room for, however
\* statements wait for their row and rows are dropped (consume_api_rate_limit).
BurstIsBounded ==
  \A b \in Buckets : \A t \in 0..Horizon :
    Cardinality({r \in Done(b) : call[r][b].allowed /\ call[r][b].at \in t..t + Ticks - 1})
      <= 2 * Limit[b]

\* Who is refused can be served once the wait that it was told is over: the window that
\* refused it is over by then, to the tick.
WaitIsEnough ==
  \A r \in Requests, b \in Buckets :
       call[r][b].pc = "stamped" /\ call'[r][b].pc = "done" /\ ~call'[r][b].allowed =>
         Over(row'[b].start, call[r][b].at + call'[r][b].wait * Second)

\* A request that is let through had room in both of its buckets: its user's neighbours at
\* one address, or its user's other addresses, may have used it up.
RoomInBoth ==
  \A b \in Buckets :
    Cardinality({r \in Requests : outcome[r] = "allowed" /\ b \in Charged[r]
                                    /\ call[r][b].at >= row[b].start}) <= Limit[b]
=============================================================================
