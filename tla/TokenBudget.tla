----------------------------- MODULE TokenBudget -----------------------------
(***************************************************************************)
(* The egress proxy (executor/src): it lends an execution a token for the  *)
(* model, and keeps the money of a source job within its budget class.     *)
(*                                                                         *)
(* A call reserves the most it may cost, goes upstream, and is debited     *)
(* what it did cost; the answer, the crash of the proxy, the revocation    *)
(* and the expiry of the token come in any order.  The ledger of a source  *)
(* job outlives its tokens.  Registry changes are written to a file first, *)
(* and a write that fails may have reached it.                             *)
(*                                                                         *)
(* Money is counted in a few units; request bytes and output tokens have   *)
(* ledgers and limits of the same form and are left out.                   *)
(***************************************************************************)
EXTENDS Naturals, FiniteSetsExt

CONSTANTS
  Jobs, Tokens, Handlers, NoJob, NoToken, NoHandler,
  MaxCost,             \* profile.maxCostMicros
  MaxRequests,         \* profile.maxRequests
  Costs,               \* what a call may reserve
  MaxInFlight,         \* maxInFlightRequests; one per token
  MaxFaults            \* bound: crashes, failed writes, broken contracts

BudgetAssumption ==
  /\ NoJob \notin Jobs /\ NoToken \notin Tokens /\ NoHandler \notin Handlers
  /\ {MaxCost, MaxRequests, MaxInFlight, MaxFaults} \subseteq Nat
  /\ Costs \subseteq Nat \ {0}

VARIABLES
  mem, disk,  \* the registry in memory and in its file
  up,         \* the proxy runs
  call,       \* call[h]: where handler h is
  revoking,   \* DELETE of a token: running calls are aborted, the write is queued
  revoked,    \* tokens whose revocation was answered with 204
  drawn,      \* tokens that were ever registered
  expired,    \* tokens past expiresAt
  used,       \* used[j]: what OpenAI charges for source job j
  overshot,   \* tokens with a call that cost more than its reservation
  overshoot,  \* overshoot[j]: by how much
  faults

registry == <<mem, disk>>
control == <<revoking, revoked, drawn, expired>>
money == <<used, overshot, overshoot>>
vars == <<registry, up, call, control, money, faults>>

PC == {"idle", "admitted", "upstream", "aborted", "record", "release", "mark"}

Idle == [pc |-> "idle", token |-> NoToken, job |-> NoJob, cost |-> 0, usage |-> 0,
         ok |-> FALSE, client |-> "reads"]

\* token.*: the token records; ledger.*: the source-job ledgers
Empty ==
  [owner |-> [t \in Tokens |-> NoJob],       \* token.ledgerId
   open |-> [t \in Tokens |-> 0],            \* token.reservations: its cost, or 0
   by |-> [t \in Tokens |-> NoHandler],      \* whose reservation id it is
   tokenFailed |-> {},                       \* token.accountingFailed
   spent |-> [j \in Jobs |-> 0],             \* ledger.spentCostMicros
   reserved |-> [j \in Jobs |-> 0],          \* ledger.reservedCostMicros
   requests |-> [j \in Jobs |-> 0],          \* ledger.requestCount
   failed |-> {}]                            \* ledger.accountingFailed

Init ==
  /\ mem = Empty /\ disk = Empty /\ up = TRUE
  /\ call = [h \in Handlers |-> Idle]
  /\ revoking = {} /\ revoked = {} /\ drawn = {} /\ expired = {}
  /\ used = [j \in Jobs |-> 0] /\ overshot = {} /\ overshoot = [j \in Jobs |-> 0]
  /\ faults = 0

-----------------------------------------------------------------------------
(* Registry *)

Fault == faults < MaxFaults /\ faults' = faults + 1

Commit(db) == mem' = db /\ disk' = db /\ UNCHANGED faults
CommitFails(db) == Fault /\ disk' \in {disk, db} /\ UNCHANGED mem

Live(db) == {t \in Tokens : db.owner[t] # NoJob}

Outstanding(db, T, j) ==
  MapThenSumSet(LAMBDA t : db.open[t], {t \in T : db.owner[t] = j})

\* Mutant: what a revoked token has reserved is given back.
SettleForgiving(db, T) ==
  [db EXCEPT
    !.reserved = [j \in Jobs |-> @[j] - Outstanding(db, T, j)],
    !.failed = @ \cup {db.owner[t] : t \in {u \in T : db.open[u] > 0}},
    !.owner = [t \in Tokens |-> IF t \in T THEN NoJob ELSE @[t]],
    !.open = [t \in Tokens |-> IF t \in T THEN 0 ELSE @[t]],
    !.by = [t \in Tokens |-> IF t \in T THEN NoHandler ELSE @[t]],
    !.tokenFailed = @ \ T]

\* The tokens T go.  What they still have reserved counts as spent, and their
\* ledgers are closed.
SettleOutstanding(db, T) ==
  [db EXCEPT
    !.spent = [j \in Jobs |-> @[j] + Outstanding(db, T, j)],
    !.reserved = [j \in Jobs |-> @[j] - Outstanding(db, T, j)],
    !.failed = @ \cup {db.owner[t] : t \in {u \in T : db.open[u] > 0}},
    !.owner = [t \in Tokens |-> IF t \in T THEN NoJob ELSE @[t]],
    !.open = [t \in Tokens |-> IF t \in T THEN 0 ELSE @[t]],
    !.by = [t \in Tokens |-> IF t \in T THEN NoHandler ELSE @[t]],
    !.tokenFailed = @ \ T]

\* Mutant: a token with a call under way is not purged.
PurgeIdle(db) == SettleOutstanding(db, {t \in Live(db) \cap expired : db.open[t] = 0})

Purge(db) == SettleOutstanding(db, Live(db) \cap expired)

\* Mutant: only the token is looked at, not the ledger of its source job.
AuthorizedByToken(db, t) == t \in Live(db) /\ t \notin db.tokenFailed /\ db.open[t] = 0

\* The guards of authorizeAndReserve, in a registry without expired tokens
Authorized(db, t) ==
  /\ t \in Live(db)
  /\ t \notin db.tokenFailed /\ db.open[t] = 0
  /\ db.owner[t] \notin db.failed

\* Mutant: what other tokens have reserved is not counted.
WithinSpent(db, j, cost) ==
  db.requests[j] < MaxRequests /\ db.spent[j] + cost <= MaxCost

WithinLimits(db, j, cost) ==
  /\ db.requests[j] < MaxRequests
  /\ db.spent[j] + db.reserved[j] + cost <= MaxCost

Reserve(db, t, h, cost) ==
  LET j == db.owner[t] IN
  [db EXCEPT !.open[t] = cost, !.by[t] = h,
             !.reserved[j] = @ + cost, !.requests[j] = @ + 1]

Mine(db, h) == LET t == call[h].token IN t \in Live(db) /\ db.open[t] > 0 /\ db.by[t] = h

\* Mutant: the amount reserved is read after it was cleared.
CloseCleared(db, t) == [db EXCEPT !.open[t] = 0, !.by[t] = NoHandler]

\* Mutant: one unit too many is given back.
CloseTwice(db, t) ==
  [db EXCEPT !.open[t] = 0, !.by[t] = NoHandler, !.reserved[db.owner[t]] = @ - db.open[t] - 1]

CloseReservation(db, t) ==
  [db EXCEPT !.open[t] = 0, !.by[t] = NoHandler, !.reserved[db.owner[t]] = @ - db.open[t]]

\* Mutant: only the budget closes a ledger, not the broken reservation.
RecordTolerantly(db, h) ==
  LET t == call[h].token  j == db.owner[t]
      closed == [CloseReservation(db, t) EXCEPT !.spent[j] = @ + call[h].usage]
  IN IF ~Mine(db, h) THEN db
     ELSE IF closed.spent[j] + closed.reserved[j] > MaxCost
     THEN [closed EXCEPT !.failed = @ \cup {j}]
     ELSE closed

\* recordUsage; nothing happens when the reservation is gone.
RecordUsage(db, h) ==
  LET t == call[h].token  j == db.owner[t]  a == call[h].usage
      closed == [CloseReservation(db, t) EXCEPT !.spent[j] = @ + a]
  IN IF ~Mine(db, h) THEN db
     ELSE IF a > db.open[t] \/ closed.spent[j] > MaxCost
     THEN [closed EXCEPT !.tokenFailed = @ \cup {t}, !.failed = @ \cup {j}]
     ELSE closed

ReleaseReservation(db, h) ==
  IF Mine(db, h) THEN CloseReservation(db, call[h].token) ELSE db

MarkAccountingFailed(db, h) ==
  IF ~Mine(db, h) THEN db
  ELSE [db EXCEPT !.tokenFailed = @ \cup {call[h].token},
                  !.failed = @ \cup {db.owner[call[h].token]}]

-----------------------------------------------------------------------------
(* POST /v1/responses *)

\* The client reads what is forwarded, lets the connection fill up, or left while
\* it was full.  One that leaves at another time is no longer written to.
Client == {"reads", "full", "left"}

At(h, pc) == up /\ call[h].pc = pc
Become(h, r) == call' = [call EXCEPT ![h] = r]
Goto(h, pc) == Become(h, [call[h] EXCEPT !.pc = pc])
Finish(h) == Become(h, Idle)

\* The body of the answer is read, and nobody waits for a client to drain.
Reading(h) == (At(h, "upstream") \/ At(h, "aborted")) /\ call[h].client = "reads"

Slots == {h \in Handlers : call[h].pc # "idle"}

\* acquireAdmissionSlot, before the body is read; who holds the token may use it
\* long after it is gone.
Admit(h, t) ==
  /\ At(h, "idle") /\ t \in drawn
  /\ Cardinality(Slots) < MaxInFlight
  /\ \A g \in Slots : call[g].token # t
  /\ Become(h, [Idle EXCEPT !.pc = "admitted", !.token = t])
  /\ UNCHANGED <<registry, up, control, money, faults>>

\* authorizeAndReserve: expired tokens are purged whatever the answer is.  What
\* follows up to the call of OpenAI is synchronous; a rewritten body that is too
\* large releases the reservation instead.
Authorize(h, cost) ==
  LET t == call[h].token  db == Purge(mem)
      next == Reserve(db, t, h, cost)
      allowed == Authorized(db, t) /\ WithinLimits(db, db.owner[t], cost)
  IN
  /\ At(h, "admitted")
  /\ \/ /\ allowed
        /\ Commit(next)
        /\ \E pc \in {"upstream", "release"} :
             Become(h, [call[h] EXCEPT !.pc = pc, !.cost = cost, !.job = db.owner[t]])
     \/ ~allowed /\ Commit(db) /\ Finish(h)
     \/ CommitFails(IF allowed THEN next ELSE db) /\ Finish(h)
  /\ UNCHANGED <<up, control, money>>

\* What OpenAI charges for a call is at most its reservation, unless a contract
\* on tokens and prices is broken.
Charge(h, a) ==
  LET j == call[h].job  over == a > call[h].cost IN
  /\ used' = [used EXCEPT ![j] = @ + a]
  /\ overshoot' = IF over THEN [overshoot EXCEPT ![j] = @ + a - call[h].cost] ELSE overshoot
  /\ overshot' = IF over THEN overshot \cup {call[h].token} ELSE overshot
  /\ IF over THEN Fault ELSE UNCHANGED faults

\* A chunk is written and the connection is full: the next one waits for "drain".
Stall(h) ==
  /\ At(h, "upstream") /\ Reading(h)
  /\ Become(h, [call[h] EXCEPT !.client = "full"])
  /\ UNCHANGED <<registry, up, control, money, faults>>

Drain(h) ==
  /\ up /\ call[h].client = "full"
  /\ Become(h, [call[h] EXCEPT !.client = "reads"])
  /\ UNCHANGED <<registry, up, control, money, faults>>

\* A connection that closes emits "close", neither "drain" nor "error".
Leave(h) ==
  /\ up /\ call[h].client = "full"
  /\ Become(h, [call[h] EXCEPT !.client = "left"])
  /\ UNCHANGED <<registry, up, control, money, faults>>

\* The answer of the model, of its status and its usage record.
Answered(h) ==
  /\ At(h, "upstream") /\ Reading(h)
  /\ \E a \in 0..(call[h].cost + 1), ok \in BOOLEAN :
       \/ /\ Charge(h, a)
          /\ Become(h, [call[h] EXCEPT !.pc = "record", !.usage = a, !.ok = ok])
       \/ ok /\ Charge(h, a) /\ Goto(h, "mark")           \* no usage in it
       \/ ~ok /\ a = 0 /\ Charge(h, a) /\ Goto(h, "release")
  /\ UNCHANGED <<registry, up, control>>

\* A timeout, a network error, a response over its limit, or the abort.
Failed(h) ==
  /\ Reading(h)
  /\ \E a \in 0..call[h].cost : Charge(h, a)
  /\ Goto(h, "mark")
  /\ UNCHANGED <<registry, up, control>>

Record(h) ==
  /\ At(h, "record")
  /\ \/ Commit(RecordUsage(mem, h)) /\ Finish(h)
     \/ /\ CommitFails(RecordUsage(mem, h))
        /\ IF call[h].ok THEN Goto(h, "mark") ELSE Finish(h)
  /\ UNCHANGED <<up, control, money>>

Release(h) ==
  /\ At(h, "release")
  /\ Commit(ReleaseReservation(mem, h)) \/ CommitFails(ReleaseReservation(mem, h))
  /\ Finish(h)
  /\ UNCHANGED <<up, control, money>>

Mark(h) ==
  /\ At(h, "mark")
  /\ Commit(MarkAccountingFailed(mem, h)) \/ CommitFails(MarkAccountingFailed(mem, h))
  /\ Finish(h)
  /\ UNCHANGED <<up, control, money>>

-----------------------------------------------------------------------------
(* The control server, the timer and the process *)

Register(t, j) ==
  LET next == [mem EXCEPT !.owner[t] = j] IN
  /\ up /\ t \notin drawn
  /\ drawn' = drawn \cup {t}
  /\ Commit(next) \/ CommitFails(next)
  /\ UNCHANGED <<up, call, revoking, revoked, expired, money>>

\* DELETE aborts the calls that are upstream, and queues the write.
AbortActiveRequests(t) ==
  /\ up /\ t \in drawn \ (revoking \cup revoked)
  /\ revoking' = revoking \cup {t}
  /\ call' = [h \in Handlers |-> IF call[h].token = t /\ call[h].pc = "upstream"
                                 THEN [call[h] EXCEPT !.pc = "aborted"] ELSE call[h]]
  /\ UNCHANGED <<registry, up, revoked, drawn, expired, money, faults>>

Revoke(t) ==
  LET next == SettleOutstanding(mem, {t} \cap Live(mem)) IN
  /\ up /\ t \in revoking
  /\ revoking' = revoking \ {t}
  /\ \/ Commit(next) /\ revoked' = revoked \cup {t}
     \/ CommitFails(next) /\ UNCHANGED revoked   \* the broker asks again
  /\ UNCHANGED <<up, call, drawn, expired, money>>

PurgeExpired ==
  /\ up /\ Live(mem) \cap expired # {}
  /\ Commit(Purge(mem)) \/ CommitFails(Purge(mem))
  /\ UNCHANGED <<up, call, control, money>>

Expire(t) ==
  /\ t \in drawn \ expired
  /\ expired' = expired \cup {t}
  /\ UNCHANGED <<registry, up, call, revoking, revoked, drawn, money, faults>>

\* A call that is upstream is charged for, answered or not.
Crash ==
  /\ up /\ Fault /\ up' = FALSE
  /\ \E charged \in [Handlers -> Costs \cup {0}] :
       /\ \A h \in Handlers :
            charged[h] > 0 => call[h].pc \in {"upstream", "aborted"} /\ charged[h] <= call[h].cost
       /\ used' = [j \in Jobs |-> used[j] +
            MapThenSumSet(LAMBDA h : charged[h], {h \in Handlers : call[h].job = j})]
  /\ call' = [h \in Handlers |-> Idle]
  /\ revoking' = {}
  /\ UNCHANGED <<registry, revoked, drawn, expired, overshot, overshoot>>

\* The file is read and expired tokens are purged before anybody is served.
Restart ==
  /\ ~up /\ up' = TRUE
  /\ Commit(Purge(disk))
  /\ UNCHANGED <<call, control, money>>

-----------------------------------------------------------------------------

Handler(h) ==
  \/ \E cost \in Costs : Authorize(h, cost)
  \/ Answered(h) \/ Failed(h)
  \/ Record(h) \/ Release(h) \/ Mark(h)

Next ==
  \/ \E h \in Handlers : \/ Handler(h) \/ Stall(h) \/ Drain(h) \/ Leave(h)
                         \/ \E t \in Tokens : Admit(h, t)
  \/ \E t \in Tokens : \/ \E j \in Jobs : Register(t, j)
                       \/ AbortActiveRequests(t) \/ Revoke(t) \/ Expire(t)
  \/ PurgeExpired \/ Crash \/ Restart

\* A call ends: its last write is done, or its client is gone.
EndCall(h) == Drain(h) \/ Leave(h)

Spec == Init /\ [][Next]_vars

-----------------------------------------------------------------------------
(* Properties *)

Registry ==
  [owner: [Tokens -> Jobs \cup {NoJob}], open: [Tokens -> Nat],
   by: [Tokens -> Handlers \cup {NoHandler}], tokenFailed: SUBSET Tokens,
   spent: [Jobs -> Nat], reserved: [Jobs -> Nat], requests: [Jobs -> 0..MaxRequests],
   failed: SUBSET Jobs]

TypeOK ==
  /\ mem \in Registry /\ disk \in Registry /\ up \in BOOLEAN
  /\ call \in [Handlers -> [pc: PC, token: Tokens \cup {NoToken}, job: Jobs \cup {NoJob},
                            cost: Costs \cup {0}, usage: Nat, ok: BOOLEAN,
                            client: Client]]
  /\ \A set \in {revoking, revoked, drawn, expired, overshot} : set \subseteq Tokens
  /\ used \in [Jobs -> Nat] /\ overshoot \in [Jobs -> Nat] /\ faults \in 0..MaxFaults

\* What a ledger says is reserved is what its tokens have open.  validateTokenState
\* refuses every further write of a registry of which this is not true.
Reconciles ==
  \A db \in {mem, disk}, j \in Jobs : db.reserved[j] = Outstanding(db, Tokens, j)

\* Every unit OpenAI charges is in the ledger, spent or reserved, in memory and in
\* the file, at every moment: nothing that fails, is revoked, expires or crashes
\* makes money disappear, but for what a call cost beyond its reservation.
EverythingIsPaid ==
  \A db \in {mem, disk}, j \in Jobs : used[j] <= db.spent[j] + db.reserved[j] + overshoot[j]

\* A budget class is a ceiling: what is spent and reserved exceeds it only on a
\* ledger that is closed for good.
WithinBudget ==
  \A j \in Jobs : mem.spent[j] + mem.reserved[j] > MaxCost => j \in mem.failed

\* A token whose call cost more than its reservation never makes another call
\* (README: "the token cannot make a second request").
OvershotIsStopped ==
  \A h \in Handlers : call[h].pc = "admitted" /\ call'[h].job # NoJob
                      => call[h].token \notin overshot

\* A closed ledger stays closed, over retries, revocations and restarts: no token of
\* the source job reserves anything again.
ClosedForGood ==
  \A j \in mem.failed : j \in mem'.failed /\ mem'.requests[j] = mem.requests[j]

\* tests/egress-proxy.test.mjs:423: "control-plane revocation aborts an in-flight
\* upstream request".  No call is upstream for a token whose revocation was
\* answered.
RevokedIsAborted == \A h \in Handlers : call[h].pc = "upstream" => call[h].token \notin revoked

\* egress-proxy.mjs:313: when Codex closes a streamed response the proxy shall "keep
\* consuming the already-bounded upstream response so exact usage can be settled
\* before the next turn".  Every admitted call ends and gives its slot back.
SlotsReturn == \A h \in Handlers : call[h].pc # "idle" ~> call[h].pc = "idle"

\* A token with a reservation that is not settled yet.
HasReservation(t) == mem.open[t] > 0
=============================================================================
