-------------------------- MODULE TokenBudget_proofs --------------------------
(***************************************************************************)
(* Theorems about the egress proxy, for any finite sets of tokens and of   *)
(* handlers, any source jobs, limits, costs and faults.                    *)
(***************************************************************************)
EXTENDS TokenBudget, SetSums_proofs

\* Calls that OpenAI may still charge for, and calls that have a reservation
Unanswered == {"upstream", "aborted"}
Reserved == Unanswered \cup {"record", "release", "mark"}

\* A registry that validateTokenState would accept, within its budgets
Sound(db) ==
  /\ db \in Registry
  /\ \A j \in Jobs : db.reserved[j] = Outstanding(db, Tokens, j)
  /\ \A t \in Tokens : db.owner[t] = NoJob => db.open[t] = 0
  /\ \A j \in Jobs : db.spent[j] + db.reserved[j] > MaxCost => j \in db.failed

\* A ledger that is closed in db is closed in n, and nothing was reserved on it.
Keeps(db, n) ==
  \A j \in db.failed : j \in n.failed /\ n.requests[j] = db.requests[j]

\* What the answer to call r may still take from its reservation
Due(r) ==
  IF r.pc \in Unanswered \cup {"release"} THEN r.cost
  ELSE IF r.pc = "record" /\ r.usage <= r.cost THEN r.cost - r.usage ELSE 0

\* The same, for source job j only
DueAt(r, j) == IF r.job = j THEN Due(r) ELSE 0

DueOf(calls, j) == [h \in Handlers |-> DueAt(calls[h], j)]

\* A ledger has what was charged and what may still be charged or given back.
Covers(db, calls, charged, over) ==
  \A j \in Jobs : charged[j] + SumOf(DueOf(calls, j), Handlers)
                    <= db.spent[j] + db.reserved[j] + over[j]

\* Only tokens that were drawn are in a registry.
DrawnOnly(db, tokens) == \A t \in Tokens \ tokens : db.owner[t] = NoJob

\* A call r of a token that is in use, while the proxy runs
CallOK(r, running, tokens) ==
  /\ r.pc # "idle" => running /\ r.token \in tokens
  /\ r.pc \in {"idle", "admitted"} => r.job = NoJob
  /\ r.pc \in Reserved => r.job \in Jobs /\ r.cost \in Costs

\* A token serves one call at a time.
OneSlot(calls) ==
  \A g, h \in Handlers :
    calls[g].pc # "idle" /\ calls[h].pc # "idle" /\ calls[g].token = calls[h].token => g = h

\* What is open under the token of a call is what the call reserved.
Holds(db, r) ==
  r.pc \in Reserved /\ db.owner[r.token] # NoJob /\ db.open[r.token] > 0
    => db.open[r.token] = r.cost /\ db.owner[r.token] = r.job

\* As long as a call is upstream, its reservation is open, unless its token is gone.
StillOpen(db, r) ==
  r.pc \in Unanswered /\ db.owner[r.token] # NoJob => db.open[r.token] > 0

\* A token with a call that was too expensive is gone, marked, or not settled yet.
Stopped(db, t) == t \in Live(db) => t \in db.tokenFailed \/ db.open[t] > 0

\* A call of such a token is the one that was too expensive.
OverOK(r, tokens) ==
  /\ r.token \in tokens => r.pc \notin Unanswered \cup {"release"}
  /\ r.token \in tokens /\ r.pc = "record" => r.usage > r.cost

RegistryInv ==
  /\ Sound(mem) /\ Sound(disk) /\ Keeps(mem, disk)
  /\ DrawnOnly(mem, drawn) /\ DrawnOnly(disk, drawn)

CallInv ==
  /\ OneSlot(call)
  /\ \A h \in Handlers : /\ CallOK(call[h], up, drawn) /\ Holds(mem, call[h])
                         /\ StillOpen(mem, call[h]) /\ StillOpen(disk, call[h])

CoverInv == Covers(mem, call, used, overshoot) /\ Covers(disk, call, used, overshoot)

OverInv ==
  /\ overshot \subseteq drawn
  /\ \A t \in overshot : Stopped(mem, t) /\ Stopped(disk, t)
  /\ \A h \in Handlers : OverOK(call[h], overshot)

BudgetInv == TypeOK /\ RegistryInv /\ CallInv /\ CoverInv /\ OverInv

-----------------------------------------------------------------------------
(* Registries *)

\* What token t has open for source job j
Part(db, j) == [t \in Tokens |-> IF db.owner[t] = j THEN db.open[t] ELSE 0]

\* The assumptions on the constants.  A deployment has finitely many of each.
Finite == BudgetAssumption /\ IsFiniteSet(Tokens) /\ IsFiniteSet(Handlers)

\* What a call may reserve
LEMMA CostsArePositive ==
  ASSUME Finite
  PROVE  \A c \in Costs : c \in Nat /\ c > 0
BY DEF Finite, BudgetAssumption

\* The fields of a registry
LEMMA Fields ==
  ASSUME NEW db \in Registry
  PROVE  /\ db.owner \in [Tokens -> Jobs \cup {NoJob}]
         /\ db.open \in [Tokens -> Nat]
         /\ db.by \in [Tokens -> Handlers \cup {NoHandler}]
         /\ db.tokenFailed \in SUBSET Tokens
         /\ db.spent \in [Jobs -> Nat] /\ db.reserved \in [Jobs -> Nat]
         /\ db.requests \in [Jobs -> 0..MaxRequests] /\ db.failed \in SUBSET Jobs
BY DEF Registry

\* What the tokens T have open is a sum over all tokens.
LEMMA OutstandingIsSum ==
  ASSUME Finite, NEW db \in Registry, NEW T \in SUBSET Tokens, NEW j,
         NEW m \in [Tokens -> Nat],
         \A t \in Tokens : m[t] = IF t \in T /\ db.owner[t] = j THEN db.open[t] ELSE 0
  PROVE  Outstanding(db, T, j) = SumOf(m, Tokens)
<1> DEFINE R == {t \in T : db.owner[t] = j}
<1>1. R \in SUBSET Tokens /\ db.open \in [Tokens -> Nat]
  BY Fields
<1>2. \A t \in Tokens : m[t] = IF t \in R THEN db.open[t] ELSE 0
  OBVIOUS
<1>3. SumOf(db.open, R) = SumOf(m, Tokens)
  <2> HIDE DEF R
  <2> QED
    BY <1>1, <1>2, SumOfPart DEF Finite
<1>4. Outstanding(db, T, j) = SumOf(db.open, R)
  BY DEF Outstanding, SumOf
<1> QED
  BY <1>3, <1>4

\* What a sound registry has reserved, token by token
LEMMA ReservedIsSum ==
  ASSUME Finite, NEW db, Sound(db), NEW j \in Jobs
  PROVE  /\ Part(db, j) \in [Tokens -> Nat]
         /\ db.reserved[j] = SumOf(Part(db, j), Tokens)
<1>1. db \in Registry /\ Tokens \in SUBSET Tokens
  BY DEF Sound
<1>2. Part(db, j) \in [Tokens -> Nat]
  BY <1>1, Fields DEF Part
<1>3. \A t \in Tokens : Part(db, j)[t] = IF t \in Tokens /\ db.owner[t] = j THEN db.open[t] ELSE 0
  BY DEF Part
<1> QED
  BY <1>1, <1>2, <1>3, OutstandingIsSum DEF Sound

\* A registry reconciles when its sums do.
LEMMA SumIsReserved ==
  ASSUME Finite, NEW db \in Registry,
         \A j \in Jobs : db.reserved[j] = SumOf(Part(db, j), Tokens)
  PROVE  \A j \in Jobs : db.reserved[j] = Outstanding(db, Tokens, j)
<1> SUFFICES ASSUME NEW j \in Jobs
             PROVE  db.reserved[j] = Outstanding(db, Tokens, j)
  OBVIOUS
<1>1. Part(db, j) \in [Tokens -> Nat]
  BY Fields DEF Part
<1>2. \A t \in Tokens : Part(db, j)[t] = IF t \in Tokens /\ db.owner[t] = j THEN db.open[t] ELSE 0
  BY DEF Part
<1> QED
  BY <1>1, <1>2, OutstandingIsSum

\* What is open for source job j when the tokens T are gone
Left(db, T, j) == [t \in Tokens |-> IF t \in T THEN 0 ELSE Part(db, j)[t]]

\* What the removal of tokens moves from reserved to spent, and what it leaves
LEMMA SettleMoves ==
  ASSUME Finite, NEW db, Sound(db), NEW T \in SUBSET Tokens, NEW j \in Jobs
  PROVE  /\ Outstanding(db, T, j) \in Nat /\ SumOf(Left(db, T, j), Tokens) \in Nat
         /\ db.reserved[j] = SumOf(Left(db, T, j), Tokens) + Outstanding(db, T, j)
<1> DEFINE left == Left(db, T, j)
           gone == [t \in Tokens |-> IF t \in T THEN Part(db, j)[t] ELSE 0]
<1>1. Part(db, j) \in [Tokens -> Nat] /\ db.reserved[j] = SumOf(Part(db, j), Tokens)
  BY ReservedIsSum
<1>2. /\ left \in [Tokens -> Nat] /\ gone \in [Tokens -> Nat]
      /\ \A t \in Tokens : Part(db, j)[t] = left[t] + gone[t]
  BY <1>1 DEF Left
<1>3. \A t \in Tokens : gone[t] = IF t \in T /\ db.owner[t] = j THEN db.open[t] ELSE 0
  BY DEF Part
<1> HIDE DEF left, gone
<1>4. SumOf(Part(db, j), Tokens) = SumOf(left, Tokens) + SumOf(gone, Tokens)
  BY <1>1, <1>2, SumOfPlus DEF Finite
<1>5. Outstanding(db, T, j) = SumOf(gone, Tokens)
  BY <1>2, <1>3, OutstandingIsSum DEF Sound
<1>6. SumOf(left, Tokens) \in Nat /\ SumOf(gone, Tokens) \in Nat
  BY <1>2, SumOfType DEF Finite
<1> QED
  BY <1>1, <1>4, <1>5, <1>6 DEF left

\* The fields of a registry after its tokens T are gone
LEMMA SettleFields ==
  ASSUME NEW db \in Registry, NEW T, NEW n, n = SettleOutstanding(db, T)
  PROVE  /\ \A j \in Jobs : /\ n.spent[j] = db.spent[j] + Outstanding(db, T, j)
                            /\ n.reserved[j] = db.reserved[j] - Outstanding(db, T, j)
         /\ \A t \in Tokens : /\ n.owner[t] = IF t \in T THEN NoJob ELSE db.owner[t]
                              /\ n.open[t] = IF t \in T THEN 0 ELSE db.open[t]
                              /\ t \in n.tokenFailed <=> t \in db.tokenFailed /\ t \notin T
         /\ db.failed \subseteq n.failed
         /\ n.requests = db.requests
BY DEF SettleOutstanding, Registry

\* It is a registry again: nothing is reserved that was not.
LEMMA SettleType ==
  ASSUME Finite, NEW db, Sound(db), NEW T \in SUBSET Live(db)
  PROVE  SettleOutstanding(db, T) \in Registry
<1> DEFINE spent == [j \in Jobs |-> db.spent[j] + Outstanding(db, T, j)]
           reserved == [j \in Jobs |-> db.reserved[j] - Outstanding(db, T, j)]
           failed == db.failed \cup {db.owner[t] : t \in {u \in T : db.open[u] > 0}}
           owner == [t \in Tokens |-> IF t \in T THEN NoJob ELSE db.owner[t]]
           open == [t \in Tokens |-> IF t \in T THEN 0 ELSE db.open[t]]
           by == [t \in Tokens |-> IF t \in T THEN NoHandler ELSE db.by[t]]
           tokenFailed == db.tokenFailed \ T
<1>1. db \in Registry /\ T \in SUBSET Tokens
  BY DEF Sound, Live
<1>2. spent \in [Jobs -> Nat] /\ reserved \in [Jobs -> Nat]
  <2> SUFFICES ASSUME NEW j \in Jobs
               PROVE  db.spent[j] + Outstanding(db, T, j) \in Nat
                      /\ db.reserved[j] - Outstanding(db, T, j) \in Nat
    OBVIOUS
  <2>1. db.spent[j] \in Nat /\ db.reserved[j] \in Nat
    BY <1>1, Fields
  <2> QED
    BY <1>1, <2>1, SettleMoves
<1>3. failed \in SUBSET Jobs
  BY <1>1, Fields DEF Live
<1>4. /\ owner \in [Tokens -> Jobs \cup {NoJob}] /\ open \in [Tokens -> Nat]
      /\ by \in [Tokens -> Handlers \cup {NoHandler}] /\ tokenFailed \in SUBSET Tokens
  BY <1>1, Fields
<1>5. SettleOutstanding(db, T) =
        [db EXCEPT !.spent = spent, !.reserved = reserved, !.failed = failed,
                   !.owner = owner, !.open = open, !.by = by, !.tokenFailed = tokenFailed]
  BY DEF SettleOutstanding
<1> HIDE DEF spent, reserved, failed, owner, open, by, tokenFailed
<1> QED
  BY <1>1, <1>2, <1>3, <1>4, <1>5 DEF Registry

\* The removal of tokens keeps a registry sound and every total as it is.
LEMMA SettleSound ==
  ASSUME Finite, NEW db, Sound(db), NEW T \in SUBSET Live(db)
  PROVE  LET n == SettleOutstanding(db, T)
         IN  /\ Sound(n) /\ Keeps(db, n)
             /\ \A j \in Jobs : n.spent[j] + n.reserved[j] = db.spent[j] + db.reserved[j]
<1> DEFINE n == SettleOutstanding(db, T)
<1>1. db \in Registry /\ n \in Registry /\ T \in SUBSET Tokens
  BY SettleType DEF Sound, Live
<1>2. \A j \in Jobs : /\ n.spent[j] = db.spent[j] + Outstanding(db, T, j)
                      /\ n.reserved[j] = db.reserved[j] - Outstanding(db, T, j)
  BY <1>1, SettleFields
<1>3. /\ db.failed \subseteq n.failed /\ n.requests = db.requests
      /\ \A t \in Tokens : /\ n.owner[t] = IF t \in T THEN NoJob ELSE db.owner[t]
                           /\ n.open[t] = IF t \in T THEN 0 ELSE db.open[t]
  BY <1>1, SettleFields
<1> HIDE DEF n
<1>4. ASSUME NEW j \in Jobs
      PROVE  /\ n.spent[j] + n.reserved[j] = db.spent[j] + db.reserved[j]
             /\ n.reserved[j] = SumOf(Part(n, j), Tokens)
  <2> DEFINE left == Left(db, T, j)
  <2>1. /\ Outstanding(db, T, j) \in Nat /\ SumOf(left, Tokens) \in Nat
        /\ db.reserved[j] = SumOf(left, Tokens) + Outstanding(db, T, j)
    BY <1>1, SettleMoves
  <2>2. db.spent[j] \in Nat /\ db.reserved[j] \in Nat
    BY <1>1, Fields
  <2>3. Part(n, j) = left
    <3>1. NoJob \notin Jobs
      BY DEF Finite, BudgetAssumption
    <3> QED
      BY <1>3, <3>1 DEF Part, Left
  <2> HIDE DEF left
  <2> QED
    BY <1>2, <2>1, <2>2, <2>3
<1>5. \A j \in Jobs : n.reserved[j] = Outstanding(n, Tokens, j)
  BY <1>1, <1>4, SumIsReserved
<1>6. Sound(n)
  BY <1>1, <1>3, <1>4, <1>5 DEF Sound
<1> QED
  BY <1>3, <1>4, <1>6 DEF Keeps, n

\* What one token has open is part of what its source job has reserved.
LEMMA OpenIsReserved ==
  ASSUME Finite, NEW db, Sound(db), NEW t \in Tokens, db.owner[t] \in Jobs
  PROVE  db.open[t] <= db.reserved[db.owner[t]]
<1> DEFINE j == db.owner[t]
           part == Part(db, j)
<1>1. part \in [Tokens -> Nat] /\ db.reserved[j] = SumOf(part, Tokens)
  BY ReservedIsSum
<1>2. part[t] = db.open[t]
  BY DEF Part
<1> HIDE DEF part
<1>3. SumOf(part, Tokens) = part[t] + SumOf(part, Tokens \ {t})
  BY <1>1, SumOfRemove DEF Finite
<1>4. SumOf(part, Tokens \ {t}) \in Nat
  BY <1>1, SumOfType, FS_RemoveElement DEF Finite
<1>5. db.open[t] \in Nat
  BY Fields DEF Sound
<1> QED
  BY <1>1, <1>2, <1>3, <1>4, <1>5

\* A registry that differs at one token and in what its source job has reserved
\* reconciles when both differ by the same amount.
LEMMA OneTokenReconciles ==
  ASSUME Finite, NEW db, Sound(db), NEW n \in Registry, NEW t \in Tokens,
         db.owner[t] \in Jobs, n.owner = db.owner,
         \A u \in Tokens \ {t} : n.open[u] = db.open[u],
         \A i \in Jobs \ {db.owner[t]} : n.reserved[i] = db.reserved[i],
         n.reserved[db.owner[t]] + db.open[t] = db.reserved[db.owner[t]] + n.open[t]
  PROVE  \A i \in Jobs : n.reserved[i] = Outstanding(n, Tokens, i)
<1> SUFFICES ASSUME NEW i \in Jobs
             PROVE  n.reserved[i] = SumOf(Part(n, i), Tokens)
  BY SumIsReserved
<1>1. Part(db, i) \in [Tokens -> Nat] /\ db.reserved[i] = SumOf(Part(db, i), Tokens)
  BY ReservedIsSum
<1>2. Part(n, i) \in [Tokens -> Nat]
  BY Fields DEF Part
<1>3. \A u \in Tokens \ {t} : Part(n, i)[u] = Part(db, i)[u]
  BY DEF Part
<1>4. SumOf(Part(n, i), Tokens) + Part(db, i)[t] = SumOf(Part(db, i), Tokens) + Part(n, i)[t]
  BY <1>1, <1>2, <1>3, SumOfChange DEF Finite
<1>5. /\ db.open[t] \in Nat /\ n.open[t] \in Nat
      /\ db.reserved[i] \in Nat /\ n.reserved[i] \in Nat
  BY Fields DEF Sound
<1>6. SumOf(Part(n, i), Tokens) \in Nat
  BY <1>2, SumOfType DEF Finite
<1>7. CASE i = db.owner[t]
  <2>1. Part(db, i)[t] = db.open[t] /\ Part(n, i)[t] = n.open[t]
    BY <1>7 DEF Part
  <2> QED
    BY <1>1, <1>4, <1>5, <1>6, <1>7, <2>1
<1>8. CASE i # db.owner[t]
  <2>1. Part(db, i)[t] = 0 /\ Part(n, i)[t] = 0
    BY <1>8 DEF Part
  <2> QED
    BY <1>1, <1>4, <1>5, <1>6, <1>8, <2>1
<1> QED
  BY <1>7, <1>8

\* The fields of a registry after a reservation
LEMMA ReserveFields ==
  ASSUME NEW db \in Registry, NEW t \in Tokens, NEW h \in Handlers, NEW c \in Nat,
         db.owner[t] \in Jobs, db.requests[db.owner[t]] < MaxRequests, MaxRequests \in Nat,
         NEW n, n = Reserve(db, t, h, c)
  PROVE  /\ n \in Registry
         /\ n.owner = db.owner /\ n.tokenFailed = db.tokenFailed
         /\ n.spent = db.spent /\ n.failed = db.failed
         /\ \A u \in Tokens : n.open[u] = IF u = t THEN c ELSE db.open[u]
         /\ \A j \in Jobs :
              /\ n.reserved[j] = IF j = db.owner[t] THEN db.reserved[j] + c ELSE db.reserved[j]
              /\ j # db.owner[t] => n.requests[j] = db.requests[j]
<1> DEFINE j == db.owner[t]
           open == [db.open EXCEPT ![t] = c]
           by == [db.by EXCEPT ![t] = h]
           reserved == [db.reserved EXCEPT ![j] = @ + c]
           requests == [db.requests EXCEPT ![j] = @ + 1]
<1>1. /\ open \in [Tokens -> Nat] /\ by \in [Tokens -> Handlers \cup {NoHandler}]
      /\ reserved \in [Jobs -> Nat] /\ requests \in [Jobs -> 0..MaxRequests]
  BY Fields
<1>2. n = [db EXCEPT !.open = open, !.by = by, !.reserved = reserved, !.requests = requests]
  BY DEF Reserve, Registry
<1>3. n \in Registry
  <2> HIDE DEF open, by, reserved, requests
  <2> QED
    BY <1>1, <1>2 DEF Registry
<1>4. /\ n.owner = db.owner /\ n.tokenFailed = db.tokenFailed
      /\ n.spent = db.spent /\ n.failed = db.failed
      /\ n.open = open /\ n.reserved = reserved /\ n.requests = requests
  <2> HIDE DEF open, by, reserved, requests
  <2> QED
    BY <1>2 DEF Registry
<1> QED
  BY <1>3, <1>4, Fields

\* A reservation within the limits keeps the registry sound.
LEMMA ReserveSound ==
  ASSUME Finite, NEW db, Sound(db), NEW t \in Tokens, NEW h \in Handlers, NEW c \in Costs,
         Authorized(db, t), WithinLimits(db, db.owner[t], c),
         NEW n, n = Reserve(db, t, h, c)
  PROVE  /\ Sound(n) /\ Keeps(db, n)
         /\ \A j \in Jobs : n.spent[j] + n.reserved[j] =
                db.spent[j] + db.reserved[j] + IF j = db.owner[t] THEN c ELSE 0
<1>1. /\ db \in Registry /\ db.owner[t] \in Jobs /\ db.open[t] = 0
      /\ db.owner[t] \notin db.failed
  BY Fields DEF Sound, Authorized, Live
<1>2. c \in Nat /\ MaxRequests \in Nat /\ db.requests[db.owner[t]] < MaxRequests
      /\ NoJob \notin Jobs /\ MaxCost \in Nat
  BY DEF Finite, BudgetAssumption, WithinLimits
<1>3. /\ n \in Registry
      /\ n.owner = db.owner /\ n.tokenFailed = db.tokenFailed
      /\ n.spent = db.spent /\ n.failed = db.failed
      /\ \A u \in Tokens : n.open[u] = IF u = t THEN c ELSE db.open[u]
      /\ \A j \in Jobs :
           /\ n.reserved[j] = IF j = db.owner[t] THEN db.reserved[j] + c ELSE db.reserved[j]
           /\ j # db.owner[t] => n.requests[j] = db.requests[j]
  BY <1>1, <1>2, ReserveFields
<1>4. \A j \in Jobs : db.reserved[j] \in Nat /\ db.spent[j] \in Nat
  BY <1>1, Fields
<1>5. \A i \in Jobs : n.reserved[i] = Outstanding(n, Tokens, i)
  BY <1>1, <1>2, <1>3, <1>4, OneTokenReconciles
<1>6. \A j \in Jobs : n.spent[j] + n.reserved[j] =
        db.spent[j] + db.reserved[j] + IF j = db.owner[t] THEN c ELSE 0
  BY <1>2, <1>3, <1>4
<1>7. \A j \in Jobs : n.spent[j] + n.reserved[j] > MaxCost => j \in n.failed
  <2> SUFFICES ASSUME NEW j \in Jobs
               PROVE  n.spent[j] + n.reserved[j] > MaxCost => j \in n.failed
    OBVIOUS
  <2>1. CASE j = db.owner[t]
    BY <1>2, <1>4, <1>6, <2>1 DEF WithinLimits
  <2>2. CASE j # db.owner[t]
    BY <1>3, <1>4, <1>6, <2>2 DEF Sound
  <2> QED
    BY <2>1, <2>2
<1>8. \A u \in Tokens : n.owner[u] = NoJob => n.open[u] = 0
  BY <1>1, <1>2, <1>3 DEF Sound
<1>9. Keeps(db, n)
  BY <1>1, <1>3, Fields DEF Keeps
<1> QED
  BY <1>3, <1>5, <1>6, <1>7, <1>8, <1>9 DEF Sound

\* The fields of a registry after a reservation is closed
LEMMA CloseFields ==
  ASSUME NEW db \in Registry, NEW t \in Tokens, db.owner[t] \in Jobs,
         db.open[t] <= db.reserved[db.owner[t]],
         NEW n, n = CloseReservation(db, t)
  PROVE  /\ n \in Registry
         /\ n.owner = db.owner /\ n.tokenFailed = db.tokenFailed
         /\ n.spent = db.spent /\ n.failed = db.failed /\ n.requests = db.requests
         /\ \A u \in Tokens : n.open[u] = IF u = t THEN 0 ELSE db.open[u]
         /\ \A j \in Jobs :
              n.reserved[j] = IF j = db.owner[t] THEN db.reserved[j] - db.open[t]
                                                 ELSE db.reserved[j]
<1> DEFINE j == db.owner[t]
           open == [db.open EXCEPT ![t] = 0]
           by == [db.by EXCEPT ![t] = NoHandler]
           reserved == [db.reserved EXCEPT ![j] = @ - db.open[t]]
<1>1. /\ open \in [Tokens -> Nat] /\ by \in [Tokens -> Handlers \cup {NoHandler}]
      /\ reserved \in [Jobs -> Nat]
  BY Fields
<1>2. n = [db EXCEPT !.open = open, !.by = by, !.reserved = reserved]
  BY DEF CloseReservation, Registry
<1>3. n \in Registry
  <2> HIDE DEF open, by, reserved
  <2> QED
    BY <1>1, <1>2 DEF Registry
<1>4. /\ n.owner = db.owner /\ n.tokenFailed = db.tokenFailed
      /\ n.spent = db.spent /\ n.failed = db.failed /\ n.requests = db.requests
      /\ n.open = open /\ n.reserved = reserved
  <2> HIDE DEF open, by, reserved
  <2> QED
    BY <1>2 DEF Registry
<1> QED
  BY <1>3, <1>4, Fields

\* The same, when the call of handler h has its usage recorded
LEMMA RecordFields ==
  ASSUME NEW db \in Registry, NEW h \in Handlers, NEW t \in Tokens, NEW a \in Nat,
         t = call[h].token, a = call[h].usage, Mine(db, h), db.owner[t] \in Jobs,
         db.open[t] <= db.reserved[db.owner[t]],
         NEW n, n = RecordUsage(db, h)
  PROVE  /\ n \in Registry
         /\ n.owner = db.owner /\ n.requests = db.requests
         /\ db.failed \subseteq n.failed /\ db.tokenFailed \subseteq n.tokenFailed
         /\ \A u \in Tokens : n.open[u] = IF u = t THEN 0 ELSE db.open[u]
         /\ \A j \in Jobs :
              /\ n.reserved[j] = IF j = db.owner[t] THEN db.reserved[j] - db.open[t]
                                                    ELSE db.reserved[j]
              /\ n.spent[j] = IF j = db.owner[t] THEN db.spent[j] + a ELSE db.spent[j]
         /\ a > db.open[t] => t \in n.tokenFailed
         /\ a > db.open[t] \/ n.spent[db.owner[t]] > MaxCost => db.owner[t] \in n.failed
<1> DEFINE j == db.owner[t]
           c == CloseReservation(db, t)
           spent == [c.spent EXCEPT ![j] = @ + a]
           closed == [c EXCEPT !.spent[j] = @ + a]
           marked == [closed EXCEPT !.tokenFailed = @ \cup {t}, !.failed = @ \cup {j}]
<1>1. /\ c \in Registry
      /\ c.owner = db.owner /\ c.tokenFailed = db.tokenFailed
      /\ c.spent = db.spent /\ c.failed = db.failed /\ c.requests = db.requests
      /\ \A u \in Tokens : c.open[u] = IF u = t THEN 0 ELSE db.open[u]
      /\ \A i \in Jobs : c.reserved[i] = IF i = j THEN db.reserved[i] - db.open[t]
                                                  ELSE db.reserved[i]
  BY CloseFields
<1>2. n = IF a > db.open[t] \/ closed.spent[j] > MaxCost THEN marked ELSE closed
  BY DEF RecordUsage
<1> HIDE DEF c
<1>3. /\ closed \in Registry
      /\ closed.owner = c.owner /\ closed.open = c.open /\ closed.requests = c.requests
      /\ closed.tokenFailed = c.tokenFailed /\ closed.failed = c.failed
      /\ closed.reserved = c.reserved /\ closed.spent = spent
  <2>1. closed = [c EXCEPT !.spent = spent]
    BY <1>1 DEF Registry
  <2>2. spent \in [Jobs -> Nat]
    BY <1>1, Fields
  <2> HIDE DEF closed, spent
  <2> QED
    BY <1>1, <2>1, <2>2 DEF Registry
<1> HIDE DEF closed
<1>4. /\ marked \in Registry
      /\ marked.owner = closed.owner /\ marked.open = closed.open
      /\ marked.requests = closed.requests /\ marked.reserved = closed.reserved
      /\ marked.spent = closed.spent
      /\ marked.tokenFailed = closed.tokenFailed \cup {t}
      /\ marked.failed = closed.failed \cup {j}
  BY <1>3 DEF Registry
<1> HIDE DEF marked
<1>5. \A i \in Jobs : spent[i] = IF i = j THEN db.spent[i] + a ELSE db.spent[i]
  BY <1>1, Fields
<1> HIDE DEF spent
<1>6. CASE a > db.open[t] \/ closed.spent[j] > MaxCost
  <2>1. n = marked
    BY <1>2, <1>6
  <2> QED
    BY <1>1, <1>3, <1>4, <1>5, <2>1
<1>7. CASE ~(a > db.open[t] \/ closed.spent[j] > MaxCost)
  <2>1. n = closed
    BY <1>2, <1>7
  <2> QED
    BY <1>1, <1>3, <1>5, <1>7, <2>1
<1> QED
  BY <1>6, <1>7

\* What most operations leave of a token: it is gone, or as it was.
Same(db, n, u) ==
  \/ n.owner[u] = NoJob
  \/ /\ n.owner[u] = db.owner[u] /\ n.open[u] = db.open[u]
     /\ u \in db.tokenFailed => u \in n.tokenFailed

Total(db, j) == db.spent[j] + db.reserved[j]

\* A registry n that an operation on token t may make of db
Made(db, n, t) ==
  /\ Sound(n) /\ Keeps(db, n)
  /\ \A u \in Tokens \ {t} : Same(db, n, u)

\* Whose reservation is closed has a token and a job.
LEMMA MineIsHeld ==
  ASSUME Finite, NEW db, Sound(db), NEW h, Mine(db, h)
  PROVE  /\ call[h].token \in Tokens /\ db.owner[call[h].token] \in Jobs
         /\ db.open[call[h].token] > 0
         /\ db.open[call[h].token] <= db.reserved[db.owner[call[h].token]]
<1>1. /\ call[h].token \in Tokens /\ db.owner[call[h].token] \in Jobs
      /\ db.open[call[h].token] > 0
  BY Fields DEF Mine, Live, Sound
<1> QED
  BY <1>1, OpenIsReserved

\* Recording the usage of a call: what it cost takes the place of what was open.
LEMMA RecordSound ==
  ASSUME Finite, NEW db, Sound(db), NEW h \in Handlers, NEW a \in Nat, a = call[h].usage,
         Mine(db, h), NEW t, t = call[h].token, NEW n, n = RecordUsage(db, h)
  PROVE  /\ Made(db, n, t)
         /\ n.owner[t] = db.owner[t] /\ n.open[t] = 0
         /\ a > db.open[t] => t \in n.tokenFailed
         /\ t \in db.tokenFailed => t \in n.tokenFailed
         /\ \A j \in Jobs : IF j = db.owner[t] THEN Total(n, j) + db.open[t] = Total(db, j) + a
                                              ELSE Total(n, j) = Total(db, j)
<1>1. /\ t \in Tokens /\ db.owner[t] \in Jobs /\ db.open[t] > 0
      /\ db.open[t] <= db.reserved[db.owner[t]] /\ db \in Registry
  BY MineIsHeld DEF Sound
<1>2. /\ n \in Registry
      /\ n.owner = db.owner /\ n.requests = db.requests
      /\ db.failed \subseteq n.failed /\ db.tokenFailed \subseteq n.tokenFailed
      /\ \A u \in Tokens : n.open[u] = IF u = t THEN 0 ELSE db.open[u]
      /\ \A j \in Jobs :
           /\ n.reserved[j] = IF j = db.owner[t] THEN db.reserved[j] - db.open[t]
                                                 ELSE db.reserved[j]
           /\ n.spent[j] = IF j = db.owner[t] THEN db.spent[j] + a ELSE db.spent[j]
      /\ a > db.open[t] => t \in n.tokenFailed
      /\ a > db.open[t] \/ n.spent[db.owner[t]] > MaxCost => db.owner[t] \in n.failed
  BY <1>1, RecordFields
<1>3. /\ \A j \in Jobs : db.reserved[j] \in Nat /\ db.spent[j] \in Nat
      /\ db.open[t] \in Nat /\ MaxCost \in Nat /\ NoJob \notin Jobs
  BY <1>1, Fields DEF Finite, BudgetAssumption
<1>4. \A i \in Jobs : n.reserved[i] = Outstanding(n, Tokens, i)
  BY <1>1, <1>2, <1>3, OneTokenReconciles
<1>5. \A j \in Jobs : IF j = db.owner[t] THEN Total(n, j) + db.open[t] = Total(db, j) + a
                                         ELSE Total(n, j) = Total(db, j)
  BY <1>1, <1>2, <1>3 DEF Total
<1>6. ASSUME NEW j \in Jobs, n.spent[j] + n.reserved[j] > MaxCost
      PROVE  j \in n.failed
  <2>1. CASE j = db.owner[t] /\ a > db.open[t]
    BY <1>2, <2>1
  <2>2. CASE j = db.owner[t] /\ ~(a > db.open[t])
    <3>1. db.spent[j] + db.reserved[j] > MaxCost
      BY <1>1, <1>2, <1>3, <1>6, <2>2
    <3> QED
      BY <1>2, <3>1 DEF Sound
  <2>3. CASE j # db.owner[t]
    BY <1>2, <1>6, <2>3 DEF Sound
  <2> QED
    BY <2>1, <2>2, <2>3
<1>7. \A u \in Tokens : n.owner[u] = NoJob => n.open[u] = 0
  BY <1>2 DEF Sound
<1>8. Sound(n) /\ Keeps(db, n)
  BY <1>2, <1>4, <1>6, <1>7 DEF Sound, Keeps
<1> QED
  BY <1>1, <1>2, <1>5, <1>8 DEF Made, Same

\* Releasing a reservation: it was never charged.
LEMMA ReleaseSound ==
  ASSUME Finite, NEW db, Sound(db), NEW h \in Handlers,
         Mine(db, h), NEW t, t = call[h].token, NEW n, n = ReleaseReservation(db, h)
  PROVE  /\ Made(db, n, t)
         /\ n.owner[t] = db.owner[t] /\ n.open[t] = 0
         /\ t \in db.tokenFailed => t \in n.tokenFailed
         /\ \A j \in Jobs : IF j = db.owner[t] THEN Total(n, j) + db.open[t] = Total(db, j)
                                              ELSE Total(n, j) = Total(db, j)
<1>1. /\ t \in Tokens /\ db.owner[t] \in Jobs /\ db.open[t] > 0
      /\ db.open[t] <= db.reserved[db.owner[t]] /\ db \in Registry
  BY MineIsHeld DEF Sound
<1>2. /\ n \in Registry
      /\ n.owner = db.owner /\ n.tokenFailed = db.tokenFailed
      /\ n.spent = db.spent /\ n.failed = db.failed /\ n.requests = db.requests
      /\ \A u \in Tokens : n.open[u] = IF u = t THEN 0 ELSE db.open[u]
      /\ \A j \in Jobs :
           n.reserved[j] = IF j = db.owner[t] THEN db.reserved[j] - db.open[t]
                                              ELSE db.reserved[j]
  <2>1. n = CloseReservation(db, t)
    BY DEF ReleaseReservation
  <2> QED
    BY <1>1, <2>1, CloseFields
<1>3. /\ \A j \in Jobs : db.reserved[j] \in Nat /\ db.spent[j] \in Nat
      /\ db.open[t] \in Nat /\ MaxCost \in Nat
  BY <1>1, Fields DEF Finite, BudgetAssumption
<1>4. \A i \in Jobs : n.reserved[i] = Outstanding(n, Tokens, i)
  BY <1>1, <1>2, <1>3, OneTokenReconciles
<1>5. \A j \in Jobs : IF j = db.owner[t] THEN Total(n, j) + db.open[t] = Total(db, j)
                                         ELSE Total(n, j) = Total(db, j)
  BY <1>1, <1>2, <1>3 DEF Total
<1>6. ASSUME NEW j \in Jobs, n.spent[j] + n.reserved[j] > MaxCost
      PROVE  j \in n.failed
  <2>1. db.spent[j] + db.reserved[j] > MaxCost
    BY <1>1, <1>2, <1>3, <1>6
  <2> QED
    BY <1>2, <2>1 DEF Sound
<1>7. \A u \in Tokens : n.owner[u] = NoJob => n.open[u] = 0
  BY <1>2 DEF Sound
<1>8. Sound(n) /\ Keeps(db, n)
  BY <1>2, <1>4, <1>6, <1>7 DEF Sound, Keeps
<1> QED
  BY <1>1, <1>2, <1>5, <1>8 DEF Made, Same

\* Marking a token and its ledger changes no amount.
LEMMA MarkSound ==
  ASSUME Finite, NEW db, Sound(db), NEW h \in Handlers, NEW t,
         NEW n, n = MarkAccountingFailed(db, h)
  PROVE  /\ Made(db, n, t) /\ \A u \in Tokens : Same(db, n, u)
         /\ \A j \in Jobs : Total(n, j) = Total(db, j)
<1>1. db \in Registry
  BY DEF Sound
<1>2. CASE Mine(db, h)
  <2>1. call[h].token \in Tokens /\ db.owner[call[h].token] \in Jobs
    BY <1>2, MineIsHeld
  <2>2. /\ n \in Registry /\ n.owner = db.owner /\ n.open = db.open
        /\ n.requests = db.requests /\ n.spent = db.spent /\ n.reserved = db.reserved
        /\ db.failed \subseteq n.failed /\ db.tokenFailed \subseteq n.tokenFailed
    BY <1>1, <1>2, <2>1 DEF MarkAccountingFailed, Registry
  <2>3. \A j \in Jobs : n.reserved[j] = Outstanding(n, Tokens, j)
    <3>1. \A j \in Jobs : Part(n, j) = Part(db, j)
      BY <2>2 DEF Part
    <3>2. \A j \in Jobs : n.reserved[j] = SumOf(Part(n, j), Tokens)
      BY <2>2, <3>1, ReservedIsSum
    <3> QED
      BY <2>2, <3>2, SumIsReserved
  <2> QED
    BY <2>2, <2>3 DEF Made, Same, Sound, Keeps, Total
<1>3. CASE ~Mine(db, h)
  BY <1>3 DEF MarkAccountingFailed, Made, Same, Keeps, Total
<1> QED
  BY <1>2, <1>3

\* The registry with token t of source job j
WithToken(db, t, j) == [db EXCEPT !.owner[t] = j]

\* A token that is registered has nothing open.
LEMMA RegisterSound ==
  ASSUME Finite, NEW db, Sound(db), NEW t \in Tokens, NEW j \in Jobs, db.owner[t] = NoJob,
         NEW n, n = WithToken(db, t, j)
  PROVE  /\ Made(db, n, t) /\ n.open[t] = 0
         /\ \A i \in Jobs : Total(n, i) = Total(db, i)
<1>1. db \in Registry /\ NoJob \notin Jobs /\ db.open[t] = 0
  BY DEF Sound, Finite, BudgetAssumption
<1>2. /\ n \in Registry /\ n.owner = [db.owner EXCEPT ![t] = j] /\ n.open = db.open
      /\ n.requests = db.requests /\ n.spent = db.spent /\ n.reserved = db.reserved
      /\ n.failed = db.failed /\ n.tokenFailed = db.tokenFailed
  <2>1. [db.owner EXCEPT ![t] = j] \in [Tokens -> Jobs \cup {NoJob}]
    BY <1>1, Fields
  <2> QED
    BY <1>1, <2>1 DEF Registry, WithToken
<1>3. \A u \in Tokens : n.owner[u] = IF u = t THEN j ELSE db.owner[u]
  BY <1>1, <1>2, Fields
<1>4. ASSUME NEW i \in Jobs
      PROVE  n.reserved[i] = SumOf(Part(n, i), Tokens)
  <2>1. Part(n, i) = Part(db, i)
    BY <1>1, <1>2, <1>3 DEF Part
  <2> QED
    BY <1>2, <2>1, ReservedIsSum
<1>5. \A i \in Jobs : n.reserved[i] = Outstanding(n, Tokens, i)
  BY <1>2, <1>4, SumIsReserved
<1>6. Sound(n)
  BY <1>1, <1>2, <1>3, <1>5 DEF Sound
<1> QED
  BY <1>1, <1>2, <1>3, <1>6 DEF Made, Same, Keeps, Total

\* The same for the removal of tokens, and for a reservation
LEMMA SettleMade ==
  ASSUME Finite, NEW db, Sound(db), NEW T \in SUBSET Live(db), NEW t,
         NEW n, n = SettleOutstanding(db, T)
  PROVE  /\ Made(db, n, t) /\ \A u \in Tokens : Same(db, n, u)
         /\ \A j \in Jobs : Total(n, j) = Total(db, j)
<1>1. /\ Sound(n) /\ Keeps(db, n)
      /\ \A j \in Jobs : n.spent[j] + n.reserved[j] = db.spent[j] + db.reserved[j]
  BY SettleSound
<1>2. \A u \in Tokens : /\ n.owner[u] = IF u \in T THEN NoJob ELSE db.owner[u]
                        /\ n.open[u] = IF u \in T THEN 0 ELSE db.open[u]
                        /\ u \in n.tokenFailed <=> u \in db.tokenFailed /\ u \notin T
  BY SettleFields DEF Sound
<1> QED
  BY <1>1, <1>2 DEF Made, Same, Total

\* Expired tokens are purged, then one reserves.
LEMMA AuthorizeMade ==
  ASSUME Finite, NEW db, Sound(db), NEW t \in Tokens, NEW h \in Handlers, NEW c \in Costs,
         Authorized(Purge(db), t), WithinLimits(Purge(db), Purge(db).owner[t], c),
         NEW n, n = Reserve(Purge(db), t, h, c)
  PROVE  /\ Made(db, n, t)
         /\ n.owner[t] = db.owner[t] /\ Purge(db).owner[t] = db.owner[t]
         /\ db.owner[t] \in Jobs /\ t \notin db.tokenFailed
         /\ db.open[t] = 0 /\ n.open[t] = c
         /\ \A j \in Jobs : Total(n, j) = Total(db, j) + IF j = db.owner[t] THEN c ELSE 0
<1> DEFINE p == Purge(db)
<1>1. Live(db) \cap expired \in SUBSET Live(db) /\ p = SettleOutstanding(db, Live(db) \cap expired)
  BY DEF Purge
<1>2. /\ Made(db, p, t) /\ \A u \in Tokens : Same(db, p, u)
      /\ \A j \in Jobs : Total(p, j) = Total(db, j)
  BY <1>1, SettleMade
<1>3. /\ p.owner[t] = db.owner[t] /\ p.open[t] = db.open[t] /\ t \notin p.tokenFailed
      /\ p.open[t] = 0 /\ p.owner[t] \in Jobs /\ p \in Registry
      /\ t \in db.tokenFailed => t \in p.tokenFailed
  BY <1>2, Fields DEF Same, Authorized, Live, Made, Sound
<1>4. /\ Sound(n) /\ Keeps(p, n)
      /\ \A j \in Jobs : n.spent[j] + n.reserved[j] =
             p.spent[j] + p.reserved[j] + IF j = p.owner[t] THEN c ELSE 0
  BY <1>2, ReserveSound DEF Made
<1>5. /\ n.owner = p.owner /\ n.tokenFailed = p.tokenFailed
      /\ \A u \in Tokens : n.open[u] = IF u = t THEN c ELSE p.open[u]
  BY <1>3, ReserveFields DEF WithinLimits, Finite, BudgetAssumption
<1> HIDE DEF p
<1>6. Keeps(db, n)
  BY <1>2, <1>4 DEF Made, Keeps
<1>7. \A u \in Tokens \ {t} : Same(db, n, u)
  BY <1>2, <1>5 DEF Same
<1> QED
  BY <1>2, <1>3, <1>4, <1>5, <1>6, <1>7 DEF Made, Total, p

-----------------------------------------------------------------------------
(* Types *)

Calls == [pc: PC, token: Tokens \cup {NoToken}, job: Jobs \cup {NoJob},
          cost: Costs \cup {0}, usage: Nat, ok: BOOLEAN, client: Client]

SetsOK == \A set \in {revoking, revoked, drawn, expired, overshot} : set \subseteq Tokens
MoneyOK == used \in [Jobs -> Nat] /\ overshoot \in [Jobs -> Nat]

\* TypeOK in parts
LEMMA TypeParts ==
  TypeOK <=> /\ mem \in Registry /\ disk \in Registry /\ up \in BOOLEAN
             /\ call \in [Handlers -> Calls] /\ SetsOK /\ MoneyOK
             /\ faults \in 0..MaxFaults
BY DEF TypeOK, Calls, SetsOK, MoneyOK

\* The same of a step's result
LEMMA TypePartsNext ==
  TypeOK' <=> /\ mem' \in Registry /\ disk' \in Registry /\ up' \in BOOLEAN
              /\ call' \in [Handlers -> Calls] /\ SetsOK' /\ MoneyOK'
              /\ faults' \in 0..MaxFaults
BY DEF TypeOK, Calls, SetsOK, MoneyOK

\* The handler that waits for a call
LEMMA IdleFields ==
  /\ Idle \in Calls
  /\ Idle.pc = "idle" /\ Idle.token = NoToken /\ Idle.job = NoJob
BY DEF Idle, Calls, PC, Client

\* What handlers do between them
LEMMA OneMoves ==
  ASSUME call \in [Handlers -> Calls], NEW h \in Handlers, NEW r \in Calls, Become(h, r)
  PROVE  /\ call' \in [Handlers -> Calls] /\ call'[h] = r
         /\ \A g \in Handlers \ {h} : call'[g] = call[g]
BY DEF Become

\* What a call may still take is natural.
LEMMA DueType ==
  ASSUME Finite, NEW r \in Calls, NEW j
  PROVE  DueAt(r, j) \in Nat
<1>1. r.cost \in Nat /\ r.usage \in Nat
  <2>1. r.cost \in Costs \cup {0} /\ r.usage \in Nat
    BY DEF Calls
  <2>2. \A c \in Costs \cup {0} : c \in Nat
    BY DEF Finite, BudgetAssumption
  <2> QED
    BY <2>1, <2>2
<1>2. Due(r) \in Nat
  <2>1. CASE r.pc = "record" /\ r.usage <= r.cost
    BY <1>1, <2>1 DEF Due
  <2>2. CASE ~(r.pc = "record" /\ r.usage <= r.cost)
    BY <1>1, <2>2 DEF Due
  <2> QED
    BY <2>1, <2>2
<1> QED
  BY <1>2 DEF DueAt

-----------------------------------------------------------------------------
(* Kinds of steps *)

\* A write of the registry, whether it succeeds or not
LEMMA Written ==
  ASSUME Finite, TypeOK, RegistryInv, NEW n, NEW t, Made(mem, n, t),
         Commit(n) \/ CommitFails(n)
  PROVE  /\ Sound(mem') /\ Sound(disk') /\ Keeps(mem', disk') /\ Keeps(mem, mem')
         /\ mem' \in Registry /\ disk' \in Registry /\ faults' \in 0..MaxFaults
         /\ mem' = mem \/ mem' = n
         /\ disk' = disk \/ disk' = n
         /\ (mem' = n /\ disk' = n) \/ mem' = mem
<1>1. faults' \in 0..MaxFaults
  BY DEF TypeOK, Commit, CommitFails, Fault, Finite, BudgetAssumption
<1>2. CASE Commit(n)
  BY <1>1, <1>2 DEF Commit, Made, Keeps, Sound
<1>3. CASE CommitFails(n)
  BY <1>1, <1>3 DEF CommitFails, Made, Keeps, Sound, RegistryInv
<1> QED
  BY <1>2, <1>3

\* A token that is the same or gone says the same of its calls.
LEMMA SameCalls ==
  ASSUME NEW db, NEW n, NEW r, Same(db, n, r.token)
  PROVE  /\ Holds(db, r) => Holds(n, r)
         /\ StillOpen(db, r) => StillOpen(n, r)
BY DEF Same, Holds, StillOpen

\* And of its being stopped
LEMMA SameStopped ==
  ASSUME NEW db, NEW n, NEW t, Same(db, n, t), Stopped(db, t)
  PROVE  Stopped(n, t)
BY DEF Same, Stopped, Live

\* The cover of a registry follows one call, whatever it costs or gives back.
LEMMA CoverMoves ==
  ASSUME Finite, call \in [Handlers -> Calls], NEW h \in Handlers, NEW r \in Calls,
         Become(h, r), NEW db \in Registry, NEW n \in Registry,
         MoneyOK, MoneyOK', Covers(db, call, used, overshoot),
         \A j \in Jobs :
           used'[j] + DueAt(r, j) + Total(db, j) + overshoot[j]
             <= used[j] + DueAt(call[h], j) + Total(n, j) + overshoot'[j]
  PROVE  Covers(n, call', used', overshoot')
<1> SUFFICES ASSUME NEW j \in Jobs
             PROVE  used'[j] + SumOf(DueOf(call', j), Handlers)
                      <= n.spent[j] + n.reserved[j] + overshoot'[j]
  BY DEF Covers
<1> DEFINE f == DueOf(call, j)
           g == DueOf(call', j)
<1>1. /\ call' \in [Handlers -> Calls] /\ call'[h] = r
      /\ \A k \in Handlers \ {h} : call'[k] = call[k]
  BY OneMoves
<1>2. f \in [Handlers -> Nat] /\ g \in [Handlers -> Nat]
  BY <1>1, DueType DEF DueOf
<1>3. f[h] = DueAt(call[h], j) /\ g[h] = DueAt(r, j)
      /\ \A k \in Handlers \ {h} : f[k] = g[k]
  BY <1>1 DEF DueOf
<1> HIDE DEF f, g
<1>4. SumOf(f, Handlers) + g[h] = SumOf(g, Handlers) + f[h]
  BY <1>2, <1>3, SumOfChange DEF Finite
<1>5. SumOf(f, Handlers) \in Nat /\ SumOf(g, Handlers) \in Nat
  BY <1>2, SumOfType DEF Finite
<1>6. used[j] + SumOf(f, Handlers) <= db.spent[j] + db.reserved[j] + overshoot[j]
  BY DEF Covers, f
<1>7. /\ used[j] \in Nat /\ used'[j] \in Nat /\ overshoot[j] \in Nat /\ overshoot'[j] \in Nat
      /\ db.spent[j] \in Nat /\ db.reserved[j] \in Nat
      /\ n.spent[j] \in Nat /\ n.reserved[j] \in Nat /\ f[h] \in Nat /\ g[h] \in Nat
  BY <1>2, Fields DEF MoneyOK
<1>8. used'[j] + g[h] + Total(db, j) + overshoot[j]
        <= used[j] + f[h] + Total(n, j) + overshoot'[j]
  BY <1>3
<1>9. used'[j] + SumOf(g, Handlers) <= n.spent[j] + n.reserved[j] + overshoot'[j]
  BY <1>4, <1>5, <1>6, <1>7, <1>8 DEF Total
<1> QED
  BY <1>9 DEF g

\* Amounts are natural.
LEMMA TotalType ==
  ASSUME NEW db \in Registry, NEW j \in Jobs
  PROVE  Total(db, j) \in Nat
BY Fields DEF Total

\* The cover, when a handler writes n and nothing is charged
LEMMA CoverWrites ==
  ASSUME Finite, TypeOK, MoneyOK', CoverInv, NEW h \in Handlers, NEW n \in Registry,
         NEW r \in Calls, Become(h, r), UNCHANGED money,
         \A j \in Jobs : DueAt(r, j) + Total(mem, j) <= DueAt(call[h], j) + Total(n, j),
         \A j \in Jobs : (mem' = n /\ disk' = n) \/ DueAt(r, j) <= DueAt(call[h], j),
         mem' = mem \/ mem' = n, disk' = disk \/ disk' = n,
         (mem' = n /\ disk' = n) \/ mem' = mem
  PROVE  CoverInv'
<1>1. /\ mem \in Registry /\ disk \in Registry /\ MoneyOK
      /\ call \in [Handlers -> Calls] /\ call[h] \in Calls
      /\ Covers(mem, call, used, overshoot) /\ Covers(disk, call, used, overshoot)
  BY TypeParts DEF CoverInv
<1>2. \A j \in Jobs : /\ DueAt(r, j) \in Nat /\ DueAt(call[h], j) \in Nat
                      /\ used[j] \in Nat /\ used'[j] = used[j]
                      /\ overshoot[j] \in Nat /\ overshoot'[j] = overshoot[j]
                      /\ Total(mem, j) \in Nat /\ Total(disk, j) \in Nat /\ Total(n, j) \in Nat
  BY <1>1, DueType, TotalType DEF MoneyOK, money
<1>3. Covers(n, call', used', overshoot')
  <2>1. \A j \in Jobs :
          used'[j] + DueAt(r, j) + Total(mem, j) + overshoot[j]
            <= used[j] + DueAt(call[h], j) + Total(n, j) + overshoot'[j]
    BY <1>2
  <2> QED
    BY <1>1, <2>1, CoverMoves
<1>4. CASE mem' = n /\ disk' = n
  BY <1>3, <1>4 DEF CoverInv
<1>5. CASE ~(mem' = n /\ disk' = n)
  <2>1. \A j \in Jobs : DueAt(r, j) <= DueAt(call[h], j)
    BY <1>5
  <2>2. Covers(mem, call', used', overshoot')
    <3>1. \A j \in Jobs :
            used'[j] + DueAt(r, j) + Total(mem, j) + overshoot[j]
              <= used[j] + DueAt(call[h], j) + Total(mem, j) + overshoot'[j]
      BY <1>2, <2>1
    <3> QED
      BY <1>1, <3>1, CoverMoves
  <2>3. Covers(disk, call', used', overshoot')
    <3>1. \A j \in Jobs :
            used'[j] + DueAt(r, j) + Total(disk, j) + overshoot[j]
              <= used[j] + DueAt(call[h], j) + Total(disk, j) + overshoot'[j]
      BY <1>2, <2>1
    <3> QED
      BY <1>1, <3>1, CoverMoves
  <2> QED
    BY <1>3, <1>5, <2>2, <2>3 DEF CoverInv
<1> QED
  BY <1>4, <1>5

\* A handler writes the registry and goes on, or ends.
LEMMA HandlerWrites ==
  ASSUME Finite, BudgetInv, NEW h \in Handlers, call[h].pc # "idle",
         NEW t, t = call[h].token,
         NEW n, Made(mem, n, t), Commit(n) \/ CommitFails(n),
         NEW r \in Calls, Become(h, r), r.pc # "idle" => r.token = t,
         CallOK(r, up, drawn), OverOK(r, overshot),
         Holds(mem', r), StillOpen(mem', r), StillOpen(disk', r),
         t \in overshot => Stopped(n, t),
         \A j \in Jobs : DueAt(r, j) + Total(mem, j) <= DueAt(call[h], j) + Total(n, j),
         \A j \in Jobs : (mem' = n /\ disk' = n) \/ DueAt(r, j) <= DueAt(call[h], j),
         UNCHANGED <<up, control, money>>
  PROVE  BudgetInv'
<1>1. /\ TypeOK /\ RegistryInv /\ CallInv /\ CoverInv /\ OverInv
      /\ call \in [Handlers -> Calls] /\ drawn \subseteq Tokens /\ overshot \subseteq drawn
      /\ n \in Registry
  BY TypeParts DEF BudgetInv, SetsOK, OverInv, Made, Sound
<1>2. t \in drawn /\ t \in Tokens
  BY <1>1 DEF CallInv, CallOK
<1>3. /\ Sound(mem') /\ Sound(disk') /\ Keeps(mem', disk') /\ Keeps(mem, mem')
      /\ mem' \in Registry /\ disk' \in Registry /\ faults' \in 0..MaxFaults
      /\ mem' = mem \/ mem' = n
      /\ disk' = disk \/ disk' = n
      /\ (mem' = n /\ disk' = n) \/ mem' = mem
  BY <1>1, Written
<1>4. /\ call' \in [Handlers -> Calls] /\ call'[h] = r
      /\ \A g \in Handlers \ {h} : call'[g] = call[g]
  BY <1>1, OneMoves
<1>5. TypeOK'
  BY <1>1, <1>3, <1>4, TypeParts, TypePartsNext DEF SetsOK, MoneyOK, control, money
<1>6. RegistryInv'
  <2>1. \A u \in Tokens \ drawn : n.owner[u] = NoJob
    BY <1>1, <1>2 DEF Made, Same, RegistryInv, DrawnOnly
  <2> QED
    BY <1>1, <1>3, <2>1 DEF RegistryInv, DrawnOnly, control
<1>7. \A g \in Handlers \ {h} : call[g].pc # "idle" => Same(mem, n, call[g].token)
  <2> SUFFICES ASSUME NEW g \in Handlers \ {h}, call[g].pc # "idle"
               PROVE  Same(mem, n, call[g].token)
    OBVIOUS
  <2>1. call[g].token # t
    BY <1>1 DEF CallInv, OneSlot
  <2>2. call[g].token \in Tokens
    BY <1>1 DEF CallInv, CallOK
  <2> QED
    BY <2>1, <2>2 DEF Made
<1>8. CallInv'
  <2>1. OneSlot(call')
    BY <1>1, <1>4 DEF CallInv, OneSlot
  <2>2. ASSUME NEW g \in Handlers
        PROVE  /\ CallOK(call'[g], up', drawn') /\ Holds(mem', call'[g])
               /\ StillOpen(mem', call'[g]) /\ StillOpen(disk', call'[g])
    <3>1. CASE g = h
      BY <1>4, <3>1 DEF control
    <3>2. CASE g # h
      <4>1. call'[g] = call[g] /\ CallOK(call'[g], up', drawn')
        BY <1>1, <1>4, <3>2 DEF CallInv, control
      <4>2. /\ Holds(mem, call[g]) /\ StillOpen(mem, call[g]) /\ StillOpen(disk, call[g])
        BY <1>1 DEF CallInv
      <4>3. CASE call[g].pc = "idle"
        BY <4>1, <4>3 DEF Holds, StillOpen, Reserved, Unanswered
      <4>4. CASE call[g].pc # "idle"
        <5>1. Holds(n, call[g]) /\ StillOpen(n, call[g])
          BY <1>7, <3>2, <4>2, <4>4, SameCalls
        <5> QED
          BY <1>3, <4>1, <4>2, <5>1
      <4> QED
        BY <4>3, <4>4
    <3> QED
      BY <3>1, <3>2
  <2> QED
    BY <2>1, <2>2 DEF CallInv
<1>9. CoverInv'
  <2>1. MoneyOK' /\ UNCHANGED money
    BY <1>5, TypePartsNext
  <2> QED
    BY <1>1, <1>3, <2>1, CoverWrites
<1>10. OverInv'
  <2>1. overshot' = overshot /\ drawn' = drawn
    BY DEF control, money
  <2>2. \A g \in Handlers : OverOK(call'[g], overshot)
    BY <1>1, <1>4 DEF OverInv
  <2>3. ASSUME NEW u \in overshot
        PROVE  Stopped(mem', u) /\ Stopped(disk', u)
    <3>1. Stopped(mem, u) /\ Stopped(disk, u) /\ u \in Tokens
      BY <1>1 DEF OverInv
    <3>2. Stopped(n, u)
      <4>1. CASE u = t
        BY <4>1
      <4>2. CASE u # t
        BY <3>1, <4>2, SameStopped DEF Made
      <4> QED
        BY <4>1, <4>2
    <3> QED
      BY <1>3, <3>1, <3>2
  <2> QED
    BY <1>1, <2>1, <2>2, <2>3 DEF OverInv
<1> QED
  BY <1>5, <1>6, <1>8, <1>9, <1>10 DEF BudgetInv

\* A handler goes on without a write, and OpenAI may charge for its call.
LEMMA HandlerMoves ==
  ASSUME Finite, BudgetInv, NEW h \in Handlers,
         NEW r \in Calls, Become(h, r), CallOK(r, up, drawn),
         r.pc # "idle" => \A g \in Handlers \ {h} : call[g].pc # "idle" => call[g].token # r.token,
         Holds(mem, r), StillOpen(mem, r), StillOpen(disk, r),
         MoneyOK', faults' \in 0..MaxFaults,
         overshot \subseteq overshot', overshot' \subseteq overshot \cup {r.token},
         r.token \in overshot' \ overshot =>
           r.pc # "idle" /\ Stopped(mem, r.token) /\ Stopped(disk, r.token),
         OverOK(r, overshot'),
         \A j \in Jobs : used'[j] + DueAt(r, j) + overshoot[j]
                           <= used[j] + DueAt(call[h], j) + overshoot'[j],
         UNCHANGED <<registry, up, control>>
  PROVE  BudgetInv'
<1>1. /\ TypeOK /\ RegistryInv /\ CallInv /\ CoverInv /\ OverInv
      /\ call \in [Handlers -> Calls] /\ mem \in Registry /\ disk \in Registry
      /\ call[h] \in Calls /\ drawn \subseteq Tokens /\ overshot \subseteq drawn /\ MoneyOK
  BY TypeParts DEF BudgetInv, SetsOK, OverInv
<1>2. /\ mem' = mem /\ disk' = disk /\ up' = up
      /\ revoking' = revoking /\ revoked' = revoked /\ drawn' = drawn /\ expired' = expired
  BY DEF registry, control
<1>3. /\ call' \in [Handlers -> Calls] /\ call'[h] = r
      /\ \A g \in Handlers \ {h} : call'[g] = call[g]
  BY <1>1, OneMoves
<1>4. overshot' \subseteq drawn
  BY <1>1 DEF CallOK
<1>5. TypeOK'
  BY <1>1, <1>2, <1>3, <1>4, TypeParts, TypePartsNext DEF SetsOK
<1>6. RegistryInv'
  BY <1>1, <1>2 DEF RegistryInv
<1>7. CallInv'
  <2>1. OneSlot(call')
    BY <1>1, <1>3 DEF CallInv, OneSlot
  <2>2. ASSUME NEW g \in Handlers
        PROVE  /\ CallOK(call'[g], up, drawn) /\ Holds(mem, call'[g])
               /\ StillOpen(mem, call'[g]) /\ StillOpen(disk, call'[g])
    BY <1>1, <1>3 DEF CallInv
  <2> QED
    BY <1>2, <2>1, <2>2 DEF CallInv
<1>8. CoverInv'
  <2>1. \A j \in Jobs : /\ DueAt(r, j) \in Nat /\ DueAt(call[h], j) \in Nat
                        /\ used[j] \in Nat /\ used'[j] \in Nat
                        /\ overshoot[j] \in Nat /\ overshoot'[j] \in Nat
                        /\ Total(mem, j) \in Nat /\ Total(disk, j) \in Nat
    BY <1>1, DueType, TotalType DEF MoneyOK
  <2>2. Covers(mem, call', used', overshoot')
    <3>1. \A j \in Jobs :
            used'[j] + DueAt(r, j) + Total(mem, j) + overshoot[j]
              <= used[j] + DueAt(call[h], j) + Total(mem, j) + overshoot'[j]
      BY <2>1
    <3> QED
      BY <1>1, <3>1, CoverMoves DEF CoverInv
  <2>3. Covers(disk, call', used', overshoot')
    <3>1. \A j \in Jobs :
            used'[j] + DueAt(r, j) + Total(disk, j) + overshoot[j]
              <= used[j] + DueAt(call[h], j) + Total(disk, j) + overshoot'[j]
      BY <2>1
    <3> QED
      BY <1>1, <3>1, CoverMoves DEF CoverInv
  <2> QED
    BY <1>2, <2>2, <2>3 DEF CoverInv
<1>9. OverInv'
  <2>1. ASSUME NEW g \in Handlers
        PROVE  OverOK(call'[g], overshot')
    <3>1. CASE g = h
      BY <1>3, <3>1
    <3>2. CASE g # h
      <4>1. OverOK(call[g], overshot) /\ call'[g] = call[g]
        BY <1>1, <1>3, <3>2 DEF OverInv
      <4>2. call[g].pc # "idle" => (call[g].token \in overshot' <=> call[g].token \in overshot)
        BY <3>2
      <4> QED
        BY <4>1, <4>2 DEF OverOK, Unanswered
    <3> QED
      BY <3>1, <3>2
  <2>2. \A t \in overshot' : Stopped(mem, t) /\ Stopped(disk, t)
    BY <1>1 DEF OverInv
  <2> QED
    BY <1>2, <1>4, <2>1, <2>2 DEF OverInv
<1> QED
  BY <1>5, <1>6, <1>7, <1>8, <1>9 DEF BudgetInv

\* Calls that differ in how their client reads, or in whether they were aborted
Alike(r, s) ==
  /\ r.pc = s.pc \/ {r.pc, s.pc} \subseteq Unanswered
  /\ r.token = s.token /\ r.job = s.job /\ r.cost = s.cost /\ r.usage = s.usage

\* The same is known of them.
LEMMA AlikeCalls ==
  ASSUME NEW r, NEW s, Alike(r, s)
  PROVE  /\ (r.pc = "idle") = (s.pc = "idle") /\ r.token = s.token
         /\ \A running, tokens : CallOK(r, running, tokens) => CallOK(s, running, tokens)
         /\ \A db : (Holds(db, r) => Holds(db, s)) /\ (StillOpen(db, r) => StillOpen(db, s))
         /\ \A tokens : OverOK(r, tokens) => OverOK(s, tokens)
         /\ \A j : DueAt(r, j) = DueAt(s, j)
BY DEF Alike, CallOK, Holds, StillOpen, OverOK, DueAt, Due, Reserved, Unanswered

\* Clients read or leave, and calls are aborted.
LEMMA CallsAlike ==
  ASSUME Finite, BudgetInv, call' \in [Handlers -> Calls],
         \A g \in Handlers : Alike(call[g], call'[g]),
         revoking' \subseteq Tokens,
         UNCHANGED <<registry, up, revoked, drawn, expired, money, faults>>
  PROVE  BudgetInv'
<1>1. /\ TypeOK /\ RegistryInv /\ CallInv /\ CoverInv /\ OverInv
      /\ mem' = mem /\ disk' = disk /\ up' = up /\ drawn' = drawn /\ revoked' = revoked
      /\ expired' = expired /\ used' = used /\ overshot' = overshot
      /\ overshoot' = overshoot /\ faults' = faults
  BY DEF BudgetInv, registry, money
<1>2. TypeOK'
  BY <1>1, TypeParts, TypePartsNext DEF SetsOK, MoneyOK
<1>3. RegistryInv'
  BY <1>1 DEF RegistryInv
<1>4. CallInv'
  <2>1. OneSlot(call')
    BY <1>1, AlikeCalls DEF CallInv, OneSlot
  <2>2. ASSUME NEW g \in Handlers
        PROVE  /\ CallOK(call'[g], up, drawn) /\ Holds(mem, call'[g])
               /\ StillOpen(mem, call'[g]) /\ StillOpen(disk, call'[g])
    BY <1>1, AlikeCalls DEF CallInv
  <2> QED
    BY <1>1, <2>1, <2>2 DEF CallInv
<1>5. CoverInv'
  <2>1. \A j : DueOf(call', j) = DueOf(call, j)
    BY AlikeCalls DEF DueOf
  <2> QED
    BY <1>1, <2>1 DEF CoverInv, Covers
<1>6. OverInv'
  BY <1>1, AlikeCalls DEF OverInv
<1> QED
  BY <1>2, <1>3, <1>4, <1>5, <1>6 DEF BudgetInv

\* The control server or the timer writes the registry.
LEMMA RegistryWrites ==
  ASSUME Finite, BudgetInv, NEW t \in Tokens, NEW n, Made(mem, n, t),
         Commit(n) \/ CommitFails(n),
         Same(mem, n, t) \/ (n.open[t] = 0 /\ t \notin drawn),
         \A j \in Jobs : Total(n, j) = Total(mem, j),
         drawn \subseteq drawn', drawn' \subseteq Tokens, t \in drawn' \/ n.owner[t] = NoJob,
         revoking' \subseteq Tokens, revoked' \subseteq Tokens,
         UNCHANGED <<up, call, expired, money>>
  PROVE  BudgetInv'
<1>1. /\ TypeOK /\ RegistryInv /\ CallInv /\ CoverInv /\ OverInv
      /\ up' = up /\ call' = call /\ expired' = expired
      /\ used' = used /\ overshot' = overshot /\ overshoot' = overshoot
      /\ drawn \subseteq Tokens /\ overshot \subseteq drawn /\ n \in Registry
  BY TypeParts DEF BudgetInv, money, SetsOK, OverInv, Made, Sound
<1>2. /\ Sound(mem') /\ Sound(disk') /\ Keeps(mem', disk') /\ Keeps(mem, mem')
      /\ mem' \in Registry /\ disk' \in Registry /\ faults' \in 0..MaxFaults
      /\ mem' = mem \/ mem' = n
      /\ disk' = disk \/ disk' = n
  BY <1>1, Written
<1>3. TypeOK'
  BY <1>1, <1>2, TypeParts, TypePartsNext DEF SetsOK, MoneyOK
<1>4. RegistryInv'
  <2>1. \A u \in Tokens \ drawn' : n.owner[u] = NoJob
    BY <1>1 DEF Made, Same, RegistryInv, DrawnOnly
  <2> QED
    BY <1>1, <1>2, <2>1 DEF RegistryInv, DrawnOnly
<1>5. \A u \in drawn : Same(mem, n, u)
  BY <1>1 DEF Made
<1>6. CallInv'
  <2>1. ASSUME NEW g \in Handlers
        PROVE  /\ CallOK(call[g], up, drawn') /\ Holds(mem', call[g])
               /\ StillOpen(mem', call[g]) /\ StillOpen(disk', call[g])
    <3>1. /\ CallOK(call[g], up, drawn) /\ Holds(mem, call[g])
          /\ StillOpen(mem, call[g]) /\ StillOpen(disk, call[g])
      BY <1>1 DEF CallInv
    <3>2. CASE call[g].pc = "idle"
      BY <3>1, <3>2 DEF CallOK, Holds, StillOpen, Reserved, Unanswered
    <3>3. CASE call[g].pc # "idle"
      <4>1. Same(mem, n, call[g].token)
        BY <1>5, <3>1, <3>3 DEF CallOK
      <4>2. Holds(n, call[g]) /\ StillOpen(n, call[g])
        BY <3>1, <4>1, SameCalls
      <4>3. CallOK(call[g], up, drawn')
        BY <3>1 DEF CallOK
      <4> QED
        BY <1>2, <3>1, <4>2, <4>3
    <3> QED
      BY <3>2, <3>3
  <2> QED
    BY <1>1, <2>1 DEF CallInv
<1>7. CoverInv'
  <2>1. Covers(n, call, used, overshoot)
    BY <1>1 DEF CoverInv, Covers, Total
  <2> QED
    BY <1>1, <1>2, <2>1 DEF CoverInv
<1>8. OverInv'
  <2>1. \A u \in overshot : Stopped(n, u)
    BY <1>1, <1>5, SameStopped DEF OverInv
  <2> QED
    BY <1>1, <1>2, <2>1 DEF OverInv
<1> QED
  BY <1>3, <1>4, <1>6, <1>7, <1>8 DEF BudgetInv

-----------------------------------------------------------------------------
(* The steps of a handler *)

\* Nothing is known of a handler that waits, nor needs to be.
LEMMA IdleCall ==
  ASSUME Finite
  PROVE  /\ Idle \in Calls
         /\ CallOK(Idle, up, drawn) /\ OverOK(Idle, overshot)
         /\ \A db : Holds(db, Idle) /\ StillOpen(db, Idle)
         /\ \A j \in Jobs : DueAt(Idle, j) = 0
<1>1. /\ Idle \in Calls /\ Idle.pc = "idle" /\ Idle.token = NoToken /\ Idle.job = NoJob
      /\ NoJob \notin Jobs
  BY IdleFields DEF Finite, BudgetAssumption
<1> QED
  BY <1>1 DEF CallOK, OverOK, Holds, StillOpen, DueAt, Reserved, Unanswered

\* A registry is made of itself.
LEMMA MadeSelf ==
  ASSUME NEW db, Sound(db), NEW t
  PROVE  Made(db, db, t) /\ \A u \in Tokens : Same(db, db, u)
BY DEF Made, Same, Keeps

\* A handler's last write
LEMMA HandlerEnds ==
  ASSUME Finite, BudgetInv, NEW h \in Handlers, call[h].pc # "idle",
         NEW n, Made(mem, n, call[h].token), Commit(n) \/ CommitFails(n), Finish(h),
         call[h].token \in overshot => Stopped(n, call[h].token),
         \A j \in Jobs : Total(mem, j) <= DueAt(call[h], j) + Total(n, j),
         UNCHANGED <<up, control, money>>
  PROVE  BudgetInv'
<1>1. call[h] \in Calls /\ mem \in Registry /\ n \in Registry
  BY TypeParts DEF BudgetInv, Made, Sound
<1>2. \A j \in Jobs : /\ DueAt(call[h], j) \in Nat
                      /\ Total(mem, j) \in Nat /\ Total(n, j) \in Nat
  BY <1>1, DueType, TotalType
<1>3. Idle \in Calls /\ Become(h, Idle) /\ Idle.pc = "idle"
  BY IdleFields DEF Finish
<1>4. /\ CallOK(Idle, up, drawn) /\ OverOK(Idle, overshot)
      /\ Holds(mem', Idle) /\ StillOpen(mem', Idle) /\ StillOpen(disk', Idle)
      /\ \A j \in Jobs : DueAt(Idle, j) = 0
  BY IdleCall
<1>5. \A j \in Jobs : /\ DueAt(Idle, j) + Total(mem, j) <= DueAt(call[h], j) + Total(n, j)
                      /\ DueAt(Idle, j) <= DueAt(call[h], j)
  BY <1>2, <1>4
<1> QED
  BY <1>3, <1>4, <1>5, HandlerWrites

\* What is known of a call that runs
LEMMA CallFacts ==
  ASSUME BudgetInv, NEW h \in Handlers
  PROVE  /\ call[h] \in Calls /\ mem \in Registry /\ Sound(mem)
         /\ call[h].pc # "idle" => call[h].token \in drawn /\ call[h].token \in Tokens
         /\ CallOK(call[h], up, drawn) /\ Holds(mem, call[h])
         /\ StillOpen(mem, call[h]) /\ StillOpen(disk, call[h])
         /\ OverOK(call[h], overshot)
         /\ \A t \in overshot : Stopped(mem, t) /\ Stopped(disk, t)
<1>1. call[h] \in Calls /\ mem \in Registry /\ drawn \subseteq Tokens
  BY TypeParts DEF BudgetInv, SetsOK
<1> QED
  BY <1>1 DEF BudgetInv, RegistryInv, CallInv, OverInv, CallOK

\* A call is authorized, or ends.
LEMMA AuthorizeStep ==
  ASSUME Finite, BudgetInv, NEW h \in Handlers, NEW cost \in Costs, Authorize(h, cost)
  PROVE  BudgetInv'
<1> DEFINE t == call[h].token
           db == Purge(mem)
           next == Reserve(db, t, h, cost)
           allowed == Authorized(db, t) /\ WithinLimits(db, db.owner[t], cost)
<1>1. /\ call[h] \in Calls /\ Sound(mem) /\ t \in Tokens /\ t \in drawn /\ mem \in Registry
      /\ call[h].pc = "admitted" /\ call[h].job = NoJob /\ up
      /\ t \in overshot => Stopped(mem, t)
  BY CallFacts DEF Authorize, At, CallOK
<1>2. /\ Made(mem, db, t) /\ \A u \in Tokens : Same(mem, db, u)
      /\ \A j \in Jobs : Total(db, j) = Total(mem, j)
  <2>1. Live(mem) \cap expired \in SUBSET Live(mem)
        /\ db = SettleOutstanding(mem, Live(mem) \cap expired)
    BY DEF Purge
  <2> QED
    BY <1>1, <2>1, SettleMade
<1>3. NoJob \notin Jobs /\ cost \in Nat /\ cost > 0
  BY DEF Finite, BudgetAssumption
<1>4. \A j \in Jobs : DueAt(call[h], j) = 0 /\ Total(mem, j) \in Nat
  BY <1>1, <1>3, TotalType DEF DueAt
<1>5. UNCHANGED <<up, control, money>>
  BY DEF Authorize
<1>6. ASSUME Commit(db) \/ CommitFails(db), Finish(h)
      PROVE  BudgetInv'
  <2>1. t \in overshot => Stopped(db, t)
    BY <1>1, <1>2, SameStopped
  <2>2. \A j \in Jobs : Total(mem, j) <= DueAt(call[h], j) + Total(db, j)
    BY <1>2, <1>4
  <2> HIDE DEF db
  <2> QED
    BY <1>1, <1>2, <1>5, <1>6, <2>1, <2>2, HandlerEnds
<1>7. ASSUME allowed
      PROVE  /\ Made(mem, next, t)
             /\ next.owner[t] = mem.owner[t] /\ db.owner[t] = mem.owner[t]
             /\ mem.owner[t] \in Jobs /\ t \notin mem.tokenFailed
             /\ mem.open[t] = 0 /\ next.open[t] = cost
             /\ \A j \in Jobs : Total(next, j) = Total(mem, j) + IF j = mem.owner[t] THEN cost ELSE 0
  BY <1>1, <1>7, AuthorizeMade
<1>8. ASSUME allowed
      PROVE  t \notin overshot
  BY <1>1, <1>3, <1>7, <1>8 DEF Stopped, Live
<1>9. ASSUME allowed, CommitFails(next), Finish(h)
      PROVE  BudgetInv'
  <2>1. \A j \in Jobs : Total(mem, j) <= DueAt(call[h], j) + Total(next, j)
    BY <1>3, <1>4, <1>7, <1>9
  <2>2. Made(mem, next, t) /\ t \notin overshot
    BY <1>7, <1>8, <1>9
  <2> HIDE DEF db, next
  <2> QED
    BY <1>1, <1>5, <1>9, <2>1, <2>2, HandlerEnds
<1>10. ASSUME allowed, Commit(next), NEW pc \in {"upstream", "release"},
              Become(h, [call[h] EXCEPT !.pc = pc, !.cost = cost, !.job = db.owner[t]])
       PROVE  BudgetInv'
  <2> DEFINE r == [call[h] EXCEPT !.pc = pc, !.cost = cost, !.job = db.owner[t]]
  <2>1. /\ Made(mem, next, t) /\ next.owner[t] = mem.owner[t] /\ db.owner[t] = mem.owner[t]
        /\ mem.owner[t] \in Jobs /\ next.open[t] = cost /\ t \notin overshot
        /\ \A j \in Jobs : Total(next, j) = Total(mem, j) + IF j = mem.owner[t] THEN cost ELSE 0
    BY <1>7, <1>8, <1>10
  <2>2. /\ r \in Calls /\ r.pc = pc /\ r.token = t /\ r.job = mem.owner[t] /\ r.cost = cost
    BY <1>1, <2>1 DEF Calls, PC
  <2>3. mem' = next /\ disk' = next
    BY <1>10 DEF Commit
  <2> HIDE DEF db, next, r
  <2>4. CallOK(r, up, drawn) /\ OverOK(r, overshot)
    BY <1>1, <2>1, <2>2 DEF CallOK, OverOK, Reserved, Unanswered
  <2>5. Holds(mem', r) /\ StillOpen(mem', r) /\ StillOpen(disk', r)
    BY <1>3, <2>1, <2>2, <2>3 DEF Holds, StillOpen
  <2>6. \A j \in Jobs : DueAt(r, j) + Total(mem, j) <= DueAt(call[h], j) + Total(next, j)
    <3>1. Due(r) = cost
      BY <2>2 DEF Due, Unanswered
    <3> QED
      BY <1>3, <1>4, <2>1, <2>2, <3>1 DEF DueAt
  <2>7. Become(h, r)
    BY <1>10 DEF r
  <2> QED
    BY <1>1, <1>5, <1>10, <2>1, <2>2, <2>3, <2>4, <2>5, <2>6, <2>7, HandlerWrites
<1>11. CASE allowed
  <2>1. \/ /\ Commit(next)
           /\ \E pc \in {"upstream", "release"} :
                Become(h, [call[h] EXCEPT !.pc = pc, !.cost = cost, !.job = db.owner[t]])
        \/ CommitFails(next) /\ Finish(h)
    BY <1>11 DEF Authorize
  <2> HIDE DEF db, next, allowed
  <2> QED
    BY <1>9, <1>10, <1>11, <2>1
<1>12. CASE ~allowed
  <2>1. (Commit(db) \/ CommitFails(db)) /\ Finish(h)
    BY <1>12 DEF Authorize
  <2> QED
    BY <1>6, <2>1
<1> QED
  BY <1>11, <1>12

\* What a charge leaves: the ledger's part, and what goes beyond it.
LEMMA Charged ==
  ASSUME Finite, BudgetInv, NEW h \in Handlers, call[h].pc \in Unanswered,
         NEW a \in Nat, Charge(h, a)
  PROVE  /\ MoneyOK' /\ faults' \in 0..MaxFaults
         /\ overshot' = IF a > call[h].cost THEN overshot \cup {call[h].token} ELSE overshot
         /\ \A j \in Jobs :
              /\ used'[j] = IF j = call[h].job THEN used[j] + a ELSE used[j]
              /\ overshoot'[j] = IF j = call[h].job /\ a > call[h].cost
                                 THEN overshoot[j] + (a - call[h].cost) ELSE overshoot[j]
<1>1. /\ call[h].job \in Jobs /\ call[h].cost \in Costs
  BY CallFacts DEF CallOK, Reserved, Unanswered
<1>2. call[h].cost \in Nat /\ MoneyOK /\ faults \in 0..MaxFaults /\ MaxFaults \in Nat
  BY <1>1, TypeParts DEF BudgetInv, Finite, BudgetAssumption
<1>3. faults' \in 0..MaxFaults
  BY <1>2 DEF Charge, Fault
<1>4. /\ used' = [used EXCEPT ![call[h].job] = @ + a]
      /\ overshoot' = IF a > call[h].cost
                      THEN [overshoot EXCEPT ![call[h].job] = @ + a - call[h].cost] ELSE overshoot
      /\ overshot' = IF a > call[h].cost THEN overshot \cup {call[h].token} ELSE overshot
  BY DEF Charge
<1>5. \A j \in Jobs :
        /\ used'[j] = IF j = call[h].job THEN used[j] + a ELSE used[j]
        /\ overshoot'[j] = IF j = call[h].job /\ a > call[h].cost
                           THEN overshoot[j] + (a - call[h].cost) ELSE overshoot[j]
  BY <1>1, <1>2, <1>4 DEF MoneyOK
<1>6. MoneyOK'
  BY <1>1, <1>2, <1>4, <1>5 DEF MoneyOK
<1> QED
  BY <1>3, <1>4, <1>5, <1>6

\* A call is charged for and goes on, with its usage to record, with a mark to
\* make, or with its reservation to release when it cost nothing.
LEMMA ChargedMoves ==
  ASSUME Finite, BudgetInv, NEW h \in Handlers, call[h].pc \in Unanswered, up,
         NEW a \in Nat, Charge(h, a),
         NEW r \in Calls, Become(h, r), r.token = call[h].token, r.job = call[h].job,
         r.cost = call[h].cost,
         \/ r.pc = "record" /\ r.usage = a
         \/ r.pc = "mark"
         \/ r.pc = "release" /\ a = 0,
         UNCHANGED <<registry, up, control>>
  PROVE  BudgetInv'
<1> DEFINE t == call[h].token
<1>1. /\ call[h] \in Calls /\ t \in Tokens /\ t \in drawn
      /\ call[h].job \in Jobs /\ call[h].cost \in Costs
      /\ Holds(mem, call[h]) /\ StillOpen(mem, call[h]) /\ StillOpen(disk, call[h])
      /\ t \notin overshot
  BY CallFacts DEF CallOK, OverOK, Reserved, Unanswered
<1>2. call[h].cost \in Nat /\ call[h].cost > 0
  BY <1>1, CostsArePositive
<1>3. /\ MoneyOK' /\ faults' \in 0..MaxFaults
      /\ overshot' = IF a > call[h].cost THEN overshot \cup {t} ELSE overshot
      /\ \A j \in Jobs :
           /\ used'[j] = IF j = call[h].job THEN used[j] + a ELSE used[j]
           /\ overshoot'[j] = IF j = call[h].job /\ a > call[h].cost
                              THEN overshoot[j] + (a - call[h].cost) ELSE overshoot[j]
  BY Charged
<1>4. /\ r.pc # "idle" /\ r.pc \in Reserved
      /\ CallOK(r, up, drawn) /\ Holds(mem, r) /\ StillOpen(mem, r) /\ StillOpen(disk, r)
  BY <1>1 DEF CallOK, Holds, StillOpen, Reserved, Unanswered
<1>5. \A g \in Handlers \ {h} : call[g].pc # "idle" => call[g].token # r.token
  BY <1>4 DEF BudgetInv, CallInv, OneSlot, Unanswered
<1>6. OverOK(r, overshot')
  BY <1>1, <1>2, <1>3 DEF OverOK, Unanswered
<1>7. Stopped(mem, t) /\ Stopped(disk, t)
  BY <1>1 DEF Stopped, Live, StillOpen
<1>8. \A j \in Jobs : used'[j] + DueAt(r, j) + overshoot[j]
                        <= used[j] + DueAt(call[h], j) + overshoot'[j]
  <2> SUFFICES ASSUME NEW j \in Jobs
               PROVE  used'[j] + DueAt(r, j) + overshoot[j]
                        <= used[j] + DueAt(call[h], j) + overshoot'[j]
    OBVIOUS
  <2>1. used[j] \in Nat /\ overshoot[j] \in Nat
    BY TypeParts DEF BudgetInv, MoneyOK
  <2>2. CASE j # call[h].job
    <3>1. DueAt(r, j) = 0 /\ DueAt(call[h], j) = 0
      BY <2>2 DEF DueAt
    <3> QED
      BY <1>3, <2>1, <2>2, <3>1
  <2>3. CASE j = call[h].job
    <3>1. DueAt(call[h], j) = call[h].cost
      BY <2>3 DEF DueAt, Due
    <3>2. DueAt(r, j) = IF r.pc = "release" THEN call[h].cost
                        ELSE IF r.pc = "record" /\ a <= call[h].cost THEN call[h].cost - a ELSE 0
      BY <2>3 DEF DueAt, Due, Unanswered
    <3> QED
      BY <1>2, <1>3, <2>1, <2>3, <3>1, <3>2
  <2> QED
    BY <2>2, <2>3
<1>9. overshot \subseteq overshot' /\ overshot' \subseteq overshot \cup {r.token}
  BY <1>3
<1> QED
  BY <1>3, <1>4, <1>5, <1>6, <1>7, <1>8, <1>9, HandlerMoves

\* The model answers.
LEMMA AnsweredStep ==
  ASSUME Finite, BudgetInv, NEW h \in Handlers, Answered(h)
  PROVE  BudgetInv'
<1>1. /\ call[h] \in Calls /\ call[h].pc = "upstream" /\ call[h].pc \in Unanswered /\ up
      /\ UNCHANGED <<registry, up, control>>
  BY CallFacts DEF Answered, At, Unanswered
<1>2. call[h].cost \in Nat
  <2>1. call[h].cost \in Costs
    BY <1>1, CallFacts DEF CallOK, Reserved, Unanswered
  <2> QED
    BY <2>1 DEF Finite, BudgetAssumption
<1>3. PICK a \in 0..(call[h].cost + 1), ok \in BOOLEAN :
        \/ /\ Charge(h, a)
           /\ Become(h, [call[h] EXCEPT !.pc = "record", !.usage = a, !.ok = ok])
        \/ ok /\ Charge(h, a) /\ Become(h, [call[h] EXCEPT !.pc = "mark"])
        \/ ~ok /\ a = 0 /\ Charge(h, a) /\ Become(h, [call[h] EXCEPT !.pc = "release"])
  BY DEF Answered, Goto
<1>4. a \in Nat
  BY <1>2
<1>5. CASE Charge(h, a) /\ Become(h, [call[h] EXCEPT !.pc = "record", !.usage = a, !.ok = ok])
  <2> DEFINE r == [call[h] EXCEPT !.pc = "record", !.usage = a, !.ok = ok]
  <2>1. /\ r \in Calls /\ r.pc = "record" /\ r.usage = a
        /\ r.token = call[h].token /\ r.job = call[h].job /\ r.cost = call[h].cost
    BY <1>1, <1>4 DEF Calls, PC
  <2>2. Become(h, r)
    BY <1>5
  <2> HIDE DEF r
  <2> QED
    BY <1>1, <1>4, <1>5, <2>1, <2>2, ChargedMoves
<1>6. CASE Charge(h, a) /\ Become(h, [call[h] EXCEPT !.pc = "mark"])
  <2> DEFINE r == [call[h] EXCEPT !.pc = "mark"]
  <2>1. /\ r \in Calls /\ r.pc = "mark"
        /\ r.token = call[h].token /\ r.job = call[h].job /\ r.cost = call[h].cost
    BY <1>1 DEF Calls, PC
  <2>2. Become(h, r)
    BY <1>6
  <2> HIDE DEF r
  <2> QED
    BY <1>1, <1>4, <1>6, <2>1, <2>2, ChargedMoves
<1>7. CASE a = 0 /\ Charge(h, a) /\ Become(h, [call[h] EXCEPT !.pc = "release"])
  <2> DEFINE r == [call[h] EXCEPT !.pc = "release"]
  <2>1. /\ r \in Calls /\ r.pc = "release"
        /\ r.token = call[h].token /\ r.job = call[h].job /\ r.cost = call[h].cost
    BY <1>1 DEF Calls, PC
  <2>2. Become(h, r)
    BY <1>7
  <2> HIDE DEF r
  <2> QED
    BY <1>1, <1>4, <1>7, <2>1, <2>2, ChargedMoves
<1> QED
  BY <1>3, <1>5, <1>6, <1>7

\* It does not, or the answer is of no use.
LEMMA FailedStep ==
  ASSUME Finite, BudgetInv, NEW h \in Handlers, Failed(h)
  PROVE  BudgetInv'
<1>1. /\ call[h] \in Calls /\ call[h].pc \in Unanswered /\ up
      /\ UNCHANGED <<registry, up, control>>
  BY CallFacts DEF Failed, Reading, At, Unanswered
<1>2. call[h].cost \in Nat
  <2>1. call[h].cost \in Costs
    BY <1>1, CallFacts DEF CallOK, Reserved
  <2> QED
    BY <2>1 DEF Finite, BudgetAssumption
<1>3. PICK a \in 0..call[h].cost : Charge(h, a)
  BY DEF Failed
<1>4. a \in Nat
  BY <1>2
<1> DEFINE r == [call[h] EXCEPT !.pc = "mark"]
<1>5. /\ r \in Calls /\ r.pc = "mark" /\ Become(h, r)
      /\ r.token = call[h].token /\ r.job = call[h].job /\ r.cost = call[h].cost
  BY <1>1 DEF Calls, PC, Failed, Goto
<1> HIDE DEF r
<1> QED
  BY <1>1, <1>3, <1>4, <1>5, ChargedMoves

\* The usage is recorded, or the write fails and a mark follows.
LEMMA RecordStep ==
  ASSUME Finite, BudgetInv, NEW h \in Handlers, Record(h)
  PROVE  BudgetInv'
<1> DEFINE t == call[h].token
           a == call[h].usage
           n == RecordUsage(mem, h)
<1>1. /\ call[h] \in Calls /\ call[h].pc = "record" /\ call[h].pc # "idle" /\ up
      /\ Sound(mem) /\ mem \in Registry /\ t \in Tokens /\ t \in drawn
      /\ call[h].job \in Jobs /\ call[h].cost \in Costs /\ a \in Nat
      /\ Holds(mem, call[h]) /\ OverOK(call[h], overshot)
      /\ t \in overshot => Stopped(mem, t)
      /\ UNCHANGED <<up, control, money>>
  BY CallFacts DEF Record, At, CallOK, Reserved, Calls
<1>2. call[h].cost \in Nat /\ \A j \in Jobs : Total(mem, j) \in Nat /\ DueAt(call[h], j) \in Nat
  BY <1>1, TotalType, DueType DEF Finite, BudgetAssumption
<1>3. /\ Made(mem, n, t)
      /\ t \in overshot => Stopped(n, t)
      /\ \A j \in Jobs : Total(mem, j) <= DueAt(call[h], j) + Total(n, j)
  <2>1. CASE ~Mine(mem, h)
    <3>1. n = mem
      BY <2>1 DEF RecordUsage
    <3> HIDE DEF n
    <3> QED
      BY <1>1, <1>2, <3>1, MadeSelf
  <2>2. CASE Mine(mem, h)
    <3>1. /\ Made(mem, n, t) /\ n.owner[t] = mem.owner[t] /\ n.open[t] = 0
          /\ a > mem.open[t] => t \in n.tokenFailed
          /\ \A j \in Jobs : IF j = mem.owner[t] THEN Total(n, j) + mem.open[t] = Total(mem, j) + a
                                                 ELSE Total(n, j) = Total(mem, j)
      BY <1>1, <2>2, RecordSound
    <3>2. mem.open[t] = call[h].cost /\ mem.owner[t] = call[h].job
      BY <1>1, <2>2 DEF Mine, Live, Holds, Reserved
    <3> HIDE DEF n
    <3>3. t \in overshot => Stopped(n, t)
      BY <1>1, <3>1, <3>2 DEF OverOK, Stopped
    <3>4. \A j \in Jobs : Total(mem, j) <= DueAt(call[h], j) + Total(n, j)
      <4> SUFFICES ASSUME NEW j \in Jobs
                   PROVE  Total(mem, j) <= DueAt(call[h], j) + Total(n, j)
        OBVIOUS
      <4>1. Total(n, j) \in Nat
        BY <3>1, TotalType DEF Made, Sound
      <4>2. CASE j = call[h].job
        <5>1. DueAt(call[h], j) = IF a <= call[h].cost THEN call[h].cost - a ELSE 0
          BY <1>1, <4>2 DEF DueAt, Due, Unanswered
        <5> QED
          BY <1>1, <1>2, <3>1, <3>2, <4>1, <4>2, <5>1
      <4>3. CASE j # call[h].job
        BY <1>2, <3>1, <3>2, <4>1, <4>3
      <4> QED
        BY <4>2, <4>3
    <3> QED
      BY <3>1, <3>3, <3>4
  <2> QED
    BY <2>1, <2>2
<1>4. \/ (Commit(n) \/ CommitFails(n)) /\ Finish(h)
      \/ CommitFails(n) /\ Become(h, [call[h] EXCEPT !.pc = "mark"])
  BY DEF Record, Goto
<1>5. CASE (Commit(n) \/ CommitFails(n)) /\ Finish(h)
  <2> HIDE DEF n
  <2> QED
    BY <1>1, <1>3, <1>5, HandlerEnds
<1>6. CASE CommitFails(n) /\ Become(h, [call[h] EXCEPT !.pc = "mark"])
  <2> DEFINE r == [call[h] EXCEPT !.pc = "mark"]
  <2>1. /\ r \in Calls /\ r.pc = "mark"
        /\ r.token = t /\ r.job = call[h].job /\ r.cost = call[h].cost
    BY <1>1 DEF Calls, PC
  <2>2. Become(h, r) /\ mem' = mem
    BY <1>6 DEF CommitFails
  <2> HIDE DEF r, n
  <2>3. CallOK(r, up, drawn) /\ OverOK(r, overshot)
    BY <1>1, <2>1 DEF CallOK, OverOK, Unanswered
  <2>4. Holds(mem', r) /\ StillOpen(mem', r) /\ StillOpen(disk', r)
    BY <1>1, <2>1, <2>2 DEF Holds, StillOpen, Reserved, Unanswered
  <2>5. \A j \in Jobs : DueAt(r, j) = 0
    BY <2>1 DEF DueAt, Due, Unanswered
  <2>6. \A j \in Jobs : /\ DueAt(r, j) + Total(mem, j) <= DueAt(call[h], j) + Total(n, j)
                        /\ DueAt(r, j) <= DueAt(call[h], j)
    BY <1>2, <1>3, <2>5
  <2> QED
    BY <1>1, <1>3, <1>6, <2>1, <2>2, <2>3, <2>4, <2>6, HandlerWrites
<1> QED
  BY <1>4, <1>5, <1>6

\* The reservation is released: nothing was charged.
LEMMA ReleaseStep ==
  ASSUME Finite, BudgetInv, NEW h \in Handlers, Release(h)
  PROVE  BudgetInv'
<1> DEFINE t == call[h].token
           n == ReleaseReservation(mem, h)
<1>1. /\ call[h] \in Calls /\ call[h].pc = "release" /\ call[h].pc # "idle"
      /\ Sound(mem) /\ mem \in Registry /\ t \in Tokens
      /\ call[h].job \in Jobs /\ call[h].cost \in Costs
      /\ Holds(mem, call[h]) /\ t \notin overshot
      /\ UNCHANGED <<up, control, money>>
  BY CallFacts DEF Release, At, CallOK, OverOK, Reserved, Calls
<1>2. call[h].cost \in Nat /\ \A j \in Jobs : Total(mem, j) \in Nat /\ DueAt(call[h], j) \in Nat
  BY <1>1, TotalType, DueType, CostsArePositive
<1>3. Made(mem, n, t) /\ \A j \in Jobs : Total(mem, j) <= DueAt(call[h], j) + Total(n, j)
  <2>1. CASE ~Mine(mem, h)
    <3>1. n = mem
      BY <2>1 DEF ReleaseReservation
    <3> HIDE DEF n
    <3> QED
      BY <1>1, <1>2, <3>1, MadeSelf
  <2>2. CASE Mine(mem, h)
    <3>1. /\ Made(mem, n, t)
          /\ \A j \in Jobs : IF j = mem.owner[t] THEN Total(n, j) + mem.open[t] = Total(mem, j)
                                                 ELSE Total(n, j) = Total(mem, j)
      BY <1>1, <2>2, ReleaseSound
    <3>2. mem.open[t] = call[h].cost /\ mem.owner[t] = call[h].job
      BY <1>1, <2>2 DEF Mine, Live, Holds, Reserved
    <3>3. DueAt(call[h], call[h].job) = call[h].cost
      BY <1>1 DEF DueAt, Due
    <3> HIDE DEF n
    <3>4. \A j \in Jobs : Total(n, j) \in Nat
      BY <3>1, TotalType DEF Made, Sound
    <3>5. \A j \in Jobs : Total(mem, j) <= DueAt(call[h], j) + Total(n, j)
      BY <1>2, <3>1, <3>2, <3>3, <3>4
    <3> QED
      BY <3>1, <3>5
  <2> QED
    BY <2>1, <2>2
<1>4. (Commit(n) \/ CommitFails(n)) /\ Finish(h)
  BY DEF Release
<1> HIDE DEF n
<1> QED
  BY <1>1, <1>3, <1>4, HandlerEnds

\* Token and ledger are marked.
LEMMA MarkStep ==
  ASSUME Finite, BudgetInv, NEW h \in Handlers, Mark(h)
  PROVE  BudgetInv'
<1> DEFINE t == call[h].token
           n == MarkAccountingFailed(mem, h)
<1>1. /\ call[h] \in Calls /\ call[h].pc # "idle" /\ Sound(mem) /\ mem \in Registry
      /\ t \in Tokens
      /\ t \in overshot => Stopped(mem, t)
      /\ UNCHANGED <<up, control, money>>
  BY CallFacts DEF Mark, At
<1>2. /\ Made(mem, n, t) /\ \A u \in Tokens : Same(mem, n, u)
      /\ \A j \in Jobs : Total(n, j) = Total(mem, j)
  <2>1. n = MarkAccountingFailed(mem, h)
    OBVIOUS
  <2> HIDE DEF n
  <2> QED
    BY <1>1, <2>1, MarkSound
<1>3. (Commit(n) \/ CommitFails(n)) /\ Finish(h)
  BY DEF Mark
<1> HIDE DEF n
<1>4. t \in overshot => Stopped(n, t)
  BY <1>1, <1>2, SameStopped
<1>5. \A j \in Jobs : Total(mem, j) <= DueAt(call[h], j) + Total(n, j)
  BY <1>1, <1>2, DueType, TotalType
<1> QED
  BY <1>1, <1>2, <1>3, <1>4, <1>5, HandlerEnds

\* A slot is taken.
LEMMA AdmitStep ==
  ASSUME Finite, BudgetInv, NEW h \in Handlers, NEW t \in Tokens, Admit(h, t)
  PROVE  BudgetInv'
<1> DEFINE r == [Idle EXCEPT !.pc = "admitted", !.token = t]
<1>1. /\ r \in Calls /\ r.pc = "admitted" /\ r.token = t /\ r.job = NoJob /\ Become(h, r)
  BY DEF Idle, Calls, PC, Client, Admit
<1>2. /\ up /\ t \in drawn /\ call[h].pc = "idle"
      /\ \A g \in Slots : call[g].token # t
      /\ UNCHANGED <<registry, up, control, money, faults>>
  BY DEF Admit, At
<1> HIDE DEF r
<1>3. /\ CallOK(r, up, drawn) /\ OverOK(r, overshot)
      /\ Holds(mem, r) /\ StillOpen(mem, r) /\ StillOpen(disk, r)
  BY <1>1, <1>2 DEF CallOK, OverOK, Holds, StillOpen, Reserved, Unanswered
<1>4. \A g \in Handlers \ {h} : call[g].pc # "idle" => call[g].token # r.token
  BY <1>1, <1>2 DEF Slots
<1>5. /\ MoneyOK' /\ MoneyOK /\ faults' \in 0..MaxFaults /\ overshot' = overshot
      /\ used' = used /\ overshoot' = overshoot /\ call[h] \in Calls
  BY <1>2, TypeParts DEF BudgetInv, MoneyOK, money
<1>6. \A j \in Jobs : used'[j] + DueAt(r, j) + overshoot[j]
                        <= used[j] + DueAt(call[h], j) + overshoot'[j]
  <2>1. \A j \in Jobs : DueAt(r, j) = 0
    BY <1>1 DEF DueAt, Due, Unanswered
  <2> QED
    BY <1>1, <1>5, <2>1, DueType DEF MoneyOK
<1> QED
  BY <1>1, <1>2, <1>3, <1>4, <1>5, <1>6, HandlerMoves

\* A client fills its connection, drains it or leaves.
LEMMA ClientStep ==
  ASSUME Finite, BudgetInv, NEW h \in Handlers, Stall(h) \/ Drain(h) \/ Leave(h)
  PROVE  BudgetInv'
<1>1. PICK c \in Client : Become(h, [call[h] EXCEPT !.client = c])
  BY DEF Stall, Drain, Leave, Client
<1>2. UNCHANGED <<registry, up, control, money, faults>>
  BY DEF Stall, Drain, Leave
<1>3. call \in [Handlers -> Calls] /\ call[h] \in Calls /\ SetsOK
  BY TypeParts DEF BudgetInv
<1> DEFINE r == [call[h] EXCEPT !.client = c]
<1>4. r \in Calls /\ Alike(call[h], r)
  BY <1>3 DEF Calls, Alike
<1>5. Become(h, r)
  BY <1>1
<1> HIDE DEF r
<1>6. /\ call' \in [Handlers -> Calls] /\ call'[h] = r
      /\ \A g \in Handlers \ {h} : call'[g] = call[g]
  BY <1>3, <1>4, <1>5, OneMoves
<1>7. \A g \in Handlers : Alike(call[g], call'[g])
  <2>1. \A g \in Handlers \ {h} : Alike(call[g], call'[g])
    BY <1>6 DEF Alike
  <2> QED
    BY <1>4, <1>6, <2>1
<1>8. /\ revoking' \subseteq Tokens
      /\ UNCHANGED <<registry, up, revoked, drawn, expired, money, faults>>
  BY <1>2, <1>3 DEF control, SetsOK
<1> QED
  BY <1>6, <1>7, <1>8, CallsAlike

\* The calls of a token are aborted.
LEMMA AbortStep ==
  ASSUME Finite, BudgetInv, NEW t \in Tokens, AbortActiveRequests(t)
  PROVE  BudgetInv'
<1>1. call \in [Handlers -> Calls] /\ SetsOK
  BY TypeParts DEF BudgetInv
<1>2. /\ revoking' \subseteq Tokens
      /\ UNCHANGED <<registry, up, revoked, drawn, expired, money, faults>>
  BY <1>1 DEF AbortActiveRequests, SetsOK
<1>3. \A g \in Handlers :
        call'[g] = IF call[g].token = t /\ call[g].pc = "upstream"
                   THEN [call[g] EXCEPT !.pc = "aborted"] ELSE call[g]
  BY DEF AbortActiveRequests
<1>4. \A g \in Handlers : call'[g] \in Calls /\ Alike(call[g], call'[g])
  BY <1>1, <1>3 DEF Calls, PC, Alike, Unanswered
<1>5. call' \in [Handlers -> Calls]
  BY <1>4 DEF AbortActiveRequests
<1> QED
  BY <1>2, <1>4, <1>5, CallsAlike

\* A token is registered.
LEMMA RegisterStep ==
  ASSUME Finite, BudgetInv, NEW t \in Tokens, NEW j \in Jobs, Register(t, j)
  PROVE  BudgetInv'
<1> DEFINE n == WithToken(mem, t, j)
<1>1. /\ Sound(mem) /\ mem.owner[t] = NoJob /\ t \notin drawn /\ SetsOK
      /\ drawn' = drawn \cup {t}
      /\ UNCHANGED <<up, call, revoking, revoked, expired, money>>
  BY TypeParts DEF BudgetInv, RegistryInv, DrawnOnly, Register
<1>2. Commit(n) \/ CommitFails(n)
  BY DEF Register, WithToken
<1>3. Made(mem, n, t) /\ n.open[t] = 0 /\ \A i \in Jobs : Total(n, i) = Total(mem, i)
  <2>1. n = WithToken(mem, t, j)
    OBVIOUS
  <2> HIDE DEF n
  <2> QED
    BY <1>1, <2>1, RegisterSound
<1> HIDE DEF n
<1>4. /\ drawn \subseteq drawn' /\ drawn' \subseteq Tokens /\ t \in drawn'
      /\ revoking' \subseteq Tokens /\ revoked' \subseteq Tokens
  BY <1>1 DEF SetsOK
<1> QED
  BY <1>1, <1>2, <1>3, <1>4, RegistryWrites

\* Tokens are revoked, or purged.
LEMMA SettleStep ==
  ASSUME Finite, BudgetInv, NEW T \in SUBSET Live(mem), NEW t \in Tokens,
         NEW n, n = SettleOutstanding(mem, T), Commit(n) \/ CommitFails(n),
         revoking' \subseteq Tokens, revoked' \subseteq Tokens,
         UNCHANGED <<up, call, drawn, expired, money>>
  PROVE  BudgetInv'
<1>1. /\ Sound(mem) /\ drawn \subseteq Tokens
      /\ DrawnOnly(mem, drawn) /\ drawn' = drawn
  BY TypeParts DEF BudgetInv, RegistryInv, SetsOK
<1>2. /\ Made(mem, n, t) /\ Same(mem, n, t)
      /\ \A j \in Jobs : Total(n, j) = Total(mem, j)
  BY <1>1, SettleMade
<1>3. t \in drawn' \/ n.owner[t] = NoJob
  BY <1>1, <1>2 DEF DrawnOnly, Same
<1>4. /\ drawn \subseteq drawn' /\ drawn' \subseteq Tokens
      /\ Same(mem, n, t) \/ (n.open[t] = 0 /\ t \notin drawn)
  BY <1>1, <1>2
<1>5. UNCHANGED <<up, call, expired, money>>
  OBVIOUS
<1> QED
  BY <1>2, <1>3, <1>4, <1>5, RegistryWrites

\* A token is revoked.
LEMMA RevokeStep ==
  ASSUME Finite, BudgetInv, NEW t \in Tokens, Revoke(t)
  PROVE  BudgetInv'
<1> DEFINE T == {t} \cap Live(mem)
           n == SettleOutstanding(mem, T)
<1>1. SetsOK /\ T \in SUBSET Live(mem)
  BY TypeParts DEF BudgetInv
<1>2. /\ Commit(n) \/ CommitFails(n)
      /\ revoking' = revoking \ {t}
      /\ revoked' = revoked \cup {t} \/ revoked' = revoked
      /\ UNCHANGED <<up, call, drawn, expired, money>>
  BY DEF Revoke
<1>3. revoking' \subseteq Tokens /\ revoked' \subseteq Tokens
  BY <1>1, <1>2 DEF SetsOK
<1>4. n = SettleOutstanding(mem, T)
  OBVIOUS
<1> HIDE DEF n, T
<1> QED
  BY <1>1, <1>2, <1>3, <1>4, SettleStep

\* Expired tokens are purged.
LEMMA PurgeStep ==
  ASSUME Finite, BudgetInv, PurgeExpired
  PROVE  BudgetInv'
<1> DEFINE T == Live(mem) \cap expired
           n == SettleOutstanding(mem, T)
<1>1. SetsOK /\ T \in SUBSET Live(mem) /\ \E t \in Tokens : t \in T
  BY TypeParts DEF BudgetInv, PurgeExpired, Live
<1>2. /\ Commit(n) \/ CommitFails(n)
      /\ UNCHANGED <<up, call, control, money>>
  BY DEF PurgeExpired, Purge
<1>3. /\ revoking' \subseteq Tokens /\ revoked' \subseteq Tokens
      /\ UNCHANGED <<up, call, drawn, expired, money>>
  BY <1>1, <1>2 DEF SetsOK, control
<1>4. n = SettleOutstanding(mem, T)
  OBVIOUS
<1> HIDE DEF n, T
<1> QED
  BY <1>1, <1>2, <1>3, <1>4, SettleStep

\* The time of a token is over; that alone changes nothing else.
LEMMA ExpireStep ==
  ASSUME Finite, BudgetInv, NEW t \in Tokens, Expire(t)
  PROVE  BudgetInv'
<1>1. /\ mem' = mem /\ disk' = disk /\ up' = up /\ call' = call /\ drawn' = drawn
      /\ revoking' = revoking /\ revoked' = revoked /\ expired' = expired \cup {t}
      /\ used' = used /\ overshot' = overshot /\ overshoot' = overshoot /\ faults' = faults
  BY DEF Expire, registry, money
<1>2. TypeOK'
  BY <1>1, TypeParts, TypePartsNext DEF BudgetInv, SetsOK, MoneyOK
<1> QED
  BY <1>1, <1>2 DEF BudgetInv, RegistryInv, CallInv, CoverInv, OverInv

-----------------------------------------------------------------------------
(* The process *)

\* Handlers that all wait have nothing due.
LEMMA NothingDue ==
  ASSUME Finite, NEW calls, \A h \in Handlers : calls[h] = Idle, NEW j \in Jobs
  PROVE  SumOf(DueOf(calls, j), Handlers) = 0
<1>1. \A h \in Handlers : DueOf(calls, j)[h] = 0
  BY IdleCall DEF DueOf
<1>2. DueOf(calls, j) \in [Handlers -> Nat]
  BY <1>1 DEF DueOf
<1> QED
  BY <1>1, <1>2, SumOfZero DEF Finite

\* What a crash makes of the calls of source job j: at most what was due.
LEMMA CrashCharges ==
  ASSUME Finite, BudgetInv, NEW charged \in [Handlers -> Costs \cup {0}],
         \A h \in Handlers : charged[h] > 0 =>
           call[h].pc \in {"upstream", "aborted"} /\ charged[h] <= call[h].cost,
         NEW j \in Jobs, NEW R, R = {h \in Handlers : call[h].job = j}
  PROVE  /\ SumOf(charged, R) \in Nat /\ SumOf(DueOf(call, j), Handlers) \in Nat
         /\ SumOf(charged, R) <= SumOf(DueOf(call, j), Handlers)
<1> DEFINE m == [h \in Handlers |-> IF h \in R THEN charged[h] ELSE 0]
           f == DueOf(call, j)
<1>1. call \in [Handlers -> Calls]
  BY TypeParts DEF BudgetInv
<1>2. charged \in [Handlers -> Nat]
  <2>1. \A c \in Costs \cup {0} : c \in Nat
    BY DEF Finite, BudgetAssumption
  <2> QED
    BY <2>1
<1>3. f \in [Handlers -> Nat] /\ \A h \in Handlers : f[h] = DueAt(call[h], j)
  BY <1>1, DueType DEF DueOf
<1>4. m \in [Handlers -> Nat]
      /\ \A h \in Handlers : m[h] = IF h \in R THEN charged[h] ELSE 0
  BY <1>2
<1>5. \A h \in Handlers : m[h] <= f[h]
  <2> SUFFICES ASSUME NEW h \in Handlers
               PROVE  m[h] <= f[h]
    OBVIOUS
  <2>1. DueAt(call[h], j) \in Nat /\ charged[h] \in Nat
    BY <1>1, <1>2, DueType
  <2>2. CASE h \in R /\ charged[h] > 0
    <3>1. /\ call[h].pc \in Unanswered /\ charged[h] <= call[h].cost /\ call[h].job = j
      BY <2>2 DEF Unanswered
    <3>2. DueAt(call[h], j) = call[h].cost
      BY <3>1 DEF DueAt, Due, Unanswered
    <3> QED
      BY <1>3, <1>4, <2>2, <3>1, <3>2
  <2>3. CASE ~(h \in R /\ charged[h] > 0)
    <3>1. m[h] = 0
      BY <1>4, <2>1, <2>3
    <3> QED
      BY <1>3, <2>1, <3>1
  <2> QED
    BY <2>2, <2>3
<1> HIDE DEF m, f
<1>6. R \in SUBSET Handlers /\ Handlers \in SUBSET Handlers /\ IsFiniteSet(Handlers)
  BY DEF Finite
<1>7. SumOf(charged, R) = SumOf(m, Handlers)
  BY <1>2, <1>4, <1>6, SumOfPart
<1>8. SumOf(m, Handlers) <= SumOf(f, Handlers)
  BY <1>3, <1>4, <1>5, <1>6, SumOfLess
<1>9. SumOf(m, Handlers) \in Nat /\ SumOf(f, Handlers) \in Nat
  BY <1>3, <1>4, <1>6, SumOfType
<1> QED
  BY <1>7, <1>8, <1>9 DEF f

\* The calls end with the process, and may still be charged.
LEMMA CrashStep ==
  ASSUME Finite, BudgetInv, Crash
  PROVE  BudgetInv'
<1>1. /\ TypeOK /\ RegistryInv /\ CallInv /\ CoverInv /\ OverInv
      /\ mem' = mem /\ disk' = disk /\ up' = FALSE /\ drawn' = drawn
      /\ revoking' = {} /\ revoked' = revoked /\ expired' = expired
      /\ overshot' = overshot /\ overshoot' = overshoot
      /\ faults' = faults + 1 /\ faults < MaxFaults
      /\ call' = [h \in Handlers |-> Idle]
  BY DEF BudgetInv, Crash, registry, Fault
<1>2. PICK charged \in [Handlers -> Costs \cup {0}] :
        /\ \A h \in Handlers : charged[h] > 0 =>
             call[h].pc \in {"upstream", "aborted"} /\ charged[h] <= call[h].cost
        /\ used' = [j \in Jobs |-> used[j] +
             MapThenSumSet(LAMBDA h : charged[h], {h \in Handlers : call[h].job = j})]
  BY DEF Crash
<1>3. \A h \in Handlers : call'[h] = Idle
  BY <1>1
<1>4. \A j \in Jobs :
        /\ used'[j] \in Nat /\ SumOf(DueOf(call, j), Handlers) \in Nat /\ used[j] \in Nat
        /\ used'[j] <= used[j] + SumOf(DueOf(call, j), Handlers)
  <2> SUFFICES ASSUME NEW j \in Jobs
               PROVE  /\ used'[j] \in Nat /\ SumOf(DueOf(call, j), Handlers) \in Nat
                      /\ used[j] \in Nat
                      /\ used'[j] <= used[j] + SumOf(DueOf(call, j), Handlers)
    OBVIOUS
  <2> DEFINE R == {h \in Handlers : call[h].job = j}
  <2>1. used'[j] = used[j] + SumOf(charged, R)
    BY <1>2 DEF SumOf
  <2>2. R = {h \in Handlers : call[h].job = j}
    OBVIOUS
  <2>3. used[j] \in Nat
    BY <1>1, TypeParts DEF MoneyOK
  <2> HIDE DEF R
  <2>4. /\ SumOf(charged, R) \in Nat /\ SumOf(DueOf(call, j), Handlers) \in Nat
        /\ SumOf(charged, R) <= SumOf(DueOf(call, j), Handlers)
    BY <1>2, <2>2, CrashCharges
  <2> QED
    BY <2>1, <2>3, <2>4
<1>5. TypeOK'
  <2>1. used' \in [Jobs -> Nat]
    BY <1>2, <1>4
  <2>2. call' \in [Handlers -> Calls]
    BY <1>1, IdleFields
  <2>3. faults' \in 0..MaxFaults
    BY <1>1, TypeParts DEF Finite, BudgetAssumption
  <2> QED
    BY <1>1, <2>1, <2>2, <2>3, TypeParts, TypePartsNext DEF SetsOK, MoneyOK
<1>6. RegistryInv'
  BY <1>1 DEF RegistryInv
<1>7. CallInv'
  <2>1. OneSlot(call')
    BY <1>3, IdleFields DEF OneSlot
  <2>2. \A h \in Handlers : /\ CallOK(Idle, up', drawn) /\ Holds(mem, Idle)
                            /\ StillOpen(mem, Idle) /\ StillOpen(disk, Idle)
    BY IdleCall, IdleFields DEF CallOK, Reserved, Unanswered
  <2> QED
    BY <1>1, <1>3, <2>1, <2>2 DEF CallInv
<1>8. CoverInv'
  <2>1. ASSUME NEW db \in Registry, Covers(db, call, used, overshoot)
        PROVE  Covers(db, call', used', overshoot)
    <3> SUFFICES ASSUME NEW j \in Jobs
                 PROVE  used'[j] + SumOf(DueOf(call', j), Handlers)
                          <= db.spent[j] + db.reserved[j] + overshoot[j]
      BY DEF Covers
    <3>1. SumOf(DueOf(call', j), Handlers) = 0
      BY <1>3, NothingDue
    <3>2. used[j] + SumOf(DueOf(call, j), Handlers) <= db.spent[j] + db.reserved[j] + overshoot[j]
      BY <2>1 DEF Covers
    <3>3. db.spent[j] \in Nat /\ db.reserved[j] \in Nat /\ overshoot[j] \in Nat
      BY <1>1, Fields, TypeParts DEF MoneyOK
    <3> QED
      BY <1>4, <3>1, <3>2, <3>3
  <2> QED
    BY <1>1, <2>1, TypeParts DEF CoverInv
<1>9. OverInv'
  <2>1. \A h \in Handlers : OverOK(call'[h], overshot)
    BY <1>3, IdleCall
  <2> QED
    BY <1>1, <2>1 DEF OverInv
<1> QED
  BY <1>5, <1>6, <1>7, <1>8, <1>9 DEF BudgetInv

\* The file is read, and its expired tokens are purged.
LEMMA RestartStep ==
  ASSUME Finite, BudgetInv, Restart
  PROVE  BudgetInv'
<1> DEFINE n == Purge(disk)
<1>1. /\ TypeOK /\ RegistryInv /\ CallInv /\ CoverInv /\ OverInv
      /\ ~up /\ up' = TRUE /\ mem' = n /\ disk' = n /\ faults' = faults
      /\ call' = call /\ drawn' = drawn /\ revoking' = revoking /\ revoked' = revoked
      /\ expired' = expired
      /\ used' = used /\ overshot' = overshot /\ overshoot' = overshoot
      /\ Sound(disk) /\ DrawnOnly(disk, drawn) /\ overshot \subseteq drawn /\ drawn \subseteq Tokens
  BY TypeParts DEF BudgetInv, Restart, Commit, control, money, RegistryInv, OverInv, SetsOK
<1>2. /\ Sound(n) /\ \A u \in Tokens : Same(disk, n, u)
      /\ \A j \in Jobs : Total(n, j) = Total(disk, j)
  <2>1. /\ Live(disk) \cap expired \in SUBSET Live(disk)
        /\ n = SettleOutstanding(disk, Live(disk) \cap expired)
    BY DEF Purge
  <2> HIDE DEF n
  <2> QED
    BY <1>1, <2>1, SettleMade DEF Made
<1> HIDE DEF n
<1>3. TypeOK'
  BY <1>1, <1>2, TypeParts, TypePartsNext DEF SetsOK, MoneyOK, Sound
<1>4. RegistryInv'
  BY <1>1, <1>2 DEF RegistryInv, Keeps, DrawnOnly, Same
<1>5. CallInv'
  <2>1. \A h \in Handlers : call[h].pc = "idle" /\ call[h].job = NoJob
    BY <1>1 DEF CallInv, CallOK
  <2>2. \A h \in Handlers : /\ CallOK(call[h], up', drawn) /\ Holds(n, call[h])
                            /\ StillOpen(n, call[h])
    BY <2>1 DEF CallOK, Holds, StillOpen, Reserved, Unanswered
  <2> QED
    BY <1>1, <2>2 DEF CallInv
<1>6. CoverInv'
  BY <1>1, <1>2 DEF CoverInv, Covers, Total
<1>7. OverInv'
  <2>1. \A t \in overshot : Stopped(n, t)
    BY <1>1, <1>2, SameStopped DEF OverInv
  <2> QED
    BY <1>1, <2>1 DEF OverInv
<1> QED
  BY <1>3, <1>4, <1>5, <1>6, <1>7 DEF BudgetInv

\* The empty registry
LEMMA EmptyIsSound ==
  ASSUME Finite
  PROVE  Sound(Empty) /\ Empty \in Registry
<1>1. /\ Empty \in Registry /\ MaxCost \in Nat
      /\ \A j \in Jobs : Empty.reserved[j] = 0 /\ Empty.spent[j] = 0
      /\ \A t \in Tokens : Empty.owner[t] = NoJob /\ Empty.open[t] = 0
  BY DEF Finite, BudgetAssumption, Empty, Registry
<1>2. \A j \in Jobs : Empty.reserved[j] = SumOf(Part(Empty, j), Tokens)
  <2> SUFFICES ASSUME NEW j \in Jobs
               PROVE  Empty.reserved[j] = SumOf(Part(Empty, j), Tokens)
    OBVIOUS
  <2>1. /\ Part(Empty, j) \in [Tokens -> Nat]
        /\ \A t \in Tokens : Part(Empty, j)[t] = 0
    BY <1>1 DEF Part
  <2> QED
    BY <1>1, <2>1, SumOfZero DEF Finite
<1>3. \A j \in Jobs : Empty.reserved[j] = Outstanding(Empty, Tokens, j)
  BY <1>1, <1>2, SumIsReserved
<1> QED
  BY <1>1, <1>3 DEF Sound

\* The proxy starts with an empty registry.
LEMMA BudgetInit ==
  ASSUME Finite, Init
  PROVE  BudgetInv
<1>1. /\ mem = Empty /\ disk = Empty /\ up = TRUE
      /\ revoking = {} /\ revoked = {} /\ drawn = {} /\ expired = {} /\ overshot = {}
      /\ faults = 0
      /\ call = [h \in Handlers |-> Idle]
      /\ used = [j \in Jobs |-> 0] /\ overshoot = [j \in Jobs |-> 0]
      /\ \A h \in Handlers : call[h] = Idle
      /\ \A j \in Jobs : used[j] = 0 /\ overshoot[j] = 0
  BY DEF Init
<1>2. Sound(Empty) /\ Empty \in Registry /\ MaxFaults \in Nat
  BY EmptyIsSound DEF Finite, BudgetAssumption
<1>3. /\ \A t \in Tokens : Empty.owner[t] = NoJob
      /\ \A j \in Jobs : Empty.reserved[j] = 0 /\ Empty.spent[j] = 0
  BY DEF Empty
<1>4. TypeOK
  <2>1. call \in [Handlers -> Calls] /\ MoneyOK /\ SetsOK
    BY <1>1, IdleFields DEF MoneyOK, SetsOK
  <2> QED
    BY <1>1, <1>2, <2>1, TypeParts
<1>5. RegistryInv
  BY <1>1, <1>2, <1>3 DEF RegistryInv, Keeps, DrawnOnly
<1>6. CallInv
  <2>1. OneSlot(call)
    BY <1>1, IdleFields DEF OneSlot
  <2> QED
    BY <1>1, <2>1, IdleCall DEF CallInv
<1>7. CoverInv
  <2>1. Covers(Empty, call, used, overshoot)
    BY <1>1, <1>3, NothingDue DEF Covers
  <2> QED
    BY <1>1, <2>1 DEF CoverInv
<1>8. OverInv
  BY <1>1, IdleCall DEF OverInv
<1> QED
  BY <1>4, <1>5, <1>6, <1>7, <1>8 DEF BudgetInv

\* Every step of a handler
LEMMA HandlerStep ==
  ASSUME Finite, BudgetInv, NEW h \in Handlers, Handler(h)
  PROVE  BudgetInv'
<1>1. CASE \E cost \in Costs : Authorize(h, cost)
  BY <1>1, AuthorizeStep
<1>2. CASE Answered(h)
  BY <1>2, AnsweredStep
<1>3. CASE Failed(h)
  BY <1>3, FailedStep
<1>4. CASE Record(h)
  BY <1>4, RecordStep
<1>5. CASE Release(h)
  BY <1>5, ReleaseStep
<1>6. CASE Mark(h)
  BY <1>6, MarkStep
<1> QED
  BY <1>1, <1>2, <1>3, <1>4, <1>5, <1>6 DEF Handler

\* Every step
LEMMA BudgetNext ==
  ASSUME Finite, BudgetInv, [Next]_vars
  PROVE  BudgetInv'
<1>1. CASE \E h \in Handlers : Handler(h)
  BY <1>1, HandlerStep
<1>2. CASE \E h \in Handlers : Stall(h) \/ Drain(h) \/ Leave(h)
  BY <1>2, ClientStep
<1>3. CASE \E h \in Handlers, t \in Tokens : Admit(h, t)
  BY <1>3, AdmitStep
<1>4. CASE \E t \in Tokens, j \in Jobs : Register(t, j)
  BY <1>4, RegisterStep
<1>5. CASE \E t \in Tokens : AbortActiveRequests(t)
  BY <1>5, AbortStep
<1>6. CASE \E t \in Tokens : Revoke(t)
  BY <1>6, RevokeStep
<1>7. CASE \E t \in Tokens : Expire(t)
  BY <1>7, ExpireStep
<1>8. CASE PurgeExpired
  BY <1>8, PurgeStep
<1>9. CASE Crash
  BY <1>9, CrashStep
<1>10. CASE Restart
  BY <1>10, RestartStep
<1>11. CASE UNCHANGED vars
  BY <1>11 DEF vars, registry, control, money, BudgetInv, TypeOK, RegistryInv, CallInv,
               CoverInv, OverInv
<1> QED
  BY <1>1, <1>2, <1>3, <1>4, <1>5, <1>6, <1>7, <1>8, <1>9, <1>10, <1>11 DEF Next

-----------------------------------------------------------------------------
(* Theorems *)

\* The inductive invariant: registries are sound, calls and their reservations
\* agree, and every ledger has what was charged and what still may be.
THEOREM BudgetInvariant == Finite => (Spec => []BudgetInv)
<1> SUFFICES ASSUME Finite PROVE Spec => []BudgetInv
  OBVIOUS
<1>1. Init => BudgetInv
  BY BudgetInit
<1>2. BudgetInv /\ [Next]_vars => BudgetInv'
  BY BudgetNext
<1> QED
  BY <1>1, <1>2, PTL DEF Spec

\* The registry's records have the shape that validateTokenState checks.
THEOREM BudgetTypeCorrect == Finite => (Spec => []TypeOK)
<1>1. BudgetInv => TypeOK
  BY DEF BudgetInv
<1> QED
  BY <1>1, BudgetInvariant, PTL

\* What a ledger has reserved is what its tokens have open, in memory and in the
\* file, so that no later write is refused.
THEOREM ReconcilesHolds == Finite => (Spec => []Reconciles)
<1>1. BudgetInv => Reconciles
  BY DEF BudgetInv, RegistryInv, Sound, Reconciles
<1> QED
  BY <1>1, BudgetInvariant, PTL

\* Every unit OpenAI charges is in the ledger, whatever fails, is revoked, expires
\* or crashes, but for what a call cost beyond its reservation.
THEOREM EverythingIsPaidHolds == Finite => (Spec => []EverythingIsPaid)
<1> SUFFICES ASSUME Finite PROVE Spec => []EverythingIsPaid
  OBVIOUS
<1>1. ASSUME BudgetInv, NEW j \in Jobs, NEW db \in {mem, disk}
      PROVE  used[j] <= db.spent[j] + db.reserved[j] + overshoot[j]
  <2>1. /\ db \in Registry /\ MoneyOK /\ call \in [Handlers -> Calls]
        /\ Covers(db, call, used, overshoot)
    BY <1>1, TypeParts DEF BudgetInv, CoverInv
  <2>2. SumOf(DueOf(call, j), Handlers) \in Nat
    <3>1. DueOf(call, j) \in [Handlers -> Nat]
      BY <2>1, DueType DEF DueOf
    <3> QED
      BY <3>1, SumOfType DEF Finite
  <2>3. used[j] + SumOf(DueOf(call, j), Handlers) <= db.spent[j] + db.reserved[j] + overshoot[j]
    BY <2>1 DEF Covers
  <2>4. used[j] \in Nat /\ overshoot[j] \in Nat /\ db.spent[j] \in Nat /\ db.reserved[j] \in Nat
    BY <2>1, Fields DEF MoneyOK
  <2> QED
    BY <2>2, <2>3, <2>4
<1>2. BudgetInv => EverythingIsPaid
  BY <1>1 DEF EverythingIsPaid
<1> QED
  BY <1>2, BudgetInvariant, PTL

\* What is spent and reserved exceeds the budget class only on a closed ledger.
THEOREM WithinBudgetHolds == Finite => (Spec => []WithinBudget)
<1>1. BudgetInv => WithinBudget
  BY DEF BudgetInv, RegistryInv, Sound, WithinBudget
<1> QED
  BY <1>1, BudgetInvariant, PTL

\* What a registry keeps, it keeps over two changes.
LEMMA KeepsOn ==
  ASSUME NEW a, NEW b, NEW c, Keeps(a, b), Keeps(b, c)
  PROVE  Keeps(a, c)
BY DEF Keeps

\* A removal of tokens keeps ledgers closed.
LEMMA SettleKeeps ==
  ASSUME Finite, NEW db, Sound(db), NEW T \in SUBSET Live(db),
         NEW n, n = SettleOutstanding(db, T)
  PROVE  Keeps(db, n)
BY SettleSound

\* A write of a registry that keeps the old one keeps memory.
LEMMA WriteKeeps ==
  ASSUME NEW n, Keeps(mem, n), Commit(n) \/ CommitFails(n)
  PROVE  Keeps(mem, mem')
BY DEF Commit, CommitFails, Keeps

\* The same of a purge in memory
LEMMA PurgeKeeps ==
  ASSUME Finite, NEW db, Sound(db)
  PROVE  Keeps(db, Purge(db)) /\ Sound(Purge(db))
<1>1. Live(db) \cap expired \in SUBSET Live(db)
  OBVIOUS
<1> QED
  BY <1>1, SettleSound DEF Purge

\* And of each write of a handler
LEMMA HandlerKeeps ==
  ASSUME Finite, BudgetInv, NEW h \in Handlers, Handler(h)
  PROVE  Keeps(mem, mem')
<1>1. /\ call[h] \in Calls /\ Sound(mem) /\ mem \in Registry
      /\ call[h].pc # "idle" => call[h].token \in Tokens
  BY CallFacts
<1>2. ASSUME NEW cost \in Costs, Authorize(h, cost)
      PROVE  Keeps(mem, mem')
  <2> DEFINE t == call[h].token
             db == Purge(mem)
             next == Reserve(db, t, h, cost)
             allowed == Authorized(db, t) /\ WithinLimits(db, db.owner[t], cost)
  <2>1. t \in Tokens
    BY <1>1, <1>2 DEF Authorize, At
  <2>2. CASE allowed
    <3>1. Keeps(mem, next)
      BY <1>1, <2>1, <2>2, AuthorizeMade DEF Made
    <3>2. Commit(next) \/ CommitFails(next)
      BY <1>2, <2>2 DEF Authorize
    <3> HIDE DEF next
    <3> QED
      BY <3>1, <3>2, WriteKeeps
  <2>3. CASE ~allowed
    <3>1. Keeps(mem, db)
      BY <1>1, PurgeKeeps
    <3>2. Commit(db) \/ CommitFails(db)
      BY <1>2, <2>3 DEF Authorize
    <3> HIDE DEF db
    <3> QED
      BY <3>1, <3>2, WriteKeeps
  <2> QED
    BY <2>2, <2>3
<1>3. CASE Answered(h) \/ Failed(h)
  BY <1>3 DEF Answered, Failed, registry, Keeps
<1>4. CASE Record(h)
  <2> DEFINE n == RecordUsage(mem, h)
  <2>1. Commit(n) \/ CommitFails(n)
    BY <1>4 DEF Record
  <2>2. Keeps(mem, n)
    <3>1. CASE Mine(mem, h)
      <4>1. call[h].usage \in Nat /\ n = RecordUsage(mem, h)
        BY <1>1 DEF Calls
      <4> HIDE DEF n
      <4> QED
        BY <1>1, <3>1, <4>1, RecordSound DEF Made
    <3>2. CASE ~Mine(mem, h)
      BY <3>2 DEF RecordUsage, Keeps
    <3> QED
      BY <3>1, <3>2
  <2> HIDE DEF n
  <2> QED
    BY <2>1, <2>2, WriteKeeps
<1>5. CASE Release(h)
  <2> DEFINE n == ReleaseReservation(mem, h)
  <2>1. Commit(n) \/ CommitFails(n)
    BY <1>5 DEF Release
  <2>2. Keeps(mem, n)
    <3>1. CASE Mine(mem, h)
      <4>1. n = ReleaseReservation(mem, h)
        OBVIOUS
      <4> HIDE DEF n
      <4> QED
        BY <1>1, <3>1, <4>1, ReleaseSound DEF Made
    <3>2. CASE ~Mine(mem, h)
      BY <3>2 DEF ReleaseReservation, Keeps
    <3> QED
      BY <3>1, <3>2
  <2> HIDE DEF n
  <2> QED
    BY <2>1, <2>2, WriteKeeps
<1>6. CASE Mark(h)
  <2> DEFINE n == MarkAccountingFailed(mem, h)
  <2>1. Commit(n) \/ CommitFails(n)
    BY <1>6 DEF Mark
  <2>2. Keeps(mem, n)
    <3>1. n = MarkAccountingFailed(mem, h)
      OBVIOUS
    <3> HIDE DEF n
    <3> QED
      BY <1>1, <3>1, MarkSound DEF Made
  <2> HIDE DEF n
  <2> QED
    BY <2>1, <2>2, WriteKeeps
<1> QED
  BY <1>2, <1>3, <1>4, <1>5, <1>6 DEF Handler

\* And of every step
LEMMA StepKeeps ==
  ASSUME Finite, BudgetInv, [Next]_vars
  PROVE  Keeps(mem, mem')
<1>1. Sound(mem) /\ Sound(disk) /\ Keeps(mem, disk) /\ DrawnOnly(mem, drawn)
  BY DEF BudgetInv, RegistryInv
<1>2. Keeps(mem, mem)
  BY DEF Keeps
<1>3. CASE \E h \in Handlers : Handler(h)
  BY <1>3, HandlerKeeps
<1>4. CASE \E h \in Handlers : \/ Stall(h) \/ Drain(h) \/ Leave(h)
                               \/ \E t \in Tokens : Admit(h, t)
  BY <1>2, <1>4 DEF Stall, Drain, Leave, Admit, registry
<1>5. ASSUME NEW t \in Tokens, NEW j \in Jobs, Register(t, j)
      PROVE  Keeps(mem, mem')
  <2> DEFINE n == WithToken(mem, t, j)
  <2>1. (Commit(n) \/ CommitFails(n)) /\ mem.owner[t] = NoJob
    BY <1>1, <1>5 DEF Register, WithToken, DrawnOnly
  <2>2. n = WithToken(mem, t, j)
    OBVIOUS
  <2> HIDE DEF n
  <2>3. Keeps(mem, n)
    BY <1>1, <2>1, <2>2, RegisterSound DEF Made
  <2> QED
    BY <2>1, <2>3, WriteKeeps
<1>6. ASSUME NEW t \in Tokens, AbortActiveRequests(t) \/ Expire(t)
      PROVE  Keeps(mem, mem')
  BY <1>2, <1>6 DEF AbortActiveRequests, Expire, registry
<1>7. ASSUME NEW t \in Tokens, Revoke(t)
      PROVE  Keeps(mem, mem')
  <2> DEFINE T == {t} \cap Live(mem)
             n == SettleOutstanding(mem, T)
  <2>1. Commit(n) \/ CommitFails(n)
    BY <1>7 DEF Revoke
  <2>2. n = SettleOutstanding(mem, T) /\ T \in SUBSET Live(mem)
    OBVIOUS
  <2> HIDE DEF n, T
  <2> QED
    BY <1>1, <2>1, <2>2, SettleKeeps, WriteKeeps
<1>8. CASE PurgeExpired
  <2> DEFINE n == Purge(mem)
  <2>1. (Commit(n) \/ CommitFails(n)) /\ Keeps(mem, n)
    BY <1>1, <1>8, PurgeKeeps DEF PurgeExpired
  <2> HIDE DEF n
  <2> QED
    BY <2>1, WriteKeeps
<1>9. CASE Crash
  BY <1>2, <1>9 DEF Crash, registry
<1>10. CASE Restart
  BY <1>1, <1>10, PurgeKeeps, KeepsOn DEF Restart, Commit
<1>11. CASE UNCHANGED vars
  BY <1>2, <1>11 DEF vars, registry
<1> QED
  BY <1>3, <1>4, <1>5, <1>6, <1>7, <1>8, <1>9, <1>10, <1>11 DEF Next

\* A ledger that is closed stays closed, and nothing is reserved on it again: over
\* retries, revocations, writes that fail and restarts from the file.
THEOREM ClosedForGoodHolds == Finite => (Spec => [][ClosedForGood]_vars)
<1> SUFFICES ASSUME Finite PROVE Spec => [][ClosedForGood]_vars
  OBVIOUS
<1>1. ASSUME BudgetInv, [Next]_vars
      PROVE  [ClosedForGood]_vars
  BY <1>1, StepKeeps DEF Keeps, ClosedForGood
<1> QED
  BY <1>1, BudgetInvariant, PTL DEF Spec

\* Only an authorization gives a call that was admitted a source job.
LEMMA OnlyAuthorized ==
  ASSUME Finite, BudgetInv, [Next]_vars, NEW h \in Handlers, call[h].pc = "admitted",
         call'[h].job # NoJob
  PROVE  \E cost \in Costs : Authorize(h, cost) /\ call'[h] # Idle
<1>1. /\ call \in [Handlers -> Calls] /\ call[h].job = NoJob /\ Idle.job = NoJob
      /\ Idle.pc = "idle"
  BY CallFacts, TypeParts, IdleFields DEF BudgetInv, CallOK
<1>2. ASSUME NEW g \in Handlers, \/ Handler(g) \/ Stall(g) \/ Drain(g) \/ Leave(g)
                                 \/ \E t \in Tokens : Admit(g, t)
      PROVE  \E cost \in Costs : Authorize(h, cost) /\ call'[h] # Idle
  <2>1. PICK r : call' = [call EXCEPT ![g] = r]
    BY <1>2 DEF Handler, Authorize, Answered, Failed, Record, Release, Mark, Stall, Drain,
                Leave, Admit, Goto, Finish, Become
  <2>2. CASE g # h
    BY <1>1, <2>1, <2>2
  <2>3. CASE g = h
    <3>1. ~(Answered(h) \/ Failed(h) \/ Record(h) \/ Release(h) \/ Mark(h))
      BY DEF Answered, Failed, Record, Release, Mark, At, Reading
    <3>2. ~Stall(h) /\ ~ \E t \in Tokens : Admit(h, t)
      BY DEF Stall, Admit, At
    <3>3. ~(Drain(h) \/ Leave(h))
      <4>1. ASSUME NEW c, Become(h, [call[h] EXCEPT !.client = c])
            PROVE  FALSE
        <5>1. call'[h] = [call[h] EXCEPT !.client = c] /\ call[h] \in Calls
          BY <1>1, <4>1 DEF Become
        <5>2. call'[h].job = call[h].job
          BY <5>1 DEF Calls
        <5> QED
          BY <1>1, <5>2
      <4> QED
        BY <4>1 DEF Drain, Leave
    <3> QED
      BY <1>1, <1>2, <2>3, <3>1, <3>2, <3>3 DEF Handler
  <2> QED
    BY <2>2, <2>3
<1>3. CASE \E t \in Tokens : \/ (\E j \in Jobs : Register(t, j))
                             \/ AbortActiveRequests(t) \/ Revoke(t) \/ Expire(t)
  BY <1>1, <1>3 DEF Register, AbortActiveRequests, Revoke, Expire
<1>4. CASE PurgeExpired \/ Restart
  BY <1>1, <1>4 DEF PurgeExpired, Restart
<1>5. CASE Crash
  BY <1>1, <1>5 DEF Crash
<1>6. CASE UNCHANGED vars
  BY <1>1, <1>6 DEF vars
<1> QED
  BY <1>2, <1>3, <1>4, <1>5, <1>6 DEF Next

\* The token of a call that cost more than its reservation makes no other call.
THEOREM OvershotIsStoppedHolds == Finite => (Spec => [][OvershotIsStopped]_vars)
<1> SUFFICES ASSUME Finite PROVE Spec => [][OvershotIsStopped]_vars
  OBVIOUS
<1>1. ASSUME BudgetInv, [Next]_vars, NEW h \in Handlers,
             call[h].pc = "admitted", call'[h].job # NoJob
      PROVE  call[h].token \notin overshot
  <2> DEFINE t == call[h].token
             db == Purge(mem)
  <2>1. PICK cost \in Costs : Authorize(h, cost) /\ call'[h] # Idle
    BY <1>1, OnlyAuthorized
  <2>2. /\ call \in [Handlers -> Calls] /\ Sound(mem) /\ t \in Tokens /\ NoJob \notin Jobs
        /\ t \in overshot => Stopped(mem, t)
    BY <1>1, CallFacts, TypeParts DEF BudgetInv, Finite, BudgetAssumption
  <2>3. Authorized(db, t) /\ WithinLimits(db, db.owner[t], cost)
    BY <2>1, <2>2 DEF Authorize, Finish, Become
  <2>4. mem.owner[t] \in Jobs /\ t \notin mem.tokenFailed /\ mem.open[t] = 0
    BY <2>2, <2>3, AuthorizeMade
  <2> QED
    BY <2>2, <2>4 DEF Stopped, Live
<1>2. ASSUME BudgetInv, [Next]_vars
      PROVE  [OvershotIsStopped]_vars
  BY <1>1, <1>2 DEF OvershotIsStopped
<1> QED
  BY <1>2, BudgetInvariant, PTL DEF Spec
=============================================================================
