----------------------------- MODULE TakeoffJobs -----------------------------
(***************************************************************************)
(* The control plane of a takeoff after its plan is verified: the rows of  *)
(* public.takeoff_jobs, public.takeoff_files, public.credit_ledger and     *)
(* public.credit_accounts, and the RPCs that change them.                  *)
(*                                                                         *)
(* Every RPC is one Postgres transaction that first locks the takeoff row, *)
(* so an RPC is one action; an RPC that raises rolls back, so it is not a  *)
(* step.  The callers (web requests, workers, cron, admins) are left open: *)
(* a worker may call with any claim it ever held, at any time, so delayed, *)
(* duplicated and stale calls are behaviours of this module.  TakeoffWorker*)
(* restricts it to what the worker program sends.                          *)
(*                                                                         *)
(* A claim token is a fresh UUID, and each claim makes one and increments  *)
(* attempt_count in the same update: the attempt number stands for it.     *)
(*                                                                         *)
(* The 7 days of request_takeoff_correction and the 24 hours of            *)
(* expire_abandoned_takeoff_job are left out: the first only disables, the *)
(* second is reached by waiting, and any finite run fits in both.          *)
(***************************************************************************)
EXTENDS Naturals, FiniteSets, FiniteSetsExt

CONSTANTS Users,            \* profiles
          Jobs,             \* takeoffs with a verified plan and a quote
          Workers,          \* worker identities (WORKER_ID)
          NoWorker,         \* claimed_by is null
          MaxAttempts,      \* takeoff_jobs.max_attempts
          Owner,            \* takeoff_jobs.user_id
          Quote,            \* takeoff_jobs.quoted_credits
          FreeSample,       \* takeoffs with free_sample = true
          FirstVerified,    \* takeoffs with scope = 'first_verified'
          Rush,             \* takeoffs with priority = 'rush'
          OpeningCredits    \* credit_accounts.balance when the model starts

\* What the schema, the price list and finalize_takeoff_verification establish before a
\* takeoff is ready: one owner, a quote that is zero for free samples only.
ASSUME JobsAssumption ==
  /\ NoWorker \notin Workers
  /\ MaxAttempts \in Nat \ {0}
  /\ Owner \in [Jobs -> Users]
  /\ Quote \in [Jobs -> Nat]
  /\ FreeSample \subseteq Jobs
  /\ FirstVerified \subseteq Jobs \ FreeSample
  /\ \A j \in Jobs : Quote[j] = 0 <=> j \in FreeSample
  /\ OpeningCredits \in [Users -> Nat]

Status == {"ready", "queued", "processing", "needs_review",
           "completed", "failed", "canceled"}

Artifacts == {"annotated_drawings.pdf", "takeoff.xlsx"}

NoToken == 0
Tokens == Nat \ {NoToken}

VARIABLES
  status,             \* takeoff_jobs.status
  claimed_by,         \* takeoff_jobs.claimed_by
  claim_token,        \* takeoff_jobs.claim_token
  attempt_count,      \* takeoff_jobs.attempt_count
  queued_before,      \* <<k, j>>: both queued, k with the earlier queued_at
  reserved_credits,   \* takeoff_jobs.reserved_credits
  consumed_credits,   \* takeoff_jobs.consumed_credits
  ledger,             \* ledger[j]: the entry types of the rows of takeoff j
  balance,            \* credit_accounts.balance
  lifetime_consumed,  \* credit_accounts.lifetime_consumed
  files,              \* files[j]: verified result rows, <<token in path, name>>
  stale,              \* stale[j]: processing, and updated_at is 30 minutes old
  read_token,         \* read_token[j]: claim the reconcile cron read as stale
  profile_status,     \* profiles.status
  free_sample_used,   \* profiles.free_sample_used_at is not null
  events              \* events[j]: kinds of takeoff_job_events the RPCs look for

claimVars == <<status, claimed_by, claim_token, attempt_count, queued_before>>
creditVars == <<reserved_credits, consumed_credits, ledger, balance,
                lifetime_consumed>>
cronVars == <<stale, read_token>>
customerVars == <<profile_status, free_sample_used, events>>
vars == <<claimVars, creditVars, files, cronVars, customerVars>>

Init ==
  /\ status = [j \in Jobs |-> "ready"]
  /\ claimed_by = [j \in Jobs |-> NoWorker]
  /\ claim_token = [j \in Jobs |-> NoToken]
  /\ attempt_count = [j \in Jobs |-> 0]
  /\ queued_before = {}
  /\ reserved_credits = [j \in Jobs |-> 0]
  /\ consumed_credits = [j \in Jobs |-> 0]
  /\ ledger = [j \in Jobs |-> {}]
  /\ balance = OpeningCredits
  /\ lifetime_consumed = [u \in Users |-> 0]
  /\ files = [j \in Jobs |-> {}]
  /\ stale = [j \in Jobs |-> FALSE]
  /\ read_token = [j \in Jobs |-> NoToken]
  /\ profile_status = [u \in Users |-> "active"]
  /\ free_sample_used = [u \in Users |-> FALSE]
  /\ events = [j \in Jobs |-> {}]

-----------------------------------------------------------------------------
(* Pieces of the RPCs *)

\* The takeoff has a reservation that was not given back.
Outstanding(k) == "reservation" \in ledger[k] /\ "release" \notin ledger[k]

\* validate_credit_ledger_entry and settle_takeoff_credits: once, and never
\* after a release.  A second call returns the account unchanged.
SettleCredits(j) ==
  /\ "reservation" \in ledger[j]
  /\ IF "settlement" \in ledger[j]
     THEN UNCHANGED creditVars
     ELSE /\ "release" \notin ledger[j]
          /\ ledger' = [ledger EXCEPT ![j] = @ \cup {"settlement"}]
          /\ lifetime_consumed' =
               [lifetime_consumed EXCEPT ![Owner[j]] = @ + Quote[j]]
          /\ consumed_credits' = [consumed_credits EXCEPT ![j] = Quote[j]]
          /\ UNCHANGED <<reserved_credits, balance>>

\* A release that forgets to put the credits back.
ReleaseWithoutCredit(j) ==
  /\ Outstanding(j)
  /\ ledger' = [ledger EXCEPT ![j] = @ \cup {"release"}]
  /\ UNCHANGED <<reserved_credits, consumed_credits, balance,
                 lifetime_consumed>>

\* validate_credit_ledger_entry and release_takeoff_credits: the mirror image.
ReleaseCredits(j) ==
  /\ "reservation" \in ledger[j]
  /\ IF "release" \in ledger[j]
     THEN UNCHANGED creditVars
     ELSE /\ "settlement" \notin ledger[j]
          /\ ledger' = [ledger EXCEPT ![j] = @ \cup {"release"}]
          /\ balance' = [balance EXCEPT ![Owner[j]] = @ + Quote[j]]
          /\ consumed_credits' = [consumed_credits EXCEPT ![j] = 0]
          /\ UNCHANGED <<reserved_credits, lifetime_consumed>>

\* A settlement or refund that is forgotten.
KeepCredits(j) == UNCHANGED creditVars

\* The refund of fail_takeoff_job: only what is reserved and not consumed.
RefundIfUnsettled(j) ==
  IF reserved_credits[j] > 0 /\ consumed_credits[j] = 0
  THEN ReleaseCredits(j)
  ELSE UNCHANGED creditVars

SettleIfReserved(j) ==
  IF reserved_credits[j] > 0 THEN SettleCredits(j) ELSE UNCHANGED creditVars

\* queued_at := now()
JoinQueue(j) ==
  queued_before' = queued_before \cup
                     {<<k, j>> : k \in {k \in Jobs : status[k] = "queued"}}

LeaveQueue(j) ==
  queued_before' = {p \in queued_before : p[1] # j /\ p[2] # j}

\* The row is updated: updated_at := now().
Touch(j) == stale' = [stale EXCEPT ![j] = FALSE]

\* A requeue that forgets claimed_by.
ClearTokenOnly(j) ==
  /\ claim_token' = [claim_token EXCEPT ![j] = NoToken]
  /\ UNCHANGED claimed_by

ClearClaim(j) ==
  /\ claimed_by' = [claimed_by EXCEPT ![j] = NoWorker]
  /\ claim_token' = [claim_token EXCEPT ![j] = NoToken]

\* A check that forgets the token.
AnyTokenOfWorker(w, j, t) == status[j] = "processing" /\ claimed_by[j] = w

\* The check every worker RPC repeats under the row lock.
OwnsClaim(w, j, t) ==
  /\ status[j] = "processing"
  /\ claimed_by[j] = w
  /\ claim_token[j] = t

\* A check that forgets the claim in the path.
ArtifactsOfAnyAttempt(j) == \A a \in Artifacts : \E f \in files[j] : f[2] = a

\* Both artifacts are verified rows under the path of the current claim.
Deliverable(j) ==
  /\ claim_token[j] # NoToken
  /\ \A a \in Artifacts : <<claim_token[j], a>> \in files[j]

-----------------------------------------------------------------------------
(* Customer *)

\* A check that only looks at finished takeoffs.
OtherFirstVerifiedSettled(j) ==
  \E k \in FirstVerified \ {j} :
    Owner[k] = Owner[j] /\ "settlement" \in ledger[k]

\* Another takeoff of the customer already holds the introductory price.
FirstVerifiedClaimed(j) ==
  \E k \in FirstVerified \ {j} : Owner[k] = Owner[j] /\ Outstanding(k)

\* A check for the wrong ledger entry.
NotSettled(j) == "settlement" \notin ledger[j]

\* No reservation yet; with one, reserve_takeoff_credits changes nothing.
NotReserved(j) == "reservation" \notin ledger[j]

\* No check at all.
AnyBalance(j) == TRUE

CanAfford(j) == balance[Owner[j]] >= Quote[j]

\* reserve_takeoff_credits, called by a paid submit
ReserveCredits(j) ==
  LET u == Owner[j] IN
  /\ status[j] \in {"ready", "queued"}
  /\ Quote[j] > 0
  /\ profile_status[u] = "active"
  /\ NotReserved(j)
  /\ j \in FirstVerified => ~FirstVerifiedClaimed(j)
  /\ CanAfford(j)
  /\ ledger' = [ledger EXCEPT ![j] = @ \cup {"reservation"}]
  /\ balance' = [balance EXCEPT ![u] = @ - Quote[j]]
  /\ reserved_credits' = [reserved_credits EXCEPT ![j] = Quote[j]]
  /\ status' = [status EXCEPT ![j] = "queued"]
  /\ IF status[j] = "queued" THEN UNCHANGED queued_before ELSE JoinQueue(j)
  /\ Touch(j)
  /\ UNCHANGED <<claimed_by, claim_token, attempt_count, consumed_credits,
                 lifetime_consumed, files, read_token, customerVars>>

\* A check of the takeoff instead of the customer.
SampleNotQueuedYet(j) == "free_sample_queued" \notin events[j]

SampleUnused(j) == ~free_sample_used[Owner[j]]

\* queue_free_sample, called by a free submit
QueueFreeSample(j) ==
  LET u == Owner[j] IN
  /\ profile_status[u] = "active"
  /\ j \in FreeSample
  /\ Quote[j] = 0
  /\ SampleUnused(j)
  /\ status[j] = "ready"
  /\ free_sample_used' = [free_sample_used EXCEPT ![u] = TRUE]
  /\ events' = [events EXCEPT ![j] = @ \cup {"free_sample_queued"}]
  /\ status' = [status EXCEPT ![j] = "queued"]
  /\ JoinQueue(j)
  /\ Touch(j)
  /\ UNCHANGED <<claimed_by, claim_token, attempt_count, creditVars, files,
                 read_token, profile_status>>

\* request_takeoff_correction: once, after delivery
RequestCorrection(j) ==
  /\ profile_status[Owner[j]] = "active"
  /\ status[j] = "completed"
  /\ "correction_requested" \notin events[j]
  /\ status' = [status EXCEPT ![j] = "needs_review"]
  /\ events' = [events EXCEPT ![j] = @ \cup {"correction_requested"}]
  /\ Touch(j)
  /\ UNCHANGED <<claimed_by, claim_token, attempt_count, queued_before,
                 creditVars, files, read_token, profile_status,
                 free_sample_used>>

-----------------------------------------------------------------------------
(* Workers *)

Claimable(j) ==
  /\ status[j] = "queued"
  /\ claimed_by[j] = NoWorker
  /\ attempt_count[j] < MaxAttempts

\* claim_takeoff_job of a queued takeoff.  A call for a takeoff the worker
\* already holds returns the row and changes nothing.
ClaimJob(w, j) ==
  /\ Claimable(j)
  /\ status' = [status EXCEPT ![j] = "processing"]
  /\ claimed_by' = [claimed_by EXCEPT ![j] = w]
  /\ claim_token' = [claim_token EXCEPT ![j] = attempt_count[j] + 1]
  /\ attempt_count' = [attempt_count EXCEPT ![j] = @ + 1]
  /\ LeaveQueue(j)
  /\ Touch(j)
  /\ UNCHANGED <<creditVars, files, read_token, customerVars>>

Class(j) == IF j \in FreeSample THEN 2 ELSE IF j \in Rush THEN 0 ELSE 1

\* order by class, queued_at
DispatchedBefore(j, k) ==
  \/ Class(j) < Class(k)
  \/ Class(j) = Class(k) /\ <<j, k>> \in queued_before

\* claim_next_takeoff_job of a worker that holds nothing.  A worker that holds
\* a claim gets that row back, unchanged.
ClaimNext(w) ==
  LET waiting == {j \in Jobs : Claimable(j)}
  IN /\ \A j \in Jobs : status[j] = "processing" => claimed_by[j] # w
     /\ \E j \in waiting :
          /\ \A k \in waiting \ {j} : DispatchedBefore(j, k)
          /\ ClaimJob(w, j)

\* The progress endpoint, the heartbeat of a claim
Progress(w, j, t) ==
  /\ OwnsClaim(w, j, t)
  /\ stale[j]
  /\ Touch(j)
  /\ UNCHANGED <<claimVars, creditVars, files, read_token, customerVars>>

\* One insert of the artifacts endpoint.  The claim is checked before the
\* inserts and not again: a row of an earlier claim may still arrive.
PublishArtifact(j, t, a) ==
  /\ t \in 1..attempt_count[j]
  /\ <<t, a>> \notin files[j]
  /\ files' = [files EXCEPT ![j] = @ \cup {<<t, a>>}]
  /\ UNCHANGED <<claimVars, creditVars, cronVars, customerVars>>

\* complete_takeoff_job; called again after success it changes nothing
Complete(w, j, t) ==
  /\ OwnsClaim(w, j, t)
  /\ Deliverable(j)
  /\ SettleIfReserved(j)
  /\ status' = [status EXCEPT ![j] = "completed"]
  /\ Touch(j)
  /\ UNCHANGED <<claimed_by, claim_token, attempt_count, queued_before, files,
                 read_token, customerVars>>

\* The two outcomes of fail_takeoff_job
FailAttempt(j, retryable) ==
  /\ IF retryable /\ attempt_count[j] < MaxAttempts
     THEN /\ status' = [status EXCEPT ![j] = "queued"]
          /\ JoinQueue(j)
          /\ UNCHANGED creditVars
     ELSE /\ status' = [status EXCEPT ![j] = "failed"]
          /\ RefundIfUnsettled(j)
          /\ UNCHANGED queued_before
  /\ ClearClaim(j)
  /\ Touch(j)
  /\ UNCHANGED <<attempt_count, files, customerVars>>

\* fail_takeoff_job, called by the worker
FailJob(w, j, t, retryable) ==
  /\ OwnsClaim(w, j, t)
  /\ FailAttempt(j, retryable)
  /\ UNCHANGED read_token

-----------------------------------------------------------------------------
(* Time and the reconcile cron *)

\* 30 minutes pass without an update of the row.  One cron request is over
\* long before a row it read can become stale a second time.
GoStale(j) ==
  /\ status[j] = "processing"
  /\ read_token[j] = NoToken
  /\ ~stale[j]
  /\ stale' = [stale EXCEPT ![j] = TRUE]
  /\ UNCHANGED <<claimVars, creditVars, files, read_token, customerVars>>

\* The candidate query of the cron request
ReconcileRead(j) ==
  /\ status[j] = "processing"
  /\ stale[j]
  /\ read_token[j] = NoToken
  /\ read_token' = [read_token EXCEPT ![j] = claim_token[j]]
  /\ UNCHANGED <<claimVars, creditVars, files, stale, customerVars>>

\* What the cron read still holds, under the row lock.
ReadClaimCurrent(j) ==
  /\ status[j] = "processing"
  /\ claim_token[j] = read_token[j]
  /\ stale[j]

\* fail_takeoff_job, called by the cron with the claim it read.  exhausted was
\* computed from the row that was read, whose attempt number is its token.
ReconcileFail(j) ==
  /\ read_token[j] # NoToken
  /\ read_token' = [read_token EXCEPT ![j] = NoToken]
  /\ IF ReadClaimCurrent(j)
     THEN FailAttempt(j, read_token[j] < MaxAttempts)
     ELSE UNCHANGED <<claimVars, creditVars, files, stale, customerVars>>

\* expire_abandoned_takeoff_job of a verified takeoff nobody submitted
ExpireAbandoned(j) ==
  /\ status[j] = "ready"
  /\ reserved_credits[j] = 0
  /\ consumed_credits[j] = 0
  /\ status' = [status EXCEPT ![j] = "canceled"]
  /\ Touch(j)
  /\ UNCHANGED <<claimed_by, claim_token, attempt_count, queued_before,
                 creditVars, files, read_token, customerVars>>

-----------------------------------------------------------------------------
(* Admins: admin_resolve_takeoff and admin_set_profile_status *)

AdminApprove(j) ==
  /\ status[j] = "needs_review"
  /\ Deliverable(j)
  /\ IF reserved_credits[j] > 0 /\ consumed_credits[j] = 0
     THEN SettleCredits(j) ELSE UNCHANGED creditVars
  /\ status' = [status EXCEPT ![j] = "completed"]
  /\ Touch(j)
  /\ UNCHANGED <<claimed_by, claim_token, attempt_count, queued_before, files,
                 read_token, customerVars>>

\* attempt_count keeps its value.
AdminRequeue(j) ==
  /\ status[j] = "needs_review"
  /\ status' = [status EXCEPT ![j] = "queued"]
  /\ JoinQueue(j)
  /\ ClearClaim(j)
  /\ Touch(j)
  /\ UNCHANGED <<attempt_count, creditVars, files, read_token, customerVars>>

Cancelable(j) ==
  /\ status[j] \in {"ready", "queued", "processing", "needs_review"}
  /\ consumed_credits[j] = 0

AdminCancel(j) ==
  /\ Cancelable(j)
  /\ IF reserved_credits[j] > 0 THEN ReleaseCredits(j) ELSE UNCHANGED creditVars
  /\ status' = [status EXCEPT ![j] = "canceled"]
  /\ LeaveQueue(j)
  /\ ClearClaim(j)
  /\ Touch(j)
  /\ UNCHANGED <<attempt_count, files, read_token, customerVars>>

SetProfileStatus(u) ==
  /\ profile_status' = [profile_status EXCEPT ![u] =
                          IF @ = "active" THEN "suspended" ELSE "active"]
  /\ UNCHANGED <<claimVars, creditVars, files, cronVars, free_sample_used,
                 events>>

-----------------------------------------------------------------------------
Customer(j) == ReserveCredits(j) \/ QueueFreeSample(j) \/ RequestCorrection(j)

Worker(w) ==
  \/ ClaimNext(w)
  \/ \E j \in Jobs :
       \/ ClaimJob(w, j)
       \/ \E t \in 1..attempt_count[j] :
            \/ Progress(w, j, t)
            \/ Complete(w, j, t)
            \/ \E retryable \in BOOLEAN : FailJob(w, j, t, retryable)

Upload(j) ==
  \E t \in 1..attempt_count[j], a \in Artifacts : PublishArtifact(j, t, a)

Cron(j) == ReconcileRead(j) \/ ReconcileFail(j) \/ ExpireAbandoned(j)

Admin(j) == AdminApprove(j) \/ AdminRequeue(j) \/ AdminCancel(j)

Next ==
  \/ \E j \in Jobs : Customer(j) \/ Upload(j) \/ GoStale(j) \/ Cron(j) \/ Admin(j)
  \/ \E w \in Workers : Worker(w)
  \/ \E u \in Users : SetProfileStatus(u)

Spec == Init /\ [][Next]_vars

-----------------------------------------------------------------------------
(* Properties *)

\* Every column keeps its type.  What can go wrong is in the ranges: a balance
\* never goes below zero, attempt_count never passes max_attempts.
TypeOK ==
  /\ status \in [Jobs -> Status]
  /\ claimed_by \in [Jobs -> Workers \cup {NoWorker}]
  /\ claim_token \in [Jobs -> Nat]
  /\ attempt_count \in [Jobs -> 0..MaxAttempts]
  /\ queued_before \in SUBSET (Jobs \X Jobs)
  /\ reserved_credits \in [Jobs -> Nat]
  /\ consumed_credits \in [Jobs -> Nat]
  /\ ledger \in [Jobs -> SUBSET {"reservation", "settlement", "release"}]
  /\ balance \in [Users -> Nat]
  /\ lifetime_consumed \in [Users -> Nat]
  /\ files \in [Jobs -> SUBSET (Tokens \X Artifacts)]
  /\ stale \in [Jobs -> BOOLEAN]
  /\ read_token \in [Jobs -> Nat]
  /\ profile_status \in [Users -> {"active", "suspended"}]
  /\ free_sample_used \in [Users -> BOOLEAN]
  /\ events \in [Jobs -> SUBSET {"free_sample_queued", "correction_requested"}]

\* Every credit is where the ledger says: the balance of a customer and the
\* outstanding reservations add up to what the customer started with, and
\* lifetime_consumed is what the settled takeoffs cost.
LedgerBalances ==
  \A u \in Users :
    LET cost(S) == MapThenSumSet(LAMBDA j : Quote[j], {j \in S : Owner[j] = u})
    IN /\ balance[u] + cost({j \in Jobs : Outstanding(j)}) = OpeningCredits[u]
       /\ lifetime_consumed[u] = cost({j \in Jobs : "settlement" \in ledger[j]})

\* Credits are held exactly while work on them is owed: a reservation that is
\* neither settled nor released belongs to a takeoff in the queue or with a
\* worker, and a paid takeoff there holds its price unless it was delivered
\* before and is being corrected.
HeldWhileInFlight ==
  \A j \in Jobs :
    LET held == Outstanding(j) /\ "settlement" \notin ledger[j]
        inFlight == status[j] \in {"queued", "processing"}
    IN /\ held => inFlight
       /\ inFlight /\ Quote[j] > 0 /\ "correction_requested" \notin events[j]
            => held

\* A delivered takeoff has both artifacts from one and the same claim, and a
\* paid one is settled.
DeliveredIsCompleteAndPaid ==
  \A j \in Jobs :
    status[j] = "completed" =>
      /\ \E t \in 1..attempt_count[j] : \A a \in Artifacts : <<t, a>> \in files[j]
      /\ Quote[j] > 0 => "settlement" \in ledger[j]

\* A customer whose takeoff ends without ever being delivered pays nothing,
\* whatever the retries, the cron and the admins did.
UndeliveredIsRefunded ==
  \A j \in Jobs :
    /\ status[j] \in {"failed", "canceled"}
    /\ "correction_requested" \notin events[j]
    => ~Outstanding(j)

\* One free sample per customer, over every takeoff and retry.
OneFreeSample ==
  \A j, k \in Jobs :
    /\ Owner[j] = Owner[k]
    /\ "free_sample_queued" \in events[j]
    /\ "free_sample_queued" \in events[k]
    => j = k

\* The introductory price is charged once per customer, though several
\* takeoffs may have been quoted it before the first one was submitted.
OneFirstVerified ==
  \A j, k \in FirstVerified :
    Owner[j] = Owner[k] /\ Outstanding(j) /\ Outstanding(k) => j = k

\* The ledger rows of a takeoff, as a hold on its price
Hold(j) == IF "reservation" \notin ledger[j] THEN "none"
           ELSE IF "settlement" \in ledger[j] THEN "settled"
           ELSE IF "release" \in ledger[j] THEN "released"
           ELSE "held"

Credit == INSTANCE CreditHold WITH hold <- [j \in Jobs |-> Hold(j)],
                                   balance <- balance

\* What the credit RPCs do to a balance, through every retry, cron run and admin
\* decision, is taking, settling and releasing holds, each once (CreditHold).
CreditSpec == Credit!Spec

\* A takeoff that failed for good gave its credits back: "Reserved credits were
\* released." (the processing_failed event of fail_takeoff_job)
FailedMeansReleased ==
  \A j \in Jobs :
    status[j] = "failed" /\ reserved_credits[j] > 0 => "release" \in ledger[j]
=============================================================================
