--------------------------- MODULE Takeoff_proofs ---------------------------
(***************************************************************************)
(* Theorems about TakeoffJobs and TakeoffWorker, for every set of          *)
(* customers, takeoffs and workers, every price and every number of        *)
(* attempts: first the control plane by itself, then that the worker       *)
(* program implements it, so that what was proved of the control plane     *)
(* holds of the system with its workers, lost calls and crashes, and last  *)
(* what the workers deliver.                                               *)
(***************************************************************************)
EXTENDS TakeoffWorker, SetSums_proofs, TLAPS

-----------------------------------------------------------------------------
(* Types *)

CreditTypeOK ==
  /\ reserved_credits \in [Jobs -> Nat]
  /\ consumed_credits \in [Jobs -> Nat]
  /\ ledger \in [Jobs -> SUBSET {"reservation", "settlement", "release"}]
  /\ balance \in [Users -> Nat]
  /\ lifetime_consumed \in [Users -> Nat]

\* The credit columns keep their types when an RPC settles or releases.
LEMMA SettleTyped ==
  ASSUME TypeOK, NEW j \in Jobs, SettleCredits(j)
  PROVE  CreditTypeOK'
BY JobsAssumption
DEF JobsAssumption, TypeOK, CreditTypeOK, SettleCredits, creditVars

\* The same for a release, which returns the price to the balance.
LEMMA ReleaseTyped ==
  ASSUME TypeOK, NEW j \in Jobs, ReleaseCredits(j)
  PROVE  CreditTypeOK'
<1> USE JobsAssumption DEF JobsAssumption, TypeOK, CreditTypeOK
<1>1. CASE "release" \in ledger[j]
  BY <1>1 DEF ReleaseCredits, creditVars
<1>2. CASE "release" \notin ledger[j]
  <2>1. Owner[j] \in Users /\ balance[Owner[j]] + Quote[j] \in Nat
    OBVIOUS
  <2> QED
    BY <1>2, <2>1 DEF ReleaseCredits
<1> QED
  BY <1>1, <1>2

\* The same for a call that leaves the credits alone.
LEMMA KeepTyped ==
  ASSUME TypeOK, UNCHANGED creditVars
  PROVE  CreditTypeOK'
BY DEF TypeOK, CreditTypeOK, creditVars

\* Both callers of fail_takeoff_job, the worker and the cron, keep the types.
LEMMA FailAttemptTyped ==
  ASSUME TypeOK, NEW j \in Jobs, NEW r \in BOOLEAN, FailAttempt(j, r),
         read_token' \in [Jobs -> Nat]
  PROVE  TypeOK'
<1>1. CreditTypeOK'
  BY ReleaseTyped, KeepTyped DEF FailAttempt, RefundIfUnsettled
<1>2. (status \in [Jobs -> Status] /\ queued_before \in SUBSET (Jobs \X Jobs))'
  BY DEF FailAttempt, JoinQueue, TypeOK, Status
<1>3. (/\ claimed_by \in [Jobs -> Workers \cup {NoWorker}]
       /\ claim_token \in [Jobs -> Nat]
       /\ stale \in [Jobs -> BOOLEAN])'
  BY DEF FailAttempt, ClearClaim, Touch, TypeOK, NoToken
<1> QED
  BY <1>1, <1>2, <1>3 DEF FailAttempt, customerVars, TypeOK, CreditTypeOK

\* Every step of the control plane keeps the types.
LEMMA TypeStep == TypeOK /\ [Next]_vars => TypeOK'
<1> SUFFICES ASSUME TypeOK, [Next]_vars
             PROVE  TypeOK'
  OBVIOUS
<1> USE JobsAssumption DEF JobsAssumption, TypeOK, Status, NoToken, Tokens
<1>1. ASSUME NEW j \in Jobs,
             ReserveCredits(j)
      PROVE  TypeOK'
  BY <1>1 DEF ReserveCredits, JoinQueue, Touch, CanAfford, NotReserved,
      FirstVerifiedClaimed, Outstanding, customerVars
<1>2. ASSUME NEW j \in Jobs,
             QueueFreeSample(j)
      PROVE  TypeOK'
  BY <1>2 DEF QueueFreeSample, JoinQueue, Touch, SampleUnused, creditVars
<1>3. ASSUME NEW j \in Jobs,
             RequestCorrection(j)
      PROVE  TypeOK'
  BY <1>3 DEF RequestCorrection, Touch, creditVars
<1>4. ASSUME NEW j \in Jobs,
             NEW t \in 1..attempt_count[j],
             NEW a \in Artifacts,
             PublishArtifact(j, t, a)
      PROVE  TypeOK'
  BY <1>4 DEF PublishArtifact, claimVars, creditVars, cronVars, customerVars
<1>5. ASSUME NEW j \in Jobs,
             GoStale(j)
      PROVE  TypeOK'
  BY <1>5 DEF GoStale, claimVars, creditVars, customerVars
<1>6. ASSUME NEW j \in Jobs,
             ReconcileRead(j)
      PROVE  TypeOK'
  BY <1>6 DEF ReconcileRead, claimVars, creditVars, customerVars
<1>7. ASSUME NEW j \in Jobs,
             ReconcileFail(j)
      PROVE  TypeOK'
  <2>1. read_token' \in [Jobs -> Nat]
    BY <1>7 DEF ReconcileFail
  <2>2. CASE ReadClaimCurrent(j)
    <3>1. FailAttempt(j, read_token[j] < MaxAttempts)
      BY <1>7, <2>2 DEF ReconcileFail
    <3>2. (read_token[j] < MaxAttempts) \in BOOLEAN
      OBVIOUS
    <3> QED
      BY <2>1, <3>1, <3>2, FailAttemptTyped, Zenon
  <2>3. CASE ~ReadClaimCurrent(j)
    BY <1>7, <2>1, <2>3
    DEF ReconcileFail, claimVars, creditVars, customerVars
  <2> QED
    BY <2>2, <2>3
<1>8. ASSUME NEW j \in Jobs,
             ExpireAbandoned(j)
      PROVE  TypeOK'
  BY <1>8 DEF ExpireAbandoned, Touch, creditVars, customerVars
<1>9. ASSUME NEW j \in Jobs,
             AdminApprove(j)
      PROVE  TypeOK'
  <2>1. CreditTypeOK'
    BY <1>9, SettleTyped, KeepTyped DEF AdminApprove
  <2> QED
    BY <1>9, <2>1 DEF AdminApprove, CreditTypeOK, Touch, customerVars
<1>10. ASSUME NEW j \in Jobs,
             AdminRequeue(j)
      PROVE  TypeOK'
  BY <1>10 DEF AdminRequeue, JoinQueue, ClearClaim, Touch, creditVars,
      customerVars
<1>11. ASSUME NEW j \in Jobs,
             AdminCancel(j)
      PROVE  TypeOK'
  <2>1. CreditTypeOK'
    BY <1>11, ReleaseTyped, KeepTyped DEF AdminCancel
  <2> QED
    BY <1>11, <2>1
    DEF AdminCancel, CreditTypeOK, LeaveQueue, ClearClaim, Touch, customerVars
<1>12. ASSUME NEW w \in Workers, NEW j \in Jobs,
             ClaimJob(w, j)
      PROVE  TypeOK'
  BY <1>12 DEF ClaimJob, Claimable, LeaveQueue, Touch, creditVars,
      customerVars
<1>13. ASSUME NEW w \in Workers,
             NEW j \in Jobs,
             NEW t \in 1..attempt_count[j],
             Progress(w, j, t)
      PROVE  TypeOK'
  BY <1>13 DEF Progress, Touch, claimVars, creditVars, customerVars
<1>14. ASSUME NEW w \in Workers,
             NEW j \in Jobs,
             NEW t \in 1..attempt_count[j],
             Complete(w, j, t)
      PROVE  TypeOK'
  <2>1. CreditTypeOK'
    BY <1>14, SettleTyped, KeepTyped DEF Complete, SettleIfReserved
  <2> QED
    BY <1>14, <2>1 DEF Complete, CreditTypeOK, Touch, customerVars
<1>15. ASSUME NEW w \in Workers,
             NEW j \in Jobs,
             NEW t \in 1..attempt_count[j],
             NEW r \in BOOLEAN,
             FailJob(w, j, t, r)
      PROVE  TypeOK'
  <2>1. read_token' \in [Jobs -> Nat]
    BY <1>15 DEF FailJob
  <2> QED
    BY <1>15, <2>1, FailAttemptTyped DEF FailJob
<1>16. ASSUME NEW u \in Users,
             SetProfileStatus(u)
      PROVE  TypeOK'
  BY <1>16 DEF SetProfileStatus, claimVars, creditVars, cronVars
<1>17. CASE UNCHANGED vars
  BY <1>17 DEF vars, claimVars, creditVars, cronVars, customerVars
<1> QED
  BY <1>1, <1>2, <1>3, <1>4, <1>5, <1>6, <1>7, <1>8, <1>9, <1>10, <1>11,
     <1>12, <1>13, <1>14, <1>15, <1>16, <1>17
  DEF Next, Customer, Worker, Upload, Cron, Admin, ClaimNext

\* Every column of the modelled tables keeps its type.  Beyond typing, this is
\* the overdraft check (balance >= 0) of credit_accounts and attempt_count
\* never passing max_attempts, whatever the callers send.
THEOREM TypeCorrect == Spec => []TypeOK
<1>1. Init => TypeOK
  BY JobsAssumption DEF JobsAssumption, Init, TypeOK, Status, NoToken
<1> QED
  BY <1>1, TypeStep, PTL DEF Spec

-----------------------------------------------------------------------------
(* Credits *)

\* The columns of a takeoff row agree with its ledger rows.
LedgerInv ==
  \A j \in Jobs :
    /\ reserved_credits[j] = IF "reservation" \in ledger[j] THEN Quote[j] ELSE 0
    /\ consumed_credits[j] = IF "settlement" \in ledger[j] THEN Quote[j] ELSE 0
    /\ "reservation" \in ledger[j] => Quote[j] > 0
    /\ ledger[j] # {} => "reservation" \in ledger[j]
    /\ ~({"settlement", "release"} \subseteq ledger[j])

\* What the ledger of a paid takeoff holds in each status.  The events tell a
\* takeoff on its way to a first delivery from one that is being corrected.
StageInv ==
  \A j \in Jobs :
    LET corrected == "correction_requested" \in events[j] IN
    /\ status[j] = "ready" => ledger[j] = {} /\ ~corrected
    /\ status[j] = "needs_review" => corrected
    /\ corrected /\ Quote[j] > 0 => "settlement" \in ledger[j]
    /\ status[j] = "completed" /\ Quote[j] > 0 => "settlement" \in ledger[j]
    /\ status[j] \in {"queued", "processing"} /\ ~corrected /\ Quote[j] > 0
         => ledger[j] = {"reservation"}
    /\ status[j] \in {"failed", "canceled"} /\ ~corrected
         => ~Outstanding(j)

CreditInv == TypeOK /\ LedgerInv /\ StageInv

\* Both callers of fail_takeoff_job keep the credit invariant.
LEMMA FailAttemptCredits ==
  ASSUME TypeOK, LedgerInv, StageInv, NEW j \in Jobs, NEW r \in BOOLEAN,
         status[j] = "processing", FailAttempt(j, r)
  PROVE  (LedgerInv /\ StageInv)'
BY JobsAssumption
DEF JobsAssumption, TypeOK, Status, LedgerInv, StageInv, Outstanding,
    FailAttempt, RefundIfUnsettled, ReleaseCredits, creditVars, customerVars

\* The cron keeps the credit invariant, with a claim it read that is current or
\* one that is not.
LEMMA ReconcileFailCredits ==
  ASSUME TypeOK, LedgerInv, StageInv, NEW j \in Jobs, ReconcileFail(j)
  PROVE  (LedgerInv /\ StageInv)'
<1>1. CASE ReadClaimCurrent(j)
  <2>1. status[j] = "processing"
    BY <1>1 DEF ReadClaimCurrent
  <2>2. FailAttempt(j, read_token[j] < MaxAttempts)
    BY <1>1 DEF ReconcileFail
  <2>3. (read_token[j] < MaxAttempts) \in BOOLEAN
    OBVIOUS
  <2> QED
    BY <2>1, <2>2, <2>3, FailAttemptCredits, Zenon
<1>2. CASE ~ReadClaimCurrent(j)
  BY <1>2
  DEF ReconcileFail, claimVars, creditVars, customerVars, TypeOK, LedgerInv,
      StageInv, Outstanding
<1> QED
  BY <1>1, <1>2

\* Every step keeps the rows and the ledger in agreement.
LEMMA CreditStep == TypeOK /\ LedgerInv /\ StageInv /\ [Next]_vars => (LedgerInv /\ StageInv)'
<1> SUFFICES ASSUME TypeOK, LedgerInv, StageInv, [Next]_vars
             PROVE  (LedgerInv /\ StageInv)'
  OBVIOUS
<1> USE JobsAssumption
    DEF JobsAssumption, TypeOK, LedgerInv, StageInv, Outstanding, Status
<1>1. ASSUME NEW j \in Jobs,
             ReserveCredits(j)
      PROVE  (LedgerInv /\ StageInv)'
  BY <1>1 DEF ReserveCredits, NotReserved, customerVars
<1>2. ASSUME NEW j \in Jobs,
             QueueFreeSample(j)
      PROVE  (LedgerInv /\ StageInv)'
  BY <1>2 DEF QueueFreeSample, creditVars
<1>3. ASSUME NEW j \in Jobs,
             RequestCorrection(j)
      PROVE  (LedgerInv /\ StageInv)'
  BY <1>3 DEF RequestCorrection, creditVars
<1>4. ASSUME NEW j \in Jobs,
             NEW t \in 1..attempt_count[j],
             NEW a \in Artifacts,
             PublishArtifact(j, t, a)
      PROVE  (LedgerInv /\ StageInv)'
  BY <1>4 DEF PublishArtifact, claimVars, creditVars, cronVars, customerVars
<1>5. ASSUME NEW j \in Jobs,
             GoStale(j)
      PROVE  (LedgerInv /\ StageInv)'
  BY <1>5 DEF GoStale, claimVars, creditVars, customerVars
<1>6. ASSUME NEW j \in Jobs,
             ReconcileRead(j)
      PROVE  (LedgerInv /\ StageInv)'
  BY <1>6 DEF ReconcileRead, claimVars, creditVars, customerVars
<1>7. ASSUME NEW j \in Jobs,
             ReconcileFail(j)
      PROVE  (LedgerInv /\ StageInv)'
  BY <1>7, ReconcileFailCredits
<1>8. ASSUME NEW j \in Jobs,
             ExpireAbandoned(j)
      PROVE  (LedgerInv /\ StageInv)'
  BY <1>8 DEF ExpireAbandoned, creditVars, customerVars
<1>9. ASSUME NEW j \in Jobs,
             AdminApprove(j)
      PROVE  (LedgerInv /\ StageInv)'
  BY <1>9 DEF AdminApprove, SettleCredits, creditVars, customerVars
<1>10. ASSUME NEW j \in Jobs,
             AdminRequeue(j)
      PROVE  (LedgerInv /\ StageInv)'
  BY <1>10 DEF AdminRequeue, creditVars, customerVars
<1>11. ASSUME NEW j \in Jobs,
             AdminCancel(j)
      PROVE  (LedgerInv /\ StageInv)'
  BY <1>11 DEF AdminCancel, Cancelable, ReleaseCredits, creditVars,
      customerVars
<1>12. ASSUME NEW w \in Workers, NEW j \in Jobs,
             ClaimJob(w, j)
      PROVE  (LedgerInv /\ StageInv)'
  BY <1>12 DEF ClaimJob, Claimable, creditVars, customerVars
<1>13. ASSUME NEW w \in Workers,
             NEW j \in Jobs,
             NEW t \in 1..attempt_count[j],
             Progress(w, j, t)
      PROVE  (LedgerInv /\ StageInv)'
  BY <1>13 DEF Progress, claimVars, creditVars, customerVars
<1>14. ASSUME NEW w \in Workers,
             NEW j \in Jobs,
             NEW t \in 1..attempt_count[j],
             Complete(w, j, t)
      PROVE  (LedgerInv /\ StageInv)'
  BY <1>14 DEF Complete, OwnsClaim, SettleIfReserved, SettleCredits,
      creditVars, customerVars
<1>15. ASSUME NEW w \in Workers,
             NEW j \in Jobs,
             NEW t \in 1..attempt_count[j],
             NEW r \in BOOLEAN,
             FailJob(w, j, t, r)
      PROVE  (LedgerInv /\ StageInv)'
  BY <1>15, FailAttemptCredits DEF FailJob, OwnsClaim
<1>16. ASSUME NEW u \in Users,
             SetProfileStatus(u)
      PROVE  (LedgerInv /\ StageInv)'
  BY <1>16 DEF SetProfileStatus, claimVars, creditVars, cronVars
<1>17. CASE UNCHANGED vars
  BY <1>17 DEF vars, claimVars, creditVars, cronVars, customerVars
<1> QED
  BY <1>1, <1>2, <1>3, <1>4, <1>5, <1>6, <1>7, <1>8, <1>9, <1>10, <1>11,
     <1>12, <1>13, <1>14, <1>15, <1>16, <1>17
  DEF Next, Customer, Worker, Upload, Cron, Admin, ClaimNext

\* The invariant that carries the credit properties: a status change and the
\* ledger entry it owes are one step, for every order of retries, cron runs,
\* corrections and admin decisions.
THEOREM CreditInvariant == Spec => []CreditInv
<1>1. Init => CreditInv
  BY JobsAssumption
  DEF JobsAssumption, Init, CreditInv, TypeOK, LedgerInv, StageInv, Outstanding,
      Status, NoToken
<1> QED
  BY <1>1, CreditStep, TypeCorrect, PTL DEF Spec, CreditInv

\* Credits are held exactly while a takeoff is in the queue or with a worker.
THEOREM HeldWhileInFlightHolds == Spec => []HeldWhileInFlight
<1>1. CreditInv => HeldWhileInFlight
  BY DEF CreditInv, TypeOK, Status, LedgerInv, StageInv, HeldWhileInFlight,
         Outstanding
<1> QED
  BY <1>1, CreditInvariant, PTL

\* A takeoff that ends undelivered costs its customer nothing.
THEOREM UndeliveredIsRefundedHolds == Spec => []UndeliveredIsRefunded
<1>1. CreditInv => UndeliveredIsRefunded
  BY DEF CreditInv, StageInv, UndeliveredIsRefunded
<1> QED
  BY <1>1, CreditInvariant, PTL

-----------------------------------------------------------------------------
(* Exclusive offers and deliveries *)

\* The introductory price and the free sample are claimed by one takeoff each;
\* the sample through free_sample_used_at of the profile.
OfferInv ==
  /\ OneFirstVerified
  /\ OneFreeSample
  /\ \A j \in Jobs :
       "free_sample_queued" \in events[j] => free_sample_used[Owner[j]]

\* The current claim is one that was made, and the files of a delivered
\* takeoff are those of the claim it was delivered under.
DeliveryInv ==
  \A j \in Jobs :
    /\ claim_token[j] \in 0..attempt_count[j]
    /\ status[j] = "processing" => claim_token[j] # NoToken
    /\ status[j] = "completed" => Deliverable(j)

\* Every step keeps the two offers exclusive.
LEMMA OfferStep == TypeOK /\ OfferInv /\ [Next]_vars => OfferInv'
<1> SUFFICES ASSUME TypeOK, OfferInv, [Next]_vars
             PROVE  OfferInv'
  OBVIOUS
<1> USE JobsAssumption
    DEF JobsAssumption, TypeOK, OfferInv, OneFirstVerified, OneFreeSample,
        Outstanding
<1>1. ASSUME NEW j \in Jobs,
             ReserveCredits(j)
      PROVE  OfferInv'
  BY <1>1 DEF ReserveCredits, NotReserved, FirstVerifiedClaimed,
      customerVars
<1>2. ASSUME NEW j \in Jobs,
             QueueFreeSample(j)
      PROVE  OfferInv'
  BY <1>2 DEF QueueFreeSample, SampleUnused, creditVars
<1>3. ASSUME NEW j \in Jobs,
             RequestCorrection(j)
      PROVE  OfferInv'
  BY <1>3 DEF RequestCorrection, creditVars
<1>4. ASSUME NEW j \in Jobs,
             NEW t \in 1..attempt_count[j],
             NEW a \in Artifacts,
             PublishArtifact(j, t, a)
      PROVE  OfferInv'
  BY <1>4 DEF PublishArtifact, claimVars, creditVars, cronVars, customerVars
<1>5. ASSUME NEW j \in Jobs,
             GoStale(j)
      PROVE  OfferInv'
  BY <1>5 DEF GoStale, claimVars, creditVars, customerVars
<1>6. ASSUME NEW j \in Jobs,
             ReconcileRead(j)
      PROVE  OfferInv'
  BY <1>6 DEF ReconcileRead, claimVars, creditVars, customerVars
<1>7. ASSUME NEW j \in Jobs,
             ReconcileFail(j)
      PROVE  OfferInv'
  <2>1. CASE ReadClaimCurrent(j)
    <3>1. FailAttempt(j, read_token[j] < MaxAttempts)
      BY <1>7, <2>1 DEF ReconcileFail
    <3>2. UNCHANGED customerVars
      BY <3>1 DEF FailAttempt
    <3>3. \/ ledger' = ledger
          \/ ledger' = [ledger EXCEPT ![j] = @ \cup {"release"}]
      BY <3>1 DEF FailAttempt, RefundIfUnsettled, ReleaseCredits, creditVars
    <3> QED
      BY <3>2, <3>3 DEF customerVars
  <2>2. CASE ~ReadClaimCurrent(j)
    BY <1>7, <2>2 DEF ReconcileFail, creditVars, customerVars
  <2> QED
    BY <2>1, <2>2
<1>8. ASSUME NEW j \in Jobs,
             ExpireAbandoned(j)
      PROVE  OfferInv'
  BY <1>8 DEF ExpireAbandoned, creditVars, customerVars
<1>9. ASSUME NEW j \in Jobs,
             AdminApprove(j)
      PROVE  OfferInv'
  BY <1>9 DEF AdminApprove, SettleCredits, creditVars, customerVars
<1>10. ASSUME NEW j \in Jobs,
             AdminRequeue(j)
      PROVE  OfferInv'
  BY <1>10 DEF AdminRequeue, creditVars, customerVars
<1>11. ASSUME NEW j \in Jobs,
             AdminCancel(j)
      PROVE  OfferInv'
  BY <1>11 DEF AdminCancel, Cancelable, ReleaseCredits, creditVars,
      customerVars
<1>12. ASSUME NEW w \in Workers, NEW j \in Jobs,
             ClaimJob(w, j)
      PROVE  OfferInv'
  BY <1>12 DEF ClaimJob, creditVars, customerVars
<1>13. ASSUME NEW w \in Workers,
             NEW j \in Jobs,
             NEW t \in 1..attempt_count[j],
             Progress(w, j, t)
      PROVE  OfferInv'
  BY <1>13 DEF Progress, claimVars, creditVars, customerVars
<1>14. ASSUME NEW w \in Workers,
             NEW j \in Jobs,
             NEW t \in 1..attempt_count[j],
             Complete(w, j, t)
      PROVE  OfferInv'
  BY <1>14 DEF Complete, SettleIfReserved, SettleCredits, creditVars,
      customerVars
<1>15. ASSUME NEW w \in Workers,
             NEW j \in Jobs,
             NEW t \in 1..attempt_count[j],
             NEW r \in BOOLEAN,
             FailJob(w, j, t, r)
      PROVE  OfferInv'
  BY <1>15 DEF FailJob, FailAttempt, RefundIfUnsettled, ReleaseCredits,
      creditVars, customerVars
<1>16. ASSUME NEW u \in Users,
             SetProfileStatus(u)
      PROVE  OfferInv'
  BY <1>16 DEF SetProfileStatus, claimVars, creditVars, cronVars
<1>17. CASE UNCHANGED vars
  BY <1>17 DEF vars, claimVars, creditVars, cronVars, customerVars
<1> QED
  BY <1>1, <1>2, <1>3, <1>4, <1>5, <1>6, <1>7, <1>8, <1>9, <1>10, <1>11,
     <1>12, <1>13, <1>14, <1>15, <1>16, <1>17
  DEF Next, Customer, Worker, Upload, Cron, Admin, ClaimNext

\* The introductory price and the free sample go to one takeoff each, though
\* several takeoffs of the customer were quoted them.
THEOREM OfferInvariant == Spec => []OfferInv
<1>1. Init => OfferInv
  BY JobsAssumption
  DEF JobsAssumption, Init, OfferInv, OneFirstVerified, OneFreeSample, Outstanding
<1> QED
  BY <1>1, OfferStep, TypeCorrect, PTL DEF Spec

\* Every step keeps the claims and the delivered files in order.
LEMMA DeliveryStep == TypeOK /\ DeliveryInv /\ [Next]_vars => DeliveryInv'
<1> SUFFICES ASSUME TypeOK, DeliveryInv, [Next]_vars
             PROVE  DeliveryInv'
  OBVIOUS
<1> USE JobsAssumption
    DEF JobsAssumption, TypeOK, DeliveryInv, Deliverable, Status, NoToken
<1>1. ASSUME NEW j \in Jobs,
             ReserveCredits(j)
      PROVE  DeliveryInv'
  BY <1>1 DEF ReserveCredits, customerVars
<1>2. ASSUME NEW j \in Jobs,
             QueueFreeSample(j)
      PROVE  DeliveryInv'
  BY <1>2 DEF QueueFreeSample, creditVars
<1>3. ASSUME NEW j \in Jobs,
             RequestCorrection(j)
      PROVE  DeliveryInv'
  BY <1>3 DEF RequestCorrection, creditVars
<1>4. ASSUME NEW j \in Jobs,
             NEW t \in 1..attempt_count[j],
             NEW a \in Artifacts,
             PublishArtifact(j, t, a)
      PROVE  DeliveryInv'
  BY <1>4 DEF PublishArtifact, claimVars, creditVars, cronVars, customerVars
<1>5. ASSUME NEW j \in Jobs,
             GoStale(j)
      PROVE  DeliveryInv'
  BY <1>5 DEF GoStale, claimVars, creditVars, customerVars
<1>6. ASSUME NEW j \in Jobs,
             ReconcileRead(j)
      PROVE  DeliveryInv'
  BY <1>6 DEF ReconcileRead, claimVars, creditVars, customerVars
<1>7. ASSUME NEW j \in Jobs,
             ReconcileFail(j)
      PROVE  DeliveryInv'
  <2>1. CASE ReadClaimCurrent(j)
    BY <1>7, <2>1 DEF ReconcileFail, FailAttempt, ClearClaim
  <2>2. CASE ~ReadClaimCurrent(j)
    BY <1>7, <2>2 DEF ReconcileFail, claimVars
  <2> QED
    BY <2>1, <2>2
<1>8. ASSUME NEW j \in Jobs,
             ExpireAbandoned(j)
      PROVE  DeliveryInv'
  BY <1>8 DEF ExpireAbandoned, creditVars, customerVars
<1>9. ASSUME NEW j \in Jobs,
             AdminApprove(j)
      PROVE  DeliveryInv'
  BY <1>9 DEF AdminApprove, creditVars, customerVars
<1>10. ASSUME NEW j \in Jobs,
             AdminRequeue(j)
      PROVE  DeliveryInv'
  BY <1>10 DEF AdminRequeue, ClearClaim, creditVars, customerVars
<1>11. ASSUME NEW j \in Jobs,
             AdminCancel(j)
      PROVE  DeliveryInv'
  BY <1>11 DEF AdminCancel, Cancelable, ClearClaim, creditVars, customerVars
<1>12. ASSUME NEW w \in Workers, NEW j \in Jobs,
             ClaimJob(w, j)
      PROVE  DeliveryInv'
  BY <1>12 DEF ClaimJob, Claimable, creditVars, customerVars
<1>13. ASSUME NEW w \in Workers,
             NEW j \in Jobs,
             NEW t \in 1..attempt_count[j],
             Progress(w, j, t)
      PROVE  DeliveryInv'
  BY <1>13 DEF Progress, claimVars, creditVars, customerVars
<1>14. ASSUME NEW w \in Workers,
             NEW j \in Jobs,
             NEW t \in 1..attempt_count[j],
             Complete(w, j, t)
      PROVE  DeliveryInv'
  BY <1>14 DEF Complete, OwnsClaim, creditVars, customerVars
<1>15. ASSUME NEW w \in Workers,
             NEW j \in Jobs,
             NEW t \in 1..attempt_count[j],
             NEW r \in BOOLEAN,
             FailJob(w, j, t, r)
      PROVE  DeliveryInv'
  BY <1>15 DEF FailJob, FailAttempt, ClearClaim
<1>16. ASSUME NEW u \in Users,
             SetProfileStatus(u)
      PROVE  DeliveryInv'
  BY <1>16 DEF SetProfileStatus, claimVars, creditVars, cronVars
<1>17. CASE UNCHANGED vars
  BY <1>17 DEF vars, claimVars, creditVars, cronVars, customerVars
<1> QED
  BY <1>1, <1>2, <1>3, <1>4, <1>5, <1>6, <1>7, <1>8, <1>9, <1>10, <1>11,
     <1>12, <1>13, <1>14, <1>15, <1>16, <1>17
  DEF Next, Customer, Worker, Upload, Cron, Admin, ClaimNext

\* A delivered takeoff keeps both files of the claim it was delivered under.
THEOREM DeliveryInvariant == Spec => []DeliveryInv
<1>1. Init => DeliveryInv
  BY JobsAssumption DEF JobsAssumption, Init, DeliveryInv, NoToken
<1> QED
  BY <1>1, DeliveryStep, TypeCorrect, PTL DEF Spec

\* What a customer can download as delivered is one attempt's work, and paid.
THEOREM DeliveredIsCompleteAndPaidHolds == Spec => []DeliveredIsCompleteAndPaid
<1>1. CreditInv /\ DeliveryInv => DeliveredIsCompleteAndPaid
  BY DEF CreditInv, TypeOK, StageInv, DeliveryInv, Deliverable,
         DeliveredIsCompleteAndPaid, NoToken
<1> QED
  BY <1>1, CreditInvariant, DeliveryInvariant, PTL

\* A customer is charged the introductory price for one takeoff.
THEOREM OneFirstVerifiedHolds == Spec => []OneFirstVerified
<1>1. OfferInv => OneFirstVerified
  BY DEF OfferInv
<1> QED
  BY <1>1, OfferInvariant, PTL

\* A customer gets one free sample, whatever is submitted and retried.
THEOREM OneFreeSampleHolds == Spec => []OneFreeSample
<1>1. OfferInv => OneFreeSample
  BY DEF OfferInv
<1> QED
  BY <1>1, OfferInvariant, PTL

-----------------------------------------------------------------------------
(* TakeoffJobs implements CreditHold *)

\* A step that leaves the ledger and the balances alone is a stutter of the
\* abstract specification.
LEMMA CreditStutter ==
  ASSUME UNCHANGED <<ledger, balance>>
  PROVE  UNCHANGED Credit!vars
BY DEF Credit!vars, Hold

\* settle_takeoff_credits settles a hold, or, called again, changes nothing.
LEMMA SettleRefines ==
  ASSUME TypeOK, LedgerInv, NEW j \in Jobs, SettleCredits(j)
  PROVE  Credit!Settle(j) \/ UNCHANGED Credit!vars
<1>1. CASE "settlement" \in ledger[j]
  BY <1>1, CreditStutter DEF SettleCredits, creditVars
<1>2. CASE "settlement" \notin ledger[j]
  <2>1. /\ ledger' = [ledger EXCEPT ![j] = @ \cup {"settlement"}]
        /\ balance' = balance
        /\ Hold(j) = "held"
    BY <1>2 DEF SettleCredits, Hold
  <2>2. [k \in Jobs |-> Hold(k)]' =
          [[k \in Jobs |-> Hold(k)] EXCEPT ![j] = "settled"]
    BY <2>1, <1>2 DEF TypeOK, Hold, SettleCredits
  <2> QED
    BY <2>1, <2>2 DEF Credit!Settle
<1> QED
  BY <1>1, <1>2

\* release_takeoff_credits releases a hold, or, called again, changes nothing.
LEMMA ReleaseRefines ==
  ASSUME TypeOK, LedgerInv, NEW j \in Jobs, ReleaseCredits(j)
  PROVE  Credit!Release(j) \/ UNCHANGED Credit!vars
<1>1. CASE "release" \in ledger[j]
  BY <1>1, CreditStutter DEF ReleaseCredits, creditVars
<1>2. CASE "release" \notin ledger[j]
  <2>1. /\ ledger' = [ledger EXCEPT ![j] = @ \cup {"release"}]
        /\ balance' = [balance EXCEPT ![Owner[j]] = @ + Quote[j]]
        /\ Hold(j) = "held"
    BY <1>2 DEF ReleaseCredits, Hold
  <2>2. [k \in Jobs |-> Hold(k)]' =
          [[k \in Jobs |-> Hold(k)] EXCEPT ![j] = "released"]
    BY <2>1, <1>2 DEF TypeOK, Hold, ReleaseCredits
  <2> QED
    BY <2>1, <2>2 DEF Credit!Release
<1> QED
  BY <1>1, <1>2

\* reserve_takeoff_credits takes a hold.
LEMMA ReserveRefines ==
  ASSUME TypeOK, LedgerInv, NEW j \in Jobs, ReserveCredits(j)
  PROVE  Credit!Take(j)
<1>1. /\ ledger[j] = {}
      /\ ledger' = [ledger EXCEPT ![j] = @ \cup {"reservation"}]
      /\ balance' = [balance EXCEPT ![Owner[j]] = @ - Quote[j]]
      /\ balance[Owner[j]] >= Quote[j]
  BY DEF ReserveCredits, NotReserved, CanAfford, LedgerInv
<1>2. Hold(j) = "none"
  BY <1>1 DEF Hold
<1>3. [k \in Jobs |-> Hold(k)]' =
        [[k \in Jobs |-> Hold(k)] EXCEPT ![j] = "held"]
  BY <1>1 DEF TypeOK, Hold
<1> QED
  BY <1>1, <1>2, <1>3 DEF Credit!Take

\* What the credit RPCs do to a customer's balance, whatever happens to the
\* takeoff, is taking a hold, settling it or releasing it, each once.
THEOREM ImplementsCreditHold == Spec => CreditSpec
<1>1. Init => Credit!Init
  BY DEF Init, Credit!Init, Hold
<1>2. TypeOK /\ LedgerInv /\ [Next]_vars => [Credit!Next]_(Credit!vars)
  <2> SUFFICES ASSUME TypeOK, LedgerInv, [Next]_vars
               PROVE  Credit!Next \/ UNCHANGED Credit!vars
    OBVIOUS
  <2>1. ASSUME NEW j \in Jobs,
               ReserveCredits(j)
        PROVE  Credit!Next \/ UNCHANGED Credit!vars
    BY <2>1, ReserveRefines DEF Credit!Next
  <2>2. ASSUME NEW j \in Jobs,
               QueueFreeSample(j)
        PROVE  Credit!Next \/ UNCHANGED Credit!vars
    BY <2>2, CreditStutter DEF QueueFreeSample, claimVars, creditVars, cronVars, customerVars
  <2>3. ASSUME NEW j \in Jobs,
               RequestCorrection(j)
        PROVE  Credit!Next \/ UNCHANGED Credit!vars
    BY <2>3, CreditStutter DEF RequestCorrection, claimVars, creditVars, cronVars, customerVars
  <2>4. ASSUME NEW j \in Jobs,
               NEW t \in 1..attempt_count[j],
               NEW a \in Artifacts,
               PublishArtifact(j, t, a)
        PROVE  Credit!Next \/ UNCHANGED Credit!vars
    BY <2>4, CreditStutter DEF PublishArtifact, claimVars, creditVars, cronVars, customerVars
  <2>5. ASSUME NEW j \in Jobs,
               GoStale(j)
        PROVE  Credit!Next \/ UNCHANGED Credit!vars
    BY <2>5, CreditStutter DEF GoStale, claimVars, creditVars, cronVars, customerVars
  <2>6. ASSUME NEW j \in Jobs,
               ReconcileRead(j)
        PROVE  Credit!Next \/ UNCHANGED Credit!vars
    BY <2>6, CreditStutter DEF ReconcileRead, claimVars, creditVars, cronVars, customerVars
  <2>7. ASSUME NEW j \in Jobs,
               ReconcileFail(j)
        PROVE  Credit!Next \/ UNCHANGED Credit!vars
    BY <2>7, ReleaseRefines, CreditStutter
    DEF ReconcileFail, FailAttempt, RefundIfUnsettled, creditVars, Credit!Next
  <2>8. ASSUME NEW j \in Jobs,
               ExpireAbandoned(j)
        PROVE  Credit!Next \/ UNCHANGED Credit!vars
    BY <2>8, CreditStutter DEF ExpireAbandoned, claimVars, creditVars, cronVars, customerVars
  <2>9. ASSUME NEW j \in Jobs,
               AdminApprove(j)
        PROVE  Credit!Next \/ UNCHANGED Credit!vars
    BY <2>9, SettleRefines, CreditStutter
    DEF AdminApprove, creditVars, Credit!Next
  <2>10. ASSUME NEW j \in Jobs,
               AdminRequeue(j)
        PROVE  Credit!Next \/ UNCHANGED Credit!vars
    BY <2>10, CreditStutter DEF AdminRequeue, claimVars, creditVars, cronVars, customerVars
  <2>11. ASSUME NEW j \in Jobs,
               AdminCancel(j)
        PROVE  Credit!Next \/ UNCHANGED Credit!vars
    BY <2>11, ReleaseRefines, CreditStutter
    DEF AdminCancel, creditVars, Credit!Next
  <2>12. ASSUME NEW w \in Workers, NEW j \in Jobs,
               ClaimJob(w, j)
        PROVE  Credit!Next \/ UNCHANGED Credit!vars
    BY <2>12, CreditStutter DEF ClaimJob, claimVars, creditVars, cronVars, customerVars
  <2>13. ASSUME NEW w \in Workers,
               NEW j \in Jobs,
               NEW t \in 1..attempt_count[j],
               Progress(w, j, t)
        PROVE  Credit!Next \/ UNCHANGED Credit!vars
    BY <2>13, CreditStutter DEF Progress, claimVars, creditVars, cronVars, customerVars
  <2>14. ASSUME NEW w \in Workers,
               NEW j \in Jobs,
               NEW t \in 1..attempt_count[j],
               Complete(w, j, t)
        PROVE  Credit!Next \/ UNCHANGED Credit!vars
    BY <2>14, SettleRefines, CreditStutter
    DEF Complete, SettleIfReserved, creditVars, Credit!Next
  <2>15. ASSUME NEW w \in Workers,
               NEW j \in Jobs,
               NEW t \in 1..attempt_count[j],
               NEW r \in BOOLEAN,
               FailJob(w, j, t, r)
        PROVE  Credit!Next \/ UNCHANGED Credit!vars
    BY <2>15, ReleaseRefines, CreditStutter
    DEF FailJob, FailAttempt, RefundIfUnsettled, creditVars, Credit!Next
  <2>16. ASSUME NEW u \in Users,
               SetProfileStatus(u)
        PROVE  Credit!Next \/ UNCHANGED Credit!vars
    BY <2>16, CreditStutter DEF SetProfileStatus, claimVars, creditVars, cronVars, customerVars
  <2>17. CASE UNCHANGED vars
    BY <2>17, CreditStutter DEF vars, creditVars
  <2> QED
    BY <2>1, <2>2, <2>3, <2>4, <2>5, <2>6, <2>7, <2>8, <2>9, <2>10, <2>11,
       <2>12, <2>13, <2>14, <2>15, <2>16, <2>17
    DEF Next, Customer, Worker, Upload, Cron, Admin, ClaimNext
<1> QED
  BY <1>1, <1>2, CreditInvariant, PTL DEF Spec, CreditSpec, Credit!Spec, CreditInv

-----------------------------------------------------------------------------
(* The ledger adds up *)

OwnedBy(u, S) == {j \in S : Owner[j] = u}
HeldJobs == {j \in Jobs : Outstanding(j)}
SettledJobs == {j \in Jobs : "settlement" \in ledger[j]}

\* LedgerBalances, with the sums by name
SumsInv ==
  \A u \in Users :
    /\ balance[u] + SumOf(Quote, OwnedBy(u, HeldJobs)) = OpeningCredits[u]
    /\ lifetime_consumed[u] = SumOf(Quote, OwnedBy(u, SettledJobs))

\* What the three credit RPCs do to the ledger, the balance and the total, when
\* they do anything.
Takes(j) ==
  /\ ledger[j] = {}
  /\ ledger' = [ledger EXCEPT ![j] = @ \cup {"reservation"}]
  /\ balance[Owner[j]] >= Quote[j]
  /\ balance' = [balance EXCEPT ![Owner[j]] = @ - Quote[j]]
  /\ UNCHANGED lifetime_consumed

Settles(j) ==
  /\ "settlement" \notin ledger[j]
  /\ ledger' = [ledger EXCEPT ![j] = @ \cup {"settlement"}]
  /\ lifetime_consumed' = [lifetime_consumed EXCEPT ![Owner[j]] = @ + Quote[j]]
  /\ UNCHANGED balance

Releases(j) ==
  /\ Outstanding(j)
  /\ ledger' = [ledger EXCEPT ![j] = @ \cup {"release"}]
  /\ balance' = [balance EXCEPT ![Owner[j]] = @ + Quote[j]]
  /\ UNCHANGED lifetime_consumed

MovesCredits ==
  \/ UNCHANGED <<ledger, balance, lifetime_consumed>>
  \/ \E j \in Jobs : Takes(j) \/ Settles(j) \/ Releases(j)

\* settle_takeoff_credits settles once or changes nothing.
LEMMA SettleMoves ==
  ASSUME NEW j \in Jobs, SettleCredits(j)
  PROVE  MovesCredits
BY DEF SettleCredits, Settles, MovesCredits, creditVars

\* release_takeoff_credits gives back an outstanding reservation or changes
\* nothing.
LEMMA ReleaseMoves ==
  ASSUME NEW j \in Jobs, ReleaseCredits(j)
  PROVE  MovesCredits
BY DEF ReleaseCredits, Releases, Outstanding, MovesCredits, creditVars

\* Every step of the control plane moves credits in one of these ways.
LEMMA EveryStepMoves == TypeOK /\ LedgerInv /\ [Next]_vars => MovesCredits
<1> SUFFICES ASSUME TypeOK, LedgerInv, [Next]_vars
             PROVE  MovesCredits
  OBVIOUS
<1>0. ASSUME UNCHANGED creditVars
      PROVE  MovesCredits
  BY <1>0 DEF MovesCredits, creditVars
<1>1. ASSUME NEW j \in Jobs,
             ReserveCredits(j)
      PROVE  MovesCredits
  BY <1>1
  DEF ReserveCredits, NotReserved, CanAfford, LedgerInv, Takes, MovesCredits
<1>2. ASSUME NEW j \in Jobs,
             QueueFreeSample(j)
      PROVE  MovesCredits
  BY <1>0, <1>2 DEF QueueFreeSample
<1>3. ASSUME NEW j \in Jobs,
             RequestCorrection(j)
      PROVE  MovesCredits
  BY <1>0, <1>3 DEF RequestCorrection
<1>4. ASSUME NEW j \in Jobs,
             NEW t \in 1..attempt_count[j],
             NEW a \in Artifacts,
             PublishArtifact(j, t, a)
      PROVE  MovesCredits
  BY <1>0, <1>4 DEF PublishArtifact
<1>5. ASSUME NEW j \in Jobs,
             GoStale(j)
      PROVE  MovesCredits
  BY <1>0, <1>5 DEF GoStale
<1>6. ASSUME NEW j \in Jobs,
             ReconcileRead(j)
      PROVE  MovesCredits
  BY <1>0, <1>6 DEF ReconcileRead
<1>7. ASSUME NEW j \in Jobs,
             ReconcileFail(j)
      PROVE  MovesCredits
  BY <1>0, <1>7, ReleaseMoves
  DEF ReconcileFail, FailAttempt, RefundIfUnsettled
<1>8. ASSUME NEW j \in Jobs,
             ExpireAbandoned(j)
      PROVE  MovesCredits
  BY <1>0, <1>8 DEF ExpireAbandoned
<1>9. ASSUME NEW j \in Jobs,
             AdminApprove(j)
      PROVE  MovesCredits
  BY <1>0, <1>9, SettleMoves DEF AdminApprove
<1>10. ASSUME NEW j \in Jobs,
             AdminRequeue(j)
      PROVE  MovesCredits
  BY <1>0, <1>10 DEF AdminRequeue
<1>11. ASSUME NEW j \in Jobs,
             AdminCancel(j)
      PROVE  MovesCredits
  BY <1>0, <1>11, ReleaseMoves DEF AdminCancel
<1>12. ASSUME NEW w \in Workers, NEW j \in Jobs,
             ClaimJob(w, j)
      PROVE  MovesCredits
  BY <1>0, <1>12 DEF ClaimJob
<1>13. ASSUME NEW w \in Workers,
             NEW j \in Jobs,
             NEW t \in 1..attempt_count[j],
             Progress(w, j, t)
      PROVE  MovesCredits
  BY <1>0, <1>13 DEF Progress
<1>14. ASSUME NEW w \in Workers,
             NEW j \in Jobs,
             NEW t \in 1..attempt_count[j],
             Complete(w, j, t)
      PROVE  MovesCredits
  BY <1>0, <1>14, SettleMoves DEF Complete, SettleIfReserved
<1>15. ASSUME NEW w \in Workers,
             NEW j \in Jobs,
             NEW t \in 1..attempt_count[j],
             NEW r \in BOOLEAN,
             FailJob(w, j, t, r)
      PROVE  MovesCredits
  BY <1>0, <1>15, ReleaseMoves DEF FailJob, FailAttempt, RefundIfUnsettled
<1>16. ASSUME NEW u \in Users,
             SetProfileStatus(u)
      PROVE  MovesCredits
  BY <1>0, <1>16 DEF SetProfileStatus
<1>17. CASE UNCHANGED vars
  BY <1>0, <1>17 DEF vars
<1> QED
  BY <1>1, <1>2, <1>3, <1>4, <1>5, <1>6, <1>7, <1>8, <1>9, <1>10, <1>11,
     <1>12, <1>13, <1>14, <1>15, <1>16, <1>17
  DEF Next, Customer, Worker, Upload, Cron, Admin, ClaimNext

\* A takeoff that joins a set adds its quote to the sum of its owner and to no
\* other; one that leaves takes it away.
LEMMA SumOfOwner ==
  ASSUME IsFiniteSet(Jobs), NEW S \in SUBSET Jobs, NEW j \in Jobs, j \notin S,
         NEW u \in Users
  PROVE  /\ SumOf(Quote, OwnedBy(u, S)) \in Nat
         /\ SumOf(Quote, OwnedBy(u, S \cup {j})) =
              SumOf(Quote, OwnedBy(u, S)) + IF Owner[j] = u THEN Quote[j] ELSE 0
<1>1. OwnedBy(u, S) \in SUBSET Jobs /\ IsFiniteSet(OwnedBy(u, S))
  BY FS_Subset DEF OwnedBy
<1>2. Quote \in [Jobs -> Nat]
  BY JobsAssumption DEF JobsAssumption
<1>3. SumOf(Quote, OwnedBy(u, S)) \in Nat
  BY <1>1, <1>2, SumOfType
<1>4. CASE Owner[j] = u
  <2>1. OwnedBy(u, S \cup {j}) = OwnedBy(u, S) \cup {j} /\ j \notin OwnedBy(u, S)
    BY <1>4 DEF OwnedBy
  <2>2. SumOf(Quote, OwnedBy(u, S) \cup {j}) = Quote[j] + SumOf(Quote, OwnedBy(u, S))
    BY <1>1, <1>2, <2>1, SumOfAdd
  <2>3. SumOf(Quote, OwnedBy(u, S \cup {j})) = Quote[j] + SumOf(Quote, OwnedBy(u, S))
    BY <2>1, <2>2, Zenon
  <2>4. Quote[j] \in Nat
    BY <1>2
  <2> HIDE DEF OwnedBy, SumOf
  <2> QED
    BY <1>3, <1>4, <2>3, <2>4
<1>5. CASE Owner[j] # u
  <2>1. OwnedBy(u, S \cup {j}) = OwnedBy(u, S)
    BY <1>5 DEF OwnedBy
  <2> QED
    BY <1>3, <1>5, <2>1
<1> QED
  BY <1>4, <1>5

\* Each way of moving credits keeps the sums.
LEMMA MovesKeepSums ==
  ASSUME IsFiniteSet(Jobs), TypeOK, LedgerInv, SumsInv, MovesCredits
  PROVE  SumsInv'
<1>1. CASE UNCHANGED <<ledger, balance, lifetime_consumed>>
  BY <1>1 DEF SumsInv, HeldJobs, SettledJobs, Outstanding
<1>2. ASSUME NEW j \in Jobs, Takes(j)
      PROVE  SumsInv'
  <2>1. /\ HeldJobs' = HeldJobs \cup {j}
        /\ SettledJobs' = SettledJobs
        /\ HeldJobs \in SUBSET Jobs /\ j \notin HeldJobs
    BY <1>2 DEF Takes, HeldJobs, SettledJobs, Outstanding, TypeOK
  <2> SUFFICES ASSUME NEW u \in Users
               PROVE  /\ balance'[u] + SumOf(Quote, OwnedBy(u, HeldJobs')) = OpeningCredits[u]
                      /\ lifetime_consumed'[u] = SumOf(Quote, OwnedBy(u, SettledJobs'))
    BY DEF SumsInv
  <2>2. /\ SumOf(Quote, OwnedBy(u, HeldJobs)) \in Nat
        /\ SumOf(Quote, OwnedBy(u, HeldJobs')) =
             SumOf(Quote, OwnedBy(u, HeldJobs)) + IF Owner[j] = u THEN Quote[j] ELSE 0
    BY <2>1, SumOfOwner
  <2>3. balance'[u] = balance[u] - IF Owner[j] = u THEN Quote[j] ELSE 0
    BY <1>2, JobsAssumption DEF JobsAssumption, Takes, TypeOK
  <2>4. /\ balance[u] \in Nat /\ Quote[j] \in Nat
        /\ balance[u] + SumOf(Quote, OwnedBy(u, HeldJobs)) = OpeningCredits[u]
        /\ lifetime_consumed[u] = SumOf(Quote, OwnedBy(u, SettledJobs))
    BY JobsAssumption DEF JobsAssumption, TypeOK, SumsInv
  <2>5. balance'[u] + SumOf(Quote, OwnedBy(u, HeldJobs')) = OpeningCredits[u]
    BY <2>2, <2>3, <2>4
  <2>6. lifetime_consumed'[u] = SumOf(Quote, OwnedBy(u, SettledJobs'))
    BY <1>2, <2>1, <2>4 DEF Takes
  <2> QED
    BY <2>5, <2>6
<1>3. ASSUME NEW j \in Jobs, Settles(j)
      PROVE  SumsInv'
  <2>1. /\ SettledJobs' = SettledJobs \cup {j}
        /\ HeldJobs' = HeldJobs
        /\ SettledJobs \in SUBSET Jobs /\ j \notin SettledJobs
    BY <1>3 DEF Settles, HeldJobs, SettledJobs, Outstanding, TypeOK
  <2> SUFFICES ASSUME NEW u \in Users
               PROVE  /\ balance'[u] + SumOf(Quote, OwnedBy(u, HeldJobs')) = OpeningCredits[u]
                      /\ lifetime_consumed'[u] = SumOf(Quote, OwnedBy(u, SettledJobs'))
    BY DEF SumsInv
  <2>2. /\ SumOf(Quote, OwnedBy(u, SettledJobs)) \in Nat
        /\ SumOf(Quote, OwnedBy(u, SettledJobs')) =
             SumOf(Quote, OwnedBy(u, SettledJobs)) + IF Owner[j] = u THEN Quote[j] ELSE 0
    BY <2>1, SumOfOwner
  <2>3. lifetime_consumed'[u] = lifetime_consumed[u] + IF Owner[j] = u THEN Quote[j] ELSE 0
    BY <1>3, JobsAssumption DEF JobsAssumption, Settles, TypeOK
  <2> QED
    BY <1>3, <2>1, <2>2, <2>3 DEF Settles, SumsInv
<1>4. ASSUME NEW j \in Jobs, Releases(j)
      PROVE  SumsInv'
  <2>1. /\ HeldJobs = HeldJobs' \cup {j}
        /\ SettledJobs' = SettledJobs
        /\ HeldJobs' \in SUBSET Jobs /\ j \notin HeldJobs'
    BY <1>4 DEF Releases, HeldJobs, SettledJobs, Outstanding, TypeOK
  <2> SUFFICES ASSUME NEW u \in Users
               PROVE  /\ balance'[u] + SumOf(Quote, OwnedBy(u, HeldJobs')) = OpeningCredits[u]
                      /\ lifetime_consumed'[u] = SumOf(Quote, OwnedBy(u, SettledJobs'))
    BY DEF SumsInv
  <2>2. /\ SumOf(Quote, OwnedBy(u, HeldJobs')) \in Nat
        /\ SumOf(Quote, OwnedBy(u, HeldJobs)) =
             SumOf(Quote, OwnedBy(u, HeldJobs')) + IF Owner[j] = u THEN Quote[j] ELSE 0
    BY <2>1, SumOfOwner
  <2>3. balance'[u] = balance[u] + IF Owner[j] = u THEN Quote[j] ELSE 0
    BY <1>4, JobsAssumption DEF JobsAssumption, Releases, TypeOK
  <2>4. /\ balance[u] \in Nat /\ Quote[j] \in Nat
        /\ balance[u] + SumOf(Quote, OwnedBy(u, HeldJobs)) = OpeningCredits[u]
        /\ lifetime_consumed[u] = SumOf(Quote, OwnedBy(u, SettledJobs))
    BY JobsAssumption DEF JobsAssumption, TypeOK, SumsInv
  <2>5. balance'[u] + SumOf(Quote, OwnedBy(u, HeldJobs')) = OpeningCredits[u]
    BY <2>2, <2>3, <2>4
  <2>6. lifetime_consumed'[u] = SumOf(Quote, OwnedBy(u, SettledJobs'))
    BY <1>4, <2>1, <2>4 DEF Releases
  <2> QED
    BY <2>5, <2>6
<1> QED
  BY <1>1, <1>2, <1>3, <1>4 DEF MovesCredits

\* Every credit is where the ledger says, for every number of customers and
\* takeoffs: balances and outstanding reservations add up to what the customers
\* started with, and lifetime_consumed to what was settled.
THEOREM LedgerBalancesHolds == IsFiniteSet(Jobs) => (Spec => []LedgerBalances)
<1> SUFFICES ASSUME IsFiniteSet(Jobs)
             PROVE  Spec => []LedgerBalances
  OBVIOUS
<1>1. Init => SumsInv
  <2> SUFFICES ASSUME Init, NEW u \in Users
               PROVE  /\ balance[u] + SumOf(Quote, OwnedBy(u, HeldJobs)) = OpeningCredits[u]
                      /\ lifetime_consumed[u] = SumOf(Quote, OwnedBy(u, SettledJobs))
    BY DEF SumsInv
  <2>1. OwnedBy(u, HeldJobs) = {} /\ OwnedBy(u, SettledJobs) = {}
    BY DEF Init, OwnedBy, HeldJobs, SettledJobs, Outstanding
  <2>2. balance[u] = OpeningCredits[u] /\ lifetime_consumed[u] = 0
        /\ OpeningCredits[u] \in Nat
    BY JobsAssumption DEF JobsAssumption, Init
  <2> QED
    BY <2>1, <2>2, SumOfEmpty
<1>2. TypeOK /\ LedgerInv /\ SumsInv /\ [Next]_vars => SumsInv'
  BY EveryStepMoves, MovesKeepSums
<1>3. SumsInv => LedgerBalances
  BY DEF SumsInv, LedgerBalances, SumOf, OwnedBy, HeldJobs, SettledJobs
<1> QED
  BY <1>1, <1>2, <1>3, CreditInvariant, PTL DEF Spec, CreditInv

-----------------------------------------------------------------------------
(* The steps of the workers are steps of the control plane *)

\* A worker past its claim has a takeoff in hand.
HandInv ==
  \A w \in Workers :
    worker[w].pc \notin {"poll", "down"} => worker[w].job \in Jobs

\* A row that is still to be inserted belongs to a claim that was made.
InsertInv ==
  \A j \in Jobs, t \in 1..MaxAttempts, a \in Artifacts :
    <<j, t, a>> \in inserting => t <= attempt_count[j]

\* A call in flight names a worker and a takeoff.
LateInv ==
  \A call \in late :
    /\ call.op \in {"next", "claim", "complete", "fail", "put"}
    /\ call.op # "put" => call.worker \in Workers
    /\ call.op \in {"claim", "complete", "fail"} => call.job \in Jobs
    /\ call.op = "fail" => call.retryable \in BOOLEAN

Locals == [pc : PC, job : Jobs \cup {NoJob}, token : Nat, run : Nat,
           todo : SUBSET Artifacts, putFailed : BOOLEAN, retryable : BOOLEAN]

WorkerRecords == worker \in [Workers -> Locals]

RunInv == execution \in [Jobs -> Nat] /\ runs \in [Jobs -> Nat]

\* What the refinement rests on
CallInv == /\ TypeOK /\ DeliveryInv
           /\ WorkerRecords /\ HandInv /\ InsertInv /\ LateInv /\ RunInv

-----------------------------------------------------------------------------
(* Calls of the worker endpoints are steps of TakeoffJobs. *)

\* The claim a worker owns is one of those Next lets it call with.
LEMMA OwnedToken ==
  ASSUME CallInv, NEW w, NEW j \in Jobs, NEW t, OwnsClaim(w, j, t)
  PROVE  t \in 1..attempt_count[j]
BY DEF CallInv, TypeOK, DeliveryInv, OwnsClaim, NoToken

\* GET next and POST claim
LEMMA ClaimCalls ==
  ASSUME NEW w \in Workers, NEW j \in Jobs, ClaimNext(w) \/ ClaimJob(w, j)
  PROVE  Next
BY DEF Next, Worker

\* POST progress, POST complete and POST fail, of the claim that owns the row
LEMMA OwnerCalls ==
  ASSUME CallInv, NEW w \in Workers, NEW j \in Jobs, NEW t,
         NEW retryable \in BOOLEAN,
         \/ Progress(w, j, t)
         \/ Complete(w, j, t)
         \/ FailJob(w, j, t, retryable)
  PROVE  Next
<1>1. OwnsClaim(w, j, t)
  BY DEF Progress, Complete, FailJob
<1>2. t \in 1..attempt_count[j]
  BY <1>1, OwnedToken
<1>3. Worker(w)
  BY <1>2 DEF Worker
<1> QED
  BY <1>3 DEF Next

\* A heartbeat of a worker with a takeoff in hand
LEMMA BeatCall ==
  ASSUME CallInv, NEW w \in Workers, worker[w].job \in Jobs, Beat(w)
  PROVE  [Next]_vars
<1>1. CASE stale[worker[w].job]
  <2>1. Progress(w, worker[w].job, worker[w].token)
    BY <1>1 DEF Beat
  <2>2. TRUE \in BOOLEAN
    OBVIOUS
  <2> QED
    BY <2>1, <2>2, OwnerCalls
<1>2. CASE ~stale[worker[w].job]
  BY <1>2 DEF Beat
<1> QED
  BY <1>1, <1>2

\* The insert of a finalize request
LEMMA InsertCall ==
  ASSUME CallInv, NEW j \in Jobs, NEW t \in 1..MaxAttempts, NEW a \in Artifacts,
         InsertRow(j, t, a)
  PROVE  [Next]_vars
<1>1. CASE Registered(j, t, a)
  BY <1>1 DEF InsertRow
<1>2. CASE ~Registered(j, t, a)
  <2>1. PublishArtifact(j, t, a) /\ t \in 1..attempt_count[j]
    BY <1>2 DEF InsertRow, CallInv, InsertInv, TypeOK
  <2> QED
    BY <2>1 DEF Next, Upload
<1> QED
  BY <1>1, <1>2

-----------------------------------------------------------------------------
(* Every step *)

\* A step of a worker is a call it makes, or local.
LEMMA StepMaps ==
  ASSUME CallInv, NEW w \in Workers, Step(w)
  PROVE  [Next]_vars
<1> USE DEF HandInv, At
<1>1. HandInv
  BY DEF CallInv
<1>2. ASSUME Poll(w) PROVE [Next]_vars
  BY <1>2, ClaimCalls DEF Poll
<1>3. ASSUME Acknowledge(w) PROVE [Next]_vars
  <2>1. worker[w].job \in Jobs
    BY <1>1, <1>3 DEF Acknowledge
  <2> QED
    BY <1>3, <2>1, ClaimCalls DEF Acknowledge, AcknowledgeHeld
<1>4. ASSUME Begin(w) \/ Prepare(w) PROVE [Next]_vars
  BY <1>1, <1>4, BeatCall DEF Begin, Prepare
<1>5. ASSUME Finalize(w) PROVE [Next]_vars
  BY <1>1, <1>5, BeatCall DEF Finalize
<1>6. ASSUME Deliver(w) PROVE [Next]_vars
  <2>1. worker[w].job \in Jobs
    BY <1>1, <1>6 DEF Deliver
  <2>2. TRUE \in BOOLEAN
    OBVIOUS
  <2> QED
    BY <1>6, <2>1, <2>2, OwnerCalls DEF Deliver
<1>7. ASSUME Report(w) PROVE [Next]_vars
  <2>1. worker[w].job \in Jobs /\ worker[w].retryable \in BOOLEAN
    BY <1>1, <1>7 DEF Report, CallInv, WorkerRecords, Locals
  <2> QED
    BY <1>7, <2>1, OwnerCalls DEF Report
<1>8. ASSUME Submit(w) \/ Deadline(w) \/ ClaimGone(w) \/ ExecutionGone(w)
               \/ RowsAnswered(w) \/ Cleanup(w)
               \/ \E a \in Artifacts : Upload1(w, a)
      PROVE  UNCHANGED vars
  BY <1>8 DEF Submit, Deadline, ClaimGone, ExecutionGone, RowsAnswered, Cleanup,
              Upload1
<1> QED
  BY <1>2, <1>3, <1>4, <1>5, <1>6, <1>7, <1>8 DEF Step

\* A call that lands late is a call.
LEMMA LandMaps ==
  ASSUME CallInv, NEW call \in late, Land(call)
  PROVE  [Next]_vars
<1>1. CASE call.op = "put"
  BY <1>1 DEF Land
<1>2. CASE call.op # "put"
  <2>1. call.worker \in Workers
    BY <1>2 DEF CallInv, LateInv
  <2>2. CASE call.op = "next"
    BY <1>2, <2>1, <2>2 DEF Land, Next, Worker
  <2>3. CASE call.op # "next"
    <3>1. call.job \in Jobs
      BY <1>2, <2>3 DEF CallInv, LateInv
    <3>2. CASE call.op = "claim"
      BY <1>2, <2>1, <3>1, <3>2, ClaimCalls DEF Land
    <3>3. CASE call.op = "complete"
      <4>1. Complete(call.worker, call.job, call.token) /\ TRUE \in BOOLEAN
        BY <1>2, <3>3 DEF Land
      <4> QED
        BY <2>1, <3>1, <4>1, OwnerCalls
    <3>4. CASE call.op = "fail"
      <4>1. FailJob(call.worker, call.job, call.token, call.retryable)
        BY <1>2, <3>4 DEF Land
      <4>2. call.retryable \in BOOLEAN
        BY <3>4 DEF CallInv, LateInv
      <4> QED
        BY <2>1, <3>1, <4>1, <4>2, OwnerCalls
    <3> QED
      BY <1>2, <2>3, <3>2, <3>3, <3>4 DEF CallInv, LateInv
  <2> QED
    BY <2>2, <2>3
<1> QED
  BY <1>1, <1>2

\* Every step of the system with its workers is a step of the control plane or
\* leaves it alone.
LEMMA WorkerNextMaps ==
  ASSUME CallInv, [WorkerNext]_allVars
  PROVE  [Next]_vars
<1>1. ASSUME NEW w \in Workers, Heartbeat(w)
      PROVE  [Next]_vars
  <2>1. worker[w].job \in Jobs
    BY <1>1 DEF Heartbeat, At, CallInv, HandInv
  <2> QED
    BY <1>1, <2>1, BeatCall DEF Heartbeat
<1>2. ASSUME NEW w \in Workers, Processor(w)
      PROVE  [Next]_vars
  <2>1. CASE RunCompleted(w)
    <3>1. worker[w].job \in Jobs
      BY <2>1 DEF RunCompleted, At, CallInv, HandInv
    <3> QED
      BY <2>1, <3>1, BeatCall DEF RunCompleted
  <2>2. CASE RunFailed(w) \/ Refused(w)
    BY <2>2 DEF RunFailed, Refused
  <2> QED
    BY <1>2, <2>1, <2>2 DEF Processor
<1>3. ASSUME NEW w \in Workers, Trouble(w) \/ Restart(w)
      PROVE  UNCHANGED vars
  BY <1>3 DEF Trouble, Restart, LoseClaimCall, LoseSubmission, LoseCall,
              LoseReport, LoseCleanup, Crash, LosePut
<1>4. ASSUME Handler
      PROVE  [Next]_vars
  BY <1>4, InsertCall DEF Handler, HandlerDies
<1>5. ASSUME NEW j \in Jobs, SweepExecution(j)
      PROVE  UNCHANGED vars
  BY <1>5 DEF SweepExecution
<1>6. ASSUME NEW call \in late, Land(call) \/ Drop(call)
      PROVE  [Next]_vars
  BY <1>6, LandMaps DEF Drop
<1>7. ASSUME Others
      PROVE  Next
  BY <1>7 DEF Others, Next
<1>8. CASE UNCHANGED allVars
  BY <1>8 DEF allVars
<1> QED
  BY <1>1, <1>2, <1>3, <1>4, <1>5, <1>6, <1>7, <1>8, StepMaps DEF WorkerNext

-----------------------------------------------------------------------------
(* The invariant *)

\* A claim is never undone in the count of attempts.
LEMMA AttemptsGrow ==
  ASSUME TypeOK, [Next]_vars, NEW k \in Jobs
  PROVE  attempt_count[k] <= attempt_count'[k]
<1> USE DEF TypeOK
<1>1. ASSUME NEW j \in Jobs, Customer(j)
      PROVE  UNCHANGED attempt_count
  BY <1>1 DEF Customer, ReserveCredits, QueueFreeSample, RequestCorrection
<1>2. ASSUME NEW j \in Jobs, Upload(j) \/ GoStale(j)
      PROVE  UNCHANGED attempt_count
  BY <1>2 DEF Upload, PublishArtifact, GoStale, claimVars
<1>3. ASSUME NEW j \in Jobs, Cron(j)
      PROVE  UNCHANGED attempt_count
  BY <1>3 DEF Cron, ReconcileRead, ReconcileFail, FailAttempt, ExpireAbandoned,
              claimVars
<1>4. ASSUME NEW j \in Jobs, Admin(j)
      PROVE  UNCHANGED attempt_count
  BY <1>4 DEF Admin, AdminApprove, AdminRequeue, AdminCancel
<1>5. ASSUME NEW w \in Workers, NEW j \in Jobs, ClaimJob(w, j)
      PROVE  attempt_count[k] <= attempt_count'[k]
  BY <1>5 DEF ClaimJob
<1>6. ASSUME NEW w \in Workers, Worker(w)
      PROVE  attempt_count[k] <= attempt_count'[k]
  BY <1>5, <1>6 DEF Worker, ClaimNext, Progress, Complete, FailJob, FailAttempt,
                    claimVars
<1>7. ASSUME NEW u \in Users, SetProfileStatus(u)
      PROVE  UNCHANGED attempt_count
  BY <1>7 DEF SetProfileStatus, claimVars
<1>8. CASE UNCHANGED vars
  BY <1>8 DEF vars, claimVars
<1> QED
  BY <1>1, <1>2, <1>3, <1>4, <1>6, <1>7, <1>8 DEF Next

\* A worker whose locals are replaced by others that fit
LEMMA BecomeKeeps ==
  ASSUME CallInv, NEW w \in Workers, NEW r \in Locals, Become(w, r),
         r.pc \notin {"poll", "down"} => r.job \in Jobs
  PROVE  (WorkerRecords /\ HandInv)'
BY DEF CallInv, WorkerRecords, HandInv, Become

\* A worker that goes on with the takeoff it has in hand
LEMMA GotoKeeps ==
  ASSUME CallInv, NEW w \in Workers, NEW pc \in PC, Goto(w, pc),
         worker[w].pc \notin {"poll", "down"}
  PROVE  (WorkerRecords /\ HandInv)'
<1> DEFINE r == [worker[w] EXCEPT !.pc = pc]
<1>1. r \in Locals /\ r.job = worker[w].job
  BY DEF CallInv, WorkerRecords, Locals
<1>2. worker[w].job \in Jobs
  BY DEF CallInv, HandInv
<1>3. Become(w, r)
  BY DEF Goto
<1> QED
  BY <1>1, <1>2, <1>3, BecomeKeeps

\* A worker that got an exception
LEMMA ThrowKeeps ==
  ASSUME CallInv, NEW w \in Workers, NEW retryable \in BOOLEAN,
         Throw(w, retryable), worker[w].pc \notin {"poll", "down"}
  PROVE  (WorkerRecords /\ HandInv)'
<1> DEFINE r == [worker[w] EXCEPT !.pc = "report", !.retryable = retryable]
<1>1. r \in Locals /\ r.job = worker[w].job
  BY DEF CallInv, WorkerRecords, Locals, PC
<1>2. worker[w].job \in Jobs
  BY DEF CallInv, HandInv
<1>3. Become(w, r)
  BY DEF Throw
<1> QED
  BY <1>1, <1>2, <1>3, BecomeKeeps

\* A worker that is done, or gone
LEMMA IdleKeeps ==
  ASSUME CallInv, NEW w \in Workers, NEW pc \in {"poll", "down"},
         Become(w, AtPC(pc))
  PROVE  (WorkerRecords /\ HandInv)'
<1>1. AtPC(pc) \in Locals /\ AtPC(pc).pc = pc
  BY DEF AtPC, Locals, PC, NoToken, NoRun
<1> QED
  BY <1>1, BecomeKeeps

\* The steps of a worker keep its locals in order.
LEMMA StepLocals ==
  ASSUME CallInv, [Next]_vars, NEW w \in Workers, Step(w)
  PROVE  (WorkerRecords /\ HandInv)'
<1>1. worker[w] \in Locals
  BY DEF CallInv, WorkerRecords
<1>2. worker[w].pc \notin {"poll", "down"} => worker[w].job \in Jobs
  BY DEF CallInv, HandInv
<1>3. claim_token' \in [Jobs -> Nat]
  BY TypeStep DEF CallInv, TypeOK
<1>4. CASE Poll(w)
  <2>1. PICK j \in Jobs : Become(w, [AtPC("acknowledge") EXCEPT !.job = j])
    BY <1>4 DEF Poll
  <2>2. [AtPC("acknowledge") EXCEPT !.job = j] \in Locals
    BY DEF AtPC, Locals, PC, NoToken, NoRun
  <2>3. [AtPC("acknowledge") EXCEPT !.job = j].job = j
    BY DEF AtPC
  <2> QED
    BY <2>1, <2>2, <2>3, BecomeKeeps
<1>5. CASE Acknowledge(w)
  <2> DEFINE r == [worker[w] EXCEPT !.pc = "begin",
                                    !.token = claim_token'[worker[w].job]]
  <2>1. CASE Become(w, r)
    <3>1. worker[w].job \in Jobs
      BY <1>2, <1>5 DEF Acknowledge, At
    <3>2. r \in Locals /\ r.job \in Jobs
      BY <1>1, <1>3, <3>1 DEF Locals, PC
    <3> QED
      BY <2>1, <3>2, BecomeKeeps
  <2>2. CASE Become(w, AtPC("poll"))
    BY <2>2, IdleKeeps
  <2> QED
    BY <1>5, <2>1, <2>2 DEF Acknowledge
<1>6. CASE Begin(w)
  BY <1>6, GotoKeeps DEF Begin, At, PC
<1>7. CASE Submit(w)
  <2> DEFINE j == worker[w].job
             n == IF execution[j] = NoRun THEN runs[j] + 1 ELSE execution[j]
             r == [worker[w] EXCEPT !.pc = "wait", !.run = n]
  <2>1. worker[w].job \in Jobs
    BY <1>2, <1>7 DEF Submit, At
  <2>2. n \in Nat
    BY <2>1 DEF CallInv, RunInv, NoRun
  <2>3. r \in Locals /\ r.job \in Jobs
    BY <1>1, <2>1, <2>2 DEF Locals, PC
  <2>4. Become(w, r)
    BY <1>7 DEF Submit
  <2> QED
    BY <2>3, <2>4, BecomeKeeps
<1>8. CASE Deadline(w) \/ ClaimGone(w) \/ ExecutionGone(w)
  BY <1>8, ThrowKeeps DEF Deadline, ClaimGone, ExecutionGone, At
<1>9. CASE Prepare(w)
  <2> DEFINE r == [worker[w] EXCEPT !.pc = "upload",
                                    !.todo = {a \in Artifacts :
                       Stored(worker[w].job, worker[w].token, a) = {}}]
  <2>1. CASE Throw(w, FALSE)
    BY <1>9, <2>1, ThrowKeeps DEF Prepare, At
  <2>2. CASE Become(w, r)
    <3>1. r \in Locals /\ r.job = worker[w].job
      BY <1>1 DEF Locals, PC
    <3>2. worker[w].job \in Jobs
      BY <1>2, <1>9 DEF Prepare, At
    <3> QED
      BY <2>2, <3>1, <3>2, BecomeKeeps
  <2> QED
    BY <1>9, <2>1, <2>2 DEF Prepare
<1>10. CASE \E a \in Artifacts : Upload1(w, a)
  <2>1. PICK a \in Artifacts : Upload1(w, a)
    BY <1>10
  <2> DEFINE failed == worker[w].putFailed \/
                         Stored(worker[w].job, worker[w].token, a) # {}
             r == [worker[w] EXCEPT !.todo = @ \ {a}, !.putFailed = failed]
  <2>2. failed \in BOOLEAN
    BY <1>1, Zenon DEF Locals
  <2> HIDE DEF failed
  <2>3. r \in Locals /\ r.job = worker[w].job
    BY <1>1, <2>2 DEF Locals
  <2>4. worker[w].job \in Jobs
    BY <1>2, <2>1 DEF Upload1, At
  <2>5. Become(w, r)
    BY <2>1, Zenon DEF Upload1, failed
  <2> QED
    BY <2>3, <2>4, <2>5, BecomeKeeps
<1>11. CASE Finalize(w)
  <2>1. worker[w].putFailed \in BOOLEAN
    BY <1>1 DEF Locals
  <2> QED
    BY <1>11, <2>1, GotoKeeps, ThrowKeeps DEF Finalize, At, PC
<1>12. CASE RowsAnswered(w)
  BY <1>12, GotoKeeps, ThrowKeeps DEF RowsAnswered, At, PC
<1>13. CASE Deliver(w) \/ Report(w)
  BY <1>13, GotoKeeps DEF Deliver, Report, At, PC
<1>14. CASE Cleanup(w)
  BY <1>14, IdleKeeps DEF Cleanup
<1> QED
  BY <1>4, <1>5, <1>6, <1>7, <1>8, <1>9, <1>10, <1>11, <1>12, <1>13, <1>14 DEF Step

\* So do the faults.
LEMMA TroubleLocals ==
  ASSUME CallInv, NEW w \in Workers, Trouble(w)
  PROVE  (WorkerRecords /\ HandInv)'
<1>1. worker[w] \in Locals
  BY DEF CallInv, WorkerRecords
<1>2. CASE LoseClaimCall(w) \/ LoseCleanup(w) \/ Crash(w)
  BY <1>2, IdleKeeps DEF LoseClaimCall, LoseCleanup, Crash
<1>3. CASE LoseSubmission(w) \/ LoseCall(w)
  BY <1>3, ThrowKeeps DEF LoseSubmission, LoseCall, At
<1>4. CASE LoseReport(w)
  BY <1>4, GotoKeeps DEF LoseReport, At, PC
<1>5. CASE \E a \in Artifacts : LosePut(w, a)
  <2>1. PICK a \in Artifacts : LosePut(w, a)
    BY <1>5
  <2> DEFINE r == [worker[w] EXCEPT !.todo = @ \ {a}, !.putFailed = TRUE]
  <2>2. r \in Locals /\ r.job = worker[w].job
    BY <1>1 DEF Locals
  <2>3. worker[w].job \in Jobs
    BY <2>1 DEF LosePut, At, CallInv, HandInv
  <2>4. Become(w, r)
    BY <2>1 DEF LosePut
  <2> QED
    BY <2>2, <2>3, <2>4, BecomeKeeps
<1> QED
  BY <1>2, <1>3, <1>4, <1>5 DEF Trouble

\* A call that is given up is one the worker could make.
LEMMA TroubleLate ==
  ASSUME CallInv, NEW w \in Workers, Trouble(w)
  PROVE  LateInv'
<1>1. worker[w].retryable \in BOOLEAN
  BY DEF CallInv, WorkerRecords, Locals
<1>2. worker[w].pc \notin {"poll", "down"} => worker[w].job \in Jobs
  BY DEF CallInv, HandInv
<1>3. CASE LoseClaimCall(w)
  BY <1>2, <1>3 DEF LoseClaimCall, GiveUp, Call, At, CallInv, LateInv
<1>4. CASE LoseCall(w)
  BY <1>2, <1>4 DEF LoseCall, GiveUp, Call, At, CallInv, LateInv
<1>5. CASE LoseReport(w)
  BY <1>1, <1>2, <1>5 DEF LoseReport, GiveUp, Call, At, CallInv, LateInv
<1>6. CASE LoseSubmission(w) \/ LoseCleanup(w) \/ Crash(w)
  BY <1>6 DEF LoseSubmission, LoseCleanup, Crash, CallInv, LateInv
<1>7. CASE \E a \in Artifacts : LosePut(w, a)
  BY <1>7 DEF LosePut, GiveUp, CallInv, LateInv
<1> QED
  BY <1>3, <1>4, <1>5, <1>6, <1>7 DEF Trouble

\* The workers' own state: what they have in hand, and the calls they gave up
LEMMA LocalsStep ==
  ASSUME CallInv, [WorkerNext]_allVars
  PROVE  (WorkerRecords /\ HandInv /\ LateInv)'
<1>1. WorkerRecords /\ HandInv /\ LateInv
  BY DEF CallInv
<1>2. ASSUME worker' = worker
      PROVE  (WorkerRecords /\ HandInv)'
  BY <1>1, <1>2 DEF WorkerRecords, HandInv
<1>3. ASSUME late' \subseteq late
      PROVE  LateInv'
  BY <1>1, <1>3 DEF LateInv
<1>4. ASSUME NEW w \in Workers, Step(w)
      PROVE  (WorkerRecords /\ HandInv)' /\ UNCHANGED late
  <2>1. UNCHANGED late
    BY <1>4 DEF Step, Poll, Acknowledge, Begin, Submit, Deadline, ClaimGone,
                ExecutionGone, Prepare, Upload1, Finalize, RowsAnswered, Deliver,
                Report, Cleanup, faultVars
  <2> QED
    BY <1>4, <2>1, StepLocals, WorkerNextMaps
<1>5. ASSUME NEW w \in Workers, Processor(w)
      PROVE  (WorkerRecords /\ HandInv)' /\ UNCHANGED late
  BY <1>5, GotoKeeps, ThrowKeeps
  DEF Processor, RunCompleted, RunFailed, Refused, At, PC, faultVars
<1>6. ASSUME NEW w \in Workers, Trouble(w)
      PROVE  (WorkerRecords /\ HandInv /\ LateInv)'
  BY <1>6, TroubleLocals, TroubleLate
<1>7. ASSUME NEW w \in Workers, Restart(w)
      PROVE  (WorkerRecords /\ HandInv)' /\ UNCHANGED late
  BY <1>7, IdleKeeps DEF Restart, faultVars
<1>8. ASSUME \/ Handler
             \/ \E w \in Workers : Heartbeat(w)
             \/ \E j \in Jobs : SweepExecution(j)
             \/ Others
             \/ UNCHANGED allVars
      PROVE  UNCHANGED <<worker, late>>
  BY <1>8 DEF Handler, HandlerDies, InsertRow, Heartbeat, SweepExecution, Others,
              allVars, workerVars, faultVars
<1>9. ASSUME NEW call \in late, Land(call) \/ Drop(call)
      PROVE  worker' = worker /\ late' \subseteq late
  BY <1>9 DEF Land, Drop
<1> QED
  BY <1>2, <1>3, <1>4, <1>5, <1>6, <1>7, <1>8, <1>9 DEF WorkerNext

\* Run numbers stay numbers.
LEMMA RunStep ==
  ASSUME CallInv, [WorkerNext]_allVars
  PROVE  RunInv'
<1> USE DEF RunInv, NoRun
<1>1. RunInv
  BY DEF CallInv
<1>2. ASSUME NEW w \in Workers, Submit(w) \/ LoseSubmission(w) \/ Cleanup(w)
      PROVE  RunInv'
  <2>1. CASE Submit(w)
    <3>1. worker[w].job \in Jobs
      BY <2>1 DEF Submit, At, CallInv, HandInv
    <3>2. execution[worker[w].job] \in Nat /\ runs[worker[w].job] \in Nat
      BY <1>1, <3>1
    <3> QED
      BY <1>1, <2>1, <3>1, <3>2 DEF Submit
  <2>2. CASE LoseSubmission(w)
    <3>1. worker[w].job \in Jobs
      BY <2>2 DEF LoseSubmission, At, CallInv, HandInv
    <3>2. execution[worker[w].job] \in Nat /\ runs[worker[w].job] \in Nat
      BY <1>1, <3>1
    <3> QED
      BY <1>1, <2>2, <3>1, <3>2 DEF LoseSubmission
  <2>3. CASE Cleanup(w)
    BY <1>1, <2>3 DEF Cleanup
  <2> QED
    BY <1>2, <2>1, <2>2, <2>3
<1>3. ASSUME NEW w \in Workers, Step(w), ~Submit(w), ~Cleanup(w)
      PROVE  UNCHANGED extVars
  BY <1>3 DEF Step, Poll, Acknowledge, Begin, Deadline, ClaimGone, ExecutionGone,
              Prepare, Upload1, Finalize, RowsAnswered, Deliver, Report
<1>4. ASSUME NEW w \in Workers, Processor(w) \/ Heartbeat(w) \/ Restart(w)
      PROVE  UNCHANGED extVars
  BY <1>4 DEF Processor, RunCompleted, RunFailed, Refused, Heartbeat, Restart,
              workerVars
<1>5. ASSUME NEW w \in Workers, Trouble(w), ~LoseSubmission(w)
      PROVE  UNCHANGED extVars
  BY <1>5 DEF Trouble, LoseClaimCall, LoseCall, LoseReport, LoseCleanup, Crash,
              LosePut
<1>6. ASSUME NEW j \in Jobs, SweepExecution(j)
      PROVE  RunInv'
  BY <1>1, <1>6 DEF SweepExecution
<1>7. ASSUME \/ Handler
             \/ \E call \in late : Land(call) \/ Drop(call)
             \/ Others
             \/ UNCHANGED allVars
      PROVE  UNCHANGED extVars
  BY <1>7 DEF Handler, HandlerDies, InsertRow, Land, Drop, Others, allVars,
              workerVars
<1> QED
  BY <1>1, <1>2, <1>3, <1>4, <1>5, <1>6, <1>7 DEF WorkerNext, extVars

\* A row only waits for a claim the worker owned when it was verified.
LEMMA InsertStep ==
  ASSUME CallInv, [WorkerNext]_allVars
  PROVE  InsertInv'
<1>1. \A k \in Jobs : attempt_count[k] <= attempt_count'[k]
  BY WorkerNextMaps, AttemptsGrow DEF CallInv
<1>2. attempt_count \in [Jobs -> Nat] /\ attempt_count' \in [Jobs -> Nat]
  BY WorkerNextMaps, TypeStep DEF CallInv, TypeOK
<1>3. ASSUME inserting' \subseteq inserting
      PROVE  InsertInv'
  BY <1>1, <1>2, <1>3 DEF CallInv, InsertInv
<1>4. ASSUME NEW w \in Workers, Finalize(w)
      PROVE  InsertInv'
  <2>1. CASE Owns(w) /\ Verified(w)
    <3>1. worker[w].job \in Jobs
      BY <1>4 DEF Finalize, At, CallInv, HandInv
    <3>2. worker[w].token \in 1..attempt_count[worker[w].job]
      BY <2>1, <3>1, OwnedToken DEF Owns
    <3>3. \A i \in inserting' :
            i \in inserting \/ (i[1] = worker[w].job /\ i[2] = worker[w].token)
      BY <1>4, <2>1 DEF Finalize
    <3> QED
      BY <1>1, <1>2, <3>1, <3>2, <3>3 DEF CallInv, InsertInv
  <2>2. CASE ~(Owns(w) /\ Verified(w))
    BY <1>3, <1>4, <2>2 DEF Finalize
  <2> QED
    BY <2>1, <2>2
<1>5. ASSUME NEW w \in Workers, Step(w), ~Finalize(w)
      PROVE  UNCHANGED inserting
  BY <1>5 DEF Step, Poll, Acknowledge, Begin, Submit, Deadline, ClaimGone,
              ExecutionGone, Prepare, Upload1, RowsAnswered, Deliver, Report,
              Cleanup, storeVars
<1>6. ASSUME NEW w \in Workers,
             Processor(w) \/ Heartbeat(w) \/ Trouble(w) \/ Restart(w)
      PROVE  UNCHANGED inserting
  BY <1>6 DEF Processor, RunCompleted, RunFailed, Refused, Heartbeat, Trouble,
              LoseClaimCall, LoseSubmission, LoseCall, LoseReport, LoseCleanup,
              Crash, LosePut, Restart, workerVars, storeVars
<1>7. ASSUME Handler
      PROVE  inserting' \subseteq inserting
  BY <1>7 DEF Handler, HandlerDies, InsertRow
<1>8. ASSUME \/ \E j \in Jobs : SweepExecution(j)
             \/ \E call \in late : Land(call) \/ Drop(call)
             \/ Others
             \/ UNCHANGED allVars
      PROVE  UNCHANGED inserting
  BY <1>8 DEF SweepExecution, Land, Drop, Others, allVars, workerVars, storeVars
<1> QED
  BY <1>3, <1>4, <1>5, <1>6, <1>7, <1>8 DEF WorkerNext

\* The calls of the workers are always ones the control plane knows.
THEOREM CallInvariant == WorkerSpec => []CallInv
<1>1. WorkerInit => CallInv
  <2> SUFFICES ASSUME WorkerInit
               PROVE  CallInv
    OBVIOUS
  <2>1. TypeOK /\ DeliveryInv
    BY JobsAssumption
    DEF JobsAssumption, WorkerInit, Init, TypeOK, Status, NoToken, DeliveryInv
  <2>2. WorkerRecords /\ HandInv /\ InsertInv /\ LateInv /\ RunInv
    BY DEF WorkerInit, WorkerRecords, Locals, RunInv, HandInv, InsertInv, LateInv, AtPC, PC,
           NoToken, NoRun
  <2> QED
    BY <2>1, <2>2 DEF CallInv
<1>2. CallInv /\ [WorkerNext]_allVars => CallInv'
  BY WorkerNextMaps, TypeStep, DeliveryStep, LocalsStep, InsertStep, RunStep
  DEF CallInv
<1> QED
  BY <1>1, <1>2, PTL DEF WorkerSpec

\* The worker program implements the control plane: with it, its crashes and
\* its lost and late calls, the rows change as TakeoffJobs says.
THEOREM ImplementsTakeoffJobs == WorkerSpec => JobsSpec
<1>1. WorkerInit => Init
  BY DEF WorkerInit
<1>2. CallInv /\ [WorkerNext]_allVars => [Next]_vars
  BY WorkerNextMaps
<1> QED
  BY <1>1, <1>2, CallInvariant, PTL DEF WorkerSpec, JobsSpec, Spec

\* So a takeoff that ends undelivered costs its customer nothing, whatever the
\* workers do and whatever happens to them.
THEOREM WorkersRefundUndelivered == WorkerSpec => []UndeliveredIsRefunded
BY ImplementsTakeoffJobs, UndeliveredIsRefundedHolds DEF JobsSpec

\* And what a customer can download as delivered is one claim's work, and paid.
THEOREM WorkersDeliverComplete == WorkerSpec => []DeliveredIsCompleteAndPaid
BY ImplementsTakeoffJobs, DeliveredIsCompleteAndPaidHolds DEF JobsSpec

\* And every customer's balance stays what the customer's takeoffs say it is.
THEOREM WorkersKeepLedger == IsFiniteSet(Jobs) => (WorkerSpec => []LedgerBalances)
BY ImplementsTakeoffJobs, LedgerBalancesHolds DEF JobsSpec

-----------------------------------------------------------------------------
(* What the workers deliver: the two files are of one run, which rests on   *)
(* what a row of takeoff_files says of the storage; and a worker that is    *)
(* alive keeps its takeoff.                                                 *)

\* The steps that know a run of the processor
Running == {"wait", "prepare", "upload", "register", "deliver"}

\* A worker at work has a claim that was made, and from the answer of the
\* submission on a run that was started.
Backed(r) ==
  /\ r.pc \in Working \cup {"report", "cleanup"} =>
       r.token \in 1..attempt_count[r.job]
  /\ r.pc \in Running => r.run \in 1..runs[r.job]

ClaimHand == \A w \in Workers : Backed(worker[w])

\* Objects, rows to insert and faults are what they are said to be.
StoreTypeOK ==
  /\ objects \subseteq Jobs \X Tokens \X Artifacts \X Nat
  /\ inserting \subseteq Jobs \X Tokens \X Artifacts
  /\ faults \in 0..MaxFaults

\* An upload on its way is of a claim that was made.
PutInv ==
  \A call \in late :
    call.op = "put" => /\ call.job \in Jobs /\ call.token \in Tokens
                       /\ call.name \in Artifacts /\ call.run \in Nat

\* A row, inserted or about to be, says that one run's two files are stored.
RowsInv ==
  \A j \in Jobs, t \in Tokens, a \in Artifacts :
    <<j, t, a>> \in inserting \/ <<t, a>> \in files[j] =>
      \E r \in 1..runs[j] : \A b \in Artifacts : <<j, t, b, r>> \in objects

\* The inductive invariant of the delivery
RunOfRowsInv == CallInv /\ ClaimHand /\ StoreTypeOK /\ PutInv /\ RowsInv

-----------------------------------------------------------------------------
(* What grows and what stays *)

\* Only a submission starts a run.
LEMMA RunsChange ==
  ASSUME [WorkerNext]_allVars
  PROVE  \/ UNCHANGED runs
         \/ \E w \in Workers : Submit(w) \/ LoseSubmission(w)
<1>1. ASSUME NEW w \in Workers, Step(w), ~Submit(w)
      PROVE  UNCHANGED runs
  BY <1>1 DEF Step, Poll, Acknowledge, Begin, Deadline, ClaimGone, ExecutionGone,
              Prepare, Upload1, Finalize, RowsAnswered, Deliver, Report, Cleanup,
              extVars
<1>2. ASSUME NEW w \in Workers, Processor(w) \/ Heartbeat(w) \/ Restart(w)
      PROVE  UNCHANGED runs
  BY <1>2 DEF Processor, RunCompleted, RunFailed, Refused, Heartbeat, Restart,
              workerVars, extVars
<1>3. ASSUME NEW w \in Workers, Trouble(w), ~LoseSubmission(w)
      PROVE  UNCHANGED runs
  BY <1>3 DEF Trouble, LoseClaimCall, LoseCall, LoseReport, LoseCleanup, Crash,
              LosePut, extVars
<1>4. ASSUME \/ Handler
             \/ \E j \in Jobs : SweepExecution(j)
             \/ \E call \in late : Land(call) \/ Drop(call)
             \/ Others
             \/ UNCHANGED allVars
      PROVE  UNCHANGED runs
  BY <1>4 DEF Handler, HandlerDies, InsertRow, SweepExecution, Land, Drop, Others,
              allVars, workerVars, extVars
<1> QED
  BY <1>1, <1>2, <1>3, <1>4 DEF WorkerNext

LEMMA RunsGrow ==
  ASSUME CallInv, [WorkerNext]_allVars, NEW k \in Jobs
  PROVE  runs[k] \in Nat /\ runs'[k] \in Nat /\ runs[k] <= runs'[k]
<1> USE DEF RunInv, NoRun
<1>1. runs \in [Jobs -> Nat] /\ execution \in [Jobs -> Nat]
  BY DEF CallInv
<1>2. ASSUME NEW w \in Workers, Submit(w) \/ LoseSubmission(w)
      PROVE  runs'[k] \in Nat /\ runs[k] <= runs'[k]
  <2>1. worker[w].job \in Jobs
    BY <1>2 DEF Submit, LoseSubmission, At, CallInv, HandInv
  <2>2. /\ runs[worker[w].job] \in Nat
        /\ execution[worker[w].job] \in Nat
    BY <1>1, <2>1
  <2>3. CASE Submit(w)
    BY <1>1, <2>1, <2>2, <2>3 DEF Submit
  <2>4. CASE LoseSubmission(w)
    BY <1>1, <2>1, <2>2, <2>4 DEF LoseSubmission
  <2> QED
    BY <1>2, <2>3, <2>4
<1> QED
  BY <1>1, <1>2, RunsChange

\* Nothing removes or replaces a stored object.
LEMMA ObjectsGrow ==
  ASSUME [WorkerNext]_allVars
  PROVE  objects \subseteq objects'
<1>1. ASSUME NEW w \in Workers, Step(w)
      PROVE  objects \subseteq objects'
  BY <1>1 DEF Step, Poll, Acknowledge, Begin, Submit, Deadline, ClaimGone,
              ExecutionGone, Prepare, Upload1, Put, Finalize, RowsAnswered,
              Deliver, Report, Cleanup, storeVars
<1>2. ASSUME NEW w \in Workers,
             Processor(w) \/ Heartbeat(w) \/ Trouble(w) \/ Restart(w)
      PROVE  UNCHANGED objects
  BY <1>2 DEF Processor, RunCompleted, RunFailed, Refused, Heartbeat, Trouble,
              LoseClaimCall, LoseSubmission, LoseCall, LoseReport, LoseCleanup,
              Crash, LosePut, Restart, workerVars, storeVars
<1>3. ASSUME NEW call \in late, Land(call)
      PROVE  objects \subseteq objects'
  BY <1>3 DEF Land, Put
<1>4. ASSUME \/ Handler
             \/ \E j \in Jobs : SweepExecution(j)
             \/ \E call \in late : Drop(call)
             \/ Others
             \/ UNCHANGED allVars
      PROVE  UNCHANGED objects
  BY <1>4 DEF Handler, HandlerDies, InsertRow, SweepExecution, Drop, Others,
              allVars, workerVars, storeVars
<1> QED
  BY <1>1, <1>2, <1>3, <1>4 DEF WorkerNext

\* Only the insert of a finalize request adds a row.
LEMMA FilesChange ==
  ASSUME [WorkerNext]_allVars
  PROVE  \/ UNCHANGED files
         \/ \E j \in Jobs, t \in 1..MaxAttempts, a \in Artifacts : InsertRow(j, t, a)
<1> USE DEF vars, ClaimNext, ClaimJob, Progress, Complete, FailJob, FailAttempt
<1>1. ASSUME NEW w \in Workers, Step(w)
      PROVE  UNCHANGED files
  BY <1>1 DEF Step, Poll, Acknowledge, AcknowledgeHeld, Begin, Beat, Submit,
              Deadline, ClaimGone, ExecutionGone, Prepare, Upload1, Finalize,
              RowsAnswered, Deliver, Report, Cleanup
<1>2. ASSUME NEW w \in Workers,
             Processor(w) \/ Heartbeat(w) \/ Trouble(w) \/ Restart(w)
      PROVE  UNCHANGED files
  BY <1>2 DEF Processor, RunCompleted, RunFailed, Refused, Heartbeat, Beat,
              Trouble, LoseClaimCall, LoseSubmission, LoseCall, LoseReport,
              LoseCleanup, Crash, LosePut, Restart
<1>3. ASSUME NEW call \in late, Land(call) \/ Drop(call)
      PROVE  UNCHANGED files
  BY <1>3 DEF Land, Drop
<1>4. ASSUME Others
      PROVE  UNCHANGED files
  BY <1>4 DEF Others, Customer, ReserveCredits, QueueFreeSample,
              RequestCorrection, GoStale, Cron, ReconcileRead, ReconcileFail,
              ExpireAbandoned, Admin, AdminApprove, AdminRequeue, AdminCancel,
              SetProfileStatus
<1>5. ASSUME \/ \E j \in Jobs, t \in 1..MaxAttempts : HandlerDies(j, t)
             \/ \E j \in Jobs : SweepExecution(j)
             \/ UNCHANGED allVars
      PROVE  UNCHANGED files
  BY <1>5 DEF HandlerDies, SweepExecution, allVars
<1> QED
  BY <1>1, <1>2, <1>3, <1>4, <1>5 DEF WorkerNext, Handler

-----------------------------------------------------------------------------
(* What the workers have in hand *)

\* A worker that is replaced by one with a claim and a run
LEMMA BackedBecome ==
  ASSUME CallInv, ClaimHand, [WorkerNext]_allVars,
         NEW w \in Workers, NEW r, Become(w, r),
         r.pc \in Working \cup {"report", "cleanup"} =>
           r.token \in 1..attempt_count'[r.job],
         r.pc \in Running => r.run \in 1..runs'[r.job]
  PROVE  ClaimHand'
<1> SUFFICES ASSUME NEW v \in Workers
             PROVE  Backed(worker[v])'
  BY DEF ClaimHand
<1>1. worker' = [worker EXCEPT ![w] = r] /\ worker \in [Workers -> Locals]
  BY DEF Become, CallInv, WorkerRecords
<1>2. CASE v = w
  BY <1>1, <1>2 DEF Backed
<1>3. CASE v # w
  <2>1. worker'[v] = worker[v] /\ Backed(worker[v])
    BY <1>1, <1>3 DEF ClaimHand
  <2>2. worker[v].pc \in Working \cup {"report", "cleanup"} =>
          worker[v].job \in Jobs
    BY DEF CallInv, HandInv, Working
  <2>3. \A k \in Jobs : /\ attempt_count[k] \in Nat /\ attempt_count'[k] \in Nat
                        /\ attempt_count[k] <= attempt_count'[k]
    BY WorkerNextMaps, AttemptsGrow, TypeStep DEF CallInv, TypeOK
  <2>4. \A k \in Jobs : /\ runs[k] \in Nat /\ runs'[k] \in Nat
                        /\ runs[k] <= runs'[k]
    BY RunsGrow
  <2> QED
    BY <2>1, <2>2, <2>3, <2>4 DEF Backed, Running, Working
<1> QED
  BY <1>2, <1>3

\* Nobody changes.
LEMMA BackedStays ==
  ASSUME CallInv, ClaimHand, [WorkerNext]_allVars, UNCHANGED worker
  PROVE  ClaimHand'
<1> SUFFICES ASSUME NEW v \in Workers
             PROVE  Backed(worker[v])'
  BY DEF ClaimHand
<1>1. Backed(worker[v])
  BY DEF ClaimHand
<1>2. worker[v].pc \in Working \cup {"report", "cleanup"} =>
        worker[v].job \in Jobs
  BY DEF CallInv, HandInv, Working
<1>3. \A k \in Jobs : /\ attempt_count[k] \in Nat /\ attempt_count'[k] \in Nat
                      /\ attempt_count[k] <= attempt_count'[k]
  BY WorkerNextMaps, AttemptsGrow, TypeStep DEF CallInv, TypeOK
<1>4. \A k \in Jobs : runs[k] \in Nat /\ runs'[k] \in Nat /\ runs[k] <= runs'[k]
  BY RunsGrow
<1> QED
  BY <1>1, <1>2, <1>3, <1>4 DEF Backed, Running, Working

\* A worker that goes on with its claim and run
LEMMA BackedGoesOn ==
  ASSUME CallInv, ClaimHand, [WorkerNext]_allVars,
         NEW w \in Workers, NEW r, Become(w, r),
         r.job = worker[w].job, r.token = worker[w].token,
         r.run = worker[w].run,
         worker[w].pc \in Working \cup {"report", "cleanup"},
         r.pc \in Running => worker[w].pc \in Running
  PROVE  ClaimHand'
<1>1. Backed(worker[w]) /\ worker[w].job \in Jobs
  BY DEF ClaimHand, CallInv, HandInv, Working
<1>2. /\ attempt_count[worker[w].job] \in Nat /\ attempt_count'[worker[w].job] \in Nat
      /\ attempt_count[worker[w].job] <= attempt_count'[worker[w].job]
  BY <1>1, WorkerNextMaps, AttemptsGrow, TypeStep DEF CallInv, TypeOK
<1>3. /\ runs[worker[w].job] \in Nat /\ runs'[worker[w].job] \in Nat
      /\ runs[worker[w].job] <= runs'[worker[w].job]
  BY <1>1, RunsGrow
<1>4. r.token \in 1..attempt_count'[r.job]
  BY <1>1, <1>2 DEF Backed
<1>5. r.pc \in Running => r.run \in 1..runs'[r.job]
  BY <1>1, <1>3 DEF Backed
<1> QED
  BY <1>4, <1>5, BackedBecome

\* Its two most common forms
LEMMA BackedGoto ==
  ASSUME CallInv, ClaimHand, [WorkerNext]_allVars,
         NEW w \in Workers, NEW pc, Goto(w, pc),
         worker[w].pc \in Working \cup {"report", "cleanup"},
         pc \in Running => worker[w].pc \in Running
  PROVE  ClaimHand'
<1> DEFINE r == [worker[w] EXCEPT !.pc = pc]
<1>1. /\ r.pc = pc /\ r.job = worker[w].job /\ r.token = worker[w].token
      /\ r.run = worker[w].run
  BY DEF CallInv, WorkerRecords, Locals
<1>2. Become(w, r)
  BY DEF Goto
<1> QED
  BY <1>1, <1>2, BackedGoesOn

LEMMA BackedThrow ==
  ASSUME CallInv, ClaimHand, [WorkerNext]_allVars,
         NEW w \in Workers, NEW retryable, Throw(w, retryable),
         worker[w].pc \in Working
  PROVE  ClaimHand'
<1> DEFINE r == [worker[w] EXCEPT !.pc = "report", !.retryable = retryable]
<1>1. /\ r.pc = "report" /\ r.job = worker[w].job /\ r.token = worker[w].token
      /\ r.run = worker[w].run
  BY DEF CallInv, WorkerRecords, Locals
<1>2. Become(w, r)
  BY DEF Throw
<1> QED
  BY <1>1, <1>2, BackedGoesOn DEF Running

LEMMA BackedIdle ==
  ASSUME CallInv, ClaimHand, [WorkerNext]_allVars,
         NEW w \in Workers, NEW pc \in {"poll", "down"}, Become(w, AtPC(pc))
  PROVE  ClaimHand'
BY BackedBecome DEF AtPC, Working, Running

\* Every step leaves the workers with a claim that was made.
LEMMA ClaimHandStep ==
  ASSUME CallInv, ClaimHand, [WorkerNext]_allVars
  PROVE  ClaimHand'
<1> USE DEF Working, Running, At
<1>1. \A w \in Workers : worker[w] \in Locals
  BY DEF CallInv, WorkerRecords
<1>2. TypeOK' /\ DeliveryInv'
  BY WorkerNextMaps, TypeStep, DeliveryStep DEF CallInv
<1>3. ASSUME NEW w \in Workers, Poll(w)
      PROVE  ClaimHand'
  <2>1. PICK j \in Jobs : Become(w, [AtPC("acknowledge") EXCEPT !.job = j])
    BY <1>3 DEF Poll
  <2>2. [AtPC("acknowledge") EXCEPT !.job = j].pc = "acknowledge"
    BY DEF AtPC
  <2> QED
    BY <2>1, <2>2, BackedBecome
<1>4. ASSUME NEW w \in Workers, Acknowledge(w)
      PROVE  ClaimHand'
  <2> DEFINE j == worker[w].job
             r == [worker[w] EXCEPT !.pc = "begin", !.token = claim_token'[j]]
  <2>1. j \in Jobs
    BY <1>4 DEF Acknowledge, CallInv, HandInv
  <2>2. CASE Become(w, AtPC("poll"))
    BY <2>2, BackedIdle
  <2>3. CASE AcknowledgeHeld(w) \/ ClaimJob(w, j)
    <3>1. status'[j] = "processing"
      BY <2>1, <2>3 DEF AcknowledgeHeld, Holds, ClaimJob, CallInv, TypeOK, vars,
                        claimVars
    <3>2. claim_token'[j] \in 1..attempt_count'[j]
      BY <1>2, <2>1, <3>1 DEF DeliveryInv, NoToken, TypeOK
    <3>3. r.pc = "begin" /\ r.job = j /\ r.token = claim_token'[j]
      BY <1>1 DEF Locals
    <3>4. CASE Become(w, r)
      BY <3>2, <3>3, <3>4, BackedBecome
    <3> QED
      BY <1>4, <2>2, <3>4 DEF Acknowledge
  <2> QED
    BY <1>4, <2>2, <2>3 DEF Acknowledge
<1>5. ASSUME NEW w \in Workers, Submit(w)
      PROVE  ClaimHand'
  <2> DEFINE j == worker[w].job
             n == IF execution[j] = NoRun THEN runs[j] + 1 ELSE execution[j]
             r == [worker[w] EXCEPT !.pc = "wait", !.run = n]
  <2>1. j \in Jobs /\ Become(w, r)
    BY <1>5 DEF Submit, CallInv, HandInv
  <2>2. execution[j] \in Nat /\ runs[j] \in Nat /\ runs \in [Jobs -> Nat]
    BY <2>1 DEF CallInv, RunInv
  <2>3. runs' = [runs EXCEPT ![j] = IF @ < n THEN n ELSE @]
    BY <1>5 DEF Submit
  <2>4. n \in 1..runs'[j]
    BY <2>1, <2>2, <2>3 DEF NoRun
  <2>5. r.pc = "wait" /\ r.job = j /\ r.token = worker[w].token /\ r.run = n
    BY <1>1 DEF Locals
  <2>6. attempt_count' = attempt_count /\ Backed(worker[w])
    BY <1>5 DEF Submit, vars, claimVars, ClaimHand
  <2>7. r.token \in 1..attempt_count'[j]
    BY <1>5, <2>5, <2>6 DEF Backed, Submit
  <2> QED
    BY <2>1, <2>4, <2>5, <2>7, BackedBecome
<1>6. ASSUME NEW w \in Workers, Prepare(w)
      PROVE  ClaimHand'
  <2> DEFINE r == [worker[w] EXCEPT !.pc = "upload",
                                    !.todo = {a \in Artifacts :
                       Stored(worker[w].job, worker[w].token, a) = {}}]
  <2>1. CASE Throw(w, FALSE)
    BY <1>6, <2>1, BackedThrow DEF Prepare
  <2>2. CASE Become(w, r)
    <3>1. /\ r.pc = "upload" /\ r.job = worker[w].job
          /\ r.token = worker[w].token /\ r.run = worker[w].run
      BY <1>1 DEF Locals
    <3> QED
      BY <1>6, <2>2, <3>1, BackedGoesOn DEF Prepare
  <2> QED
    BY <1>6, <2>1, <2>2 DEF Prepare
<1>7. ASSUME NEW w \in Workers, NEW a \in Artifacts, Upload1(w, a)
      PROVE  ClaimHand'
  <2> DEFINE failed == worker[w].putFailed \/
                         Stored(worker[w].job, worker[w].token, a) # {}
             r == [worker[w] EXCEPT !.todo = @ \ {a}, !.putFailed = failed]
  <2>1. Become(w, r)
    BY <1>7, Zenon DEF Upload1
  <2> HIDE DEF failed
  <2>2. /\ r.pc = worker[w].pc /\ r.job = worker[w].job
        /\ r.token = worker[w].token /\ r.run = worker[w].run
    BY <1>1 DEF Locals
  <2> QED
    BY <1>7, <2>1, <2>2, BackedGoesOn DEF Upload1
<1>8. ASSUME NEW w \in Workers,
             \/ Begin(w) \/ Deadline(w) \/ ClaimGone(w) \/ ExecutionGone(w)
             \/ Finalize(w) \/ RowsAnswered(w) \/ Deliver(w) \/ Report(w)
      PROVE  ClaimHand'
  BY <1>8, BackedGoto, BackedThrow
  DEF Begin, Deadline, ClaimGone, ExecutionGone, Finalize, RowsAnswered, Deliver,
      Report
<1>9. ASSUME NEW w \in Workers, Cleanup(w) \/ Restart(w)
      PROVE  ClaimHand'
  BY <1>9, BackedIdle DEF Cleanup, Restart
<1>10. ASSUME NEW w \in Workers, Processor(w)
       PROVE  ClaimHand'
  BY <1>10, BackedGoto, BackedThrow DEF Processor, RunCompleted, RunFailed, Refused
<1>11. ASSUME NEW w \in Workers, NEW a \in Artifacts, LosePut(w, a)
       PROVE  ClaimHand'
  <2> DEFINE r == [worker[w] EXCEPT !.todo = @ \ {a}, !.putFailed = TRUE]
  <2>1. /\ r.pc = worker[w].pc /\ r.job = worker[w].job
        /\ r.token = worker[w].token /\ r.run = worker[w].run
    BY <1>1 DEF Locals
  <2>2. Become(w, r)
    BY <1>11 DEF LosePut
  <2> QED
    BY <1>11, <2>1, <2>2, BackedGoesOn DEF LosePut
<1>12. ASSUME NEW w \in Workers, Trouble(w), ~ \E a \in Artifacts : LosePut(w, a)
       PROVE  ClaimHand'
  BY <1>12, BackedIdle, BackedThrow, BackedGoto
  DEF Trouble, LoseClaimCall, LoseSubmission, LoseCall, LoseReport, LoseCleanup,
      Crash
<1>13. ASSUME \/ Handler
              \/ \E w \in Workers : Heartbeat(w)
              \/ \E j \in Jobs : SweepExecution(j)
              \/ \E call \in late : Land(call) \/ Drop(call)
              \/ Others
              \/ UNCHANGED allVars
       PROVE  UNCHANGED worker
  BY <1>13 DEF Handler, HandlerDies, InsertRow, Heartbeat, SweepExecution, Land,
               Drop, Others, allVars, workerVars
<1> QED
  BY <1>3, <1>4, <1>5, <1>6, <1>7, <1>8, <1>9, <1>10, <1>11, <1>12, <1>13,
     BackedStays
  DEF WorkerNext, Step, Trouble

-----------------------------------------------------------------------------
(* Storage, and the rows that speak of it *)

\* Every upload, in time or late, is of a claim and a run that were made.
LEMMA StoreStep ==
  ASSUME RunOfRowsInv, [WorkerNext]_allVars
  PROVE  (StoreTypeOK /\ PutInv)'
<1>0. /\ CallInv /\ ClaimHand /\ StoreTypeOK /\ PutInv
      /\ MaxFaults \in Nat /\ MaxAttempts \in Nat
  BY WorkerAssumption, JobsAssumption
  DEF RunOfRowsInv, WorkerAssumption, JobsAssumption
<1>1. ASSUME NEW w \in Workers, worker[w].pc \in Running
      PROVE  /\ worker[w].job \in Jobs /\ worker[w].token \in Tokens
             /\ worker[w].run \in Nat /\ worker[w].todo \subseteq Artifacts
  <2>1. worker[w] \in Locals /\ worker[w].job \in Jobs
    BY <1>0, <1>1 DEF CallInv, WorkerRecords, HandInv, Running
  <2>2. worker[w].token \in 1..attempt_count[worker[w].job]
    BY <1>0, <1>1 DEF ClaimHand, Backed, Running, Working
  <2> QED
    BY <1>0, <2>1, <2>2 DEF Locals, Tokens, NoToken, CallInv, TypeOK
<1>2. ASSUME UNCHANGED <<objects, inserting, faults>>
      PROVE  StoreTypeOK'
  BY <1>0, <1>2 DEF StoreTypeOK
<1>3. ASSUME late' \subseteq late
      PROVE  PutInv'
  BY <1>0, <1>3 DEF PutInv
<1>4. ASSUME NEW w \in Workers, NEW a \in Artifacts, Upload1(w, a)
      PROVE  (StoreTypeOK /\ PutInv)'
  <2>1. <<worker[w].job, worker[w].token, a, worker[w].run>>
          \in Jobs \X Tokens \X Artifacts \X Nat
    BY <1>1, <1>4 DEF Upload1, At, Running
  <2>2. objects' \subseteq objects \cup
           {<<worker[w].job, worker[w].token, a, worker[w].run>>}
    BY <1>4 DEF Upload1, Put
  <2>3. UNCHANGED <<inserting, faults, late>>
    BY <1>4 DEF Upload1, faultVars
  <2> QED
    BY <1>0, <1>3, <2>1, <2>2, <2>3 DEF StoreTypeOK
<1>5. ASSUME NEW w \in Workers, Finalize(w)
      PROVE  (StoreTypeOK /\ PutInv)'
  <2>1. \A a \in Artifacts :
          <<worker[w].job, worker[w].token, a>> \in Jobs \X Tokens \X Artifacts
    BY <1>1, <1>5 DEF Finalize, At, Running
  <2>2. inserting' \subseteq inserting \cup
           {<<worker[w].job, worker[w].token, a>> : a \in Artifacts}
    BY <1>5 DEF Finalize
  <2>3. UNCHANGED <<objects, faults, late>>
    BY <1>5 DEF Finalize, faultVars
  <2> QED
    BY <1>0, <1>3, <2>1, <2>2, <2>3 DEF StoreTypeOK
<1>6. ASSUME NEW w \in Workers, Step(w), ~Finalize(w),
             ~ \E a \in Artifacts : Upload1(w, a)
      PROVE  UNCHANGED <<objects, inserting, faults, late>>
  BY <1>6 DEF Step, Poll, Acknowledge, Begin, Submit, Deadline, ClaimGone,
              ExecutionGone, Prepare, RowsAnswered, Deliver, Report, Cleanup,
              storeVars, faultVars
<1>7. ASSUME NEW w \in Workers, Processor(w) \/ Heartbeat(w) \/ Restart(w)
      PROVE  UNCHANGED <<objects, inserting, faults, late>>
  BY <1>7 DEF Processor, RunCompleted, RunFailed, Refused, Heartbeat, Restart,
              workerVars, storeVars, faultVars
<1>8. ASSUME Fault
      PROVE  faults' \in 0..MaxFaults
  BY <1>0, <1>8 DEF Fault, StoreTypeOK
<1>9. ASSUME NEW w \in Workers, NEW a \in Artifacts, LosePut(w, a)
      PROVE  (StoreTypeOK /\ PutInv)'
  <2> DEFINE call == [op |-> "put", job |-> worker[w].job,
                      token |-> worker[w].token, name |-> a,
                      run |-> worker[w].run]
  <2>1. late' = late \cup {call} /\ Fault /\ UNCHANGED <<objects, inserting>>
    BY <1>9 DEF LosePut, GiveUp, storeVars
  <2>2. /\ call.job \in Jobs /\ call.token \in Tokens
        /\ call.name \in Artifacts /\ call.run \in Nat
    BY <1>1, <1>9 DEF LosePut, At, Running
  <2> QED
    BY <1>0, <1>8, <2>1, <2>2 DEF StoreTypeOK, PutInv
<1>10. ASSUME NEW w \in Workers, Trouble(w), ~ \E a \in Artifacts : LosePut(w, a)
       PROVE  (StoreTypeOK /\ PutInv)'
  <2>1. Fault /\ UNCHANGED <<objects, inserting>>
    BY <1>10 DEF Trouble, LoseClaimCall, LoseSubmission, LoseCall, LoseReport,
                 LoseCleanup, Crash, GiveUp, storeVars
  <2>2. CASE UNCHANGED late
    BY <1>0, <1>8, <2>1, <2>2 DEF StoreTypeOK, PutInv
  <2>3. ASSUME NEW op \in {"next", "claim", "complete", "fail"},
               NEW retryable, late' = late \cup {Call(op, w, retryable)}
        PROVE  (StoreTypeOK /\ PutInv)'
    <3>1. Call(op, w, retryable).op # "put"
      BY DEF Call
    <3> QED
      BY <1>0, <1>8, <2>1, <2>3, <3>1 DEF StoreTypeOK, PutInv
  <2>4. \/ UNCHANGED late
        \/ late' = late \cup {Call("next", w, FALSE)}
        \/ late' = late \cup {Call("claim", w, FALSE)}
        \/ late' = late \cup {Call("complete", w, FALSE)}
        \/ late' = late \cup {Call("fail", w, worker[w].retryable)}
    BY <1>10 DEF Trouble, LoseClaimCall, LoseSubmission, LoseCall, LoseReport,
                 LoseCleanup, Crash, GiveUp
  <2> QED
    BY <2>2, <2>3, <2>4
<1>11. ASSUME NEW call \in late, Land(call)
       PROVE  (StoreTypeOK /\ PutInv)'
  <2>1. late' \subseteq late /\ UNCHANGED <<inserting, faults>>
    BY <1>11 DEF Land
  <2>2. CASE call.op = "put"
    <3>1. <<call.job, call.token, call.name, call.run>>
            \in Jobs \X Tokens \X Artifacts \X Nat
      BY <1>0, <2>2 DEF PutInv
    <3>2. objects' \subseteq objects \cup
             {<<call.job, call.token, call.name, call.run>>}
      BY <1>11, <2>2 DEF Land, Put
    <3> QED
      BY <1>0, <1>3, <2>1, <3>1, <3>2 DEF StoreTypeOK
  <2>3. CASE call.op # "put"
    BY <1>2, <1>3, <1>11, <2>1, <2>3 DEF Land
  <2> QED
    BY <2>2, <2>3
<1>12. ASSUME NEW j \in Jobs, NEW t \in 1..MaxAttempts,
              HandlerDies(j, t) \/ \E a \in Artifacts : InsertRow(j, t, a)
       PROVE  (StoreTypeOK /\ PutInv)'
  <2>1. inserting' \subseteq inserting /\ UNCHANGED <<objects, late>>
    BY <1>12 DEF HandlerDies, InsertRow, faultVars
  <2>2. Fault \/ UNCHANGED faults
    BY <1>12 DEF HandlerDies, InsertRow, faultVars
  <2> QED
    BY <1>0, <1>3, <1>8, <2>1, <2>2 DEF StoreTypeOK
<1>13. ASSUME NEW j \in Jobs, SweepExecution(j)
       PROVE  (StoreTypeOK /\ PutInv)'
  <2>1. Fault /\ UNCHANGED <<objects, inserting, late>>
    BY <1>13 DEF SweepExecution, storeVars
  <2> QED
    BY <1>0, <1>3, <1>8, <2>1 DEF StoreTypeOK
<1>14. ASSUME \/ \E call \in late : Drop(call)
              \/ Others
              \/ UNCHANGED allVars
       PROVE  UNCHANGED <<objects, inserting, faults>> /\ late' \subseteq late
  BY <1>14 DEF Drop, Others, allVars, workerVars, storeVars, faultVars
<1> QED
  BY <1>2, <1>3, <1>4, <1>5, <1>6, <1>7, <1>9, <1>10, <1>11, <1>12, <1>13, <1>14
  DEF WorkerNext, Handler, Step

\* A row is only written of two files that were found to be one run's.
LEMMA RowsStep ==
  ASSUME RunOfRowsInv, [WorkerNext]_allVars
  PROVE  RowsInv'
<1> SUFFICES ASSUME NEW j \in Jobs, NEW t \in Tokens, NEW a \in Artifacts,
                    <<j, t, a>> \in inserting' \/ <<t, a>> \in files'[j]
             PROVE  \E r \in 1..runs'[j] :
                      \A b \in Artifacts : <<j, t, b, r>> \in objects'
  BY DEF RowsInv
<1>1. /\ CallInv /\ ClaimHand /\ RowsInv /\ StoreTypeOK
      /\ objects \subseteq objects'
      /\ runs[j] \in Nat /\ runs'[j] \in Nat /\ runs[j] <= runs'[j]
  BY ObjectsGrow, RunsGrow DEF RunOfRowsInv
<1>2. ASSUME NEW r \in 1..runs[j], \A b \in Artifacts : <<j, t, b, r>> \in objects
      PROVE  \E s \in 1..runs'[j] :
               \A b \in Artifacts : <<j, t, b, s>> \in objects'
  BY <1>1, <1>2
<1>3. CASE <<j, t, a>> \in inserting \/ <<t, a>> \in files[j]
  BY <1>1, <1>2, <1>3 DEF RowsInv
<1>4. CASE <<j, t, a>> \notin inserting /\ <<t, a>> \notin files[j]
  <2>1. ASSUME <<j, t, a>> \in inserting'
        PROVE  \E w \in Workers : /\ Finalize(w) /\ Verified(w)
                                  /\ j = worker[w].job /\ t = worker[w].token
    <3>1. \E w \in Workers : Finalize(w)
      <4>1. ASSUME NEW w \in Workers, Step(w), ~Finalize(w)
            PROVE  UNCHANGED inserting
        BY <4>1 DEF Step, Poll, Acknowledge, Begin, Submit, Deadline, ClaimGone,
                    ExecutionGone, Prepare, Upload1, RowsAnswered, Deliver,
                    Report, Cleanup, storeVars
      <4>2. ASSUME NEW w \in Workers,
                   Processor(w) \/ Heartbeat(w) \/ Trouble(w) \/ Restart(w)
            PROVE  UNCHANGED inserting
        BY <4>2 DEF Processor, RunCompleted, RunFailed, Refused, Heartbeat,
                    Trouble, LoseClaimCall, LoseSubmission, LoseCall, LoseReport,
                    LoseCleanup, Crash, LosePut, Restart, workerVars, storeVars
      <4>3. ASSUME \/ Handler
                   \/ \E k \in Jobs : SweepExecution(k)
                   \/ \E call \in late : Land(call) \/ Drop(call)
                   \/ Others
                   \/ UNCHANGED allVars
            PROVE  inserting' \subseteq inserting
        BY <4>3 DEF Handler, HandlerDies, InsertRow, SweepExecution, Land, Drop,
                    Others, allVars, workerVars, storeVars
      <4> QED
        BY <1>4, <2>1, <4>1, <4>2, <4>3 DEF WorkerNext
    <3>2. PICK w \in Workers : Finalize(w)
      BY <3>1
    <3>3. Verified(w)
      BY <1>4, <2>1, <3>2 DEF Finalize
    <3>4. inserting' = inserting \cup
            {<<worker[w].job, worker[w].token, b>> :
               b \in {b \in Artifacts :
                        ~Registered(worker[w].job, worker[w].token, b)}}
      BY <1>4, <2>1, <3>2 DEF Finalize
    <3> QED
      BY <1>4, <2>1, <3>2, <3>3, <3>4
  <2>2. ASSUME <<t, a>> \in files'[j]
        PROVE  FALSE
    <3>1. PICK k \in Jobs, s \in 1..MaxAttempts, b \in Artifacts : InsertRow(k, s, b)
      BY <1>4, <2>2, FilesChange
    <3>2. files \in [Jobs -> SUBSET (Tokens \X Artifacts)]
      BY <1>1 DEF CallInv, TypeOK
    <3>3. files' = [files EXCEPT ![k] = @ \cup {<<s, b>>}]
      BY <1>4, <2>2, <3>1 DEF InsertRow, PublishArtifact, vars
    <3>4. k = j /\ s = t /\ b = a
      BY <1>4, <2>2, <3>2, <3>3
    <3> QED
      BY <1>4, <3>1, <3>4 DEF InsertRow
  <2>3. PICK w \in Workers : /\ Finalize(w) /\ Verified(w)
                             /\ j = worker[w].job /\ t = worker[w].token
    BY <2>1, <2>2
  <2>4. worker[w].run \in 1..runs[j]
    BY <1>1, <2>3 DEF Finalize, At, ClaimHand, Backed, Running
  <2> QED
    BY <1>2, <2>3, <2>4 DEF Verified, StoredFromRun
<1> QED
  BY <1>3, <1>4

-----------------------------------------------------------------------------
(* Theorems *)

\* Over every crash, lost call, late upload and second run, the workers'
\* claims, the storage and the rows that speak of it fit together.
THEOREM RunOfRowsInvariant == WorkerSpec => []RunOfRowsInv
<1>1. WorkerInit => ClaimHand /\ StoreTypeOK /\ PutInv /\ RowsInv
  BY WorkerAssumption
  DEF WorkerAssumption, WorkerInit, Init, ClaimHand, Backed, Working, Running,
      AtPC, StoreTypeOK, PutInv, RowsInv
<1>2. CallInv /\ ClaimHand /\ StoreTypeOK /\ PutInv /\ RowsInv
        /\ [WorkerNext]_allVars
      => (ClaimHand /\ StoreTypeOK /\ PutInv /\ RowsInv)'
  BY ClaimHandStep, StoreStep, RowsStep DEF RunOfRowsInv
<1>3. RunOfRowsInv <=> CallInv /\ ClaimHand /\ StoreTypeOK /\ PutInv /\ RowsInv
  BY DEF RunOfRowsInv
<1> QED
  BY <1>1, <1>2, <1>3, CallInvariant, PTL DEF WorkerSpec

\* A worker at work has a takeoff in hand and a claim that was made, and what is
\* stored or registered belongs to such claims.
THEOREM WorkerTypeCorrect == WorkerSpec => []WorkerTypeOK
<1>1. RunOfRowsInv => WorkerTypeOK
  <2> SUFFICES ASSUME RunOfRowsInv
               PROVE  WorkerTypeOK
    OBVIOUS
  <2>1. /\ worker \in [Workers -> Locals]
        /\ execution \in [Jobs -> Nat] /\ runs \in [Jobs -> Nat]
    BY DEF RunOfRowsInv, CallInv, WorkerRecords, RunInv
  <2>2. StoreTypeOK
    BY DEF RunOfRowsInv
  <2>3. ASSUME NEW w \in Workers,
               worker[w].pc \in Working \cup {"report", "cleanup"}
        PROVE  /\ worker[w].job \in Jobs
               /\ worker[w].token \in 1..attempt_count[worker[w].job]
    BY <2>3 DEF RunOfRowsInv, CallInv, HandInv, ClaimHand, Backed, Working
  <2> QED
    BY <2>1, <2>2, <2>3 DEF WorkerTypeOK, Locals, StoreTypeOK
<1> QED
  BY <1>1, RunOfRowsInvariant, PTL

\* The marked drawings and the workbook of a delivered takeoff come from one run
\* of the processor, for any number of workers, crashes and lost calls.
THEOREM DeliveredFromOneRunHolds == WorkerSpec => []DeliveredFromOneRun
<1>1. RunOfRowsInv => DeliveredFromOneRun
  <2> SUFFICES ASSUME RunOfRowsInv, NEW j \in Jobs, status[j] = "completed"
               PROVE  \E r \in 1..runs[j] : \A a \in Artifacts :
                        /\ Registered(j, claim_token[j], a)
                        /\ <<j, claim_token[j], a, r>> \in objects
    BY DEF DeliveredFromOneRun
  <2>1. /\ claim_token[j] \in Tokens
        /\ \A a \in Artifacts : <<claim_token[j], a>> \in files[j]
    BY DEF RunOfRowsInv, CallInv, TypeOK, DeliveryInv, Deliverable, Tokens, NoToken
  <2>2. "takeoff.xlsx" \in Artifacts
    BY DEF Artifacts
  <2>3. PICK r \in 1..runs[j] :
               \A b \in Artifacts : <<j, claim_token[j], b, r>> \in objects
    BY <2>1, <2>2 DEF RunOfRowsInv, RowsInv
  <2> QED
    BY <2>1, <2>3 DEF Registered
<1> QED
  BY <1>1, RunOfRowsInvariant, PTL

-----------------------------------------------------------------------------
(* Nobody takes a takeoff from a worker that is alive. *)

\* The row's status and claim are as they were.
ClaimStays(j) ==
  /\ status'[j] = status[j]
  /\ claimed_by'[j] = claimed_by[j]
  /\ claim_token'[j] = claim_token[j]

\* A claim is for the queue, so it leaves what is processed alone.
LEMMA ClaimSpares ==
  ASSUME TypeOK, NEW j \in Jobs, status[j] = "processing",
         NEW w, ClaimNext(w) \/ \E k \in Jobs : ClaimJob(w, k)
  PROVE  ClaimStays(j)
<1>1. PICK k \in Jobs : ClaimJob(w, k)
  BY DEF ClaimNext
<1>2. k # j
  BY <1>1 DEF ClaimJob, Claimable
<1> QED
  BY <1>1, <1>2 DEF ClaimJob, ClaimStays, TypeOK

\* A failure or a completion is for the row it names.
LEMMA EndSpares ==
  ASSUME TypeOK, NEW j \in Jobs, NEW k \in Jobs, k # j,
         NEW w, NEW t, NEW retryable,
         Complete(w, k, t) \/ FailAttempt(k, retryable)
  PROVE  ClaimStays(j)
BY DEF Complete, FailAttempt, ClearClaim, ClaimStays, TypeOK

\* Customers, admins, the cron and the clock spare a takeoff that is processed and
\* was heard of, unless an admin cancels it.
LEMMA OthersSpare ==
  ASSUME TypeOK, NEW j \in Jobs, status[j] = "processing", ~stale[j], Others
  PROVE  ClaimStays(j) \/ status'[j] = "canceled"
<1> USE DEF TypeOK, ClaimStays, claimVars
<1>1. ASSUME NEW k \in Jobs, Customer(k)
      PROVE  ClaimStays(j)
  <2>1. k # j
    BY <1>1 DEF Customer, ReserveCredits, QueueFreeSample, RequestCorrection
  <2> QED
    BY <1>1, <2>1 DEF Customer, ReserveCredits, QueueFreeSample, RequestCorrection
<1>2. ASSUME NEW k \in Jobs, GoStale(k) \/ ReconcileRead(k) \/ ExpireAbandoned(k)
      PROVE  ClaimStays(j)
  BY <1>2 DEF GoStale, ReconcileRead, ExpireAbandoned
<1>3. ASSUME NEW k \in Jobs, ReconcileFail(k)
      PROVE  ClaimStays(j)
  <2>1. CASE ReadClaimCurrent(k)
    <3>1. k # j /\ FailAttempt(k, read_token[k] < MaxAttempts)
      BY <1>3, <2>1 DEF ReconcileFail, ReadClaimCurrent
    <3> QED
      BY <3>1, EndSpares
  <2>2. CASE ~ReadClaimCurrent(k)
    BY <1>3, <2>2 DEF ReconcileFail
  <2> QED
    BY <2>1, <2>2
<1>4. ASSUME NEW k \in Jobs, AdminApprove(k) \/ AdminRequeue(k)
      PROVE  ClaimStays(j)
  <2>1. k # j
    BY <1>4 DEF AdminApprove, AdminRequeue
  <2> QED
    BY <1>4, <2>1 DEF AdminApprove, AdminRequeue, ClearClaim
<1>5. ASSUME NEW k \in Jobs, AdminCancel(k)
      PROVE  ClaimStays(j) \/ status'[j] = "canceled"
  BY <1>5 DEF AdminCancel, ClearClaim
<1>6. ASSUME NEW u \in Users, SetProfileStatus(u)
      PROVE  ClaimStays(j)
  BY <1>6 DEF SetProfileStatus
<1> QED
  BY <1>1, <1>2, <1>3, <1>4, <1>5, <1>6 DEF Others, Cron, Admin

\* What a worker calls for spares the takeoff of another worker, and its own while
\* it is at work on it.
LEMMA StepSpares ==
  ASSUME CallInv, NEW w \in Workers, NEW v \in Workers, NEW j \in Jobs,
         j = worker[w].job, worker[w].pc \in Working, worker'[w] = worker[w],
         Owns(w), Step(v)
  PROVE  ClaimStays(j)
<1> USE DEF At
<1>0. /\ TypeOK /\ worker \in [Workers -> Locals]
      /\ status[j] = "processing" /\ claimed_by[j] = w
  BY DEF CallInv, WorkerRecords, Owns, OwnsClaim
<1>1. ASSUME UNCHANGED vars
      PROVE  ClaimStays(j)
  BY <1>1 DEF vars, claimVars, ClaimStays
<1>2. CASE Poll(v)
  BY <1>0, <1>1, <1>2, ClaimSpares DEF Poll
<1>3. CASE Acknowledge(v)
  <2>1. worker[v].job \in Jobs
    BY <1>3 DEF Acknowledge, CallInv, HandInv
  <2> QED
    BY <1>0, <1>1, <1>3, <2>1, ClaimSpares DEF Acknowledge, AcknowledgeHeld
<1>4. CASE Begin(v) \/ Prepare(v) \/ Finalize(v)
  <2>1. Beat(v) \/ UNCHANGED vars
    BY <1>4 DEF Begin, Prepare, Finalize
  <2> QED
    BY <1>1, <2>1 DEF Beat, Progress, claimVars, ClaimStays
<1>5. CASE Deliver(v)
  <2>1. worker[v].job \in Jobs
    BY <1>5 DEF Deliver, CallInv, HandInv
  <2>2. v # w
    <3>1. worker' = [worker EXCEPT ![v] = [worker[v] EXCEPT !.pc = "cleanup"]]
      BY <1>5 DEF Deliver, Goto, Become
    <3>2. worker'[v].pc = "cleanup" /\ worker[v].pc = "deliver"
      BY <1>0, <1>5, <3>1 DEF Deliver, Locals
    <3> QED
      BY <3>2
  <2>3. CASE Complete(v, worker[v].job, worker[v].token)
    <3>1. worker[v].job # j
      BY <1>0, <2>2, <2>3 DEF Complete, OwnsClaim
    <3> QED
      BY <1>0, <2>1, <2>3, <3>1, EndSpares
  <2> QED
    BY <1>1, <1>5, <2>3 DEF Deliver
<1>6. CASE Report(v)
  <2>1. worker[v].job \in Jobs
    BY <1>6 DEF Report, CallInv, HandInv
  <2>2. v # w
    BY <1>6 DEF Report, Working
  <2>3. CASE FailJob(v, worker[v].job, worker[v].token, worker[v].retryable)
    <3>1. worker[v].job # j
      BY <1>0, <2>2, <2>3 DEF FailJob, OwnsClaim
    <3> QED
      BY <1>0, <2>1, <2>3, <3>1, EndSpares DEF FailJob
  <2> QED
    BY <1>1, <1>6, <2>3 DEF Report
<1>7. CASE \/ Submit(v) \/ Deadline(v) \/ ClaimGone(v) \/ ExecutionGone(v)
           \/ RowsAnswered(v) \/ Cleanup(v) \/ \E a \in Artifacts : Upload1(v, a)
  BY <1>1, <1>7 DEF Submit, Deadline, ClaimGone, ExecutionGone, RowsAnswered,
                    Cleanup, Upload1
<1> QED
  BY <1>2, <1>3, <1>4, <1>5, <1>6, <1>7 DEF Step

\* A call that lands late can only end the claim it was made under.
LEMMA LandSpares ==
  ASSUME CallInv, NEW w \in Workers, NEW j \in Jobs, NEW t,
         OwnsClaim(w, j, t), NEW call \in late, Land(call),
         call.op # "put" => call.job # j \/ call.token # t
  PROVE  ClaimStays(j)
<1>0. TypeOK /\ status[j] = "processing" /\ claim_token[j] = t
  BY DEF CallInv, OwnsClaim
<1>1. CASE UNCHANGED vars
  BY <1>1 DEF vars, claimVars, ClaimStays
<1>2. CASE call.op = "next" \/ call.op = "claim"
  <2>1. \/ ClaimNext(call.worker)
        \/ call.job \in Jobs /\ ClaimJob(call.worker, call.job)
    BY <1>2 DEF Land, CallInv, LateInv
  <2> QED
    BY <1>0, <2>1, ClaimSpares
<1>3. CASE call.op = "complete"
  <2>1. Complete(call.worker, call.job, call.token) /\ call.job \in Jobs
    BY <1>3 DEF Land, CallInv, LateInv
  <2>2. call.job # j
    BY <1>0, <1>3, <2>1 DEF Complete, OwnsClaim
  <2> QED
    BY <1>0, <2>1, <2>2, EndSpares
<1>4. CASE call.op = "fail"
  <2>1. /\ FailJob(call.worker, call.job, call.token, call.retryable)
        /\ call.job \in Jobs
    BY <1>4 DEF Land, CallInv, LateInv
  <2>2. call.job # j
    BY <1>0, <1>4, <2>1 DEF FailJob, OwnsClaim
  <2> QED
    BY <1>0, <2>1, <2>2, EndSpares DEF FailJob
<1> QED
  BY <1>1, <1>2, <1>3, <1>4 DEF Land

\* Nobody takes a takeoff from a worker that is busy with it and was heard of in
\* the last 30 minutes: not the cron, not another worker, not a call of an earlier
\* claim that lands late.
THEOREM NoEvictionHolds == WorkerSpec => NoEviction
<1> DEFINE Spared(w) ==
      LET j == worker[w].job
          t == worker[w].token
      IN /\ worker[w].pc \in Working
         /\ worker'[w] = worker[w]
         /\ OwnsClaim(w, j, t)
         /\ ~stale[j]
         /\ \A call \in late : call.op # "put" => call.job # j \/ call.token # t
         => OwnsClaim(w, j, t)' \/ status'[j] = "canceled"
<1>1. CallInv /\ [WorkerNext]_allVars => \A w \in Workers : Spared(w)
  <2> SUFFICES ASSUME CallInv, [WorkerNext]_allVars, NEW w \in Workers,
                      worker[w].pc \in Working, worker'[w] = worker[w],
                      OwnsClaim(w, worker[w].job, worker[w].token),
                      ~stale[worker[w].job],
                      \A call \in late :
                        call.op # "put" => \/ call.job # worker[w].job
                                           \/ call.token # worker[w].token
               PROVE  \/ OwnsClaim(w, worker[w].job, worker[w].token)'
                      \/ status'[worker[w].job] = "canceled"
    OBVIOUS
  <2> DEFINE j == worker[w].job
  <2>1. j \in Jobs /\ TypeOK /\ status[j] = "processing"
    BY DEF CallInv, HandInv, Working, OwnsClaim
  <2>2. ASSUME ClaimStays(j)
        PROVE  OwnsClaim(w, worker[w].job, worker[w].token)'
    BY <2>2 DEF ClaimStays, OwnsClaim
  <2>3. ASSUME UNCHANGED vars
        PROVE  ClaimStays(j)
    BY <2>3 DEF vars, claimVars, ClaimStays
  <2>4. ASSUME NEW v \in Workers, Step(v)
        PROVE  ClaimStays(j)
    BY <2>1, <2>4, StepSpares DEF Owns
  <2>5. ASSUME NEW v \in Workers, Processor(v) \/ Heartbeat(v)
        PROVE  ClaimStays(j)
    <3>1. Beat(v) \/ UNCHANGED vars
      BY <2>5 DEF Processor, RunCompleted, RunFailed, Refused, Heartbeat
    <3> QED
      BY <2>3, <3>1 DEF Beat, Progress, claimVars, ClaimStays
  <2>6. ASSUME NEW call \in late, Land(call)
        PROVE  ClaimStays(j)
    BY <2>1, <2>6, LandSpares
  <2>7. ASSUME Handler
        PROVE  ClaimStays(j)
    BY <2>3, <2>7 DEF Handler, HandlerDies, InsertRow, PublishArtifact, claimVars,
                      ClaimStays
  <2>8. ASSUME \/ \E v \in Workers : Trouble(v) \/ Restart(v)
               \/ \E k \in Jobs : SweepExecution(k)
               \/ \E call \in late : Drop(call)
               \/ UNCHANGED allVars
        PROVE  UNCHANGED vars
    BY <2>8 DEF Trouble, LoseClaimCall, LoseSubmission, LoseCall, LoseReport,
                LoseCleanup, Crash, LosePut, Restart, SweepExecution, Drop, allVars
  <2>9. ASSUME Others
        PROVE  ClaimStays(j) \/ status'[j] = "canceled"
    BY <2>1, <2>9, OthersSpare
  <2> QED
    BY <2>2, <2>3, <2>4, <2>5, <2>6, <2>7, <2>8, <2>9 DEF WorkerNext
<1> QED
  BY <1>1, CallInvariant, PTL DEF WorkerSpec, NoEviction
=============================================================================
