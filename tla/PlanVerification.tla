-------------------------- MODULE PlanVerification --------------------------
(***************************************************************************)
(* From a draft to a quote: POST /api/takeoff/jobs creates a draft, the    *)
(* customer uploads a plan, POST .../submit verifies it under a global     *)
(* lease, and the draft is ready to be confirmed.                          *)
(*                                                                         *)
(* Requests of several tabs run side by side, may be cut off between any   *)
(* two calls, and may stall in a call of the database or of the storage.   *)
(* Downloads and qpdf have deadlines.  Time passes in ticks.               *)
(*                                                                         *)
(* A free sample is one page of the plan, cut out and stored beside it.    *)
(* All drafts are of one customer; the lease is shared by all customers.   *)
(***************************************************************************)
EXTENDS Naturals, FiniteSetsExt

CONSTANTS
  Jobs, Samples,       \* drafts; those that are free samples
  Requests, None,
  Pages,               \* pages a sample may be
  DraftLimit,          \* outstanding drafts of a customer
  Lease,               \* ticks until a verification lease ends
  MaxFaults, MaxStalls \* bounds: requests cut off, ticks spent in a stalled call

VerificationAssumption ==
  /\ Samples \subseteq Jobs /\ None \notin Requests \cup Jobs
  /\ Pages \subseteq Nat \ {0} /\ DraftLimit \in Nat /\ Lease \in Nat \ {0, 1}
  /\ MaxFaults \in Nat /\ MaxStalls \in Nat

VARIABLES
  status,   \* takeoff_jobs.status
  token,    \* takeoff_jobs.verification_token: the request it was made for
  age,      \* ticks since verification_started_at
  file,     \* file[j]: none, plan (the row of the upload) or what was verified
  plan,     \* drafts whose plan is in storage
  sample,   \* sample[j]: the page in <job>/sample.pdf, or 0
  late,     \* drafts whose sample was stored by a request that had lost its lease
  archive,  \* drafts whose plan has a document_archives row
  old,      \* drafts created before the cutoff of the cron
  req,      \* req[r]: a request
  faults, stalls

job == <<status, token, age, file>>
storage == <<plan, sample, late>>
bounds == <<faults, stalls>>
vars == <<job, storage, archive, old, req, bounds>>

Outstanding == {j \in Jobs : status[j] \in {"awaiting_upload", "ready"}}

\* A verified file is a page of the plan, or the whole plan.
Whole == 0
Row == [row: {"none", "plan"}, page: {Whole}] \cup [row: {"verified"}, page: Pages \cup {Whole}]

PC == {"idle", "counted", "inserted", "signed", "begin", "inspect", "register", "put", "finalize", "release"}

Idle == [pc |-> "idle", job |-> None, page |-> Whole]

Init ==
  /\ status = [j \in Jobs |-> "none"] /\ token = [j \in Jobs |-> None] /\ age = [j \in Jobs |-> 0]
  /\ file = [j \in Jobs |-> [row |-> "none", page |-> Whole]]
  /\ plan = {} /\ sample = [j \in Jobs |-> 0] /\ late = {}
  /\ archive = {} /\ old = {}
  /\ req = [r \in Requests |-> Idle] /\ faults = 0 /\ stalls = 0

At(r, pc) == req[r].pc = pc
Become(r, s) == req' = [req EXCEPT ![r] = s]
Goto(r, pc) == Become(r, [req[r] EXCEPT !.pc = pc])

-----------------------------------------------------------------------------
(* POST /api/takeoff/jobs *)

CountDrafts(r, j) ==
  /\ At(r, "idle") /\ status[j] = "none" /\ \A q \in Requests : req[q].job # j
  /\ Cardinality(Outstanding) < DraftLimit
  /\ Become(r, [Idle EXCEPT !.pc = "counted", !.job = j])
  /\ UNCHANGED <<job, storage, archive, old, bounds>>

\* Mutant: the trigger leaves the count to the route.
CountedByRoute == TRUE

\* The trigger enforce_takeoff_draft_limit counts again, under a lock of the customer.
BelowDraftLimit == Cardinality(Outstanding) < DraftLimit

InsertDraft(r) ==
  LET j == req[r].job IN
  /\ At(r, "counted")
  /\ IF BelowDraftLimit
     THEN status' = [status EXCEPT ![j] = "awaiting_upload"] /\ Goto(r, "inserted")
     ELSE Become(r, Idle) /\ UNCHANGED status
  /\ UNCHANGED <<token, age, file, storage, archive, old, bounds>>

\* Mutant: a draft that is deleted gets a status of its own.
SignOrMark(r) ==
  LET j == req[r].job IN
  /\ At(r, "inserted")
  /\ \/ Goto(r, "signed") /\ UNCHANGED status
     \/ status' = [status EXCEPT ![j] = "deleted"] /\ Become(r, Idle)
  /\ UNCHANGED <<token, age, file, storage, archive, old, bounds>>

\* createSignedUploadUrl; a draft that cannot have one is deleted.
Sign(r) ==
  LET j == req[r].job IN
  /\ At(r, "inserted")
  /\ \/ Goto(r, "signed") /\ UNCHANGED status
     \/ status' = [status EXCEPT ![j] = "none"] /\ Become(r, Idle)
  /\ UNCHANGED <<token, age, file, storage, archive, old, bounds>>

InsertFile(r) ==
  LET j == req[r].job IN
  /\ At(r, "signed")
  /\ \/ file' = [file EXCEPT ![j] = [row |-> "plan", page |-> Whole]] /\ UNCHANGED status
     \/ status' = [status EXCEPT ![j] = "none"] /\ UNCHANGED file
  /\ Become(r, Idle)
  /\ UNCHANGED <<token, age, storage, archive, old, bounds>>

-----------------------------------------------------------------------------
(* POST /api/takeoff/jobs/[id]/submit, without confirm *)

\* The draft is read before the lease is asked for.
Submit(r, j, page) ==
  /\ At(r, "idle") /\ status[j] = "awaiting_upload" /\ file[j].row = "plan"
  /\ page \in (IF j \in Samples THEN Pages ELSE {Whole})
  /\ Become(r, [pc |-> "begin", job |-> j, page |-> page])
  /\ UNCHANGED <<job, storage, archive, old, bounds>>

Active(j) == token[j] # None /\ age[j] < Lease

\* Mutant: only the lease of the draft itself is looked at.
FreeToVerifyDraft(j) == status[j] = "awaiting_upload" /\ ~Active(j)

\* The guards of begin_takeoff_verification, under one advisory lock
FreeToVerify(j) == status[j] = "awaiting_upload" /\ \A i \in Jobs : ~Active(i)

\* Mutant: a request that is refused renews the lease of its draft.
BeginRenewing(r) ==
  LET j == req[r].job IN
  /\ At(r, "begin")
  /\ IF FreeToVerify(j)
     THEN /\ token' = [token EXCEPT ![j] = r] /\ age' = [age EXCEPT ![j] = 0]
          /\ Goto(r, "inspect")
     ELSE Become(r, Idle) /\ UNCHANGED token /\ age' = [age EXCEPT ![j] = 0]
  /\ UNCHANGED <<status, file, storage, archive, old, bounds>>

Begin(r) ==
  LET j == req[r].job IN
  /\ At(r, "begin")
  /\ IF FreeToVerify(j)
     THEN /\ token' = [token EXCEPT ![j] = r] /\ age' = [age EXCEPT ![j] = 0]
          /\ Goto(r, "inspect")
     ELSE Become(r, Idle) /\ UNCHANGED <<token, age>>
  /\ UNCHANGED <<status, file, storage, archive, old, bounds>>

\* Download, qpdf and the price: the plan is missing, refused or verified.
Inspect(r) ==
  /\ At(r, "inspect")
  /\ \/ Goto(r, "release")
     \/ req[r].job \in plan /\ Goto(r, "register")
  /\ UNCHANGED <<job, storage, archive, old, bounds>>

\* "job.verification_token <> p_verification_token" is not true of a NULL token.
NotRefused(r, j) == status[j] = "awaiting_upload" /\ token[j] \in {None, r}

\* Mutant: a plan that could not be archived is verified all the same.
RegisterLeniently(r) ==
  LET j == req[r].job IN
  /\ At(r, "register")
  /\ archive' \in {archive, archive \cup {j}}
  /\ Goto(r, IF j \in Samples THEN "put" ELSE "finalize")
  /\ UNCHANGED <<job, storage, old, bounds>>

\* register_verified_document_archive; the archive may be full.
Register(r) ==
  LET j == req[r].job IN
  /\ At(r, "register")
  /\ \/ /\ NotRefused(r, j)
        /\ archive' = archive \cup {j}
        /\ Goto(r, IF j \in Samples THEN "put" ELSE "finalize")
     \/ Goto(r, "release") /\ UNCHANGED archive
  /\ UNCHANGED <<job, storage, old, bounds>>

\* The update has the token in its WHERE clause.
Holds(r, j) == status[j] = "awaiting_upload" /\ token[j] = r

\* The page is stored with upsert, by whoever has the lease by then.
Store(r) ==
  LET j == req[r].job IN
  /\ sample' = [sample EXCEPT ![j] = req[r].page]
  /\ late' = IF Holds(r, j) THEN late \ {j} ELSE late \cup {j}

\* Mutant: a page that could not be stored is verified all the same.
PutLeniently(r) ==
  /\ At(r, "put") /\ Goto(r, "finalize")
  /\ Store(r) \/ UNCHANGED <<sample, late>>
  /\ UNCHANGED <<job, plan, archive, old, bounds>>

PutSample(r) ==
  /\ At(r, "put")
  /\ \/ Store(r) /\ Goto(r, "finalize")
     \/ UNCHANGED <<sample, late>> /\ Goto(r, "release")
  /\ UNCHANGED <<job, plan, archive, old, bounds>>

\* Mutant: whoever comes last is taken for verified.
FinalizeLast(r) ==
  LET j == req[r].job IN
  /\ At(r, "finalize")
  /\ IF status[j] # "queued"
     THEN /\ status' = [status EXCEPT ![j] = "ready"]
          /\ file' = [file EXCEPT ![j] = [row |-> "verified", page |-> req[r].page]]
          /\ token' = [token EXCEPT ![j] = None]
     ELSE UNCHANGED <<status, file, token>>
  /\ Goto(r, "release")
  /\ UNCHANGED <<age, storage, archive, old, bounds>>

\* finalize_takeoff_verification
Finalize(r) ==
  LET j == req[r].job IN
  /\ At(r, "finalize")
  /\ IF Holds(r, j)
     THEN /\ status' = [status EXCEPT ![j] = "ready"]
          /\ file' = [file EXCEPT ![j] = [row |-> "verified", page |-> req[r].page]]
          /\ token' = [token EXCEPT ![j] = None]
     ELSE UNCHANGED <<status, file, token>>
  /\ Goto(r, "release")
  /\ UNCHANGED <<age, storage, archive, old, bounds>>

\* release_takeoff_verification, in a finally block; its failure is ignored.
Release(r) ==
  LET j == req[r].job IN
  /\ At(r, "release")
  /\ \/ token' = [token EXCEPT ![j] = IF Holds(r, j) THEN None ELSE @]
     \/ faults < MaxFaults /\ UNCHANGED token
  /\ faults' = IF Holds(r, j) /\ token'[j] = r THEN faults + 1 ELSE faults
  /\ Become(r, Idle)
  /\ UNCHANGED <<status, age, file, storage, archive, old, stalls>>

-----------------------------------------------------------------------------
(* The customer, the cron, failures and time *)

\* The signed URL stores an object once.
Upload(j) ==
  /\ file[j].row # "none" /\ j \notin plan
  /\ plan' = plan \cup {j}
  /\ UNCHANGED <<job, sample, late, archive, old, req, bounds>>

Confirm(j) ==
  /\ status[j] = "ready"
  /\ status' = [status EXCEPT ![j] = "queued"]
  /\ UNCHANGED <<token, age, file, storage, archive, old, req, bounds>>

\* Mutant: a draft that has its quote is not abandoned.
ExpireUnverified(j) ==
  /\ j \in old /\ status[j] = "awaiting_upload"
  /\ status' = [status EXCEPT ![j] = "canceled"] /\ token' = [token EXCEPT ![j] = None]
  /\ UNCHANGED <<age, file, storage, archive, old, req, bounds>>

\* expire_abandoned_takeoff_job
Expire(j) ==
  /\ j \in old /\ j \in Outstanding
  /\ status' = [status EXCEPT ![j] = "canceled"] /\ token' = [token EXCEPT ![j] = None]
  /\ UNCHANGED <<age, file, storage, archive, old, req, bounds>>

\* A day passes, and no draft is a day in the making.
GrowOld(j) ==
  /\ j \in Outstanding /\ j \notin old
  /\ \A r \in Requests : req[r].job = j => req[r].pc \notin {"inserted", "signed"}
  /\ old' = old \cup {j}
  /\ UNCHANGED <<job, storage, archive, req, bounds>>

CutOff(r) ==
  /\ ~At(r, "idle") /\ faults < MaxFaults /\ faults' = faults + 1
  /\ Become(r, Idle)
  /\ UNCHANGED <<job, storage, archive, old, stalls>>

Calling == {"register", "put", "finalize", "release"}
Overdue == {r \in Requests : req[r].pc \in Calling \cup {"inspect"} /\ age[req[r].job] >= 1}

\* The inspection takes less than a tick, by its deadlines; the calls after it too,
\* unless one of them stalls.
Tick ==
  /\ \E j \in Jobs : Active(j)
  /\ \A r \in Overdue : req[r].pc \in Calling
  /\ stalls + Cardinality(Overdue) <= MaxStalls
  /\ stalls' = stalls + Cardinality(Overdue)
  /\ age' = [j \in Jobs |-> IF Active(j) THEN age[j] + 1 ELSE age[j]]
  /\ UNCHANGED <<status, token, file, storage, archive, old, req, faults>>

Step(r) ==
  \/ InsertDraft(r) \/ Sign(r) \/ InsertFile(r)
  \/ Begin(r) \/ Inspect(r) \/ Register(r) \/ PutSample(r) \/ Finalize(r) \/ Release(r)

Next ==
  \/ \E r \in Requests : \/ Step(r) \/ CutOff(r)
                         \/ \E j \in Jobs : \/ CountDrafts(r, j)
                                            \/ \E page \in Pages \cup {Whole} : Submit(r, j, page)
  \/ \E j \in Jobs : Upload(j) \/ Confirm(j) \/ Expire(j) \/ GrowOld(j)
  \/ Tick

Spec == Init /\ [][Next]_vars

-----------------------------------------------------------------------------
(* Properties *)

TypeOK ==
  /\ status \in [Jobs -> {"none", "awaiting_upload", "ready", "queued", "canceled"}]
  /\ token \in [Jobs -> Requests \cup {None}] /\ age \in [Jobs -> 0..Lease]
  /\ file \in [Jobs -> Row] /\ plan \subseteq Jobs /\ sample \in [Jobs -> Pages \cup {0}]
  /\ late \subseteq Jobs /\ archive \subseteq Jobs /\ old \subseteq Jobs
  /\ req \in [Requests -> [pc: PC, job: Jobs \cup {None}, page: Pages \cup {Whole}]]
  /\ faults \in 0..MaxFaults /\ stalls \in 0..MaxStalls

Verified == {j \in Jobs : status[j] \in {"ready", "queued"}}

Inspecting == {r \in Requests : At(r, "inspect")}

\* Whatever is cut off or stalls, one plan of the drafts that are still wanted is
\* downloaded and inspected at a time, and no plan twice at once.  The inspection of a
\* plan goes on beside the next one's when its draft was canceled meanwhile.
LeaseSerializes ==
  /\ Cardinality({r \in Inspecting : status[req[r].job] # "canceled"}) <= 1
  /\ \A r, q \in Inspecting : req[r].job = req[q].job => r = q

\* V:3: "Serialize that bounded CPU/memory section across every app instance."
OneInspection == Cardinality(Inspecting) <= 1

\* A customer has at most three outstanding drafts, with parallel requests too.
DraftsAreLimited == Cardinality(Outstanding) <= DraftLimit

\* What is quoted was archived before.
QuotedIsArchived == Verified \subseteq archive

\* M:4460: "Plan object, PDF signature, page count, and fixed quote verified."  The plan
\* that was verified lies in storage, and so does the page of a free sample that the
\* row names, unless a request that had lost its lease stored its own page over it.
VerifiedIsStored ==
  \A j \in Verified : /\ j \in plan
                      /\ file[j].row = "verified"
                      /\ j \in Samples => sample[j] = file[j].page \/ j \in late

\* The same without the late requests.  Refuted for free samples when calls stall.
SampleIsVerified == \A j \in Verified \cap Samples : sample[j] = file[j].page

\* A quote is fixed, and an expired draft stays so, whatever request is still running.
QuoteIsFixed ==
  \A j \in Jobs : /\ j \in Verified => file'[j] = file[j] /\ status'[j] # "awaiting_upload"
                  /\ status[j] = "canceled" => status'[j] = "canceled"

\* register_verified_document_archive raises "The takeoff verification claim is no
\* longer active." for everybody but the holder of the claim.
ArchivedByHolder == \A j \in archive' \ archive : token[j] # None

=============================================================================
