------------------------ MODULE PlanVerification_proofs ------------------------
(***************************************************************************)
(* Theorems about drafts and their verification, for any finite sets of    *)
(* drafts and requests, any pages, limits, lease, faults and stalls.       *)
(***************************************************************************)
EXTENDS PlanVerification, FiniteSetTheorems, TLAPS

\* The assumptions on the constants.  There are finitely many drafts and requests.
Finite == VerificationAssumption /\ IsFiniteSet(Jobs) /\ IsFiniteSet(Requests)

Creating == {"counted", "inserted", "signed"}

\* The step at which a request has the lease, for it has deadlines: no other has
Watched == {"inspect"}

\* Request r, in state s, has the lease, or its draft expired meanwhile.
Current(r, s) ==
  \/ status[s.job] = "canceled"
  \/ status[s.job] = "awaiting_upload" /\ token[s.job] = r /\ age[s.job] <= 1

\* The page of state s is in storage, unless a late request stored another.
Stored(s) == sample[s.job] = s.page \/ s.job \in late

\* What request r knows in state s
RequestOK(r, s) ==
  /\ s.pc = "idle" => s.job = None
  /\ s.pc # "idle" => s.job \in Jobs
  /\ s.pc \in Creating => file[s.job].row = "none"
  /\ s.pc = "counted" => status[s.job] = "none"
  /\ s.pc \in {"inserted", "signed"} => status[s.job] = "awaiting_upload" /\ s.job \notin old
  /\ s.pc \in Watched => Current(r, s)
  /\ s.pc \in {"register", "put", "finalize"} => s.job \in plan
  /\ s.pc \in {"put", "finalize"} => s.job \in archive
  /\ s.pc = "finalize" /\ s.job \in Samples /\ Holds(r, s.job) => Stored(s)

\* A draft that is not there has nothing; one with a quote has what it was made of.
DraftOK(j) ==
  /\ status[j] = "none" => file[j].row = "none" /\ j \notin old
  /\ status[j] \in {"ready", "queued"} =>
       /\ j \in archive /\ j \in plan /\ file[j].row = "verified"
       /\ j \in Samples => sample[j] = file[j].page \/ j \in late

\* A draft that is being created has one request.
OneCreates ==
  \A r, q \in Requests : req[r].pc \in Creating /\ req[q].job = req[r].job => q = r

\* One lease at a time
OneActive == \A i, j \in Jobs : Active(i) /\ Active(j) => i = j

PlanInv ==
  /\ TypeOK /\ DraftsAreLimited /\ OneCreates /\ OneActive
  /\ \A r \in Requests : RequestOK(r, req[r])
  /\ \A j \in Jobs : DraftOK(j)

-----------------------------------------------------------------------------
(* Types and kinds of steps *)

Calls == [pc: PC, job: Jobs \cup {None}, page: Pages \cup {Whole}]

DraftTypes ==
  /\ status \in [Jobs -> {"none", "awaiting_upload", "ready", "queued", "canceled"}]
  /\ token \in [Jobs -> Requests \cup {None}] /\ age \in [Jobs -> 0..Lease]
  /\ file \in [Jobs -> Row]

StoreTypes ==
  /\ plan \subseteq Jobs /\ sample \in [Jobs -> Pages \cup {0}]
  /\ late \subseteq Jobs /\ archive \subseteq Jobs /\ old \subseteq Jobs

BoundTypes == faults \in 0..MaxFaults /\ stalls \in 0..MaxStalls

\* TypeOK in parts
LEMMA TypeParts ==
  TypeOK <=> DraftTypes /\ StoreTypes /\ req \in [Requests -> Calls] /\ BoundTypes
BY DEF TypeOK, DraftTypes, StoreTypes, BoundTypes, Calls

\* The same of a step's result
LEMMA TypePartsNext ==
  TypeOK' <=> DraftTypes' /\ StoreTypes' /\ req' \in [Requests -> Calls] /\ BoundTypes'
BY DEF TypeOK, DraftTypes, StoreTypes, BoundTypes, Calls

\* What is known of the constants
LEMMA Constants ==
  ASSUME Finite
  PROVE  /\ None \notin Requests /\ None \notin Jobs /\ Lease \in Nat /\ Lease > 1
         /\ DraftLimit \in Nat /\ MaxFaults \in Nat /\ MaxStalls \in Nat
         /\ Samples \subseteq Jobs
BY DEF Finite, VerificationAssumption

\* The request that waits
LEMMA IdleFields ==
  /\ Idle \in Calls /\ Idle.pc = "idle" /\ Idle.job = None
BY DEF Idle, Calls, PC, Whole

\* One request moves.
LEMMA Moves ==
  ASSUME req \in [Requests -> Calls], NEW r \in Requests, NEW s \in Calls, Become(r, s)
  PROVE  /\ req' \in [Requests -> Calls] /\ req'[r] = s
         /\ \A q \in Requests \ {r} : req'[q] = req[q]
BY DEF Become

\* It goes to another place.
LEMMA Goes ==
  ASSUME req \in [Requests -> Calls], NEW r \in Requests, NEW pc \in PC, Goto(r, pc)
  PROVE  /\ req' \in [Requests -> Calls]
         /\ req'[r].pc = pc /\ req'[r].job = req[r].job /\ req'[r].page = req[r].page
         /\ \A q \in Requests \ {r} : req'[q] = req[q]
<1> DEFINE s == [req[r] EXCEPT !.pc = pc]
<1>1. s \in Calls /\ s.pc = pc /\ s.job = req[r].job /\ s.page = req[r].page
  BY DEF Calls
<1>2. Become(r, s)
  BY DEF Goto
<1> HIDE DEF s
<1> QED
  BY <1>1, <1>2, Moves

\* The drafts of a customer do not grow by a step that adds none.
LEMMA FewerDrafts ==
  ASSUME Finite, DraftsAreLimited, Outstanding' \subseteq Outstanding
  PROVE  DraftsAreLimited'
<1>1. IsFiniteSet(Outstanding)
  BY FS_Subset DEF Finite, Outstanding
<1>2. Cardinality(Outstanding') <= Cardinality(Outstanding)
      /\ Cardinality(Outstanding') \in Nat /\ Cardinality(Outstanding) \in Nat
  BY <1>1, FS_Subset, FS_CardinalityType
<1> QED
  BY <1>2, Constants DEF DraftsAreLimited

\* Nothing that matters to request q, in state s, changes of its draft.
Stays(q, s) ==
  /\ s.pc \in Creating =>
       /\ status'[s.job] = status[s.job] /\ file'[s.job].row = file[s.job].row
       /\ s.job \in old' => s.job \in old
  /\ s.pc \in Watched =>
       \/ status'[s.job] = "canceled"
       \/ /\ status'[s.job] = status[s.job] /\ token'[s.job] = token[s.job]
          /\ age'[s.job] = age[s.job] \/ age'[s.job] <= 1
  /\ s.pc = "finalize" /\ status'[s.job] = "awaiting_upload" /\ token'[s.job] = q =>
       /\ status[s.job] = "awaiting_upload" /\ token[s.job] = q
       /\ (sample'[s.job] = sample[s.job] /\ s.job \notin late) \/ s.job \in late'

\* Then it knows what it knew.
LEMMA Untouched ==
  ASSUME NEW q, NEW s, RequestOK(q, s), Stays(q, s), plan \subseteq plan', archive \subseteq archive'
  PROVE  RequestOK(q, s)'
BY DEF RequestOK, Stays, Current, Creating, Watched, Holds, Stored

\* The same of a request that does not move
LEMMA OthersStay ==
  ASSUME PlanInv, NEW q \in Requests, req'[q] = req[q], Stays(q, req[q]),
         plan \subseteq plan', archive \subseteq archive'
  PROVE  RequestOK(q, req[q])'
<1>1. PICK s : s = req[q]
  OBVIOUS
<1>2. RequestOK(q, s) /\ req'[q] = s /\ Stays(q, s)
  BY <1>1 DEF PlanInv
<1>3. RequestOK(q, s)'
  BY <1>2, Untouched
<1> QED
  BY <1>2, <1>3

\* A step of one request that changes nothing else
LEMMA RequestMoves ==
  ASSUME Finite, PlanInv, NEW r \in Requests, NEW s \in Calls, Become(r, s), RequestOK(r, s),
         s.pc \in Creating => \A q \in Requests \ {r} : req[q].job # s.job,
         \A q \in Requests \ {r} : req[q].pc \in Creating => req[q].job # s.job,
         BoundTypes', UNCHANGED <<job, storage, archive, old>>
  PROVE  PlanInv'
<1>1. /\ status' = status /\ token' = token /\ age' = age /\ file' = file
      /\ plan' = plan /\ sample' = sample /\ late' = late /\ archive' = archive /\ old' = old
  BY DEF job, storage
<1>2. /\ req' \in [Requests -> Calls] /\ req'[r] = s
      /\ \A q \in Requests \ {r} : req'[q] = req[q]
  BY Moves, TypeParts DEF PlanInv
<1>3. TypeOK'
  BY <1>1, <1>2, TypeParts, TypePartsNext DEF PlanInv, DraftTypes, StoreTypes
<1>4. DraftsAreLimited' /\ OneActive'
  BY <1>1 DEF PlanInv, DraftsAreLimited, Outstanding, OneActive, Active
<1>5. OneCreates'
  BY <1>2 DEF PlanInv, OneCreates
<1>6. \A q \in Requests : RequestOK(q, req[q])'
  BY <1>1, <1>2 DEF PlanInv, RequestOK, Current, Holds, Stored
<1>7. \A j \in Jobs : DraftOK(j)'
  BY <1>1 DEF PlanInv, DraftOK
<1> QED
  BY <1>3, <1>4, <1>5, <1>6, <1>7 DEF PlanInv

\* What is known of a request
LEMMA RequestFacts ==
  ASSUME PlanInv, NEW r \in Requests
  PROVE  /\ req[r] \in Calls /\ RequestOK(r, req[r])
         /\ req[r].pc # "idle" => req[r].job \in Jobs
         /\ req[r].pc \in Creating =>
              \A q \in Requests \ {r} : req[q].job # req[r].job
         /\ req[r].pc \notin Creating =>
              \A q \in Requests \ {r} : req[q].pc \in Creating => req[q].job # req[r].job
<1>1. req[r] \in Calls /\ RequestOK(r, req[r]) /\ OneCreates
  BY TypeParts DEF PlanInv
<1> QED
  BY <1>1 DEF RequestOK, OneCreates

\* A request at such a step has the lease of its draft, unless that expired.
LEMMA HasLease ==
  ASSUME Finite, PlanInv, NEW q \in Requests, req[q].pc \in Watched,
         status[req[q].job] # "canceled"
  PROVE  /\ status[req[q].job] = "awaiting_upload" /\ token[req[q].job] = q
         /\ req[q].job \in Jobs /\ Active(req[q].job)
<1>1. Current(q, req[q]) /\ req[q].job \in Jobs
  BY DEF PlanInv, RequestOK, Watched
<1>2. \A j \in Jobs : age[j] \in Nat
  BY Constants, TypeParts DEF PlanInv, DraftTypes
<1> QED
  BY <1>1, <1>2, Constants DEF Current, Active

\* A request ends, with nothing else changed.
LEMMA RequestEnds ==
  ASSUME Finite, PlanInv, NEW r \in Requests, Become(r, Idle), BoundTypes',
         UNCHANGED <<job, storage, archive, old>>
  PROVE  PlanInv'
<1>1. RequestOK(r, Idle) /\ Idle \in Calls /\ Idle.pc \notin Creating /\ Idle.job = None
  BY IdleFields DEF RequestOK, Creating, Watched
<1>2. \A q \in Requests : req[q].pc \in Creating => req[q].job # None
  BY Constants DEF PlanInv, RequestOK, Creating
<1> QED
  BY <1>1, <1>2, RequestMoves

\* Or goes on
LEMMA RequestGoes ==
  ASSUME Finite, PlanInv, NEW r \in Requests, NEW pc \in PC \ {"idle"}, Goto(r, pc), pc \notin Creating,
         req[r].pc \notin {"idle"} \cup Creating,
         \A s \in Calls : s.pc = pc /\ s.job = req[r].job /\ s.page = req[r].page => RequestOK(r, s),
         BoundTypes', UNCHANGED <<job, storage, archive, old>>
  PROVE  PlanInv'
<1> DEFINE s == [req[r] EXCEPT !.pc = pc]
<1>1. req[r] \in Calls
  BY RequestFacts
<1>2. s \in Calls /\ s.pc = pc /\ s.job = req[r].job /\ s.page = req[r].page
  BY <1>1 DEF Calls
<1>3. Become(r, s)
  BY DEF Goto
<1> HIDE DEF s
<1>4. RequestOK(r, s)
  BY <1>2
<1> QED
  BY <1>2, <1>3, <1>4, RequestFacts, RequestMoves

\* Who creates which draft, after a request went on or ended
LEMMA CreatesOn ==
  ASSUME Finite, PlanInv, NEW r \in Requests,
         \A q \in Requests \ {r} : req'[q] = req[q],
         \/ /\ req'[r].job = req[r].job
            /\ req'[r].pc \in Creating => req[r].pc \in Creating
         \/ req'[r] = Idle
  PROVE  OneCreates'
<1>1. \A q \in Requests : req[q].pc \in Creating => req[q].job # None
  BY Constants DEF PlanInv, RequestOK, Creating
<1>2. Idle.pc \notin Creating /\ Idle.job = None
  BY IdleFields DEF Creating
<1> QED
  BY <1>1, <1>2 DEF PlanInv, OneCreates

\* What a request knows when it has ended
LEMMA IdleOK ==
  ASSUME NEW r
  PROVE  RequestOK(r, Idle)'
BY IdleFields DEF RequestOK, Creating, Watched

-----------------------------------------------------------------------------
(* The creation of a draft *)

\* A request that found room goes to insert a draft.
LEMMA CountStep ==
  ASSUME Finite, PlanInv, NEW r \in Requests, NEW j \in Jobs, CountDrafts(r, j)
  PROVE  PlanInv'
<1> DEFINE s == [Idle EXCEPT !.pc = "counted", !.job = j]
<1>1. s \in Calls /\ s.pc = "counted" /\ s.job = j
  BY DEF Idle, Calls, PC, Whole
<1>2. /\ Become(r, s) /\ status[j] = "none" /\ \A q \in Requests : req[q].job # j
      /\ UNCHANGED <<job, storage, archive, old>> /\ BoundTypes'
  BY TypeParts DEF CountDrafts, PlanInv, BoundTypes, bounds
<1> HIDE DEF s
<1>3. file[j].row = "none"
  BY <1>2 DEF PlanInv, DraftOK
<1>4. RequestOK(r, s)
  BY <1>1, <1>2, <1>3 DEF RequestOK, Creating, Watched
<1> QED
  BY <1>1, <1>2, <1>4, RequestMoves

\* A draft is inserted if there is still room.
LEMMA InsertDraftStep ==
  ASSUME Finite, PlanInv, NEW r \in Requests, InsertDraft(r)
  PROVE  PlanInv'
<1> DEFINE j == req[r].job
<1>1. /\ req[r] \in Calls /\ RequestOK(r, req[r]) /\ req[r].pc = "counted" /\ j \in Jobs
      /\ \A q \in Requests \ {r} : req[q].job # j
      /\ status[j] = "none" /\ file[j].row = "none" /\ j \notin old
  BY RequestFacts DEF InsertDraft, At, RequestOK, Creating, PlanInv, DraftOK
<1>2. /\ token' = token /\ age' = age /\ file' = file /\ plan' = plan /\ sample' = sample /\ late' = late
      /\ archive' = archive /\ old' = old /\ faults' = faults /\ stalls' = stalls
  BY DEF InsertDraft, storage, bounds
<1>3. CASE BelowDraftLimit
  <2>1. status' = [status EXCEPT ![j] = "awaiting_upload"] /\ Goto(r, "inserted")
    BY <1>3 DEF InsertDraft
  <2>2. /\ req' \in [Requests -> Calls]
        /\ req'[r].pc = "inserted" /\ req'[r].job = j /\ req'[r].page = req[r].page
        /\ \A q \in Requests \ {r} : req'[q] = req[q]
    BY <2>1, Goes, TypeParts DEF PlanInv, PC
  <2>3. /\ DraftTypes /\ StoreTypes /\ BoundTypes
        /\ status'[j] = "awaiting_upload" /\ \A i \in Jobs \ {j} : status'[i] = status[i]
    BY <1>1, <2>1, TypeParts DEF PlanInv, DraftTypes
  <2> HIDE DEF j
  <2>4. TypeOK'
    BY <1>1, <1>2, <2>1, <2>2, <2>3, TypePartsNext DEF DraftTypes, StoreTypes, BoundTypes
  <2>5. DraftsAreLimited'
    <3>1. Outstanding' = Outstanding \cup {j} /\ j \notin Outstanding
      BY <1>1, <2>3 DEF Outstanding
    <3>2. IsFiniteSet(Outstanding)
      BY FS_Subset DEF Finite, Outstanding
    <3>3. Cardinality(Outstanding') = Cardinality(Outstanding) + 1
          /\ Cardinality(Outstanding) \in Nat
      BY <3>1, <3>2, FS_AddElement, FS_CardinalityType
    <3> QED
      BY <1>3, <3>3, Constants DEF DraftsAreLimited, BelowDraftLimit
  <2>6. OneCreates'
    BY <1>1, <2>2, CreatesOn DEF j, Creating
  <2>7. OneActive'
    BY <1>2 DEF PlanInv, OneActive, Active
  <2>8. ASSUME NEW q \in Requests
        PROVE  RequestOK(q, req[q])'
    <3>1. CASE q = r
      BY <1>1, <1>2, <2>2, <2>3, <3>1 DEF RequestOK, Creating, Watched
    <3>2. CASE q # r
      <4>1. req'[q] = req[q] /\ (req[q].pc # "idle" => req[q].job \in Jobs \ {j})
        BY <1>1, <2>2, <3>2, RequestFacts
      <4>2. Stays(q, req[q])
        BY <1>2, <2>3, <4>1 DEF Stays, Creating, Watched
      <4> QED
        BY <1>2, <4>1, <4>2, OthersStay
    <3> QED
      BY <3>1, <3>2
  <2>9. \A i \in Jobs : DraftOK(i)'
    BY <1>1, <1>2, <2>3 DEF PlanInv, DraftOK
  <2> QED
    BY <2>4, <2>5, <2>6, <2>7, <2>8, <2>9 DEF PlanInv
<1>4. CASE ~BelowDraftLimit
  <2>1. Become(r, Idle) /\ UNCHANGED <<job, storage, archive, old>> /\ BoundTypes'
    BY <1>2, <1>4, TypeParts DEF InsertDraft, job, storage, PlanInv, BoundTypes
  <2> QED
    BY <2>1, RequestEnds
<1> QED
  BY <1>3, <1>4

\* A draft that cannot be made is deleted.
LEMMA DeleteDraft ==
  ASSUME Finite, PlanInv, NEW r \in Requests, req[r].pc \in {"inserted", "signed"},
         status' = [status EXCEPT ![req[r].job] = "none"], Become(r, Idle),
         UNCHANGED <<token, age, file, storage, archive, old, bounds>>
  PROVE  PlanInv'
<1> DEFINE j == req[r].job
<1>1. /\ RequestOK(r, req[r]) /\ j \in Jobs /\ \A q \in Requests \ {r} : req[q].job # j
      /\ file[j].row = "none" /\ j \notin old
  BY RequestFacts DEF RequestOK, Creating
<1>2. /\ token' = token /\ age' = age /\ file' = file /\ plan' = plan /\ sample' = sample /\ late' = late
      /\ archive' = archive /\ old' = old /\ faults' = faults /\ stalls' = stalls
  BY DEF storage, bounds
<1>3. /\ req' \in [Requests -> Calls] /\ req'[r] = Idle
      /\ \A q \in Requests \ {r} : req'[q] = req[q]
  BY IdleFields, Moves, TypeParts DEF PlanInv
<1>4. /\ DraftTypes /\ StoreTypes /\ BoundTypes
      /\ status'[j] = "none" /\ \A i \in Jobs \ {j} : status'[i] = status[i]
      /\ status' = [status EXCEPT ![j] = "none"]
  BY <1>1, TypeParts DEF PlanInv, DraftTypes
<1>5. OneCreates'
  BY <1>3, CreatesOn
<1> HIDE DEF j
<1>6. TypeOK'
  BY <1>1, <1>2, <1>3, <1>4, TypePartsNext DEF DraftTypes, StoreTypes, BoundTypes
<1>7. DraftsAreLimited'
  <2>1. Outstanding' \subseteq Outstanding
    BY <1>4 DEF Outstanding
  <2> QED
    BY <2>1, FewerDrafts DEF PlanInv
<1>8. OneActive'
  BY <1>2 DEF PlanInv, OneActive, Active
<1>9. ASSUME NEW q \in Requests
      PROVE  RequestOK(q, req[q])'
  <2>1. CASE q = r
    BY <1>3, <2>1, IdleOK
  <2>2. CASE q # r
    <3>1. req'[q] = req[q] /\ (req[q].pc # "idle" => req[q].job \in Jobs \ {j})
      BY <1>1, <1>3, <2>2, RequestFacts
    <3>2. Stays(q, req[q])
      BY <1>2, <1>4, <3>1 DEF Stays, Creating, Watched
    <3> QED
      BY <1>2, <3>1, <3>2, OthersStay
  <2> QED
    BY <2>1, <2>2
<1>10. \A i \in Jobs : DraftOK(i)'
  BY <1>1, <1>2, <1>4 DEF PlanInv, DraftOK
<1> QED
  BY <1>5, <1>6, <1>7, <1>8, <1>9, <1>10 DEF PlanInv

\* A draft gets the address for its plan, or is deleted.
LEMMA SignStep ==
  ASSUME Finite, PlanInv, NEW r \in Requests, Sign(r)
  PROVE  PlanInv'
<1>1. req[r] \in Calls /\ RequestOK(r, req[r]) /\ req[r].pc = "inserted"
  BY RequestFacts DEF Sign, At
<1>2. CASE Goto(r, "signed") /\ UNCHANGED status
  <2> DEFINE s == [req[r] EXCEPT !.pc = "signed"]
  <2>1. s \in Calls /\ s.pc = "signed" /\ s.job = req[r].job
    BY <1>1 DEF Calls, PC
  <2>2. Become(r, s) /\ UNCHANGED <<job, storage, archive, old>> /\ BoundTypes'
    BY <1>2, TypeParts DEF Goto, Sign, job, bounds, PlanInv, BoundTypes
  <2> HIDE DEF s
  <2>3. RequestOK(r, s)
    BY <1>1, <2>1 DEF RequestOK, Creating, Watched
  <2>4. \A q \in Requests \ {r} : req[q].job # s.job
    BY <1>1, <2>1, RequestFacts DEF Creating
  <2> QED
    BY <2>1, <2>2, <2>3, <2>4, RequestMoves
<1>3. CASE status' = [status EXCEPT ![req[r].job] = "none"] /\ Become(r, Idle)
  BY <1>1, <1>3, DeleteDraft DEF Sign
<1> QED
  BY <1>2, <1>3 DEF Sign

\* The row of its plan is inserted, or it is deleted.
LEMMA InsertFileStep ==
  ASSUME Finite, PlanInv, NEW r \in Requests, InsertFile(r)
  PROVE  PlanInv'
<1> DEFINE j == req[r].job
           f == [row |-> "plan", page |-> Whole]
<1>1. /\ RequestOK(r, req[r]) /\ req[r].pc = "signed" /\ j \in Jobs
      /\ \A q \in Requests \ {r} : req[q].job # j
      /\ status[j] = "awaiting_upload" /\ Become(r, Idle)
  BY RequestFacts DEF InsertFile, At, RequestOK, Creating
<1>2. CASE file' = [file EXCEPT ![j] = f] /\ UNCHANGED status
  <2>1. /\ token' = token /\ age' = age /\ status' = status /\ plan' = plan /\ sample' = sample /\ late' = late
        /\ archive' = archive /\ old' = old /\ faults' = faults /\ stalls' = stalls
    BY <1>2 DEF InsertFile, storage, bounds
  <2>2. /\ req' \in [Requests -> Calls] /\ req'[r] = Idle
        /\ \A q \in Requests \ {r} : req'[q] = req[q]
    BY <1>1, IdleFields, Moves, TypeParts DEF PlanInv
  <2>3. f \in Row
    BY DEF Row
  <2>4. OneCreates'
    BY <2>2, CreatesOn
  <2>5. /\ DraftTypes /\ StoreTypes /\ BoundTypes
        /\ \A i \in Jobs \ {j} : file'[i] = file[i]
        /\ file' = [file EXCEPT ![j] = f]
    BY <1>1, <1>2, TypeParts DEF PlanInv, DraftTypes
  <2> HIDE DEF j, f
  <2>6. TypeOK'
    BY <1>1, <2>1, <2>2, <2>3, <2>5, TypePartsNext DEF DraftTypes, StoreTypes, BoundTypes
  <2>7. DraftsAreLimited' /\ OneActive'
    BY <2>1 DEF PlanInv, DraftsAreLimited, Outstanding, OneActive, Active
  <2>8. ASSUME NEW q \in Requests
        PROVE  RequestOK(q, req[q])'
    <3>1. CASE q = r
      BY <2>2, <3>1, IdleOK
    <3>2. CASE q # r
      <4>1. req'[q] = req[q] /\ (req[q].pc # "idle" => req[q].job \in Jobs \ {j})
        BY <1>1, <2>2, <3>2, RequestFacts
      <4>2. Stays(q, req[q])
        BY <2>1, <2>5, <4>1 DEF Stays, Creating, Watched
      <4> QED
        BY <2>1, <4>1, <4>2, OthersStay
    <3> QED
      BY <3>1, <3>2
  <2>9. \A i \in Jobs : DraftOK(i)'
    BY <1>1, <2>1, <2>5 DEF PlanInv, DraftOK
  <2> QED
    BY <2>4, <2>6, <2>7, <2>8, <2>9 DEF PlanInv
<1>3. CASE status' = [status EXCEPT ![j] = "none"] /\ UNCHANGED file
  BY <1>1, <1>3, DeleteDraft DEF InsertFile
<1> QED
  BY <1>2, <1>3 DEF InsertFile

-----------------------------------------------------------------------------
(* The verification of a plan *)

\* A draft is submitted.
LEMMA SubmitStep ==
  ASSUME Finite, PlanInv, NEW r \in Requests, NEW j \in Jobs, NEW page \in Pages \cup {Whole},
         Submit(r, j, page)
  PROVE  PlanInv'
<1> DEFINE s == [pc |-> "begin", job |-> j, page |-> page]
<1>1. s \in Calls /\ s.pc = "begin" /\ s.job = j
  BY DEF Calls, PC
<1>2. /\ Become(r, s) /\ file[j].row = "plan"
      /\ UNCHANGED <<job, storage, archive, old>> /\ BoundTypes'
  BY TypeParts DEF Submit, PlanInv, BoundTypes, bounds
<1> HIDE DEF s
<1>3. RequestOK(r, s)
  BY <1>1 DEF RequestOK, Creating, Watched
<1>4. \A q \in Requests \ {r} : req[q].pc \in Creating => req[q].job # s.job
  BY <1>1, <1>2 DEF PlanInv, RequestOK
<1> QED
  BY <1>1, <1>2, <1>3, <1>4, RequestMoves DEF Creating

\* The lease is given to a request, or the request ends.
LEMMA BeginStep ==
  ASSUME Finite, PlanInv, NEW r \in Requests, Begin(r)
  PROVE  PlanInv'
<1> DEFINE j == req[r].job
<1>1. /\ RequestOK(r, req[r]) /\ req[r].pc = "begin" /\ j \in Jobs
      /\ req[r].pc \notin Creating
      /\ \A q \in Requests \ {r} : req[q].pc \in Creating => req[q].job # j
  BY RequestFacts DEF Begin, At, Creating
<1>2. CASE FreeToVerify(j)
  <2>1. /\ token' = [token EXCEPT ![j] = r] /\ age' = [age EXCEPT ![j] = 0]
        /\ Goto(r, "inspect") /\ status[j] = "awaiting_upload" /\ \A i \in Jobs : ~Active(i)
    BY <1>2 DEF Begin, FreeToVerify
  <2>2. /\ status' = status /\ file' = file /\ plan' = plan /\ sample' = sample /\ late' = late
        /\ archive' = archive /\ old' = old /\ faults' = faults /\ stalls' = stalls
    BY DEF Begin, storage, bounds
  <2>3. /\ req' \in [Requests -> Calls]
        /\ req'[r].pc = "inspect" /\ req'[r].job = j /\ req'[r].page = req[r].page
        /\ \A q \in Requests \ {r} : req'[q] = req[q]
    BY <2>1, Goes, TypeParts DEF PlanInv, PC
  <2>4. /\ DraftTypes /\ StoreTypes /\ BoundTypes
        /\ token'[j] = r /\ \A i \in Jobs \ {j} : token'[i] = token[i]
        /\ age'[j] = 0 /\ \A i \in Jobs \ {j} : age'[i] = age[i]
    BY <1>1, <2>1, TypeParts DEF PlanInv, DraftTypes
  <2>5. OneCreates'
    BY <1>1, <2>3, CreatesOn DEF Creating
  <2> HIDE DEF j
  <2>6. TypeOK'
    BY <1>1, <2>1, <2>2, <2>3, <2>4, Constants, TypePartsNext DEF DraftTypes, StoreTypes, BoundTypes
  <2>7. DraftsAreLimited' /\ OneActive'
    BY <2>1, <2>2, <2>4 DEF PlanInv, DraftsAreLimited, Outstanding, OneActive, Active
  <2>8. ASSUME NEW q \in Requests
        PROVE  RequestOK(q, req[q])'
    <3>1. CASE q = r
      BY <1>1, <2>1, <2>2, <2>3, <2>4, <3>1 DEF RequestOK, Current, Creating
    <3>2. CASE q # r
      <4>1. req'[q] = req[q] /\ (req[q].pc # "idle" => req[q].job \in Jobs) /\ RequestOK(q, req[q])
        BY <2>3, <3>2, RequestFacts
      <4>2. ASSUME req[q].pc \in Watched, req[q].job = j
            PROVE  FALSE
        <5>1. Active(j)
          BY <2>1, <4>2, HasLease
        <5> QED
          BY <1>1, <2>1, <5>1
      <4>3. Stays(q, req[q])
        BY <2>2, <2>4, <3>2, <4>1, <4>2 DEF Stays, Creating, Watched
      <4> QED
        BY <2>2, <4>1, <4>3, OthersStay
    <3> QED
      BY <3>1, <3>2
  <2>9. \A i \in Jobs : DraftOK(i)'
    BY <2>2 DEF PlanInv, DraftOK
  <2> QED
    BY <2>5, <2>6, <2>7, <2>8, <2>9 DEF PlanInv
<1>3. CASE ~FreeToVerify(j)
  <2>1. Become(r, Idle) /\ UNCHANGED <<job, storage, archive, old>> /\ BoundTypes'
    BY <1>3, TypeParts DEF Begin, job, bounds, PlanInv, BoundTypes
  <2> QED
    BY <2>1, RequestEnds
<1> QED
  BY <1>2, <1>3

\* A request goes on to give its lease back.
LEMMA GoToRelease ==
  ASSUME Finite, PlanInv, NEW r \in Requests, req[r].pc \notin {"idle"} \cup Creating,
         Goto(r, "release"), UNCHANGED <<job, storage, archive, old, bounds>>
  PROVE  PlanInv'
<1>1. "release" \in PC \ {"idle"} /\ "release" \notin Creating
  BY DEF PC, Creating
<1>2. \A s \in Calls : s.pc = "release" /\ s.job = req[r].job => RequestOK(r, s)
  BY RequestFacts DEF RequestOK, Creating, Watched
<1>3. BoundTypes' /\ UNCHANGED <<job, storage, archive, old>>
  BY TypeParts DEF PlanInv, BoundTypes, bounds
<1> QED
  BY <1>1, <1>2, <1>3, RequestGoes

\* The plan is inspected.
LEMMA InspectStep ==
  ASSUME Finite, PlanInv, NEW r \in Requests, Inspect(r)
  PROVE  PlanInv'
<1>1. /\ RequestOK(r, req[r]) /\ req[r].pc = "inspect"
      /\ UNCHANGED <<job, storage, archive, old, bounds>>
  BY RequestFacts DEF Inspect, At
<1>2. CASE Goto(r, "release")
  BY <1>1, <1>2, GoToRelease DEF Creating
<1>3. CASE req[r].job \in plan /\ Goto(r, "register")
  <2>1. "register" \in PC \ {"idle"} /\ "register" \notin Creating
    BY DEF PC, Creating
  <2>2. \A s \in Calls : s.pc = "register" /\ s.job = req[r].job => RequestOK(r, s)
    BY <1>1, <1>3, RequestFacts DEF RequestOK, Creating, Watched, Current
  <2>3. BoundTypes' /\ UNCHANGED <<job, storage, archive, old>>
    BY <1>1, TypeParts DEF PlanInv, BoundTypes, bounds
  <2> QED
    BY <1>1, <1>3, <2>1, <2>2, <2>3, RequestGoes DEF Creating
<1> QED
  BY <1>2, <1>3 DEF Inspect

\* The plan is archived.
LEMMA RegisterStep ==
  ASSUME Finite, PlanInv, NEW r \in Requests, Register(r)
  PROVE  PlanInv'
<1> DEFINE j == req[r].job
           pc == IF j \in Samples THEN "put" ELSE "finalize"
<1>1. /\ RequestOK(r, req[r]) /\ req[r] \in Calls /\ req[r].pc = "register" /\ j \in Jobs
      /\ UNCHANGED <<job, storage, old, bounds>>
      /\ req[r].pc \notin Creating
  BY RequestFacts DEF Register, At, Creating
<1>2. CASE archive' = archive \cup {j} /\ Goto(r, pc)
  <2>1. /\ status' = status /\ token' = token /\ age' = age /\ file' = file
        /\ plan' = plan /\ sample' = sample /\ late' = late /\ old' = old /\ faults' = faults /\ stalls' = stalls
    BY <1>1 DEF job, storage, bounds
  <2>2. pc \in PC
    BY DEF PC
  <2>3. /\ req' \in [Requests -> Calls]
        /\ req'[r].pc = pc /\ req'[r].job = j /\ req'[r].page = req[r].page
        /\ \A q \in Requests \ {r} : req'[q] = req[q]
    <3> HIDE DEF pc
    <3> QED
      BY <1>2, <2>2, Goes, TypeParts DEF PlanInv
  <2>4. OneCreates'
    BY <1>1, <2>3, CreatesOn DEF Creating
  <2>5. TypeOK'
    BY <1>1, <1>2, <2>1, <2>3, TypeParts, TypePartsNext DEF PlanInv, DraftTypes, StoreTypes, BoundTypes
  <2>6. DraftsAreLimited' /\ OneActive'
    BY <2>1 DEF PlanInv, DraftsAreLimited, Outstanding, OneActive, Active
  <2>7. RequestOK(r, req[r])'
    BY <1>1, <1>2, <2>1, <2>3 DEF RequestOK, Creating, Watched, Current, Holds
  <2>8. ASSUME NEW q \in Requests \ {r}
        PROVE  RequestOK(q, req[q])'
    <3>1. Stays(q, req[q])
      BY <2>1 DEF Stays
    <3> QED
      BY <1>2, <2>1, <2>3, <3>1, OthersStay
  <2>9. \A i \in Jobs : DraftOK(i)'
    BY <1>2, <2>1 DEF PlanInv, DraftOK
  <2> QED
    BY <2>4, <2>5, <2>6, <2>7, <2>8, <2>9 DEF PlanInv
<1>3. CASE Goto(r, "release") /\ UNCHANGED archive
  BY <1>1, <1>3, GoToRelease
<1> QED
  BY <1>2, <1>3 DEF Register

\* The page of a free sample is stored, by the holder of the lease or too late.
LEMMA StoreStep ==
  ASSUME Finite, PlanInv, NEW r \in Requests, req[r].pc = "put", Store(r), Goto(r, "finalize"),
         UNCHANGED <<job, plan, archive, old, bounds>>
  PROVE  PlanInv'
<1> DEFINE j == req[r].job
<1>1. /\ RequestOK(r, req[r]) /\ req[r] \in Calls /\ j \in Jobs /\ req[r].pc \notin Creating
  BY RequestFacts DEF Creating
<1>2. /\ status' = status /\ token' = token /\ age' = age /\ file' = file /\ plan' = plan
      /\ archive' = archive /\ old' = old /\ faults' = faults /\ stalls' = stalls
      /\ sample' = [sample EXCEPT ![j] = req[r].page]
      /\ late' = IF Holds(r, j) THEN late \ {j} ELSE late \cup {j}
  BY DEF Store, job, bounds
<1>3. /\ req' \in [Requests -> Calls]
      /\ req'[r].pc = "finalize" /\ req'[r].job = j /\ req'[r].page = req[r].page
      /\ \A q \in Requests \ {r} : req'[q] = req[q]
  BY Goes, TypeParts DEF PlanInv, PC
<1>4. OneCreates'
  BY <1>1, <1>3, CreatesOn DEF Creating
<1>5. DraftTypes /\ StoreTypes /\ BoundTypes /\ req[r].page \in Pages \cup {0}
  BY <1>1, TypeParts DEF PlanInv, Calls, Whole
<1>6. /\ sample' \in [Jobs -> Pages \cup {0}] /\ sample'[j] = req[r].page
      /\ \A i \in Jobs \ {j} : sample'[i] = sample[i]
  <2> HIDE DEF j
  <2> QED
    BY <1>1, <1>2, <1>5 DEF StoreTypes
<1>7. TypeOK'
  BY <1>1, <1>2, <1>3, <1>5, <1>6, TypePartsNext DEF DraftTypes, StoreTypes, BoundTypes
<1>8. DraftsAreLimited' /\ OneActive'
  BY <1>2 DEF PlanInv, DraftsAreLimited, Outstanding, OneActive, Active
<1>9. RequestOK(r, req[r])'
  BY <1>1, <1>2, <1>3, <1>6 DEF RequestOK, Creating, Watched, Stored
<1>10. Holds(r, j) <=> status[j] = "awaiting_upload" /\ token[j] = r
  BY DEF Holds
<1>11. ASSUME NEW q \in Requests \ {r}
       PROVE  RequestOK(q, req[q])'
  <2>1. req[q].pc # "idle" => req[q].job \in Jobs
    BY RequestFacts
  <2>2. Stays(q, req[q])
    <3> HIDE DEF j
    <3> QED
      BY <1>2, <1>6, <1>10, <2>1 DEF Stays, Creating, Watched
  <2> QED
    BY <1>2, <1>3, <2>2, OthersStay
<1>12. ASSUME NEW i \in Jobs
       PROVE  DraftOK(i)'
  <2>1. DraftOK(i)
    BY DEF PlanInv
  <2> HIDE DEF j
  <2> QED
    BY <1>2, <1>6, <1>10, <2>1 DEF DraftOK
<1> QED
  BY <1>4, <1>7, <1>8, <1>9, <1>11, <1>12 DEF PlanInv

\* It is stored, or the request gives its lease back.
LEMMA PutStep ==
  ASSUME Finite, PlanInv, NEW r \in Requests, PutSample(r)
  PROVE  PlanInv'
<1>1. req[r].pc = "put" /\ UNCHANGED <<job, plan, archive, old, bounds>>
  BY DEF PutSample, At
<1>2. CASE Store(r) /\ Goto(r, "finalize")
  BY <1>1, <1>2, StoreStep
<1>3. CASE UNCHANGED <<sample, late>> /\ Goto(r, "release")
  <2>1. UNCHANGED <<job, storage, archive, old, bounds>> /\ req[r].pc \notin {"idle"} \cup Creating
    BY <1>1, <1>3 DEF storage, Creating
  <2> QED
    BY <1>3, <2>1, GoToRelease
<1> QED
  BY <1>2, <1>3 DEF PutSample

\* The draft gets its quote, from the request that has the lease.
LEMMA FinalizeStep ==
  ASSUME Finite, PlanInv, NEW r \in Requests, Finalize(r)
  PROVE  PlanInv'
<1> DEFINE j == req[r].job
           f == [row |-> "verified", page |-> req[r].page]
<1>1. /\ RequestOK(r, req[r]) /\ req[r] \in Calls /\ req[r].pc = "finalize" /\ j \in Jobs
      /\ req[r].pc \notin Creating /\ Goto(r, "release")
      /\ \A q \in Requests \ {r} : req[q].pc \in Creating => req[q].job # j
  BY RequestFacts DEF Finalize, At, Creating
<1>2. CASE Holds(r, j)
  <2>1. /\ status' = [status EXCEPT ![j] = "ready"] /\ file' = [file EXCEPT ![j] = f]
        /\ token' = [token EXCEPT ![j] = None]
        /\ status[j] = "awaiting_upload" /\ token[j] = r
        /\ age' = age /\ plan' = plan /\ sample' = sample /\ late' = late
        /\ archive' = archive /\ old' = old /\ faults' = faults /\ stalls' = stalls
    BY <1>2 DEF Finalize, Holds, storage, bounds
  <2>2. /\ req' \in [Requests -> Calls]
        /\ req'[r].pc = "release" /\ req'[r].job = j /\ req'[r].page = req[r].page
        /\ \A q \in Requests \ {r} : req'[q] = req[q]
    BY <1>1, Goes, TypeParts DEF PlanInv, PC
  <2>3. OneCreates'
    BY <1>1, <2>2, CreatesOn DEF Creating
  <2>4. f \in Row /\ f.row = "verified" /\ f.page = req[r].page
    BY <1>1 DEF Row, Calls
  <2>5. DraftTypes /\ StoreTypes /\ BoundTypes
    BY TypeParts DEF PlanInv
  <2>6. /\ j \in archive /\ j \in plan
        /\ j \in Samples => sample[j] = f.page \/ j \in late
    BY <1>1, <1>2, <2>1, <2>4 DEF RequestOK, Stored
  <2> HIDE DEF f
  <2>7. RequestOK(r, req[r])'
    BY <1>1, <2>2 DEF RequestOK, Creating, Watched
  <2> HIDE DEF j
  <2>8. /\ status'[j] = "ready" /\ file'[j] = f /\ token'[j] = None
        /\ \A i \in Jobs \ {j} : status'[i] = status[i] /\ file'[i] = file[i] /\ token'[i] = token[i]
    BY <1>1, <2>1, <2>5 DEF DraftTypes
  <2>9. TypeOK'
    BY <1>1, <2>1, <2>2, <2>4, <2>5, TypePartsNext DEF DraftTypes, StoreTypes, BoundTypes
  <2>10. DraftsAreLimited'
    <3>1. Outstanding' \subseteq Outstanding
      BY <2>1, <2>8 DEF Outstanding
    <3> QED
      BY <3>1, FewerDrafts DEF PlanInv
  <2>11. OneActive'
    BY <2>1, <2>8 DEF PlanInv, OneActive, Active
  <2>12. ASSUME NEW q \in Requests \ {r}
         PROVE  RequestOK(q, req[q])'
    <3>1. req[q].pc \in Watched => req[q].job # j
      BY <2>1, HasLease
    <3>2. /\ req[q].pc # "idle" => req[q].job \in Jobs
          /\ req[q].pc \in Creating => req[q].job # j
      BY <1>1, RequestFacts
    <3>3. Stays(q, req[q])
      BY <2>1, <2>8, <3>1, <3>2 DEF Stays, Creating, Watched
    <3> QED
      BY <2>1, <2>2, <3>3, OthersStay
  <2>13. \A i \in Jobs : DraftOK(i)'
    BY <2>1, <2>4, <2>6, <2>8 DEF PlanInv, DraftOK
  <2> QED
    BY <2>3, <2>7, <2>9, <2>10, <2>11, <2>12, <2>13 DEF PlanInv
<1>3. CASE ~Holds(r, j)
  <2>1. UNCHANGED <<job, storage, archive, old, bounds>>
    BY <1>3 DEF Finalize, job
  <2> QED
    BY <1>1, <2>1, GoToRelease
<1> QED
  BY <1>2, <1>3

\* The lease is given back, or that fails.
LEMMA ReleaseStep ==
  ASSUME Finite, PlanInv, NEW r \in Requests, Release(r)
  PROVE  PlanInv'
<1> DEFINE j == req[r].job
<1>1. /\ RequestOK(r, req[r]) /\ req[r].pc = "release" /\ j \in Jobs /\ Become(r, Idle)
      /\ req[r].pc \notin Creating
      /\ status' = status /\ age' = age /\ file' = file /\ plan' = plan /\ sample' = sample /\ late' = late
      /\ archive' = archive /\ old' = old /\ stalls' = stalls
  BY RequestFacts DEF Release, At, Creating, storage
<1>2. /\ token' = token \/ (Holds(r, j) /\ token' = [token EXCEPT ![j] = None])
      /\ token' \in [Jobs -> Requests \cup {None}]
  BY <1>1, TypeParts DEF Release, PlanInv, DraftTypes
<1>3. faults' \in 0..MaxFaults
  <2>1. faults \in 0..MaxFaults /\ token \in [Jobs -> Requests \cup {None}] /\ MaxFaults \in Nat
    BY Constants, TypeParts DEF PlanInv, DraftTypes, BoundTypes
  <2>2. CASE Holds(r, j) /\ token'[j] = r
    <3>1. faults' = faults + 1
      BY <2>2 DEF Release
    <3>2. token' # [token EXCEPT ![j] = IF Holds(r, j) THEN None ELSE @]
      BY <1>1, <2>1, <2>2, Constants
    <3>3. faults < MaxFaults
      BY <3>2 DEF Release
    <3> QED
      BY <2>1, <3>1, <3>3
  <2>3. CASE ~(Holds(r, j) /\ token'[j] = r)
    BY <2>1, <2>3 DEF Release
  <2> QED
    BY <2>2, <2>3
<1>4. /\ req' \in [Requests -> Calls] /\ req'[r] = Idle
      /\ \A q \in Requests \ {r} : req'[q] = req[q]
  BY <1>1, IdleFields, Moves, TypeParts DEF PlanInv
<1>5. OneCreates'
  BY <1>4, CreatesOn
<1> HIDE DEF j
<1>6. /\ \A i \in Jobs \ {j} : token'[i] = token[i]
      /\ token'[j] = token[j] \/ (Holds(r, j) /\ token'[j] = None)
  BY <1>1, <1>2, TypeParts DEF PlanInv, DraftTypes
<1>7. TypeOK'
  BY <1>1, <1>2, <1>3, <1>4, TypeParts, TypePartsNext
     DEF PlanInv, DraftTypes, StoreTypes, BoundTypes
<1>8. DraftsAreLimited' /\ OneActive'
  BY <1>1, <1>6 DEF PlanInv, DraftsAreLimited, Outstanding, OneActive, Active
<1>9. ASSUME NEW q \in Requests
      PROVE  RequestOK(q, req[q])'
  <2>1. CASE q = r
    BY <1>4, <2>1, IdleOK
  <2>2. CASE q # r
    <3>1. req[q].pc \in Watched /\ req[q].job = j /\ Holds(r, j) => FALSE
      BY <2>2, HasLease DEF Holds
    <3>2. req[q].pc # "idle" => req[q].job \in Jobs
      BY RequestFacts
    <3>3. Stays(q, req[q])
      BY <1>1, <1>6, <3>1, <3>2, Constants DEF Stays, Creating, Watched
    <3> QED
      BY <1>1, <1>4, <2>2, <3>3, OthersStay
  <2> QED
    BY <2>1, <2>2
<1>10. \A i \in Jobs : DraftOK(i)'
  BY <1>1 DEF PlanInv, DraftOK
<1> QED
  BY <1>5, <1>7, <1>8, <1>9, <1>10 DEF PlanInv

-----------------------------------------------------------------------------
(* The customer, the cron, failures and time *)

\* A plan is uploaded.
LEMMA UploadStep ==
  ASSUME Finite, PlanInv, NEW j \in Jobs, Upload(j)
  PROVE  PlanInv'
<1>1. /\ status' = status /\ token' = token /\ age' = age /\ file' = file
      /\ plan' = plan \cup {j} /\ sample' = sample /\ late' = late /\ archive' = archive /\ old' = old
      /\ req' = req /\ faults' = faults /\ stalls' = stalls
  BY DEF Upload, job, bounds
<1>2. TypeOK'
  BY <1>1, TypeParts, TypePartsNext DEF PlanInv, DraftTypes, StoreTypes, BoundTypes
<1>3. DraftsAreLimited' /\ OneActive' /\ OneCreates'
  BY <1>1 DEF PlanInv, DraftsAreLimited, Outstanding, OneActive, Active, OneCreates
<1>4. \A q \in Requests : RequestOK(q, req[q])'
  BY <1>1, OthersStay DEF Stays
<1>5. \A i \in Jobs : DraftOK(i)'
  BY <1>1 DEF PlanInv, DraftOK
<1> QED
  BY <1>2, <1>3, <1>4, <1>5 DEF PlanInv

\* A draft is confirmed, or expires.
LEMMA DraftLeaves ==
  ASSUME Finite, PlanInv, NEW j \in Jobs, NEW new \in {"queued", "canceled"},
         status' = [status EXCEPT ![j] = new],
         new = "queued" => status[j] = "ready" /\ token' = token,
         new = "canceled" => j \in old /\ j \in Outstanding /\ token' = [token EXCEPT ![j] = None],
         UNCHANGED <<age, file, storage, archive, old, req, bounds>>
  PROVE  PlanInv'
<1>1. /\ age' = age /\ file' = file /\ plan' = plan /\ sample' = sample /\ late' = late
      /\ archive' = archive /\ old' = old
      /\ req' = req /\ faults' = faults /\ stalls' = stalls
  BY DEF storage, bounds
<1>2. /\ status'[j] = new /\ \A i \in Jobs \ {j} : status'[i] = status[i] /\ token'[i] = token[i]
      /\ token'[j] \in {token[j], None}
      /\ token' \in [Jobs -> Requests \cup {None}]
  BY TypeParts DEF PlanInv, DraftTypes
<1>3. TypeOK'
  BY <1>1, <1>2, TypeParts, TypePartsNext DEF PlanInv, DraftTypes, StoreTypes, BoundTypes
<1>4. DraftsAreLimited'
  <2>1. Outstanding' \subseteq Outstanding
    BY <1>2 DEF Outstanding
  <2> QED
    BY <2>1, FewerDrafts DEF PlanInv
<1>5. OneActive' /\ OneCreates'
  BY <1>1, <1>2 DEF PlanInv, OneActive, Active, OneCreates
<1>6. ASSUME NEW q \in Requests
      PROVE  RequestOK(q, req[q])'
  <2>1. RequestOK(q, req[q])
    BY DEF PlanInv
  <2>2. req[q].pc \in Creating /\ req[q].job = j => FALSE
    BY <2>1 DEF RequestOK, Creating, Outstanding
  <2>3. req[q].pc \in Watched /\ req[q].job = j => new = "canceled"
    BY HasLease
  <2>4. req[q].pc # "idle" => req[q].job \in Jobs
    BY RequestFacts
  <2>5. Stays(q, req[q])
    BY <1>1, <1>2, <2>2, <2>3, <2>4 DEF Stays, Creating, Watched
  <2> QED
    BY <1>1, <2>5, OthersStay
<1>7. \A i \in Jobs : DraftOK(i)'
  BY <1>1, <1>2 DEF PlanInv, DraftOK
<1> QED
  BY <1>3, <1>4, <1>5, <1>6, <1>7 DEF PlanInv

\* A draft is a day old.
LEMMA GrowOldStep ==
  ASSUME Finite, PlanInv, NEW j \in Jobs, GrowOld(j)
  PROVE  PlanInv'
<1>1. /\ status' = status /\ token' = token /\ age' = age /\ file' = file
      /\ plan' = plan /\ sample' = sample /\ late' = late /\ archive' = archive /\ old' = old \cup {j}
      /\ req' = req /\ faults' = faults /\ stalls' = stalls
      /\ status[j] \in {"awaiting_upload", "ready"}
      /\ \A r \in Requests : req[r].job = j => req[r].pc \notin {"inserted", "signed"}
  BY DEF GrowOld, job, storage, bounds, Outstanding
<1>2. TypeOK'
  BY <1>1, TypeParts, TypePartsNext DEF PlanInv, DraftTypes, StoreTypes, BoundTypes
<1>3. DraftsAreLimited' /\ OneActive' /\ OneCreates'
  BY <1>1 DEF PlanInv, DraftsAreLimited, Outstanding, OneActive, Active, OneCreates
<1>4. ASSUME NEW q \in Requests
      PROVE  RequestOK(q, req[q])'
  <2>1. req[q].pc \in Creating => req[q].job # j
    BY <1>1 DEF PlanInv, RequestOK, Creating
  <2>2. Stays(q, req[q])
    BY <1>1, <2>1 DEF Stays
  <2> QED
    BY <1>1, <2>2, OthersStay
<1>5. \A i \in Jobs : DraftOK(i)'
  BY <1>1 DEF PlanInv, DraftOK
<1> QED
  BY <1>2, <1>3, <1>4, <1>5 DEF PlanInv

\* A request is cut off.
LEMMA CutOffStep ==
  ASSUME Finite, PlanInv, NEW r \in Requests, CutOff(r)
  PROVE  PlanInv'
<1>1. BoundTypes'
  BY Constants, TypeParts DEF CutOff, PlanInv, BoundTypes
<1> QED
  BY <1>1, RequestEnds DEF CutOff

\* Time passes, and no request that must have the lease is too late for it.
LEMMA TickStep ==
  ASSUME Finite, PlanInv, Tick
  PROVE  PlanInv'
<1>1. /\ status' = status /\ token' = token /\ file' = file
      /\ plan' = plan /\ sample' = sample /\ late' = late /\ archive' = archive /\ old' = old
      /\ req' = req /\ faults' = faults
      /\ stalls' = stalls + Cardinality(Overdue) /\ stalls + Cardinality(Overdue) <= MaxStalls
      /\ \A r \in Overdue : req[r].pc \in Calling
      /\ \A j \in Jobs : age'[j] = IF Active(j) THEN age[j] + 1 ELSE age[j]
      /\ age' = [j \in Jobs |-> IF Active(j) THEN age[j] + 1 ELSE age[j]]
  BY DEF Tick, storage
<1>2. \A j \in Jobs : age[j] \in 0..Lease /\ Lease \in Nat
  BY Constants, TypeParts DEF PlanInv, DraftTypes
<1>3. IsFiniteSet(Overdue) /\ Cardinality(Overdue) \in Nat
  BY FS_Subset, FS_CardinalityType DEF Overdue, Finite
<1>4. stalls \in 0..MaxStalls /\ MaxStalls \in Nat
  BY Constants, TypeParts DEF PlanInv, BoundTypes
<1>5. TypeOK'
  <2>1. age' \in [Jobs -> 0..Lease]
    BY <1>1, <1>2 DEF Active
  <2>2. stalls' \in 0..MaxStalls
    BY <1>1, <1>3, <1>4
  <2> QED
    BY <1>1, <2>1, <2>2, TypeParts, TypePartsNext DEF PlanInv, DraftTypes, StoreTypes, BoundTypes
<1>6. DraftsAreLimited' /\ OneCreates'
  BY <1>1 DEF PlanInv, DraftsAreLimited, Outstanding, OneCreates
<1>7. OneActive'
  <2>1. \A j \in Jobs : Active(j)' => Active(j)
    BY <1>1, <1>2 DEF Active
  <2> QED
    BY <2>1 DEF PlanInv, OneActive
<1>8. ASSUME NEW q \in Requests
      PROVE  RequestOK(q, req[q])'
  <2>1. req[q].pc \in Watched => q \notin Overdue
    BY <1>1 DEF Watched, Calling
  <2>2. req[q].pc \in Watched => age'[req[q].job] <= 1
    <3>1. req[q].pc \in Watched => req[q].job \in Jobs /\ req[q].pc \in Calling \cup {"inspect"}
      BY RequestFacts DEF Watched, Calling
    <3>2. req[q].pc \in Watched => ~(age[req[q].job] >= 1)
      BY <2>1, <3>1 DEF Overdue
    <3> QED
      BY <1>1, <1>2, <3>1, <3>2
  <2>3. Stays(q, req[q])
    BY <1>1, <2>2 DEF Stays
  <2> QED
    BY <1>1, <2>3, OthersStay
<1>9. \A i \in Jobs : DraftOK(i)'
  BY <1>1 DEF PlanInv, DraftOK
<1> QED
  BY <1>5, <1>6, <1>7, <1>8, <1>9 DEF PlanInv

\* The first state
LEMMA PlanInit ==
  ASSUME Finite, Init
  PROVE  PlanInv
<1>1. /\ \A j \in Jobs : /\ status[j] = "none" /\ token[j] = None /\ file[j].row = "none"
      /\ old = {} /\ plan = {} /\ late = {} /\ archive = {} /\ \A r \in Requests : req[r] = Idle
  BY DEF Init
<1>2. TypeOK
  <2>1. req \in [Requests -> Calls]
    BY IdleFields DEF Init
  <2>2. DraftTypes
    BY Constants DEF Init, DraftTypes, Row
  <2>3. StoreTypes /\ BoundTypes
    BY Constants DEF Init, StoreTypes, BoundTypes
  <2> QED
    BY <2>1, <2>2, <2>3, TypeParts
<1>3. DraftsAreLimited
  <2>1. Outstanding = {}
    BY <1>1 DEF Outstanding
  <2> QED
    BY <2>1, FS_EmptySet, Constants DEF DraftsAreLimited
<1>4. OneCreates /\ OneActive
  BY <1>1, IdleFields DEF OneCreates, OneActive, Active, Creating
<1>5. \A r \in Requests : RequestOK(r, req[r])
  BY <1>1, IdleFields DEF RequestOK, Creating, Watched
<1>6. \A j \in Jobs : DraftOK(j)
  BY <1>1 DEF DraftOK
<1> QED
  BY <1>2, <1>3, <1>4, <1>5, <1>6 DEF PlanInv

\* Every step
LEMMA PlanNext ==
  ASSUME Finite, PlanInv, [Next]_vars
  PROVE  PlanInv'
<1>1. ASSUME NEW r \in Requests, Step(r)
      PROVE  PlanInv'
  BY <1>1, InsertDraftStep, SignStep, InsertFileStep, BeginStep, InspectStep, RegisterStep,
     PutStep, FinalizeStep, ReleaseStep DEF Step
<1>2. ASSUME NEW r \in Requests, CutOff(r)
      PROVE  PlanInv'
  BY <1>2, CutOffStep
<1>3. ASSUME NEW r \in Requests, NEW j \in Jobs,
             CountDrafts(r, j) \/ \E page \in Pages \cup {Whole} : Submit(r, j, page)
      PROVE  PlanInv'
  BY <1>3, CountStep, SubmitStep
<1>4. ASSUME NEW j \in Jobs, Upload(j)
      PROVE  PlanInv'
  BY <1>4, UploadStep
<1>5. ASSUME NEW j \in Jobs, Confirm(j)
      PROVE  PlanInv'
  <2>1. /\ status' = [status EXCEPT ![j] = "queued"] /\ status[j] = "ready" /\ token' = token
        /\ UNCHANGED <<age, file, storage, archive, old, req, bounds>>
    BY <1>5 DEF Confirm
  <2> QED
    BY <2>1, DraftLeaves
<1>6. ASSUME NEW j \in Jobs, Expire(j)
      PROVE  PlanInv'
  <2>1. /\ status' = [status EXCEPT ![j] = "canceled"] /\ token' = [token EXCEPT ![j] = None]
        /\ j \in old /\ j \in Outstanding
        /\ UNCHANGED <<age, file, storage, archive, old, req, bounds>>
    BY <1>6 DEF Expire
  <2> QED
    BY <2>1, DraftLeaves
<1>7. ASSUME NEW j \in Jobs, GrowOld(j)
      PROVE  PlanInv'
  BY <1>7, GrowOldStep
<1>8. CASE Tick
  BY <1>8, TickStep
<1>9. CASE UNCHANGED vars
  <2>1. /\ status' = status /\ token' = token /\ age' = age /\ file' = file
        /\ plan' = plan /\ sample' = sample /\ late' = late /\ archive' = archive /\ old' = old
        /\ req' = req /\ faults' = faults /\ stalls' = stalls
    BY <1>9 DEF vars, job, storage, bounds
  <2> QED
    BY <2>1 DEF PlanInv, TypeOK, DraftsAreLimited, Outstanding, OneCreates, OneActive, Active,
                RequestOK, Current, DraftOK, Holds, Stored
<1> QED
  BY <1>1, <1>2, <1>3, <1>4, <1>5, <1>6, <1>7, <1>8, <1>9 DEF Next

-----------------------------------------------------------------------------
(* Theorems *)

\* The inductive invariant: who creates a draft, who has the lease, and what each
\* request knows of its draft at each of its steps.
THEOREM PlanInvariant == Finite => (Spec => []PlanInv)
<1> SUFFICES ASSUME Finite PROVE Spec => []PlanInv
  OBVIOUS
<1>1. Init => PlanInv
  BY PlanInit
<1>2. PlanInv /\ [Next]_vars => PlanInv'
  BY PlanNext
<1> QED
  BY <1>1, <1>2, PTL DEF Spec

\* Rows, requests and bounds keep their types.
THEOREM PlanTypeCorrect == Finite => (Spec => []TypeOK)
<1>1. PlanInv => TypeOK
  BY DEF PlanInv
<1> QED
  BY <1>1, PlanInvariant, PTL

\* A request goes to its inspection when it gets the lease, and no other way.
LEMMA OnlyBeginInspects ==
  ASSUME Finite, PlanInv, Next, NEW r \in Requests, req'[r].pc = "inspect", req[r].pc # "inspect"
  PROVE  FreeToVerify(req'[r].job) /\ \A q \in Requests \ {r} : req'[q] = req[q]
<1>1. req \in [Requests -> Calls]
  BY TypeParts DEF PlanInv
<1>2. ASSUME NEW q \in Requests, Begin(q)
      PROVE  FreeToVerify(req'[r].job) /\ \A u \in Requests \ {r} : req'[u] = req[u]
  <2>1. FreeToVerify(req[q].job) /\ Goto(q, "inspect")
    <3>1. CASE FreeToVerify(req[q].job)
      BY <1>2, <3>1 DEF Begin
    <3>2. CASE ~FreeToVerify(req[q].job)
      <4>1. req' = [req EXCEPT ![q] = Idle]
        BY <1>2, <3>2 DEF Begin, Become
      <4> QED
        BY <1>1, <4>1, IdleFields
    <3> QED
      BY <3>1, <3>2
  <2>2. /\ req'[q].job = req[q].job
        /\ \A u \in Requests \ {q} : req'[u] = req[u]
    BY <1>1, <2>1, Goes DEF PC
  <2>3. q = r
    BY <2>2
  <2> QED
    BY <2>1, <2>2, <2>3
<1>3. ASSUME NEW q \in Requests, NEW pc \in PC \ {"inspect"}, Goto(q, pc)
      PROVE  FALSE
  BY <1>1, <1>3, Goes
<1>4. ASSUME NEW q \in Requests, NEW s \in Calls, s.pc # "inspect", Become(q, s)
      PROVE  FALSE
  BY <1>1, <1>4, Moves
<1>5. ASSUME NEW q \in Requests, Become(q, Idle)
      PROVE  FALSE
  BY <1>4, <1>5, IdleFields
<1>6. ASSUME NEW q \in Requests, Step(q), ~Begin(q)
      PROVE  FALSE
  <2>1. \/ Become(q, Idle)
        \/ \E pc \in {"inserted", "signed", "release", "register", "put", "finalize"} : Goto(q, pc)
    BY <1>6 DEF Step, InsertDraft, Sign, InsertFile, Inspect, Register, PutSample, Finalize, Release
  <2> QED
    BY <1>3, <1>5, <2>1 DEF PC
<1>7. ASSUME NEW q \in Requests, NEW j \in Jobs,
             CountDrafts(q, j) \/ \E page \in Pages \cup {Whole} : Submit(q, j, page)
      PROVE  FALSE
  <2>1. [Idle EXCEPT !.pc = "counted", !.job = j] \in Calls
        /\ [Idle EXCEPT !.pc = "counted", !.job = j].pc # "inspect"
    BY DEF Idle, Calls, PC, Whole
  <2>2. \A page \in Pages \cup {Whole} : [pc |-> "begin", job |-> j, page |-> page] \in Calls
                  /\ [pc |-> "begin", job |-> j, page |-> page].pc # "inspect"
    BY DEF Calls, PC
  <2> QED
    BY <1>4, <1>7, <2>1, <2>2 DEF CountDrafts, Submit
<1>8. ASSUME NEW j \in Jobs, Upload(j) \/ Confirm(j) \/ Expire(j) \/ GrowOld(j)
      PROVE  FALSE
  BY <1>8 DEF Upload, Confirm, Expire, GrowOld
<1>9. CASE Tick
  BY <1>9 DEF Tick
<1>10. ASSUME NEW q \in Requests, CutOff(q)
       PROVE  FALSE
  BY <1>5, <1>10 DEF CutOff
<1> QED
  BY <1>2, <1>6, <1>7, <1>8, <1>9, <1>10 DEF Next

\* A request that is inspecting stays with its draft.
LEMMA InspectsOne ==
  ASSUME Finite, PlanInv, Next, NEW r \in Requests, req'[r].pc = "inspect", req[r].pc = "inspect"
  PROVE  req'[r].job = req[r].job
<1>1. req \in [Requests -> Calls]
  BY TypeParts DEF PlanInv
<1>2. ASSUME NEW q \in Requests, NEW s \in Calls, Become(q, s), s.pc # "inspect" \/ req[q].pc # "inspect"
      PROVE  req'[r] = req[r]
  BY <1>1, <1>2, Moves
<1>3. ASSUME NEW q \in Requests, NEW pc \in PC, Goto(q, pc), pc # "inspect" \/ req[q].pc # "inspect"
      PROVE  req'[r] = req[r]
  BY <1>1, <1>3, Goes
<1>4. ASSUME NEW q \in Requests, Become(q, Idle)
      PROVE  req'[r] = req[r]
  BY <1>2, <1>4, IdleFields
<1>5. ASSUME NEW q \in Requests, Step(q)
      PROVE  req'[r] = req[r]
  <2>1. \/ Become(q, Idle)
        \/ \E pc \in {"inserted", "signed", "release", "register", "put", "finalize"} : Goto(q, pc)
        \/ Goto(q, "inspect") /\ req[q].pc = "begin"
    BY <1>5 DEF Step, InsertDraft, Sign, InsertFile, Begin, Inspect, Register, PutSample, Finalize, Release, At
  <2> QED
    BY <1>3, <1>4, <2>1 DEF PC
<1>6. ASSUME NEW q \in Requests, NEW j \in Jobs,
             CountDrafts(q, j) \/ \E page \in Pages \cup {Whole} : Submit(q, j, page)
      PROVE  req'[r] = req[r]
  <2>1. [Idle EXCEPT !.pc = "counted", !.job = j] \in Calls
    BY DEF Idle, Calls, PC, Whole
  <2>2. \A page \in Pages \cup {Whole} : [pc |-> "begin", job |-> j, page |-> page] \in Calls
    BY DEF Calls, PC
  <2> QED
    BY <1>2, <1>6, <2>1, <2>2 DEF CountDrafts, Submit, At
<1>7. ASSUME NEW j \in Jobs, Upload(j) \/ Confirm(j) \/ Expire(j) \/ GrowOld(j)
      PROVE  req'[r] = req[r]
  BY <1>7 DEF Upload, Confirm, Expire, GrowOld
<1>8. ASSUME NEW q \in Requests, CutOff(q)
      PROVE  req'[r] = req[r]
  BY <1>4, <1>8 DEF CutOff
<1>9. Tick => req'[r] = req[r]
  BY DEF Tick
<1> QED
  BY <1>5, <1>6, <1>7, <1>8, <1>9 DEF Next

\* No plan is inspected by two requests.
InspectedOnce == \A r, q \in Inspecting : req[r].job = req[q].job => r = q

\* The lease is not given for a draft that is being inspected: who does that has it.
THEOREM InspectedOnceHolds == Finite => (Spec => []InspectedOnce)
<1> SUFFICES ASSUME Finite PROVE Spec => []InspectedOnce
  OBVIOUS
<1>1. Init => InspectedOnce
  BY IdleFields DEF Init, InspectedOnce, Inspecting, At
<1>2. ASSUME PlanInv, InspectedOnce, Next
      PROVE  InspectedOnce'
  <2>1. SUFFICES ASSUME NEW r \in Requests, NEW q \in Requests, r # q,
                        req'[r].pc = "inspect", req'[q].pc = "inspect", req'[r].job = req'[q].job
                 PROVE  FALSE
    BY DEF InspectedOnce, Inspecting, At
  <2>2. ASSUME NEW u \in Requests, NEW v \in Requests \ {u}, req[u].pc # "inspect",
               req'[u].pc = "inspect", req'[v].pc = "inspect", req'[u].job = req'[v].job
        PROVE  FALSE
    <3>1. FreeToVerify(req'[u].job) /\ req'[v] = req[v]
      BY <1>2, <2>2, OnlyBeginInspects
    <3>2. /\ req[v].pc \in Watched /\ FreeToVerify(req[v].job)
      BY <2>2, <3>1 DEF Watched
    <3>3. Active(req[v].job) /\ req[v].job \in Jobs
      BY <1>2, <3>2, HasLease DEF FreeToVerify
    <3> QED
      BY <3>2, <3>3 DEF FreeToVerify
  <2>3. CASE req[r].pc = "inspect" /\ req[q].pc = "inspect"
    <3>1. req'[r].job = req[r].job /\ req'[q].job = req[q].job
      BY <1>2, <2>1, <2>3, InspectsOne
    <3> QED
      BY <1>2, <2>1, <2>3, <3>1 DEF InspectedOnce, Inspecting, At
  <2>4. CASE req[r].pc # "inspect"
    BY <2>1, <2>2, <2>4
  <2>5. CASE req[q].pc # "inspect"
    BY <2>1, <2>2, <2>5
  <2> QED
    BY <2>3, <2>4, <2>5
<1>3. InspectedOnce /\ UNCHANGED vars => InspectedOnce'
  BY DEF InspectedOnce, Inspecting, At, vars
<1> QED
  BY <1>1, <1>2, <1>3, PlanInvariant, PTL DEF Spec

\* Whatever is cut off or stalls, one plan of the drafts that are still wanted is
\* downloaded and inspected at a time, and no plan twice at once.
THEOREM LeaseSerializesHolds == Finite => (Spec => []LeaseSerializes)
<1> SUFFICES ASSUME Finite PROVE Spec => []LeaseSerializes
  OBVIOUS
<1>1. ASSUME PlanInv, InspectedOnce
      PROVE  LeaseSerializes
  <2> DEFINE S == {r \in Inspecting : status[req[r].job] # "canceled"}
  <2>1. \A r, q \in S : r = q
    <3> SUFFICES ASSUME NEW r \in S, NEW q \in S
                 PROVE  r = q
      OBVIOUS
    <3>1. /\ r \in Requests /\ q \in Requests
          /\ req[r].pc \in Watched /\ req[q].pc \in Watched
          /\ status[req[r].job] # "canceled" /\ status[req[q].job] # "canceled"
      BY DEF Inspecting, At, Watched
    <3>2. /\ token[req[r].job] = r /\ req[r].job \in Jobs /\ Active(req[r].job)
          /\ token[req[q].job] = q /\ req[q].job \in Jobs /\ Active(req[q].job)
      BY <1>1, <3>1, HasLease
    <3>3. req[r].job = req[q].job
      BY <1>1, <3>2 DEF PlanInv, OneActive
    <3> QED
      BY <3>2, <3>3
  <2>2. Cardinality(S) <= 1
    <3>1. CASE S = {}
      <4>1. Cardinality(S) = 0
        BY <3>1, FS_EmptySet
      <4> QED
        BY <4>1
    <3>2. CASE S # {}
      <4>1. PICK r \in S : S = {r}
        BY <2>1, <3>2
      <4>2. Cardinality(S) = 1
        BY <4>1, FS_Singleton
      <4> QED
        BY <4>2
    <3> QED
      BY <3>1, <3>2
  <2> QED
    BY <1>1, <2>2 DEF LeaseSerializes, InspectedOnce
<1> QED
  BY <1>1, PlanInvariant, InspectedOnceHolds, PTL

\* A customer has no more outstanding drafts than allowed, with parallel requests too.
THEOREM DraftsAreLimitedHolds == Finite => (Spec => []DraftsAreLimited)
<1>1. PlanInv => DraftsAreLimited
  BY DEF PlanInv
<1> QED
  BY <1>1, PlanInvariant, PTL

\* What is quoted was archived before.
THEOREM QuotedIsArchivedHolds == Finite => (Spec => []QuotedIsArchived)
<1>1. PlanInv => QuotedIsArchived
  BY DEF PlanInv, DraftOK, QuotedIsArchived, Verified
<1> QED
  BY <1>1, PlanInvariant, PTL

\* What the row says was verified is what lies in storage, whatever stalls: the plan
\* always, and the page of a free sample unless a request that had lost its lease
\* stored another one over it.
THEOREM VerifiedIsStoredHolds == Finite => (Spec => []VerifiedIsStored)
<1>1. PlanInv => VerifiedIsStored
  BY DEF PlanInv, DraftOK, VerifiedIsStored, Verified
<1> QED
  BY <1>1, PlanInvariant, PTL

\* A quote is fixed, and an expired draft stays so, whatever request is still running.
THEOREM QuoteIsFixedHolds == Finite => (Spec => [][QuoteIsFixed]_vars)
<1> SUFFICES ASSUME Finite PROVE Spec => [][QuoteIsFixed]_vars
  OBVIOUS
<1>1. ASSUME PlanInv, [Next]_vars
      PROVE  [QuoteIsFixed]_vars
  <2>1. DraftTypes /\ \A r \in Requests : RequestOK(r, req[r])
    BY <1>1, TypeParts DEF PlanInv
  <2>2. CASE UNCHANGED <<status, file>>
    BY <2>2 DEF QuoteIsFixed, Verified
  <2>3. ASSUME NEW r \in Requests, InsertDraft(r) \/ Sign(r)
        PROVE  QuoteIsFixed
    BY <2>1, <2>3 DEF InsertDraft, Sign, At, RequestOK, DraftTypes, QuoteIsFixed, Verified
  <2>4. ASSUME NEW r \in Requests, InsertFile(r)
        PROVE  QuoteIsFixed
    BY <2>1, <2>4 DEF InsertFile, At, RequestOK, DraftTypes, QuoteIsFixed, Verified
  <2>5. ASSUME NEW r \in Requests, Finalize(r)
        PROVE  QuoteIsFixed
    BY <2>1, <2>5 DEF Finalize, Holds, DraftTypes, QuoteIsFixed, Verified
  <2>6. ASSUME NEW r \in Requests, Begin(r) \/ Inspect(r) \/ Register(r) \/ PutSample(r)
                                   \/ Release(r) \/ CutOff(r)
        PROVE  UNCHANGED <<status, file>>
    BY <2>6 DEF Begin, Inspect, Register, PutSample, Release, CutOff, job
  <2>7. ASSUME NEW r \in Requests, NEW j \in Jobs,
               CountDrafts(r, j) \/ \E page \in Pages \cup {Whole} : Submit(r, j, page)
        PROVE  UNCHANGED <<status, file>>
    BY <2>7 DEF CountDrafts, Submit, job
  <2>8. ASSUME NEW j \in Jobs, Confirm(j) \/ Expire(j)
        PROVE  QuoteIsFixed
    BY <2>1, <2>8 DEF Confirm, Expire, DraftTypes, Outstanding, QuoteIsFixed, Verified
  <2>9. ASSUME NEW j \in Jobs, Upload(j) \/ GrowOld(j)
        PROVE  UNCHANGED <<status, file>>
    BY <2>9 DEF Upload, GrowOld, job
  <2>10. CASE Tick \/ UNCHANGED vars
    BY <2>2, <2>10 DEF Tick, vars, job
  <2> QED
    BY <1>1, <2>2, <2>3, <2>4, <2>5, <2>6, <2>7, <2>8, <2>9, <2>10 DEF Next, Step
<1> QED
  BY <1>1, PlanInvariant, PTL DEF Spec
=============================================================================
