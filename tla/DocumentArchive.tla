---------------------------- MODULE DocumentArchive ----------------------------
(***************************************************************************)
(* One archived source plan: its lifecycle, the legal hold, the removal     *)
(* that a second administrator approves, and the daily check that the       *)
(* object is still in storage.                                              *)
(*                                                                          *)
(* The row of document_archives is changed by functions that lock it; each  *)
(* is one step.  Storage is another system: what is read of it may be old   *)
(* when the row is written.                                                 *)
(***************************************************************************)
EXTENDS Naturals

CONSTANTS
  Admins,
  LateCalls,   \* whether a removal may take effect after its caller gave it up
               \* or after its lease is over
  Losses,      \* whether storage may lose the object
  MaxTokens,   \* deletion claims
  MaxFaults,   \* failed calls
  None

DocumentArchiveAssumption ==
  /\ LateCalls \in BOOLEAN /\ Losses \in BOOLEAN
  /\ MaxTokens \in Nat /\ MaxFaults \in Nat /\ None \notin Admins

VARIABLES
  status,     \* document_archives.status
  hold,       \* legal_hold_at is set
  requester,  \* deletion_requested_by
  approver,   \* deletion_approved_by
  token,      \* deletion_token, 0 when null
  tokens,     \* tokens that were made
  expired,    \* the lease of fifteen minutes is over
  window,     \* the signed upload of the plan still works
  object,     \* the plan is in storage
  lost,       \* storage lost it
  late,       \* "due": storage has still to do a removal that was given up;
              \* "took": one that came late, or after its lease, took the plan
  act,        \* finalizeDocumentArchiveDeletion of each admin
  integrity,  \* integrity_status
  alert,      \* the alert document-archive-missing
  cron,       \* checkOneArchive
  faults

row == <<status, hold, requester, approver, token, tokens, expired>>
storage == <<window, object, lost, late>>
watch == <<integrity, alert, cron>>
vars == <<row, storage, act, watch, faults>>

IdleAct == [at |-> "idle", token |-> 0]
IdleCron == [at |-> "idle", was |-> "verified", seen |-> TRUE]

\* register_verified_document_archive
Init ==
  /\ status = "retained" /\ hold = FALSE /\ requester = None /\ approver = None
  /\ token = 0 /\ tokens = 0 /\ expired = FALSE
  /\ window = TRUE /\ object = TRUE /\ lost = FALSE /\ late = {}
  /\ act = [a \in Admins |-> IdleAct]
  /\ integrity = "verified" /\ alert = "none" /\ cron = IdleCron
  /\ faults = 0

-----------------------------------------------------------------------------
(* admin_transition_document_archive                                        *)

Open == status \in {"retained", "deletion_requested"}

PlaceHold ==
  /\ Open /\ ~hold /\ hold' = TRUE
  /\ UNCHANGED <<status, requester, approver, token, tokens, expired, storage, act, watch, faults>>

ReleaseHold ==
  /\ Open /\ hold /\ hold' = FALSE
  /\ UNCHANGED <<status, requester, approver, token, tokens, expired, storage, act, watch, faults>>

RequestDeletion(a) ==
  /\ status = "retained" /\ ~hold
  /\ status' = "deletion_requested" /\ requester' = a
  /\ UNCHANGED <<hold, approver, token, tokens, expired, storage, act, watch, faults>>

\* The row still names who asked.
CancelKeepsRequester ==
  /\ status = "deletion_requested" /\ status' = "retained"
  /\ UNCHANGED <<hold, requester, approver, token, tokens, expired, storage, act, watch, faults>>

CancelDeletion ==
  /\ status = "deletion_requested"
  /\ status' = "retained" /\ requester' = None
  /\ UNCHANGED <<hold, approver, token, tokens, expired, storage, act, watch, faults>>

-----------------------------------------------------------------------------
(* finalizeDocumentArchiveDeletion                                          *)

At(a, at) == act[a].at = at
Goto(a, at) == act' = [act EXCEPT ![a].at = at]
Leave(a) == act' = [act EXCEPT ![a] = IdleAct]
Claims(a) == status = "deleting" /\ token = act[a].token /\ approver = a

Claimable == status = "deletion_requested" \/ (status = "deleting" /\ expired)

Claim(a) ==
  /\ tokens < MaxTokens /\ tokens' = tokens + 1 /\ token' = tokens + 1
  /\ status' = "deleting" /\ approver' = a /\ expired' = FALSE
  /\ act' = [act EXCEPT ![a] = [at |-> "remove", token |-> tokens + 1]]
  /\ UNCHANGED <<hold, requester, storage, watch, faults>>

\* The hold is left to the last call.
BeginUnderHold(a) ==
  At(a, "idle") /\ Claimable /\ ~window /\ requester # a /\ Claim(a)

\* The upload window is not waited for.
BeginEarly(a) ==
  At(a, "idle") /\ Claimable /\ ~hold /\ requester # a /\ Claim(a)

\* One administrator is enough.
BeginAlone(a) ==
  At(a, "idle") /\ Claimable /\ ~hold /\ ~window /\ Claim(a)

\* begin_document_archive_deletion
Begin(a) ==
  At(a, "idle") /\ Claimable /\ ~hold /\ ~window /\ requester # a /\ Claim(a)

\* Its result is not looked at: the object is, in the next step.
Remove(a) ==
  /\ At(a, "remove") /\ Goto(a, "look")
  /\ \/ object' = FALSE /\ UNCHANGED faults
        /\ late' = late \cup (IF object /\ ~Claims(a) THEN {"took"} ELSE {})
     \/ faults < MaxFaults /\ faults' = faults + 1 /\ UNCHANGED object
        /\ late' \in {late, late \cup (IF LateCalls THEN {"due"} ELSE {})}
  /\ UNCHANGED <<row, window, lost, watch>>

Look(a) ==
  /\ At(a, "look") /\ Goto(a, IF object THEN "release" ELSE "finalize")
  /\ UNCHANGED <<row, storage, watch, faults>>

\* release_document_archive_deletion
Release(a) ==
  /\ At(a, "release") /\ Leave(a)
  /\ IF Claims(a)
     THEN status' = "deletion_requested" /\ token' = 0 /\ approver' = None /\ expired' = FALSE
     ELSE UNCHANGED <<status, token, approver, expired>>
  /\ UNCHANGED <<hold, requester, tokens, storage, watch, faults>>

\* finalize_document_archive_deletion, which resolves the alert too
Finalize(a) ==
  /\ At(a, "finalize") /\ Leave(a)
  /\ IF Claims(a) /\ ~hold /\ requester # a
     THEN /\ status' = "deleted" /\ token' = 0 /\ integrity' = "missing"
          /\ alert' = IF alert = "open" THEN "resolved" ELSE alert
     ELSE UNCHANGED <<status, token, integrity, alert>>
  /\ UNCHANGED <<hold, requester, approver, tokens, expired, storage, cron, faults>>

ActFails(a) ==
  /\ ~At(a, "idle") /\ faults < MaxFaults /\ faults' = faults + 1 /\ Leave(a)
  /\ UNCHANGED <<row, storage, watch>>

\* A server action ends long before its lease does, unless it was stopped.
Expire ==
  /\ status = "deleting" /\ ~expired /\ expired' = TRUE
  /\ LateCalls \/ \A a \in Admins : act[a].token # token
  /\ UNCHANGED <<status, hold, requester, approver, token, tokens, storage, act, watch, faults>>

-----------------------------------------------------------------------------
(* Storage, and the browser that has the signed upload                      *)

CloseWindow ==
  /\ window /\ window' = FALSE
  /\ UNCHANGED <<row, object, lost, late, act, watch, faults>>

UploadAgain ==
  /\ window /\ ~object /\ object' = TRUE
  /\ UNCHANGED <<row, window, lost, late, act, watch, faults>>

RemoveLate ==
  /\ "due" \in late /\ object' = FALSE
  /\ late' = (late \ {"due"}) \cup (IF object THEN {"took"} ELSE {})
  /\ UNCHANGED <<row, window, lost, act, watch, faults>>

Lose ==
  /\ Losses /\ ~lost /\ object /\ object' = FALSE /\ lost' = TRUE
  /\ UNCHANGED <<row, window, late, act, watch, faults>>

Recover ==
  /\ lost /\ ~object /\ Open /\ object' = TRUE
  /\ UNCHANGED <<row, window, lost, late, act, watch, faults>>

-----------------------------------------------------------------------------
(* The daily check                                                          *)

CronRead ==
  /\ cron.at = "idle" /\ status # "deleted"
  /\ cron' = [cron EXCEPT !.at = "exists", !.was = integrity]
  /\ UNCHANGED <<row, storage, act, integrity, alert, faults>>

CronExists ==
  /\ cron.at = "exists" /\ cron' = [cron EXCEPT !.at = "record", !.seen = object]
  /\ UNCHANGED <<row, storage, act, integrity, alert, faults>>

\* record_document_archive_presence, which answers with the row of a deleted archive
CronRecord ==
  LET result == IF status = "deleted" THEN integrity
                ELSE IF cron.seen THEN "verified" ELSE "missing"
  IN /\ cron.at = "record"
     /\ integrity' = result
     /\ cron' = IF ~cron.seen /\ result = "missing" THEN [cron EXCEPT !.at = "alert"]
                ELSE IF cron.seen /\ cron.was = "missing" /\ result = "verified"
                     THEN [cron EXCEPT !.at = "resolve"] ELSE IdleCron
     /\ UNCHANGED <<row, storage, act, alert, faults>>

\* Only the first finding is told.
CronAlertOnce ==
  /\ cron.at = "alert" /\ cron' = IdleCron
  /\ alert' = IF cron.was = "verified" /\ alert = "none" THEN "open" ELSE alert
  /\ UNCHANGED <<row, storage, act, integrity, faults>>

CronAlert ==
  /\ cron.at = "alert" /\ cron' = IdleCron /\ alert' = "open"
  /\ UNCHANGED <<row, storage, act, integrity, faults>>

CronResolve ==
  /\ cron.at = "resolve" /\ cron' = IdleCron
  /\ alert' = IF alert = "open" THEN "resolved" ELSE alert
  /\ UNCHANGED <<row, storage, act, integrity, faults>>

CronFails ==
  /\ cron.at # "idle" /\ faults < MaxFaults /\ faults' = faults + 1 /\ cron' = IdleCron
  /\ UNCHANGED <<row, storage, act, integrity, alert>>

-----------------------------------------------------------------------------
Deletion(a) == Begin(a) \/ Remove(a) \/ Look(a) \/ Release(a) \/ Finalize(a)

Check == CronRead \/ CronExists \/ CronRecord \/ CronAlert \/ CronResolve

Next ==
  \/ PlaceHold \/ ReleaseHold \/ CancelDeletion
  \/ \E a \in Admins : RequestDeletion(a) \/ Deletion(a) \/ ActFails(a)
  \/ Expire \/ CloseWindow \/ UploadAgain \/ RemoveLate \/ Lose \/ Recover
  \/ Check \/ CronFails

Spec == Init /\ [][Next]_vars

-----------------------------------------------------------------------------
\* A lease has a token and an approver, and a request that names who made it; a
\* tombstone has no lease (the constraints of the table).
TypeOK ==
  /\ status \in {"retained", "deletion_requested", "deleting", "deleted"}
  /\ \A b \in {hold, expired, window, object, lost} : b \in BOOLEAN
  /\ late \subseteq {"due", "took"}
  /\ requester \in Admins \cup {None} /\ approver \in Admins \cup {None}
  /\ tokens \in 0..MaxTokens /\ (token # 0 <=> status = "deleting")
  /\ (status = "retained") = (requester = None)
  /\ integrity \in {"verified", "missing"} /\ alert \in {"none", "open", "resolved"}
  /\ faults \in 0..MaxFaults

\* An erased plan is gone and stays so: no failed attempt, no reclaimed lease and no
\* old upload leaves an object behind a tombstone (the wait of two hours and five minutes).
DeletedIsGone == status = "deleted" => ~object

\* A plan under a legal hold is in storage, whatever was done to it before, unless
\* storage lost it or a removal took it that came too late: one that storage carried
\* out after its caller had given it up, or one whose lease had been taken over.
HeldIsKept == hold => object \/ lost \/ "took" \in late

\* The same without the late removals: "That lease blocks a concurrent hold"
\* (DATA_RETENTION_AND_REQUESTS.md:60).  Refuted where calls may be late.
HeldIsStored == hold => object \/ lost

\* Two administrators took part in whatever was removed.
TwoTookPart == status \in {"deleting", "deleted"} => approver \notin {None, requester}

\* No alert says of an erased plan that it is missing.
ErasedIsNotMissing == (status = "deleted" /\ cron.at = "idle") => alert # "open"

\* A plan that is missing while nobody removes it, and one that is told of or found.
Lost == ~object /\ status = "retained"
Told == alert = "open" \/ object \/ status # "retained"

-----------------------------------------------------------------------------
(* Why they hold.  A removal works with a token that no other removal has:   *)
(* while the lease lasts the row is its own, and a claim that came later     *)
(* makes its token void.                                                     *)

\* The row of the archive
RowTypes ==
  /\ status \in {"retained", "deletion_requested", "deleting", "deleted"}
  /\ hold \in BOOLEAN /\ expired \in BOOLEAN
  /\ requester \in Admins \cup {None} /\ approver \in Admins \cup {None}
  /\ (status = "retained") <=> (requester = None)

\* Tokens are made in order, and a row that is being deleted has one.
TokenTypes ==
  /\ tokens \in Nat /\ tokens <= MaxTokens /\ token \in Nat /\ token <= tokens
  /\ token # 0 <=> status = "deleting"
  /\ faults \in Nat /\ faults <= MaxFaults

\* What storage has
StorageTypes ==
  /\ window \in BOOLEAN /\ object \in BOOLEAN /\ lost \in BOOLEAN
  /\ late \subseteq {"due", "took"}

\* The removals know tokens that were made.
CallTypes ==
  /\ act \in [Admins -> [at : {"idle", "remove", "look", "release", "finalize"},
                         token : Nat]]
  /\ \A a \in Admins : act[a].token <= tokens

\* The daily check and what it wrote
WatchTypes ==
  /\ integrity \in {"verified", "missing"} /\ alert \in {"none", "open", "resolved"}
  /\ cron \in [at : {"idle", "exists", "record", "alert", "resolve"},
               was : {"verified", "missing"}, seen : BOOLEAN]

Types == RowTypes /\ TokenTypes /\ StorageTypes /\ CallTypes /\ WatchTypes

\* Who has the lease saw the object gone before the row is finalized, and nobody can
\* upload it again by then.
LeaseInv ==
  /\ status \in {"deleting", "deleted"} =>
       /\ ~window /\ ~hold
       /\ requester # None /\ approver # None /\ approver # requester
  /\ status = "deleted" => ~object
  /\ \A a \in Admins : act[a].at # "idle" => act[a].token # 0
  /\ \A a \in Admins :
       act[a].at = "finalize" /\ status = "deleting" /\ token = act[a].token => ~object

ArchiveInv == Types /\ LeaseInv

\* The plan is there, or it is known what took it.
Accounted == object \/ lost \/ "took" \in late

\* A row that is open has its object, and so has one whose lease is given back.
HeldInv ==
  /\ status \in {"retained", "deletion_requested"} => Accounted
  /\ \A a \in Admins : act[a].at = "release" /\ Claims(a) => Accounted
=============================================================================
