------------------------------ MODULE UsageAudit ------------------------------
(***************************************************************************)
(* persistAndAuditTakeoffProcessorUsage: the reported usage of an attempt  *)
(* is recorded, or an alert says that it is missing, and a health report   *)
(* sums up the alerts.  The calls of the worker (complete, fail, and both  *)
(* again after a timeout) may overlap, and every access to the database    *)
(* may fail; none of that stops the settlement they are part of.           *)
(***************************************************************************)
EXTENDS Naturals, FiniteSets

CONSTANTS
  Attempts,  \* a takeoff and a claim of it
  Calls, MaxFaults, None

AuditAssumption == MaxFaults \in Nat /\ None \notin Attempts

VARIABLES
  rows,      \* rows[a]: takeoff_processor_usage
  alert,     \* alert[a]: an active alert "takeoff-processor-usage:<a>"
  health,    \* service_health of processor-usage
  call,      \* call[c]
  lost,      \* attempts whose usage was reported missing to the end
  overlapped,\* two calls were under way at once
  faults

vars == <<rows, alert, health, call, lost, overlapped, faults>>

Idle == [pc |-> "idle", attempt |-> None, value |-> "absent", required |-> FALSE, seen |-> FALSE, degraded |-> FALSE]

Init ==
  /\ rows = [a \in Attempts |-> 0] /\ alert = [a \in Attempts |-> FALSE] /\ health = "missing"
  /\ call = [c \in Calls |-> Idle] /\ lost = {} /\ overlapped = FALSE /\ faults = 0

At(c, pc) == call[c].pc = pc
Become(c, s) == call' = [call EXCEPT ![c] = s]
Goto(c, pc) == Become(c, [call[c] EXCEPT !.pc = pc])

\* A database access that fails
Fault == faults < MaxFaults /\ faults' = faults + 1

Started(c, a, value, required) ==
  /\ At(c, "idle")
  /\ Become(c, [Idle EXCEPT !.pc = "persist", !.attempt = a, !.value = value, !.required = required])
  /\ overlapped' = (overlapped \/ \E d \in Calls : ~At(d, "idle"))
  /\ UNCHANGED <<rows, alert, health, lost, faults>>

\* Completion requires usage, failure does not.  A claim that is resumed after a restart of
\* the worker may report the usage of another run.
Call(c) ==
  \E a \in Attempts, value \in {"absent", "invalid", "valid"}, required \in BOOLEAN : Started(c, a, value, required)

-----------------------------------------------------------------------------
(* persistTakeoffProcessorUsage *)

\* Mutant: every report of an attempt is a row.
InsertRow(a) == [rows EXCEPT ![a] = @ + 1]

\* upsert on (job_id, claim_token)
UpsertRow(a) == [rows EXCEPT ![a] = 1]

Issue(c) == Goto(c, IF call[c].value = "absent" /\ ~call[c].required THEN "idle" ELSE "look")

Persist(c) ==
  /\ At(c, "persist")
  /\ \/ call[c].value # "valid" /\ Issue(c) /\ UNCHANGED <<rows, faults>>
     \/ call[c].value = "valid" /\ Fault /\ Issue(c) /\ UNCHANGED rows
     \/ /\ call[c].value = "valid"
        /\ rows' = UpsertRow(call[c].attempt) /\ Goto(c, "resolve") /\ UNCHANGED faults
  /\ UNCHANGED <<alert, health, lost, overlapped>>

-----------------------------------------------------------------------------
(* reportUsageIssue *)

\* createOrTouchUsageAlert: is there an active alert?
LookForAlert(c) ==
  /\ At(c, "look")
  /\ \/ Become(c, [call[c] EXCEPT !.pc = "alert", !.seen = alert[call[c].attempt]]) /\ UNCHANGED <<lost, faults>>
     \/ Fault /\ Goto(c, "degrade") /\ UNCHANGED lost
  /\ UNCHANGED <<rows, alert, health, overlapped>>

\* An alert that was seen is touched, which does not open it again; one that was not is
\* inserted, unless another call has done so.
WriteAlert(c) ==
  LET a == call[c].attempt IN
  /\ At(c, "alert") /\ Goto(c, "degrade")
  /\ \/ /\ alert' = [alert EXCEPT ![a] = @ \/ ~call[c].seen]
        /\ lost' = lost \cup {a} /\ UNCHANGED faults
     \/ Fault /\ UNCHANGED <<alert, lost>>
  /\ UNCHANGED <<rows, health, overlapped>>

Degrade(c) ==
  /\ At(c, "degrade") /\ Become(c, Idle)
  /\ \/ health' = "degraded" /\ UNCHANGED faults
     \/ Fault /\ UNCHANGED health
  /\ UNCHANGED <<rows, alert, lost, overlapped>>

-----------------------------------------------------------------------------
(* reportRecordedUsage *)

\* Mutant: the alerts of all attempts are resolved.
ResolveAll(a) == [b \in Attempts |-> FALSE]

ResolveAlert(a) == [alert EXCEPT ![a] = FALSE]

Resolve(c) ==
  /\ At(c, "resolve")
  /\ \/ /\ alert' = ResolveAlert(call[c].attempt)
        /\ Goto(c, "count") /\ UNCHANGED faults
     \/ Fault /\ Become(c, [call[c] EXCEPT !.pc = "count", !.degraded = TRUE]) /\ UNCHANGED alert
  /\ UNCHANGED <<rows, health, lost, overlapped>>

\* Mutant: only the alert of the attempt itself is counted.
UnresolvedHere(c) == alert[call[c].attempt]

Unresolved(c) == \E a \in Attempts : alert[a]

CountAlerts(c) ==
  /\ At(c, "count")
  /\ \/ Become(c, [call[c] EXCEPT !.pc = "report", !.degraded = @ \/ Unresolved(c)]) /\ UNCHANGED faults
     \/ Fault /\ Become(c, [call[c] EXCEPT !.pc = "report", !.degraded = TRUE])
  /\ UNCHANGED <<rows, alert, health, lost, overlapped>>

Report(c) ==
  /\ At(c, "report") /\ Become(c, Idle)
  /\ \/ health' = (IF call[c].degraded THEN "degraded" ELSE "healthy") /\ UNCHANGED faults
     \/ Fault /\ UNCHANGED health
  /\ UNCHANGED <<rows, alert, lost, overlapped>>

Step(c) ==
  \/ Persist(c) \/ LookForAlert(c) \/ WriteAlert(c) \/ Degrade(c)
  \/ Resolve(c) \/ CountAlerts(c) \/ Report(c)

Next == \E c \in Calls : Call(c) \/ Step(c)

Spec == Init /\ [][Next]_vars

-----------------------------------------------------------------------------
(* Properties *)

TypeOK ==
  /\ rows \in [Attempts -> 0..1] /\ alert \in [Attempts -> BOOLEAN]
  /\ health \in {"missing", "healthy", "degraded"} /\ lost \subseteq Attempts
  /\ \A c \in Calls : call[c].attempt \in Attempts \cup {None}
  /\ overlapped \in BOOLEAN /\ faults \in 0..MaxFaults

Quiet == \A c \in Calls : At(c, "idle")

\* An attempt whose usage could not be saved has an alert until it is saved, however
\* calls overlap.
MissingIsAlerted == \A a \in lost : rows[a] = 0 => alert[a]

\* The health report and the alerts say the same.
HealthAgrees ==
  /\ health = "healthy" => \A a \in Attempts : ~alert[a]
  /\ health # "healthy" => health = "missing" \/ \E a \in Attempts : alert[a]

\* As long as calls come one after the other and the database answers, the health report
\* is right: degraded exactly while some attempt has an alert.
HealthIsTrue == Quiet /\ ~overlapped /\ faults = 0 => HealthAgrees

\* internal-takeoff-processor-usage.ts:227: "OpenAI usage and estimated API cost were
\* validated and persisted." is not said while an attempt needs reconciliation.
HealthyIsReconciled ==
  Quiet /\ faults = 0 /\ health = "healthy" => \A a \in Attempts : ~alert[a]
-----------------------------------------------------------------------------
(* Why they hold: an inductive invariant *)

Shapes ==
  [pc : {"idle", "persist", "look", "alert", "degrade", "resolve", "count", "report"},
   attempt : Attempts \cup {None}, value : {"absent", "invalid", "valid"},
   required : BOOLEAN, seen : BOOLEAN, degraded : BOOLEAN]

Carries(s) == s \in Shapes /\ (s.pc # "idle" => s.attempt \in Attempts)

Typed ==
  /\ rows \in [Attempts -> {0, 1}] /\ alert \in [Attempts -> BOOLEAN]
  /\ lost \subseteq Attempts /\ faults \in Nat

CallsTyped == DOMAIN call = Calls /\ \A c \in Calls : Carries(call[c])

\* Who resolves an alert has a row for it, and an alert that was seen was only resolved since
\* by somebody who had one.
Backed ==
  \A c \in Calls :
    /\ At(c, "resolve") => rows[call[c].attempt] = 1
    /\ At(c, "alert") /\ call[c].seen =>
         alert[call[c].attempt] \/ rows[call[c].attempt] = 1

Alone == ~overlapped => \A c, d \in Calls : At(c, "idle") \/ At(d, "idle") \/ c = d

\* The call that is under way, alone, either has not changed an alert yet, or knows what it
\* will report.
Informed ==
  ~overlapped /\ faults = 0 =>
    /\ (\A c \in Calls : call[c].pc \in {"idle", "persist", "look", "alert"}) => HealthAgrees
    /\ \A c \in Calls :
         /\ At(c, "alert") /\ call[c].seen => alert[call[c].attempt]
         /\ At(c, "degrade") => alert[call[c].attempt]
         /\ call[c].pc \in {"persist", "resolve", "count"} => ~call[c].degraded
         /\ At(c, "report") => (call[c].degraded <=> Unresolved(c))

AuditInv == Typed /\ CallsTyped /\ Backed /\ MissingIsAlerted /\ Alone /\ Informed
=============================================================================
