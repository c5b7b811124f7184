--------------------------- MODULE AdminBootstrap ---------------------------
(***************************************************************************)
(* The recovery of an administrator by a one-time key: the form, the route *)
(* and redeem_admin_bootstrap, with concurrent requests, lost answers,     *)
(* suspensions, and an operator who provisions and revokes grants.         *)
(*                                                                         *)
(* The function runs in one transaction at READ COMMITTED: it counts the   *)
(* failures first, with nothing locked ("count"), and decides under the    *)
(* lock of the grant ("redeem").  Grants are all for the e-mail address of *)
(* Owner; the key of a grant is its number, and 0 is a key of no grant.    *)
(***************************************************************************)
EXTENDS Integers, FiniteSets

CONSTANTS Users,        \* accounts
          Owner,        \* the account whose address grants are provisioned for
          AddressOf,        \* AddressOf[u]: the address an account's requests come from
          UserLimit,    \* 5 failures of an account
          PrintLimit,   \* 15 failures from an address
          Window,       \* 15 minutes
          Life,         \* how long a grant lives
          Concurrent,   \* bound: requests in flight
          MaxCalls,     \* bound: requests
          MaxGrants,    \* bound: grants
          MaxTime,      \* bound: the clock
          MaxFaults     \* bound: lost answers, failing transactions, suspensions

BootstrapAssumption ==
  /\ Owner \in Users /\ DOMAIN AddressOf = Users
  /\ {UserLimit, PrintLimit, Window, Life, Concurrent} \subseteq Nat \ {0}
  /\ {MaxCalls, MaxGrants, MaxTime, MaxFaults} \subseteq Nat

VARIABLES
  profiles,   \* profiles[u]: role and status
  grants,     \* the grants provisioned, by number
  attempts,   \* rows of admin_bootstrap_attempts
  calls,      \* requests in flight
  form,       \* form[u]: the request it waits for, or 0, and what it shows
  made,       \* requests made
  clock, faults

vars == <<profiles, grants, attempts, calls, form, made, clock, faults>>

Init ==
  /\ profiles = [u \in Users |-> [role |-> "customer", status |-> "active"]]
  /\ grants = [g \in {} |-> 0]
  /\ attempts = {} /\ calls = {} /\ made = 0
  /\ form = [u \in Users |-> [waits |-> 0, shows |-> "nothing"]]
  /\ clock = 0 /\ faults = 0

Fault == faults < MaxFaults /\ faults' = faults + 1
Known == DOMAIN grants
Open(g) == grants[g].state = "open"

-----------------------------------------------------------------------------
(* The form and the route *)

\* The route reads the profile before it calls the function.
Submit(u) ==
  /\ form[u].waits = 0 /\ form[u].shows # "success"
  /\ made < MaxCalls /\ Cardinality(calls) < Concurrent
  /\ made' = made + 1
  /\ IF profiles[u].status = "active"
     THEN /\ \E k \in Known \union {0} :
               calls' = calls \union {[id |-> made + 1, user |-> u, key |-> k, at |-> clock,
                                       active |-> TRUE, pc |-> "count", answer |-> "none"]}
          /\ form' = [form EXCEPT ![u] = [waits |-> made + 1, shows |-> "nothing"]]
     ELSE /\ form' = [form EXCEPT ![u].shows = "invalid"]
          /\ UNCHANGED calls
  /\ UNCHANGED <<profiles, grants, attempts, clock, faults>>

\* Mutant: the form stays busy.
AnswerStays(c) ==
  /\ c.pc = "answer"
  /\ calls' = calls \ {c}
  /\ form' = [form EXCEPT ![c.user].shows = c.answer]
  /\ UNCHANGED <<profiles, grants, attempts, made, clock, faults>>

\* The answer reaches the form, if it still waits; all refusals but one look the same.
Answer(c) ==
  /\ c.pc = "answer"
  /\ calls' = calls \ {c}
  /\ form' = IF form[c.user].waits = c.id
             THEN [form EXCEPT ![c.user] = [waits |-> 0, shows |-> c.answer]]
             ELSE form
  /\ UNCHANGED <<profiles, grants, attempts, made, clock, faults>>

\* The connection breaks, at any time; the function goes on.
AnswerIsLost(u) ==
  /\ form[u].waits # 0 /\ Fault
  /\ form' = [form EXCEPT ![u] = [waits |-> 0, shows |-> "invalid"]]
  /\ UNCHANGED <<profiles, grants, attempts, calls, made, clock>>

-----------------------------------------------------------------------------
(* redeem_admin_bootstrap *)

Become(c, d) == calls' = (calls \ {c}) \union {d}
Row(c, outcome, g) ==
  [id |-> c.id, user |-> c.user, outcome |-> outcome, grant |-> g, at |-> c.at]
Failed(a) == a.outcome # "redeemed"
Recent(a) == a.at >= clock - Window

\* Mutant: the limit may be passed by one.
ThrottledLate(u) ==
  \/ Cardinality({a \in attempts : Failed(a) /\ Recent(a) /\ a.user = u}) > UserLimit
  \/ Cardinality({a \in attempts : Failed(a) /\ Recent(a) /\ AddressOf[a.user] = AddressOf[u]})
       > PrintLimit

\* A throttled attempt counts as well.
Throttled(u) ==
  \/ Cardinality({a \in attempts : Failed(a) /\ Recent(a) /\ a.user = u}) >= UserLimit
  \/ Cardinality({a \in attempts : Failed(a) /\ Recent(a) /\ AddressOf[a.user] = AddressOf[u]})
       >= PrintLimit

\* The request takes its time, reads the profile and counts what is committed.
Count(c) ==
  /\ c.pc = "count"
  /\ LET d == [c EXCEPT !.at = clock, !.active = profiles[c.user].status = "active"] IN
       IF Throttled(c.user)
       THEN /\ attempts' = attempts \union {Row(d, "throttled", 0)}
            /\ Become(c, [d EXCEPT !.pc = "answer", !.answer = "throttled"])
       ELSE Become(c, [d EXCEPT !.pc = "redeem"]) /\ UNCHANGED attempts
  /\ UNCHANGED <<profiles, grants, form, made, clock, faults>>

\* The open grant of the address, or the newest: a grant is only made when none is open,
\* so that the newest is always meant.
Selected == Cardinality(Known)

\* Mutant: a used grant is not told from an unused one.
OutcomeOfUsed(c) ==
  IF c.user # Owner \/ Known = {} THEN "invalid"
  ELSE LET g == grants[Selected] IN
    CASE g.state = "revoked" -> "revoked"
      [] g.expires <= c.at -> "expired"
      [] ~c.active -> "ineligible"
      [] c.key # Selected -> "invalid"
      [] profiles[c.user].status # "active" -> "ineligible"
      [] OTHER -> "redeemed"

\* Mutant: the status that was read before is trusted.
OutcomeOfRead(c) ==
  IF c.user # Owner \/ Known = {} THEN "invalid"
  ELSE LET g == grants[Selected] IN
    CASE g.state = "used" -> "already_used"
      [] g.state = "revoked" -> "revoked"
      [] g.expires <= c.at -> "expired"
      [] ~c.active -> "ineligible"
      [] c.key # Selected -> "invalid"
      [] OTHER -> "redeemed"

\* What the locked grant, the profile that was read and the one that is there decide.
Outcome(c) ==
  IF c.user # Owner \/ Known = {} THEN "invalid"
  ELSE LET g == grants[Selected] IN
    CASE g.state = "used" -> "already_used"
      [] g.state = "revoked" -> "revoked"
      [] g.expires <= c.at -> "expired"
      [] ~c.active -> "ineligible"
      [] c.key # Selected -> "invalid"
      [] profiles[c.user].status # "active" -> "ineligible"
      [] OTHER -> "redeemed"

\* Promotion, use of the grant and the row of the attempt commit together.
Redeem(c) ==
  /\ c.pc = "redeem"
  /\ LET outcome == Outcome(c) IN
       /\ attempts' = attempts \union
            {Row(c, outcome, IF c.user = Owner /\ Known # {} THEN Selected ELSE 0)}
       /\ IF outcome = "redeemed"
          THEN /\ profiles' = [profiles EXCEPT ![c.user].role = "admin"]
               /\ grants' = [grants EXCEPT ![Selected].state = "used", ![Selected].by = c.user]
               /\ Become(c, [c EXCEPT !.pc = "answer", !.answer = "success"])
          ELSE /\ Become(c, [c EXCEPT !.pc = "answer", !.answer = "invalid"])
               /\ UNCHANGED <<profiles, grants>>
  /\ UNCHANGED <<form, made, clock, faults>>

\* The transaction fails: nothing of it stays, and the route answers 503.
Fails(c) ==
  /\ c.pc \in {"count", "redeem"} /\ Fault
  /\ Become(c, [c EXCEPT !.pc = "answer", !.answer = "invalid"])
  /\ UNCHANGED <<profiles, grants, attempts, form, made, clock>>

-----------------------------------------------------------------------------
(* Others *)

\* A unique index allows one grant that is neither used nor revoked, expired or not.
Provision ==
  /\ Cardinality(Known) < MaxGrants /\ \A g \in Known : ~Open(g)
  /\ grants' = [g \in Known \union {Cardinality(Known) + 1} |->
                  IF g \in Known THEN grants[g]
                  ELSE [state |-> "open", by |-> "nobody", expires |-> clock + Life]]
  /\ UNCHANGED <<profiles, attempts, calls, form, made, clock, faults>>

Revoke ==
  /\ \E g \in Known : Open(g) /\ grants' = [grants EXCEPT ![g].state = "revoked"]
  /\ UNCHANGED <<profiles, attempts, calls, form, made, clock, faults>>

\* Another administrator suspends an account or restores it.
SetStatus ==
  /\ Fault
  /\ \E u \in Users : profiles' = [profiles EXCEPT ![u].status =
                                     IF @ = "active" THEN "suspended" ELSE "active"]
  /\ UNCHANGED <<grants, attempts, calls, form, made, clock>>

Tick ==
  /\ clock < MaxTime /\ clock' = clock + 1
  /\ UNCHANGED <<profiles, grants, attempts, calls, form, made, faults>>

Next ==
  \/ \E u \in Users : Submit(u) \/ AnswerIsLost(u)
  \/ \E c \in calls : Count(c) \/ Redeem(c) \/ Fails(c) \/ Answer(c)
  \/ Provision \/ Revoke \/ SetStatus \/ Tick

Spec == Init /\ [][Next]_vars

-----------------------------------------------------------------------------
(* Properties *)

\* Types, and that a form waits for a request of its own.
TypeOK ==
  /\ profiles \in [Users -> [role : {"customer", "admin"}, status : {"active", "suspended"}]]
  /\ Known = 1..Cardinality(Known) /\ clock \in 0..MaxTime
  /\ \A g \in Known : grants[g].state \in {"open", "used", "revoked"}
  /\ \A u \in Users : /\ form[u].shows \in {"nothing", "invalid", "throttled", "success"}
                      /\ form[u].waits # 0 =>
                           \E c \in calls : c.id = form[u].waits /\ c.user = u
  /\ \A a, b \in attempts : a.id = b.id => a = b

\* A grant makes one account an administrator once, and every administrator has used one:
\* "Private, expiring, single-use admin bootstrap capabilities", with requests that overlap.
UsedOnce ==
  /\ \A g \in Known : LET uses == {a \in attempts : a.grant = g /\ ~Failed(a)} IN
       /\ Cardinality(uses) = IF grants[g].state = "used" THEN 1 ELSE 0
       /\ \A a \in uses : a.user = grants[g].by
  /\ \A u \in Users : profiles[u].role = "admin" => \E g \in Known : grants[g].by = u

\* Failures of one window of time that are not the throttle's own.
Refusals(A, t) ==
  Cardinality({a \in A : Failed(a) /\ a.outcome # "throttled" /\ a.at \in (t - Window)..t})

\* The limit is counted with nothing locked: requests that overlap pass it together, but
\* in no window of time are there more failures than the limit and those beside the last.
OvershootIsBounded == \A t \in 0..clock : \A u \in Users :
  /\ Refusals({a \in attempts : a.user = u}, t) < UserLimit + Concurrent
  /\ Refusals({a \in attempts : AddressOf[a.user] = AddressOf[u]}, t) < PrintLimit + Concurrent

\* An account that is suspended while its request is under way is not promoted.
SuspendedStaysOut == \A u \in Users :
  profiles[u].role # "admin" /\ profiles'[u].role = "admin" => profiles[u].status = "active"

\* The form: "Too many attempts. Wait 15 minutes before trying again."  Who was told so,
\* and waited, is heard.
WaitedIsHeard == \A a, b \in attempts :
  a.user = b.user /\ a.outcome = "throttled" /\ b.outcome = "throttled" /\ b.at < a.at =>
    \E c \in attempts : c # a /\ c.user = a.user /\ c.at \in (a.at - Window)..a.at

\* The form: "The key could not be redeemed" is only said of a key that was not.
FormIsTrue == \A u \in Users : form[u].shows = "invalid" /\ form[u].waits = 0 =>
  profiles[u].role # "admin"
=============================================================================
