-------------------------- MODULE StripeTestPromotion --------------------------
(***************************************************************************)
(* The discount an administrator makes to try the live checkout for $2:    *)
(* look for the codes of earlier requests, make a coupon, make its code,   *)
(* audit it, answer; clean up when a step fails.  Stripe keeps one active  *)
(* code of a text per customer, and the text is the administrator's.       *)
(*                                                                         *)
(* The coupon and the code of a request carry the name of the request.     *)
(* The customer is one and the same: SubscriptionCheckout shows that.      *)
(***************************************************************************)
EXTENDS Naturals, Sequences, FiniteSets

CONSTANTS
  Requests, NoCode,
  AuditLimit,   \* rows the route reads, newest first
  MaxInFlight,  \* bound: requests at a time
  MaxFaults,    \* bound: calls that fail, or whose answer is lost
  MaxDeaths     \* bound: requests that die

PromotionAssumption ==
  /\ NoCode \notin Requests
  /\ {AuditLimit, MaxInFlight, MaxFaults, MaxDeaths} \subseteq Nat

VARIABLES
  req,       \* req[r]: where the request is and what it has read
  told,      \* told[r]: the code the administrator was shown, or why there is none
  coupon,    \* coupon[r]: none, live or deleted
  code,      \* code[r]: none, live or inactive
  redeemed,  \* codes that paid for a pack
  expired,   \* codes past expires_at
  audit,     \* admin_audit_log: the codes, oldest first
  faults, deaths

stripe == <<coupon, code, redeemed, expired>>
counters == <<faults, deaths>>
vars == <<req, told, stripe, audit, counters>>

Idle == [pc |-> "idle", left |-> {}, found |-> "none", active |-> NoCode,
         ids |-> {}, late |-> FALSE]

Init ==
  /\ req = [r \in Requests |-> Idle] /\ told = [r \in Requests |-> "none"]
  /\ coupon = [r \in Requests |-> "none"] /\ code = [r \in Requests |-> "none"]
  /\ redeemed = {} /\ expired = {} /\ audit = <<>>
  /\ faults = 0 /\ deaths = 0

\* What Stripe reports as promotion.active.
Active(c) == code[c] = "live" /\ coupon[c] = "live" /\ c \notin redeemed \cup expired

Audited == {audit[i] : i \in DOMAIN audit}
At(r, pc) == req[r].pc = pc
Ended(r) == req[r].pc \in {"idle", "done", "dead"}
InFlight == {r \in Requests : ~Ended(r)}
Goto(r, pc) == req' = [req EXCEPT ![r].pc = pc]
End(r, answer) == Goto(r, "done") /\ told' = [told EXCEPT ![r] = answer]
Fault == faults < MaxFaults /\ faults' = faults + 1 /\ UNCHANGED deaths

\* catch: undo what the request knows that it made.
Catch(r, ids) == req' = [req EXCEPT ![r].pc = "cleanup", ![r].ids = ids]

-----------------------------------------------------------------------------
(* Looking for an earlier code *)

Begin(r) ==
  /\ At(r, "idle") /\ Cardinality(InFlight) < MaxInFlight
  /\ req' = [req EXCEPT ![r].pc = "audits", ![r].late = Audited \cap redeemed # {}]
  /\ UNCHANGED <<told, stripe, audit, counters>>

Newest(n) == {audit[i] : i \in {j \in DOMAIN audit : j + n > Len(audit)}}

\* Mutant: only the last code is looked at.
ReadLastAudit(r) ==
  /\ At(r, "audits")
  /\ req' = [req EXCEPT ![r].pc = "lookup", ![r].left = Newest(1)]
  /\ UNCHANGED <<told, stripe, audit, counters>>

ReadAudits(r) ==
  /\ At(r, "audits")
  /\ \/ /\ req' = [req EXCEPT ![r].pc = "lookup", ![r].left = Newest(AuditLimit)]
        /\ UNCHANGED counters
     \/ Fault /\ Catch(r, {})
  /\ UNCHANGED <<told, stripe, audit>>

\* promotionCodes.retrieve: the calls run at the same time.
Retrieve(r, c) ==
  /\ At(r, "lookup") /\ c \in req[r].left
  /\ \/ /\ req' = [req EXCEPT ![r].left = @ \ {c},
                              ![r].found = IF c \in redeemed THEN "redeemed" ELSE @,
                              ![r].active = IF Active(c) THEN c ELSE @]
        /\ UNCHANGED counters
     \/ Fault /\ Catch(r, {})
  /\ UNCHANGED <<told, stripe, audit>>

\* Mutant: a redeemed code is no longer active, and is not asked about.
DecideByActive(r) ==
  /\ At(r, "lookup") /\ req[r].left = {}
  /\ \/ req[r].active # NoCode /\ End(r, req[r].active)
     \/ req[r].active = NoCode /\ Goto(r, "coupon") /\ UNCHANGED told
  /\ UNCHANGED <<stripe, audit, counters>>

\* Mutant: the answer shows a code whether there is one or not.
DecideAndShow(r) ==
  /\ At(r, "lookup") /\ req[r].left = {}
  /\ \/ req[r].found = "redeemed" /\ End(r, "redeemed")
     \/ req[r].found = "none" /\ End(r, req[r].active)
  /\ UNCHANGED <<stripe, audit, counters>>

Decide(r) ==
  /\ At(r, "lookup") /\ req[r].left = {}
  /\ \/ req[r].found = "redeemed" /\ End(r, "redeemed")
     \/ req[r].found = "none" /\ req[r].active # NoCode /\ End(r, req[r].active)
     \/ req[r].found = "none" /\ req[r].active = NoCode /\ Goto(r, "coupon") /\ UNCHANGED told
  /\ UNCHANGED <<stripe, audit, counters>>

-----------------------------------------------------------------------------
(* Making a new one *)

CreateCoupon(r) ==
  /\ At(r, "coupon")
  /\ \/ /\ coupon' = [coupon EXCEPT ![r] = "live"]
        /\ \/ Goto(r, "code") /\ UNCHANGED counters
           \/ Fault /\ Catch(r, {})
     \/ Fault /\ Catch(r, {}) /\ UNCHANGED coupon
  /\ UNCHANGED <<told, code, redeemed, expired, audit>>

\* Mutant: a text made of the attempt is never taken.
TextOfAttempt == FALSE

\* Stripe refuses a text that another active code of the customer has.
TextTaken == \E c \in Requests : Active(c)

CreateCode(r) ==
  /\ At(r, "code")
  /\ \/ /\ ~TextTaken
        /\ code' = [code EXCEPT ![r] = "live"]
        /\ \/ Goto(r, "audit") /\ UNCHANGED counters
           \/ Fault /\ Catch(r, {"coupon"})
     \/ TextTaken /\ Catch(r, {"coupon"}) /\ UNCHANGED <<code, counters>>
     \/ Fault /\ Catch(r, {"coupon"}) /\ UNCHANGED code
  /\ UNCHANGED <<told, coupon, redeemed, expired, audit>>

\* Mutant: the answer does not depend on the audit.
AuditAtLeisure(r) ==
  /\ At(r, "audit") /\ End(r, r)
  /\ audit' = Append(audit, r) \/ audit' = audit
  /\ UNCHANGED <<stripe, counters>>

AuditCode(r) ==
  /\ At(r, "audit")
  /\ \/ /\ audit' = Append(audit, r)
        /\ \/ End(r, r) /\ UNCHANGED counters
           \/ Fault /\ Catch(r, {"code", "coupon"}) /\ UNCHANGED told
     \/ Fault /\ Catch(r, {"code", "coupon"}) /\ UNCHANGED <<told, audit>>
  /\ UNCHANGED stripe

\* Mutant: only the code that the request knows is taken back.
DeactivateOnly(r) ==
  /\ At(r, "cleanup")
  /\ IF "code" \in req[r].ids THEN code' = [code EXCEPT ![r] = "inactive"] ELSE UNCHANGED code
  /\ req' = [req EXCEPT ![r].pc = "done"] /\ told' = [told EXCEPT ![r] = "error"]
  /\ UNCHANGED <<coupon, redeemed, expired, audit, counters>>

\* Promise.allSettled: each call is tried, whatever becomes of the other.
CleanUp(r) ==
  /\ At(r, "cleanup")
  /\ \/ \E id \in req[r].ids :
          /\ req' = [req EXCEPT ![r].ids = @ \ {id}]
          /\ \/ /\ code' = IF id = "code" THEN [code EXCEPT ![r] = "inactive"] ELSE code
                /\ coupon' = IF id = "coupon" THEN [coupon EXCEPT ![r] = "deleted"] ELSE coupon
                /\ UNCHANGED counters
             \/ Fault /\ UNCHANGED <<code, coupon>>
          /\ UNCHANGED told
     \/ req[r].ids = {} /\ End(r, "error") /\ UNCHANGED <<code, coupon, counters>>
  /\ UNCHANGED <<redeemed, expired, audit>>

-----------------------------------------------------------------------------
(* The administrator, Stripe and the host *)

\* The administrator pays with the text once it has been shown; it is the same for all codes.
Redeem(c) ==
  /\ Active(c) /\ \E r \in Requests : told[r] \in Requests
  /\ redeemed' = redeemed \cup {c}
  /\ UNCHANGED <<req, told, coupon, code, expired, audit, counters>>

\* Thirty minutes are longer than any request.
Expire(c) ==
  /\ Active(c) /\ InFlight = {}
  /\ expired' = expired \cup {c}
  /\ UNCHANGED <<req, told, coupon, code, redeemed, audit, counters>>

Die(r) ==
  /\ r \in InFlight /\ deaths < MaxDeaths /\ deaths' = deaths + 1
  /\ Goto(r, "dead")
  /\ UNCHANGED <<told, stripe, audit, faults>>

Serve(r) ==
  \/ ReadAudits(r) \/ (\E c \in Requests : Retrieve(r, c)) \/ Decide(r)
  \/ CreateCoupon(r) \/ CreateCode(r) \/ AuditCode(r) \/ CleanUp(r)

Next ==
  \/ \E r \in Requests : Begin(r) \/ Serve(r) \/ Die(r)
  \/ \E c \in Requests : Redeem(c) \/ Expire(c)

Spec == Init /\ [][Next]_vars
-----------------------------------------------------------------------------
(* Properties *)

\* The variables hold what the table, Stripe and the requests can hold.
TypeOK ==
  /\ \A r \in Requests :
       /\ req[r].pc \in {"idle", "audits", "lookup", "coupon", "code", "audit", "cleanup",
                         "done", "dead"}
       /\ req[r].left \subseteq Requests /\ req[r].found \in {"none", "redeemed"}
       /\ req[r].active \in Requests \cup {NoCode} /\ req[r].ids \subseteq {"code", "coupon"}
       /\ told[r] \in {"none", "redeemed", "error"} \cup Requests
       /\ coupon[r] \in {"none", "live", "deleted"} /\ code[r] \in {"none", "live", "inactive"}
  /\ redeemed \subseteq Requests /\ expired \subseteq Requests /\ Audited \subseteq Requests

\* One discount at most can be used at any moment: concurrent requests race for one active
\* code (buildStripeTestPromotionCode of the profile).
OneActiveCode == Cardinality({c \in Requests : Active(c)}) <= 1

\* The owner's test is paid with a discount once (the 409 of POST).
OneDiscount == Cardinality(redeemed) <= 1

\* A request that begins after an audited code was redeemed makes no further code, however
\* many codes were made since (findExistingTestPromotion).
RedeemedIsFinal == \A r \in Requests : req[r].late => code[r] = "none"

\* Whatever the administrator is shown as a code was audited first.
ShownIsAudited == \A r \in Requests : told[r] \in Requests => told[r] \in Audited

\* A request that answers with an error leaves no discount that can be used, when the one
\* call that failed is the one that made it fail (the catch of POST).
FailureLeavesNothing == \A r \in Requests : told[r] = "error" => ~Active(r)
=============================================================================
