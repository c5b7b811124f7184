---------------------------- MODULE MCTakeoffJobs ----------------------------
(* Instances of TakeoffJobs for TLC. *)
EXTENDS TakeoffJobs, TLC

CONSTANTS c1, j1, j2, j3, j4, w1, w2

\* One customer for all takeoffs: what is at stake between customers is
\* nothing, what is at stake between takeoffs of one customer is everything.
MCOwner == [j \in Jobs |-> c1]

NoJobs == {}

\* Two paid takeoffs that together cost more than the customer has
ScarceQuote == [j \in Jobs |-> IF j = j1 THEN 1 ELSE 3]
ScarceRush == {j2}
ScarceCredits == [u \in Users |-> 3]

\* Two free samples, and two takeoffs quoted the introductory price with
\* credits for both
SampleJobs == {j1, j2}
IntroJobs == {j3, j4}
OffersQuote == [j \in Jobs |-> IF j \in SampleJobs THEN 0 ELSE 2]
OffersCredits == [u \in Users |-> 4]

\* Of the four, the customer goes on with both samples and a paid takeoff, or
\* with both introductory offers; the others were canceled before.
OffersInit ==
  /\ status \in {[j \in Jobs |-> IF j \in open THEN "ready" ELSE "canceled"] :
                   open \in {{j1, j2, j3}, {j3, j4}}}
  /\ claimed_by = [j \in Jobs |-> NoWorker] /\ claim_token = [j \in Jobs |-> NoToken]
  /\ attempt_count = [j \in Jobs |-> 0] /\ queued_before = {}
  /\ reserved_credits = [j \in Jobs |-> 0] /\ consumed_credits = [j \in Jobs |-> 0]
  /\ ledger = [j \in Jobs |-> {}] /\ balance = OpeningCredits
  /\ lifetime_consumed = [u \in Users |-> 0]
  /\ files = [j \in Jobs |-> {}] /\ stale = [j \in Jobs |-> FALSE]
  /\ read_token = [j \in Jobs |-> NoToken]
  /\ profile_status = [u \in Users |-> "active"]
  /\ free_sample_used = [u \in Users |-> FALSE]
  /\ events = [j \in Jobs |-> {}]

OffersSpec == OffersInit /\ [][Next]_vars

Symmetry == Permutations(Workers)
=============================================================================
