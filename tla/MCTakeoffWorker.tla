--------------------------- MODULE MCTakeoffWorker ---------------------------
(* Instances of TakeoffWorker for TLC. *)
EXTENDS TakeoffWorker

CONSTANTS c1, j1, j2, w1, w2

MCOwner == [j \in Jobs |-> c1]
MCQuote == [j \in Jobs |-> 1]
MCCredits == [u \in Users |-> Cardinality(Jobs)]
NoJobs == {}
=============================================================================
