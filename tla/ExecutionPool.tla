---------------------------- MODULE ExecutionPool ----------------------------
(***************************************************************************)
(* What the execution broker promises of the processor runtimes it keeps   *)
(* on the host (directory, network, container): a takeoff has at most one, *)
(* there are never more than Limit of them, and a takeoff changes its      *)
(* runtime only by giving one up first.  TakeoffWorker relies on this.     *)
(***************************************************************************)
EXTENDS Naturals, FiniteSets

CONSTANTS Jobs, Executions, NoExecution, Limit

PoolAssumption == NoExecution \notin Executions /\ Limit \in Nat

VARIABLE held  \* held[j]: the execution whose runtime works for takeoff j

Init == held = [j \in Jobs |-> NoExecution]

Busy == {j \in Jobs : held[j] # NoExecution}

Start(j, e) ==
  /\ held[j] = NoExecution
  /\ Cardinality(Busy) < Limit
  /\ held' = [held EXCEPT ![j] = e]

Stop(j) ==
  /\ held[j] # NoExecution
  /\ held' = [held EXCEPT ![j] = NoExecution]

Next == \E j \in Jobs : Stop(j) \/ \E e \in Executions : Start(j, e)

Spec == Init /\ [][Next]_held
=============================================================================
