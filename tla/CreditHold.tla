----------------------------- MODULE CreditHold -----------------------------
(***************************************************************************)
(* What the credit RPCs promise a customer, with the ledger, the takeoff   *)
(* lifecycle and the workers left out.  The price of a takeoff is taken    *)
(* from the balance of its owner once, as a hold.  A hold ends once: it is *)
(* settled, and the credits are spent, or released, and every credit of it *)
(* returns to the balance.  TakeoffJobs implements this module.            *)
(***************************************************************************)
EXTENDS Naturals

CONSTANTS Users,           \* customers
          Jobs,            \* takeoffs
          Owner,           \* Owner[j]: the customer takeoff j belongs to
          Quote,           \* Quote[j]: the price of takeoff j, in credits
          OpeningCredits   \* OpeningCredits[u]: the balance u starts with

VARIABLES hold,     \* hold[j]: what has become of the price of takeoff j
          balance   \* balance[u]: the credits customer u can still spend

vars == <<hold, balance>>

Init == /\ hold = [j \in Jobs |-> "none"]
        /\ balance = OpeningCredits

Take(j) == /\ hold[j] = "none"
           /\ balance[Owner[j]] >= Quote[j]
           /\ hold' = [hold EXCEPT ![j] = "held"]
           /\ balance' = [balance EXCEPT ![Owner[j]] = @ - Quote[j]]

Settle(j) == /\ hold[j] = "held"
             /\ hold' = [hold EXCEPT ![j] = "settled"]
             /\ UNCHANGED balance

Release(j) == /\ hold[j] = "held"
              /\ hold' = [hold EXCEPT ![j] = "released"]
              /\ balance' = [balance EXCEPT ![Owner[j]] = @ + Quote[j]]

Next == \E j \in Jobs : Take(j) \/ Settle(j) \/ Release(j)

Spec == Init /\ [][Next]_vars
=============================================================================
