------------------------------- MODULE TakeoffPrice -------------------------------
(***************************************************************************)
(* The price of a takeoff: which tier its pages and scopes fall in.  The   *)
(* reference is the price list itself: a plan costs what the cheapest tier *)
(* costs whose description covers it.                                      *)
(***************************************************************************)
EXTENDS Naturals, FiniteSets

CONSTANT MaxPages   \* bound: pages of a plan, beyond the largest a plan may have

Tiers == {"free_sample", "first_verified", "essential", "professional", "multi_trade", "large_set"}

\* prices
Credits ==
  [free_sample |-> 0, first_verified |-> 49, essential |-> 99,
   professional |-> 179, multi_trade |-> 299, large_set |-> 499]

Order == [sample : BOOLEAN, pages : 0..MaxPages, trades : 0..2,
          freeSampleAvailable : BOOLEAN, firstPaidAvailable : BOOLEAN]

\* Mutant: a limit is one page off.
TierOffByOne(o) ==
  IF o.sample /\ o.freeSampleAvailable /\ o.pages >= 1 /\ o.trades = 1 THEN "free_sample"
  ELSE IF o.trades < 1 \/ o.pages < 1 THEN "large_set"
  ELSE IF o.trades = 1 /\ o.pages <= 5 /\ o.firstPaidAvailable THEN "first_verified"
  ELSE IF o.trades = 1 /\ o.pages < 10 THEN "essential"
  ELSE IF o.trades = 1 /\ o.pages <= 25 THEN "professional"
  ELSE IF o.trades <= 2 /\ o.pages <= 25 THEN "multi_trade"
  ELSE "large_set"

\* getTakeoffPrice
Tier(o) ==
  IF o.sample /\ o.freeSampleAvailable /\ o.pages >= 1 /\ o.trades = 1 THEN "free_sample"
  ELSE IF o.trades < 1 \/ o.pages < 1 THEN "large_set"
  ELSE IF o.trades = 1 /\ o.pages <= 5 /\ o.firstPaidAvailable THEN "first_verified"
  ELSE IF o.trades = 1 /\ o.pages <= 10 THEN "essential"
  ELSE IF o.trades = 1 /\ o.pages <= 25 THEN "professional"
  ELSE IF o.trades <= 2 /\ o.pages <= 25 THEN "multi_trade"
  ELSE "large_set"

VARIABLE order
vars == <<order>>

Init == order \in Order
Next == order' \in {[order EXCEPT !.pages = @ + 1], [order EXCEPT !.trades = @ + 1]} \cap Order
Spec == Init /\ [][Next]_vars
-----------------------------------------------------------------------------
(* Properties *)

\* What the description of a tier says of pages and scopes.  A sample is one sheet, which
\* is what is taken of the plan whatever its pages.
Covers(tier, o) ==
  CASE tier = "free_sample" -> o.sample /\ o.freeSampleAvailable /\ o.trades = 1
    [] tier = "first_verified" -> o.firstPaidAvailable /\ o.trades = 1 /\ o.pages <= 5
    [] tier = "essential" -> o.trades = 1 /\ o.pages <= 10
    [] tier = "professional" -> o.trades = 1 /\ o.pages <= 25
    [] tier = "multi_trade" -> o.pages <= 25
    [] tier = "large_set" -> TRUE

\* A plan with a page and a scope costs what the cheapest tier costs that covers it.
CheapestThatCovers ==
  order.pages >= 1 /\ order.trades >= 1 =>
    /\ Covers(Tier(order), order)
    /\ \A tier \in Tiers : Covers(tier, order) => Credits[Tier(order)] <= Credits[tier]
=============================================================================
