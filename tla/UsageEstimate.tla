---------------------------- MODULE UsageEstimate ----------------------------
(***************************************************************************)
(* What an analysis cost: collect_codex_usage reads the events of Codex,   *)
(* the processor checks its own estimate (ProcessorUsage), and the         *)
(* application checks it again (takeoffProcessorUsageSchema) with floating *)
(* point numbers before it is recorded.                                    *)
(*                                                                         *)
(* Prices are integers: rates in 1/1000 dollar per million tokens, exact   *)
(* costs in 10^-9 dollar, rounded costs in 10^-8 dollar.                   *)
(***************************************************************************)
EXTENDS Integers, SequencesExt, FiniteSetsExt

CONSTANTS
  Rate,          \* the snapshot of the model and its tier
  Threshold,     \* input tokens of a turn above which it has long context
  TokenLimit,    \* MAX_SAFE_JSON_INTEGER
  CostLimit,     \* 1 000 000 dollars
  Counts,        \* token counts of an event; some may be beyond TokenLimit
  MaxTurns,      \* bound: completed turns
  Absent, Invalid, None

EstimateAssumption ==
  /\ Rate \in [{"input", "cached", "write", "output"} -> Nat]
  /\ Rate.output % 2 = 0
  /\ Threshold \in Nat /\ TokenLimit \in Nat /\ CostLimit \in Nat
  /\ Counts \subseteq Nat /\ MaxTurns \in Nat

VARIABLES
  turns,     \* the completed turns that were read
  unusable,  \* a completed turn without usable counts was read
  estimate,  \* what collect_codex_usage returns; None is {}
  record,    \* JobRecord.processor_usage
  stored,    \* persistTakeoffProcessorUsage: absent, invalid or recorded
  pc

vars == <<turns, unusable, estimate, record, stored, pc>>

Fields == {"input", "cached", "write", "output", "reasoning"}

Init ==
  /\ turns = <<>> /\ unusable = FALSE
  /\ estimate = None /\ record = None /\ stored = None /\ pc = "reading"

-----------------------------------------------------------------------------
(* The events *)

Valid(n) == n \in Nat /\ n <= TokenLimit

\* Mutant: a count has no limit.
UnusableForm(usage) ==
  \/ \A f \in Fields : usage[f] = Absent
  \/ \E f \in Fields : usage[f] = Invalid

\* An event without counts, or with one that is in no usable form.
Unusable(usage) ==
  \/ \A f \in Fields : usage[f] = Absent
  \/ \E f \in Fields : usage[f] # Absent /\ ~(usage[f] # Invalid /\ Valid(usage[f]))

OrZero(n) == IF n = Absent THEN 0 ELSE n

\* Mutant: the parts of the input are not compared with it.
ConsistentOutput(usage) ==
  /\ usage.input = Absent => Valid(OrZero(usage.cached) + OrZero(usage.write))
  /\ usage.output # Absent => OrZero(usage.reasoning) <= usage.output

\* The parts of a count that is there do not exceed it.
Consistent(usage) ==
  LET parts == OrZero(usage.cached) + OrZero(usage.write) IN
  /\ IF usage.input = Absent THEN Valid(parts) ELSE parts <= usage.input
  /\ usage.output # Absent => OrZero(usage.reasoning) <= usage.output

\* What is missing follows from its parts.
Turn(usage) ==
  LET cached == OrZero(usage.cached)
      write == OrZero(usage.write)
      input == IF usage.input = Absent THEN cached + write ELSE usage.input IN
  [input |-> input, uncached |-> IF input > cached + write THEN input - cached - write ELSE 0,
   cached |-> cached, write |-> write,
   output |-> IF usage.output = Absent THEN OrZero(usage.reasoning) ELSE usage.output,
   reasoning |-> OrZero(usage.reasoning)]

\* _parse_turn_usage of a turn.completed event
ReadTurn ==
  /\ pc = "reading" /\ ~unusable /\ Len(turns) < MaxTurns
  /\ \E usage \in [Fields -> Counts \cup {Absent, Invalid}] :
       IF Unusable(usage) \/ ~Consistent(usage)
       THEN unusable' = TRUE /\ UNCHANGED turns
       ELSE turns' = Append(turns, Turn(usage)) /\ UNCHANGED unusable
  /\ UNCHANGED <<estimate, record, stored, pc>>

-----------------------------------------------------------------------------
(* collect_codex_usage *)

\* _event_cost, in 10^-9 dollar
InputCost(turn, premium, allUncached) ==
  (IF premium THEN 2 ELSE 1) *
    (IF allUncached THEN turn.input * Rate.input
     ELSE turn.uncached * Rate.input + turn.cached * Rate.cached + turn.write * Rate.write)

OutputCost(turn, premium) ==
  IF premium THEN (turn.output * Rate.output * 3) \div 2 ELSE turn.output * Rate.output

eventCost(turn, premium, allUncached) == InputCost(turn, premium, allUncached) + OutputCost(turn, premium)

\* ROUND_HALF_UP to eight decimals
HalfUp(cost) == (cost + 5) \div 10

Total(ts, Op(_)) == FoldLeft(LAMBDA sum, turn : sum + Op(turn), 0, ts)

Totals(ts) == [f \in DOMAIN Turn([g \in Fields |-> 0]) |-> Total(ts, LAMBDA turn : turn[f])]

LongContext(turn) == turn.input > Threshold

\* Mutant: a completed turn without usable counts is skipped.
CollectUsable(ts) == ts # <<>>

\* collect_codex_usage returns an estimate and not {}.
Collects(ts) == ts # <<>> /\ ~unusable

Estimate(ts) ==
  LET long == \E i \in DOMAIN ts : LongContext(ts[i])
      cost(allUncached) == HalfUp(Total(ts, LAMBDA turn : eventCost(turn, FALSE, allUncached)))
      upper(allUncached) ==
        IF long THEN HalfUp(Total(ts, LAMBDA turn : eventCost(turn, LongContext(turn), allUncached))) ELSE None IN
  [turns |-> Len(ts), tokens |-> Totals(ts), long |-> long,
   cost |-> cost(FALSE), upper |-> upper(FALSE), uncachedCost |-> cost(TRUE), uncachedUpper |-> upper(TRUE)]

Collect ==
  /\ pc = "reading" /\ pc' = "collected"
  /\ estimate' = IF Collects(turns) /\ \A f \in DOMAIN Totals(turns) : Totals(turns)[f] <= TokenLimit
                 THEN Estimate(turns) ELSE None
  /\ UNCHANGED <<turns, unusable, record, stored>>

-----------------------------------------------------------------------------
(* ProcessorUsage *)

CostFields == {"cost", "upper", "uncachedCost", "uncachedUpper"}

Ordered(e) == e.upper >= e.cost /\ e.uncachedUpper >= e.uncachedCost

Affordable(e) == \A f \in CostFields : e[f] # None => e[f] <= CostLimit

\* Field limits and usage_totals_are_consistent
ValidForProcessor(e) ==
  /\ Affordable(e)
  /\ e.tokens.uncached + e.tokens.cached + e.tokens.write = e.tokens.input
  /\ e.tokens.reasoning <= e.tokens.output
  /\ IF e.long THEN e.upper # None /\ e.uncachedUpper # None /\ Ordered(e)
     ELSE e.upper = None /\ e.uncachedUpper = None

\* _validated_usage
Validate ==
  /\ pc = "collected" /\ pc' = "validated"
  /\ record' = IF estimate # None /\ ValidForProcessor(estimate) THEN estimate ELSE None
  /\ UNCHANGED <<turns, unusable, estimate, stored>>

-----------------------------------------------------------------------------
(* takeoffProcessorUsageSchema *)

\* Math.round of a floating point number: what lies halfway may go either way (three
\* cache writes of gpt-5.6-terra are 937.4999999999999, one is 312.5).
roundedUsd(cost) == IF cost % 10 = 5 THEN {cost \div 10, cost \div 10 + 1} ELSE {HalfUp(cost)}

\* Mutant: the upper bound is that of a single turn.
ExactPremium(e, upper, full) == upper = full

\* The upper bound of one turn is known; of several, only its maximum.
FitsPremium(e, upper, full) == IF e.turns = 1 THEN upper = full ELSE upper <= full

\* superRefine, given what floating point makes of the four costs
Accepts(e, rounded) ==
  /\ Affordable(e)
  /\ e.tokens.uncached + e.tokens.cached + e.tokens.write = e.tokens.input
  /\ e.tokens.reasoning <= e.tokens.output
  /\ e.cost = rounded.cost /\ e.uncachedCost = rounded.uncachedCost
  /\ e.long = (e.upper # None) /\ e.long = (e.uncachedUpper # None)
  /\ IF e.long
     THEN /\ Ordered(e) /\ e.tokens.input > Threshold
          /\ FitsPremium(e, e.upper, rounded.upper) /\ FitsPremium(e, e.uncachedUpper, rounded.uncachedUpper)
     ELSE e.turns = 1 => e.tokens.input <= Threshold

Roundings(tokens) ==
  {[cost |-> c, uncachedCost |-> uc, upper |-> u, uncachedUpper |-> uu] :
     c \in roundedUsd(eventCost(tokens, FALSE, FALSE)), uc \in roundedUsd(eventCost(tokens, FALSE, TRUE)),
     u \in roundedUsd(eventCost(tokens, TRUE, FALSE)), uu \in roundedUsd(eventCost(tokens, TRUE, TRUE))}

Store ==
  /\ pc = "validated" /\ pc' = "stored"
  /\ IF record = None THEN stored' = "absent"
     ELSE \E rounded \in Roundings(record.tokens) :
            stored' = IF Accepts(record, rounded) THEN "recorded" ELSE "invalid"
  /\ UNCHANGED <<turns, unusable, estimate, record>>

Next == ReadTurn \/ Collect \/ Validate \/ Store

Spec == Init /\ [][Next]_vars

-----------------------------------------------------------------------------
(* Properties *)

\* Counts are within the integers that JSON keeps.
TypeOK ==
  /\ \A i \in DOMAIN turns : \A f \in DOMAIN turns[i] : turns[i][f] \in 0..TokenLimit
  /\ unusable \in BOOLEAN /\ stored \in {"absent", "invalid", "recorded", None}
  /\ pc \in {"reading", "collected", "validated", "stored"}
  /\ estimate # None => estimate.tokens.input \in 0..TokenLimit

\* An estimate is never one of some of the turns: a turn that cannot be priced takes the
\* estimate of the whole analysis with it.
EstimateIsWhole ==
  estimate # None => ~unusable /\ estimate.turns = Len(turns) /\ estimate.tokens = Totals(turns)

\* The processor refuses its own estimate only for its price.
EstimateIsKept ==
  pc = "validated" /\ estimate # None /\ Affordable(estimate) => record # None

\* tests/takeoff-processor-usage.test.ts:110: the application "accepts the processor's
\* half-up eight-decimal cost rounding": what the processor reports is recorded.
ReportIsRecorded == pc = "stored" /\ record # None => stored = "recorded"

\* The application refuses a report of the processor only where one of its four costs
\* lies exactly half way between two units of the eighth decimal, so that floating
\* point decides: not for the way in which the turns were rounded, added or priced
\* at the premium (roundedUsd, superRefine).
HalfWay(tokens) ==
  \E premium, allUncached \in BOOLEAN : eventCost(tokens, premium, allUncached) % 10 = 5

RefusedOnlyHalfWay == stored = "invalid" => HalfWay(record.tokens)
=============================================================================
