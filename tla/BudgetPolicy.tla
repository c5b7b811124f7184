---------------------------- MODULE BudgetPolicy ----------------------------
(***************************************************************************)
(* What a model call may cost, before and after it (executor/src).         *)
(*                                                                         *)
(* The proxy reserves a price from the size of the request, debits one     *)
(* from the usage OpenAI reports, and reports a third.  The reservation    *)
(* must be the largest of the three for every call that keeps its limits,  *)
(* on either side of the long-context threshold and in either tier.        *)
(*                                                                         *)
(* Rates are quarters of a micro-dollar per token, so that all are whole.  *)
(***************************************************************************)
EXTENDS Integers, FiniteSetsExt

CONSTANTS
  TextBytes,           \* sizes of a request without its images
  Sides,               \* sides of an image, in pixels
  Outputs,             \* output limits of a call
  MaxDataImages,       \* maxDataImagesPerRequest
  Patch,               \* 32: pixels of a patch's side
  Overhead,            \* REQUEST_NORMALIZATION_OVERHEAD_BYTES
  Threshold            \* LONG_CONTEXT_INPUT_THRESHOLD

PolicyAssumption ==
  /\ {MaxDataImages, Overhead, Threshold} \subseteq Nat /\ Patch \in Nat \ {0}
  /\ TextBytes \subseteq Nat \ {0} /\ Sides \subseteq Nat \ {0} /\ Outputs \subseteq Nat \ {0}

VARIABLES
  request,    \* what Codex asks for
  reserved,   \* costMicros of its reservation, 0 before
  usage       \* what OpenAI reports, after the answer

vars == <<request, reserved, usage>>

Models == {"sol", "terra", "luna"}

Rates ==
  [sol   |-> [in |-> 20, out |-> 120, longIn |-> 40, longOut |-> 180, reserve |-> 50],
   terra |-> [in |-> 10, out |-> 60,  longIn |-> 20, longOut |-> 90,  reserve |-> 25],
   luna  |-> [in |-> 4,  out |-> 24,  longIn |-> 8,  longOut |-> 36,  reserve |-> 10]]

\* A free sample runs in the priority tier.
Tiers == {"default", "priority"}
Multiplier(tier) == IF tier = "priority" THEN 2 ELSE 1

Ceil(a, b) == (a + b - 1) \div b

\* Mutant: the reservation takes the short-context rates.
ReserveShortContext(model, tier, tokens, limit) ==
  Ceil((tokens * Rates[model].in + limit * Rates[model].out) * Multiplier(tier), 4)

reservationCostMicros(model, tier, tokens, limit) ==
  Ceil((tokens * Rates[model].reserve + limit * Rates[model].longOut) * Multiplier(tier), 4)

OutRate(model, tokens) ==
  IF tokens > Threshold THEN Rates[model].longOut ELSE Rates[model].out

InRate(model, tokens) ==
  IF tokens > Threshold THEN Rates[model].longIn ELSE Rates[model].in

\* Mutant: cached writes are debited at the plain rate.
EnforcePlainRate(model, tier, tokens, output) ==
  Ceil((tokens * Rates[model].in + output * OutRate(model, tokens)) * Multiplier(tier), 4)

enforcementUsageCostMicros(model, tier, tokens, output) ==
  Ceil((tokens * Rates[model].reserve + output * OutRate(model, tokens)) * Multiplier(tier), 4)

usageCostMicros(model, tier, tokens, output) ==
  Ceil((tokens * InRate(model, tokens) + output * OutRate(model, tokens)) * Multiplier(tier), 4)

-----------------------------------------------------------------------------
(* The size of a request *)

\* Mutant: part of a patch is not a patch.
PatchCountDown(image) == (image.width \div Patch) * (image.height \div Patch)

PatchCount(image) == Ceil(image.width, Patch) * Ceil(image.height, Patch)

Sum(f) == MapThenSumSet(LAMBDA i : f[i], DOMAIN f)

\* A text byte counts as a token and a patch as four (the default multiplier);
\* the base64 text of an image does not count.
estimateRequestInputTokens(r) ==
  r.text + Overhead + Sum([i \in DOMAIN r.images |-> 4 * PatchCount(r.images[i])])

Images == [width: Sides, height: Sides]

Requests ==
  [model: Models, tier: Tiers, text: TextBytes, limit: Outputs,
   images: UNION {[1..n -> Images] : n \in 0..MaxDataImages}]

NoUsage == [input |-> 0, output |-> 0]

-----------------------------------------------------------------------------

Init ==
  /\ request \in Requests /\ reserved = 0 /\ usage = NoUsage

Reserve ==
  /\ reserved = 0
  /\ reserved' = reservationCostMicros(request.model, request.tier,
                                       estimateRequestInputTokens(request), request.limit)
  /\ UNCHANGED <<request, usage>>

\* The pixels OpenAI sees are in patches that cover the image.
Seen(image, perPatch) == (perPatch * image.width * image.height) \div (Patch * Patch)

\* A text of n bytes has at most n tokens, and a patch at most four.
Answer ==
  /\ reserved > 0 /\ usage = NoUsage
  /\ \E text \in {1, request.text}, perPatch \in {1, 4}, output \in {0, request.limit} :
       usage' = [input |-> text + Sum([i \in DOMAIN request.images |-> Seen(request.images[i], perPatch)]),
                 output |-> output]
  /\ UNCHANGED <<request, reserved>>

Next == Reserve \/ Answer

Spec == Init /\ [][Next]_vars

-----------------------------------------------------------------------------
(* Properties *)

Debit == enforcementUsageCostMicros(request.model, request.tier, usage.input, usage.output)
Report == usageCostMicros(request.model, request.tier, usage.input, usage.output)

\* A call that keeps its limits never costs more than was reserved for it; one that
\* does closes the ledger of its source job (recordUsage).
ReservationCovers == usage # NoUsage => Debit <= reserved

\* What the owner is shown for a call is never more than what its budget was debited.
ReportIsDebited == usage # NoUsage => Report <= Debit

-----------------------------------------------------------------------------
(* Why they hold: an inductive invariant *)

\* What was reserved is the price of the most that the call may cost.
PolicyInv ==
  /\ request \in Requests
  /\ reserved \in {0, reservationCostMicros(request.model, request.tier,
                                           estimateRequestInputTokens(request), request.limit)}
  /\ usage # NoUsage =>
       /\ reserved # 0
       /\ usage.input \in 0..estimateRequestInputTokens(request) /\ usage.output \in 0..request.limit
=============================================================================
