SPECIFICATION Spec
CONSTANTS
  Packs = {c1}
  First = {c1}
  PackPrice = 2
  InvoicePrice = 1
  MaxFaults = 1
  Handlers = {a1, a2}
  Alone = {c3}
  Asks = {d1, d2, d3}
  Clicks = {d1, d2, d3, d4}
  Takeoffs = {c1, c2}
  Samples = {c1}
  PlanPages = {1, 2}
  DraftLimit = 1
  Lease = 2
  MaxPlanFaults = 2
  MaxStalls = 2
  MaxPages = 2
  Admins = {d1, d2, d3}
  Losses = TRUE
  MaxTokens = 3
  MaxArchiveFaults = 2
  None = None
SYMMETRY Symmetry
INVARIANT TypeOK
INVARIANT CreditsFollowMoney
INVARIANT OneCheckout
INVARIANT CodesAreSound
INVARIANT AlertsAreTrue
INVARIANT QuotesAreSound
INVARIANT VerdictsAreRight
INVARIANT ErasedIsGone
PROPERTY SettledIsFinal
CHECK_DEADLOCK FALSE
