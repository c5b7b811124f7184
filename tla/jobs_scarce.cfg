SPECIFICATION Spec
CONSTANTS
  c1 = c1
  j1 = j1
  j2 = j2
  j3 = j3
  j4 = j4
  w1 = w1
  w2 = w2
  Users = {c1}
  Jobs = {j1, j2}
  Workers = {w1, w2}
  NoWorker = NoWorker
  MaxAttempts = 2
  Owner <- MCOwner
  Quote <- ScarceQuote
  FreeSample <- NoJobs
  FirstVerified <- NoJobs
  Rush <- ScarceRush
  OpeningCredits <- ScarceCredits
SYMMETRY Symmetry
INVARIANT TypeOK
INVARIANT LedgerBalances
INVARIANT UndeliveredIsRefunded
PROPERTY CreditSpec
