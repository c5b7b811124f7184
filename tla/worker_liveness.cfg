SPECIFICATION FairSpec
CONSTANTS
  c1 = c1
  j1 = j1
  j2 = j2
  w1 = w1
  w2 = w2
  Users = {c1}
  Jobs = {j1}
  Workers = {w1}
  NoWorker = NoWorker
  NoJob = NoJob
  MaxAttempts = 2
  MaxFaults = 1
  Owner <- MCOwner
  Quote <- MCQuote
  FreeSample <- NoJobs
  FirstVerified <- NoJobs
  Rush <- NoJobs
  OpeningCredits <- MCCredits
PROPERTY ClaimEnds
PROPERTY QueueMoves
