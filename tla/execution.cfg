SPECIFICATION Spec
CONSTANTS
  Takeoffs = {c1, c2}
  Funded = {c1}
  Executions = {b1, b2}
  Clients = {a1, a2}
  Capacity = 2
  MaxFaults = 1
  MaxCrashes = 2
  MaxAuditFaults = 2
  MaxCost = 3
  MaxRequests = 2
  Costs = {1, 2}
  MaxInFlight = 2
  TextBytes = {1, 3, 9}
  Sides = {1, 5}
  Outputs = {1, 2, 7}
  MaxDataImages = 2
  Patch = 4
  Overhead = 1
  Threshold = 6
  Uploads <- FirstUploads
  MaxWorkers = 1
  MaxTurns = 2
  None = None
  Absent = Absent
  Invalid = Invalid
SYMMETRY Symmetry
INVARIANT TypeOK
INVARIANT ExecutionsAreTracked
PROPERTY PoolSpec
INVARIANT SpendingIsCovered
PROPERTY EndsAreFinal
INVARIANT ResultsAreWhole
INVARIANT UsageIsTold
CHECK_DEADLOCK FALSE
