---------------------------- MODULE MCExecution -----------------------------
(* Safety of the components that run a takeoff on the host. A behaviour of   *)
(* this module is a behaviour of one component, the one that part names: x1, *)
(* x2, ... stand for the variables of that component, in the order in which  *)
(* its module declares them.                                                 *)
EXTENDS Integers, TLC

CONSTANTS
  Takeoffs, Funded, Executions, Clients,  \* takeoffs, those with a budget, executions and
                                          \* attempts, and who calls
  Capacity, MaxFaults, MaxCrashes, MaxAuditFaults,
  MaxCost, MaxRequests, Costs, MaxInFlight,
  TextBytes, Sides, Outputs, MaxDataImages, Patch, Overhead, Threshold,
  Uploads, MaxWorkers, MaxTurns,
  None, Absent, Invalid

VARIABLES part, x1, x2, x3, x4, x5, x6, x7, x8, x9, x10, x11, x12, x13, x14,
                x15, x16

\* Interchangeable request handlers, tabs and calls, and interchangeable identifiers.
Symmetry == Permutations(Clients) \cup Permutations(Executions)

\* One takeoff fills a template, one is a replay with a workbook.
FirstUploads ==
  LET first == CHOOSE j \in Takeoffs : j \in Funded
  IN [j \in Takeoffs |-> IF j = first THEN {"template"} ELSE {"replay", "workbook"}]

Broker == INSTANCE ExecutorBroker_proofs WITH
  Jobs <- Takeoffs, NoJob <- None, NoExecution <- None, NoClient <- None,
  MaxConcurrentJobs <- Capacity,
  up <- x1, mem <- x2, disk <- x3, owner <- x4, res <- x5, req <- x6,
  lock <- x7, todo <- x8, failed <- x9, expired <- x10, attached <- x11,
  stopped <- x12, accepted <- x13, faults <- x14

FullBroker == INSTANCE ExecutorBroker_proofs WITH
  Jobs <- Takeoffs, NoJob <- None, NoExecution <- None, NoClient <- None,
  MaxConcurrentJobs <- 1, MaxFaults <- 0,
  up <- x1, mem <- x2, disk <- x3, owner <- x4, res <- x5, req <- x6,
  lock <- x7, todo <- x8, failed <- x9, expired <- x10, attached <- x11,
  stopped <- x12, accepted <- x13, faults <- x14

Budget == INSTANCE TokenBudget_proofs WITH
  Jobs <- Funded, Tokens <- Executions, Handlers <- Clients, NoJob <- None,
  NoToken <- None, NoHandler <- None,
  mem <- x1, disk <- x2, up <- x3, call <- x4, revoking <- x5, revoked <- x6,
  drawn <- x7, expired <- x8, used <- x9, overshot <- x10, overshoot <- x11,
  faults <- x12

Policy == INSTANCE BudgetPolicy WITH
  request <- x1, reserved <- x2, usage <- x3

Download == INSTANCE ArtifactDownload WITH
  Artifacts <- 2, Size <- [a \in 1..2 |-> a], BrokerLimit <- 2,
  WorkerLimit <- 3, MaxAttempts <- 2, MaxFaults <- 2,
  worker <- x1, attempts <- x2, execution <- x3, runs <- x4, stored <- x5,
  handlers <- x6, disk <- x7, parts <- x8, faults <- x9

Health == INSTANCE WorkerHealth WITH
  Heartbeat <- 2, CallLimit <- 2, MinTtl <- 2, MaxTtl <- 30, Landing <- 3,
  Horizon <- 13, MaxFaults <- 2,
  up <- x1, processor <- x2, timer <- x3, loop <- x4, report <- x5,
  posts <- x6, row <- x7, since <- x8, faults <- x9

Analyses == INSTANCE Processor WITH
  Jobs <- Takeoffs,
  record <- x1, inputs <- x2, cut <- x3, files <- x4, book <- x5,
  events <- x6, removing <- x7, boot <- x8, todo <- x9, request <- x10,
  active <- x11, queue <- x12, run <- x13, unreported <- x14, faults <- x15,
  crashes <- x16

Estimate == INSTANCE UsageEstimate WITH
  Rate <- [input |-> 2500, cached |-> 250, write |-> 3125, output |-> 15000],
  Threshold <- 2, TokenLimit <- 4, CostLimit <- 10000,
  Counts <- {0, 1, 3, 5}, MaxTurns <- 2,
  turns <- x1, unusable <- x2, estimate <- x3, record <- x4, stored <- x5,
  pc <- x6

Audit == INSTANCE UsageAudit WITH
  Attempts <- Executions, Calls <- Clients, MaxFaults <- MaxAuditFaults,
  rows <- x1, alert <- x2, health <- x3, call <- x4, lost <- x5,
  overlapped <- x6, faults <- x7

xs == <<x1, x2, x3, x4, x5, x6, x7, x8, x9, x10, x11, x12, x13, x14, x15, x16>>
vars == <<part, xs>>

Init ==
  \/ /\ part = "broker" /\ Broker!Init
     /\ x15 = 0 /\ x16 = 0
  \/ /\ part = "full broker" /\ FullBroker!Init
     /\ x15 = 0 /\ x16 = 0
  \/ /\ part = "budget" /\ Budget!Init
     /\ x13 = 0 /\ x14 = 0 /\ x15 = 0 /\ x16 = 0
  \/ /\ part = "policy" /\ Policy!Init
     /\ x4 = 0 /\ x5 = 0 /\ x6 = 0 /\ x7 = 0 /\ x8 = 0 /\ x9 = 0 /\ x10 = 0
     /\ x11 = 0 /\ x12 = 0 /\ x13 = 0 /\ x14 = 0 /\ x15 = 0 /\ x16 = 0
  \/ /\ part = "download" /\ Download!Init
     /\ x10 = 0 /\ x11 = 0 /\ x12 = 0 /\ x13 = 0 /\ x14 = 0 /\ x15 = 0
     /\ x16 = 0
  \/ /\ part = "health" /\ Health!Init
     /\ x10 = 0 /\ x11 = 0 /\ x12 = 0 /\ x13 = 0 /\ x14 = 0 /\ x15 = 0
     /\ x16 = 0
  \/ /\ part = "processor" /\ Analyses!Init
  \/ /\ part = "estimate" /\ Estimate!Init
     /\ x7 = 0 /\ x8 = 0 /\ x9 = 0 /\ x10 = 0 /\ x11 = 0 /\ x12 = 0
     /\ x13 = 0 /\ x14 = 0 /\ x15 = 0 /\ x16 = 0
  \/ /\ part = "audit" /\ Audit!Init
     /\ x8 = 0 /\ x9 = 0 /\ x10 = 0 /\ x11 = 0 /\ x12 = 0 /\ x13 = 0
     /\ x14 = 0 /\ x15 = 0 /\ x16 = 0

Next ==
  \/ /\ part = "broker" /\ Broker!Next
     /\ UNCHANGED <<part, x15, x16>>
  \/ /\ part = "full broker" /\ FullBroker!Next
     /\ UNCHANGED <<part, x15, x16>>
  \/ /\ part = "budget" /\ Budget!Next
     /\ UNCHANGED <<part, x13, x14, x15, x16>>
  \/ /\ part = "policy" /\ Policy!Next
     /\ UNCHANGED <<part, x4, x5, x6, x7, x8, x9, x10, x11, x12, x13, x14,
                    x15, x16>>
  \/ /\ part = "download" /\ Download!Next
     /\ UNCHANGED <<part, x10, x11, x12, x13, x14, x15, x16>>
  \/ /\ part = "health" /\ Health!Next
     /\ UNCHANGED <<part, x10, x11, x12, x13, x14, x15, x16>>
  \/ /\ part = "processor" /\ Analyses!Next
     /\ UNCHANGED <<part>>
  \/ /\ part = "estimate" /\ Estimate!Next
     /\ UNCHANGED <<part, x7, x8, x9, x10, x11, x12, x13, x14, x15, x16>>
  \/ /\ part = "audit" /\ Audit!Next
     /\ UNCHANGED <<part, x8, x9, x10, x11, x12, x13, x14, x15, x16>>

Spec == Init /\ [][Next]_vars

ASSUME BrokerAssumed == Broker!BrokerAssumption /\ FullBroker!BrokerAssumption
ASSUME BudgetAssumed == Budget!Finite
ASSUME PolicyAssumed == Policy!PolicyAssumption
ASSUME DownloadAssumed == Download!DownloadAssumption
ASSUME HealthAssumed == Health!TicksAssumption
ASSUME AnalysesAssumed == Analyses!ProcessorAssumption
ASSUME EstimateAssumed == Estimate!EstimateAssumption
ASSUME AuditAssumed == Audit!AuditAssumption
-----------------------------------------------------------------------------
\* The variables of the component that runs keep their types.
TypeOK ==
  /\ part = "broker" => Broker!TypeOK
  /\ part = "full broker" => FullBroker!TypeOK
  /\ part = "budget" => Budget!TypeOK
  /\ part = "download" => Download!TypeOK
  /\ part = "health" => Health!TypeOK
  /\ part = "processor" => Analyses!TypeOK
  /\ part = "estimate" => Estimate!TypeOK
  /\ part = "audit" => Audit!TypeOK

\* Whatever has a container, a network or a directory on the host has a record, by
\* which a cleanup or a restart will find it; a token without a record, which a lost
\* registration or a crash before the record leaves to expire, belongs to an execution
\* that has none of these and to which nothing was submitted with success; what was
\* accepted can be found again after a restart; and what runs has its token.
ExecutionsAreTracked ==
  part = "broker" => Broker!RuntimesAreTracked /\ Broker!LostTokensAreUnused
       /\ Broker!AcceptedIsRecoverable /\ Broker!RunningHasToken

\* The runtimes on the host are a pool, which ExecutionPool specifies: at
\* most one per takeoff, and never more than maxConcurrentJobs, whoever
\* starts, sweeps or restarts meanwhile; also where the host has room for one
\* execution, and starts and cleanups of two takeoffs meet at the limit.
PoolSpec ==
  /\ part = "broker" => Broker!Pool!Init
  /\ [][part = "broker" => UNCHANGED Broker!heldBar \/ Broker!Pool!Next]_vars
  /\ part = "full broker" => FullBroker!Pool!Init
  /\ [][part = "full broker" => UNCHANGED FullBroker!heldBar \/ FullBroker!Pool!Next]_vars

\* What was reserved of a budget is what is outstanding, everything a
\* provider may have charged is paid from it, the spending of a takeoff stays
\* within it, and a call never costs more than was reserved for it.
SpendingIsCovered ==
  /\ part = "budget" => Budget!Reconciles /\ Budget!EverythingIsPaid
       /\ Budget!WithinBudget
  /\ part = "policy" => Policy!ReservationCovers /\ Policy!ReportIsDebited

\* A budget that was overshot stops, and one that was closed stays closed,
\* over retries, revocations and restarts; the end of an analysis is never
\* rewritten.
EndsAreFinal ==
  [][/\ part = "budget" => Budget!OvershotIsStopped /\ Budget!ClosedForGood
     /\ part = "processor" => Analyses!EndIsFinal]_vars

\* An analysis that ended has all it promises and every turn that was paid is
\* reported, over crashes of the processor; and a usage that could not be
\* recorded is alerted.
ResultsAreWhole ==
  /\ part = "processor" => Analyses!NobodyIsForgotten /\ Analyses!CompletedIsWhole
       /\ Analyses!PaidTurnsAreReported
  /\ part = "audit" => Audit!MissingIsAlerted /\ Audit!HealthIsTrue

\* What is uploaded is what the run of this attempt announced and nobody
\* altered since, with its cost; the estimate of that cost is made of all
\* turns and kept, and is refused only for a cost that lies half way between
\* two roundings; and the health page is green only while reports are recent.
UsageIsTold ==
  /\ part = "download" => Download!UploadedIsAnnounced /\ Download!NamedIsVerified
       /\ Download!CostIsTold
  /\ part = "estimate" => Estimate!EstimateIsWhole /\ Estimate!EstimateIsKept
       /\ Estimate!RefusedOnlyHalfWay
  /\ part = "health" => Health!GreenIsRecent
=============================================================================
