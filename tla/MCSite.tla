------------------------------- MODULE MCSite -------------------------------
(* Safety of the components that sell by a catalog and a form, keep files,   *)
(* accounts and limits, and switch releases. A behaviour of this module is a *)
(* behaviour of one component, the one that part names: x1, x2, ... stand    *)
(* for the variables of that component, in the order in which its module     *)
(* declares them.                                                            *)
EXTENDS Integers, TLC

CONSTANTS None, a1, a2, b1, b2, c1, c2, c3, d1, d2, d3

VARIABLES part, x1, x2, x3, x4, x5, x6, x7, x8, x9, x10, x11, x12, x13, x14,
                x15, x16

\* Interchangeable request handlers, tabs and calls, and interchangeable identifiers.
Symmetry == Permutations({a1, a2}) \cup Permutations({b1, b2})

Catalog == INSTANCE BillingCatalog WITH
  Packs <- {c1}, Subscriptions <- {c2}, Versions <- {b1, b2},
  Servers <- {a1, a2}, Orders <- {c3}, NoSku <- None, NoPrice <- None,
  MaxDeploys <- 3,
  config <- x1, archived <- x2, plan <- x3, sync <- x4, order <- x5,
  due <- x6, granted <- x7, deploys <- x8

Price == INSTANCE TakeoffPrice WITH
  MaxPages <- 30,
  order <- x1

Upload == INSTANCE PlanUpload WITH
  Contents <- {c1, c2}, Large <- {c2}, NoContent <- None, Jobs <- {a1, a2},
  NoJob <- None, Limit <- 2, Credit <- 2, MaxEdits <- 3, MaxFaults <- 1,
  MaxLost <- 1,
  pc <- x1, content <- x2, draft <- x3, uploaded <- x4, quote <- x5,
  told <- x6, job <- x7, reserved <- x8, cron <- x9, edits <- x10,
  faults <- x11, lost <- x12

Drywall == INSTANCE DrywallPayment WITH
  Files <- {b1, b2}, Requests <- {a1, a2}, Sessions <- {c1, c2},
  Handlers <- {c3}, Volumes <- {"fixed", "custom"}, MaxFaults <- 1,
  status <- x1, scope <- x2, row <- x3, object <- x4, verifying <- x5,
  order <- x6, session <- x7, request <- x8, events <- x9, answered <- x10,
  run <- x11, confirmed <- x12, faults <- x13

DrywallEvents == INSTANCE DrywallPayment WITH
  Files <- {c3}, Requests <- {a1, a2}, Sessions <- {c1, c2},
  Handlers <- {b1, b2}, Volumes <- {"fixed"}, MaxFaults <- 1,
  status <- x1, scope <- x2, row <- x3, object <- x4, verifying <- x5,
  order <- x6, session <- x7, request <- x8, events <- x9, answered <- x10,
  run <- x11, confirmed <- x12, faults <- x13

Delivery == INSTANCE DrywallDelivery WITH
  Tabs <- {c1}, Batches <- {d1, d2, d3}, Requests <- {a1, a2},
  Refundable <- TRUE, Purges <- FALSE, MaxFaults <- 1,
  status <- x1, paid <- x2, due <- x3, rows <- x4, version <- x5,
  delivered <- x6, objects <- x7, tab <- x8, request <- x9, revision <- x10,
  cron <- x11, faults <- x12

Purge == INSTANCE DrywallDelivery WITH
  Tabs <- {c1}, Batches <- {b1, b2}, Requests <- {c2}, Refundable <- TRUE,
  Purges <- TRUE, MaxFaults <- 1,
  status <- x1, paid <- x2, due <- x3, rows <- x4, version <- x5,
  delivered <- x6, objects <- x7, tab <- x8, request <- x9, revision <- x10,
  cron <- x11, faults <- x12

Retention == INSTANCE ProjectFileRetention WITH
  Jobs <- {c1, c2}, Samples <- {c1}, Historic <- {c2}, Runs <- {a1, a2},
  Overrun <- TRUE, Erasures <- FALSE, MaxLate <- 1, MaxLost <- 0,
  MaxFaults <- 0,
  job <- x1, rows <- x2, objects <- x3, archived <- x4, run <- x5,
  late <- x6, lost <- x7, faults <- x8

FailedRuns == INSTANCE ProjectFileRetention WITH
  Jobs <- {c1}, Samples <- {c1}, Historic <- {}, Runs <- {a1, a2},
  Overrun <- TRUE, Erasures <- TRUE, MaxLate <- 1, MaxLost <- 1,
  MaxFaults <- 1,
  job <- x1, rows <- x2, objects <- x3, archived <- x4, run <- x5,
  late <- x6, lost <- x7, faults <- x8

Burst == INSTANCE RateLimit WITH
  Requests <- {1, 2, 3}, Buckets <- {"ann"},
  Charged <- [r \in 1..3 |-> {"ann"}], Limit <- [b \in {"ann"} |-> 1],
  Second <- 2, Window <- 2, Keep <- 2, Horizon <- 7, MaxWait <- 1,
  MaxFaults <- 0,
  now <- x1, row <- x2, call <- x3, outcome <- x4, faults <- x5

Shared == INSTANCE RateLimit WITH
  Requests <- {1, 3}, Buckets <- {"ann", "bob", "home"},
  Charged <- [r \in {1, 3} |-> IF r = 1 THEN {"ann", "home"} ELSE {"bob", "home"}],
  Limit <- [b \in {"ann", "bob", "home"} |-> 1], Second <- 2, Window <- 1,
  Keep <- 1, Horizon <- 3, MaxWait <- 1, MaxFaults <- 1,
  now <- x1, row <- x2, call <- x3, outcome <- x4, faults <- x5

Consent == INSTANCE MarketingConsent WITH
  Tabs <- {c1}, Ids <- {b1, b2}, NoId <- None,
  Regions <- {"standard", "unknown"}, GoogleRegions <- {"listed", "other"},
  MaxChoices <- 2, MaxEvents <- 2, MaxViews <- 2, Faults <- 1, MaxLeaves <- 0,
  choice <- x1, identity <- x2, created <- x3, gpc <- x4, place <- x5,
  tabs <- x6, calls <- x7, answers <- x8, rows <- x9, used <- x10,
  seen <- x11, left <- x12

ConsentTabs == INSTANCE MarketingConsent WITH
  Tabs <- {a1, a2}, Ids <- {b1, b2}, NoId <- None, Regions <- {"standard"},
  GoogleRegions <- {"other"}, MaxChoices <- 3, MaxEvents <- 1, MaxViews <- 3,
  Faults <- 0, MaxLeaves <- 1,
  choice <- x1, identity <- x2, created <- x3, gpc <- x4, place <- x5,
  tabs <- x6, calls <- x7, answers <- x8, rows <- x9, used <- x10,
  seen <- x11, left <- x12

Reruns == INSTANCE TestAccounts WITH
  MaxRuns <- 3, MaxInFlight <- 1, MaxFaults <- 1, MaxDeaths <- 1,
  MaxEdits <- 1, MaxSpent <- 1, Target <- 2, Hosts <- {"local"},
  Flags <- {FALSE},
  env <- x1, file <- x2, auth <- x3, profile <- x4, credits <- x5, run <- x6,
  faults <- x7, deaths <- x8, edits <- x9, spent <- x10

Overlap == INSTANCE TestAccounts WITH
  MaxRuns <- 2, MaxInFlight <- 2, MaxFaults <- 1, MaxDeaths <- 1,
  MaxEdits <- 0, MaxSpent <- 1, Target <- 2, Hosts <- {"local"},
  Flags <- {FALSE},
  env <- x1, file <- x2, auth <- x3, profile <- x4, credits <- x5, run <- x6,
  faults <- x7, deaths <- x8, edits <- x9, spent <- x10

Targets == INSTANCE TestAccounts WITH
  MaxRuns <- 2, MaxInFlight <- 1, MaxFaults <- 0, MaxDeaths <- 1,
  MaxEdits <- 0, MaxSpent <- 0, Target <- 1,
  Hosts <- {"local", "sandbox", "live"}, Flags <- BOOLEAN,
  env <- x1, file <- x2, auth <- x3, profile <- x4, credits <- x5, run <- x6,
  faults <- x7, deaths <- x8, edits <- x9, spent <- x10

Bootstrap == INSTANCE AdminBootstrap WITH
  Users <- {c1, c2}, Owner <- c1, AddressOf <- [u \in {c1, c2} |-> "office"],
  UserLimit <- 2, PrintLimit <- 3, Window <- 1, Life <- 2, Concurrent <- 2,
  MaxCalls <- 2, MaxGrants <- 2, MaxTime <- 2, MaxFaults <- 1,
  profiles <- x1, grants <- x2, attempts <- x3, calls <- x4, form <- x5,
  made <- x6, clock <- x7, faults <- x8

Limits == INSTANCE AdminBootstrap WITH
  Users <- {c1, c2}, Owner <- c1, AddressOf <- [u \in {c1, c2} |-> "office"],
  UserLimit <- 2, PrintLimit <- 3, Window <- 1, Life <- 2, Concurrent <- 2,
  MaxCalls <- 4, MaxGrants <- 1, MaxTime <- 1, MaxFaults <- 0,
  profiles <- x1, grants <- x2, attempts <- x3, calls <- x4, form <- x5,
  made <- x6, clock <- x7, faults <- x8

Release == INSTANCE ReleaseSwitch WITH
  Commits <- {c1, c2}, NoCommit <- None, MaxScripts <- 2, MaxKills <- 1,
  MaxTroubles <- 1,
  env <- x1, installed <- x2, stray <- x3, manifests <- x4, current <- x5,
  previous <- x6, links <- x7, worker <- x8, core <- x9, enabled <- x10,
  job <- x11, script <- x12, ended <- x13, scripts <- x14, kills <- x15,
  troubles <- x16

Restores == INSTANCE ReleaseSwitch WITH
  Commits <- {c1, c2}, NoCommit <- None, MaxScripts <- 2, MaxKills <- 0,
  MaxTroubles <- 2,
  env <- x1, installed <- x2, stray <- x3, manifests <- x4, current <- x5,
  previous <- x6, links <- x7, worker <- x8, core <- x9, enabled <- x10,
  job <- x11, script <- x12, ended <- x13, scripts <- x14, kills <- x15,
  troubles <- x16

xs == <<x1, x2, x3, x4, x5, x6, x7, x8, x9, x10, x11, x12, x13, x14, x15, x16>>
vars == <<part, xs>>

Init ==
  \/ /\ part = "catalog" /\ Catalog!Init
     /\ x9 = 0 /\ x10 = 0 /\ x11 = 0 /\ x12 = 0 /\ x13 = 0 /\ x14 = 0
     /\ x15 = 0 /\ x16 = 0
  \/ /\ part = "price" /\ Price!Init
     /\ x2 = 0 /\ x3 = 0 /\ x4 = 0 /\ x5 = 0 /\ x6 = 0 /\ x7 = 0 /\ x8 = 0
     /\ x9 = 0 /\ x10 = 0 /\ x11 = 0 /\ x12 = 0 /\ x13 = 0 /\ x14 = 0
     /\ x15 = 0 /\ x16 = 0
  \/ /\ part = "upload" /\ Upload!Init
     /\ x13 = 0 /\ x14 = 0 /\ x15 = 0 /\ x16 = 0
  \/ /\ part = "drywall" /\ Drywall!Init
     /\ x14 = 0 /\ x15 = 0 /\ x16 = 0
  \/ /\ part = "drywall events" /\ DrywallEvents!Init
     /\ x14 = 0 /\ x15 = 0 /\ x16 = 0
  \/ /\ part = "delivery" /\ Delivery!Init
     /\ x13 = 0 /\ x14 = 0 /\ x15 = 0 /\ x16 = 0
  \/ /\ part = "purge" /\ Purge!Init
     /\ x13 = 0 /\ x14 = 0 /\ x15 = 0 /\ x16 = 0
  \/ /\ part = "retention" /\ Retention!Init
     /\ x9 = 0 /\ x10 = 0 /\ x11 = 0 /\ x12 = 0 /\ x13 = 0 /\ x14 = 0
     /\ x15 = 0 /\ x16 = 0
  \/ /\ part = "failed runs" /\ FailedRuns!Init
     /\ x9 = 0 /\ x10 = 0 /\ x11 = 0 /\ x12 = 0 /\ x13 = 0 /\ x14 = 0
     /\ x15 = 0 /\ x16 = 0
  \/ /\ part = "burst" /\ Burst!Init
     /\ x6 = 0 /\ x7 = 0 /\ x8 = 0 /\ x9 = 0 /\ x10 = 0 /\ x11 = 0
     /\ x12 = 0 /\ x13 = 0 /\ x14 = 0 /\ x15 = 0 /\ x16 = 0
  \/ /\ part = "shared" /\ Shared!Init
     /\ x6 = 0 /\ x7 = 0 /\ x8 = 0 /\ x9 = 0 /\ x10 = 0 /\ x11 = 0
     /\ x12 = 0 /\ x13 = 0 /\ x14 = 0 /\ x15 = 0 /\ x16 = 0
  \/ /\ part = "consent" /\ Consent!Init
     /\ x13 = 0 /\ x14 = 0 /\ x15 = 0 /\ x16 = 0
  \/ /\ part = "consent of two tabs" /\ ConsentTabs!Init
     /\ x13 = 0 /\ x14 = 0 /\ x15 = 0 /\ x16 = 0
  \/ /\ part = "reruns" /\ Reruns!Init
     /\ x11 = 0 /\ x12 = 0 /\ x13 = 0 /\ x14 = 0 /\ x15 = 0 /\ x16 = 0
  \/ /\ part = "overlap" /\ Overlap!Init
     /\ x11 = 0 /\ x12 = 0 /\ x13 = 0 /\ x14 = 0 /\ x15 = 0 /\ x16 = 0
  \/ /\ part = "targets" /\ Targets!Init
     /\ x11 = 0 /\ x12 = 0 /\ x13 = 0 /\ x14 = 0 /\ x15 = 0 /\ x16 = 0
  \/ /\ part = "bootstrap" /\ Bootstrap!Init
     /\ x9 = 0 /\ x10 = 0 /\ x11 = 0 /\ x12 = 0 /\ x13 = 0 /\ x14 = 0
     /\ x15 = 0 /\ x16 = 0
  \/ /\ part = "bootstrap limits" /\ Limits!Init
     /\ x9 = 0 /\ x10 = 0 /\ x11 = 0 /\ x12 = 0 /\ x13 = 0 /\ x14 = 0
     /\ x15 = 0 /\ x16 = 0
  \/ /\ part = "release" /\ Release!Init
  \/ /\ part = "restores" /\ Restores!Init

Next ==
  \/ /\ part = "catalog" /\ Catalog!Next
     /\ UNCHANGED <<part, x9, x10, x11, x12, x13, x14, x15, x16>>
  \/ /\ part = "price" /\ Price!Next
     /\ UNCHANGED <<part, x2, x3, x4, x5, x6, x7, x8, x9, x10, x11, x12, x13,
                    x14, x15, x16>>
  \/ /\ part = "upload" /\ Upload!Next
     /\ UNCHANGED <<part, x13, x14, x15, x16>>
  \/ /\ part = "drywall" /\ Drywall!Next
     /\ UNCHANGED <<part, x14, x15, x16>>
  \/ /\ part = "drywall events" /\ DrywallEvents!Next
     /\ UNCHANGED <<part, x14, x15, x16>>
  \/ /\ part = "delivery" /\ Delivery!Next
     /\ UNCHANGED <<part, x13, x14, x15, x16>>
  \/ /\ part = "purge" /\ Purge!Next
     /\ UNCHANGED <<part, x13, x14, x15, x16>>
  \/ /\ part = "retention" /\ Retention!Next
     /\ UNCHANGED <<part, x9, x10, x11, x12, x13, x14, x15, x16>>
  \/ /\ part = "failed runs" /\ FailedRuns!Next
     /\ UNCHANGED <<part, x9, x10, x11, x12, x13, x14, x15, x16>>
  \/ /\ part = "burst" /\ Burst!Next
     /\ UNCHANGED <<part, x6, x7, x8, x9, x10, x11, x12, x13, x14, x15, x16>>
  \/ /\ part = "shared" /\ Shared!Next
     /\ UNCHANGED <<part, x6, x7, x8, x9, x10, x11, x12, x13, x14, x15, x16>>
  \/ /\ part = "consent" /\ Consent!Next
     /\ UNCHANGED <<part, x13, x14, x15, x16>>
  \/ /\ part = "consent of two tabs" /\ ConsentTabs!Next
     /\ UNCHANGED <<part, x13, x14, x15, x16>>
  \/ /\ part = "reruns" /\ Reruns!Next
     /\ UNCHANGED <<part, x11, x12, x13, x14, x15, x16>>
  \/ /\ part = "overlap" /\ Overlap!Next
     /\ UNCHANGED <<part, x11, x12, x13, x14, x15, x16>>
  \/ /\ part = "targets" /\ Targets!Next
     /\ UNCHANGED <<part, x11, x12, x13, x14, x15, x16>>
  \/ /\ part = "bootstrap" /\ Bootstrap!Next
     /\ UNCHANGED <<part, x9, x10, x11, x12, x13, x14, x15, x16>>
  \/ /\ part = "bootstrap limits" /\ Limits!Next
     /\ UNCHANGED <<part, x9, x10, x11, x12, x13, x14, x15, x16>>
  \/ /\ part = "release" /\ Release!Next
     /\ UNCHANGED <<part>>
  \/ /\ part = "restores" /\ Restores!Next
     /\ UNCHANGED <<part>>

Spec == Init /\ [][Next]_vars

ASSUME Catalog!CatalogAssumption
ASSUME Upload!UploadAssumption
ASSUME Drywall!DrywallPaymentAssumption
ASSUME DrywallEvents!DrywallPaymentAssumption
ASSUME Delivery!DrywallDeliveryAssumption
ASSUME Purge!DrywallDeliveryAssumption
ASSUME Retention!RetentionAssumption
ASSUME FailedRuns!RetentionAssumption
ASSUME Burst!RateAssumption
ASSUME Shared!RateAssumption
ASSUME Consent!ConsentAssumption
ASSUME ConsentTabs!ConsentAssumption
ASSUME Reruns!ProvisioningAssumption
ASSUME Overlap!ProvisioningAssumption
ASSUME Targets!ProvisioningAssumption
ASSUME Bootstrap!BootstrapAssumption
ASSUME Limits!BootstrapAssumption
ASSUME Release!ReleaseAssumption
ASSUME Restores!ReleaseAssumption
-----------------------------------------------------------------------------
\* The variables of the component that runs keep their types.
TypeOK ==
  /\ part = "catalog" => Catalog!TypeOK
  /\ part = "upload" => Upload!TypeOK
  /\ part = "drywall" => Drywall!TypeOK
  /\ part = "drywall events" => DrywallEvents!TypeOK
  /\ part = "delivery" => Delivery!TypeOK
  /\ part = "purge" => Purge!TypeOK
  /\ part = "retention" => Retention!TypeOK
  /\ part = "failed runs" => FailedRuns!TypeOK
  /\ part = "burst" => Burst!TypeOK
  /\ part = "shared" => Shared!TypeOK
  /\ part = "consent" => Consent!TypeOK
  /\ part = "consent of two tabs" => ConsentTabs!TypeOK
  /\ part = "reruns" => Reruns!TypeOK
  /\ part = "overlap" => Overlap!TypeOK
  /\ part = "targets" => Targets!TypeOK
  /\ part = "bootstrap" => Bootstrap!TypeOK
  /\ part = "bootstrap limits" => Limits!TypeOK
  /\ part = "release" => Release!TypeOK
  /\ part = "restores" => Restores!TypeOK

\* What is charged is the price of what was chosen, and earns it, while
\* servers with different catalogs answer; a takeoff costs what the cheapest
\* tier costs that covers it; the form shows the quote of what is in it and
\* pays once; a drywall project has one open checkout, is sold on verified
\* plans only, and is called paid for money that came in, while two checkout
\* requests overlap and one of them may fail.
SoldAsListed ==
  /\ part = "catalog" => Catalog!EarnsWhatWasChosen /\ Catalog!SoldAtItsPrice
       /\ Catalog!PlansChargeForTheirSku
  /\ part = "price" => Price!CheapestThatCovers
  /\ part = "upload" => Upload!QuoteIsOfTheForm /\ Upload!PaidOnce
       /\ Upload!VerifiedIsKept /\ Upload!CleanedIsGone
  /\ part = "drywall" => Drywall!OneOpenCheckout /\ Drywall!PaidMeansPaid
       /\ Drywall!SoldPlansAreVerified
  /\ part = "drywall events" => DrywallEvents!OneOpenCheckout
       /\ DrywallEvents!PaidMeansPaid


\* Requests that overlap get no further beyond a limit than those that were
\* under way when it was reached; a request that is let in found room in
\* every bucket it is charged to.
LimitsHold ==
  /\ part = "burst" => Burst!BurstIsBounded
  /\ part = "shared" => Shared!RoomInBoth
  /\ part = "bootstrap limits" => Limits!OvershootIsBounded

\* After a refusal a purchase is reported to Google without consent by the
\* page in which it was chosen and by every page opened since; in all tabs,
\* the visitor's identifier is on its way out unless the visitor left in the
\* middle of that; and events that are still stored came after their erasure,
\* or their erasure was lost.
ChoiceIsKept ==
  /\ part = "consent" => Consent!MeasuredAsTold
  /\ part = "consent of two tabs" => ConsentTabs!MeasuredAsTold
       /\ ConsentTabs!IdentityNeedsPermission /\ ConsentTabs!LeftOverIsLate

\* A test account that was reported is complete, logs in with the password
\* that was saved, has no more credits than its target and is never made in a
\* live project; a grant makes one administrator once; the links of a release
\* name whole releases.
AccountsAreWhole ==
  /\ part = "reruns" => Reruns!SavedPasswordsLogIn
  /\ part = "overlap" => Overlap!DoneIsComplete /\ Overlap!NeverAboveTarget
  /\ part = "targets" => Targets!OnlyTestTargets
  /\ part = "bootstrap" => Bootstrap!UsedOnce
  /\ part = "release" => Release!LinksAreWhole

\* A drywall order that was paid stays so until its own payment is returned,
\* and one that was refunded stays so, whatever events of its session come
\* late, twice or at once (the last update of a checkout request and the
\* closing of another session of the order write without looking, and are
\* left out); who waits as long as told is not refused for that; a suspended
\* account is not promoted; a manifest is never rewritten, and a deployment
\* or a restore that reports success is whole.
StepsAreWhole ==
  [][/\ part = "drywall events" => DrywallEvents!PaymentIsFinal
     /\ part = "burst" => Burst!WaitIsEnough
     /\ part = "bootstrap" => Bootstrap!SuspendedStaysOut
     /\ part = "release" => Release!ManifestsStay /\ Release!DeployIsWhole
     /\ part = "restores" => Restores!RestoredIsWhole]_vars
=============================================================================
