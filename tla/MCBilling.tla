----------------------------- MODULE MCBilling ------------------------------
(* Safety of the components that are paid for takeoffs and take their plans  *)
(* in.  A behaviour of this module is a behaviour of one component, the one  *)
(* that part names: x1, x2, ... stand for the variables of that component,   *)
(* in the order in which its module declares them.                           *)
EXTENDS Integers, TLC

CONSTANTS
  Packs, First,          \* payments: credit packs, the first invoice of a subscription
  PackPrice, InvoicePrice, MaxFaults,
  Handlers,              \* handlers of requests and events, and tabs
  Alone,                 \* a handler of events that has no other
  Asks, Clicks,          \* requests for a test code, of several tabs and of one
  Takeoffs, Samples, PlanPages, DraftLimit, Lease, MaxPlanFaults, MaxStalls,
  MaxPages,              \* the pages of a plan that are allowed
  Admins, Losses, MaxTokens, MaxArchiveFaults,
  None

VARIABLES part, x1, x2, x3, x4, x5, x6, x7, x8, x9, x10, x11, x12, x13, x14,
                x15, x16

\* Interchangeable request handlers and tabs
Symmetry == Permutations(Handlers)

Pack == INSTANCE StripeCredits_proofs WITH
  First <- {}, Renewals <- {}, NoEvent <- None, Price <- PackPrice,
  paid <- x1, refunded <- x2, subscription <- x3, events <- x4,
  answered <- x5, inbox <- x6, run <- x7, order <- x8, control <- x9,
  granted <- x10, reversed <- x11, spent <- x12, active <- x13, faults <- x14

Subscription == INSTANCE StripeCredits_proofs WITH
  Packs <- {}, Renewals <- {}, NoEvent <- None, Price <- InvoicePrice,
  paid <- x1, refunded <- x2, subscription <- x3, events <- x4,
  answered <- x5, inbox <- x6, run <- x7, order <- x8, control <- x9,
  granted <- x10, reversed <- x11, spent <- x12, active <- x13, faults <- x14

Checkout == INSTANCE SubscriptionCheckout WITH
  Tabs <- Handlers, NoTab <- None, SavedBefore <- {"none", "old"},
  MaxFaults <- 1, MaxDeaths <- 1, MaxDeclined <- 2,
  tab <- x1, order <- x2, attached <- x3, session <- x4, reachable <- x5,
  saved <- x6, sub <- x7, row <- x8, events <- x9, active <- x10,
  admin <- x11, faults <- x12, deaths <- x13, declined <- x14

Promotion == INSTANCE StripeTestPromotion WITH
  Requests <- Asks, NoCode <- None, AuditLimit <- 20,
  MaxInFlight <- 3, MaxFaults <- 1, MaxDeaths <- 1,
  req <- x1, told <- x2, coupon <- x3, code <- x4, redeemed <- x5,
  expired <- x6, audit <- x7, faults <- x8, deaths <- x9

OneTab == INSTANCE StripeTestPromotion WITH
  Requests <- Clicks, NoCode <- None, AuditLimit <- 20,
  MaxInFlight <- 1, MaxFaults <- 0, MaxDeaths <- 0,
  req <- x1, told <- x2, coupon <- x3, code <- x4, redeemed <- x5,
  expired <- x6, audit <- x7, faults <- x8, deaths <- x9

Alerts == INSTANCE BillingAlerts WITH
  Cases <- {"dispute", "refund"}, Handlers <- Alone, MaxAlerts <- 3,
  MaxClicks <- 1, MaxFaults <- 1,
  status <- x1, inbox <- x2, stored <- x3, run <- x4, reviews <- x5,
  alerts <- x6, flagged <- x7, page <- x8, clicks <- x9, faults <- x10

AlertsAtOnce == INSTANCE BillingAlerts WITH
  Cases <- {"dispute"}, MaxAlerts <- 3, MaxClicks <- 1,
  MaxFaults <- 1,
  status <- x1, inbox <- x2, stored <- x3, run <- x4, reviews <- x5,
  alerts <- x6, flagged <- x7, page <- x8, clicks <- x9, faults <- x10

Plan == INSTANCE PlanVerification_proofs WITH
  Jobs <- Takeoffs, Requests <- Handlers, Pages <- PlanPages,
  MaxFaults <- MaxPlanFaults, MaxStalls <- 1,
  status <- x1, token <- x2, age <- x3, file <- x4, plan <- x5, sample <- x6,
  late <- x7, archive <- x8, old <- x9, req <- x10, faults <- x11, stalls <- x12

Stalls == INSTANCE PlanVerification_proofs WITH
  Jobs <- Takeoffs, Requests <- Handlers, Pages <- {1},
  DraftLimit <- DraftLimit + 1, MaxFaults <- 0,
  status <- x1, token <- x2, age <- x3, file <- x4, plan <- x5, sample <- x6,
  late <- x7, archive <- x8, old <- x9, req <- x10, faults <- x11, stalls <- x12

Pdf == INSTANCE PdfVerification WITH
  pdf <- x1, sample <- x2, pc <- x3, child <- x4, pages <- x5, cut <- x6,
  dir <- x7, troubled <- x8, verdict <- x9

Archive == INSTANCE DocumentArchive WITH
  LateCalls <- TRUE, MaxFaults <- MaxArchiveFaults,
  status <- x1, hold <- x2, requester <- x3, approver <- x4, token <- x5,
  tokens <- x6, expired <- x7, window <- x8, object <- x9, lost <- x10,
  late <- x11, act <- x12, integrity <- x13, alert <- x14, cron <- x15,
  faults <- x16

xs == <<x1, x2, x3, x4, x5, x6, x7, x8, x9, x10, x11, x12, x13, x14, x15, x16>>
vars == <<part, xs>>

Init ==
  \/ /\ part = "pack" /\ Pack!Init
     /\ x15 = 0 /\ x16 = 0
  \/ /\ part = "subscription" /\ Subscription!Init
     /\ x15 = 0 /\ x16 = 0
  \/ /\ part = "checkout" /\ Checkout!Init
     /\ x15 = 0 /\ x16 = 0
  \/ /\ part = "promotion" /\ Promotion!Init
     /\ x10 = 0 /\ x11 = 0 /\ x12 = 0 /\ x13 = 0 /\ x14 = 0 /\ x15 = 0
     /\ x16 = 0
  \/ /\ part = "promotion in one tab" /\ OneTab!Init
     /\ x10 = 0 /\ x11 = 0 /\ x12 = 0 /\ x13 = 0 /\ x14 = 0 /\ x15 = 0
     /\ x16 = 0
  \/ /\ part = "alerts" /\ Alerts!Init
     /\ x11 = 0 /\ x12 = 0 /\ x13 = 0 /\ x14 = 0 /\ x15 = 0 /\ x16 = 0
  \/ /\ part = "alerts at once" /\ AlertsAtOnce!Init
     /\ x11 = 0 /\ x12 = 0 /\ x13 = 0 /\ x14 = 0 /\ x15 = 0 /\ x16 = 0
  \/ /\ part = "plan" /\ Plan!Init
     /\ x13 = 0 /\ x14 = 0 /\ x15 = 0 /\ x16 = 0
  \/ /\ part = "stalls" /\ Stalls!Init
     /\ x13 = 0 /\ x14 = 0 /\ x15 = 0 /\ x16 = 0
  \/ /\ part = "pdf" /\ Pdf!Init
     /\ x10 = 0 /\ x11 = 0 /\ x12 = 0 /\ x13 = 0 /\ x14 = 0 /\ x15 = 0
     /\ x16 = 0
  \/ /\ part = "archive" /\ Archive!Init

Next ==
  \/ /\ part = "pack" /\ Pack!Next
     /\ UNCHANGED <<part, x15, x16>>
  \/ /\ part = "subscription" /\ Subscription!Next
     /\ UNCHANGED <<part, x15, x16>>
  \/ /\ part = "checkout" /\ Checkout!Next
     /\ UNCHANGED <<part, x15, x16>>
  \/ /\ part = "promotion" /\ Promotion!Next
     /\ UNCHANGED <<part, x10, x11, x12, x13, x14, x15, x16>>
  \/ /\ part = "promotion in one tab" /\ OneTab!Next
     /\ UNCHANGED <<part, x10, x11, x12, x13, x14, x15, x16>>
  \/ /\ part = "alerts" /\ Alerts!Next
     /\ UNCHANGED <<part, x11, x12, x13, x14, x15, x16>>
  \/ /\ part = "alerts at once" /\ AlertsAtOnce!Next
     /\ UNCHANGED <<part, x11, x12, x13, x14, x15, x16>>
  \/ /\ part = "plan" /\ Plan!Next
     /\ UNCHANGED <<part, x13, x14, x15, x16>>
  \/ /\ part = "stalls" /\ Stalls!Next
     /\ UNCHANGED <<part, x13, x14, x15, x16>>
  \/ /\ part = "pdf" /\ Pdf!Next
     /\ UNCHANGED <<part, x10, x11, x12, x13, x14, x15, x16>>
  \/ /\ part = "archive" /\ Archive!Next
     /\ UNCHANGED <<part>>

Spec == Init /\ [][Next]_vars

ASSUME StripeAssumed == Pack!StripeAssumption /\ Subscription!StripeAssumption
ASSUME CheckoutAssumed == Checkout!CheckoutAssumption
ASSUME PromotionAssumed == Promotion!PromotionAssumption /\ OneTab!PromotionAssumption
ASSUME AlertsAssumed == Alerts!CasesAssumption /\ AlertsAtOnce!CasesAssumption
ASSUME PlanAssumed == Plan!Finite /\ Stalls!Finite
ASSUME PdfAssumed == Pdf!PdfAssumption
ASSUME ArchiveAssumed == Archive!DocumentArchiveAssumption
-----------------------------------------------------------------------------
\* The variables of the component that runs keep their types.
TypeOK ==
  /\ part = "pack" => Pack!TypeOK
  /\ part = "subscription" => Subscription!TypeOK
  /\ part = "checkout" => Checkout!TypeOK
  /\ part = "promotion" => Promotion!TypeOK
  /\ part = "promotion in one tab" => OneTab!TypeOK
  /\ part = "alerts" => Alerts!TypeOK
  /\ part = "alerts at once" => AlertsAtOnce!TypeOK
  /\ part = "plan" => Plan!TypeOK
  /\ part = "stalls" => Stalls!TypeOK
  /\ part = "pdf" => Pdf!TypeOK
  /\ part = "archive" => Archive!TypeOK

\* Credits are granted once for a payment that came in, and taken back once
\* for one that was returned, in whatever order, number and overlap the
\* events of Stripe arrive; an event that is recorded as processed was
\* applied, and a customer who is blocked is not renewed.
CreditsFollowMoney ==
  /\ part = "pack" => Pack!SuppressedWasRefunded /\ Pack!ProcessedIsApplied
       /\ Pack!RefundedMeansReversed /\ Pack!CreditsArePaid
  /\ part = "subscription" => Subscription!RefundedMeansReversed
       /\ Subscription!CreditsArePaid /\ Subscription!ProcessedIsApplied
       /\ Subscription!BlockedIsNotRenewed

\* A customer never has two checkouts of a subscription that can be paid, save
\* for one that a declined attempt to pay left open when it closed its order;
\* and never two Stripe customers.  Requests fail and die, attempts to pay are
\* declined, and the customer is suspended meanwhile.
OneCheckout ==
  part = "checkout" => Checkout!OneCheckout /\ Checkout!OneCustomer

\* An administrator has one active test code, which is written down before it
\* is shown, is never active again after it was used, and leaves nothing when
\* its making fails.
CodesAreSound ==
  /\ part = "promotion" => Promotion!OneActiveCode /\ Promotion!RedeemedIsFinal
       /\ Promotion!ShownIsAudited /\ Promotion!FailureLeavesNothing
  /\ part = "promotion in one tab" => OneTab!OneDiscount

\* An alert of a dispute or a refund that is settled says what Stripe says, a
\* review that was made is kept, and an event that was answered left its case
\* with an alert.
AlertsAreTrue ==
  /\ part = "alerts" => Alerts!SettledAlertIsTrue /\ Alerts!ReviewsKept
  /\ part = "alerts at once" => AlertsAtOnce!AnsweredIsAlerted

\* While calls stall until leases are over: a customer never has more drafts
\* than allowed; a quote is for a plan that was verified, archived and is in
\* storage, as is the page that was quoted, unless a request that had lost its
\* lease stored another one over it; and one verification runs at a time, beside
\* those whose drafts were canceled while they ran.
QuotesAreSound ==
  /\ part = "plan" => Plan!DraftsAreLimited /\ Plan!QuotedIsArchived
       /\ Plan!VerifiedIsStored /\ Plan!LeaseSerializes
  /\ part = "stalls" => Stalls!LeaseSerializes

\* A PDF is accepted when it is sound and only then, whatever its inspectors
\* do and when, and nothing is left of the inspection.
VerdictsAreRight ==
  part = "pdf" => Pdf!AcceptedIsSound /\ Pdf!SoundIsAccepted /\ Pdf!NothingIsLeft

\* A plan that is recorded as erased is gone, for two administrators, while
\* removals overlap, fail, outlive their leases, are taken up again and are
\* carried out by storage late.  One under a legal hold is there, unless storage
\* lost it or a removal that came too late took it.
ErasedIsGone ==
  part = "archive" => Archive!DeletedIsGone /\ Archive!HeldIsKept
    /\ Archive!TwoTookPart

\* The grant of a credit pack stays or is later refunded; that of a first
\* invoice, too, unless its subscription is over by the time that the payment is
\* handled again: then it is blocked.  A quote never changes once it was made,
\* and a draft that expired stays so.
SettledIsFinal ==
  [][/\ part = "pack" => Pack!FulfilledIsFinal
     /\ part = "subscription" => Subscription!GrantStays
     /\ part = "plan" => Plan!QuoteIsFixed
     /\ part = "stalls" => Stalls!QuoteIsFixed]_vars
=============================================================================
