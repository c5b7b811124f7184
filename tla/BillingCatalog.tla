----------------------------- MODULE BillingCatalog -----------------------------
(***************************************************************************)
(* Which Stripe Price a SKU is sold at, and which SKU a payment earns: the *)
(* environment of each server, the billing_plans rows an administrator     *)
(* syncs from it, the checks of a checkout and those of the webhook.       *)
(* Operators deploy new Prices, or mix them up, at any time.               *)
(*                                                                         *)
(* A Price is the SKU it charges for and a version; what it charges        *)
(* (amount, currency, interval) is the SKU's.  A payment is an order's     *)
(* first one or the renewal of its subscription.                           *)
(***************************************************************************)
EXTENDS Naturals, FiniteSets

CONSTANTS
  Packs, Subscriptions,  \* SKUs of BILLING_CATALOG
  Versions, NoPrice,
  Servers,               \* instances that serve requests
  Orders, NoSku,
  MaxDeploys             \* bound: deployments and archived Prices

Skus == Packs \cup Subscriptions
Prices == Skus \X Versions
Charges(p) == IF p = NoPrice THEN NoSku ELSE p[1]
Configs == [Skus -> Prices \cup {NoPrice}]

CatalogAssumption ==
  /\ Packs \cap Subscriptions = {} /\ NoSku \notin Skus /\ NoPrice \notin Prices
  /\ MaxDeploys \in Nat

VARIABLES
  config,   \* config[v]: the Prices in the environment of server v
  archived, \* Prices that are not active at Stripe
  plan,     \* billing_plans: the Price of each SKU
  sync,     \* the catalog an administrator has validated and not written yet
  order,    \* order[o]: its SKU, its Price, and how far it is
  due,      \* payments that the webhook has yet to credit
  granted,  \* granted[x]: the SKU whose credits payment x earned
  deploys

vars == <<config, archived, plan, sync, order, due, granted, deploys>>

Payments == Orders \X {"first", "renewal"}
NoPlans == [s \in Skus |-> NoPrice]
NoOrder == [sku |-> NoSku, price |-> NoPrice, pc |-> "none", planned |-> FALSE, priced |-> FALSE]

Init ==
  /\ config \in [Servers -> {NoPlans}] /\ archived = {} /\ plan = NoPlans /\ sync = NoPlans
  /\ order = [o \in Orders |-> NoOrder] /\ due = {} /\ granted = [x \in Payments |-> NoSku]
  /\ deploys = 0

\* Mutant: a variable that is missing or used twice is not noticed.
TakenAsIs(c, s) == TRUE

\* assertPriceIdIsUnique
Unique(c, s) == \A t \in Skus : c[t] = c[s] => t = s

\* getConfiguredBillingCatalogItem
Configured(c, s) == c[s] # NoPrice /\ Unique(c, s)

\* assertStripePriceMatchesCatalog
Matches(p, s) == Charges(p) = s /\ p \notin archived

\* findBillingCatalogItemByPriceId; with two SKUs it throws, with none there is no item.
Items(c, p) == {s \in Skus : c[s] = p}

-----------------------------------------------------------------------------
(* The operator and the administrator *)

Deploy(v) ==
  /\ deploys < MaxDeploys /\ deploys' = deploys + 1
  /\ \E c \in Configs : c # config[v] /\ config' = [config EXCEPT ![v] = c]
  /\ UNCHANGED <<archived, plan, sync, order, due, granted>>

Archive(p) ==
  /\ deploys < MaxDeploys /\ deploys' = deploys + 1
  /\ p \notin archived /\ archived' = archived \cup {p}
  /\ UNCHANGED <<config, plan, sync, order, due, granted>>

\* Mutant: the Prices are taken as they are configured.
SyncUnchecked(v) ==
  /\ sync = NoPlans /\ \A s \in Skus : Configured(config[v], s)
  /\ sync' = config[v]
  /\ UNCHANGED <<config, archived, plan, order, due, granted, deploys>>

\* syncStripeCatalog: all Prices are configured and match what Stripe has of them.
SyncValidate(v) ==
  /\ sync = NoPlans
  /\ \A s \in Skus : Configured(config[v], s) /\ Matches(config[v][s], s)
  /\ sync' = config[v]
  /\ UNCHANGED <<config, archived, plan, order, due, granted, deploys>>

\* admin_sync_billing_catalog: all plans in one transaction, or none.
SyncWrite ==
  /\ sync # NoPlans /\ sync' = NoPlans
  /\ plan' = sync \/ plan' = plan
  /\ UNCHANGED <<config, archived, order, due, granted, deploys>>

-----------------------------------------------------------------------------
(* A checkout *)

Begin(o, s, v) ==
  /\ order[o].pc = "none" /\ Configured(config[v], s)
  /\ order' = [order EXCEPT ![o] =
       [sku |-> s, price |-> config[v][s], pc |-> "checks", planned |-> FALSE, priced |-> FALSE]]
  /\ UNCHANGED <<config, archived, plan, sync, due, granted, deploys>>

\* Mutant: neither the plan nor the Price is compared.
CheckNothing(o) ==
  /\ order[o].pc = "checks" /\ order' = [order EXCEPT ![o].planned = TRUE, ![o].priced = TRUE]
  /\ UNCHANGED <<config, archived, plan, sync, due, granted, deploys>>

\* Promise.all of loadAndValidateBillingPlan and validateStripePrice, in either order.
CheckItem(o) ==
  /\ order[o].pc = "checks"
  /\ \/ /\ ~order[o].planned
        /\ order' = IF plan[order[o].sku] = order[o].price
                    THEN [order EXCEPT ![o].planned = TRUE]
                    ELSE [order EXCEPT ![o].pc = "refused"]
     \/ /\ ~order[o].priced
        /\ order' = IF Matches(order[o].price, order[o].sku)
                    THEN [order EXCEPT ![o].priced = TRUE]
                    ELSE [order EXCEPT ![o].pc = "refused"]
  /\ UNCHANGED <<config, archived, plan, sync, due, granted, deploys>>

\* Stripe makes no session with a Price that is not active.
OpenSession(o) ==
  /\ order[o].pc = "checks" /\ order[o].planned /\ order[o].priced
  /\ order' = [order EXCEPT ![o].pc = IF order[o].price \in archived THEN "refused" ELSE "open"]
  /\ UNCHANGED <<config, archived, plan, sync, due, granted, deploys>>

Pay(o) ==
  /\ order[o].pc = "open"
  /\ order' = [order EXCEPT ![o].pc = "paid"] /\ due' = due \cup {<<o, "first">>}
  /\ UNCHANGED <<config, archived, plan, sync, granted, deploys>>

\* A subscription renews at the Price it was sold at, archived or not.
Renew(o) ==
  /\ order[o].pc = "paid" /\ order[o].sku \in Subscriptions
  /\ <<o, "renewal">> \notin due /\ granted[<<o, "renewal">>] = NoSku
  /\ due' = due \cup {<<o, "renewal">>}
  /\ UNCHANGED <<config, archived, plan, sync, order, granted, deploys>>

-----------------------------------------------------------------------------
(* The webhook *)

\* Mutant: what the Price is configured as is what was sold.
TrustPrice(o, s) == TRUE

\* validateBillingOrderAgainstCatalog, the subscription's metadata, loadAndValidateBillingPlan.
Agrees(o, s) == order[o].sku = s /\ plan[s] = order[o].price

\* Mutant: an event that fails is not delivered again.
CreditOnce(x, v) ==
  LET items == Items(config[v], order[x[1]].price) IN
  /\ x \in due /\ due' = due \ {x}
  /\ \E s \in Skus \cup {NoSku} :
       /\ IF \E t \in items : items = {t} /\ Agrees(x[1], t) THEN s \in items ELSE s = NoSku
       /\ granted' = [granted EXCEPT ![x] = s]
  /\ UNCHANGED <<config, archived, plan, sync, order, deploys>>

\* A payment that fits the server's catalog is credited; any other is delivered again.
Credit(x, v) ==
  LET items == Items(config[v], order[x[1]].price) IN
  /\ x \in due
  /\ \E s \in items : items = {s} /\ Agrees(x[1], s) /\ granted' = [granted EXCEPT ![x] = s]
  /\ due' = due \ {x}
  /\ UNCHANGED <<config, archived, plan, sync, order, deploys>>

Next ==
  \/ \E v \in Servers : Deploy(v) \/ SyncValidate(v)
  \/ (\E p \in Prices : Archive(p)) \/ SyncWrite
  \/ \E o \in Orders, s \in Skus, v \in Servers : Begin(o, s, v)
  \/ \E o \in Orders : CheckItem(o) \/ OpenSession(o) \/ Pay(o) \/ Renew(o)
  \/ \E x \in Payments, v \in Servers : Credit(x, v)

\* A server credits a payment.
Creditable(x) == \E v \in Servers : Credit(x, v)

Spec == Init /\ [][Next]_vars

-----------------------------------------------------------------------------
(* Properties *)

\* The variables hold what the environments, the tables and Stripe can hold.
TypeOK ==
  /\ config \in [Servers -> Configs] /\ archived \subseteq Prices
  /\ plan \in Configs /\ sync \in Configs /\ due \subseteq Payments
  /\ granted \in [Payments -> Skus \cup {NoSku}]
  /\ \A o \in Orders :
       /\ order[o].sku \in Skus \cup {NoSku} /\ order[o].price \in Prices \cup {NoPrice}
       /\ order[o].pc \in {"none", "checks", "refused", "open", "paid"}
       /\ order[o].pc # "none" => order[o].price \in Prices

\* Whatever the environments were and became, a payment earns the credits of the SKU the
\* customer chose, which is the one its Price charges for (the webhook's validations).
EarnsWhatWasChosen ==
  \A x \in Payments : granted[x] # NoSku =>
    granted[x] = order[x[1]].sku /\ granted[x] = Charges(order[x[1]].price)

\* A customer is only ever shown a session that charges for the SKU that was chosen, with
\* two servers on different environments and Prices that were mixed up.
SoldAtItsPrice ==
  \A o \in Orders : order[o].pc \in {"open", "paid"} => Charges(order[o].price) = order[o].sku

\* The database only ever names Prices that charge for the SKU of the plan, also when a sync
\* validated before another deployment is written after it (syncStripeCatalog).
PlansChargeForTheirSku == \A s \in Skus : plan[s] # NoPrice => Charges(plan[s]) = s

\* A payment fits when every server and the plan have its Price for its SKU, and no other.
Fits(x) ==
  LET o == order[x[1]] IN
  /\ o.sku \in Skus /\ plan[o.sku] = o.price
  /\ \A v \in Servers : Items(config[v], o.price) = {o.sku}

Owed(x) == x \in due \/ (x[2] = "first" /\ order[x[1]].pc = "paid")

\* A payment that is credited, or that no longer fits what the servers are configured with.
Credited(x) == granted[x] # NoSku \/ ~Fits(x)
=============================================================================
