------------------------------ MODULE TestAccounts ------------------------------
(***************************************************************************)
(* scripts/provision-test-accounts.ts: make or refresh the test logins of  *)
(* a Supabase project, save the passwords that were generated, and top up  *)
(* the customer's credits.  Each action is one call of the script; runs    *)
(* may overlap, fail or be killed, and be started again.                   *)
(*                                                                         *)
(* A generated password carries the number of the run that generated it.   *)
(***************************************************************************)
EXTENDS Integers, FiniteSets, Sequences

CONSTANTS
  MaxRuns,      \* bound: runs
  MaxInFlight,  \* bound: runs at a time
  MaxFaults,    \* bound: calls that fail, or whose answer is lost
  MaxDeaths,    \* bound: runs that are killed
  MaxEdits,     \* bound: changes of .env.local
  MaxSpent,     \* bound: credits the customer spends
  Target,       \* CUADRABOT_TEST_USER_CREDITS
  Hosts,        \* what NEXT_PUBLIC_SUPABASE_URL may name
  Flags         \* what the guards of the environment may be

ProvisioningAssumption ==
  /\ {MaxRuns, MaxInFlight, MaxFaults, MaxDeaths, MaxEdits, MaxSpent, Target} \subseteq Nat
  /\ Hosts \subseteq {"local", "sandbox", "live"} /\ Flags \subseteq BOOLEAN

Runs == 1..MaxRuns
Accounts == {"admin", "customer"}
NoPassword == 0
Own == -1  \* a password the operator wrote into .env.local
Passwords == Runs \cup {NoPassword, Own}

VARIABLES
  env,      \* .env.local
  file,     \* .env.test-accounts.local: the password of each account
  auth,     \* Supabase Auth: the password of each user, NoPassword when there is none
  profile,  \* public.profiles: none, default (made with the user) or intended
  credits,  \* the customer's account: balance, version and the keys of its ledger
  run,      \* run[r]
  faults, deaths, edits, spent

accounts == <<auth, profile, credits>>
counters == <<faults, deaths, edits, spent>>
vars == <<env, file, accounts, run, counters>>

NoPasswords == [a \in Accounts |-> NoPassword]

Init ==
  /\ env \in [host : Hosts, ref : Hosts, approved : Flags, production : Flags,
              public : Flags, exposed : Flags, generate : BOOLEAN, own : SUBSET Accounts]
  /\ file = NoPasswords /\ auth = NoPasswords /\ profile = [a \in Accounts |-> "none"]
  /\ credits = [balance |-> 0, version |-> 0, keys |-> {}]
  /\ run = [r \in Runs |-> [pc |-> "idle", saved |-> NoPasswords, password |-> NoPasswords,
                            found |-> FALSE, balance |-> 0, version |-> 0]]
  /\ faults = 0 /\ deaths = 0 /\ edits = 0 /\ spent = 0

At(r, pc) == run[r].pc = pc
Goto(r, pc) == run' = [run EXCEPT ![r].pc = pc]
InFlight == {r \in Runs : run[r].pc \notin {"idle", "done", "failed"}}
Fault == faults < MaxFaults /\ faults' = faults + 1 /\ UNCHANGED <<deaths, edits, spent>>
FailedCall(r) == Fault /\ Goto(r, "failed")

-----------------------------------------------------------------------------
(* The environment and the saved passwords *)

\* Mutant: a project that is approved need not be the one the URL names.
ApprovedAnywhere ==
  /\ ~env.production /\ ~env.public /\ ~env.exposed
  /\ env.host = "local" \/ env.approved

\* loadProvisioningConfig: not production, a target that is local or named twice, a
\* secret key.
Accepted ==
  /\ ~env.production /\ ~env.public /\ ~env.exposed
  /\ env.host = "local" \/ (env.approved /\ env.ref = env.host)

\* loadLocalEnvironment, then prepareGeneratedCredentials: .env.local comes first, then the
\* file, then a new password; the file is to keep what it had, and what is new.
Load(r) ==
  LET known == [a \in Accounts |-> IF a \in env.own THEN Own ELSE file[a]]
      missing == {a \in Accounts : known[a] = NoPassword}
  IN
  /\ At(r, "idle") /\ Cardinality(InFlight) < MaxInFlight
  /\ \A q \in Runs : q < r => ~At(q, "idle")
  /\ run' = [run EXCEPT
       ![r].saved = [a \in Accounts |-> IF a \in missing THEN r ELSE file[a]],
       ![r].password = [a \in Accounts |-> IF a \in missing THEN r ELSE known[a]],
       ![r].pc = IF ~Accepted \/ (missing # {} /\ ~env.generate) THEN "failed"
                 ELSE IF missing # {} THEN "persist" ELSE "find admin"]
  /\ UNCHANGED <<env, file, accounts, counters>>

\* persistTestCredentials: the file is replaced by a rename, or not at all.
Persist(r) ==
  /\ At(r, "persist")
  /\ \/ file' = run[r].saved /\ Goto(r, "find admin") /\ UNCHANGED counters
     \/ FailedCall(r) /\ UNCHANGED file
  /\ UNCHANGED <<env, accounts>>

-----------------------------------------------------------------------------
(* ensureAccount, for the administrator and then for the customer *)

Find(r, a) ==
  /\ At(r, "find " \o a)
  /\ \/ /\ run' = [run EXCEPT ![r].pc = "write " \o a, ![r].found = auth[a] # NoPassword]
        /\ UNCHANGED counters
     \/ FailedCall(r)
  /\ UNCHANGED <<env, file, accounts>>

\* Mutant: a user who exists keeps the password.
WriteNewUser(r, a) ==
  /\ At(r, "write " \o a) /\ Goto(r, "upsert " \o a)
  /\ auth' = [auth EXCEPT ![a] = IF run[r].found THEN @ ELSE run[r].password[a]]
  /\ profile' = [profile EXCEPT ![a] = IF @ = "none" THEN "default" ELSE @]
  /\ UNCHANGED <<env, file, credits, counters>>

\* The e-mail is unique: a user who was made since the look-up makes createUser fail.
WriteUser(r, a) ==
  LET taken == ~run[r].found /\ auth[a] # NoPassword IN
  /\ At(r, "write " \o a)
  /\ \/ /\ ~taken
        /\ auth' = [auth EXCEPT ![a] = run[r].password[a]]
        /\ profile' = [profile EXCEPT ![a] = IF @ = "none" THEN "default" ELSE @]
        /\ \/ Goto(r, "upsert " \o a) /\ UNCHANGED counters
           \/ FailedCall(r)
     \/ taken /\ Goto(r, "failed") /\ UNCHANGED <<auth, profile, counters>>
     \/ FailedCall(r) /\ UNCHANGED <<auth, profile>>
  /\ UNCHANGED <<env, file, credits>>

After(a) == IF a = "admin" THEN "find customer" ELSE "credits"

\* Mutant: only a new user gets a profile.
UpsertNew(r, a) ==
  /\ At(r, "upsert " \o a) /\ Goto(r, After(a))
  /\ profile' = [profile EXCEPT ![a] = IF run[r].found THEN @ ELSE "intended"]
  /\ UNCHANGED <<env, file, auth, credits, counters>>

UpsertProfile(r, a) ==
  /\ At(r, "upsert " \o a)
  /\ \/ /\ profile' = [profile EXCEPT ![a] = "intended"]
        /\ Goto(r, After(a)) /\ UNCHANGED counters
     \/ FailedCall(r) /\ UNCHANGED profile
  /\ UNCHANGED <<env, file, auth, credits>>

-----------------------------------------------------------------------------
(* The customer's credits *)

\* Mutant: the key is to be of the version that the top-up makes.
ReadNextVersion(r) ==
  /\ At(r, "credits")
  /\ run' = [run EXCEPT ![r].balance = credits.balance, ![r].version = credits.version + 1,
                        ![r].pc = IF credits.balance < Target THEN "adjust" ELSE "check"]
  /\ UNCHANGED <<env, file, accounts, counters>>

ReadCredits(r) ==
  /\ At(r, "credits")
  /\ \/ /\ run' = [run EXCEPT ![r].balance = credits.balance, ![r].version = credits.version,
                              ![r].pc = IF credits.balance < Target THEN "adjust" ELSE "check"]
        /\ UNCHANGED counters
     \/ FailedCall(r)
  /\ UNCHANGED <<env, file, accounts>>

\* Mutant: a key of the run's own.
KeyOfRun(r) == MaxSpent + r + 100

\* buildCreditIdempotencyKey: of the version that was read; customer and target are fixed.
Key(r) == run[r].version

\* admin_adjust_credits: a key that the ledger has is answered without a change.
AdjustCredits(r) ==
  /\ At(r, "adjust")
  /\ \/ /\ credits' = IF Key(r) \in credits.keys THEN credits
                      ELSE [balance |-> credits.balance + (Target - run[r].balance),
                            version |-> credits.version + 1,
                            keys |-> credits.keys \cup {Key(r)}]
        /\ \/ Goto(r, "check") /\ UNCHANGED counters
           \/ FailedCall(r)
     \/ FailedCall(r) /\ UNCHANGED credits
  /\ UNCHANGED <<env, file, auth, profile>>

Check(r) ==
  /\ At(r, "check")
  /\ \/ Goto(r, IF credits.balance >= Target THEN "done" ELSE "failed") /\ UNCHANGED counters
     \/ FailedCall(r)
  /\ UNCHANGED <<env, file, accounts>>

-----------------------------------------------------------------------------
(* The operator, the customer and the machine *)

Spend ==
  /\ spent < MaxSpent /\ credits.balance > 0 /\ spent' = spent + 1
  /\ credits' = [credits EXCEPT !.balance = @ - 1, !.version = @ + 1]
  /\ UNCHANGED <<env, file, auth, profile, run, faults, deaths, edits>>

Edit ==
  /\ edits < MaxEdits /\ edits' = edits + 1 /\ InFlight = {}
  /\ \E own \in SUBSET Accounts : own # env.own /\ env' = [env EXCEPT !.own = own]
  /\ UNCHANGED <<file, accounts, run, faults, deaths, spent>>

Die(r) ==
  /\ r \in InFlight /\ deaths < MaxDeaths /\ deaths' = deaths + 1 /\ Goto(r, "failed")
  /\ UNCHANGED <<env, file, accounts, faults, edits, spent>>

Step(r) ==
  \/ Load(r) \/ Persist(r)
  \/ \E a \in Accounts : Find(r, a) \/ WriteUser(r, a) \/ UpsertProfile(r, a)
  \/ ReadCredits(r) \/ AdjustCredits(r) \/ Check(r)

Next == (\E r \in Runs : Step(r) \/ Die(r)) \/ Spend \/ Edit

Spec == Init /\ [][Next]_vars
-----------------------------------------------------------------------------
(* Properties *)

\* The variables hold what the files, the project and the runs can hold.
TypeOK ==
  /\ DOMAIN file = Accounts /\ \A a \in Accounts : {file[a], auth[a]} \subseteq Passwords
  /\ \A a \in Accounts : profile[a] \in {"none", "default", "intended"}
  /\ credits.balance \in Nat /\ credits.version \in Nat /\ credits.keys \subseteq Nat
  /\ \A r \in Runs : run[r].balance \in Nat /\ run[r].version <= credits.version

Started == {r \in Runs : ~At(r, "idle")}
Last == CHOOSE r \in Started : \A q \in Started : q <= r

\* When the last run ended well, the passwords that are saved log in, whatever failed or
\* was killed before, and whatever .env.local had in between (persistTestCredentials,
\* ensureAccount).
SavedPasswordsLogIn ==
  Started # {} /\ InFlight = {} /\ At(Last, "done") =>
    \A a \in Accounts :
      run[Last].password[a] # Own /\ file[a] # NoPassword => auth[a] = file[a]

\* A run that ended well left every account with a login and its own role, also when an
\* earlier run stopped half way (ensureAccount).
DoneIsComplete ==
  (\E r \in Runs : At(r, "done")) =>
    \A a \in Accounts : auth[a] # NoPassword /\ profile[a] = "intended"

\* Runs that start again or overlap never give more than the target (Key).
NeverAboveTarget == credits.balance <= Target

\* Nothing is written for a project that is neither local nor named and approved, or with
\* an environment that is not a test's: the passwords are not even saved.
OnlyTestTargets ==
  LET forbidden ==
        \/ env.production \/ env.public \/ env.exposed
        \/ env.host = "live" /\ ~(env.approved /\ env.ref = "live")
  IN  forbidden => file = NoPasswords /\ auth = NoPasswords

\* Credits are added only when the customer has less than the target.
AddedBelowTarget ==
  credits'.balance > credits.balance => credits.balance < Target
=============================================================================
