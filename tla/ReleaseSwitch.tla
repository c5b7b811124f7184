---------------------------- MODULE ReleaseSwitch ----------------------------
(***************************************************************************)
(* The release of the private host: deploy-release.sh, rollback.sh and     *)
(* apply-image-manifest.sh, which install commits, switch the links        *)
(* `current` and `previous` and the images in host.env, and restart the    *)
(* services, while a job may be under way.                                 *)
(*                                                                         *)
(* One script runs at a time.  It may be killed between two commands, the  *)
(* host may go down, a service may restart by itself, a release may not    *)
(* become ready.  The egress proxy and the broker are one service here;    *)
(* images are named by the commit they were built from.                    *)
(***************************************************************************)
EXTENDS Naturals, FiniteSets

CONSTANTS Commits, NoCommit,
          MaxScripts,   \* bound: runs of a script
          MaxKills,     \* bound: scripts killed, or the host going down
          MaxTroubles   \* bound: failed starts, releases not ready, restarts of a service

ReleaseAssumption ==
  /\ NoCommit \notin Commits /\ "none" \notin Commits /\ "partial" \notin Commits
  /\ {MaxScripts, MaxKills, MaxTroubles} \subseteq Nat

VARIABLES
  env,         \* the images in host.env
  installed,   \* directories under releases/
  stray,       \* those of them whose work tree is not clean any more
  manifests,   \* manifests[c]: the images written for c, "none", or "partial"
  current, previous,
  links,       \* temporary links that exist: kind, commit in their name, and target
  worker,      \* the worker runs
  core,        \* the broker and the egress proxy: up, and what they were started with
  enabled,     \* the services start at boot
  job,         \* "none", "starting" (the broker is at it) or "running" (its container is)
  script,      \* the script that runs: its kind, commit, place, what it read at its start
  ended,       \* how the last script ended
  scripts, kills, troubles

vars == <<env, installed, stray, manifests, current, previous, links, worker, core,
          enabled, job, script, ended, scripts, kills, troubles>>
treeVars == <<installed, stray, manifests>>
linkVars == <<current, previous, links>>
serviceVars == <<worker, core, enabled, job>>
bounds == <<scripts, kills, troubles>>

NoScript == [kind |-> "none", commit |-> NoCommit, pc |-> "idle", images |-> NoCommit,
             before |-> NoCommit]
Down == [up |-> FALSE, release |-> NoCommit, images |-> NoCommit]

Init ==
  /\ env \in Commits /\ installed = {} /\ stray = {}
  /\ manifests = [c \in Commits |-> "none"]
  /\ current = NoCommit /\ previous = NoCommit /\ links = {}
  /\ worker = FALSE /\ core = Down /\ enabled = FALSE /\ job = "none"
  /\ script = NoScript /\ ended = NoScript
  /\ scripts = 0 /\ kills = 0 /\ troubles = 0

Trouble == troubles < MaxTroubles /\ troubles' = troubles + 1 /\ UNCHANGED <<scripts, kills>>
Written(c) == manifests[c] \in Commits
At(kind, pc) == script.kind = kind /\ script.pc = pc
Goto(pc) == script' = [script EXCEPT !.pc = pc] /\ UNCHANGED ended
Exit(how) == script' = NoScript /\ ended' = [script EXCEPT !.pc = how]

\* ln -s: if the name is taken by a link to a directory, the new link goes into that
\* directory, and the link that was there stays.
LinkOf(kind) == {l \in links : l.kind = kind /\ l.commit = script.commit}
MakeLink(kind, target) ==
  IF LinkOf(kind) = {}
  THEN links' = links \union {[kind |-> kind, commit |-> script.commit, target |-> target]}
       /\ UNCHANGED stray
  ELSE stray' = stray \union {l.target : l \in LinkOf(kind)} /\ UNCHANGED links

\* mv -T: `current` becomes what the link points to.
MoveLink(kind) ==
  /\ \E l \in LinkOf(kind) : current' = l.target
  /\ links' = links \ LinkOf(kind)

\* What is started reads the link and host.env.
Started == [up |-> TRUE, release |-> current, images |-> env]

-----------------------------------------------------------------------------
(* The operator *)

Configure ==
  /\ script = NoScript
  /\ \E images \in Commits : images # env /\ env' = images
  /\ UNCHANGED <<treeVars, linkVars, serviceVars, script, ended, bounds>>

StartDeploy(c) ==
  /\ script = NoScript /\ scripts < MaxScripts /\ scripts' = scripts + 1
  /\ script' = [NoScript EXCEPT !.kind = "deploy", !.commit = c, !.pc = "install",
                                !.images = env]
  /\ UNCHANGED <<env, treeVars, linkVars, serviceVars, ended, kills, troubles>>

\* Without an argument the target is `previous`; it must be installed and have a manifest.
StartRollback(c) ==
  /\ script = NoScript /\ scripts < MaxScripts /\ scripts' = scripts + 1
  /\ c \in installed /\ manifests[c] # "none"
  /\ script' = [NoScript EXCEPT !.kind = "rollback", !.commit = c, !.pc = "stopWorker"]
  /\ UNCHANGED <<env, treeVars, linkVars, serviceVars, ended, kills, troubles>>

-----------------------------------------------------------------------------
(* Both scripts stop the services *)

\* The worker is given 90 seconds; what the broker began for it goes on.
StopWorker ==
  /\ script.pc = "stopWorker"
  /\ worker' = FALSE
  /\ Goto("check")
  /\ UNCHANGED <<env, treeVars, linkVars, core, enabled, job, bounds>>

CheckJob ==
  /\ script.pc = "check"
  /\ IF job = "running" THEN Exit("refused") ELSE Goto("stopCore")
  /\ UNCHANGED <<env, treeVars, linkVars, serviceVars, bounds>>

\* A list of containers that cannot be read is taken for an empty one (|| true).
CheckFails ==
  /\ script.pc = "check" /\ Trouble
  /\ Goto("stopCore")
  /\ UNCHANGED <<env, treeVars, linkVars, serviceVars>>

\* Mutant: the broker and the proxy go on.
StopNothing ==
  /\ script.pc = "stopCore" /\ job # "starting"
  /\ Goto(IF script.kind = "deploy" THEN "previous" ELSE "images")
  /\ UNCHANGED <<env, treeVars, linkVars, serviceVars, bounds>>

\* The broker ends when its handlers have.
StopCore ==
  /\ script.pc = "stopCore" /\ job # "starting"
  /\ core' = Down
  /\ Goto(IF script.kind = "deploy" THEN "previous" ELSE "images")
  /\ UNCHANGED <<env, treeVars, linkVars, worker, enabled, job, bounds>>

-----------------------------------------------------------------------------
(* deploy-release.sh *)

\* Cloned and tested elsewhere, the tree gets its name at once; images are pulled.
Install ==
  /\ At("deploy", "install")
  /\ installed' = installed \union {script.commit}
  /\ IF script.commit \in stray THEN Exit("died") ELSE Goto("manifest")
  /\ UNCHANGED <<env, stray, manifests, linkVars, serviceVars, bounds>>

\* Anything before fails: the network, npm, a test, a pull.
InstallFails ==
  /\ At("deploy", "install") /\ Trouble
  /\ \/ UNCHANGED installed
     \/ installed' = installed \union {script.commit}
  /\ Exit("died")
  /\ UNCHANGED <<env, stray, manifests, linkVars, serviceVars>>

\* Mutant: the manifest is written again.
RewriteManifest ==
  /\ At("deploy", "manifest")
  /\ manifests' = [manifests EXCEPT ![script.commit] = script.images]
  /\ Goto("read")
  /\ UNCHANGED <<env, installed, stray, linkVars, serviceVars, bounds>>

\* Mutant: the manifest is left for later.
SkipManifest ==
  /\ At("deploy", "manifest")
  /\ Goto("read")
  /\ UNCHANGED <<env, treeVars, linkVars, serviceVars, bounds>>

\* A manifest that exists must say the same, one that does not is written.
WriteManifest ==
  /\ At("deploy", "manifest")
  /\ manifests' = [manifests EXCEPT ![script.commit] = IF @ = "none" THEN script.images ELSE @]
  /\ IF manifests[script.commit] \in {"none", script.images} THEN Goto("read") ELSE Exit("died")
  /\ UNCHANGED <<env, installed, stray, linkVars, serviceVars, bounds>>

ReadCurrent ==
  /\ At("deploy", "read")
  /\ script' = [script EXCEPT !.pc = "stopWorker", !.before = current]
  /\ UNCHANGED <<env, treeVars, linkVars, serviceVars, ended, bounds>>

SetPrevious ==
  /\ At("deploy", "previous")
  /\ previous' = IF script.before = NoCommit THEN previous ELSE script.before
  /\ Goto("link")
  /\ UNCHANGED <<env, treeVars, current, links, serviceVars, bounds>>

Link ==
  /\ At("deploy", "link")
  /\ MakeLink("current", script.commit)
  /\ Goto("switch")
  /\ UNCHANGED <<env, installed, manifests, current, previous, serviceVars, bounds>>

Switch ==
  /\ At("deploy", "switch") /\ MoveLink("current")
  /\ Goto("start")
  /\ UNCHANGED <<env, treeVars, previous, serviceVars, bounds>>

\* enable --now starts what is down.
StartServices ==
  /\ At("deploy", "start")
  /\ worker' = TRUE /\ enabled' = TRUE
  /\ core' = IF core.up THEN core ELSE Started
  /\ Goto("ready")
  /\ UNCHANGED <<env, treeVars, linkVars, job, bounds>>

\* systemctl fails, maybe after the services were started.
StartFails ==
  /\ At("deploy", "start") /\ Trouble
  /\ enabled' = TRUE
  /\ \/ core' = Started \/ UNCHANGED core
  /\ IF script.before = NoCommit THEN Exit("died") ELSE Goto("images")
  /\ UNCHANGED <<env, treeVars, linkVars, worker, job>>

\* Both endpoints answer and the three services are active.
Ready ==
  /\ At("deploy", "ready") /\ worker /\ core.up
  /\ Exit("ready")
  /\ UNCHANGED <<env, treeVars, linkVars, serviceVars, bounds>>

\* Mutant: the worker is left running.
NotReadyStopsCore ==
  /\ At("deploy", "ready") /\ Trouble
  /\ IF script.before = NoCommit
     THEN Exit("died") /\ UNCHANGED core
     ELSE Goto("images") /\ core' = Down
  /\ UNCHANGED <<env, treeVars, linkVars, worker, enabled, job>>

\* They do not within a minute.  The services are stopped without looking for a job.
NotReady ==
  /\ At("deploy", "ready") /\ Trouble
  /\ IF script.before = NoCommit
     THEN Exit("died") /\ UNCHANGED <<worker, core>>
     ELSE Goto("images") /\ worker' = FALSE /\ core' = Down
  /\ UNCHANGED <<env, treeVars, linkVars, enabled, job>>

-----------------------------------------------------------------------------
(* rollback.sh, and the end of a deployment that failed *)

Target == IF script.kind = "deploy" THEN script.before ELSE script.commit

\* Mutant: a failed deployment keeps the images it came with.
KeepImages ==
  /\ script.pc = "images"
  /\ UNCHANGED env
  /\ IF Written(Target) THEN Goto("relink") ELSE Exit("died")
  /\ UNCHANGED <<treeVars, linkVars, serviceVars, bounds>>

\* apply-image-manifest.sh replaces host.env at once, or dies on a manifest without images.
ApplyImages ==
  /\ script.pc = "images"
  /\ env' = IF Written(Target) THEN manifests[Target] ELSE env
  /\ IF Written(Target) THEN Goto("relink") ELSE Exit("died")
  /\ UNCHANGED <<treeVars, linkVars, serviceVars, bounds>>

Relink ==
  /\ script.pc = "relink"
  /\ MakeLink("rollback", Target)
  /\ script' = [script EXCEPT !.pc = "return", !.before = IF @ = NoCommit THEN current ELSE @]
  /\ UNCHANGED <<env, installed, manifests, current, previous, serviceVars, ended, bounds>>

Return ==
  /\ script.pc = "return" /\ MoveLink("rollback")
  /\ Goto(IF script.kind = "deploy" THEN "restart" ELSE "swap")
  /\ UNCHANGED <<env, treeVars, previous, serviceVars, bounds>>

\* What was current is kept as `previous`: a second rollback goes back to it.
Swap ==
  /\ At("rollback", "swap")
  /\ previous' = IF script.before = NoCommit THEN previous ELSE script.before
  /\ Goto("restart")
  /\ UNCHANGED <<env, treeVars, current, links, serviceVars, bounds>>

Restart ==
  /\ script.pc = "restart"
  /\ worker' = TRUE /\ core' = Started
  /\ IF script.kind = "deploy" THEN Exit("restored") ELSE Goto("confirm")
  /\ UNCHANGED <<env, treeVars, linkVars, enabled, job, bounds>>

\* A deployment ignores it; a rollback leaves the services as they are.
RestartFails ==
  /\ script.pc = "restart" /\ Trouble
  /\ \/ core' = Started \/ core' = Down
  /\ Exit(IF script.kind = "deploy" THEN "restored" ELSE "died")
  /\ UNCHANGED <<env, treeVars, linkVars, worker, enabled, job>>

Confirm ==
  /\ At("rollback", "confirm") /\ worker /\ core.up
  /\ Exit("ready")
  /\ UNCHANGED <<env, treeVars, linkVars, serviceVars, bounds>>

NotConfirmed ==
  /\ At("rollback", "confirm") /\ Trouble
  /\ Exit("died")
  /\ UNCHANGED <<env, treeVars, linkVars, serviceVars>>

-----------------------------------------------------------------------------
(* Jobs and faults *)

\* The worker submits; the broker makes the container.
Submit ==
  /\ worker /\ core.up /\ job = "none" /\ job' = "starting"
  /\ UNCHANGED <<env, treeVars, linkVars, worker, core, enabled, script, ended, bounds>>

ContainerStarts ==
  /\ core.up /\ job = "starting" /\ job' = "running"
  /\ UNCHANGED <<env, treeVars, linkVars, worker, core, enabled, script, ended, bounds>>

\* The job is over, or its submission failed; a broker that starts cleans what it finds.
JobEnds ==
  /\ core.up /\ job # "none" /\ job' = "none"
  /\ UNCHANGED <<env, treeVars, linkVars, worker, core, enabled, script, ended, bounds>>

\* Restart=on-failure: the service reads the link and host.env again.
ServiceRestarts ==
  /\ core.up /\ Trouble
  /\ core' = Started
  /\ UNCHANGED <<env, treeVars, linkVars, worker, enabled, job, script, ended>>

\* The script dies: a command fails, the operator's connection is gone.
Killed ==
  /\ script # NoScript /\ kills < MaxKills /\ kills' = kills + 1
  /\ Exit("died")
  /\ manifests' = IF At("deploy", "manifest") /\ manifests[script.commit] = "none"
                  THEN [manifests EXCEPT ![script.commit] = "partial"] ELSE manifests
  /\ UNCHANGED <<env, installed, stray, linkVars, serviceVars, scripts, troubles>>

\* The host goes down, and comes up with the services that are enabled.
Reboot ==
  /\ kills < MaxKills /\ kills' = kills + 1
  /\ script' = NoScript /\ ended' = [script EXCEPT !.pc = "died"]
  /\ job' = "none"
  /\ worker' = (enabled /\ current # NoCommit)
  /\ core' = IF enabled /\ current # NoCommit THEN Started ELSE Down
  /\ UNCHANGED <<env, treeVars, linkVars, enabled, scripts, troubles>>

Deploy ==
  \/ Install \/ InstallFails \/ WriteManifest \/ ReadCurrent \/ SetPrevious \/ Link \/ Switch
  \/ StartServices \/ StartFails \/ Ready \/ NotReady

Rollback ==
  \/ ApplyImages \/ Relink \/ Return \/ Swap \/ Restart \/ RestartFails
  \/ Confirm \/ NotConfirmed

Next ==
  \/ Configure \/ \E c \in Commits : StartDeploy(c) \/ StartRollback(c)
  \/ StopWorker \/ CheckJob \/ CheckFails \/ StopCore \/ Deploy \/ Rollback
  \/ Submit \/ ContainerStarts \/ JobEnds
  \/ ServiceRestarts \/ Killed \/ Reboot

Spec == Init /\ [][Next]_vars

-----------------------------------------------------------------------------
(* Properties *)

\* Types; and the worker does not run without its broker (Requires=).
TypeOK ==
  /\ env \in Commits /\ stray \subseteq installed /\ installed \subseteq Commits
  /\ manifests \in [Commits -> Commits \union {"none", "partial"}]
  /\ {current, previous, script.commit, script.before} \subseteq Commits \union {NoCommit}
  /\ core.release \in Commits \union {NoCommit} /\ core.up \in BOOLEAN
  /\ job \in {"none", "starting", "running"} /\ {worker, enabled} \subseteq BOOLEAN
  /\ \A l, k \in links : l.kind = k.kind /\ l.commit = k.commit => l = k
  /\ worker => core.up

\* The links, and what runs, are installed commits whose images are on record, so that there
\* is always something to return to, wherever a script was killed.
LinksAreWhole == \A c \in {current, previous, core.release} \ {NoCommit} :
  c \in installed /\ Written(c)

\* A manifest that was written is never changed: "immutable release manifest".
ManifestsStay == \A c \in Commits : Written(c) => manifests'[c] = manifests[c]

Whole(c) == current = c /\ core.up /\ core.release = c /\ core.images = manifests[c]

\* "Release $commit is active and ready.": the services run that commit with the images of
\* its manifest, whatever was killed before.
DeployIsWhole ==
  ended' # ended /\ ended'.kind = "deploy" /\ ended'.pc = "ready" => Whole(ended'.commit)

\* "previous release was restored": the link, host.env and what runs are of the release
\* that was current when the deployment began.
RestoredIsWhole == ended' # ended /\ ended'.pc = "restored" =>
  /\ current' = ended'.before /\ env' = manifests[ended'.before]
  /\ core'.up => core'.release = ended'.before /\ core'.images = env'

\* "Rollback to $target_commit is ready."
RollbackIsWhole == [][ended' # ended /\ ended'.kind = "rollback" /\ ended'.pc = "ready" =>
                        Whole(ended'.commit)]_vars

\* deploy-release.sh: "Stop intake first so the active-job check cannot race a newly claimed
\* job."  When the broker is stopped after the check, no container works on a job.
CheckIsCurrent == [][script.pc = "stopCore" /\ core' # core => job # "running"]_vars

\* deploy-release.sh: "It refuses to interrupt an active processor job."
UnreadySparesJob ==
  [][At("deploy", "ready") /\ script' # script /\ core' # core => job # "running"]_vars

\* README: the script installs a commit and image references, "then atomically activates it".
ImagesAreOfRelease == core.up => core.images = manifests[core.release]
=============================================================================
