----------------------------- MODULE Deployments -----------------------------
(***************************************************************************)
(* The deployment engine of api/internal/deployments for one project: the  *)
(* deployments table, the release directories and the live tree, under the *)
(* steps of the operations deployment.deploy, deployment.production and    *)
(* deployment.rollback.  The worker of the one API process runs one        *)
(* operation at a time; any step may fail, be cancelled at its boundary,   *)
(* or be cut short by a crash, and the operation engine undoes the steps   *)
(* that ran, the failed one included (Operations.tla).                     *)
(*                                                                         *)
(* A directory maps file names to the number of the deployment whose       *)
(* release brought the file; copying into a directory merges.  Deployments *)
(* are numbered in the order of their created_at.                          *)
(***************************************************************************)
EXTENDS Integers, FiniteSets

CONSTANTS
    Files,          \* file names
    Envs,           \* environments
    Keep,           \* keepReleases
    MaxDeployments,        \* bound: rows of the deployments table
    MaxFaults       \* bound: faults, and failures of the disk or the database

ASSUME DeploymentsAssumption ==
    /\ Keep \in Nat \ {0}
    /\ MaxDeployments \in Nat \ {0}
    /\ MaxFaults \in Nat

VARIABLES
    \* the deployments table
    deployment, env,
    \* the project's workspace
    live,       \* app
    release,    \* releases/<id>
    previous,   \* releases/_previous-<id> of the run in progress
    pre,        \* releases/_pre-rollback-<id>
    \* the run in progress
    phase,      \* its step
    stage,      \* the environment it deploys to
    dep,        \* depID, the row it inserted
    target,     \* the deployment it restores
    backedUp,   \* liveBackedUp
    rolledBackAll,  \* whether every Undo succeeded so far
    \* observations, read by no action
    report,     \* what the job of the last run says of it
    before,     \* the live tree when the run began
    content,    \* the release of a completed deployment, or the one it restored
    served,     \* the live tree when it completed
    made,       \* completed deployments that fetched a release
    lost,       \* rows whose run was cut short or whose closing write failed
    intact,     \* no crash, no loss of a preserved tree and no failed Undo yet
    \* the counter that bounds the environment
    faults

deployRowVars == <<deployment, env>>
dirVars == <<live, release, previous, pre>>
deployRunVars == <<stage, dep, target, backedUp, rolledBackAll>>
deployObsVars == <<report, before, content, served, made, lost, intact>>
deployVars == <<deployRowVars, dirVars, phase, deployRunVars, deployObsVars, faults>>

None == 0
Base == -1          \* files that came with the project
Rows == 1..MaxDeployments
Dirs == [Files -> Rows \cup {None, Base}]
Empty == [f \in Files |-> None]
Completed == {"succeeded", "rolled_back"}
NoEnv == "none"

DeploySteps == {"precheck", "fetch", "test", "preserve", "activate", "health",
                "complete", "prune"}
RollbackSteps == {"locate", "set_aside", "restore", "supersede", "record"}
Undos == {"undo_deploy", "undo_fetch", "undo_precheck", "undo_restore", "conclude"}

DeployTypeOK ==
    /\ deployment \in [Rows -> {"absent", "running", "failed"} \cup Completed]
    /\ env \in [Rows -> Envs \cup {NoEnv}]
    /\ live \in Dirs
    /\ release \in [Rows -> Dirs]
    /\ previous \in Dirs
    /\ pre \in [Rows -> Dirs]
    /\ phase \in {"idle"} \cup DeploySteps \cup RollbackSteps \cup Undos
    /\ stage \in Envs \cup {NoEnv}
    /\ dep \in Rows \cup {None}
    /\ target \in Rows \cup {None}
    /\ backedUp \in BOOLEAN
    /\ rolledBackAll \in BOOLEAN
    /\ report \in {"none", "succeeded", "rolled_back", "rollback_failed"}
    /\ before \in Dirs
    /\ content \in [Rows -> Dirs]
    /\ served \in [Rows -> Dirs]
    /\ made \subseteq Rows
    /\ lost \subseteq Rows
    /\ intact \in BOOLEAN
    /\ faults \in 0..MaxFaults

DeployInit ==
    /\ deployment = [d \in Rows |-> "absent"]
    /\ env = [d \in Rows |-> NoEnv]
    /\ live \in {Empty, [f \in Files |-> Base]}
    /\ release = [d \in Rows |-> Empty]
    /\ previous = Empty
    /\ pre = [d \in Rows |-> Empty]
    /\ phase = "idle"
    /\ stage = NoEnv
    /\ dep = None
    /\ target = None
    /\ backedUp = FALSE
    /\ rolledBackAll = TRUE
    /\ report = "none"
    /\ before = live
    /\ content = [d \in Rows |-> Empty]
    /\ served = [d \in Rows |-> Empty]
    /\ made = {}
    /\ lost = {}
    /\ intact = TRUE
    /\ faults = 0

-----------------------------------------------------------------------------
(* Directories.                                                            *)

\* The directory dst after the files fs of src were copied into it.
Merged(src, dst, fs) ==
    [f \in Files |-> IF f \in fs /\ src[f] # None THEN src[f] ELSE dst[f]]

\* The directory after the files fs were removed from it.
Without(dir, fs) == [f \in Files |-> IF f \in fs THEN None ELSE dir[f]]

\* copyTree, when it copies and when it stops half-way.  It also succeeds when
\* its own Exists fails, having copied nothing.
CopyTree(src, dst) == Merged(src, dst, Files)
Copying(src, dst) == {Merged(src, dst, fs) : fs \in SUBSET Files}

\* Remove, when it stops half-way.
Removing(dir) == {Without(dir, fs) : fs \in SUBSET Files}

-----------------------------------------------------------------------------
(* The operation engine around the steps.                                  *)

\* The first Undo after a step failed: the failed step is included.
UndoOf(p) ==
    CASE p = "precheck" -> "undo_precheck"
      [] p \in {"fetch", "test"} -> "undo_fetch"
      [] p \in {"preserve", "activate", "health", "complete"} -> "undo_deploy"
      [] p \in {"set_aside", "restore", "supersede", "record"} -> "undo_restore"
      [] OTHER -> "conclude"

Fail == phase' = UndoOf(phase)

\* A step goes on, or fails for want of a disk or a database.
NoFault == UNCHANGED faults
Fault == faults < MaxFaults /\ faults' = faults + 1
TwoFaults == faults + 1 < MaxFaults /\ faults' = faults + 2

\* A cancellation is noticed at the boundary before a step.
Stop ==
    /\ \/ phase \in {"precheck", "locate", "set_aside"} /\ phase' = "conclude"
       \/ phase = "fetch" /\ phase' = "undo_precheck"
       \/ phase \in {"test", "preserve"} /\ phase' = "undo_fetch"
       \/ phase \in {"health", "complete"} /\ phase' = "undo_deploy"
       \/ phase = "supersede" /\ phase' = "undo_restore"
    /\ UNCHANGED <<deployRowVars, dirVars, deployRunVars, deployObsVars, faults>>

\* The variables of a run go out of scope.
ClearDeploy ==
    /\ phase' = "idle"
    /\ stage' = NoEnv
    /\ dep' = None
    /\ target' = None
    /\ backedUp' = FALSE
    /\ rolledBackAll' = TRUE
    /\ previous' = Empty

\* markRolledBack, after the last Undo.
Conclude ==
    /\ phase = "conclude"
    /\ report' = IF rolledBackAll THEN "rolled_back" ELSE "rollback_failed"
    /\ ClearDeploy
    /\ UNCHANGED <<deployRowVars, live, release, pre, before, content, served, made, lost, intact,
                   faults>>

\* The process ends; nothing of the run is undone.
Crash ==
    /\ phase # "idle"
    /\ Fault
    /\ ClearDeploy
    /\ report' = "none"
    /\ lost' = lost \cup ({dep} \ {None})
    /\ intact' = FALSE
    /\ UNCHANGED <<deployRowVars, live, release, pre, before, content, served, made>>

-----------------------------------------------------------------------------
(* deployment.deploy and deployment.production.                            *)

NewRow(d) == deployment[d] = "absent" /\ \A c \in 1..(d - 1) : deployment[c] # "absent"

ActiveIn(e) == {d \in Rows : deployment[d] = "running" /\ env[d] = e}

\* Validate: no other deployment of the environment is active.
ValidateDeploy(e) == ActiveIn(e) = {} /\ \E d \in Rows : NewRow(d)

Deploy(e) ==
    /\ phase = "idle"
    /\ ValidateDeploy(e)
    /\ phase' = "precheck"
    /\ stage' = e
    /\ before' = live
    /\ report' = "none"
    /\ UNCHANGED <<deployRowVars, dirVars, dep, target, backedUp, rolledBackAll, content, served,
                   made, lost, intact, faults>>

\* INSERT INTO deployments, under the unique index of active deployments.
Precheck ==
    /\ phase = "precheck"
    /\ \/ /\ ActiveIn(stage) = {}
          /\ \E d \in Rows :
                /\ NewRow(d)
                /\ deployment' = [deployment EXCEPT ![d] = "running"]
                /\ env' = [env EXCEPT ![d] = stage]
                /\ dep' = d
          /\ phase' = "fetch"
          /\ NoFault
       \/ Fail /\ Fault /\ UNCHANGED <<deployRowVars, dep>>
    /\ UNCHANGED <<dirVars, stage, target, backedUp, rolledBackAll, deployObsVars>>

\* Some of the files of the new release, or all of them.
Fetch ==
    /\ phase = "fetch"
    /\ \E fs \in SUBSET Files :
          release' = [release EXCEPT ![dep] = [f \in Files |-> IF f \in fs THEN dep ELSE None]]
    /\ phase' = "test" \/ Fail
    /\ UNCHANGED <<deployRowVars, live, previous, pre, deployRunVars, deployObsVars, faults>>

\* BUILD does nothing; TEST refuses an empty release.
Test ==
    /\ phase = "test"
    /\ \/ release[dep] # Empty /\ phase' = "preserve"
       \/ Fail
    /\ UNCHANGED <<deployRowVars, dirVars, deployRunVars, deployObsVars, faults>>

\* DEPLOY, first part: what is live is copied and removed; an error of Exists
\* counts as "there is none".  The copy may fail (the disk, or the limits on a
\* release) or copy nothing, and the removal may fail.
Preserve ==
    /\ phase = "preserve"
    /\ \/ /\ live # Empty
          /\ previous' = CopyTree(live, previous)
          /\ backedUp' = TRUE
          /\ \/ live' = Empty /\ phase' = "activate" /\ NoFault
             \/ live' \in Removing(live) /\ Fail /\ Fault
          /\ UNCHANGED intact
       \/ /\ live # Empty
          /\ backedUp' = TRUE
          /\ \/ live' = Empty /\ phase' = "activate" /\ Fault
             \/ live' \in Removing(live) /\ Fail /\ TwoFaults
          /\ intact' = FALSE
          /\ UNCHANGED previous
       \/ /\ live # Empty
          /\ previous' \in Copying(live, previous)
          /\ Fail
          /\ Fault
          /\ intact' = FALSE
          /\ UNCHANGED <<live, backedUp>>
       \/ /\ phase' = "activate"
          /\ IF live = Empty THEN NoFault ELSE Fault
          /\ intact' = (intact /\ live = Empty)
          /\ UNCHANGED <<live, previous, backedUp>>
    /\ UNCHANGED <<deployRowVars, release, pre, stage, dep, target, rolledBackAll, report,
                   before, content, served, made, lost>>

\* DEPLOY, second part.
Activate ==
    /\ phase = "activate"
    /\ \/ live' = CopyTree(release[dep], live) /\ phase' = "health" /\ NoFault
       \/ UNCHANGED live /\ phase' = "health" /\ Fault
       \/ live' \in Copying(release[dep], live) /\ Fail /\ Fault
    /\ UNCHANGED <<deployRowVars, release, previous, pre, deployRunVars, deployObsVars>>

HealthCheck ==
    /\ phase = "health"
    /\ phase' = "complete" \/ Fail
    /\ UNCHANGED <<deployRowVars, dirVars, deployRunVars, deployObsVars, faults>>

\* COMPLETE, the row.
Complete ==
    /\ phase = "complete"
    /\ \/ /\ deployment' = [deployment EXCEPT ![dep] = "succeeded"]
          /\ content' = [content EXCEPT ![dep] = release[dep]]
          /\ served' = [served EXCEPT ![dep] = live]
          /\ made' = made \cup {dep}
          /\ phase' = "prune"
          /\ NoFault
       \/ Fail /\ Fault /\ UNCHANGED <<deployment, content, served, made>>
    /\ UNCHANGED <<env, dirVars, deployRunVars, report, before, lost, intact>>

Newer(d) == {c \in Rows : d < c /\ deployment[c] \in Completed}

\* Mutant: one release too many is pruned.
OldOffByOne == {d \in Rows : deployment[d] \in Completed /\ Cardinality(Newer(d)) + 1 >= Keep}

\* ORDER BY created_at DESC OFFSET keepReleases
Old == {d \in Rows : deployment[d] \in Completed /\ Cardinality(Newer(d)) >= Keep}

\* COMPLETE, the rest: remove old releases and the preserved tree, ignoring
\* errors.
Prune ==
    /\ phase = "prune"
    /\ \/ /\ release' = [d \in Rows |-> IF d \in Old \ {dep} THEN Empty ELSE release[d]]
          /\ NoFault
       \/ /\ \E gone \in [Old \ {dep} -> SUBSET Files] :
                release' = [d \in Rows |-> IF d \in Old \ {dep}
                                           THEN Without(release[d], gone[d]) ELSE release[d]]
          /\ Fault
    /\ report' = "succeeded"
    /\ ClearDeploy
    /\ UNCHANGED <<deployRowVars, live, pre, before, content, served, made, lost, intact>>

\* Mutant: the preserved tree is copied over the new release.
UndoDeployMerging ==
    /\ phase = "undo_deploy"
    /\ phase' = "undo_fetch"
    /\ live' = IF backedUp THEN CopyTree(previous, live) ELSE Empty
    /\ UNCHANGED <<deployRowVars, release, previous, pre, deployRunVars, deployObsVars, faults>>

UndoDeploy ==
    /\ phase = "undo_deploy"
    /\ phase' = "undo_fetch"
    /\ \/ /\ live' = IF backedUp THEN CopyTree(previous, Empty) ELSE Empty
          /\ NoFault
          /\ UNCHANGED <<rolledBackAll, intact>>
       \/ /\ backedUp
          /\ live' = Empty
          /\ Fault
          /\ intact' = FALSE
          /\ UNCHANGED rolledBackAll
       \/ /\ live' \in Removing(live) \cup (IF backedUp THEN Copying(previous, Empty) ELSE {})
          /\ Fault
          /\ rolledBackAll' = FALSE
          /\ intact' = FALSE
    /\ UNCHANGED <<deployRowVars, release, previous, pre, stage, dep, target, backedUp, report,
                   before, content, served, made, lost>>

UndoFetch ==
    /\ phase = "undo_fetch"
    /\ phase' = "undo_precheck"
    /\ \/ release' = [release EXCEPT ![dep] = Empty] /\ NoFault /\ UNCHANGED rolledBackAll
       \/ /\ \E left \in Removing(release[dep]) : release' = [release EXCEPT ![dep] = left]
          /\ Fault
          /\ rolledBackAll' = FALSE
    /\ UNCHANGED <<deployRowVars, live, previous, pre, stage, dep, target, backedUp,
                   deployObsVars>>

\* Mutant: the row keeps its status.
UndoPrecheckNothing ==
    /\ phase = "undo_precheck"
    /\ phase' = "conclude"
    /\ UNCHANGED <<deployRowVars, dirVars, deployRunVars, deployObsVars, faults>>

\* UPDATE ... WHERE id = $1 AND status = 'running', ignoring an error.
UndoPrecheck ==
    /\ phase = "undo_precheck"
    /\ phase' = "conclude"
    /\ \/ /\ dep # None
          /\ NoFault
          /\ deployment' = [deployment EXCEPT ![dep] = IF @ = "running" THEN "failed" ELSE @]
          /\ UNCHANGED lost
       \/ dep = None /\ NoFault /\ UNCHANGED <<deployment, lost>>
       \/ dep # None /\ Fault /\ lost' = lost \cup {dep} /\ UNCHANGED deployment
    /\ UNCHANGED <<env, dirVars, deployRunVars, report, before, content, served, made, intact>>

-----------------------------------------------------------------------------
(* deployment.rollback.                                                    *)

Rollback(t) ==
    /\ phase = "idle"
    /\ deployment[t] # "absent"
    /\ \E d \in Rows : NewRow(d)
    /\ phase' = "locate"
    /\ target' = t
    /\ before' = live
    /\ report' = "none"
    /\ UNCHANGED <<deployRowVars, dirVars, stage, dep, backedUp, rolledBackAll, content, served,
                   made, lost, intact, faults>>

\* locate-release
Locate ==
    /\ phase = "locate"
    /\ \/ deployment[target] \in Completed /\ release[target] # Empty /\ phase' = "set_aside"
       \/ Fail
    /\ UNCHANGED <<deployRowVars, dirVars, deployRunVars, deployObsVars, faults>>

\* activate-release, first part: the same; what an earlier run left in the
\* directory is merged.
SetAside ==
    /\ phase = "set_aside"
    /\ \/ /\ live # Empty
          /\ \/ /\ pre' = [pre EXCEPT ![target] = CopyTree(live, @)]
                /\ \/ live' = Empty /\ phase' = "restore" /\ NoFault
                   \/ live' \in Removing(live) /\ Fail /\ Fault
             \/ /\ UNCHANGED pre
                /\ \/ live' = Empty /\ phase' = "restore" /\ Fault
                   \/ live' \in Removing(live) /\ Fail /\ TwoFaults
          /\ intact' = (intact /\ pre'[target] = live)
       \/ /\ live # Empty
          /\ \E dir \in Copying(live, pre[target]) : pre' = [pre EXCEPT ![target] = dir]
          /\ Fail
          /\ Fault
          /\ intact' = FALSE
          /\ UNCHANGED live
       \/ /\ phase' = "restore"
          /\ IF live = Empty THEN NoFault ELSE Fault
          /\ intact' = FALSE
          /\ UNCHANGED <<live, pre>>
    /\ UNCHANGED <<deployRowVars, release, previous, deployRunVars, report, before, content,
                   served, made, lost>>

\* activate-release, second part.
Restore ==
    /\ phase = "restore"
    /\ \/ live' = CopyTree(release[target], live) /\ phase' = "supersede" /\ NoFault
       \/ UNCHANGED live /\ phase' = "supersede" /\ Fault
       \/ live' \in Copying(release[target], live) /\ Fail /\ Fault
    /\ UNCHANGED <<deployRowVars, release, previous, pre, deployRunVars, deployObsVars>>

\* record, first statement: the environment's other deployments are rolled
\* back.
Supersede ==
    /\ phase = "supersede"
    /\ \/ /\ deployment' = [d \in Rows |->
                IF deployment[d] = "succeeded" /\ env[d] = env[target] /\ d # target
                THEN "rolled_back" ELSE deployment[d]]
          /\ phase' = "record"
          /\ NoFault
       \/ Fail /\ Fault /\ UNCHANGED deployment
    /\ UNCHANGED <<env, dirVars, deployRunVars, deployObsVars>>

\* record, second statement: a row for the rollback.  The copy of the old live
\* tree is removed whether or not the row was inserted.
Record ==
    /\ phase = "record"
    /\ pre' = [pre EXCEPT ![target] = Empty]
    /\ \/ /\ \E d \in Rows :
                /\ NewRow(d)
                /\ deployment' = [deployment EXCEPT ![d] = "succeeded"]
                /\ env' = [env EXCEPT ![d] = env[target]]
                /\ content' = [content EXCEPT ![d] = release[target]]
                /\ served' = [served EXCEPT ![d] = live]
          /\ report' = "succeeded"
          /\ ClearDeploy
          /\ NoFault
          /\ UNCHANGED intact
       \/ /\ Fail
          /\ Fault
          /\ intact' = FALSE
          /\ UNCHANGED <<deployRowVars, content, served, report, deployRunVars, previous>>
    /\ UNCHANGED <<live, release, before, made, lost>>

\* The old live tree is put back if there is a copy; errors of Exists and of the
\* removal are ignored.
UndoRestore ==
    /\ phase = "undo_restore"
    /\ phase' = "conclude"
    /\ \/ /\ live' = IF pre[target] = Empty THEN live ELSE CopyTree(pre[target], Empty)
          /\ NoFault
          /\ UNCHANGED <<rolledBackAll, intact>>
       \/ /\ pre[target] # Empty
          /\ Fault
          /\ intact' = FALSE
          /\ \E dir \in Removing(live) :
                \/ live' \in {dir, CopyTree(pre[target], dir)} /\ UNCHANGED rolledBackAll
                \/ live' \in Copying(pre[target], dir) /\ rolledBackAll' = FALSE
    /\ UNCHANGED <<deployRowVars, release, previous, pre, stage, dep, target, backedUp, report,
                   before, content, served, made, lost>>

-----------------------------------------------------------------------------

DeployNext ==
    \/ \E e \in Envs : Deploy(e)
    \/ Precheck \/ Fetch \/ Test \/ Preserve \/ Activate
    \/ HealthCheck \/ Complete \/ Prune
    \/ UndoDeploy \/ UndoFetch \/ UndoPrecheck
    \/ \E t \in Rows : Rollback(t)
    \/ Locate \/ SetAside \/ Restore \/ Supersede \/ Record \/ UndoRestore
    \/ Stop \/ Conclude \/ Crash

DeploySpec == DeployInit /\ [][DeployNext]_deployVars

-----------------------------------------------------------------------------
(* Properties.                                                             *)

\* "any later failure (including HEALTH_CHECK) restores it automatically ...
\* the project keeps serving the old version" (docs/DEPLOYMENTS.md): a run
\* that reports a complete rollback leaves the live tree it found.
FailureKeepsLive ==
    phase = "idle" /\ report = "rolled_back" => live = before

\* "copyTree copies every file under src to dst" (deployments.copyTree): every
\* file of the release of a completed deployment is live when it completes.
SucceededIsServed ==
    \A d \in Rows : deployment[d] \in Completed =>
        \A f \in Files : content[d][f] # None => served[d][f] = content[d][f]

\* Between runs the live tree is exactly the one that the newest successful
\* deployment left, or what the project came with if none has succeeded: through
\* failed, cancelled and rolled-back runs and whatever environments share the
\* tree, as long as every live tree was preserved whole (no copy of it failed or
\* copied nothing, was merged into an older one or was removed before it was
\* needed).  SucceededIsServed asks whether that tree was the release.
LiveIsNewest ==
    intact /\ phase = "idle" =>
        LET succeeded == {d \in Rows : deployment[d] = "succeeded"} IN
        /\ \A d \in succeeded : (\A c \in succeeded : c <= d) => live = served[d]
        /\ succeeded = {} => live \in {Empty, [f \in Files |-> Base]}

\* "One active deployment per project/environment" (docs/DEPLOYMENTS.md), and
\* every end of a run frees the environment, except a crash or the loss of the
\* write that closes its row.
ActiveRowOwned ==
    \A d \in Rows :
        deployment[d] = "running" =>
            /\ ActiveIn(env[d]) = {d}
            /\ d = dep \/ d \in lost

\* "The last 5 releases are kept" (docs/DEPLOYMENTS.md): of the newest
\* completed deployments those that fetched a release can be restored to
\* exactly what they activated.  (A rollback takes a place without a release.)
NewestRestorable ==
    \A d \in made : Cardinality(Newer(d)) < Keep => release[d] = content[d]
=============================================================================
