# Nodera: formal models of the control plane

Nodera is a multi-tenant infrastructure control plane: a Go API (`src/api`), a
node agent (`src/api/cmd/agent`) and a web UI (`src/web`) over PostgreSQL.  This
directory holds TLA+ models of its core, TLC configurations that check them on
small instances, and TLAPS proofs of their most important invariants.  Paths
below are relative to `src/api/internal` unless they say otherwise.

`PROJECT.json` maps every definition to the lines it models and lists the runs,
mutants, findings, hazards and theorems.

## 1. The system

### Parts that keep state and how they interact

| part | state | operations | hard behaviour |
|---|---|---|---|
| **job queue** (`jobs`) | `jobs` rows (status, attempts, priority) | Enqueue, Cancel, Retry; worker: claim, execute, finish/retry; RecoverInterrupted at start-up | several processes, unguarded completion writes, crash and shutdown between handler and write |
| **operation engine** (`ops`) | `jobs.cancel_requested/rolled_back`, `job_steps` | Submit, RequestCancel, `Engine.execute`: validate, steps, rollback, audit, notify | every statement can be lost when a context ends; rollback of half-done steps |
| **tool gateway** (`tools`) | `approvals`, `organization_tool_settings` | Execute, DecideApproval, CancelApproval, SetApprovalTTL, RunExpirySweep | check-then-act between SELECT and UPDATE, expiry, crash while executing |
| **node agents** (`nodeagent`, `nodeagent/agent`, `cmd/agent`) | `node_agents`, `node_agent_registrations`, `node_agent_commands`, the agent's memory | Enroll, Revoke, Authenticate, Heartbeat, Poll, ReportResult, Dispatch/WaitResult, Sweep; agent Step | lost and late messages, agent restarts, three different timeouts, revocation racing everything |
| **deployments** | `deployments`, release directories, the live tree | deploy and rollback operations (steps with Undo), prune | partial copies, restore on failure, one live tree for all environments |
| **backups** (`backups`, `providers/local`, `providers/offsite`) | `backups`, `restores`, `backup_policies`, archives and their checksum files | snapshot, verify, restore, delete, RunDuePolicies, EnforceRetention | the worker and the retention loop on the same rows; half uploads; a restore undone from its own safety snapshot; several schedulers |
| **provisioning, projects, wordpress** | `projects`, `project_databases`, secrets, the workspace, containers, databases | provision, delete, clone, update (step lists with Undo) | idempotence over partial failure, recreating a container, deletion that stops half-way |
| **site migrations** (`sitemig`) | `site_migrations`, the uploaded archive, staging files and database | Create, UploadSource, plan, run, cutover, rollback | upload beside an operation, crash during cutover, status writes whose error is dropped |
| **monitoring, incidents** (with `notifications`, `logs`) | `monitors`, `alert_rules`, `incidents` | RunNow, RunDue, Evaluate, Transition, Sweep | stale results, evaluation against user transitions, a dedupe index |
| **network** (`network`, `providers/local/dns.go`) | `domains`, `dns_records`, `certificates`, keys in the secrets, the in-process zones | records, Sync, CheckPropagation, issue, renew, revoke, remove, Sweep | two stores updated one after the other, ids that start again after a restart, the renewal sweep beside operations |
| **AI plans** (`aiplans`) | `ai_plans` with their steps | Propose, Decide, RunStep | calls made inside a transaction that may be lost |
| **AI agents and models** (`agents`, `ai`) | `agents`, `ai_profiles`, `ai_providers`, `ai_models` | edits, Run, ExecuteTool, Chat | configuration read, then acted on |
| **identity** | `users`, `sessions`, `password_reset_tokens`, `api_tokens`, `service_accounts` | Login, ChangePassword, ResetPassword, revocation, tokens | two requests with one link; a login beside a password change |
| **tenancy, rbac, platformauth** | `organizations`, members, roles, grants, platform administrators | membership, roles, DeleteOrganization, Grant, Revoke | check-then-act across requests, cascades of the schema |
| **infrastructure, applications** | `nodes`, `applications` | registration, edits, reports, retirement; heartbeats, provisioning and adoption write the same rows | read-then-write without a guard in the write |
| secrets, audit, flags, dashboard, logs | rows of their own tables | single-statement writes, reads | little beyond one statement |

Interaction.  Every long action is an *operation*: an HTTP handler submits it,
`ops.Engine` inserts a job, the worker of the API process claims and runs it.
Dangerous operations (project.delete, backup.restore, deployment.production,
migration.cutover ...) can only be submitted by the tool gateway after a human
approved them.  In production the steps reach Docker and MariaDB by dispatching
signed commands to the node agent, which polls for them.  Background loops of
the API process (`cmd/server/main.go`): job worker (2 s), approval expiry
(5 min), node sweep (30 s), scheduled backups, retention and certificates
(1 min), monitors and alert evaluation (15/30 s).  One API instance is the
supported deployment (`docs/ARCHITECTURE.md`), though the claim is written for
several.

### What makes each part correct

* jobs: one runner per job, bounded attempts, final means final, every job ends;
* operations: success means all effects, rollback is reported truthfully and in
  reverse order, leftovers are listed, failures are announced;
* approvals: at most one execution, only of what was approved in time;
* node agents: a command is executed at most once, only while its result is
  awaited, and its waiter is told the truth; one live agent per node; revocation
  is final;
* deployments: what a success activated is its whole release, and it is served
  until the next one; failure restores it; recent releases stay restorable;
* backups: the safety snapshot of an unfinished restore is kept, an undone
  restore puts back what was there, a tampered remote archive is refused, a row does not claim a missing archive for ever, a period is backed
  up once;
* sites: an active project is whole; an undone operation has put back what it
  changed, a database included; a deleted project leaves nothing running; a
  failed deletion can be retried;
* incidents: a lasting outage keeps raising one, a cleared one resolves;
* network: a served certificate has its key, one that is due is renewed, a
  request on records that nothing overlapped has done what its success says;
* plans, agents: an approved plan is followed step by step; an agent does only
  what its configuration allowed at some moment of the request;
* accounts: nobody gains a permission that nobody can grant any more; disabling an
  account cuts it off; the last owner and the last administrator stay; a reset
  link works once;
* registries: a retired node stays retired.

## 2. Modules

| module | models | checked by |
|---|---|---|
| `JobQueue` | the jobs table and the workers of any number of processes; the handler is its outcome. Also the *abstract specification* of the engine | `MCControl`, `JobQueueProofs` |
| `Operations` | `ops.Engine.execute` statement by statement on the worker of one process; refines `JobQueue` | `MCHosts`, `MCOperations`, `OperationsProofs` |
| `Approvals` | the tool gateway of one organization, one action per SQL statement of each call | `MCControl`, `ApprovalsProofs` |
| `NodeAgent` | control plane and agent of one node, and the requests between them | `MCControl`, `MCHosts`, `MCNodeAgent`, `HostsProofs` |
| `Deployments` | deploy and rollback of one project: table, directories, steps and their Undos | `MCHosts`, `MCDeployments`, `HostsProofs` |
| `Backups` | backups, restores and archives of one project; worker and retention loop | `MCServices`, `MCMaintenance`, by itself (`BackupsTampered.cfg`), `BackupsProofs` |
| `Schedules` | one backup policy and the loops of several processes | `MCServices`, `HostingProofs` |
| `Sites` | provision, delete, clone, update and migration of one WordPress project | `MCServices`, by itself (`SitesDelete.cfg`, `SitesBuild.cfg`), `SitesProofs` |
| `Certificates` | the certificates of one domain, the worker and the sweep | `MCServices`, `MCMaintenance`, `HostingProofs` |
| `Records` | the DNS records of one domain and the in-process provider | `MCServices`, by itself (`RecordsCheck.cfg`), `HostingProofs` |
| `Monitoring` | one monitor, its rules and incidents; the loop and the requests | `MCMaintenance` |
| `Plans` | one AI plan | `MCServices`, `AccountsProofs` |
| `Agents` | one agent, one profile and the registry of models | `MCServices`, `AccountsProofs` |
| `Members` | one organisation: members, roles, tokens, service account, administrators | `MCServices`, by itself (`Members*.cfg`), `AccountsProofs` |
| `Sessions` | one account: password, sessions, reset links | `MCServices`, `AccountsProofs` |
| `Inventory` | a node and an application, and everything that writes their rows | `MCServices`, by itself (`InventoryRetired.cfg`), `HostingProofs` |

`MCControl`, `MCHosts`, `MCServices` and `MCMaintenance` hold several modules that
share no state a property speaks of: the initial state chooses one, and the
behaviour is one of that module alone, so the states add up and are not
multiplied.  `MCControl` looks at what waits (jobs, approvals, enrolments and
commands, with their liveness), `MCHosts` at work in progress (operations,
deployments, commands on an agent), `MCServices` at the services above them and
`MCMaintenance` at the background loops.  Where the modules are extended together,
the engine keeps the short names (`Init`, `Next`, `vars`), and the others say
whose they are (`DeployInit`, `GateNext`, `channelVars`).

Conventions.  Rows are functions from row identifiers, `"absent"` before the
INSERT; rows ordered by `created_at` are numbered.  An action is one SQL
statement, one transaction, or a run of code nothing else can observe.  A
variable commented *observation* is read by no action's guard or update of
program state; it exists to state properties.  A definition commented
*Mutant* is a plausible mistake in the definition that follows it; it is used
only to show that the property it names can fail.

**JobQueue.** `status`, `attempts` are the columns; `inst[w]` is the process
(up, stopping after SIGTERM, down), `holds[w]`/`att[w]` the job and the attempts
its claim returned.  `Complete` writes `WHERE id = $1` regardless of the row, as
the code does, and loses the write while stopping or (bounded by `MaxFaults`)
in an outage.  `StatusRetrying` is declared but never written by the code.

**Operations.** `pc` walks through `execute`; `ctx`, `rbCtx` are the job's and
the rollback's contexts (a statement under a finished context is lost);
`effect[j]` is the outside world; `step[j]` the `job_steps` rows.  Recovery is
two statements, and a crash may come between them.  Only operations with steps
are modelled (an operation with Execute/Rollback is one step with one Undo).

**Approvals.** `approval[r]` is the row of a request, `call[c]` a call in flight; `Begin` is `expirePending`,
`Load` the friendly SELECT, `Approve`/`Reject`/`CancelPending` the conditional UPDATE,
`Execute` the handler, `Record` the final UPDATE; `Abort` stands for a crash, a
panic or a failed statement at any of them.  Time is an integer clock; the TTL
override is that of the gated tools.  One organization; permissions are
constants.

**NodeAgent.** `agent`, `registration` and `cmd` are the rows of agents, tokens and
commands.  Requests are records in `inflight`; its field `live` says whether the agent
still waits for the reply.  `executions` observes how often a command was executed.  Signatures are taken as sound, a repeated nonce is
refused, clocks agree.  `EnqueueAs` is a Dispatch whose waiter gives up at once.
Left out: metric samples, nonce pruning, secret scrubbing, rate limits, the
`degraded` and `decommissioned` statuses; `nodes.status` is written in the same
step as the agent's; how long an agent was silent before the sweep is open.

**Deployments.** `deployment` and `env` are the columns, `phase` walks through the
steps of the run.  A directory maps file names to the deployment that wrote the
file, and copying merges, as `copyTree` does.  A copy may stop half-way, and it
may also succeed having copied nothing, when the `Exists` before it fails and its
error is dropped.  `served` is what was live when a row was completed, `content`
the release it stands for.  `UndoOf` is where the engine
starts unwinding after a failed step.  The parts of a step that fail half-way
leave every intermediate directory; a crash after them covers a crash inside.
The single worker runs one operation at a time, so runs do not interleave.

**Backups.** `bStatus`, `bRef`, `expired` and `rStatus`, `rSafety` are the rows of
`backups` and `restores`; `file` holds the local copy, the remote copy and the
checksum file of each archive.  The worker (`pc`) runs one operation: `Snap*` is
`Service.snapshot`, which creation and the safety snapshot of a restore share,
`Restore*`, `Verify*` and `Delete*` the steps of the other operations, `Undo*`
their Undos.  `Retain`, `SweepFile`, `SweepRow` are the retention loop.  Every
read and the write that follows it are separate actions.  Any call may fail, the
job's context may end, the process may crash.  `Tamper` changes the stored files
from outside: an archive, and at the remote destination also the checksum file
beside it, or both alike (`Replaced`); `late` observes that a pair was replaced
after the restore that uses it had hashed the archive against the row.

**Schedules.** Time counts fractions of the interval.  A pass takes the time once,
reads what is due (`ReadPolicies`), then submits and stamps (`SubmitDue`,
`Stamp`); two processes pass at the same time.

**Sites.** `st` is the record of everything outside the run: project and migration
status, files, database, password, container, image, staging.  `op`, `k`, `mode`
walk through the step list of the running operation, forwards or undoing; an
action is one step, with one disjunct for each point at which it can stop; where
the code drops the error of a call, the step or the Undo also succeeds without it
(`Unseen`: the rows and the password of a deletion, the row of a database that is
undone).
`mem` is what the closures of the steps remember, which a crash forgets.  `torn` and
`spoilt` are observations of what went wrong before: `torn` that a crash, a failed
Undo or an unwritten status left something half done, `spoilt` that a
`migration.rollback`, which has no Undo, failed half-way through the data.

**Certificates.** A row, its key and the domain's `ssl_status` are written by three
actions; the sweep's four statements run beside them.  `NewDay` is the change of
the date in the idempotency key of renewals.

**Records.** A request is `call[q]`; two overlap.  The provider is a map from
records to ids with a counter; `RestartApi` empties it and resets the counter.
An UPDATE whose error the code ignores (each row's id in Sync, the last
`dns_status`) may fail, and the request still returns success: `whole` and
`written` observe whether all of them were done.

**Monitoring.** The loop claims (`RunDue`), checks, records, evaluates rule by rule
and sweeps; `RunNow`, `Transition`, and monitor and rule changes run beside it.

**Plans.** `RunSelect` takes the lock on the row, `RunCall` makes the call, `RunRecord`
commits; `RunLost` loses the transaction after the call.

**Agents, Members, Sessions, Inventory.** Requests of two callers, each an action per
statement: what was read waits in the request (`call`, `caller`, `visit`) until
the write.  Foreign keys act with the statement that touches them.

## 3. Runs

| run | bounds | shows |
|---|---|---|
| `control`: jobs | 3 jobs (one with 2 attempts and higher priority, one unhandled), 1 or 2 processes, 2 exits, 2 restarts, 1 retry, 1 lost write | `OneRunner`, `AttemptsBounded`, `FinalStaysFinal`; with one process `EveryJobFinishes` |
| `control`: approvals | a gated and a direct request, 2 concurrent calls, 3 actors, clock to 3 | `AtMostOnce`, `OnlyApprovedRuns`, `NoLateDecision`, `DecisionStands`, `PendingEnds` |
| `control`: enrolment | 2 agents, 1 command; 2 tokens and no loss, or 1 token and 1 loss | `OneAgent`, `CommandsEnd` |
| `hosts`: operations | 3 steps, the middle one without Undo; 1 row (of either kind), 1 retry, 1 exit, 2 timeouts | `SucceededIsComplete`, `LeftoversListed`, `RolledBackIsClean`, `UndoInReverse`, `ImplementsJobQueue` |
| `hosts`: deployments | 3 rows, 2 files, 2 environments, 2 releases kept, 2 crashes or failures | `LiveIsNewest`, `ActiveRowOwned`, `NewestRestorable` |
| `hosts`: commands | 1 agent, 2 commands, polls of 2, 1 crash or loss | `ExecutedOnce`, `ResultToldTruth`, `RunIsAwaited` |
| `services`: backups | 2 backups, 1 restore, 2 edits, 1 fault, local or off-site store | `SafetyKept`, `TamperedRefused`, `RolledBackRestores` |
| `services`: sites | 6 operations, 2 faults, 1 upload | `ActiveIsWhole`, `UndoneIsRestored`, `DeletedLeavesNothing` |
| `services`: network | 2 certificates, 2 serials, 1 fault; 3 records (one CNAME) of which 2 fit, 3 requests, 1 restart or failure | `LiveHasKey`; `LoneRequestHolds` |
| `services`: plans, schedules | 3 steps, 1 lost transaction; 2 periods of 2 ticks, 2 saves, 1 stop | `PlanFollowed`; `OncePerPeriod` |
| `services`: members, sessions | 2 users, 1 token, 4 requests; 2 sessions, 1 link, 3 passwords | `UnmanagedStays`; `ResetOnce` |
| `services`: agents, inventory | 2 requests each, overlapping | `ActsAsConfigured`; `RetirementSettles` |
| `maintenance` | 1 backup, 1 fault; 2 rules, 3 incidents, 3 requests, 2 changes of the target; 1 certificate, 3 serials, 1 fault | `GhostEnds`; `OutageRaises`, `ClearedResolves`; `DueIsRenewed` |
| `sites_delete` | 2 operations, 1 fault | violates `FailedDeletionIsRetryable` |
| `operations_retry` | operations as in hosts, no exits, no timeouts | violates `CancelledOnlyIfAsked` |
| `operations_timeout` | operations as in hosts, 1 timeout | violates `FailureAlwaysNotified` |
| `deployments_failure` | deployments as in hosts | violates `FailureKeepsLive` |
| `node_revoke` | 1 agent, 1 command | violates `RevokedStaysOut` |
| `node_expired` | 1 agent, 1 command, no loss | violates `ExpiredWasNotExecuted` |
| `records_check` | records as in services, 2 requests, 2 faults | violates `CheckIsTruthful` |
| `inventory_retired` | 2 requests | violates `DecommissionIsTerminal` |

Seven configurations beside these show more disagreements of the code with its
docs and comments (`tlc -config <configuration> <module>`); each ends in a violation.

| configuration | module | bounds | violates |
|---|---|---|---|
| `DeploymentsSilent.cfg` | `MCDeployments` | deployments as in hosts, 1 fault | `SucceededIsServed` |
| `BackupsTampered.cfg` | `Backups` | 2 backups, 1 restore, 1 edit, 1 fault, off-site | `TamperedStaysOut` |
| `SitesBuild.cfg` | `Sites` | 1 operation, 1 fault | `UndoneBuildLeavesNoDatabase` |
| `MembersAccount.cfg` | `Members` | 2 users, 1 token, 3 requests | `DisabledIsCutOff` |
| `MembersRole.cfg` | `Members` | 2 users, 1 token, 3 requests | `DeletionTakesNoRole` |
| `MembersOwner.cfg` | `Members` | 2 users, 1 token, 4 requests | `LastOwnerStays` |
| `MembersAdmin.cfg` | `Members` | 2 users, 1 token, 3 requests | `LastAdminStays` |

Why the bounds suffice for the cases of interest: two workers or two calls are
enough for every pairwise race, and the rows are independent except for the
claim's ORDER BY (three jobs); three steps give a step before, at and after the
one without Undo; two commands let one wait behind the other of its batch; three
deployments with two kept make pruning happen and let a rollback target be older
than what is live; two faults are needed for a failed rollback to find the copy
of an earlier failed one.  File names and environments are symmetric in the
deployment runs (no liveness there); calls and agents are interchangeable too, and
`control`, which checks liveness, breaks that symmetry by order instead: a call
takes the first free place, and the first agent is enrolled before the second
(`InOrder`).  In `services`, two backups are the source
and the safety snapshot of one restore; six operations are a provisioning, the
three of a migration, a rollback and a deletion, and two faults a failing step
whose Undo fails as well; three passwords and two sessions let a reset, a change
and a login overlap; two overlapping requests are every pairwise race, and the
third one on records follows a race or a restart and repairs what it left.
In `maintenance` three incidents under two rules let an ended one be followed by
another of the same key, and three serials a failed renewal by a second.

Deadlock is not checked: each system may rest when every row has ended or a
bound is used up.

### Fairness

Only liveness runs use it.  *JobQueue*: the worker's ticker claims, handlers end
(they run under a timeout), a stopping process exits within 15 s
(`cmd/server/main.go`) and is restarted (`restart: unless-stopped`, compose
files); users owe nothing.  `EveryJobFinishes` is for one process: with two,
start-up recovery of one waits for it to restart (so `MCControl` states the
fairness of the queue for `i1` alone), and it excuses runs with a
lost write, after which a job stays `running` until the next restart.
*Approvals*: time passes and the sweep runs every 5 minutes; no call need ever
finish.  *NodeAgent*: time passes, the sweep runs, a waiting Dispatch polls;
nothing is owed by the agent or the network.
*Backups*: the worker goes on with its operation, the maintenance loop (1 min)
passes, retention periods end.  *Monitoring*: the loop passes again and again
over its monitors and rules (`runObservabilityLoop`, 15 and 30 s), hence strong
fairness of `RunDue` and `Evaluate`, which a crash or a busy loop interrupts; an
HTTP request ends; intervals elapse.  *Certificates*: the sweep passes
(`runNetworkSweep`), the worker claims what is queued, days pass; users owe
nothing, and the faults are bounded.

### Findings

1. `jobs.Retry` keeps `cancel_requested`: a job that was asked to stop, failed
   before it noticed and was retried is cancelled at its first step boundary,
   and can then not be retried (`operations_retry`).
2. A failure caused by the job's timeout is neither audited nor announced: both
   writes use the expired context (`operations_timeout`).
3. A deployment that cannot copy the live tree aside (I/O error, or a tree over
   copyTree's limits) removes the live tree in its rollback and reports a
   complete rollback (`deployments_failure`).
4. `Heartbeat` writes its status without looking at the row: racing a
   revocation it brings the agent back online (`node_revoke`).
5. A deletion that fails after its first step leaves the project `deleting`,
   which `Validate` refuses, although the comment on its steps promises `failed`
   and a retry (`sites_delete`).
6. A Dispatch is told "command expired before the agent executed it" of every
   command that ends `expired`, also of one that was delivered and executed and
   whose report came after the sweep or the revocation, or was lost
   (`node_expired`).
7. `copyTree` takes an error of `Exists` for an empty source: a deployment can
   succeed with none of its release live, or remove a live tree it has no copy of
   (`DeploymentsSilent.cfg`).
8. The off-site restore compares an archive with the checksum file beside it; a
   pair that is replaced after `verify-source-backup` compared the archive with
   the row agrees with itself and is extracted (`BackupsTampered.cfg`).
9. `EnsureDatabase` fails after its CREATE DATABASE: the Undo believes that the
   database is not its own and leaves it (`SitesBuild.cfg`).
10. `CheckPropagation` drops the error of its UPDATE: it returns success, and an
    earlier `ok` stays although records are not served (`records_check`).
11. Checks and writes of the accounts are separate statements: a token is stored
    for a service account that was disabled meanwhile (`MembersAccount.cfg`), a
    role that was assigned meanwhile is deleted with its grants
    (`MembersRole.cfg`), the last owner is removed by a request whose reads are out
    of date (`MembersOwner.cfg`), and revocations that overlap leave no
    administrator (`MembersAdmin.cfg`).
12. A status report that read a node before it was decommissioned puts it back in
    service (`inventory_retired`).

Where a passing property has a premise, that premise is the exact extent of such
a defect: `LeftoversListed` except lost bookkeeping writes (`blind`);
`RunIsAwaited` except the batch of an agent that was revoked; `ResultToldTruth`
speaks of results, and of an expired command only that no result follows (finding 6
is what it cannot say);
`LiveIsNewest` is about the tree that was live when the newest success completed,
which finding 7 says need not be its release, and excepts crashes and failed,
silent or merged copies that should preserve a live tree (`intact`: among them a
rollback whose `record` INSERT fails, which has already removed the copy its Undo
needs);
`ActiveRowOwned` except rows orphaned by a crash (`lost`), which then refuse
every later deployment of their environment; `NewestRestorable` notes that
rollback rows take one of the kept places without a release; `LiveHasKey` except
keys deleted by the Undo of an operation whose row was already written
(`undone`); the properties of `Sites` except after a crash, a failed Undo or an
unwritten status (`torn`), where what is left depends on which call was the last;
`ActiveIsWhole` also allows mixed data after a `migration.rollback` that failed
(`spoilt`).  The backup the migration then names need not hold the old site any
more: an upload that began before the cutover and records itself after the failed
rollback sets the migration back to `discovering`, whatever its status; it can be
planned, run and cut over again, and if that cutover is undone the data is again
what its own safety backup found, the mixed one;
`TamperedRefused` except an archive and a checksum file that were replaced together
after the archive was hashed against the row (`late`); `DeletedLeavesNothing` does
not promise that a deletion dropped the database and its password, nor that an
undone clone has no row of a database: the code drops those errors;
`PlanFollowed` allows one more approval per lost transaction, since approvals
have no idempotency key; `RetirementSettles` except the status reports of finding
12 that are still under way (an application also comes back by the upsert of its
name: `RetiredReturnsByOldReport`, proved and not run); `LoneRequestHolds` speaks of
requests that nothing overlapped (a Sync beside a delete may serve a record that
has no row) and that returned success, and of row ids and `dns_status` only if the
UPDATEs whose errors are dropped were done.  A delete that uses an id from before a
restart may take another record from the zone; the code promises nothing there
but that a later Sync pushes every row.

## 4. Proofs

TLAPS checks these for every value of the constants.

* `JobQueueProofs`: `TypeCorrect`, `OneRunnerHolds`, `AttemptsBoundedHolds`,
  `FinalStaysFinalHolds`.  None of the three properties is inductive alone.  The
  inductive invariant `IInv` conjoins `TypeOK`, `LifeCycle` (a process that is
  down or not deployed holds nothing), `OneRunner` (exclusive, and the holder's
  row is active with the claimed attempts: without it the unguarded completion
  could overwrite a final status), `AbsentUnused` (rows not inserted have no
  attempts) and `AttemptsBounded` (needs OneRunner, since a requeue compares the
  attempts the worker remembers).  All are conditional on `Supported`: one
  process, or none restarted; start-up recovery assumes it (`jobs/worker.go`).
* `ApprovalsProofs`: `TypeCorrect`, `AtMostOnceHolds`, `OnlyApprovedRunsHolds`,
  `NoLateDecisionHolds`, `DecisionStandsHolds`, for any number of concurrent
  calls.  The inductive invariant `AInv` says that a row is owned: a call past
  the UPDATE is the only one for its request, the row is `executing` while it
  runs, the handler was not called before it, the approver is a decider, and the
  call began in time; a row that is not approved was never run.

* `OperationsProofs`: `TypeCorrect`, `SucceededIsCompleteHolds`,
  `LeftoversListedHolds`, `RolledBackIsCleanHolds`, `UndoInReverseHolds`, for any
  number of steps and any set of them with an Undo, and `Refinement`.  `IInv` adds
  what each point of `execute` knows: the worker owns the row it runs (`OwnsRow`),
  which outcome is pending (`OutcomeFits`), where the loops stand (`LoopFits`),
  that the steps behind the worker took effect (`EffectsDone`), that a first run
  has no effect beyond the step it reached (`FirstRun`; a retry may find effects
  of an earlier run, hence the premise `runs <= 1`), that a step row is marked
  before its step runs and tells of the effect until it is undone (`Marked`), and
  that the rollback has tried every later Undo (`Tried`).  The refinement maps
  every action to a claim, a completion, a call, a recovery or a stutter of
  `JobQueue` with one process, so what `JobQueueProofs` shows of one process
  holds of the engine.
* `HostsProofs`, `NodeAgent`: `AgentTypeCorrect`, `ExecutedOnceHolds`, `ResultToldTruthHolds`,
  `RunIsAwaitedHolds`, `OneAgentHolds`, for any agents, commands and losses.
  `ChannelInv`: a command no poll has handed out is in no batch and was not run
  (`Unseen`), a batch holds unrun commands of its own agent (`InBatch`), a report
  on the way and a stored result are true (`Honest`), and a Dispatch inserts once
  (`Fresh`).  `AwaitInv` adds what ties a batch to its rows: a command that is held
  and not overdue is still open unless its agent was revoked (`Held`), an open
  command has an unanswered Dispatch (`Asked`), and an answer is the last word
  (`LastWord`).  `OneAgent` is inductive with the finiteness of the enrolled agents.
* `HostsProofs`, `Deployments`: `DeployTypeCorrect`, `ActiveRowOwnedHolds`,
  `NewestRestorableHolds`, `LiveIsNewestHolds`, for any files, environments and
  number of releases kept.  `RunRow` says which row the run has at each step,
  `InOrder` that it is the newest, `LiveKept` where the tree the run found is kept
  and what is live meanwhile, `MadeComplete` and `Cleared` that nothing of an
  earlier run is left.
* `BackupsProofs`: `TypeCorrect`, `SafetyKeptHolds`, `TamperedRefusedHolds`,
  `RolledBackRestoresHolds`.  Nobody is about to delete the safety snapshot of a
  running restore (`Spared`: neither the list the retention read, nor its current
  file, nor the target of a delete), because only expired rows are swept
  (`SweepsExpired`) and the snapshot is new and nobody else's (`OwnRows`,
  `Unborn`); what a restore has checked is not a replaced pair unless it became one
  since (`Genuine`), so no archive holds tampered data (`PureArchives`); the snapshot
  holds
  what the restore found, and only items it covers differ (`Covered`,
  `Restorable`).
* `SitesProofs`: `SitesTypes`, `ActiveIsWholeHolds`, `UndoneIsRestoredHolds`,
  `DeletedLeavesNothingHolds`, for any number of uploads, operations and faults.
  The three speak of a project between operations; what makes them true is what an
  operation has made or undone so far, so the invariant `Sound` has a part for each
  operation and each place in its step list, forwards and undoing: `BuildFits`
  (provision, and clone one place further on: which of workspace, database with its
  password, container and registration exist), `DeleteFits` (what is already
  removed), `UpdateFits` (image and configuration against the state the run found,
  `before`), `PlanFits` and `RunFits` (what is staged is the run's own), `CutoverFits`
  (the safety backup is the site the run found, so restoring it is an Undo),
  `RollbackFits`.  Between operations `Rest` holds: a project not built has nothing,
  an active one everything.  All of it is conditional on `~torn`, which no step
  resets.  `Placed` says which place goes with which operation and direction, and
  `Located` which operation a step name belongs to, so that each step is met only
  at its places.
* `AccountsProofs`: `ResetOnceHolds` (the client about to reset holds the lock of an
  open link), `UnmanagedStaysHolds` (whoever is about to assign a role has the
  permission in hand, `AssignsInHand`; any other statement that adds a role, a
  permission, a token or a request that may manage needs a caller, a role or a live
  token that may), `PlanFollowedHolds` (the request that runs a
  step holds the lock, and what was handed over for each step fits its status),
  `ActsAsConfiguredHolds` (what a request read is what the rows were at a moment
  of the request it has witnessed).
* `HostingProofs`: `OncePerPeriodHolds` (a period with a backup has its key in the
  jobs table; needs `(t \div I) * I` to name the period of `t`),
  `LiveHasKeyHolds` (only the storing of a row makes a certificate served, and its
  serial is then new and keyed), `LoneRequestHoldsAlways` (for each kind of request,
  what it has already made true of rows and zone if nothing overlapped it),
  `RetiredReturnsByOldReportHolds` (a report under way was made of an asset in
  service), `RetirementSettlesHolds` (a request that reads a decommissioned node
  becomes no report, and no other writer changes its status).

`RolledBackRestores`, `UndoInReverse`, `RunIsAwaited`, `FinalStaysFinal`,
`DecisionStands`, `UnmanagedStays`, `RetirementSettles` and
`RetiredReturnsByOldReport` are action properties, proved of a step from the invariant before it.  The larger inductive invariants were
checked by TLC, on bounds like those of section 3, before they were proved.

Assumptions: only the named ASSUMEs about the constants, which TLC evaluates on
every run: sets are subsets of their universes, rows are numbers, bounds are
naturals, DefaultTTL lies between MinTTL and MaxTTL, a plan has 1 to 8 steps (what
the parser accepts).  Those the proofs have brought to light: the node may be
enrolled (`Agents` is not empty), the first edit and the first password exist
(`MaxEdits`, `MaxPasswords` at least 1), no user is named like the two
placeholders of `Members` (the code's ids are UUIDs), the record names are
finitely many.

Only model-checked, and why:

* liveness (`EveryJobFinishes`, `PendingEnds`, `CommandsEnd`, `GhostEnds`,
  `OutageRaises`, `ClearedResolves`, `DueIsRenewed`): the prover does not handle
  fairness.  `Monitoring` has only such properties, so nothing is proved of it;
* the findings, which are violations.

The type invariants of `JobQueue`, `Approvals`, `Operations`, `NodeAgent`,
`Deployments`, `Backups` and `Sites` are theorems of their own; those of the modules under
`AccountsProofs` and `HostingProofs` are conjuncts of the invariants used there,
except that Agents and Records need only the shape of their rows and requests.

## 5. Not modelled

* Provider adapters beyond what section 2 names (wire protocols, file listings,
  statistics), HTTP routing, rate limits, the connection pool: pure I/O.
* Cryptography, encodings, and data transformation: secrets and key rotation,
  the rewriting of dumps, archive unpacking, the syntax of domain names and
  record values, model prompts.
* Single-statement edits that no other step reads: a project's configuration,
  clients, organisation settings, user profiles, flags.
* Audit and log sinks, usage figures, read-only queries, the dashboard, demo
  data and the web UI.
* A database outage that ends the observability loop's pass, other than as a
  crash of the loop.

`PROJECT.json` gives the reason per component.

## 6. Plan

Every safety property that a passing run checks is a theorem.  Left are:

1. Liveness, which stays with TLC, and with it `Monitoring`.
2. Lemmas on the helpers that several proofs state for themselves (records with
   Boolean fields, one request that moves while the others stay), shared where
   modules allow it.
3. Of the code: the parts section 5 names, secrets and key rotation first.
