----------------------------- MODULE Operations -----------------------------
(***************************************************************************)
(* The operation engine of api/internal/ops running on the job worker of   *)
(* one API process: a claimed job is validated, executed as a list of      *)
(* persisted steps and, on failure or cancellation, rolled back in reverse *)
(* order.  Users submit, cancel and retry concurrently; contexts expire;   *)
(* the process stops, crashes and recovers.                                *)
(*                                                                         *)
(* Every action is at most one database statement of the engine (or a run  *)
(* of statements nothing else can tell apart), so everything else may      *)
(* interleave between two of them.  A statement under a context that is    *)
(* done is lost: the code ignores the errors of its bookkeeping writes.    *)
(***************************************************************************)
EXTENDS Integers, FiniteSets

CONSTANTS
    Jobs,           \* job rows, numbered by created_at
    OpJobs,         \* rows inserted by Engine.submit (operation IS NOT NULL)
    Priority,
    MaxAttempts,
    NSteps,         \* steps of an operation; steps are numbered 1..NSteps
    Undoable,       \* the steps that have an Undo
    MaxRows,        \* bound: rows inserted
    MaxRetries,     \* bound: calls of Retry
    MaxExits,       \* bound: ends of the process
    MaxTimeouts     \* bound: contexts that expire

ASSUME JobsAssumption ==
    /\ Jobs \subseteq Nat \ {0}
    /\ OpJobs \subseteq Jobs

ASSUME RowAssumption ==
    /\ Priority \in [Jobs -> Int]
    /\ MaxAttempts \in [Jobs -> Nat \ {0}]
    /\ \A j \in OpJobs : MaxAttempts[j] = 1

ASSUME StepAssumption ==
    /\ NSteps \in Nat \ {0}
    /\ Undoable \subseteq 1..NSteps

ASSUME BoundAssumption ==
    /\ MaxRows \in Nat
    /\ MaxRetries \in Nat
    /\ MaxExits \in Nat
    /\ MaxTimeouts \in Nat

VARIABLES
    \* the jobs table
    status, attempts, cancelRequested, rolledBack,
    \* the job_steps table
    step,
    \* the outside world: the steps of a job whose effects are in place
    effect,
    \* the process and, in it, the worker executing job cur at step i
    api, pc, cur, i,
    claimed,    \* the attempts of cur that the claim returned
    done,       \* steps to roll back are 1..done
    outcome,    \* what the handler is about to return
    allBack,    \* rolledBackAll
    ctx,        \* the job's context has not expired
    rbCtx,      \* the rollback's context has not expired
    ids,        \* start-up: the jobs RecoverInterrupted has just failed
    \* observations, read by no action
    notified,   \* the job.failed notification of the current attempt is stored
    asked,      \* somebody asked to cancel the job since it was last queued
    runs,       \* how often the job was claimed
    blind,      \* jobs one of whose bookkeeping writes was lost
    \* counters that bound the environment
    retries, exits, timeouts

rowVars == <<status, attempts, cancelRequested, rolledBack>>
runVars == <<pc, cur, i, claimed, done, outcome, allBack, ctx, rbCtx>>
obsVars == <<notified, asked, runs, blind>>
boundVars == <<retries, exits, timeouts>>
vars == <<rowVars, step, effect, api, ids, runVars, obsVars, boundVars>>

NoJob == 0
Steps == 1..NSteps
Active == {"running", "rolling_back"}
Terminal == {"succeeded", "failed", "cancelled"}
Statuses == {"absent", "queued"} \cup Active \cup Terminal
StepStatuses == {"none", "pending", "running", "succeeded", "failed",
                 "rolled_back", "rollback_failed"}
PCs == {"idle", "load", "validate", "init", "check", "run", "record",
        "succeed", "unwind", "undo", "finish"}

TypeOK ==
    /\ status \in [Jobs -> Statuses]
    /\ attempts \in [Jobs -> Nat]
    /\ cancelRequested \in [Jobs -> BOOLEAN]
    /\ rolledBack \in [Jobs -> BOOLEAN]
    /\ step \in [Jobs -> [Steps -> StepStatuses]]
    /\ effect \in [Jobs -> SUBSET Steps]
    /\ api \in {"up", "stopping", "down", "recovering"}
    /\ pc \in PCs
    /\ cur \in Jobs \cup {NoJob}
    /\ pc # "idle" => cur \in Jobs
    /\ i \in 0..NSteps
    /\ done \in 0..NSteps
    /\ outcome \in {"none", "succeeded", "failed", "cancelled"}
    /\ allBack \in BOOLEAN
    /\ claimed \in Nat
    /\ ctx \in BOOLEAN
    /\ rbCtx \in BOOLEAN
    /\ ids \subseteq Jobs
    /\ notified \in [Jobs -> BOOLEAN]
    /\ asked \in [Jobs -> BOOLEAN]
    /\ runs \in [Jobs -> Nat]
    /\ blind \subseteq Jobs
    /\ retries \in 0..MaxRetries
    /\ exits \in 0..MaxExits
    /\ timeouts \in 0..MaxTimeouts

Init ==
    /\ status = [j \in Jobs |-> "absent"]
    /\ attempts = [j \in Jobs |-> 0]
    /\ cancelRequested = [j \in Jobs |-> FALSE]
    /\ rolledBack = [j \in Jobs |-> FALSE]
    /\ step = [j \in Jobs |-> [k \in Steps |-> "none"]]
    /\ effect = [j \in Jobs |-> {}]
    /\ api = "up"
    /\ pc = "idle"
    /\ cur = NoJob
    /\ i = 0
    /\ claimed = 0
    /\ done = 0
    /\ outcome = "none"
    /\ allBack = FALSE
    /\ ctx = FALSE
    /\ rbCtx = FALSE
    /\ ids = {}
    /\ notified = [j \in Jobs |-> FALSE]
    /\ asked = [j \in Jobs |-> FALSE]
    /\ runs = [j \in Jobs |-> 0]
    /\ blind = {}
    /\ retries = 0
    /\ exits = 0
    /\ timeouts = 0

-----------------------------------------------------------------------------
(* Requests served by the API.                                             *)

Serving == api \in {"up", "stopping"}

\* Engine.submit and jobs.Enqueue insert a queued row.
Submit(j) ==
    /\ Serving
    /\ status[j] = "absent"
    /\ \A k \in Jobs : j < k => status[k] = "absent"
    /\ Cardinality({k \in Jobs : status[k] # "absent"}) < MaxRows
    /\ status' = [status EXCEPT ![j] = "queued"]
    /\ UNCHANGED <<attempts, cancelRequested, rolledBack, step, effect, api, ids,
                   runVars, obsVars, boundVars>>

\* jobs.Cancel
Cancel(j) ==
    /\ Serving
    /\ status[j] = "queued"
    /\ status' = [status EXCEPT ![j] = "cancelled"]
    /\ asked' = [asked EXCEPT ![j] = TRUE]
    /\ UNCHANGED <<attempts, cancelRequested, rolledBack, step, effect, api, ids,
                   runVars, notified, runs, blind, boundVars>>

\* Mutant: a request ends a running job at once.
RequestCancelAtOnce(j) ==
    /\ Serving
    /\ j \in OpJobs
    /\ status[j] \in {"queued"} \cup Active
    /\ cancelRequested' = [cancelRequested EXCEPT ![j] = TRUE]
    /\ status' = [status EXCEPT ![j] = "cancelled"]
    /\ asked' = [asked EXCEPT ![j] = TRUE]
    /\ UNCHANGED <<attempts, rolledBack, step, effect, api, ids, runVars, notified,
                   runs, blind, boundVars>>

\* Engine.RequestCancel: one UPDATE ... WHERE status NOT IN (terminal).
RequestCancel(j) ==
    /\ Serving
    /\ j \in OpJobs
    /\ status[j] \in {"queued"} \cup Active
    /\ cancelRequested' = [cancelRequested EXCEPT ![j] = TRUE]
    /\ status' = [status EXCEPT ![j] = IF @ = "queued" THEN "cancelled" ELSE @]
    /\ asked' = [asked EXCEPT ![j] = TRUE]
    /\ UNCHANGED <<attempts, rolledBack, step, effect, api, ids, runVars, notified,
                   runs, blind, boundVars>>

\* jobs.Retry: cancel_requested, rolled_back and the step rows stay.
Retry(j) ==
    /\ Serving
    /\ status[j] = "failed"
    /\ retries < MaxRetries
    /\ status' = [status EXCEPT ![j] = "queued"]
    /\ attempts' = [attempts EXCEPT ![j] = 0]
    /\ asked' = [asked EXCEPT ![j] = FALSE]
    /\ retries' = retries + 1
    /\ UNCHANGED <<cancelRequested, rolledBack, step, effect, api, ids, runVars,
                   notified, runs, blind, exits, timeouts>>

-----------------------------------------------------------------------------
(* The worker: claim, the engine's execute, finish.                        *)

\* A statement under the job's context goes through.
Live == api = "up" /\ ctx

\* The bookkeeping row of step k of the current job, written under a context
\* that is live or not.
WriteStep(k, value, live) ==
    IF live
    THEN /\ step' = [step EXCEPT ![cur] = [@ EXCEPT ![k] = value]]
         /\ UNCHANGED blind
    ELSE /\ UNCHANGED step
         /\ blind' = blind \cup {cur}

\* ORDER BY priority DESC, created_at ASC LIMIT 1
NextQueued(j) ==
    /\ status[j] = "queued"
    /\ \A k \in Jobs :
          status[k] = "queued" =>
             \/ Priority[k] < Priority[j]
             \/ Priority[k] = Priority[j] /\ j <= k

Claim(j) ==
    /\ api = "up"
    /\ pc = "idle"
    /\ NextQueued(j)
    /\ status' = [status EXCEPT ![j] = "running"]
    /\ attempts' = [attempts EXCEPT ![j] = @ + 1]
    /\ pc' = "load"
    /\ cur' = j
    /\ claimed' = attempts[j] + 1
    /\ i' = 0
    /\ done' = 0
    /\ outcome' = "none"
    /\ allBack' = FALSE
    /\ ctx' = TRUE
    /\ rbCtx' = FALSE
    /\ notified' = [notified EXCEPT ![j] = FALSE]
    /\ runs' = [runs EXCEPT ![j] = @ + 1]
    /\ UNCHANGED <<cancelRequested, rolledBack, step, effect, api, ids, asked,
                   blind, boundVars>>

\* The handler returns an error without a word: no audit entry, no
\* notification, no rollback.
ReturnError ==
    /\ pc' = "finish"
    /\ outcome' = "failed"
    /\ blind' = blind \cup {cur}
    /\ UNCHANGED i

\* SELECT project_id, created_by_user_id
LoadContext ==
    /\ pc = "load"
    /\ IF Live
       THEN pc' = "validate" /\ UNCHANGED <<i, outcome, blind>>
       ELSE ReturnError
    /\ UNCHANGED <<rowVars, step, effect, api, ids, cur, claimed, done, allBack, ctx, rbCtx,
                   notified, asked, runs, boundVars>>

\* Factory and Validate; an error goes through fail: audit and notification.
Validate ==
    /\ pc = "validate"
    /\ \/ /\ pc' = "init"
          /\ i' = 1
          /\ UNCHANGED <<outcome, notified, blind>>
       \/ /\ pc' = "finish"
          /\ outcome' = "failed"
          /\ notified' = [notified EXCEPT ![cur] = Live]
          /\ blind' = IF Live THEN blind ELSE blind \cup {cur}
          /\ UNCHANGED i
    /\ UNCHANGED <<rowVars, step, effect, api, ids, cur, claimed, done, allBack, ctx, rbCtx,
                   asked, runs, boundVars>>

\* One iteration of initSteps: upsert row i as pending.
InitStep ==
    /\ pc = "init"
    /\ IF Live
       THEN /\ WriteStep(i, "pending", TRUE)
            /\ pc' = IF i = NSteps THEN "check" ELSE "init"
            /\ i' = IF i = NSteps THEN 1 ELSE i + 1
            /\ UNCHANGED outcome
       ELSE ReturnError /\ UNCHANGED step
    /\ UNCHANGED <<rowVars, effect, api, ids, cur, claimed, done, allBack, ctx, rbCtx,
                   notified, asked, runs, boundVars>>

\* cancelRequested answers false when its query fails.
StopRequested == Live /\ cancelRequested[cur]

\* The step boundary: stop for a requested cancellation or begin step i.
BeginStep ==
    /\ pc = "check"
    /\ IF StopRequested
       THEN /\ pc' = "unwind"
            /\ outcome' = "cancelled"
            /\ UNCHANGED <<step, blind>>
       ELSE /\ pc' = "run"
            /\ WriteStep(i, "running", Live)
            /\ UNCHANGED outcome
    /\ UNCHANGED <<rowVars, effect, api, ids, cur, claimed, i, done, allBack, ctx, rbCtx,
                   notified, asked, runs, boundVars>>

\* safeRun(st.Run): the step takes effect, or fails (or panics) before or
\* after its effect; a step that calls CheckCancel may stop for a requested
\* cancellation.
RunStep ==
    /\ pc = "run"
    /\ pc' = "record"
    /\ \/ /\ outcome' = "none"
          /\ effect' = [effect EXCEPT ![cur] = @ \cup {i}]
       \/ /\ \/ outcome' = "failed"
             \/ StopRequested /\ outcome' = "cancelled"
          /\ \/ UNCHANGED effect
             \/ effect' = [effect EXCEPT ![cur] = @ \cup {i}]
    /\ UNCHANGED <<rowVars, step, api, ids, cur, claimed, i, done, allBack, ctx, rbCtx,
                   obsVars, boundVars>>

\* Mutant: the error of a step is recorded and forgotten.
RecordStepCarryOn ==
    /\ pc = "record"
    /\ done' = i
    /\ WriteStep(i, IF outcome = "none" THEN "succeeded" ELSE "failed", Live)
    /\ outcome' = "none"
    /\ IF i = NSteps
       THEN pc' = "succeed" /\ UNCHANGED i
       ELSE pc' = "check" /\ i' = i + 1
    /\ UNCHANGED <<rowVars, effect, api, ids, cur, claimed, allBack, ctx, rbCtx,
                   notified, asked, runs, boundVars>>

\* Mutant: only the steps that succeeded are rolled back.
RecordStepSucceededOnly ==
    /\ pc = "record"
    /\ done' = IF outcome = "none" THEN i ELSE done
    /\ WriteStep(i, IF outcome = "none" THEN "succeeded" ELSE "failed", Live)
    /\ IF outcome # "none"
       THEN pc' = "unwind" /\ UNCHANGED i
       ELSE IF i = NSteps
            THEN pc' = "succeed" /\ UNCHANGED i
            ELSE pc' = "check" /\ i' = i + 1
    /\ UNCHANGED <<rowVars, effect, api, ids, cur, claimed, outcome, allBack, ctx, rbCtx,
                   notified, asked, runs, boundVars>>

\* endStep; a failed step is included in the rollback.
RecordStep ==
    /\ pc = "record"
    /\ done' = i
    /\ WriteStep(i, IF outcome = "none" THEN "succeeded" ELSE "failed", Live)
    /\ IF outcome # "none"
       THEN pc' = "unwind" /\ UNCHANGED i
       ELSE IF i = NSteps
            THEN pc' = "succeed" /\ UNCHANGED i
            ELSE pc' = "check" /\ i' = i + 1
    /\ UNCHANGED <<rowVars, effect, api, ids, cur, claimed, outcome, allBack, ctx, rbCtx,
                   notified, asked, runs, boundVars>>

\* Audit and notification of a success.
Succeed ==
    /\ pc = "succeed"
    /\ pc' = "finish"
    /\ outcome' = "succeeded"
    /\ blind' = IF Live THEN blind ELSE blind \cup {cur}
    /\ UNCHANGED <<rowVars, step, effect, api, ids, cur, claimed, i, done, allBack, ctx,
                   rbCtx, notified, asked, runs, boundVars>>

\* setJobStatus("rolling_back") under the job's context, then a fresh context
\* for the rollback.
Unwind ==
    /\ pc = "unwind"
    /\ pc' = "undo"
    /\ status' = IF Live THEN [status EXCEPT ![cur] = "rolling_back"] ELSE status
    /\ blind' = IF Live THEN blind ELSE blind \cup {cur}
    /\ i' = done
    /\ allBack' = TRUE
    /\ rbCtx' = TRUE
    /\ UNCHANGED <<attempts, cancelRequested, rolledBack, step, effect, api, ids,
                   cur, claimed, done, outcome, ctx, notified, asked, runs, boundVars>>

\* Mutant: the error of an Undo is not looked at.
UndoStepUnchecked ==
    /\ pc = "undo"
    /\ i > 0
    /\ i' = i - 1
    /\ IF i \in Undoable
       THEN /\ \/ UNCHANGED effect
               \/ effect' = [effect EXCEPT ![cur] = @ \ {i}]
            /\ WriteStep(i, "rolled_back", rbCtx)
       ELSE UNCHANGED <<step, effect, blind>>
    /\ UNCHANGED <<rowVars, api, ids, pc, cur, claimed, done, outcome, allBack, ctx, rbCtx,
                   notified, asked, runs, boundVars>>

\* Mutant: steps are undone in the order in which they ran.
UndoStepForward ==
    LET k == done + 1 - i IN
    /\ pc = "undo"
    /\ i > 0
    /\ i' = i - 1
    /\ IF k \in Undoable
       THEN /\ effect' = [effect EXCEPT ![cur] = @ \ {k}]
            /\ WriteStep(k, "rolled_back", rbCtx)
       ELSE UNCHANGED <<step, effect, blind>>
    /\ UNCHANGED <<rowVars, api, ids, pc, cur, claimed, done, outcome, allBack, ctx, rbCtx,
                   notified, asked, runs, boundVars>>

\* One iteration of the rollback loop: step i has no Undo, its Undo succeeds,
\* or it fails with or without having removed the effect.
UndoStep ==
    /\ pc = "undo"
    /\ i > 0
    /\ i' = i - 1
    /\ \/ /\ i \notin Undoable
          /\ UNCHANGED <<step, effect, blind, allBack>>
       \/ /\ i \in Undoable
          /\ effect' = [effect EXCEPT ![cur] = @ \ {i}]
          /\ WriteStep(i, "rolled_back", rbCtx)
          /\ UNCHANGED allBack
       \/ /\ i \in Undoable
          /\ \/ UNCHANGED effect
             \/ effect' = [effect EXCEPT ![cur] = @ \ {i}]
          /\ WriteStep(i, "rollback_failed", rbCtx)
          /\ allBack' = FALSE
    /\ UNCHANGED <<rowVars, api, ids, pc, cur, claimed, done, outcome, ctx, rbCtx, notified,
                   asked, runs, boundVars>>

\* markRolledBack under the rollback's context; audit and, for a failure,
\* notification under the job's context.
ConcludeRollback ==
    /\ pc = "undo"
    /\ i = 0
    /\ pc' = "finish"
    /\ rolledBack' = IF rbCtx THEN [rolledBack EXCEPT ![cur] = allBack]
                     ELSE rolledBack
    /\ notified' = IF outcome = "failed" THEN [notified EXCEPT ![cur] = Live]
                   ELSE notified
    /\ blind' = IF Live /\ rbCtx THEN blind ELSE blind \cup {cur}
    /\ UNCHANGED <<status, attempts, cancelRequested, step, effect, api, ids, cur, claimed, i,
                   done, outcome, allBack, ctx, rbCtx, asked, runs, boundVars>>

\* The handler's variables go out of scope.
ClearRun ==
    /\ pc' = "idle"
    /\ cur' = NoJob
    /\ i' = 0
    /\ claimed' = 0
    /\ done' = 0
    /\ outcome' = "none"
    /\ allBack' = FALSE
    /\ ctx' = FALSE
    /\ rbCtx' = FALSE

\* What the worker writes for the outcome of the handler.
Completion ==
    IF outcome = "failed" /\ claimed < MaxAttempts[cur]
    THEN "queued" ELSE outcome

\* finishWithStatus or retry, under the context of the worker.
Finish ==
    /\ pc = "finish"
    /\ ClearRun
    /\ IF api = "up"
       THEN status' = [status EXCEPT ![cur] = Completion] /\ UNCHANGED blind
       ELSE blind' = blind \cup {cur} /\ UNCHANGED status
    /\ UNCHANGED <<attempts, cancelRequested, rolledBack, step, effect, api, ids,
                   notified, asked, runs, boundVars>>

\* The timeout of the job expires.
Timeout ==
    /\ pc \notin {"idle", "finish"}
    /\ ctx
    /\ timeouts < MaxTimeouts
    /\ ctx' = FALSE
    /\ timeouts' = timeouts + 1
    /\ UNCHANGED <<rowVars, step, effect, api, ids, pc, cur, claimed, i, done, outcome, allBack,
                   rbCtx, obsVars, retries, exits>>

\* The five minutes of the rollback expire.
RollbackTimeout ==
    /\ pc = "undo"
    /\ rbCtx
    /\ timeouts < MaxTimeouts
    /\ rbCtx' = FALSE
    /\ timeouts' = timeouts + 1
    /\ UNCHANGED <<rowVars, step, effect, api, ids, pc, cur, claimed, i, done, outcome, allBack,
                   ctx, obsVars, retries, exits>>

-----------------------------------------------------------------------------
(* The process.                                                            *)

Shutdown ==
    /\ api = "up"
    /\ exits < MaxExits
    /\ api' = "stopping"
    /\ UNCHANGED <<rowVars, step, effect, ids, runVars, obsVars, boundVars>>

\* A crash, or the end of a shutdown.  A crash between the two statements of
\* RecoverInterrupted loses the second one.
Exit ==
    /\ api # "down"
    /\ exits < MaxExits
    /\ exits' = exits + 1
    /\ api' = "down"
    /\ ClearRun
    /\ ids' = {}
    /\ blind' = blind \cup ids
    /\ UNCHANGED <<rowVars, step, effect, notified, asked, runs, retries,
                   timeouts>>

\* RecoverInterrupted, first statement: interrupted jobs are failed.
RecoverJobs ==
    /\ api = "down"
    /\ api' = "recovering"
    /\ ids' = {j \in Jobs : status[j] \in Active}
    /\ status' = [j \in Jobs |-> IF status[j] \in Active THEN "failed" ELSE status[j]]
    /\ UNCHANGED <<attempts, cancelRequested, rolledBack, step, effect, runVars,
                   obsVars, boundVars>>

\* RecoverInterrupted, second statement: their running steps are failed.  The
\* worker and the HTTP server start after it.
RecoverSteps ==
    /\ api = "recovering"
    /\ api' = "up"
    /\ ids' = {}
    /\ step' = [j \in Jobs |-> [k \in Steps |->
                  IF j \in ids /\ step[j][k] = "running" THEN "failed"
                  ELSE step[j][k]]]
    /\ UNCHANGED <<rowVars, effect, runVars, obsVars, boundVars>>

-----------------------------------------------------------------------------

User == \E j \in Jobs : Submit(j) \/ Cancel(j) \/ RequestCancel(j) \/ Retry(j)

Engine ==
    \/ LoadContext \/ Validate \/ InitStep
    \/ BeginStep \/ RunStep \/ RecordStep \/ Succeed
    \/ Unwind \/ UndoStep \/ ConcludeRollback
    \/ Finish

Process == Shutdown \/ Exit \/ RecoverJobs \/ RecoverSteps

Next ==
    \/ User
    \/ \E j \in Jobs : Claim(j)
    \/ Engine
    \/ Timeout
    \/ RollbackTimeout
    \/ Process

Spec == Init /\ [][Next]_vars

-----------------------------------------------------------------------------
(* Properties.                                                             *)

\* A succeeded operation has every one of its effects in place, whatever
\* failed attempts, rollbacks, retries and restarts came before the last run
\* of Engine.execute.
SucceededIsComplete ==
    \A j \in Jobs : status[j] = "succeeded" => effect[j] = Steps

\* "any resources a half-finished run left behind are listed in the job's
\* steps" (jobs/worker.go, RecoverInterrupted): after the first run of a job
\* none of whose writes was lost, an effect that is still there belongs to a
\* step row that says so.
LeftoversListed ==
    \A j \in Jobs :
        /\ status[j] \in {"failed", "cancelled"}
        /\ runs[j] <= 1
        /\ j \notin blind
        => \A k \in effect[j] :
              step[j][k] \in {"running", "succeeded", "failed", "rollback_failed"}

\* When the engine reports the first run of a job as rolled back, no effect
\* of a step with an Undo remains, the step that failed half-way included.
RolledBackIsClean ==
    \A j \in Jobs :
        rolledBack[j] /\ runs[j] <= 1 => effect[j] \cap Undoable = {}

\* Rollback is in reverse order: the effect of a step is undone only after
\* the Undo of every later step of the run was tried.
UndoInReverse ==
    [][\A k \in Undoable :
          cur \in Jobs /\ k \in effect[cur] /\ k \notin effect'[cur] =>
             \A m \in Undoable :
                k < m /\ m <= done =>
                   \/ cur \in blind
                   \/ step[cur][m] \in {"rolled_back", "rollback_failed"}]_vars

\* "failures always emit job.failed" (ops.Definition): when a run that got as
\* far as a step returns a failure, its notification is stored.
FailureAlwaysNotified ==
    pc = "finish" /\ outcome = "failed" /\ done > 0 => notified[cur]

\* Retry "re-queues a failed job for another full attempt cycle" (jobs.Retry):
\* a job ends cancelled only if somebody asked for it since it was queued.
CancelledOnlyIfAsked ==
    \A j \in Jobs : status[j] = "cancelled" => asked[j]

-----------------------------------------------------------------------------
(* The engine implements the job queue of one process.                     *)

Instance == "api"

JQ == INSTANCE JobQueue WITH
    Instances <- {Instance},
    Unhandled <- {},
    MaxRestarts <- MaxExits,
    MaxFaults <- 0,
    deployed <- {Instance},
    inst <- [w \in {Instance} |-> IF api = "recovering" THEN "up" ELSE api],
    holds <- [w \in {Instance} |-> IF pc = "idle" THEN NoJob ELSE cur],
    att <- [w \in {Instance} |-> claimed],
    restarts <- IF api = "down" THEN exits - 1 ELSE exits,
    faults <- 0

\* Every behaviour of the engine is one of the abstract job queue: its steps
\* change a job's status and attempts only as a claim, a completion, a call or
\* a recovery of JobQueue would.
ImplementsJobQueue == JQ!Spec
=============================================================================
