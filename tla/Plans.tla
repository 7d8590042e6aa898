-------------------------------- MODULE Plans --------------------------------
(***************************************************************************)
(* One AI plan (api/internal/aiplans): the model proposes steps, a person  *)
(* approves the plan, and its steps are then run one by one, each by a     *)
(* request of its own.                                                     *)
(*                                                                         *)
(* RunStep locks the plan's row, calls the operation engine or the tool    *)
(* gateway on other connections, and only then writes the step: what the   *)
(* call did stays when the transaction around it is rolled back.           *)
(***************************************************************************)
EXTENDS Integers, FiniteSets

CONSTANTS
    PlanSteps,      \* the number of steps of the plan, at most maxSteps
    MaxLost         \* bound: requests that end between the call and the commit

ASSUME PlansAssumption == PlanSteps \in 1..8 /\ MaxLost \in Nat

VARIABLES
    planStatus,     \* ai_plans.status
    planStep,       \* ai_plans.steps: dangerous, valid, status
    runner,         \* the requests in progress: the step they run and the row they read
    planLock,       \* the runner that has locked the row
    stepJobs, stepApprovals,    \* jobs and approvals that exist for each step
    lost            \* calls made by a request whose transaction was rolled back

planVars == <<planStatus, planStep, runner, planLock, stepJobs, stepApprovals, lost>>

Runners == {1, 2}
StepIds == 1..PlanSteps
NoRunner == 0
StepRow == [dangerous: BOOLEAN, valid: BOOLEAN,
            status: {"pending", "submitted", "awaiting_approval"}]
NoRun == [pc |-> "idle", index |-> 0, status |-> "absent"]

PlanTypeOK ==
    /\ planStatus \in {"absent", "proposed", "approved", "rejected", "completed"}
    /\ planStep \in [StepIds -> StepRow]
    /\ runner \in [Runners -> [pc: {"idle", "call", "record"}, index: 0..PlanSteps,
                               status: {"absent", "submitted", "awaiting_approval"}]]
    /\ planLock \in Runners \cup {NoRunner}
    /\ stepJobs \in [StepIds -> Nat] /\ stepApprovals \in [StepIds -> Nat]
    /\ lost \in [StepIds -> 0..MaxLost]

PlanInit ==
    /\ planStatus = "absent"
    /\ planStep = [i \in StepIds |-> [dangerous |-> FALSE, valid |-> FALSE, status |-> "pending"]]
    /\ runner = [r \in Runners |-> NoRun]
    /\ planLock = NoRunner
    /\ stepJobs = [i \in StepIds |-> 0] /\ stepApprovals = [i \in StepIds |-> 0]
    /\ lost = [i \in StepIds |-> 0]

\* parse keeps the steps whose operation is known; a step that the engine's
\* Check refuses is kept and marked invalid.
Propose ==
    /\ planStatus = "absent"
    /\ planStatus' = "proposed"
    /\ \E d, v \in [StepIds -> BOOLEAN] :
          planStep' = [i \in StepIds |-> [dangerous |-> d[i], valid |-> v[i], status |-> "pending"]]
    /\ UNCHANGED <<runner, planLock, stepJobs, stepApprovals, lost>>

\* UPDATE ai_plans SET status WHERE status = 'proposed'
DecidePlan ==
    /\ planStatus = "proposed"
    /\ planStatus' \in {"approved", "rejected"}
    /\ UNCHANGED <<planStep, runner, planLock, stepJobs, stepApprovals, lost>>

\* SELECT ... FOR UPDATE
LockPlan(r) == planLock = NoRunner /\ planLock' = r

InTurn(i) == \A j \in 1..(i - 1) : planStep[j].status # "pending"

RunSelect(r, i) ==
    /\ runner[r] = NoRun
    /\ LockPlan(r)
    /\ planStatus = "approved"
    /\ InTurn(i)
    /\ planStep[i].status = "pending" /\ planStep[i].valid
    /\ runner' = [runner EXCEPT ![r] = [NoRun EXCEPT !.pc = "call", !.index = i]]
    /\ UNCHANGED <<planStatus, planStep, stepJobs, stepApprovals, lost>>

\* Mutant: the submission carries no idempotency key.
SubmitKeyless(i) == stepJobs' = [stepJobs EXCEPT ![i] = @ + 1]

\* eng.Submit under the key aiplan:<id>:<index>: INSERT ... ON CONFLICT DO NOTHING.
SubmitStep(i) == stepJobs' = [stepJobs EXCEPT ![i] = 1]

RunCall(r) ==
    LET i == runner[r].index IN
    /\ runner[r].pc = "call"
    /\ IF planStep[i].dangerous
         THEN stepApprovals' = [stepApprovals EXCEPT ![i] = @ + 1] /\ UNCHANGED stepJobs
         ELSE SubmitStep(i) /\ UNCHANGED stepApprovals
    /\ runner' = [runner EXCEPT ![r].pc = "record",
                                ![r].status = IF planStep[i].dangerous
                                                THEN "awaiting_approval" ELSE "submitted"]
    /\ UNCHANGED <<planStatus, planStep, planLock, lost>>

\* The call fails: the request ends and nothing is recorded.
RunRefused(r) ==
    /\ runner[r].pc = "call"
    /\ runner' = [runner EXCEPT ![r] = NoRun]
    /\ planLock' = IF planLock = r THEN NoRunner ELSE planLock
    /\ UNCHANGED <<planStatus, planStep, stepJobs, stepApprovals, lost>>

RunRecord(r) ==
    /\ runner[r].pc = "record"
    /\ planStep' = [planStep EXCEPT ![runner[r].index].status = runner[r].status]
    /\ planStatus' = IF \E i \in StepIds : planStep'[i].status = "pending"
                       THEN planStatus ELSE "completed"
    /\ runner' = [runner EXCEPT ![r] = NoRun]
    /\ planLock' = IF planLock = r THEN NoRunner ELSE planLock
    /\ UNCHANGED <<stepJobs, stepApprovals, lost>>

\* The process dies, or the UPDATE or the commit fails, after the call.
RunLost(r) ==
    LET i == runner[r].index IN
    /\ runner[r].pc = "record" /\ lost[i] < MaxLost
    /\ lost' = [lost EXCEPT ![i] = @ + 1]
    /\ runner' = [runner EXCEPT ![r] = NoRun]
    /\ planLock' = IF planLock = r THEN NoRunner ELSE planLock
    /\ UNCHANGED <<planStatus, planStep, stepJobs, stepApprovals>>

PlanNext ==
    \/ Propose \/ DecidePlan
    \/ \E r \in Runners :
          \/ \E i \in StepIds : RunSelect(r, i)
          \/ RunCall(r) \/ RunRefused(r) \/ RunRecord(r) \/ RunLost(r)

PlanSpec == PlanInit /\ [][PlanNext]_planVars

-----------------------------------------------------------------------------
Ran(i) == stepJobs[i] + stepApprovals[i]

\* However its steps are clicked, retried and interrupted, an approved plan is
\* followed: a step has been handed over only after every step before it, an
\* ordinary step becomes one job although its request may have been lost and
\* repeated, a dangerous one asks for one approval more only when a request
\* was lost, and a completed plan has handed over every step (RunStep: "Steps
\* run strictly in order", "two concurrent run clicks cannot both start a step").
PlanFollowed ==
    /\ \A i \in StepIds :
          /\ stepJobs[i] <= 1
          /\ stepApprovals[i] <= 1 + lost[i]
          /\ Ran(i) > 0 => /\ planStatus \in {"approved", "completed"}
                           /\ planStep[i].valid
                           /\ \A j \in 1..(i - 1) : Ran(j) > 0
    /\ planStatus = "completed" => \A i \in StepIds : Ran(i) > 0
=============================================================================
