-------------------------- MODULE OperationsProofs --------------------------
(***************************************************************************)
(* Proofs about Operations, for any jobs, steps and bounds: a succeeded    *)
(* operation is complete, what a first run leaves behind is listed, what   *)
(* it reports as rolled back is gone, rollback is in reverse order, and    *)
(* the engine implements the job queue.                                    *)
(***************************************************************************)
EXTENDS Operations, TLAPS

\* The statuses of a step row that tell of an effect.
Telling == {"running", "succeeded", "failed", "rollback_failed"}

\* The worker runs a job it has claimed, only while its process serves, and
\* the row of the job says so.
OwnsRow ==
    pc # "idle" => /\ Serving
                   /\ status[cur] \in Active
                   /\ runs[cur] > 0

\* What the handler is about to return at each point of execute.
OutcomeFits ==
    /\ pc \in {"load", "validate", "init", "check", "run", "succeed"} => outcome = "none"
    /\ pc = "record" => outcome \in {"none", "failed", "cancelled"}
    /\ pc \in {"unwind", "undo"} => outcome \in {"failed", "cancelled"}
    /\ pc = "finish" => outcome \in {"succeeded", "failed", "cancelled"}

\* Where the loops of execute stand.
LoopFits ==
    /\ pc \in {"load", "validate", "init"} => done = 0
    /\ pc \in {"init", "check", "run", "record"} => i \in Steps
    /\ pc \in {"check", "run", "record"} => done = i - 1
    /\ pc = "undo" => i <= done

\* The steps behind the worker have taken effect.
EffectsDone ==
    /\ pc \in {"check", "run", "record"} => \A k \in Steps : k < i => k \in effect[cur]
    /\ pc = "record" /\ outcome = "none" => i \in effect[cur]
    /\ pc = "succeed" \/ (pc = "finish" /\ outcome = "succeeded") => effect[cur] = Steps

\* The effects of a first run are those of the steps it has reached.
FirstRun ==
    /\ \A j \in Jobs : runs[j] = 0 => effect[j] = {} /\ ~rolledBack[j]
    /\ pc # "idle" /\ runs[cur] <= 1 =>
          /\ pc \in {"load", "validate", "init"} => effect[cur] = {}
          /\ pc \in {"check", "run"} => \A k \in effect[cur] : k < i
          /\ pc = "record" => \A k \in effect[cur] : k <= i
          /\ pc = "unwind" => \A k \in effect[cur] : k <= done
          /\ pc = "undo" /\ allBack => \A k \in effect[cur] \cap Undoable : k <= i
          /\ pc # "finish" => ~rolledBack[cur]

\* A step row is marked before its step runs, and tells of the effect until
\* it is undone.
Marked ==
    /\ pc \in {"run", "record"} /\ cur \notin blind => step[cur][i] = "running"
    /\ \A j \in Jobs :
          runs[j] <= 1 /\ j \notin blind => \A k \in effect[j] : step[j][k] \in Telling

\* The rollback has tried every step above i that has an Undo.
Tried ==
    pc = "undo" /\ cur \notin blind =>
        \A m \in Undoable :
            i < m /\ m <= done => step[cur][m] \in {"rolled_back", "rollback_failed"}

\* The inductive invariant.
IInv ==
    /\ TypeOK
    /\ OwnsRow
    /\ OutcomeFits
    /\ LoopFits
    /\ EffectsDone
    /\ SucceededIsComplete
    /\ FirstRun
    /\ RolledBackIsClean
    /\ Marked
    /\ Tried

-----------------------------------------------------------------------------
(* Type correctness.                                                       *)

\* The conjuncts of TypeOK on the flags of the worker.
Flags == allBack \in BOOLEAN /\ ctx \in BOOLEAN /\ rbCtx \in BOOLEAN

\* The first state has the shape of TypeOK.
LEMMA InitType == Init => TypeOK
  <1>1. Init => Flags
    BY Zenon DEF Init, Flags
  <1> QED
    BY <1>1, BoundAssumption, StepAssumption
    DEF Init, TypeOK, Flags, Statuses, StepStatuses, PCs, Steps

\* Every step leaves the flags Boolean.
LEMMA NextFlags == TypeOK /\ Next => Flags'
  BY Zenon
  DEF TypeOK, Flags, Next, User, Engine, Process, Submit, Cancel, RequestCancel, Retry, Claim,
      LoadContext, Validate, InitStep, BeginStep, RunStep, RecordStep, Succeed, Unwind, UndoStep,
      ConcludeRollback, Finish, Timeout, RollbackTimeout, Shutdown, Exit, RecoverJobs,
      RecoverSteps, ClearRun, runVars

\* What the worker writes for an outcome is a status of the jobs table.
LEMMA CompletionType ==
    ASSUME outcome \in {"succeeded", "failed", "cancelled"}
    PROVE  Completion \in Statuses
  BY DEF Completion, Statuses, Terminal

\* The calls of users keep the shape.
LEMMA UserType ==
    ASSUME TypeOK, NEW j \in Jobs,
           Submit(j) \/ Cancel(j) \/ RequestCancel(j) \/ Retry(j)
    PROVE  TypeOK'
  <1> USE BoundAssumption DEF TypeOK, Statuses, Terminal, runVars, obsVars, boundVars
  <1>1. CASE Submit(j)
    BY <1>1 DEF Submit
  <1>2. CASE Cancel(j)
    BY <1>2 DEF Cancel
  <1>3. CASE RequestCancel(j)
    BY <1>3 DEF RequestCancel
  <1>4. CASE Retry(j)
    BY <1>4 DEF Retry
  <1> QED
    BY <1>1, <1>2, <1>3, <1>4

\* Whether the job's context is live is a truth value.
LEMMA LiveType == Live \in BOOLEAN
  BY Zenon DEF Live

\* A bookkeeping write changes one step row of the job, or is lost.
LEMMA WriteStepFacts ==
    ASSUME TypeOK, cur \in Jobs, NEW k \in Steps, NEW value \in StepStatuses, NEW live,
           WriteStep(k, value, live)
    PROVE  /\ step' \in [Jobs -> [Steps -> StepStatuses]]
           /\ blind' \subseteq Jobs
           /\ blind \subseteq blind'
           /\ \A j \in Jobs, m \in Steps : j # cur \/ m # k => step'[j][m] = step[j][m]
           /\ \/ blind' = blind /\ step'[cur][k] = value
              \/ blind' = blind \cup {cur} /\ step' = step
  <1>1. CASE live
    <2>1. step' = [step EXCEPT ![cur] = [step[cur] EXCEPT ![k] = value]] /\ blind' = blind
      BY <1>1 DEF WriteStep
    <2>2. [step[cur] EXCEPT ![k] = value] \in [Steps -> StepStatuses]
      BY DEF TypeOK
    <2> QED
      BY <2>1, <2>2 DEF TypeOK
  <1>2. CASE ~live
    BY <1>2 DEF WriteStep, TypeOK
  <1> QED
    BY <1>1, <1>2

\* The steps of the worker keep the shape.
LEMMA EngineType ==
    ASSUME TypeOK, LoopFits, OutcomeFits, Engine, Flags'
    PROVE  TypeOK'
  <1> USE StepAssumption DEF TypeOK, Flags, PCs, rowVars, obsVars, boundVars
  <1>1. CASE LoadContext
    BY <1>1 DEF LoadContext, ReturnError
  <1>2. CASE Validate
    BY <1>2, LiveType DEF Validate
  <1>3. CASE InitStep
    <2>1. i \in Steps /\ cur \in Jobs
      BY <1>3 DEF InitStep, LoopFits
    <2>2. CASE Live
      <3>1. step' \in [Jobs -> [Steps -> StepStatuses]] /\ blind' \subseteq Jobs
        BY <1>3, <2>1, <2>2, WriteStepFacts DEF InitStep, StepStatuses
      <3>2. i' \in 0..NSteps
        BY <1>3, <2>1, <2>2 DEF InitStep, Steps
      <3> QED
        BY <1>3, <2>2, <3>1, <3>2 DEF InitStep
    <2>3. CASE ~Live
      BY <1>3, <2>3 DEF InitStep, ReturnError
    <2> QED
      BY <2>2, <2>3
  <1>4. CASE BeginStep
    <2>1. i \in Steps /\ cur \in Jobs
      BY <1>4 DEF BeginStep, LoopFits
    <2>2. step' \in [Jobs -> [Steps -> StepStatuses]] /\ blind' \subseteq Jobs
      BY <1>4, <2>1, WriteStepFacts DEF BeginStep, StepStatuses
    <2> QED
      BY <1>4, <2>2 DEF BeginStep
  <1>5. CASE RunStep
    <2>1. i \in Steps /\ cur \in Jobs
      BY <1>5 DEF RunStep, LoopFits
    <2>2. effect' \in [Jobs -> SUBSET Steps]
      BY <1>5, <2>1 DEF RunStep
    <2> QED
      BY <1>5, <2>2 DEF RunStep
  <1>6. CASE RecordStep
    <2>1. i \in Steps /\ cur \in Jobs
      BY <1>6 DEF RecordStep, LoopFits
    <2>2. step' \in [Jobs -> [Steps -> StepStatuses]] /\ blind' \subseteq Jobs
      BY <1>6, <2>1, WriteStepFacts DEF RecordStep, StepStatuses
    <2>3. i' \in 0..NSteps
      BY <1>6, <2>1 DEF RecordStep, Steps
    <2> QED
      BY <1>6, <2>2, <2>3 DEF RecordStep
  <1>7. CASE Succeed
    BY <1>7 DEF Succeed
  <1>8. CASE Unwind
    BY <1>8 DEF Unwind, Statuses, Active
  <1>9. CASE UndoStep
    <2>1. i \in Steps /\ cur \in Jobs /\ i' \in 0..NSteps
      BY <1>9 DEF UndoStep, Steps
    <2>2. effect' \in [Jobs -> SUBSET Steps]
      BY <1>9, <2>1 DEF UndoStep
    <2>3. step' \in [Jobs -> [Steps -> StepStatuses]] /\ blind' \subseteq Jobs
      BY <1>9, <2>1, WriteStepFacts DEF UndoStep, StepStatuses
    <2> QED
      BY <1>9, <2>1, <2>2, <2>3 DEF UndoStep
  <1>10. CASE ConcludeRollback
    <2>1. rolledBack' \in [Jobs -> BOOLEAN] /\ notified' \in [Jobs -> BOOLEAN]
      BY <1>10, LiveType DEF ConcludeRollback
    <2> QED
      BY <1>10, <2>1 DEF ConcludeRollback
  <1>11. CASE Finish
    <2>1. Completion \in Statuses
      BY <1>11, CompletionType DEF Finish, OutcomeFits
    <2>2. status' \in [Jobs -> Statuses] /\ blind' \subseteq Jobs
      BY <1>11, <2>1 DEF Finish
    <2>3. pc' = "idle" /\ cur' = 0 /\ i' = 0 /\ done' = 0 /\ claimed' = 0 /\ outcome' = "none"
      BY <1>11 DEF Finish, ClearRun, NoJob
    <2>4. UNCHANGED <<attempts, cancelRequested, rolledBack, step, effect, api, ids,
                      notified, asked, runs, retries, exits, timeouts>>
      BY <1>11 DEF Finish
    <2> QED
      BY <2>2, <2>3, <2>4 DEF NoJob
  <1> QED
    BY <1>1, <1>2, <1>3, <1>4, <1>5, <1>6, <1>7, <1>8, <1>9, <1>10, <1>11 DEF Engine

\* Every step keeps the shape.
LEMMA NextType == TypeOK /\ LoopFits /\ OutcomeFits /\ [Next]_vars => TypeOK'
  <1> SUFFICES ASSUME TypeOK, LoopFits, OutcomeFits, [Next]_vars PROVE TypeOK'
    OBVIOUS
  <1>0. Next => Flags'
    BY NextFlags
  <1>1. CASE User
    BY <1>1, UserType DEF User
  <1>2. ASSUME NEW j \in Jobs, Claim(j) PROVE TypeOK'
    <2>1. Flags'
      BY <1>0, <1>2 DEF Next
    <2> QED
      BY <1>2, <2>1, StepAssumption DEF Claim, Flags, TypeOK, Statuses, Active, PCs, boundVars
  <1>3. CASE Engine
    BY <1>0, <1>3, EngineType DEF Next
  <1>4. CASE Timeout \/ RollbackTimeout
    <2>1. Flags'
      BY <1>0, <1>4 DEF Next
    <2> QED
      BY <1>4, <2>1, BoundAssumption
      DEF Timeout, RollbackTimeout, TypeOK, Flags, rowVars, obsVars
  <1>5. CASE Process
    <2> USE BoundAssumption, StepAssumption
        DEF TypeOK, Flags, rowVars, runVars, obsVars, boundVars
    <2>0. Flags'
      BY <1>0, <1>5 DEF Next
    <2>1. CASE Shutdown
      BY <2>1 DEF Shutdown
    <2>2. CASE Exit
      BY <2>0, <2>2 DEF Exit, ClearRun, NoJob, PCs
    <2>3. CASE RecoverJobs
      BY <2>3 DEF RecoverJobs, Statuses, Terminal
    <2>4. CASE RecoverSteps
      <3>1. step' \in [Jobs -> [Steps -> StepStatuses]]
        BY <2>4 DEF RecoverSteps, StepStatuses
      <3> QED
        BY <2>4, <3>1 DEF RecoverSteps
    <2> QED
      BY <1>5, <2>1, <2>2, <2>3, <2>4 DEF Process
  <1>6. CASE UNCHANGED vars
    BY <1>6 DEF vars, TypeOK, rowVars, runVars, obsVars, boundVars
  <1> QED
    BY <1>1, <1>2, <1>3, <1>4, <1>5, <1>6 DEF Next

-----------------------------------------------------------------------------
(* The inductive invariant.                                                *)

\* Before any row is inserted no job has run.
LEMMA InitInv == Init => IInv
  <1> SUFFICES ASSUME Init PROVE IInv
    OBVIOUS
  <1>1. TypeOK
    BY InitType
  <1>2. OwnsRow /\ OutcomeFits /\ LoopFits /\ EffectsDone /\ Tried
    BY DEF Init, OwnsRow, OutcomeFits, LoopFits, EffectsDone, Tried
  <1>3. SucceededIsComplete /\ FirstRun /\ RolledBackIsClean /\ Marked
    BY DEF Init, SucceededIsComplete, FirstRun, RolledBackIsClean, Marked
  <1> QED
    BY <1>1, <1>2, <1>3 DEF IInv

\* A call changes the status of a row that no worker owns and makes none
\* succeeded; it touches neither steps nor effects.
LEMMA UserInv ==
    ASSUME IInv, NEW j \in Jobs, TypeOK',
           Submit(j) \/ Cancel(j) \/ RequestCancel(j) \/ Retry(j)
    PROVE  IInv'
  <1> USE DEF IInv, runVars, boundVars
  <1>0. /\ UNCHANGED <<rolledBack, step, effect, api, runVars, runs, blind>>
        /\ \A k \in Jobs : k # j => status'[k] = status[k]
        /\ status'[j] = status[j] \/ (status[j] \notin Active /\ status'[j] # "succeeded")
    BY DEF TypeOK, Active, obsVars, Submit, Cancel, RequestCancel, Retry
  <1>1. OwnsRow'
    BY <1>0 DEF OwnsRow, Serving, TypeOK
  <1>2. OutcomeFits' /\ LoopFits'
    BY <1>0 DEF OutcomeFits, LoopFits
  <1>3. EffectsDone' /\ FirstRun' /\ RolledBackIsClean'
    BY <1>0 DEF EffectsDone, FirstRun, RolledBackIsClean
  <1>4. SucceededIsComplete'
    BY <1>0 DEF SucceededIsComplete
  <1>5. Marked' /\ Tried'
    BY <1>0 DEF Marked, Tried
  <1> QED
    BY <1>1, <1>2, <1>3, <1>4, <1>5

\* A claim begins a run: the first one finds no effect.
LEMMA ClaimInv ==
    ASSUME IInv, NEW j \in Jobs, Claim(j), TypeOK'
    PROVE  IInv'
  <1> USE DEF IInv, TypeOK, Claim
  <1>1. OwnsRow'
    BY DEF OwnsRow, Serving, Active
  <1>2. OutcomeFits' /\ LoopFits'
    BY DEF OutcomeFits, LoopFits
  <1>3. EffectsDone' /\ Tried'
    BY DEF EffectsDone, Tried
  <1>4. SucceededIsComplete'
    BY DEF SucceededIsComplete
  <1>5. FirstRun'
    <2>1. pc' = "load" /\ cur' = j /\ effect' = effect /\ rolledBack' = rolledBack
      OBVIOUS
    <2>2. /\ runs'[j] <= 1 => runs[j] = 0
          /\ \A k \in Jobs : runs'[k] = 0 => runs[k] = 0
      <3>1. runs \in [Jobs -> Nat] /\ runs' = [runs EXCEPT ![j] = @ + 1]
        OBVIOUS
      <3> HIDE DEF IInv, TypeOK, Claim
      <3> QED
        BY <3>1
    <2> HIDE DEF TypeOK, Claim
    <2> QED
      BY <2>1, <2>2 DEF FirstRun
  <1>6. RolledBackIsClean'
    BY DEF FirstRun, RolledBackIsClean
  <1>7. Marked'
    BY DEF FirstRun, Marked
  <1> QED
    BY <1>1, <1>2, <1>3, <1>4, <1>5, <1>6, <1>7

\* The statements before the first step change nothing but the program counter.
LEMMA PrepareInv ==
    ASSUME IInv, LoadContext \/ Validate, TypeOK'
    PROVE  IInv'
  <1> USE DEF IInv, rowVars, boundVars
  <1>0. /\ UNCHANGED <<status, rolledBack, step, effect, api, cur, done, runs>>
        /\ blind \subseteq blind'
        /\ pc \in {"load", "validate"}
        /\ \/ pc' = "finish" /\ outcome' = "failed"
           \/ pc' = "validate" /\ outcome' = outcome
           \/ pc' = "init" /\ outcome' = outcome /\ i' = 1
    BY DEF LoadContext, Validate, ReturnError
  <1>1. OwnsRow'
    BY <1>0 DEF OwnsRow, Serving
  <1>2. OutcomeFits' /\ LoopFits'
    BY <1>0, StepAssumption DEF OutcomeFits, LoopFits, Steps
  <1>3. EffectsDone' /\ SucceededIsComplete' /\ RolledBackIsClean'
    BY <1>0 DEF EffectsDone, SucceededIsComplete, RolledBackIsClean
  <1>4. FirstRun'
    BY <1>0 DEF FirstRun
  <1>5. Marked' /\ Tried'
    BY <1>0 DEF Marked, Tried
  <1> QED
    BY <1>1, <1>2, <1>3, <1>4, <1>5

\* The rows are reset while a first run has no effect yet.
LEMMA InitStepInv ==
    ASSUME IInv, InitStep, TypeOK'
    PROVE  IInv'
  <1> USE DEF IInv, rowVars, boundVars
  <1>0. /\ pc = "init" /\ cur \in Jobs /\ i \in Steps
        /\ UNCHANGED <<status, rolledBack, effect, api, cur, done, runs>>
        /\ \/ pc' = "finish" /\ outcome' = "failed" /\ step' = step
           \/ pc' = "check" /\ outcome' = outcome /\ i' = 1
           \/ pc' = "init" /\ outcome' = outcome /\ i # NSteps /\ i' = i + 1
    BY DEF InitStep, ReturnError, TypeOK, LoopFits
  <1>1. /\ blind \subseteq blind'
        /\ \A j \in Jobs, k \in Steps : j # cur => step'[j][k] = step[j][k]
    <2>1. CASE Live
      BY <1>0, <2>1, WriteStepFacts DEF InitStep, StepStatuses
    <2>2. CASE ~Live
      BY <2>2 DEF InitStep, ReturnError
    <2> QED
      BY <2>1, <2>2
  <1>2. OwnsRow'
    BY <1>0 DEF OwnsRow, Serving
  <1>3. OutcomeFits' /\ LoopFits'
    BY <1>0, StepAssumption DEF OutcomeFits, LoopFits, Steps
  <1>4. EffectsDone' /\ SucceededIsComplete' /\ RolledBackIsClean'
    BY <1>0 DEF EffectsDone, SucceededIsComplete, RolledBackIsClean, Steps
  <1>5. FirstRun'
    BY <1>0 DEF FirstRun
  <1>6. Marked'
    <2> SUFFICES ASSUME NEW j \in Jobs, runs'[j] <= 1, j \notin blind', NEW k \in effect'[j]
                 PROVE  step'[j][k] \in Telling
      BY <1>0 DEF Marked
    <2>1. j # cur /\ k \in Steps
      BY <1>0 DEF FirstRun, TypeOK
    <2> QED
      BY <1>0, <1>1, <2>1 DEF Marked
  <1>7. Tried'
    BY <1>0 DEF Tried
  <1> QED
    BY <1>2, <1>3, <1>4, <1>5, <1>6, <1>7

\* The row of a step is marked before the step runs.
LEMMA BeginStepInv ==
    ASSUME IInv, BeginStep, TypeOK'
    PROVE  IInv'
  <1> USE DEF IInv, rowVars, boundVars
  <1>0. /\ pc = "check" /\ cur \in Jobs /\ i \in Steps
        /\ UNCHANGED <<status, rolledBack, effect, api, cur, i, done, allBack, runs>>
        /\ \/ pc' = "unwind" /\ outcome' = "cancelled" /\ step' = step /\ blind' = blind
           \/ pc' = "run" /\ outcome' = outcome /\ WriteStep(i, "running", Live)
    BY DEF BeginStep, TypeOK, LoopFits
  <1>1. /\ blind \subseteq blind'
        /\ \A j \in Jobs, k \in Steps :
              step'[j][k] = step[j][k] \/ step'[j][k] = "running"
        /\ pc' = "run" => cur \in blind' \/ step'[cur][i] = "running"
    <2>1. CASE pc' = "run"
      BY <1>0, <2>1, WriteStepFacts DEF StepStatuses
    <2>2. CASE pc' = "unwind"
      BY <1>0, <2>2
    <2> QED
      BY <1>0, <2>1, <2>2
  <1>2. OwnsRow'
    BY <1>0 DEF OwnsRow, Serving
  <1>3. OutcomeFits' /\ LoopFits'
    BY <1>0 DEF OutcomeFits, LoopFits
  <1>4. EffectsDone' /\ SucceededIsComplete' /\ RolledBackIsClean'
    BY <1>0 DEF EffectsDone, SucceededIsComplete, RolledBackIsClean
  <1>5. FirstRun'
    <2>1. ASSUME runs[cur] <= 1
          PROVE  (\A k \in effect[cur] : k < i) /\ ~rolledBack[cur]
      BY <1>0, <2>1 DEF FirstRun
    <2>2. done = i - 1 /\ i \in Int /\ \A k \in effect[cur] : k \in Int
      BY <1>0, StepAssumption DEF LoopFits, TypeOK, Steps
    <2>3. runs[cur] <= 1 => \A k \in effect[cur] : k <= done
      BY <2>1, <2>2
    <2> QED
      BY <1>0, <2>1, <2>3 DEF FirstRun
  <1>6. Marked'
    BY <1>0, <1>1 DEF Marked, Telling, TypeOK
  <1>7. Tried'
    BY <1>0 DEF Tried
  <1> QED
    BY <1>2, <1>3, <1>4, <1>5, <1>6, <1>7

\* A step adds at most its own effect, whose row is marked.
LEMMA RunStepInv ==
    ASSUME IInv, RunStep, TypeOK'
    PROVE  IInv'
  <1> USE DEF IInv, rowVars, obsVars, boundVars
  <1>0. /\ pc = "run" /\ pc' = "record" /\ cur \in Jobs /\ i \in Steps
        /\ UNCHANGED <<status, rolledBack, step, api, cur, i, done, allBack, runs, blind>>
        /\ outcome' \in {"none", "failed", "cancelled"}
        /\ \/ effect' = [effect EXCEPT ![cur] = effect[cur] \cup {i}]
           \/ effect' = effect /\ outcome' # "none"
    BY DEF RunStep, TypeOK, LoopFits
  <1>1. /\ \A j \in Jobs : j # cur => effect'[j] = effect[j]
        /\ effect'[cur] = effect[cur] \/ effect'[cur] = effect[cur] \cup {i}
        /\ outcome' = "none" => i \in effect'[cur]
    BY <1>0 DEF TypeOK
  <1>2. OwnsRow'
    BY <1>0 DEF OwnsRow, Serving
  <1>3. OutcomeFits' /\ LoopFits'
    BY <1>0 DEF OutcomeFits, LoopFits
  <1>4. EffectsDone'
    BY <1>0, <1>1 DEF EffectsDone
  <1>5. SucceededIsComplete'
    BY <1>0, <1>1 DEF SucceededIsComplete, OwnsRow, Active
  <1>7. FirstRun'
    <2>1. ASSUME NEW j \in Jobs, runs'[j] = 0 PROVE effect'[j] = {} /\ ~rolledBack'[j]
      BY <1>0, <1>1, <2>1 DEF OwnsRow, FirstRun
    <2>2. ASSUME runs[cur] <= 1
          PROVE  (\A k \in effect'[cur] : k <= i) /\ ~rolledBack[cur]
      <3>1. (\A k \in effect[cur] : k < i) /\ ~rolledBack[cur]
        BY <1>0, <2>2 DEF FirstRun
      <3>2. i \in Int /\ \A k \in effect[cur] : k \in Int
        BY <1>0, StepAssumption DEF TypeOK, Steps
      <3> QED
        BY <1>1, <3>1, <3>2
    <2> QED
      BY <1>0, <2>1, <2>2 DEF FirstRun
  <1>6. RolledBackIsClean'
    BY <1>0, <1>1 DEF RolledBackIsClean, FirstRun
  <1>8. Marked' /\ Tried'
    BY <1>0, <1>1 DEF Marked, Telling, Tried, TypeOK
  <1> QED
    BY <1>2, <1>3, <1>4, <1>5, <1>6, <1>7, <1>8

\* The row of the step that has run tells of it, whether it failed or not.
LEMMA RecordStepInv ==
    ASSUME IInv, RecordStep, TypeOK'
    PROVE  IInv'
  <1> USE DEF IInv, rowVars, boundVars
  <1>0. /\ pc = "record" /\ cur \in Jobs /\ i \in Steps
        /\ UNCHANGED <<status, rolledBack, effect, api, cur, outcome, allBack, runs>>
        /\ done' = i
        /\ \/ pc' = "unwind" /\ outcome # "none" /\ i' = i
           \/ pc' = "succeed" /\ outcome = "none" /\ i = NSteps
           \/ pc' = "check" /\ outcome = "none" /\ i # NSteps /\ i' = i + 1
    BY DEF RecordStep, TypeOK, LoopFits
  <1>1. /\ blind \subseteq blind'
        /\ \A j \in Jobs, k \in Steps :
              step'[j][k] = step[j][k] \/ step'[j][k] \in {"succeeded", "failed"}
    <2>1. WriteStep(i, "succeeded", Live) \/ WriteStep(i, "failed", Live)
      BY DEF RecordStep
    <2> QED
      BY <1>0, <2>1, WriteStepFacts DEF StepStatuses
  <1>2. OwnsRow'
    BY <1>0 DEF OwnsRow, Serving
  <1>3. OutcomeFits' /\ LoopFits'
    BY <1>0, StepAssumption DEF OutcomeFits, LoopFits, Steps
  <1>4. EffectsDone'
    <2>1. CASE pc' = "unwind"
      BY <2>1 DEF EffectsDone
    <2>2. CASE pc' = "succeed"
      <3>1. \A k \in Steps : k < i \/ k = i
        BY <1>0, <2>2, StepAssumption DEF Steps
      <3>2. effect[cur] = Steps
        BY <1>0, <2>2, <3>1 DEF EffectsDone, TypeOK
      <3> QED
        BY <1>0, <2>2, <3>2 DEF EffectsDone
    <2>3. CASE pc' = "check"
      BY <1>0, <2>3, StepAssumption DEF EffectsDone, Steps
    <2> QED
      BY <1>0, <2>1, <2>2, <2>3
  <1>5. SucceededIsComplete' /\ RolledBackIsClean'
    BY <1>0 DEF SucceededIsComplete, RolledBackIsClean
  <1>6. FirstRun'
    <2>1. runs'[cur'] <= 1 => (\A k \in effect'[cur'] : k <= i) /\ ~rolledBack'[cur']
      BY <1>0 DEF FirstRun
    <2>2. pc' = "check" => \A k \in effect'[cur'] : k <= i => k < i'
      BY <1>0 DEF TypeOK, Steps
    <2> QED
      BY <1>0, <2>1, <2>2 DEF FirstRun
  <1>7. Marked'
    BY <1>0, <1>1 DEF Marked, Telling, TypeOK
  <1>8. Tried'
    BY <1>0 DEF Tried
  <1> QED
    BY <1>2, <1>3, <1>4, <1>5, <1>6, <1>7, <1>8

\* The handler returns nil after its last step.
LEMMA SucceedInv ==
    ASSUME IInv, Succeed, TypeOK'
    PROVE  IInv'
  <1> USE DEF IInv, rowVars, boundVars
  <1>0. /\ pc = "succeed" /\ pc' = "finish" /\ outcome' = "succeeded"
        /\ UNCHANGED <<status, rolledBack, step, effect, api, cur, i, done, allBack, runs>>
        /\ blind \subseteq blind'
    BY DEF Succeed
  <1>1. OwnsRow'
    BY <1>0 DEF OwnsRow, Serving
  <1>2. OutcomeFits' /\ LoopFits' /\ EffectsDone'
    BY <1>0 DEF OutcomeFits, LoopFits, EffectsDone
  <1>3. SucceededIsComplete' /\ RolledBackIsClean' /\ FirstRun'
    BY <1>0 DEF SucceededIsComplete, RolledBackIsClean, FirstRun
  <1>4. Marked' /\ Tried'
    BY <1>0 DEF Marked, Tried
  <1> QED
    BY <1>1, <1>2, <1>3, <1>4

\* The rollback starts at the last step that was begun.
LEMMA UnwindInv ==
    ASSUME IInv, Unwind, TypeOK'
    PROVE  IInv'
  <1> USE DEF IInv, boundVars
  <1>0. /\ pc = "unwind" /\ pc' = "undo" /\ cur \in Jobs /\ i' = done
        /\ UNCHANGED <<rolledBack, step, effect, api, cur, done, outcome, runs>>
        /\ blind \subseteq blind'
        /\ \A j \in Jobs : status'[j] = status[j] \/ status'[j] = "rolling_back"
    BY DEF Unwind, TypeOK
  <1>1. OwnsRow'
    BY <1>0 DEF OwnsRow, Serving, Active
  <1>2. OutcomeFits' /\ LoopFits' /\ EffectsDone'
    BY <1>0 DEF OutcomeFits, LoopFits, EffectsDone, TypeOK
  <1>3. SucceededIsComplete' /\ RolledBackIsClean'
    BY <1>0 DEF SucceededIsComplete, RolledBackIsClean
  <1>4. FirstRun'
    BY <1>0 DEF FirstRun
  <1>5. Marked'
    BY <1>0 DEF Marked
  <1>6. Tried'
    BY <1>0, StepAssumption DEF Tried, TypeOK
  <1> QED
    BY <1>1, <1>2, <1>3, <1>4, <1>5, <1>6

\* An Undo removes at most the effect of its own step, and its row tells of
\* the effect when it may not have.
LEMMA UndoStepInv ==
    ASSUME IInv, UndoStep, TypeOK'
    PROVE  IInv'
  <1> USE DEF IInv, rowVars, boundVars
  <1>0. /\ pc = "undo" /\ pc' = "undo" /\ cur \in Jobs /\ i \in Steps /\ i' = i - 1
        /\ UNCHANGED <<status, rolledBack, api, cur, done, outcome, runs>>
    BY DEF UndoStep, TypeOK, Steps
  <1>1. /\ \A j \in Jobs : j # cur => effect'[j] = effect[j]
        /\ effect'[cur] \subseteq effect[cur]
        /\ allBack' => allBack /\ (i \in Undoable => i \notin effect'[cur])
    BY <1>0 DEF UndoStep, TypeOK
  <1>2. /\ blind \subseteq blind'
        /\ \A j \in Jobs, k \in Steps : j # cur \/ k # i => step'[j][k] = step[j][k]
        /\ i \in Undoable =>
              \/ cur \in blind'
              \/ step'[cur][i] = "rolled_back" /\ i \notin effect'[cur]
              \/ step'[cur][i] = "rollback_failed"
        /\ i \notin Undoable => step' = step
    <2>1. CASE i \notin Undoable
      BY <2>1 DEF UndoStep
    <2>2. CASE /\ i \in Undoable
               /\ WriteStep(i, "rolled_back", rbCtx)
               /\ effect' = [effect EXCEPT ![cur] = @ \ {i}]
      BY <1>0, <2>2, WriteStepFacts DEF StepStatuses, TypeOK
    <2>3. CASE i \in Undoable /\ WriteStep(i, "rollback_failed", rbCtx)
      BY <1>0, <2>3, WriteStepFacts DEF StepStatuses
    <2> QED
      BY <2>1, <2>2, <2>3 DEF UndoStep
  <1>3. OwnsRow'
    BY <1>0 DEF OwnsRow, Serving
  <1>4. OutcomeFits' /\ LoopFits' /\ EffectsDone'
    BY <1>0 DEF OutcomeFits, LoopFits, EffectsDone, TypeOK, Steps
  <1>5. SucceededIsComplete' /\ RolledBackIsClean'
    BY <1>0, <1>1 DEF SucceededIsComplete, RolledBackIsClean, OwnsRow, Active
  <1>6. FirstRun'
    <2>1. ASSUME NEW j \in Jobs, runs'[j] = 0 PROVE effect'[j] = {} /\ ~rolledBack'[j]
      BY <1>0, <1>1, <2>1 DEF FirstRun
    <2>2. ASSUME runs'[cur'] <= 1
          PROVE  /\ allBack' => \A k \in effect'[cur'] \cap Undoable : k <= i'
                 /\ ~rolledBack'[cur']
      <3>1. allBack => \A k \in effect[cur] \cap Undoable : k <= i
        BY <1>0, <2>2 DEF FirstRun
      <3>2. \A k \in Undoable : k <= i /\ k # i => k <= i'
        BY <1>0, StepAssumption DEF Steps
      <3>3. ~rolledBack'[cur']
        BY <1>0, <2>2 DEF FirstRun
      <3> QED
        BY <1>0, <1>1, <3>1, <3>2, <3>3
    <2> QED
      BY <1>0, <2>1, <2>2 DEF FirstRun
  <1>7. Marked'
    <2> SUFFICES ASSUME NEW j \in Jobs, runs'[j] <= 1, j \notin blind', NEW k \in effect'[j]
                 PROVE  step'[j][k] \in Telling
      BY <1>0 DEF Marked
    <2>1. k \in effect[j] /\ k \in Steps /\ step[j][k] \in Telling
      BY <1>0, <1>1, <1>2 DEF Marked, TypeOK
    <2>2. CASE j # cur \/ k # i \/ i \notin Undoable
      BY <1>2, <2>1, <2>2
    <2>3. CASE j = cur /\ k = i /\ i \in Undoable
      BY <1>2, <2>3 DEF Telling
    <2> QED
      BY <2>2, <2>3
  <1>8. Tried'
    <2> SUFFICES ASSUME cur \notin blind', NEW m \in Undoable, i' < m, m <= done
                 PROVE  step'[cur][m] \in {"rolled_back", "rollback_failed"}
      BY <1>0 DEF Tried
    <2>1. m \in Steps /\ (m = i \/ i < m)
      BY <1>0, StepAssumption DEF Steps
    <2> QED
      BY <1>0, <1>2, <2>1 DEF Tried
  <1> QED
    BY <1>3, <1>4, <1>5, <1>6, <1>7, <1>8

\* The job is marked as rolled back only when the Undo of every step was tried
\* and none failed.
LEMMA ConcludeRollbackInv ==
    ASSUME IInv, ConcludeRollback, TypeOK'
    PROVE  IInv'
  <1> USE DEF IInv, boundVars
  <1>0. /\ pc = "undo" /\ pc' = "finish" /\ cur \in Jobs /\ i = 0
        /\ UNCHANGED <<status, step, effect, api, cur, i, done, outcome, runs>>
        /\ blind \subseteq blind'
    BY DEF ConcludeRollback, TypeOK
  <1>1. /\ \A j \in Jobs : j # cur => rolledBack'[j] = rolledBack[j]
        /\ rolledBack'[cur] => rolledBack[cur] \/ allBack
    BY <1>0 DEF ConcludeRollback, TypeOK
  <1>2. OwnsRow'
    BY <1>0 DEF OwnsRow, Serving
  <1>3. OutcomeFits' /\ LoopFits' /\ EffectsDone' /\ SucceededIsComplete'
    BY <1>0 DEF OutcomeFits, LoopFits, EffectsDone, SucceededIsComplete
  <1>4. FirstRun'
    BY <1>0, <1>1 DEF FirstRun, OwnsRow, TypeOK
  <1>5. RolledBackIsClean'
    <2> SUFFICES ASSUME NEW j \in Jobs, rolledBack'[j], runs[j] <= 1
                 PROVE  effect[j] \cap Undoable = {}
      BY <1>0 DEF RolledBackIsClean
    <2>1. CASE j # cur
      BY <1>1, <2>1 DEF RolledBackIsClean
    <2>2. CASE j = cur
      <3>1. \A k \in effect[cur] \cap Undoable : k <= 0
        BY <1>0, <1>1, <2>2 DEF FirstRun
      <3>2. \A k \in Undoable : ~(k <= 0)
        BY StepAssumption
      <3> QED
        BY <2>2, <3>1, <3>2
    <2> QED
      BY <2>1, <2>2
  <1>6. Marked' /\ Tried'
    BY <1>0 DEF Marked, Tried
  <1> QED
    BY <1>2, <1>3, <1>4, <1>5, <1>6

\* The worker writes "succeeded" only for a run that did every step.
LEMMA FinishInv ==
    ASSUME IInv, Finish, TypeOK'
    PROVE  IInv'
  <1> USE DEF IInv, boundVars
  <1>0. /\ pc = "finish" /\ pc' = "idle" /\ cur \in Jobs
        /\ UNCHANGED <<rolledBack, step, effect, api, runs>>
        /\ blind \subseteq blind'
        /\ done' = 0
    BY DEF Finish, ClearRun, TypeOK
  <1>1. \A j \in Jobs : status'[j] = "succeeded" =>
            status[j] = "succeeded" \/ (j = cur /\ outcome = "succeeded")
    BY <1>0 DEF Finish, Completion, TypeOK
  <1>2. OwnsRow' /\ OutcomeFits' /\ LoopFits' /\ EffectsDone' /\ Tried'
    BY <1>0 DEF OwnsRow, OutcomeFits, LoopFits, EffectsDone, Tried
  <1>3. SucceededIsComplete'
    BY <1>0, <1>1 DEF SucceededIsComplete, EffectsDone
  <1>4. FirstRun' /\ RolledBackIsClean' /\ Marked'
    BY <1>0 DEF FirstRun, RolledBackIsClean, Marked
  <1> QED
    BY <1>2, <1>3, <1>4

\* Contexts that expire change nothing the invariant speaks of.
LEMMA TimeoutInv ==
    ASSUME IInv, Timeout \/ RollbackTimeout, TypeOK'
    PROVE  IInv'
  <1> USE DEF IInv, rowVars, obsVars
  <1>0. UNCHANGED <<status, rolledBack, step, effect, api, pc, cur, i, done, outcome, allBack,
                    runs, blind>>
    BY DEF Timeout, RollbackTimeout
  <1>1. OwnsRow' /\ OutcomeFits' /\ LoopFits'
    BY <1>0 DEF OwnsRow, Serving, OutcomeFits, LoopFits
  <1>2. EffectsDone' /\ SucceededIsComplete' /\ RolledBackIsClean'
    BY <1>0 DEF EffectsDone, SucceededIsComplete, RolledBackIsClean
  <1>3. FirstRun'
    BY <1>0 DEF FirstRun
  <1>4. Marked' /\ Tried'
    BY <1>0 DEF Marked, Tried
  <1> QED
    BY <1>1, <1>2, <1>3, <1>4

\* The end of the process takes its worker along, and recovery, which runs
\* before a worker starts, keeps what the rows tell.
LEMMA ProcessInv ==
    ASSUME IInv, Process, TypeOK'
    PROVE  IInv'
  <1> USE DEF IInv, rowVars, runVars, obsVars, boundVars
  <1>1. CASE Shutdown
    <2>0. /\ api' = "stopping"
          /\ UNCHANGED <<status, rolledBack, step, effect, pc, cur, i, done, outcome, allBack,
                         runs, blind>>
      BY <1>1 DEF Shutdown
    <2>1. OwnsRow' /\ OutcomeFits' /\ LoopFits'
      BY <2>0 DEF OwnsRow, Serving, OutcomeFits, LoopFits
    <2>2. EffectsDone' /\ SucceededIsComplete' /\ RolledBackIsClean'
      BY <2>0 DEF EffectsDone, SucceededIsComplete, RolledBackIsClean
    <2>3. FirstRun'
      BY <2>0 DEF FirstRun
    <2>4. Marked' /\ Tried'
      BY <2>0 DEF Marked, Tried
    <2> QED
      BY <2>1, <2>2, <2>3, <2>4
  <1>2. CASE Exit \/ RecoverJobs \/ RecoverSteps
    <2>0. /\ pc' = "idle"
          /\ UNCHANGED <<rolledBack, effect, runs>>
          /\ blind \subseteq blind'
      BY <1>2 DEF Exit, ClearRun, RecoverJobs, RecoverSteps, OwnsRow, Serving
    <2>1. /\ \A j \in Jobs : status'[j] = "succeeded" => status[j] = "succeeded"
          /\ \A j \in Jobs, k \in Steps :
                step'[j][k] = step[j][k] \/ step'[j][k] = "failed"
      BY <1>2 DEF Exit, RecoverJobs, RecoverSteps, TypeOK
    <2>2. OwnsRow' /\ OutcomeFits' /\ LoopFits' /\ EffectsDone' /\ Tried'
      BY <2>0 DEF OwnsRow, OutcomeFits, LoopFits, EffectsDone, Tried
    <2>3. SucceededIsComplete' /\ RolledBackIsClean' /\ FirstRun'
      BY <2>0, <2>1 DEF SucceededIsComplete, RolledBackIsClean, FirstRun
    <2>4. Marked'
      BY <2>0, <2>1 DEF Marked, Telling, TypeOK
    <2> QED
      BY <2>2, <2>3, <2>4
  <1> QED
    BY <1>1, <1>2 DEF Process

\* Every step of the system keeps the inductive invariant.
LEMMA NextInv == IInv /\ [Next]_vars => IInv'
  <1> SUFFICES ASSUME IInv, [Next]_vars PROVE IInv'
    OBVIOUS
  <1>0. TypeOK'
    BY NextType DEF IInv
  <1>1. CASE User
    BY <1>0, <1>1, UserInv DEF User
  <1>2. CASE \E j \in Jobs : Claim(j)
    BY <1>0, <1>2, ClaimInv
  <1>3. CASE Engine
    BY <1>0, <1>3, PrepareInv, InitStepInv, BeginStepInv, RunStepInv, RecordStepInv, SucceedInv,
       UnwindInv, UndoStepInv, ConcludeRollbackInv, FinishInv
    DEF Engine
  <1>4. CASE Timeout \/ RollbackTimeout
    BY <1>0, <1>4, TimeoutInv
  <1>5. CASE Process
    BY <1>0, <1>5, ProcessInv
  <1>6. CASE UNCHANGED vars
    <2> USE <1>6 DEF vars, rowVars, runVars, obsVars, boundVars
    <2>1. OwnsRow' /\ OutcomeFits' /\ LoopFits'
      BY DEF IInv, OwnsRow, Serving, OutcomeFits, LoopFits
    <2>2. EffectsDone' /\ SucceededIsComplete' /\ RolledBackIsClean'
      BY DEF IInv, EffectsDone, SucceededIsComplete, RolledBackIsClean
    <2>3. FirstRun'
      BY DEF IInv, FirstRun
    <2>4. Marked' /\ Tried'
      BY DEF IInv, Marked, Tried
    <2> QED
      BY <1>0, <2>1, <2>2, <2>3, <2>4 DEF IInv
  <1> QED
    BY <1>1, <1>2, <1>3, <1>4, <1>5, <1>6 DEF Next

\* The inductive invariant holds in every reachable state.
THEOREM Invariance == Spec => []IInv
  BY InitInv, NextInv, PTL DEF Spec

\* Every reachable state has the shape of TypeOK.
THEOREM TypeCorrect == Spec => []TypeOK
  <1>1. IInv => TypeOK
    BY DEF IInv
  <1> QED
    BY <1>1, Invariance, PTL

-----------------------------------------------------------------------------
(* The properties.                                                         *)

\* A job that Engine.execute and the worker ended as succeeded has the effect
\* of every step in place, after whatever failures, retries and restarts.
THEOREM SucceededIsCompleteHolds == Spec => []SucceededIsComplete
  <1>1. IInv => SucceededIsComplete
    BY DEF IInv
  <1> QED
    BY <1>1, Invariance, PTL

\* What a first run leaves behind is listed in the step rows, as
\* RecoverInterrupted promises, when no bookkeeping write was lost.
THEOREM LeftoversListedHolds == Spec => []LeftoversListed
  <1>1. IInv => LeftoversListed
    BY DEF IInv, Marked, Telling, LeftoversListed
  <1> QED
    BY <1>1, Invariance, PTL

\* markRolledBack tells the truth about a first run.
THEOREM RolledBackIsCleanHolds == Spec => []RolledBackIsClean
  <1>1. IInv => RolledBackIsClean
    BY DEF IInv
  <1> QED
    BY <1>1, Invariance, PTL

\* The rollback loop undoes in reverse order: an effect goes only after the
\* Undo of every later step was tried, whatever interleaves with the loop.
THEOREM UndoInReverseHolds == Spec => UndoInReverse
  <1> DEFINE Reversed ==
        \A k \in Undoable :
          cur \in Jobs /\ k \in effect[cur] /\ k \notin effect'[cur] =>
             \A m \in Undoable :
                k < m /\ m <= done =>
                   \/ cur \in blind
                   \/ step[cur][m] \in {"rolled_back", "rollback_failed"}
  <1>1. IInv /\ [Next]_vars => [Reversed]_vars
    <2> SUFFICES ASSUME IInv, Next,
                        NEW k \in Undoable, cur \in Jobs, k \in effect[cur],
                        k \notin effect'[cur],
                        NEW m \in Undoable, k < m, m <= done, cur \notin blind
                 PROVE  step[cur][m] \in {"rolled_back", "rollback_failed"}
      OBVIOUS
    <2>1. RunStep => effect[cur] \subseteq effect'[cur]
      BY DEF RunStep, IInv, TypeOK
    <2>2. UndoStep
      BY <2>1 DEF Next, User, Engine, Process, Submit, Cancel, RequestCancel, Retry, Claim,
         LoadContext, Validate, InitStep, BeginStep, RecordStep, Succeed, Unwind,
         ConcludeRollback, Finish, Timeout, RollbackTimeout, Shutdown, Exit, RecoverJobs,
         RecoverSteps
    <2>3. pc = "undo" /\ k = i
      BY <2>2 DEF UndoStep, IInv, TypeOK
    <2> QED
      BY <2>3 DEF IInv, Tried
  <1> QED
    BY <1>1, Invariance, PTL DEF Spec, UndoInReverse

-----------------------------------------------------------------------------
(* The engine implements the job queue of one process.                     *)

\* One process: writing its entry of a table of processes gives its new table.
LEMMA OneEntry ==
    ASSUME NEW old, NEW new
    PROVE  [[w \in {Instance} |-> old] EXCEPT ![Instance] = new] = [w \in {Instance} |-> new]
  OBVIOUS

\* The first state is a first state of the queue.
LEMMA InitImplements == Init => JQ!Init
  BY DEF Init, JQ!Init, NoJob, JQ!NoJob

\* A call on a row is a call on the queue, or marks a running job only.
LEMMA UserImplements ==
    ASSUME IInv, NEW j \in Jobs, Submit(j) \/ Cancel(j) \/ RequestCancel(j) \/ Retry(j)
    PROVE  JQ!Next \/ UNCHANGED JQ!vars
  <1> USE DEF runVars, boundVars
  <1>1. JQ!Serving
    BY DEF Submit, Cancel, RequestCancel, Retry, Serving, JQ!Serving
  <1>2. CASE Submit(j)
    <2>1. JQ!Enqueue(j)
      BY <1>1, <1>2 DEF Submit, JQ!Enqueue, JQ!procVars, JQ!boundVars
    <2> QED
      BY <2>1 DEF JQ!Next, JQ!User
  <1>3. CASE Cancel(j) \/ (RequestCancel(j) /\ status[j] = "queued")
    <2>1. JQ!Cancel(j)
      BY <1>1, <1>3 DEF Cancel, RequestCancel, JQ!Cancel, JQ!procVars, JQ!boundVars
    <2> QED
      BY <2>1 DEF JQ!Next, JQ!User
  <1>4. CASE Retry(j)
    <2>1. JQ!Retry(j)
      BY <1>1, <1>4 DEF Retry, JQ!Retry, JQ!procVars
    <2> QED
      BY <2>1 DEF JQ!Next, JQ!User
  <1>5. CASE RequestCancel(j) /\ status[j] # "queued"
    <2>1. status' = status
      BY <1>5 DEF RequestCancel, IInv, TypeOK
    <2> QED
      BY <1>5, <2>1 DEF RequestCancel, JQ!vars
  <1> QED
    BY <1>2, <1>3, <1>4, <1>5

\* A claim is a claim.
LEMMA ClaimImplements ==
    ASSUME IInv, NEW j \in Jobs, Claim(j)
    PROVE  JQ!Next
  <1>1. JQ!Claim(Instance)
    BY OneEntry
    DEF Claim, NextQueued, NoJob, boundVars, JQ!Claim, JQ!NextQueued, JQ!NoJob, JQ!boundVars
  <1> QED
    BY <1>1 DEF JQ!Next, JQ!Worker

\* The handler of the engine announces its rollback and returns an outcome;
\* nothing else it does concerns the queue.
LEMMA EngineImplements ==
    ASSUME IInv, Engine
    PROVE  JQ!Next \/ UNCHANGED JQ!vars
  <1>0. cur \in Jobs /\ cur # NoJob /\ pc # "idle"
    BY JobsAssumption
    DEF IInv, TypeOK, NoJob, Engine, LoadContext, Validate, InitStep, BeginStep, RunStep,
        RecordStep, Succeed, Unwind, UndoStep, ConcludeRollback, Finish
  <1>1. CASE Unwind /\ Live
    <2>1. JQ!RollBack(Instance)
      BY <1>0, <1>1
      DEF Unwind, Live, NoJob, boundVars, JQ!RollBack, JQ!NoJob, JQ!procVars, JQ!boundVars
    <2> QED
      BY <2>1 DEF JQ!Next, JQ!Worker
  <1>2. CASE Finish
    <2>1. outcome \in JQ!Outcomes /\ api \in {"up", "stopping"}
      BY <1>0, <1>2 DEF Finish, IInv, OutcomeFits, OwnsRow, Serving, JQ!Outcomes
    <2>2. Completion = JQ!Completion(Instance, outcome)
      BY <1>0 DEF Completion, JQ!Completion
    <2>3. JQ!Complete(Instance, outcome)
      BY <1>0, <1>2, <2>1, <2>2, OneEntry
      DEF Finish, ClearRun, NoJob, boundVars, JQ!Complete, JQ!NoJob
    <2> QED
      BY <2>1, <2>3 DEF JQ!Next, JQ!Worker
  <1>3. CASE Unwind /\ ~Live
    BY <1>0, <1>3 DEF Unwind, JQ!vars, boundVars
  <1>4. CASE LoadContext \/ Validate \/ InitStep
    BY <1>0, <1>4 DEF LoadContext, Validate, InitStep, ReturnError, JQ!vars, rowVars, boundVars
  <1>5. CASE BeginStep \/ RunStep \/ RecordStep \/ Succeed
    BY <1>0, <1>5 DEF BeginStep, RunStep, RecordStep, Succeed, JQ!vars, rowVars, boundVars
  <1>6. CASE UndoStep \/ ConcludeRollback
    BY <1>0, <1>6 DEF UndoStep, ConcludeRollback, JQ!vars, rowVars, boundVars
  <1> QED
    BY <1>1, <1>2, <1>3, <1>4, <1>5, <1>6 DEF Engine

\* The process of the engine is a process of the queue, which has recovered
\* once its first statement went through.
LEMMA ProcessImplements ==
    ASSUME IInv, Process
    PROVE  JQ!Next \/ UNCHANGED JQ!vars
  <1> USE DEF rowVars, runVars, boundVars
  <1>1. CASE Shutdown
    <2>1. JQ!Shutdown(Instance)
      BY <1>1, OneEntry DEF Shutdown, JQ!Shutdown, JQ!rowVars, JQ!boundVars
    <2> QED
      BY <2>1 DEF JQ!Next, JQ!Process
  <1>2. CASE Exit
    <2>1. exits' = exits + 1 /\ exits' - 1 = exits
      BY <1>2, BoundAssumption DEF Exit, IInv, TypeOK
    <2>2. JQ!Exit(Instance)
      BY <1>2, <2>1, OneEntry DEF Exit, ClearRun, NoJob, JQ!Exit, JQ!NoJob, JQ!rowVars
    <2> QED
      BY <2>2 DEF JQ!Next, JQ!Process
  <1>3. CASE RecoverJobs
    <2>1. JQ!RecoverInterrupted(Instance)
      BY <1>3, OneEntry, BoundAssumption
      DEF RecoverJobs, IInv, TypeOK, Active, JQ!RecoverInterrupted, JQ!Active
    <2> QED
      BY <2>1 DEF JQ!Next, JQ!Process
  <1>4. CASE RecoverSteps
    BY <1>4 DEF RecoverSteps, JQ!vars
  <1> QED
    BY <1>1, <1>2, <1>3, <1>4 DEF Process

\* Engine, worker and recovery together change the jobs table only as the
\* abstract queue would, so that what JobQueueProofs shows of one process holds
\* of the engine.
THEOREM Refinement == Spec => ImplementsJobQueue
  <1>1. IInv /\ [Next]_vars => [JQ!Next]_JQ!vars
    <2> SUFFICES ASSUME IInv, [Next]_vars PROVE JQ!Next \/ UNCHANGED JQ!vars
      OBVIOUS
    <2>1. CASE User
      BY <2>1, UserImplements DEF User
    <2>2. CASE \E j \in Jobs : Claim(j)
      BY <2>2, ClaimImplements
    <2>3. CASE Engine
      BY <2>3, EngineImplements
    <2>4. CASE Timeout \/ RollbackTimeout
      BY <2>4 DEF Timeout, RollbackTimeout, JQ!vars, rowVars
    <2>5. CASE Process
      BY <2>5, ProcessImplements
    <2>6. CASE UNCHANGED vars
      BY <2>6 DEF vars, rowVars, runVars, boundVars, JQ!vars
    <2> QED
      BY <2>1, <2>2, <2>3, <2>4, <2>5, <2>6 DEF Next
  <1> QED
    BY <1>1, InitImplements, Invariance, PTL DEF Spec, ImplementsJobQueue, JQ!Spec
=============================================================================
