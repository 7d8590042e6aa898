--------------------------- MODULE JobQueueProofs ---------------------------
(***************************************************************************)
(* Proofs about JobQueue, for any number of processes and jobs and any     *)
(* bounds on retries, exits, restarts and faults.                          *)
(***************************************************************************)
EXTENDS JobQueue, TLAPS

\* Only deployed processes run, and a process that is down executes nothing.
LifeCycle ==
    \A w \in Instances :
        /\ w \notin deployed => inst[w] = "down"
        /\ inst[w] = "down" => holds[w] = NoJob

\* A row that is not there has used no attempt.
AbsentUnused == \A j \in Jobs : status[j] = "absent" => attempts[j] = 0

\* The inductive invariant.
IInv ==
    /\ TypeOK
    /\ LifeCycle
    /\ OneRunner
    /\ AbsentUnused
    /\ AttemptsBounded

-----------------------------------------------------------------------------
(* Type correctness.                                                       *)

\* The first state has the shape of TypeOK.
LEMMA InitType == Init => TypeOK
  BY BoundAssumption DEF Init, TypeOK, Statuses, NoJob

\* Every call, worker step and process step keeps the shape.
LEMMA NextType == TypeOK /\ [Next]_vars => TypeOK'
  <1> SUFFICES ASSUME TypeOK, [Next]_vars PROVE TypeOK'
    OBVIOUS
  <1> USE BoundAssumption DEF TypeOK, rowVars, procVars, boundVars, Statuses, Active, Terminal
  <1>1. ASSUME NEW j \in Jobs, Enqueue(j) PROVE TypeOK'
    BY <1>1 DEF Enqueue
  <1>2. ASSUME NEW j \in Jobs, Cancel(j) PROVE TypeOK'
    BY <1>2 DEF Cancel
  <1>3. ASSUME NEW j \in Jobs, Retry(j) PROVE TypeOK'
    BY <1>3 DEF Retry
  <1>4. ASSUME NEW w \in Instances, Claim(w) PROVE TypeOK'
    BY <1>4 DEF Claim
  <1>5. ASSUME NEW w \in Instances, RollBack(w) PROVE TypeOK'
    BY <1>5 DEF RollBack, NoJob
  <1>6. ASSUME NEW w \in Instances, NEW outcome \in Outcomes, Complete(w, outcome)
        PROVE  TypeOK'
    <2>1. Completion(w, outcome) \in Statuses
      BY DEF Completion, Outcomes
    <2> QED
      BY <1>6, <2>1 DEF Complete, NoJob
  <1>7. ASSUME NEW w \in Instances, Shutdown(w) PROVE TypeOK'
    BY <1>7 DEF Shutdown
  <1>8. ASSUME NEW w \in Instances, Exit(w) PROVE TypeOK'
    BY <1>8 DEF Exit
  <1>9. ASSUME NEW w \in Instances, RecoverInterrupted(w) PROVE TypeOK'
    BY <1>9 DEF RecoverInterrupted
  <1>10. CASE UNCHANGED vars
    BY <1>10 DEF vars
  <1> QED
    BY <1>1, <1>2, <1>3, <1>4, <1>5, <1>6, <1>7, <1>8, <1>9, <1>10
    DEF Next, User, Worker, Process

\* Every state of the queue has the shape TypeOK: the statuses written by the
\* calls, the worker and the recovery are those of the jobs table.
THEOREM TypeCorrect == Spec => []TypeOK
  <1> QED
    BY InitType, NextType, PTL DEF Spec

-----------------------------------------------------------------------------
(* The inductive invariant.                                                *)

\* Before any row is inserted nothing is held and no attempt is used.
LEMMA InitInv == Init => IInv
  <1> SUFFICES ASSUME Init PROVE IInv
    OBVIOUS
  <1>1. TypeOK
    BY InitType
  <1>2. LifeCycle
    BY DEF Init, LifeCycle
  <1>3. OneRunner
    BY DEF Init, OneRunner, Exclusive, RunnerOwnsRow
  <1>4. AbsentUnused
    BY DEF Init, AbsentUnused
  <1>5. AttemptsBounded
    BY RowAssumption DEF Init, AttemptsBounded
  <1> QED
    BY <1>1, <1>2, <1>3, <1>4, <1>5 DEF IInv

\* A deployment that is supported after a step was supported before it.
LEMMA SupportedBefore == TypeOK /\ Next /\ Supported' => Supported
  <1> SUFFICES ASSUME TypeOK, Next, Supported' PROVE Supported
    OBVIOUS
  <1> USE BoundAssumption DEF TypeOK, Supported, procVars, boundVars
  <1>1. deployed' = deployed /\ (restarts' = restarts \/ restarts' = restarts + 1)
    BY DEF Next, User, Worker, Process, Enqueue, Cancel, Retry, Claim, RollBack,
           Complete, Shutdown, Exit, RecoverInterrupted
  <1> QED
    BY <1>1

\* The calls of users do not touch the row of a worker.
LEMMA UserInv ==
    ASSUME IInv, NEW j \in Jobs, Enqueue(j) \/ Cancel(j) \/ Retry(j), TypeOK'
    PROVE  IInv'
  <1> USE JobsAssumption, RowAssumption, BoundAssumption
      DEF IInv, TypeOK, procVars, boundVars
  <1>1. LifeCycle'
    BY DEF LifeCycle, Enqueue, Cancel, Retry
  <1>2. OneRunner'
    <2> SUFFICES ASSUME Supported' PROVE Exclusive' /\ RunnerOwnsRow'
      BY DEF OneRunner
    <2>1. /\ status[j] \notin Active
          /\ holds' = holds /\ att' = att /\ deployed' = deployed /\ restarts' = restarts
          /\ \A k \in Jobs : k # j => status'[k] = status[k] /\ attempts'[k] = attempts[k]
      BY DEF Enqueue, Cancel, Retry, Active
    <2>2. Exclusive /\ RunnerOwnsRow
      BY <2>1 DEF OneRunner, Supported
    <2>3. \A w \in Instances : holds[w] # NoJob => holds[w] \in Jobs /\ holds[w] # j
      BY <2>1, <2>2 DEF RunnerOwnsRow
    <2>4. Exclusive'
      BY <2>1, <2>2 DEF Exclusive
    <2>5. RunnerOwnsRow'
      BY <2>1, <2>2, <2>3 DEF RunnerOwnsRow
    <2> QED
      BY <2>4, <2>5
  <1>3. AbsentUnused'
    BY DEF AbsentUnused, Enqueue, Cancel, Retry
  <1>4. AttemptsBounded'
    BY DEF AttemptsBounded, AbsentUnused, Supported, Enqueue, Cancel, Retry
  <1> QED
    BY <1>1, <1>2, <1>3, <1>4

\* A claim takes a queued row, which no worker holds.
LEMMA ClaimInv ==
    ASSUME IInv, NEW w \in Instances, Claim(w), TypeOK'
    PROVE  IInv'
  <1> USE JobsAssumption, RowAssumption, BoundAssumption
      DEF IInv, TypeOK, boundVars
  <1>0. PICK j \in Jobs :
          /\ status[j] = "queued"
          /\ status' = [status EXCEPT ![j] = "running"]
          /\ attempts' = [attempts EXCEPT ![j] = @ + 1]
          /\ holds' = [holds EXCEPT ![w] = j]
          /\ att' = [att EXCEPT ![w] = attempts[j] + 1]
    BY DEF Claim, NextQueued
  <1>1. LifeCycle'
    BY <1>0 DEF LifeCycle, Claim
  <1>2. OneRunner'
    BY <1>0 DEF OneRunner, Supported, Exclusive, RunnerOwnsRow, Active, Claim, NoJob
  <1>3. AbsentUnused'
    BY <1>0 DEF AbsentUnused
  <1>4. AttemptsBounded'
    BY <1>0 DEF AttemptsBounded, Supported, Claim
  <1> QED
    BY <1>1, <1>2, <1>3, <1>4

\* A worker that rolls back keeps its job.
LEMMA RollBackInv ==
    ASSUME IInv, NEW w \in Instances, RollBack(w), TypeOK'
    PROVE  IInv'
  <1> USE JobsAssumption, RowAssumption DEF IInv, TypeOK, procVars, boundVars, RollBack, NoJob
  <1>1. LifeCycle'
    BY DEF LifeCycle
  <1>2. OneRunner'
    BY DEF OneRunner, Supported, Exclusive, RunnerOwnsRow, Active
  <1>3. AbsentUnused'
    BY DEF AbsentUnused
  <1>4. AttemptsBounded'
    BY DEF AttemptsBounded, Supported
  <1> QED
    BY <1>1, <1>2, <1>3, <1>4

\* The unguarded completion write changes the worker's own row, and requeues it
\* only when the attempts of the claim, which are still those of the row, leave
\* one more.
LEMMA CompleteInv ==
    ASSUME IInv, NEW w \in Instances, NEW outcome \in Outcomes, Complete(w, outcome), TypeOK'
    PROVE  IInv'
  <1> USE JobsAssumption, RowAssumption, BoundAssumption DEF IInv, TypeOK, NoJob
  <1>0. /\ holds[w] \in Jobs
        /\ deployed' = deployed /\ restarts' = restarts /\ inst' = inst
        /\ attempts' = attempts
        /\ holds' = [holds EXCEPT ![w] = NoJob]
        /\ att' = [att EXCEPT ![w] = 0]
        /\ \/ status' = [status EXCEPT ![holds[w]] = Completion(w, outcome)]
           \/ status' = status
    BY DEF Complete
  <1>1. LifeCycle'
    BY <1>0 DEF LifeCycle
  <1>2. OneRunner'
    <2> SUFFICES ASSUME Supported' PROVE Exclusive' /\ RunnerOwnsRow'
      BY DEF OneRunner
    <2>1. Exclusive /\ RunnerOwnsRow
      BY <1>0 DEF OneRunner, Supported
    <2>2. Exclusive'
      BY <1>0, <2>1 DEF Exclusive
    <2>3. ASSUME NEW v \in Instances, holds'[v] # 0
          PROVE  status'[holds'[v]] \in Active /\ attempts'[holds'[v]] = att'[v]
      <3>1. v # w /\ holds'[v] = holds[v] /\ att'[v] = att[v]
        BY <1>0, <2>3
      <3>2. holds[v] \in Jobs /\ holds[v] # holds[w]
        BY <1>0, <2>1, <2>3, <3>1 DEF Exclusive
      <3>3. status'[holds[v]] = status[holds[v]]
        BY <1>0, <3>2
      <3> QED
        BY <1>0, <2>1, <2>3, <3>1, <3>2, <3>3 DEF RunnerOwnsRow
    <2> QED
      BY <2>2, <2>3 DEF RunnerOwnsRow
  <1>3. AbsentUnused'
    BY <1>0 DEF AbsentUnused, Completion, Outcomes
  <1>4. AttemptsBounded'
    BY <1>0 DEF AttemptsBounded, Supported, Completion, Outcomes, OneRunner, RunnerOwnsRow
  <1> QED
    BY <1>1, <1>2, <1>3, <1>4

\* A recovery in a supported deployment is that of the only process, which is
\* down: no worker holds a job.
LEMMA ProcessInv ==
    ASSUME IInv, NEW w \in Instances, Process(w), TypeOK'
    PROVE  IInv'
  <1> USE JobsAssumption, RowAssumption, BoundAssumption
      DEF IInv, TypeOK, NoJob, rowVars, boundVars
  <1>1. CASE Shutdown(w)
    BY <1>1 DEF Shutdown, LifeCycle, OneRunner, Supported, Exclusive, RunnerOwnsRow,
                AbsentUnused, AttemptsBounded
  <1>2. CASE Exit(w)
    BY <1>2 DEF Exit, LifeCycle, OneRunner, Supported, Exclusive, RunnerOwnsRow,
                AbsentUnused, AttemptsBounded
  <1>3. CASE RecoverInterrupted(w)
    <2>1. /\ w \in deployed /\ inst[w] = "down"
          /\ inst' = [inst EXCEPT ![w] = "up"]
          /\ restarts' = restarts + 1
          /\ deployed' = deployed /\ holds' = holds /\ att' = att /\ attempts' = attempts
          /\ \/ status' = [j \in Jobs |-> IF status[j] \in Active THEN "failed" ELSE status[j]]
             \/ status' = status
      BY <1>3 DEF RecoverInterrupted
    <2>2. LifeCycle'
      BY <2>1 DEF LifeCycle
    <2>3. Supported' => \A v \in Instances : holds[v] = NoJob
      BY <2>1 DEF Supported, LifeCycle
    <2>4. OneRunner'
      BY <2>1, <2>3 DEF OneRunner, Exclusive, RunnerOwnsRow
    <2>5. AbsentUnused'
      BY <2>1 DEF AbsentUnused, Active
    <2>6. AttemptsBounded'
      BY <2>1 DEF AttemptsBounded, Supported, Active
    <2> QED
      BY <2>2, <2>4, <2>5, <2>6
  <1> QED
    BY <1>1, <1>2, <1>3 DEF Process

\* Every step of the queue preserves the inductive invariant.
LEMMA NextInv == IInv /\ [Next]_vars => IInv'
  <1> SUFFICES ASSUME IInv, [Next]_vars PROVE IInv'
    OBVIOUS
  <1>0. TypeOK'
    BY NextType DEF IInv
  <1>1. CASE User
    BY <1>0, <1>1, UserInv DEF User
  <1>2. ASSUME NEW w \in Instances, Worker(w) PROVE IInv'
    BY <1>0, <1>2, ClaimInv, RollBackInv, CompleteInv DEF Worker
  <1>3. ASSUME NEW w \in Instances, Process(w) PROVE IInv'
    BY <1>0, <1>3, ProcessInv
  <1>4. CASE UNCHANGED vars
    BY <1>4 DEF vars, IInv, TypeOK, LifeCycle, OneRunner, Supported, Exclusive, RunnerOwnsRow,
                AbsentUnused, AttemptsBounded
  <1> QED
    BY <1>1, <1>2, <1>3, <1>4 DEF Next

\* The inductive invariant holds of every behaviour: ownership of the rows by
\* the workers, and the attempts they count, survive every interleaving of
\* calls, claims, completions and restarts.
THEOREM Invariance == Spec => []IInv
  <1> QED
    BY InitInv, NextInv, PTL DEF Spec

\* In a supported deployment no two workers execute the same job and each
\* worker's completion write meets the row it claimed.
THEOREM OneRunnerHolds == Spec => []OneRunner
  <1>1. IInv => OneRunner
    BY DEF IInv
  <1> QED
    BY Invariance, <1>1, PTL

\* In a supported deployment no row uses more attempts than it has.
THEOREM AttemptsBoundedHolds == Spec => []AttemptsBounded
  <1>1. IInv => AttemptsBounded
    BY DEF IInv
  <1> QED
    BY Invariance, <1>1, PTL

\* In a supported deployment a succeeded or cancelled job is final.
THEOREM FinalStaysFinalHolds == Spec => FinalStaysFinal
  <1> DEFINE Final ==
        Supported' => \A j \in Jobs :
            status[j] \in {"succeeded", "cancelled"} => status'[j] = status[j]
  <1>1. ASSUME IInv, [Next]_vars PROVE [Final]_vars
    <2> SUFFICES ASSUME Next, Supported', NEW j \in Jobs,
                        status[j] \in {"succeeded", "cancelled"}
                 PROVE  status'[j] = status[j]
      BY <1>1
    <2> USE JobsAssumption DEF TypeOK, rowVars, procVars, boundVars, NoJob
    <2>0. TypeOK /\ Supported /\ Exclusive /\ RunnerOwnsRow
      BY <1>1, SupportedBefore DEF IInv, OneRunner
    <2>1. ASSUME NEW k \in Jobs, Enqueue(k) \/ Cancel(k) \/ Retry(k)
          PROVE  status'[j] = status[j]
      BY <2>0, <2>1 DEF Enqueue, Cancel, Retry
    <2>2. ASSUME NEW w \in Instances, Claim(w) PROVE status'[j] = status[j]
      BY <2>0, <2>2 DEF Claim, NextQueued
    <2>3. ASSUME NEW w \in Instances, RollBack(w) PROVE status'[j] = status[j]
      BY <2>0, <2>3 DEF RollBack, RunnerOwnsRow, Active
    <2>4. ASSUME NEW w \in Instances, NEW outcome \in Outcomes, Complete(w, outcome)
          PROVE  status'[j] = status[j]
      BY <2>0, <2>4 DEF Complete, RunnerOwnsRow, Active
    <2>5. ASSUME NEW w \in Instances, Process(w) PROVE status'[j] = status[j]
      BY <2>0, <2>5 DEF Process, Shutdown, Exit, RecoverInterrupted, Active
    <2> QED
      BY <2>1, <2>2, <2>3, <2>4, <2>5 DEF Next, User, Worker
  <1> QED
    BY <1>1, Invariance, PTL DEF Spec, FinalStaysFinal
=============================================================================
