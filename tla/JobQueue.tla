------------------------------ MODULE JobQueue ------------------------------
(***************************************************************************)
(* The job queue of api/internal/jobs: the rows of the jobs table, the     *)
(* calls users make on them (Enqueue, Cancel, Retry) and the workers that  *)
(* claim, run and finish them.  One worker lives in each API process       *)
(* (instance); what a handler does while it holds a job is abstracted to   *)
(* the outcome it returns.  Operations.tla gives the handler of the        *)
(* operation engine in detail and is shown to implement this module.       *)
(*                                                                         *)
(* Jobs are numbered in the order of their created_at.                     *)
(***************************************************************************)
EXTENDS Integers

CONSTANTS
    Instances,      \* API processes that may be deployed, each with one worker
    Jobs,           \* job rows that may be inserted, numbered by created_at
    Priority,       \* jobs.priority of each job
    MaxAttempts,    \* jobs.max_attempts of each job
    Unhandled,      \* jobs whose type has no registered handler
    MaxRetries,     \* bound: calls of Retry
    MaxExits,       \* bound: processes that end
    MaxRestarts,    \* bound: processes that start again
    MaxFaults       \* bound: writes of the worker lost to a database outage

ASSUME JobsAssumption ==
    /\ Jobs \subseteq Nat \ {0}
    /\ Unhandled \subseteq Jobs

ASSUME RowAssumption ==
    /\ Priority \in [Jobs -> Int]
    /\ MaxAttempts \in [Jobs -> Nat \ {0}]

ASSUME BoundAssumption ==
    /\ MaxRetries \in Nat
    /\ MaxExits \in Nat
    /\ MaxRestarts \in Nat
    /\ MaxFaults \in Nat

VARIABLES
    \* the jobs table
    status,     \* "absent" before the row is inserted
    attempts,
    \* the processes: those deployed, the life cycle of each, the job its
    \* worker executes and the value of attempts that the claim returned
    deployed,
    inst,
    holds,
    att,
    \* counters that bound the environment
    retries,
    exits,
    restarts,
    faults

vars == <<status, attempts, deployed, inst, holds, att, retries, exits, restarts, faults>>
rowVars == <<status, attempts>>
procVars == <<deployed, inst, holds, att>>
boundVars == <<retries, exits, restarts, faults>>

NoJob == 0
Active == {"running", "rolling_back"}
Terminal == {"succeeded", "failed", "cancelled"}
Statuses == {"absent", "queued"} \cup Active \cup Terminal
Outcomes == {"succeeded", "failed", "cancelled"}

TypeOK ==
    /\ status \in [Jobs -> Statuses]
    /\ attempts \in [Jobs -> Nat]
    /\ deployed \subseteq Instances
    /\ inst \in [Instances -> {"up", "stopping", "down"}]
    /\ holds \in [Instances -> Jobs \cup {NoJob}]
    /\ att \in [Instances -> Nat]
    /\ retries \in 0..MaxRetries
    /\ exits \in 0..MaxExits
    /\ restarts \in 0..MaxRestarts
    /\ faults \in 0..MaxFaults

Init ==
    /\ status = [j \in Jobs |-> "absent"]
    /\ attempts = [j \in Jobs |-> 0]
    /\ deployed \in (SUBSET Instances) \ {{}}
    /\ inst = [w \in Instances |-> IF w \in deployed THEN "up" ELSE "down"]
    /\ holds = [w \in Instances |-> NoJob]
    /\ att = [w \in Instances |-> 0]
    /\ retries = 0
    /\ exits = 0
    /\ restarts = 0
    /\ faults = 0

-----------------------------------------------------------------------------
(* Calls on the jobs table.  Each is one SQL statement of some process.    *)

Serving == \E w \in deployed : inst[w] # "down"

Enqueue(j) ==
    /\ Serving
    /\ status[j] = "absent"
    /\ \A k \in Jobs : j < k => status[k] = "absent"
    /\ status' = [status EXCEPT ![j] = "queued"]
    /\ UNCHANGED <<attempts, procVars, boundVars>>

Cancel(j) ==
    /\ Serving
    /\ status[j] = "queued"
    /\ status' = [status EXCEPT ![j] = "cancelled"]
    /\ UNCHANGED <<attempts, procVars, boundVars>>

\* Mutant: any ended job can be retried.
RetryAnyEnded(j) ==
    /\ Serving
    /\ status[j] \in Terminal
    /\ retries < MaxRetries
    /\ status' = [status EXCEPT ![j] = "queued"]
    /\ attempts' = [attempts EXCEPT ![j] = 0]
    /\ retries' = retries + 1
    /\ UNCHANGED <<procVars, exits, restarts, faults>>

Retry(j) ==
    /\ Serving
    /\ status[j] = "failed"
    /\ retries < MaxRetries
    /\ status' = [status EXCEPT ![j] = "queued"]
    /\ attempts' = [attempts EXCEPT ![j] = 0]
    /\ retries' = retries + 1
    /\ UNCHANGED <<procVars, exits, restarts, faults>>

-----------------------------------------------------------------------------
(* The worker.                                                             *)

\* Mutant: the claim selects rows that are already running.
NextUnfinished(j) ==
    /\ status[j] \in {"queued", "running"}
    /\ \A k \in Jobs : status[k] = "queued" => Priority[k] <= Priority[j]

\* ORDER BY priority DESC, created_at ASC LIMIT 1
NextQueued(j) ==
    /\ status[j] = "queued"
    /\ \A k \in Jobs :
          status[k] = "queued" =>
             \/ Priority[k] < Priority[j]
             \/ Priority[k] = Priority[j] /\ j <= k

\* The claim is a transaction: SELECT ... FOR UPDATE SKIP LOCKED, UPDATE.
Claim(w) ==
    /\ inst[w] = "up"
    /\ holds[w] = NoJob
    /\ \E j \in Jobs :
          /\ NextQueued(j)
          /\ status' = [status EXCEPT ![j] = "running"]
          /\ attempts' = [attempts EXCEPT ![j] = @ + 1]
          /\ holds' = [holds EXCEPT ![w] = j]
          /\ att' = [att EXCEPT ![w] = attempts[j] + 1]
    /\ UNCHANGED <<deployed, inst, boundVars>>

\* A handler of the operation engine announces that it is rolling back.
RollBack(w) ==
    /\ inst[w] = "up"
    /\ holds[w] # NoJob
    /\ holds[w] \notin Unhandled
    /\ status' = [status EXCEPT ![holds[w]] = "rolling_back"]
    /\ UNCHANGED <<attempts, procVars, boundVars>>

\* Mutant: one attempt too many.
CompletionOffByOne(w, outcome) ==
    IF /\ outcome = "failed"
       /\ holds[w] \notin Unhandled
       /\ att[w] <= MaxAttempts[holds[w]]
    THEN "queued" ELSE outcome

\* What execute writes for an outcome: a failure with attempts left requeues
\* the job, except when no handler is registered for it.
Completion(w, outcome) ==
    IF /\ outcome = "failed"
       /\ holds[w] \notin Unhandled
       /\ att[w] < MaxAttempts[holds[w]]
    THEN "queued" ELSE outcome

\* The completion is written WHERE id = $1, whatever the row holds by then,
\* under the context of the worker: once the process is stopping it is lost.
Complete(w, outcome) ==
    /\ inst[w] # "down"
    /\ holds[w] # NoJob
    /\ holds[w] \in Unhandled => outcome = "failed"
    /\ holds' = [holds EXCEPT ![w] = NoJob]
    /\ att' = [att EXCEPT ![w] = 0]
    /\ \/ /\ inst[w] = "up"
          /\ status' = [status EXCEPT ![holds[w]] = Completion(w, outcome)]
          /\ UNCHANGED faults
       \/ /\ inst[w] = "up"
          /\ faults < MaxFaults
          /\ faults' = faults + 1
          /\ UNCHANGED status
       \/ /\ inst[w] = "stopping"
          /\ UNCHANGED <<status, faults>>
    /\ UNCHANGED <<attempts, deployed, inst, retries, exits, restarts>>

-----------------------------------------------------------------------------
(* The processes.                                                          *)

\* A shutdown signal cancels the context of the worker.
Shutdown(w) ==
    /\ inst[w] = "up"
    /\ exits < MaxExits
    /\ inst' = [inst EXCEPT ![w] = "stopping"]
    /\ UNCHANGED <<rowVars, deployed, holds, att, boundVars>>

\* The process ends, by a crash or at the end of a shutdown.
Exit(w) ==
    /\ inst[w] # "down"
    /\ exits < MaxExits
    /\ exits' = exits + 1
    /\ inst' = [inst EXCEPT ![w] = "down"]
    /\ holds' = [holds EXCEPT ![w] = NoJob]
    /\ att' = [att EXCEPT ![w] = 0]
    /\ UNCHANGED <<rowVars, deployed, retries, restarts, faults>>

\* Mutant: jobs caught in a rollback are not recovered.
RecoverRunningOnly(w) ==
    /\ w \in deployed
    /\ inst[w] = "down"
    /\ restarts < MaxRestarts
    /\ inst' = [inst EXCEPT ![w] = "up"]
    /\ status' = [j \in Jobs |-> IF status[j] = "running" THEN "failed" ELSE status[j]]
    /\ restarts' = restarts + 1
    /\ UNCHANGED <<attempts, deployed, holds, att, retries, exits, faults>>

\* Start-up: RecoverInterrupted runs once, before the worker, which is started
\* even if it fails.
RecoverInterrupted(w) ==
    /\ w \in deployed
    /\ inst[w] = "down"
    /\ restarts < MaxRestarts
    /\ inst' = [inst EXCEPT ![w] = "up"]
    /\ \/ /\ status' = [j \in Jobs |-> IF status[j] \in Active THEN "failed" ELSE status[j]]
          /\ UNCHANGED faults
       \/ /\ faults < MaxFaults
          /\ faults' = faults + 1
          /\ UNCHANGED status
    /\ restarts' = restarts + 1
    /\ UNCHANGED <<attempts, deployed, holds, att, retries, exits>>

-----------------------------------------------------------------------------

User == \E j \in Jobs : Enqueue(j) \/ Cancel(j) \/ Retry(j)

Worker(w) ==
    \/ Claim(w)
    \/ RollBack(w)
    \/ \E outcome \in Outcomes : Complete(w, outcome)

Process(w) == Shutdown(w) \/ Exit(w) \/ RecoverInterrupted(w)

Next == User \/ \E w \in Instances : Worker(w) \/ Process(w)

Spec == Init /\ [][Next]_vars

(***************************************************************************)
(* A worker polls every two seconds and drains the queue, handlers run     *)
(* under a timeout, a stopping process exits within its 15 seconds and the *)
(* container is restarted (restart: unless-stopped).  Users owe nothing.   *)
(***************************************************************************)
Fairness ==
    \A w \in Instances :
        /\ WF_vars(Claim(w))
        /\ WF_vars(\E outcome \in Outcomes : Complete(w, outcome))
        /\ WF_vars(inst[w] = "stopping" /\ Exit(w))
        /\ WF_vars(RecoverInterrupted(w))

FairSpec == Spec /\ Fairness

-----------------------------------------------------------------------------
(* Properties.                                                             *)

\* The deployments the start-up recovery is written for: one process, or
\* several of which none has been started again.
Supported == restarts = 0 \/ \A v, w \in deployed : v = w

\* No two workers execute the same job, in whatever deployment: "Multiple
\* Worker instances (e.g. one per process) can run concurrently against the
\* same database safely" (jobs/worker.go, Worker).
Exclusive ==
    \A v, w \in Instances :
        holds[v] # NoJob /\ holds[v] = holds[w] => v = w

\* A worker's job is an active row and its attempts have not moved since the
\* claim, so the unguarded completion write (WHERE id = $1) overwrites nothing
\* but the worker's own state.
RunnerOwnsRow ==
    \A w \in Instances :
        holds[w] # NoJob =>
            /\ status[holds[w]] \in Active
            /\ attempts[holds[w]] = att[w]

\* In a supported deployment every job has one runner, which owns its row.
OneRunner == Supported => Exclusive /\ RunnerOwnsRow

\* In a supported deployment a row never uses more attempts than
\* max_attempts: a requeue always leaves one for the claim that follows.
AttemptsBounded ==
    Supported =>
        \A j \in Jobs :
            /\ attempts[j] <= MaxAttempts[j]
            /\ status[j] = "queued" => attempts[j] < MaxAttempts[j]

\* A succeeded or cancelled job is final: Retry refuses it and no late
\* completion revives it ("a 'succeeded'/'cancelled' outcome was not a
\* failure to recover from", jobs.Retry).
FinalStaysFinal ==
    [][Supported' =>
          \A j \in Jobs :
             status[j] \in {"succeeded", "cancelled"} => status'[j] = status[j]]_vars

\* With one process every queued job comes to an end, through crashes,
\* shutdowns and requeues: RecoverInterrupted exists so that jobs "do not stay
\* running forever".
EveryJobFinishes ==
    (\A v, w \in deployed : v = w) =>
        \A j \in Jobs : status[j] = "queued" ~> status[j] \in Terminal \/ faults > 0
=============================================================================
