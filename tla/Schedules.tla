------------------------------ MODULE Schedules ------------------------------
(***************************************************************************)
(* Backup policies and the loop that submits their backups                 *)
(* (api/internal/backups: SavePolicy, DeletePolicy, RunDuePolicies), for   *)
(* one project and one (schedule, type) pair.                              *)
(*                                                                         *)
(* Every API process runs the loop.  A pass takes the time once, reads the *)
(* policies that are due at that time, and then submits and stamps them    *)
(* one after the other; processes interleave between those statements and  *)
(* may stop at any of them.  Time is counted in fractions of the policy's  *)
(* interval.                                                               *)
(***************************************************************************)
EXTENDS Integers, FiniteSets

CONSTANTS
    Interval,       \* interval(schedule), in ticks
    MaxTicks,       \* bound: ticks that pass
    MaxPolicies,    \* bound: policies ever saved
    MaxStops        \* bound: processes that stop, submissions and stamps that fail

ASSUME SchedulesAssumption ==
    /\ Interval \in Nat \ {0}
    /\ {MaxTicks, MaxPolicies, MaxStops} \subseteq Nat

VARIABLES
    clock,
    policyId,       \* the id of the backup_policies row, 0 when there is none
    policyCount,    \* ids given out
    policyOn,       \* enabled, and the project is active
    lastRun,        \* last_run_at, Never when NULL
    pass,           \* the pass of each process: the time it took, what it has read
    jobKeys,        \* idempotency keys in the jobs table
    backupsMade,    \* observation: jobs created for a policy, and when they were due
    stops

schedVars == <<clock, policyId, policyCount, policyOn, lastRun, pass, jobKeys, backupsMade, stops>>

Processes == {1, 2}
Never == -1
NoPass == [pc |-> "idle", at |-> 0, policy |-> 0]
Periods == 0..(MaxTicks \div Interval)

SchedTypeOK ==
    /\ clock \in 0..MaxTicks
    /\ policyId \in 0..MaxPolicies /\ policyCount \in 0..MaxPolicies
    /\ policyOn \in BOOLEAN
    /\ lastRun \in {Never} \cup 0..MaxTicks
    /\ pass \in [Processes -> [pc: {"idle", "submit", "stamp"}, at: 0..MaxTicks,
                               policy: 0..MaxPolicies]]
    /\ jobKeys \subseteq (1..MaxPolicies) \X (0..MaxTicks)
    /\ backupsMade \in [(1..MaxPolicies) \X Periods -> Nat]
    /\ stops \in 0..MaxStops

SchedInit ==
    /\ clock = 0
    /\ policyId = 0 /\ policyCount = 0 /\ policyOn = FALSE /\ lastRun = Never
    /\ pass = [p \in Processes |-> NoPass]
    /\ jobKeys = {}
    /\ backupsMade = [k \in (1..MaxPolicies) \X Periods |-> 0]
    /\ stops = 0

PassTime ==
    /\ clock < MaxTicks
    /\ clock' = clock + 1
    /\ UNCHANGED <<policyId, policyCount, policyOn, lastRun, pass, jobKeys, backupsMade, stops>>

\* INSERT ... ON CONFLICT (project_id, schedule, type) DO UPDATE: an existing
\* policy keeps its id and last_run_at.  on also stands for the project's status.
SavePolicy(on) ==
    /\ policyOn' = on
    /\ IF policyId = 0
         THEN /\ policyCount < MaxPolicies
              /\ policyCount' = policyCount + 1
              /\ policyId' = policyCount + 1
              /\ lastRun' = Never
         ELSE UNCHANGED <<policyCount, policyId, lastRun>>
    /\ UNCHANGED <<clock, pass, jobKeys, backupsMade, stops>>

DeletePolicy ==
    /\ policyId # 0
    /\ policyId' = 0 /\ policyOn' = FALSE /\ lastRun' = Never
    /\ UNCHANGED <<clock, policyCount, pass, jobKeys, backupsMade, stops>>

\* last == nil || now.Sub(last) >= interval
DueAt(t) == lastRun = Never \/ t - lastRun >= Interval

ReadPolicies(p) ==
    /\ pass[p] = NoPass
    /\ policyId # 0 /\ policyOn /\ DueAt(clock)
    /\ pass' = [pass EXCEPT ![p] = [pc |-> "submit", at |-> clock, policy |-> policyId]]
    /\ UNCHANGED <<clock, policyId, policyCount, policyOn, lastRun, jobKeys, backupsMade, stops>>

\* Mutant: the key holds the time of the pass, not the period.
TimeKey(d) == <<d.policy, d.at>>

\* "backup-policy:<id>:<now.Truncate(interval)>"
PeriodKey(d) == <<d.policy, (d.at \div Interval) * Interval>>

\* SubmitTrusted: INSERT ... ON CONFLICT (organization_id, idempotency_key) DO NOTHING.
SubmitDue(p) ==
    LET d == pass[p] IN
    /\ d.pc = "submit"
    /\ jobKeys' = jobKeys \cup {PeriodKey(d)}
    /\ backupsMade' = IF PeriodKey(d) \in jobKeys THEN backupsMade
                      ELSE [backupsMade EXCEPT ![<<d.policy, d.at \div Interval>>] = @ + 1]
    /\ pass' = [pass EXCEPT ![p].pc = "stamp"]
    /\ UNCHANGED <<clock, policyId, policyCount, policyOn, lastRun, stops>>

\* UPDATE backup_policies SET last_run_at = now WHERE id: no row once deleted.
Stamp(p) ==
    /\ pass[p].pc = "stamp"
    /\ lastRun' = IF pass[p].policy = policyId THEN pass[p].at ELSE lastRun
    /\ pass' = [pass EXCEPT ![p] = NoPass]
    /\ UNCHANGED <<clock, policyId, policyCount, policyOn, jobKeys, backupsMade, stops>>

\* The submission or the stamp fails, or the process stops and is started again.
PassEnds(p) ==
    /\ pass[p] # NoPass
    /\ stops < MaxStops /\ stops' = stops + 1
    /\ pass' = [pass EXCEPT ![p] = NoPass]
    /\ UNCHANGED <<clock, policyId, policyCount, policyOn, lastRun, jobKeys, backupsMade>>

SchedNext ==
    \/ PassTime \/ DeletePolicy
    \/ \E on \in BOOLEAN : SavePolicy(on)
    \/ \E p \in Processes : ReadPolicies(p) \/ SubmitDue(p) \/ Stamp(p) \/ PassEnds(p)

SchedSpec == SchedInit /\ [][SchedNext]_schedVars

-----------------------------------------------------------------------------
\* A policy is backed up at most once in a period, although several processes
\* pass over it at different times of the period, stop between the submission
\* and the stamp, or overwrite the stamp with an earlier time (RunDuePolicies:
\* "a restart or a second scheduler instance cannot double-run a period").
OncePerPeriod == \A k \in DOMAIN backupsMade : backupsMade[k] <= 1
=============================================================================
