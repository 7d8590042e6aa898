------------------------------ MODULE Monitoring ------------------------------
(***************************************************************************)
(* Monitors, alert rules, incidents and their notifications of one         *)
(* organization (api/internal/monitoring, api/internal/notifications and   *)
(* the incident retention of api/internal/logs).                           *)
(*                                                                         *)
(* One goroutine, the observability loop, runs the due monitors, evaluates *)
(* the rules and sweeps old incidents, one after the other.  API requests  *)
(* check a monitor on demand, change monitors and rules and move incidents *)
(* through their life cycle while it does.  What a check has observed and  *)
(* what a request has read can be out of date when it is written.          *)
(*                                                                         *)
(* There is one monitor and one rule condition on it at a time; a rule     *)
(* that is created after another was deleted has an id of its own.         *)
(***************************************************************************)
EXTENDS Integers, FiniteSets

CONSTANTS
    MaxRules,       \* bound: rules created
    MaxIncidents,   \* bound: incidents opened
    MaxRequests,    \* bound: API requests and restarts of the process
    MaxFlips        \* bound: changes of the monitored target

ASSUME MonitoringAssumption ==
    {MaxRules, MaxIncidents, MaxRequests, MaxFlips} \subseteq Nat

VARIABLES
    up,             \* whether the monitored target works
    monitor, lastStatus, due,       \* the monitor; due: its interval has elapsed
    ruleRow,        \* the alert_rules table
    incident,       \* the incidents table: status, rule_id, detected long ago
    alerted,        \* notifications of the opening stored per incident
    mpcs,           \* the loop
    observed,       \* what the loop's check returned
    queue,          \* the rules Evaluate has still to visit
    active,         \* the breach of the rule Evaluate is at
    inc,            \* the incident Evaluate has just opened
    toClose,        \* the live incidents Evaluate has still to look at
    probe,          \* a RunNow request: its observation
    trans,          \* a Transition request: incident, action and status read
    requests, flips

monitorVars == <<monitor, lastStatus, due>>
incidentVars == <<incident, alerted>>
loopVars == <<mpcs, observed, queue, active, inc, toClose>>
requestVars == <<probe, trans>>
monVars == <<up, monitorVars, ruleRow, incidentVars, loopVars, requestVars,
             requests, flips>>

RuleIds == 1..MaxRules
Incidents == 1..MaxIncidents
Live == {"open", "acknowledged", "investigating"}
Ended == {"resolved", "closed"}
NoRequest == [at |-> 0, action |-> "none", read |-> "none"]
Verdict(b) == IF b THEN "ok" ELSE "failing"

\* transitions and target.
Allowed ==
    [acknowledge |-> {"open"}, investigate |-> {"open", "acknowledged"},
     resolve |-> Live, close |-> {"resolved"}]
TargetOf ==
    [acknowledge |-> "acknowledged", investigate |-> "investigating",
     resolve |-> "resolved", close |-> "closed"]

MonTypeOK ==
    /\ up \in BOOLEAN /\ due \in BOOLEAN
    /\ monitor \in {"none", "enabled", "disabled", "deleted"}
    /\ lastStatus \in {"unknown", "ok", "failing"}
    /\ ruleRow \in [RuleIds -> {"none", "exists", "deleted"}]
    /\ incident \in [Incidents -> [status: Live \cup Ended \cup {"absent"},
                                   rule: RuleIds \cup {0}, old: BOOLEAN]]
    /\ alerted \in [Incidents -> Nat]
    /\ mpcs \in {"idle", "check", "record", "rule", "open", "notify", "list", "resolve"}
    /\ observed \in {"none", "ok", "failing"} /\ probe \in {"none", "asked", "ok", "failing"}
    /\ queue \subseteq RuleIds /\ active \in BOOLEAN
    /\ inc \in Incidents \cup {0} /\ toClose \subseteq Incidents
    /\ trans \in [at: Incidents \cup {0}, action: DOMAIN Allowed \cup {"none"},
                  read: Live \cup Ended \cup {"none"}]
    /\ requests \in 0..MaxRequests /\ flips \in 0..MaxFlips

MonInit ==
    /\ up = TRUE
    /\ monitor = "none" /\ lastStatus = "unknown" /\ due = TRUE
    /\ ruleRow = [r \in RuleIds |-> IF r = 1 THEN "exists" ELSE "none"]
    /\ incident = [i \in Incidents |-> [status |-> "absent", rule |-> 0, old |-> FALSE]]
    /\ alerted = [i \in Incidents |-> 0]
    /\ mpcs = "idle" /\ observed = "none" /\ queue = {} /\ active = FALSE
    /\ inc = 0 /\ toClose = {}
    /\ probe = "none" /\ trans = NoRequest
    /\ requests = 0 /\ flips = 0

NewRequest ==
    /\ requests < MaxRequests
    /\ requests' = requests + 1

\* A monitor row to write to.
Exists == monitor \in {"enabled", "disabled"}
Recorded(v) == IF Exists THEN v ELSE lastStatus

rules == {r \in RuleIds : ruleRow[r] = "exists"}
Visited == CHOOSE r \in queue : \A q \in queue : r <= q

LiveOf(r) == {i \in Incidents : incident[i].rule = r /\ incident[i].status \in Live}

-----------------------------------------------------------------------------
(* The environment.                                                        *)

Flip ==
    /\ flips < MaxFlips
    /\ up' = ~up /\ flips' = flips + 1
    /\ UNCHANGED <<monitorVars, ruleRow, incidentVars, loopVars, requestVars, requests>>

\* The monitor's interval elapses.
Elapse ==
    /\ ~due /\ due' = TRUE
    /\ UNCHANGED <<up, monitor, lastStatus, ruleRow, incidentVars, loopVars,
                   requestVars, requests, flips>>

\* An incident was detected longer ago than its retention.
GrowOld(i) ==
    /\ incident[i].status # "absent" /\ ~incident[i].old
    /\ incident' = [incident EXCEPT ![i].old = TRUE]
    /\ UNCHANGED <<up, monitorVars, ruleRow, alerted, loopVars, requestVars,
                   requests, flips>>

-----------------------------------------------------------------------------
(* Checks.                                                                 *)

\* RunDue: claim the monitor, then execute and record in two steps.
RunDue ==
    /\ mpcs = "idle" /\ monitor = "enabled" /\ due
    /\ mpcs' = "check" /\ due' = FALSE
    /\ UNCHANGED <<up, monitor, lastStatus, ruleRow, incidentVars, observed, queue,
                   active, inc, toClose, requestVars, requests, flips>>

Execute ==
    /\ mpcs = "check"
    /\ mpcs' = "record" /\ observed' = Verdict(up)
    /\ UNCHANGED <<up, monitorVars, ruleRow, incidentVars, queue, active, inc,
                   toClose, requestVars, requests, flips>>

RecordDue ==
    /\ mpcs = "record"
    /\ lastStatus' = Recorded(observed)
    /\ mpcs' = "idle" /\ observed' = "none"
    /\ UNCHANGED <<up, monitor, due, ruleRow, incidentVars, queue, active, inc,
                   toClose, requestVars, requests, flips>>

\* RunNow: stamp last_checked_at, execute, record.
RunNow ==
    /\ probe = "none" /\ Exists /\ NewRequest
    /\ probe' = "asked" /\ due' = FALSE
    /\ UNCHANGED <<up, monitor, lastStatus, ruleRow, incidentVars, loopVars, trans, flips>>

ProbeExecute ==
    /\ probe = "asked" /\ probe' = Verdict(up)
    /\ UNCHANGED <<up, monitorVars, ruleRow, incidentVars, loopVars, trans, requests, flips>>

ProbeRecord ==
    /\ probe \in {"ok", "failing"}
    /\ lastStatus' = Recorded(probe) /\ probe' = "none"
    /\ UNCHANGED <<up, monitor, due, ruleRow, incidentVars, loopVars, trans, requests, flips>>

CreateMonitor ==
    /\ monitor = "none" /\ NewRequest
    /\ monitor' = "enabled"
    /\ UNCHANGED <<up, lastStatus, due, ruleRow, incidentVars, loopVars, requestVars, flips>>

\* UpdateMonitor and DeleteMonitor.
ChangeMonitor(to) ==
    /\ Exists /\ monitor # to /\ NewRequest
    /\ monitor' = to
    /\ UNCHANGED <<up, lastStatus, due, ruleRow, incidentVars, loopVars, requestVars, flips>>

-----------------------------------------------------------------------------
(* Rules and their evaluation.                                             *)

CreateRule(r) ==
    /\ rules = {} /\ ruleRow[r] = "none" /\ NewRequest
    /\ ruleRow' = [ruleRow EXCEPT ![r] = "exists"]
    /\ UNCHANGED <<up, monitorVars, incidentVars, loopVars, requestVars, flips>>

\* incidents.rule_id is set to NULL by the foreign key.
DeleteRule(r) ==
    /\ r \in rules /\ NewRequest
    /\ ruleRow' = [ruleRow EXCEPT ![r] = "deleted"]
    /\ incident' = [i \in Incidents |->
            IF incident[i].rule = r THEN [incident[i] EXCEPT !.rule = 0] ELSE incident[i]]
    /\ UNCHANGED <<up, monitorVars, alerted, loopVars, requestVars, flips>>

\* Evaluate reads the rules once and visits them one by one.
Evaluate ==
    /\ mpcs = "idle" /\ rules # {}
    /\ queue' = rules /\ mpcs' = "rule"
    /\ UNCHANGED <<up, monitorVars, ruleRow, incidentVars, observed, active, inc, toClose,
                   requestVars, requests, flips>>

\* breaches: the monitor is enabled and was failing when last recorded.
Breaches ==
    /\ mpcs = "rule"
    /\ active' = (monitor = "enabled" /\ lastStatus = "failing")
    /\ mpcs' = IF active' THEN "open" ELSE "list"
    /\ UNCHANGED <<up, monitorVars, ruleRow, incidentVars, observed, queue, inc, toClose,
                   requestVars, requests, flips>>

\* Mutant: the key is unique among all incidents, ended ones included.
InsertableOnce == Visited \in rules /\ \A i \in Incidents : incident[i].rule # Visited

\* INSERT ... ON CONFLICT DO NOTHING adds a row: the dedupe key is the rule and
\* the monitor, and a rule that was deleted meanwhile fails its foreign key.
Insertable == Visited \in rules /\ LiveOf(Visited) = {}

Insert(i) ==
    /\ incident[i].status = "absent" /\ \A j \in 1..(i - 1) : incident[j].status # "absent"
    /\ incident' = [incident EXCEPT ![i] = [status |-> "open", rule |-> Visited, old |-> FALSE]]
    /\ inc' = i /\ mpcs' = "notify"

OpenIncident ==
    /\ mpcs = "open"
    /\ IF Insertable THEN \E i \in Incidents : Insert(i)
                     ELSE mpcs' = "list" /\ UNCHANGED <<incident, inc>>
    /\ UNCHANGED <<up, monitorVars, ruleRow, alerted, observed, queue, active, toClose,
                   requestVars, requests, flips>>

\* The timeline entry, the alert and Dispatch, which stores the notification.
Notify ==
    /\ mpcs = "notify"
    /\ alerted' = [alerted EXCEPT ![inc] = @ + 1]
    /\ mpcs' = "list" /\ inc' = 0
    /\ UNCHANGED <<up, monitorVars, ruleRow, incident, observed, queue, active, toClose,
                   requestVars, requests, flips>>

\* Mutant: only incidents nobody has acknowledged are looked at again.
ClearedOpen == IF active THEN {} ELSE {i \in LiveOf(Visited) : incident[i].status = "open"}

\* The live incidents of the rule, unless its breach is active.
Cleared == IF active THEN {} ELSE LiveOf(Visited)

ListLive ==
    /\ mpcs = "list"
    /\ toClose' = Cleared
    /\ mpcs' = "resolve"
    /\ UNCHANGED <<up, monitorVars, ruleRow, incidentVars, observed, queue, active, inc,
                   requestVars, requests, flips>>

AutoResolve(i) ==
    /\ mpcs = "resolve" /\ i \in toClose
    /\ toClose' = toClose \ {i}
    /\ incident' = [incident EXCEPT ![i].status = IF @ \in Live THEN "resolved" ELSE @]
    /\ UNCHANGED <<up, monitorVars, ruleRow, alerted, mpcs, observed, queue, active, inc,
                   requestVars, requests, flips>>

NextRule ==
    /\ mpcs = "resolve" /\ toClose = {}
    /\ queue' = queue \ {Visited}
    /\ mpcs' = IF queue' = {} THEN "idle" ELSE "rule"
    /\ active' = FALSE
    /\ UNCHANGED <<up, monitorVars, ruleRow, incidentVars, observed, inc, toClose,
                   requestVars, requests, flips>>

\* logs.Sweep: ended incidents that were detected long ago.
Swept(i) == incident[i].status \in Ended /\ incident[i].old
Sweep ==
    /\ mpcs = "idle" /\ \E i \in Incidents : Swept(i)
    /\ incident' = [i \in Incidents |->
            IF Swept(i) THEN [status |-> "absent", rule |-> 0, old |-> FALSE] ELSE incident[i]]
    /\ alerted' = [i \in Incidents |-> IF Swept(i) THEN 0 ELSE alerted[i]]
    /\ UNCHANGED <<up, monitorVars, ruleRow, loopVars, requestVars, requests, flips>>

-----------------------------------------------------------------------------
(* The incident life cycle and the process.                                *)

\* Transition reads the status, checks it and updates in a second statement.
ReadIncident(i, a) ==
    /\ trans = NoRequest /\ NewRequest
    /\ incident[i].status \in Allowed[a]
    /\ trans' = [at |-> i, action |-> a, read |-> incident[i].status]
    /\ UNCHANGED <<up, monitorVars, ruleRow, incidentVars, loopVars, probe, flips>>

Transit ==
    /\ trans # NoRequest
    /\ incident' = [incident EXCEPT ![trans.at].status =
            IF @ = trans.read THEN TargetOf[trans.action] ELSE @]
    /\ trans' = NoRequest
    /\ UNCHANGED <<up, monitorVars, ruleRow, alerted, loopVars, probe, requests, flips>>

\* The process stops anywhere and starts again.
MonCrash ==
    /\ NewRequest
    /\ mpcs' = "idle" /\ observed' = "none" /\ queue' = {} /\ active' = FALSE
    /\ inc' = 0 /\ toClose' = {} /\ probe' = "none" /\ trans' = NoRequest
    /\ UNCHANGED <<up, monitorVars, ruleRow, incidentVars, flips>>

LoopStep ==
    \/ Execute \/ RecordDue \/ Breaches \/ OpenIncident \/ Notify \/ ListLive \/ NextRule
    \/ \E i \in Incidents : AutoResolve(i)
RequestStep == ProbeExecute \/ ProbeRecord \/ Transit

MonNext ==
    \/ Flip \/ Elapse \/ RunDue \/ Evaluate \/ Sweep \/ LoopStep \/ RequestStep
    \/ RunNow \/ CreateMonitor \/ MonCrash
    \/ \E to \in {"enabled", "disabled", "deleted"} : ChangeMonitor(to)
    \/ \E r \in RuleIds : CreateRule(r) \/ DeleteRule(r)
    \/ \E i \in Incidents : GrowOld(i)
    \/ \E i \in Incidents, a \in DOMAIN Allowed : ReadIncident(i, a)

\* The loop's select takes any of its tickers that is ready, so each of them is
\* served again and again; a call that began goes on; intervals elapse.
MonFairness ==
    /\ SF_monVars(RunDue) /\ SF_monVars(Evaluate)
    /\ WF_monVars(LoopStep) /\ WF_monVars(RequestStep) /\ WF_monVars(Elapse)

MonSpec == MonInit /\ [][MonNext]_monVars /\ MonFairness

-----------------------------------------------------------------------------
(* Properties.                                                             *)

\* A target that stays down, with its monitor and a rule in place, has a live
\* incident again and again: neither a stale result, a user's resolution, a
\* crash nor an ended incident under the same key silences it for good.
OutageRaises ==
    <>[](~up /\ monitor = "enabled" /\ rules # {})
        => []<>(\E r \in rules : LiveOf(r) # {})

\* Once the target stays up no rule that exists keeps a live incident for ever:
\* neither a check that observed the outage and recorded it late, nor a user's
\* acknowledgement, nor a crash in the middle of an evaluation holds it open.
ClearedResolves ==
    <>[]up => []<>(\A r \in rules : LiveOf(r) = {})

=============================================================================
