------------------------------ MODULE MCControl ------------------------------
(* What waits in the control plane, for TLC: the jobs table with the        *)
(* workers of its processes, the approvals of the tool gateway, and the     *)
(* enrolment and the commands of a node's agents.  They share no state, so  *)
(* a behaviour is one of a single part: the initial state chooses it, and   *)
(* the others keep their initial values.                                    *)
EXTENDS JobQueue, Approvals, NodeAgent

CONSTANTS i1, i2, alice, bob, robot, restart, list, c1, c2, a1, a2, t1, t2

\* Three rows: an operation, a more urgent job with two attempts, and a job
\* whose type nobody handles.
MCJobs == 1..3
MCPriority == [j \in MCJobs |-> IF j = 2 THEN 5 ELSE 0]
MCMaxAttempts == [j \in MCJobs |-> IF j = 1 THEN 1 ELSE 2]
MCUnhandled == {3}

\* alice requests, bob decides, robot is an AI agent that requests; list is a
\* read tool without an execution backend.
MCActors == {alice, bob, robot}
MCAllowed == {<<alice, restart>>, <<robot, restart>>, <<alice, list>>}

VARIABLE part

InQueue(A) == part = "queue" /\ A /\ UNCHANGED <<part, gateVars, channelVars>>
InGateway(A) == part = "gateway" /\ A /\ UNCHANGED <<part, vars, channelVars>>
InChannel(A) == part = "channel" /\ A /\ UNCHANGED <<part, vars, gateVars>>

\* One process or two; two enrolments without a loss, or losses with one.
ControlInit ==
    /\ part \in {"queue", "gateway", "channel"}
    /\ Init /\ GateInit /\ AgentInit
    /\ i1 \in deployed
    /\ losses = MaxLosses \/ registration[t2] = "expired"
    /\ part # "queue" => deployed = {i1}
    /\ part # "channel" => losses = MaxLosses /\ registration = [t \in Tokens |-> "none"]

\* Calls and agents are interchangeable: a call takes c1 if that is free, and a1
\* is enrolled before a2.
InOrder ==
    /\ call[c2] = NoCall /\ call'[c2] # NoCall => call[c1] # NoCall
    /\ agent'[a2] # "absent" => agent'[a1] # "absent"

ControlNext ==
    /\ InQueue(Next) \/ InGateway(GateNext) \/ InChannel(AgentNext)
    /\ InOrder

controlVars == <<part, vars, gateVars, channelVars>>

\* Fairness, GateFairness and AgentFairness, each in the behaviours of its part.
\* EveryJobFinishes is about one process, so i1 is the only one that owes anything.
ControlFairness ==
    /\ WF_controlVars(InQueue(Claim(i1)))
    /\ WF_controlVars(InQueue(\E result \in Outcomes : Complete(i1, result)))
    /\ WF_controlVars(InQueue(inst[i1] = "stopping" /\ Exit(i1)))
    /\ WF_controlVars(InQueue(RecoverInterrupted(i1)))
    /\ WF_controlVars(InGateway(Tick)) /\ WF_controlVars(InGateway(Sweep))
    /\ \A k \in Commands :
          /\ WF_controlVars(InChannel(Lapse(k)))
          /\ WF_controlVars(InChannel(WaitTimeout(k)))
    /\ WF_controlVars(InChannel(SweepCommands))

ControlSpec == ControlInit /\ [][ControlNext]_controlVars /\ ControlFairness
=============================================================================
