------------------------------ MODULE MCHosts ------------------------------
(* Work in progress and what it leaves, for TLC: the operation engine, the  *)
(* deployments of a project, and the commands of a node's agent.  They      *)
(* share no state, so a behaviour is one of a single part: the initial      *)
(* state chooses it, and the others keep their initial values.              *)
EXTENDS Operations, Deployments, NodeAgent, TLC

CONSTANTS a1, t1, index, style, staging, production

\* Row 1 is a submitted operation, row 2 an enqueued job of the same type
\* with two attempts; the middle step has no Undo.
MCPriority == [j \in Jobs |-> 0]
MCMaxAttempts == [j \in Jobs |-> IF j \in OpJobs THEN 1 ELSE 2]
MCUndoable == {1, 3}

\* File names and environments are interchangeable.
MCSymmetry == Permutations(Files) \cup Permutations(Envs)

VARIABLE host

HostsInit ==
    /\ host \in {"engine", "project", "agent"}
    /\ Init
    /\ DeployInit
    /\ AgentInit
    /\ losses = 0 /\ registration = [t \in Tokens |-> "none"]
    /\ host # "project" => live = Empty

\* What the sweep makes of a silent agent changes nothing for its commands and
\* is left to MCControl.
Audible == \A a \in Agents : agent'[a] # "offline"

HostsNext ==
    \/ host = "engine" /\ Next /\ UNCHANGED <<host, deployVars, channelVars>>
    \/ host = "project" /\ DeployNext /\ UNCHANGED <<host, vars, channelVars>>
    \/ host = "agent" /\ AgentNext /\ Audible /\ UNCHANGED <<host, vars, deployVars>>

HostsSpec == HostsInit /\ [][HostsNext]_<<host, vars, deployVars, channelVars>>
=============================================================================
