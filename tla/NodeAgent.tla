------------------------------ MODULE NodeAgent ------------------------------
(***************************************************************************)
(* The command channel between the control plane (api/internal/nodeagent)  *)
(* and the agent of one node (api/internal/nodeagent/agent): enrolment,    *)
(* revocation, heartbeats, and the queue of commands that operations       *)
(* dispatch, the agent polls, executes and reports.                        *)
(*                                                                         *)
(* The agent has one HTTP request open at a time, but a request it has     *)
(* given up on, or sent before it crashed, may still be served.  The       *)
(* control plane authenticates a request in one statement and serves it in *)
(* others.  Commands are numbered in the order of their created_at; five   *)
(* minutes after that a command is overdue.  The clocks of the agent and   *)
(* the database agree (a request off by more than a minute is refused).    *)
(***************************************************************************)
EXTENDS Integers, FiniteSets

CONSTANTS
    Agents,         \* agent identities that may be enrolled for the node
    Tokens,         \* enrolment tokens that may be minted
    Commands,       \* rows of node_agent_commands
    PollLimit,      \* commands handed out by one poll
    MaxLosses       \* bound: crashes of the agent, and requests or replies lost

ASSUME AgentAssumption ==
    /\ Agents # {}
    /\ Commands \subseteq Nat \ {0}
    /\ PollLimit \in Nat \ {0}
    /\ MaxLosses \in Nat

VARIABLES
    \* the control plane's tables
    registration,   \* node_agent_registrations
    agent,      \* node_agents.status; "deleted" after a later enrolment
    node,       \* nodes.status
    cmd,        \* node_agent_commands.status
    owner,      \* node_agent_commands.agent_id
    overdue,    \* commands whose expires_at has passed
    \* the control plane's goroutines
    wait,       \* the Dispatch of each command
    inflight,   \* agent requests on the way to or in the control plane
    revoking,   \* agents whose Revoke has not yet expired their commands
    \* the agent processes
    proc,
    \* observations, read by no action
    executions, \* how often a command was executed
    good,       \* commands whose execution succeeded
    revoked,    \* agents an operator has revoked
    \* the counter that bounds the environment
    losses

enrolVars == <<registration, agent, node>>
cmdVars == <<cmd, owner, overdue, wait>>
srvVars == <<inflight, revoking>>
agentObsVars == <<executions, good, revoked>>
channelVars == <<enrolVars, cmdVars, srvVars, proc, agentObsVars, losses>>

NoCommand == 0
Open == {"pending", "delivered"}
Settled == {"succeeded", "failed", "expired"}
AgentStatuses == {"absent", "unknown", "online", "offline", "revoked", "deleted"}

\* A request of an agent; live while the agent still waits for the reply.
RequestType ==
    [from : Agents, kind : {"heartbeat", "poll", "report"},
     cmd : Commands \cup {NoCommand}, ok : BOOLEAN,
     stage : {"sent", "authenticated"}, live : BOOLEAN]

\* An agent process: what it waits for, the rest of the batch it polled and
\* the commands it remembers to have executed.
ProcType ==
    [pc : {"down", "idle", "heartbeat", "poll", "batch", "report"},
     batch : SUBSET Commands, done : SUBSET Commands]

AgentTypeOK ==
    /\ registration \in [Tokens -> {"none", "valid", "used", "expired"}]
    /\ agent \in [Agents -> AgentStatuses]
    /\ node \in {"unknown", "online", "offline"}
    /\ cmd \in [Commands -> {"absent", "deleted"} \cup Open \cup Settled]
    /\ owner \in [Commands -> Agents]
    /\ overdue \subseteq Commands
    /\ wait \in [Commands -> {"none", "loaded", "waiting", "ok", "error", "expired", "timeout"}]
    /\ inflight \subseteq RequestType
    /\ revoking \subseteq Agents
    /\ proc \in [Agents -> ProcType]
    /\ executions \in [Commands -> Nat]
    /\ good \subseteq Commands
    /\ revoked \subseteq Agents
    /\ losses \in 0..MaxLosses

Down == [pc |-> "down", batch |-> {}, done |-> {}]

\* Some tokens may have been minted and have expired before; losses counts
\* from any part of its bound.
AgentInit ==
    /\ registration \in [Tokens -> {"none", "expired"}]
    /\ agent = [a \in Agents |-> "absent"]
    /\ node = "unknown"
    /\ cmd = [k \in Commands |-> "absent"]
    /\ owner = [k \in Commands |-> CHOOSE a \in Agents : TRUE]
    /\ overdue = {}
    /\ wait = [k \in Commands |-> "none"]
    /\ inflight = {}
    /\ revoking = {}
    /\ proc = [a \in Agents |-> Down]
    /\ executions = [k \in Commands |-> 0]
    /\ good = {}
    /\ revoked = {}
    /\ losses \in 0..MaxLosses

-----------------------------------------------------------------------------
(* Enrolment and revocation.                                               *)

HasRow(a) == agent[a] \notin {"absent", "deleted"}

CreateRegistration(t) ==
    /\ registration[t] = "none"
    /\ registration' = [registration EXCEPT ![t] = "valid"]
    /\ UNCHANGED <<agent, node, cmdVars, srvVars, proc, agentObsVars, losses>>

\* The thirty minutes of a token pass.
ExpireToken(t) ==
    /\ registration[t] = "valid"
    /\ registration' = [registration EXCEPT ![t] = "expired"]
    /\ UNCHANGED <<agent, node, cmdVars, srvVars, proc, agentObsVars, losses>>

\* Mutant: the enrolment replaces whatever agent the node has.
EnrollReplacing(t, a) ==
    /\ registration[t] = "valid"
    /\ agent[a] = "absent"
    /\ registration' = [registration EXCEPT ![t] = "used"]
    /\ agent' = [agent EXCEPT ![a] = "unknown"]
    /\ proc' = [proc EXCEPT ![a] = [Down EXCEPT !.pc = "idle"]]
    /\ UNCHANGED <<node, cmdVars, srvVars, agentObsVars, losses>>

\* One transaction.  A revoked agent is deleted, its commands and nonces with
\* it (ON DELETE CASCADE); any other agent of the node refuses the enrolment
\* and rolls the use of the token back.  The agent then starts on its new state.
Enroll(t, a) ==
    /\ registration[t] = "valid"
    /\ agent[a] = "absent"
    /\ \A b \in Agents : HasRow(b) => agent[b] = "revoked"
    /\ registration' = [registration EXCEPT ![t] = "used"]
    /\ agent' = [b \in Agents |->
                    IF b = a THEN "unknown" ELSE IF HasRow(b) THEN "deleted" ELSE agent[b]]
    /\ cmd' = [k \in Commands |->
                  IF cmd[k] # "absent" /\ HasRow(owner[k]) THEN "deleted" ELSE cmd[k]]
    /\ proc' = [proc EXCEPT ![a] = [Down EXCEPT !.pc = "idle"]]
    /\ UNCHANGED <<node, owner, overdue, wait, srvVars, agentObsVars, losses>>

\* Revoke, first statement.
Revoke(a) ==
    /\ HasRow(a)
    /\ agent[a] # "revoked"
    /\ agent' = [agent EXCEPT ![a] = "revoked"]
    /\ revoking' = revoking \cup {a}
    /\ revoked' = revoked \cup {a}
    /\ UNCHANGED <<registration, node, cmdVars, inflight, proc, executions, good, losses>>

\* Revoke, second statement: the agent's open commands expire.  Its error is
\* ignored.
RevokeCommands(a) ==
    /\ a \in revoking
    /\ revoking' = revoking \ {a}
    /\ \/ cmd' = [k \in Commands |->
                     IF owner[k] = a /\ cmd[k] \in Open THEN "expired" ELSE cmd[k]]
       \/ UNCHANGED cmd
    /\ UNCHANGED <<enrolVars, owner, overdue, wait, inflight, proc, agentObsVars, losses>>

-----------------------------------------------------------------------------
(* Dispatch: enqueue a command and wait for its result.                    *)

\* The agent is loaded and must not be revoked ...
LoadAgent(k, a) ==
    /\ wait[k] = "none"
    /\ HasRow(a)
    /\ agent[a] # "revoked"
    /\ wait' = [wait EXCEPT ![k] = "loaded"]
    /\ owner' = [owner EXCEPT ![k] = a]
    /\ UNCHANGED <<enrolVars, cmd, overdue, srvVars, proc, agentObsVars, losses>>

\* ... then the signed command is inserted, unless the agent is gone.
InsertCommand(k) ==
    /\ wait[k] = "loaded"
    /\ \A j \in Commands : k < j => cmd[j] = "absent"
    /\ IF HasRow(owner[k])
       THEN /\ cmd' = [cmd EXCEPT ![k] = "pending"]
            /\ wait' = [wait EXCEPT ![k] = "waiting"]
       ELSE /\ wait' = [wait EXCEPT ![k] = "error"]
            /\ UNCHANGED cmd
    /\ UNCHANGED <<enrolVars, owner, overdue, srvVars, proc, agentObsVars, losses>>

\* One poll of WaitResult.  A row that is gone ends the wait with an error.
WaitResult(k) ==
    /\ wait[k] = "waiting"
    /\ cmd[k] \in Settled \cup {"deleted"}
    /\ wait' = [wait EXCEPT ![k] =
                   CASE cmd[k] = "succeeded" -> "ok"
                     [] cmd[k] = "failed"    -> "error"
                     [] cmd[k] = "expired"   -> "expired"
                     [] OTHER                -> "timeout"]
    /\ UNCHANGED <<enrolVars, cmd, owner, overdue, srvVars, proc, agentObsVars, losses>>

\* Two minutes pass, the operation's context ends, or the API stops.
WaitTimeout(k) ==
    /\ wait[k] = "waiting"
    /\ wait' = [wait EXCEPT ![k] = "timeout"]
    /\ UNCHANGED <<enrolVars, cmd, owner, overdue, srvVars, proc, agentObsVars, losses>>

\* The five minutes of a command pass, after the two of its Dispatch.
Lapse(k) ==
    /\ cmd[k] # "absent"
    /\ wait[k] # "waiting"
    /\ k \notin overdue
    /\ \A j \in Commands : j < k /\ cmd[j] # "absent" => j \in overdue
    /\ overdue' = overdue \cup {k}
    /\ UNCHANGED <<enrolVars, cmd, owner, wait, srvVars, proc, agentObsVars, losses>>

-----------------------------------------------------------------------------
(* The agent process: Step.                                                *)

Request(a, kind, k, ok) ==
    [from |-> a, kind |-> kind, cmd |-> k, ok |-> ok, stage |-> "sent", live |-> TRUE]

\* The request after the agent has given it up, and after the control plane
\* has authenticated it.
Abandoned(m) == [m EXCEPT !.live = FALSE]
Authenticated(m) == [m EXCEPT !.stage = "authenticated"]

\* The first request of a Step.
StartStep(a) ==
    /\ proc[a].pc = "idle"
    /\ proc' = [proc EXCEPT ![a].pc = "heartbeat"]
    /\ inflight' = inflight \cup {Request(a, "heartbeat", NoCommand, TRUE)}
    /\ UNCHANGED <<enrolVars, cmdVars, revoking, agentObsVars, losses>>

\* Mutant: the agent does not look at the expiry.
VerifyAddress(k) == TRUE

\* VerifyCommand: the expiry; signature and addressing hold of what the
\* control plane sent.
VerifyCommand(k) == k \notin overdue

\* Mutant: a command that is refused is acknowledged.
AcknowledgeRefused(k) == TRUE

\* The result reported for a command that was not executed.
RefusedResult(k) == FALSE

\* handle and the request that reports its result: the next command of the
\* batch is refused, or marked as executed and executed, with success or not.
Handle(a, k) ==
    /\ proc[a].pc = "batch"
    /\ k \in proc[a].batch
    /\ \E ok \in BOOLEAN :
          /\ inflight' = inflight \cup {Request(a, "report", k, ok)}
          /\ IF VerifyCommand(k) /\ k \notin proc[a].done
             THEN /\ executions' = [executions EXCEPT ![k] = @ + 1]
                  /\ good' = IF ok THEN good \cup {k} ELSE good
                  /\ proc' = [proc EXCEPT ![a] =
                                 [pc |-> "report", batch |-> @.batch \ {k},
                                  done |-> (@.done \ overdue) \cup {k}]]
             ELSE /\ ok = RefusedResult(k)
                  /\ proc' = [proc EXCEPT ![a].pc = "report", ![a].batch = @ \ {k}]
                  /\ UNCHANGED <<executions, good>>
    /\ UNCHANGED <<enrolVars, cmdVars, revoking, revoked, losses>>

\* A Step that fails drops the rest of its batch; Run starts the next one.
FailedStep(a) == [proc[a] EXCEPT !.pc = "idle", !.batch = {}]

\* The reply to a request is lost or comes too late: the Step fails.  What was
\* sent may yet be served.
GiveUp(a) ==
    /\ losses < MaxLosses
    /\ losses' = losses + 1
    /\ \E m \in inflight :
          /\ m.from = a
          /\ m.live
          /\ inflight' = (inflight \ {m}) \cup {Abandoned(m)}
    /\ proc' = [proc EXCEPT ![a] = FailedStep(a)]
    /\ UNCHANGED <<enrolVars, cmdVars, revoking, agentObsVars>>

\* A crash loses the batch and the memory of executed commands; a request on
\* the way is lost or yet served.
AgentCrash(a) ==
    /\ proc[a].pc # "down"
    /\ losses < MaxLosses
    /\ losses' = losses + 1
    /\ proc' = [proc EXCEPT ![a] = Down]
    /\ LET sent == {m \in inflight : m.from = a /\ m.live} IN
          \/ inflight' = inflight \ sent
          \/ inflight' = (inflight \ sent) \cup {Abandoned(m) : m \in sent}
    /\ UNCHANGED <<enrolVars, cmdVars, revoking, agentObsVars>>

\* The state file survives.
Restart(a) ==
    /\ proc[a].pc = "down"
    /\ agent[a] # "absent"
    /\ proc' = [proc EXCEPT ![a].pc = "idle"]
    /\ UNCHANGED <<enrolVars, cmdVars, srvVars, agentObsVars, losses>>

-----------------------------------------------------------------------------
(* The control plane serves the agent.                                     *)

\* The reply to request m reaches the agent if it still waits.
Reply(m, p) == proc' = IF m.live THEN [proc EXCEPT ![m.from] = p] ELSE proc

\* A request never arrives or the API stops: the Step fails.
Drop(m) ==
    /\ losses < MaxLosses
    /\ losses' = losses + 1
    /\ inflight' = inflight \ {m}
    /\ Reply(m, FailedStep(m.from))
    /\ UNCHANGED <<enrolVars, cmdVars, revoking, agentObsVars>>

\* Authenticate: the agent exists, is not revoked, and the nonce is new.
Authenticate(m) ==
    /\ m.stage = "sent"
    /\ IF HasRow(m.from) /\ agent[m.from] # "revoked"
       THEN /\ inflight' = (inflight \ {m}) \cup {Authenticated(m)}
            /\ UNCHANGED proc
       ELSE /\ inflight' = inflight \ {m}
            /\ Reply(m, FailedStep(m.from))
    /\ UNCHANGED <<enrolVars, cmdVars, revoking, agentObsVars, losses>>

\* Heartbeat: UPDATE node_agents ... WHERE id = $1, then the node and the
\* samples.  The agent polls next.
RecordHeartbeat(m) ==
    /\ m.stage = "authenticated"
    /\ m.kind = "heartbeat"
    /\ agent' = IF HasRow(m.from) THEN [agent EXCEPT ![m.from] = "online"] ELSE agent
    /\ node' = "online"
    /\ inflight' = (inflight \ {m}) \cup
          (IF m.live THEN {Request(m.from, "poll", NoCommand, TRUE)} ELSE {})
    /\ Reply(m, [proc[m.from] EXCEPT !.pc = "poll"])
    /\ UNCHANGED <<registration, cmdVars, revoking, agentObsVars, losses>>

\* Mutant: what was delivered and not reported is delivered again.
DeliverableAgain(a) == {k \in Commands : owner[k] = a /\ cmd[k] \in Open /\ k \notin overdue}

\* pending, unexpired commands of the agent
Deliverable(a) ==
    {k \in Commands : owner[k] = a /\ cmd[k] = "pending" /\ k \notin overdue}

\* ORDER BY created_at LIMIT 10; the order in which RETURNING yields them is
\* unspecified.
Oldest(ks) == {k \in ks : Cardinality({j \in ks : j < k}) < PollLimit}

Poll(m) ==
    /\ m.stage = "authenticated"
    /\ m.kind = "poll"
    /\ LET ks == Oldest(Deliverable(m.from)) IN
          /\ cmd' = [k \in Commands |-> IF k \in ks THEN "delivered" ELSE cmd[k]]
          /\ Reply(m, [proc[m.from] EXCEPT !.pc = IF ks = {} THEN "idle" ELSE "batch",
                                           !.batch = ks])
    /\ inflight' = inflight \ {m}
    /\ UNCHANGED <<enrolVars, owner, overdue, wait, revoking, agentObsVars, losses>>

\* Mutant: a late result is accepted.
AwaitsAny(k, a) == cmd[k] \in Open \cup Settled /\ owner[k] = a

\* WHERE id = $1 AND agent_id = $2 AND status = 'delivered'
Awaits(k, a) == cmd[k] = "delivered" /\ owner[k] = a

\* A result nobody awaits, or one of more than 256 KiB, is refused: the Step
\* fails.
ReportResult(m) ==
    /\ m.stage = "authenticated"
    /\ m.kind = "report"
    /\ inflight' = inflight \ {m}
    /\ \/ /\ Awaits(m.cmd, m.from)
          /\ cmd' = [cmd EXCEPT ![m.cmd] = IF m.ok THEN "succeeded" ELSE "failed"]
          /\ LET p == proc[m.from] IN
                Reply(m, [p EXCEPT !.pc = IF p.batch = {} THEN "idle" ELSE "batch"])
       \/ /\ m.ok \/ ~ Awaits(m.cmd, m.from)
          /\ UNCHANGED cmd
          /\ Reply(m, FailedStep(m.from))
    /\ UNCHANGED <<enrolVars, owner, overdue, wait, revoking, agentObsVars, losses>>

\* Sweep: silent agents are offline, and so is the node.  How long an agent
\* has been silent is left open.
SweepAgents ==
    /\ \E a \in Agents :
          /\ agent[a] = "online"
          /\ agent' = [agent EXCEPT ![a] = "offline"]
    /\ node' = "offline"
    /\ UNCHANGED <<registration, cmdVars, srvVars, proc, agentObsVars, losses>>

\* Mutant: only commands that were never delivered expire.
StalePending(k) == cmd[k] = "pending" /\ k \in overdue

Stale(k) == cmd[k] \in Open /\ k \in overdue

\* Sweep: open commands that are overdue expire.
SweepCommands ==
    /\ cmd' = [k \in Commands |-> IF Stale(k) THEN "expired" ELSE cmd[k]]
    /\ cmd' # cmd
    /\ UNCHANGED <<enrolVars, owner, overdue, wait, srvVars, proc, agentObsVars, losses>>

-----------------------------------------------------------------------------

Operator ==
    \/ \E t \in Tokens : CreateRegistration(t) \/ ExpireToken(t)
    \/ \E t \in Tokens, a \in Agents : Enroll(t, a)
    \/ \E a \in Agents : Revoke(a) \/ RevokeCommands(a)

Dispatch(k) ==
    \/ \E a \in Agents : LoadAgent(k, a)
    \/ InsertCommand(k)
    \/ WaitResult(k)
    \/ WaitTimeout(k)
    \/ Lapse(k)

AgentProcess(a) ==
    \/ StartStep(a)
    \/ \E k \in Commands : Handle(a, k)
    \/ GiveUp(a)
    \/ AgentCrash(a)
    \/ Restart(a)

ServeRequest(m) ==
    \/ Drop(m)
    \/ Authenticate(m)
    \/ RecordHeartbeat(m)
    \/ Poll(m)
    \/ ReportResult(m)

NodeSweep == SweepAgents \/ SweepCommands

AgentNext ==
    \/ Operator
    \/ \E k \in Commands : Dispatch(k)
    \/ \E a \in Agents : AgentProcess(a)
    \/ \E m \in inflight : ServeRequest(m)
    \/ NodeSweep

AgentSpec == AgentInit /\ [][AgentNext]_channelVars

\* Time passes (the timer of a Dispatch, the life of a command) and the sweep runs
\* every 30 seconds.  Nothing is owed by the agent or the network.
AgentFairness ==
    /\ \A k \in Commands : WF_channelVars(Lapse(k)) /\ WF_channelVars(WaitTimeout(k))
    /\ WF_channelVars(SweepCommands)

AgentFairSpec == AgentSpec /\ AgentFairness

-----------------------------------------------------------------------------
(* Properties.                                                             *)

\* "hands pending, unexpired commands to an authenticated agent exactly once
\* each" (nodeagent.Poll): a command is executed at most once, although a
\* restarted agent has forgotten what it executed.
ExecutedOnce == \A k \in Commands : executions[k] <= 1

\* Nothing runs that nobody waits for: when a command is executed its row still
\* awaits the result and its Dispatch has been told nothing (or has given up
\* after two minutes).  Only an agent revoked meanwhile still runs the batch it
\* holds, after its commands expired.  So the sweep, which expires delivered
\* commands too, never expires one that is still to run: "a command that outlived
\* its 5-minute TTL becomes expired and is never run after the agent returns"
\* (docs/DISASTER-TESTS.md), however long it sat in the queue, in a poll's reply
\* or behind other commands of its batch.
RunIsAwaited ==
    [][\A k \in Commands :
          executions'[k] # executions[k] =>
             \/ cmd[k] = "delivered" /\ wait[k] \in {"waiting", "timeout"}
             \/ owner[k] \in revoked]_channelVars

\* A result that a Dispatch was given is true and stays so: a success was executed
\* with success, a failure is of a command that did not and will not succeed, and
\* no late report gives a result to a command whose Dispatch was told that it
\* expired (nodeagent.WaitResult, nodeagent.ReportResult).
ResultToldTruth ==
    \A k \in Commands :
        /\ wait[k] = "ok" => k \in good /\ cmd[k] \in {"succeeded", "deleted"}
        /\ wait[k] = "error" => k \notin good
        /\ wait[k] = "expired" => cmd[k] \in {"expired", "deleted"}

\* "command expired before the agent executed it" (nodeagent.WaitResult): a
\* command whose Dispatch was told so was not executed, and will not be.
ExpiredWasNotExecuted == \A k \in Commands : wait[k] = "expired" => executions[k] = 0

\* "One live agent per node; a second enrolment is refused until the first is
\* revoked" (docs/NODE-AGENT.md), and every token enrols one agent.
OneAgent ==
    /\ \A a, b \in Agents : HasRow(a) /\ HasRow(b) => a = b
    /\ Cardinality({a \in Agents : agent[a] # "absent"}) =
          Cardinality({t \in Tokens : registration[t] = "used"})

\* No command stays open and no Dispatch waits for ever, whatever the agent
\* and the network do.
CommandsEnd ==
    \A k \in Commands : LET ended == cmd[k] \notin Open /\ wait[k] # "waiting" IN
                       ~ ended ~> ended

\* Revocation "locks an agent out immediately" (docs/NODE-AGENT.md): from then
\* on the agent is revoked, until a new enrolment deletes its row.
RevokedStaysOut == \A a \in revoked : agent[a] \in {"revoked", "deleted"}
==============================================================================
