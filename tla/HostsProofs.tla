---------------------------- MODULE HostsProofs -----------------------------
(***************************************************************************)
(* Proofs about what runs on a host.  NodeAgent, for any agents, tokens,   *)
(* commands and batch sizes and any number of losses: a command is         *)
(* executed at most once and only while its result is awaited, a Dispatch  *)
(* is given true results, and a node has one agent, enrolled by a token of *)
(* its own.                                                                *)
(* Deployments, for any files, environments, rows, faults and number of    *)
(* releases to keep: an environment has one active deployment and gets rid *)
(* of it, the newest releases can be restored, and between runs the newest *)
(* successful deployment is live.                                          *)
(***************************************************************************)
EXTENDS NodeAgent, Deployments, FiniteSetTheorems, TLAPS

-----------------------------------------------------------------------------
(* NodeAgent: commands and the answers to them.                            *)

\* A Dispatch inserts its command once.
Fresh == \A k \in Commands : wait[k] \in {"none", "loaded"} => cmd[k] = "absent"

\* A command that no poll has handed out is in no batch and was not executed.
Unseen ==
    \A k \in Commands :
        cmd[k] \in {"absent", "pending"} =>
            executions[k] = 0 /\ \A a \in Agents : k \notin proc[a].batch

\* A batch holds commands of its agent that were not executed.
InBatch ==
    \A a \in Agents : \A k \in proc[a].batch : executions[k] = 0 /\ owner[k] = a

\* A report on the way is about a command, and a good one about a success.
Truthful(m) == m.kind = "report" => m.cmd \in Commands /\ (m.ok => m.cmd \in good)

\* The reports on the way and the results stored are true.
Honest ==
    /\ \A m \in inflight : Truthful(m)
    /\ \A k \in Commands : cmd[k] = "succeeded" => k \in good

\* An answer repeats what is stored, and nothing is stored over it.
Repeated ==
    \A k \in Commands :
        /\ wait[k] = "ok" => k \in good /\ cmd[k] \in {"succeeded", "deleted"}
        /\ wait[k] = "expired" => cmd[k] \in {"expired", "deleted"}

\* The inductive invariant of the command channel.
ChannelInv ==
    /\ AgentTypeOK
    /\ Fresh
    /\ Unseen
    /\ InBatch
    /\ ExecutedOnce
    /\ Honest
    /\ Repeated

-----------------------------------------------------------------------------
(* Requests.                                                               *)

\* What an agent sends is a request.
LEMMA RequestIs ==
    ASSUME NEW a \in Agents, NEW kind \in {"heartbeat", "poll", "report"},
           NEW k \in Commands \cup {NoCommand}, NEW ok \in BOOLEAN
    PROVE  /\ Request(a, kind, k, ok) \in RequestType
           /\ kind # "report" \/ (k \in Commands /\ (ok => k \in good)) =>
                 Truthful(Request(a, kind, k, ok))
  <1>1. Request(a, kind, k, ok) \in RequestType
    BY DEF Request, RequestType
  <1>2. /\ Request(a, kind, k, ok).kind = kind
        /\ Request(a, kind, k, ok).cmd = k
        /\ Request(a, kind, k, ok).ok = ok
    BY DEF Request
  <1> QED
    BY <1>1, <1>2 DEF Truthful

\* A request that is given up, or has been authenticated, says the same.
LEMMA RequestStays ==
    ASSUME NEW m \in RequestType
    PROVE  /\ Abandoned(m) \in RequestType
           /\ Truthful(m) => Truthful(Abandoned(m))
           /\ Authenticated(m) \in RequestType
           /\ Truthful(m) => Truthful(Authenticated(m))
  <1>1. /\ [m EXCEPT !.live = FALSE] \in RequestType
        /\ [m EXCEPT !.live = FALSE].kind = m.kind
        /\ [m EXCEPT !.live = FALSE].cmd = m.cmd
        /\ [m EXCEPT !.live = FALSE].ok = m.ok
        /\ [m EXCEPT !.stage = "authenticated"] \in RequestType
        /\ [m EXCEPT !.stage = "authenticated"].kind = m.kind
        /\ [m EXCEPT !.stage = "authenticated"].cmd = m.cmd
        /\ [m EXCEPT !.stage = "authenticated"].ok = m.ok
    BY DEF RequestType
  <1> QED
    BY <1>1, Zenon DEF Truthful, Abandoned, Authenticated

\* A Step that fails drops its batch.
LEMMA FailedStepIs ==
    ASSUME AgentTypeOK, NEW a \in Agents
    PROVE  FailedStep(a) \in ProcType /\ FailedStep(a).batch = {}
  BY DEF AgentTypeOK, ProcType, FailedStep

\* A reply reaches the process that waits for it or nobody.
LEMMA ReplyReaches ==
    ASSUME AgentTypeOK, NEW m \in inflight, NEW p \in ProcType, Reply(m, p)
    PROVE  /\ proc' \in [Agents -> ProcType]
           /\ m.from \in Agents
           /\ \A a \in Agents : proc'[a] = proc[a] \/ (a = m.from /\ proc'[a] = p)
  <1>1. m.from \in Agents
    BY DEF AgentTypeOK, RequestType
  <1>2. proc' = proc \/ proc' = [proc EXCEPT ![m.from] = p]
    BY DEF Reply
  <1> QED
    BY <1>1, <1>2 DEF AgentTypeOK

-----------------------------------------------------------------------------
(* Type correctness.                                                       *)

\* The first state has the shape of AgentTypeOK.
LEMMA AgentInitType == AgentInit => AgentTypeOK
  <1>1. (CHOOSE a \in Agents : TRUE) \in Agents
    BY AgentAssumption
  <1>2. Down \in ProcType
    BY DEF Down, ProcType
  <1> QED
    BY <1>1, <1>2, AgentAssumption DEF AgentInit, AgentTypeOK, AgentStatuses, Open, Settled

\* Operators keep the shape.
LEMMA OperatorType == ASSUME AgentTypeOK, Operator PROVE AgentTypeOK'
  <1> USE DEF AgentTypeOK, cmdVars, srvVars, agentObsVars, enrolVars, AgentStatuses, Settled
  <1>1. ASSUME NEW t \in Tokens, CreateRegistration(t) \/ ExpireToken(t) PROVE AgentTypeOK'
    BY <1>1 DEF CreateRegistration, ExpireToken
  <1>2. ASSUME NEW t \in Tokens, NEW a \in Agents, Enroll(t, a) PROVE AgentTypeOK'
    <2>1. [Down EXCEPT !.pc = "idle"] \in ProcType
      BY DEF Down, ProcType
    <2> QED
      BY <1>2, <2>1 DEF Enroll
  <1>3. ASSUME NEW a \in Agents, Revoke(a) \/ RevokeCommands(a) PROVE AgentTypeOK'
    BY <1>3 DEF Revoke, RevokeCommands
  <1> QED
    BY <1>1, <1>2, <1>3 DEF Operator

\* A Dispatch keeps the shape.
LEMMA DispatchType ==
    ASSUME AgentTypeOK, NEW k \in Commands, Dispatch(k) PROVE AgentTypeOK'
  <1> USE DEF AgentTypeOK, srvVars, agentObsVars, enrolVars
  <1>1. ASSUME NEW a \in Agents, LoadAgent(k, a) PROVE AgentTypeOK'
    BY <1>1 DEF LoadAgent
  <1>2. CASE InsertCommand(k)
    BY <1>2 DEF InsertCommand, Open
  <1>3. CASE WaitResult(k)
    BY <1>3 DEF WaitResult
  <1>4. CASE WaitTimeout(k) \/ Lapse(k)
    BY <1>4 DEF WaitTimeout, Lapse
  <1> QED
    BY <1>1, <1>2, <1>3, <1>4 DEF Dispatch

\* A write to the state of one process that adds nothing to its batch.
LEMMA ProcWritten ==
    ASSUME AgentTypeOK, NEW a \in Agents, NEW p \in ProcType, p.batch \subseteq proc[a].batch,
           proc' = [proc EXCEPT ![a] = p]
    PROVE  /\ proc' \in [Agents -> ProcType]
           /\ \A b \in Agents : proc'[b].batch \subseteq proc[b].batch
  BY DEF AgentTypeOK

\* A process sends requests, takes commands off its batch or loses it.
LEMMA ProcessBatch ==
    ASSUME AgentTypeOK, NEW a \in Agents, AgentProcess(a)
    PROVE  /\ proc' \in [Agents -> ProcType]
           /\ \A b \in Agents : proc'[b].batch \subseteq proc[b].batch
  <1>0. proc[a] \in ProcType
    BY DEF AgentTypeOK
  <1>1. CASE StartStep(a)
    <2>1. [proc[a] EXCEPT !.pc = "heartbeat"] \in ProcType
      BY <1>0 DEF ProcType
    <2>2. [proc[a] EXCEPT !.pc = "heartbeat"].batch = proc[a].batch
      BY <1>0 DEF ProcType
    <2> QED
      BY <1>1, <2>1, <2>2, ProcWritten DEF StartStep
  <1>2. ASSUME NEW k \in Commands, Handle(a, k)
        PROVE  /\ proc' \in [Agents -> ProcType]
               /\ \A b \in Agents : proc'[b].batch \subseteq proc[b].batch
    <2> DEFINE ran == [pc |-> "report", batch |-> proc[a].batch \ {k},
                       done |-> (proc[a].done \ overdue) \cup {k}]
               refused == [proc[a] EXCEPT !.pc = "report", !.batch = @ \ {k}]
    <2>1. /\ ran \in ProcType /\ ran.batch \subseteq proc[a].batch
          /\ refused \in ProcType /\ refused.batch \subseteq proc[a].batch
      BY <1>0 DEF ProcType
    <2>2. proc' = [proc EXCEPT ![a] = ran] \/ proc' = [proc EXCEPT ![a] = refused]
      BY <1>0, <1>2 DEF Handle, AgentTypeOK, ProcType
    <2> HIDE DEF ran, refused
    <2> QED
      BY <2>1, <2>2, ProcWritten
  <1>3. CASE GiveUp(a)
    BY <1>3, FailedStepIs, ProcWritten DEF GiveUp
  <1>4. CASE AgentCrash(a)
    <2>1. Down \in ProcType /\ Down.batch = {}
      BY DEF Down, ProcType
    <2> QED
      BY <1>4, <2>1, ProcWritten DEF AgentCrash
  <1>5. CASE Restart(a)
    <2>1. [proc[a] EXCEPT !.pc = "idle"] \in ProcType
      BY <1>0 DEF ProcType
    <2>2. [proc[a] EXCEPT !.pc = "idle"].batch = proc[a].batch
      BY <1>0 DEF ProcType
    <2> QED
      BY <1>5, <2>1, <2>2, ProcWritten DEF Restart
  <1> QED
    BY <1>1, <1>2, <1>3, <1>4, <1>5 DEF AgentProcess

\* What a process sends is true.
LEMMA ProcessSends ==
    ASSUME AgentTypeOK, Honest, NEW a \in Agents, AgentProcess(a)
    PROVE  /\ inflight' \subseteq RequestType
           /\ \A m \in inflight' : Truthful(m)'
  <1>0. /\ NoCommand \in Commands \cup {NoCommand} /\ TRUE \in BOOLEAN
        /\ inflight \subseteq RequestType /\ \A m \in inflight : Truthful(m)
    BY DEF AgentTypeOK, Honest
  <1>1. CASE StartStep(a)
    <2>1. Request(a, "heartbeat", NoCommand, TRUE) \in RequestType
      BY <1>0, RequestIs
    <2>2. Truthful(Request(a, "heartbeat", NoCommand, TRUE))
      BY <1>0, RequestIs
    <2> QED
      BY <1>0, <1>1, <2>1, <2>2 DEF StartStep, Truthful, agentObsVars
  <1>2. ASSUME NEW k \in Commands, Handle(a, k)
        PROVE  /\ inflight' \subseteq RequestType
               /\ \A m \in inflight' : Truthful(m)'
    <2>1. PICK ok \in BOOLEAN :
             /\ inflight' = inflight \cup {Request(a, "report", k, ok)}
             /\ good \subseteq good'
             /\ ok => k \in good'
      BY <1>2 DEF Handle, RefusedResult
    <2>2. Request(a, "report", k, ok) \in RequestType
      BY RequestIs
    <2>3. Truthful(Request(a, "report", k, ok))'
      BY <2>1 DEF Request, Truthful
    <2> QED
      BY <1>0, <2>1, <2>2, <2>3 DEF Truthful
  <1>3. CASE GiveUp(a)
    <2>1. PICK m \in inflight : inflight' = (inflight \ {m}) \cup {Abandoned(m)}
      BY <1>3 DEF GiveUp
    <2> QED
      BY <1>0, <1>3, <2>1, RequestStays DEF GiveUp, Truthful, agentObsVars
  <1>4. CASE AgentCrash(a)
    <2>1. \A m \in inflight' : m \in inflight \/ \E n \in inflight : m = Abandoned(n)
      BY <1>4 DEF AgentCrash
    <2>2. good' = good
      BY <1>4 DEF AgentCrash, agentObsVars
    <2> QED
      BY <1>0, <2>1, <2>2, RequestStays DEF Truthful
  <1>5. CASE Restart(a)
    BY <1>0, <1>5 DEF Restart, Truthful, agentObsVars, srvVars
  <1> QED
    BY <1>1, <1>2, <1>3, <1>4, <1>5 DEF AgentProcess

\* What is served or answered is true.
LEMMA ServeSends ==
    ASSUME AgentTypeOK, Honest, NEW m \in inflight, ServeRequest(m)
    PROVE  /\ inflight' \subseteq RequestType
           /\ \A n \in inflight' : Truthful(n)'
           /\ m.from \in Agents
  <1>0. /\ NoCommand \in Commands \cup {NoCommand} /\ TRUE \in BOOLEAN
        /\ m.from \in Agents
        /\ inflight \subseteq RequestType /\ \A n \in inflight : Truthful(n)
    BY DEF AgentTypeOK, Honest, RequestType
  <1>1. good' = good
    BY DEF ServeRequest, Drop, Authenticate, RecordHeartbeat, Poll, ReportResult, agentObsVars
  <1>2. \/ inflight' \subseteq inflight
        \/ inflight' \subseteq inflight \cup {Authenticated(m)}
        \/ inflight' \subseteq inflight \cup {Request(m.from, "poll", NoCommand, TRUE)}
    BY DEF ServeRequest, Drop, Authenticate, RecordHeartbeat, Poll, ReportResult
  <1>3. /\ Request(m.from, "poll", NoCommand, TRUE) \in RequestType
        /\ Truthful(Request(m.from, "poll", NoCommand, TRUE))
    <2>1. Request(m.from, "poll", NoCommand, TRUE) \in RequestType
      BY <1>0, RequestIs
    <2>2. Truthful(Request(m.from, "poll", NoCommand, TRUE))
      BY <1>0, RequestIs
    <2> QED
      BY <2>1, <2>2
  <1>4. Authenticated(m) \in RequestType /\ Truthful(Authenticated(m))
    BY <1>0, RequestStays
  <1>5. inflight' \subseteq RequestType /\ \A n \in inflight' : Truthful(n)
    BY <1>0, <1>2, <1>3, <1>4
  <1> QED
    BY <1>0, <1>1, <1>5 DEF Truthful

\* A poll hands out commands of its agent that were pending; no other answer
\* adds to a batch.
LEMMA ServeBatch ==
    ASSUME AgentTypeOK, NEW m \in inflight, ServeRequest(m)
    PROVE  /\ proc' \in [Agents -> ProcType]
           /\ \A b \in Agents :
                 \/ proc'[b].batch \subseteq proc[b].batch
                 \/ Poll(m) /\ b = m.from /\ proc'[b].batch = Oldest(Deliverable(b))
  <1>0. m.from \in Agents /\ proc[m.from] \in ProcType
    BY DEF AgentTypeOK, RequestType
  <1>1. ASSUME NEW p \in ProcType, Reply(m, p),
               p.batch \subseteq proc[m.from].batch \/
                  (Poll(m) /\ p.batch = Oldest(Deliverable(m.from)))
        PROVE  /\ proc' \in [Agents -> ProcType]
               /\ \A b \in Agents :
                     \/ proc'[b].batch \subseteq proc[b].batch
                     \/ Poll(m) /\ b = m.from /\ proc'[b].batch = Oldest(Deliverable(b))
    BY <1>1, ReplyReaches
  <1>2. CASE UNCHANGED proc
    BY <1>2 DEF AgentTypeOK
  <1>3. FailedStep(m.from) \in ProcType /\ FailedStep(m.from).batch \subseteq proc[m.from].batch
    BY <1>0, FailedStepIs
  <1>4. CASE Drop(m) \/ Authenticate(m)
    BY <1>1, <1>2, <1>3, <1>4 DEF Drop, Authenticate
  <1>5. CASE RecordHeartbeat(m)
    <2>1. [proc[m.from] EXCEPT !.pc = "poll"] \in ProcType
      BY <1>0 DEF ProcType
    <2>2. [proc[m.from] EXCEPT !.pc = "poll"].batch = proc[m.from].batch
      BY <1>0 DEF ProcType
    <2> QED
      BY <1>1, <1>5, <2>1, <2>2 DEF RecordHeartbeat
  <1>6. CASE Poll(m)
    <2> DEFINE ks == Oldest(Deliverable(m.from))
               next == IF ks = {} THEN "idle" ELSE "batch"
               p == [proc[m.from] EXCEPT !.pc = next, !.batch = ks]
    <2>1. ks \subseteq Commands /\ next \in {"idle", "batch"}
      BY DEF Oldest, Deliverable
    <2>2. Reply(m, p)
      BY <1>6 DEF Poll
    <2> HIDE DEF ks, next
    <2>3. p \in ProcType /\ p.batch = ks
      BY <1>0, <2>1 DEF ProcType
    <2> QED
      BY <1>1, <1>6, <2>2, <2>3 DEF ks
  <1>7. CASE ReportResult(m)
    <2> DEFINE next == IF proc[m.from].batch = {} THEN "idle" ELSE "batch"
               p == [proc[m.from] EXCEPT !.pc = next]
    <2>1. Reply(m, p) \/ Reply(m, FailedStep(m.from))
      BY <1>7 DEF ReportResult
    <2>2. next \in {"idle", "batch"}
      OBVIOUS
    <2> HIDE DEF next
    <2>3. p \in ProcType /\ p.batch = proc[m.from].batch
      BY <1>0, <2>2 DEF ProcType
    <2> HIDE DEF p
    <2> QED
      BY <1>1, <1>3, <2>1, <2>3
  <1> QED
    BY <1>4, <1>5, <1>6, <1>7 DEF ServeRequest

\* Every step keeps the shape.
LEMMA AgentNextType ==
    ASSUME AgentTypeOK, Honest, [AgentNext]_channelVars PROVE AgentTypeOK'
  <1> USE DEF enrolVars, cmdVars, srvVars, agentObsVars
  <1>1. ASSUME NEW a \in Agents, AgentProcess(a) PROVE AgentTypeOK'
    <2>1. proc' \in [Agents -> ProcType] /\ inflight' \subseteq RequestType
      BY <1>1, ProcessBatch, ProcessSends
    <2>2. UNCHANGED <<registration, agent, node, cmd, owner, overdue, wait, revoking, revoked>>
      BY <1>1 DEF AgentProcess, StartStep, Handle, GiveUp, AgentCrash, Restart
    <2>3. losses' = losses \/ (losses < MaxLosses /\ losses' = losses + 1)
      BY <1>1 DEF AgentProcess, StartStep, Handle, GiveUp, AgentCrash, Restart
    <2>4. \/ executions' = executions /\ good' = good
          \/ \E k \in Commands :
                executions' = [executions EXCEPT ![k] = @ + 1] /\ good' \subseteq good \cup {k}
      BY <1>1 DEF AgentProcess, StartStep, Handle, GiveUp, AgentCrash, Restart
    <2>5. executions' \in [Commands -> Nat] /\ good' \subseteq Commands
      BY <2>4 DEF AgentTypeOK
    <2>6. losses' \in 0..MaxLosses
      BY <2>3, AgentAssumption DEF AgentTypeOK
    <2> QED
      BY <2>1, <2>2, <2>5, <2>6 DEF AgentTypeOK
  <1>2. ASSUME NEW m \in inflight, ServeRequest(m) PROVE AgentTypeOK'
    <2>1. /\ proc' \in [Agents -> ProcType] /\ inflight' \subseteq RequestType
          /\ m.from \in Agents
      BY <1>2, ServeBatch, ServeSends
    <2>2. UNCHANGED <<registration, owner, overdue, wait, revoking, executions, good, revoked>>
      BY <1>2 DEF ServeRequest, Drop, Authenticate, RecordHeartbeat, Poll, ReportResult
    <2>3. losses' = losses \/ (losses < MaxLosses /\ losses' = losses + 1)
      BY <1>2 DEF ServeRequest, Drop, Authenticate, RecordHeartbeat, Poll, ReportResult
    <2>4. \/ agent' = agent /\ node' = node
          \/ agent' = [agent EXCEPT ![m.from] = "online"] /\ node' = "online"
          \/ agent' = agent /\ node' = "online"
      BY <1>2 DEF ServeRequest, Drop, Authenticate, RecordHeartbeat, Poll, ReportResult
    <2>5. cmd' \in [Commands -> {"absent", "deleted"} \cup Open \cup Settled]
      BY <1>2
      DEF AgentTypeOK, Open, Settled, ServeRequest, Drop, Authenticate, RecordHeartbeat, Poll,
          ReportResult
    <2> QED
      BY <2>1, <2>2, <2>3, <2>4, <2>5, AgentAssumption DEF AgentTypeOK, AgentStatuses
  <1>3. CASE NodeSweep
    BY <1>3 DEF AgentTypeOK, AgentStatuses, Settled, NodeSweep, SweepAgents, SweepCommands
  <1>4. CASE UNCHANGED channelVars
    BY <1>4 DEF AgentTypeOK, channelVars
  <1> QED
    BY <1>1, <1>2, <1>3, <1>4, OperatorType, DispatchType DEF AgentNext

-----------------------------------------------------------------------------
(* The inductive invariant.                                                *)

\* Before anything is dispatched the invariant holds.
LEMMA AgentInitInv == AgentInit => ChannelInv
  <1> SUFFICES ASSUME AgentInit PROVE ChannelInv
    OBVIOUS
  <1>1. \A a \in Agents : proc[a].batch = {}
    BY DEF AgentInit, Down
  <1>2. Fresh /\ Unseen /\ InBatch /\ ExecutedOnce
    BY <1>1 DEF AgentInit, Fresh, Unseen, InBatch, ExecutedOnce
  <1>3. Honest /\ Repeated
    BY DEF AgentInit, Honest, Repeated
  <1> QED
    BY <1>2, <1>3, AgentInitType DEF ChannelInv

\* A step that runs, dispatches and hands out nothing keeps the invariant when
\* it ends commands only as an expiry or a deletion does.
LEMMA QuietInv ==
    ASSUME ChannelInv, AgentTypeOK',
           UNCHANGED <<wait, owner, executions, good>>,
           \A k \in Commands :
              \/ cmd'[k] = cmd[k]
              \/ cmd[k] # "absent" /\ cmd'[k] = "deleted"
              \/ cmd[k] \in Open /\ cmd'[k] = "expired",
           \A a \in Agents : proc'[a].batch \subseteq proc[a].batch,
           \A m \in inflight' : Truthful(m)'
    PROVE  ChannelInv'
  <1> USE DEF ChannelInv, Open
  <1>1. Fresh'
    BY DEF Fresh
  <1>2. Unseen' /\ InBatch'
    BY DEF Unseen, InBatch
  <1>3. ExecutedOnce'
    BY DEF ExecutedOnce
  <1>4. Honest'
    BY DEF Honest
  <1>5. Repeated'
    BY DEF Repeated
  <1> QED
    BY <1>1, <1>2, <1>3, <1>4, <1>5

\* Operators and sweeps run nothing.
LEMMA OperatorInv ==
    ASSUME ChannelInv, AgentTypeOK', Operator \/ NodeSweep
    PROVE  ChannelInv'
  <1> USE DEF enrolVars, cmdVars, srvVars, agentObsVars
  <1>1. UNCHANGED <<wait, owner, executions, good, inflight>>
    BY DEF Operator, NodeSweep, CreateRegistration, ExpireToken, Enroll, Revoke, RevokeCommands,
           SweepAgents, SweepCommands
  <1>2. \A k \in Commands :
           \/ cmd'[k] = cmd[k]
           \/ cmd[k] # "absent" /\ cmd'[k] = "deleted"
           \/ cmd[k] \in Open /\ cmd'[k] = "expired"
    BY DEF Operator, NodeSweep, CreateRegistration, ExpireToken, Enroll, Revoke, RevokeCommands,
           SweepAgents, SweepCommands, Stale, ChannelInv, AgentTypeOK
  <1>3. \A a \in Agents : proc'[a].batch \subseteq proc[a].batch
    <2>1. ASSUME NEW t \in Tokens, NEW a \in Agents, Enroll(t, a)
          PROVE  \A b \in Agents : proc'[b].batch \subseteq proc[b].batch
      <3>1. [Down EXCEPT !.pc = "idle"].batch = {}
        BY DEF Down
      <3> QED
        BY <2>1, <3>1 DEF Enroll, ChannelInv, AgentTypeOK
    <2>2. UNCHANGED proc \/ \E t \in Tokens, a \in Agents : Enroll(t, a)
      BY DEF Operator, NodeSweep, CreateRegistration, ExpireToken, Revoke, RevokeCommands,
             SweepAgents, SweepCommands
    <2> QED
      BY <2>1, <2>2
  <1>4. \A m \in inflight' : Truthful(m)'
    BY <1>1 DEF ChannelInv, Honest, Truthful
  <1> QED
    BY <1>1, <1>2, <1>3, <1>4, QuietInv

\* A Dispatch inserts a command nobody has seen and repeats what is stored.
LEMMA DispatchInv ==
    ASSUME ChannelInv, AgentTypeOK', NEW k \in Commands, Dispatch(k)
    PROVE  ChannelInv'
  <1> USE DEF ChannelInv, enrolVars, srvVars, agentObsVars
  <1>0. UNCHANGED <<inflight, proc, executions, good>>
    BY DEF Dispatch, LoadAgent, InsertCommand, WaitResult, WaitTimeout, Lapse
  <1>1. ExecutedOnce' /\ \A m \in inflight' : Truthful(m)'
    BY <1>0 DEF ExecutedOnce, Honest, Truthful
  <1>2. ASSUME NEW a \in Agents, LoadAgent(k, a) PROVE ChannelInv'
    <2>1. /\ cmd[k] = "absent" /\ cmd' = cmd
          /\ \A j \in Commands : wait'[j] = wait[j] \/ (j = k /\ wait'[j] = "loaded")
          /\ \A j \in Commands : j # k => owner'[j] = owner[j]
      BY <1>2 DEF LoadAgent, AgentTypeOK, Fresh
    <2>2. Fresh' /\ Unseen' /\ Honest' /\ Repeated'
      BY <1>0, <1>1, <2>1 DEF Fresh, Unseen, Honest, Repeated
    <2>3. InBatch'
      BY <1>0, <2>1 DEF Unseen, InBatch, AgentTypeOK, ProcType
    <2> QED
      BY <1>1, <2>2, <2>3
  <1>3. CASE InsertCommand(k)
    <2>1. /\ cmd[k] = "absent" /\ wait[k] = "loaded" /\ owner' = owner
          /\ \A j \in Commands : j # k => cmd'[j] = cmd[j] /\ wait'[j] = wait[j]
          /\ wait'[k] \in {"waiting", "error"}
          /\ cmd'[k] \in {"absent", "pending"}
      BY <1>3 DEF InsertCommand, AgentTypeOK, Fresh
    <2>2. Fresh' /\ Unseen' /\ InBatch'
      BY <1>0, <2>1 DEF Fresh, Unseen, InBatch
    <2>3. Honest' /\ Repeated'
      BY <1>0, <1>1, <2>1 DEF Honest, Repeated
    <2> QED
      BY <1>1, <2>2, <2>3
  <1>4. CASE WaitResult(k) \/ WaitTimeout(k) \/ Lapse(k)
    <2>1. /\ UNCHANGED <<cmd, owner>>
          /\ \A j \in Commands : j # k => wait'[j] = wait[j]
          /\ \/ wait'[k] = wait[k]
             \/ wait'[k] \in {"error", "timeout"}
             \/ cmd[k] = "succeeded" /\ wait'[k] = "ok"
             \/ cmd[k] = "expired" /\ wait'[k] = "expired"
      BY <1>4 DEF WaitResult, WaitTimeout, Lapse, AgentTypeOK, Settled
    <2>2. Fresh' /\ Unseen' /\ InBatch'
      BY <1>0, <2>1 DEF Fresh, Unseen, InBatch
    <2>3. Honest' /\ Repeated'
      BY <1>0, <1>1, <2>1 DEF Honest, Repeated
    <2> QED
      BY <1>1, <2>2, <2>3
  <1> QED
    BY <1>2, <1>3, <1>4 DEF Dispatch

\* An execution takes its command off the only batch that holds it.
LEMMA ProcessInv ==
    ASSUME ChannelInv, AgentTypeOK', NEW a \in Agents, AgentProcess(a)
    PROVE  ChannelInv'
  <1> USE DEF ChannelInv, enrolVars, cmdVars, srvVars, agentObsVars
  <1>1. /\ \A b \in Agents : proc'[b].batch \subseteq proc[b].batch
        /\ \A m \in inflight' : Truthful(m)'
    BY ProcessBatch, ProcessSends
  <1>2. UNCHANGED <<cmd, wait, owner>>
    BY DEF AgentProcess, StartStep, Handle, GiveUp, AgentCrash, Restart
  <1>3. CASE UNCHANGED <<executions, good>>
    BY <1>1, <1>2, <1>3, QuietInv
  <1>4. ASSUME NEW k \in Commands, Handle(a, k), executions' # executions \/ good' # good
        PROVE  ChannelInv'
    <2>1. /\ k \in proc[a].batch
          /\ executions' = [executions EXCEPT ![k] = @ + 1]
          /\ good \subseteq good'
      BY <1>4 DEF Handle
    <2>2. k \notin proc'[a].batch
      <3>1. proc[a] \in ProcType
        BY DEF AgentTypeOK
      <3>2. proc'[a].batch = proc[a].batch \ {k}
        BY <1>4, <3>1 DEF Handle, AgentTypeOK, ProcType
      <3> QED
        BY <3>2
    <2>3. /\ executions[k] = 0 /\ owner[k] = a /\ cmd[k] \notin {"absent", "pending"}
          /\ executions'[k] = 1
          /\ \A j \in Commands : j # k => executions'[j] = executions[j]
      BY <2>1 DEF InBatch, Unseen, AgentTypeOK
    <2>4. Fresh'
      BY <1>2 DEF Fresh
    <2>5. Unseen'
      BY <1>1, <1>2, <2>3 DEF Unseen
    <2>6. InBatch'
      <3> SUFFICES ASSUME NEW b \in Agents, NEW j \in proc'[b].batch
                   PROVE  executions'[j] = 0 /\ owner'[j] = b
        BY DEF InBatch
      <3>1. j \in Commands /\ executions[j] = 0 /\ owner[j] = b
        BY <1>1 DEF InBatch, AgentTypeOK, ProcType
      <3>2. j # k
        BY <2>2, <2>3, <3>1
      <3> QED
        BY <1>2, <2>3, <3>1, <3>2
    <2>7. ExecutedOnce'
      BY <2>3 DEF ExecutedOnce
    <2>8. Honest' /\ Repeated'
      BY <1>1, <1>2, <2>1 DEF Honest, Repeated
    <2> QED
      BY <2>4, <2>5, <2>6, <2>7, <2>8
  <1> QED
    BY <1>3, <1>4 DEF AgentProcess, StartStep, GiveUp, AgentCrash, Restart

\* A poll hands out what nobody has seen, to its owner alone; a result is
\* stored for a delivered command, and it is true.
LEMMA ServeInv ==
    ASSUME ChannelInv, AgentTypeOK', NEW m \in inflight, ServeRequest(m)
    PROVE  ChannelInv'
  <1> USE DEF ChannelInv, enrolVars, cmdVars, agentObsVars
  <1>1. m.from \in Agents /\ \A n \in inflight' : Truthful(n)'
    BY ServeSends
  <1>2. UNCHANGED <<wait, owner, executions, good>>
    BY DEF ServeRequest, Drop, Authenticate, RecordHeartbeat, Poll, ReportResult
  <1>3. ExecutedOnce'
    BY <1>2 DEF ExecutedOnce
  <1>4. CASE Poll(m)
    <2> DEFINE ks == Oldest(Deliverable(m.from))
    <2>1. \A k \in ks : k \in Commands /\ owner[k] = m.from /\ cmd[k] = "pending"
      BY DEF Oldest, Deliverable
    <2>2. \A k \in Commands : IF k \in ks THEN cmd'[k] = "delivered" ELSE cmd'[k] = cmd[k]
      BY <1>4 DEF Poll
    <2>3. \A b \in Agents :
             proc'[b].batch \subseteq proc[b].batch \/ (b = m.from /\ proc'[b].batch = ks)
      BY ServeBatch
    <2> HIDE DEF ks
    <2>4. Fresh'
      BY <1>2, <2>1, <2>2 DEF Fresh
    <2>5. Unseen'
      BY <1>2, <2>1, <2>2, <2>3 DEF Unseen
    <2>6. InBatch'
      BY <1>2, <2>1, <2>3 DEF Unseen, InBatch
    <2>7. Honest' /\ Repeated'
      BY <1>1, <1>2, <2>1, <2>2 DEF Honest, Repeated
    <2> QED
      BY <1>3, <2>4, <2>5, <2>6, <2>7
  <1>5. CASE ~Poll(m)
    <2>1. \A b \in Agents : proc'[b].batch \subseteq proc[b].batch
      BY <1>5, ServeBatch
    <2>2. CASE UNCHANGED cmd
      BY <1>1, <1>2, <2>1, <2>2, QuietInv
    <2>3. CASE /\ ReportResult(m)
               /\ Awaits(m.cmd, m.from)
               /\ cmd' = [cmd EXCEPT ![m.cmd] = IF m.ok THEN "succeeded" ELSE "failed"]
      <3>1. m.cmd \in Commands /\ (m.ok => m.cmd \in good) /\ cmd[m.cmd] = "delivered"
        BY <2>3 DEF ReportResult, Awaits, Honest, Truthful
      <3>2. /\ \A k \in Commands : k # m.cmd => cmd'[k] = cmd[k]
            /\ \/ cmd'[m.cmd] = "succeeded" /\ m.cmd \in good
               \/ cmd'[m.cmd] = "failed"
        BY <2>3, <3>1 DEF AgentTypeOK
      <3>3. Fresh' /\ Unseen' /\ InBatch'
        BY <1>2, <2>1, <3>1, <3>2 DEF Fresh, Unseen, InBatch
      <3>4. Honest' /\ Repeated'
        BY <1>1, <1>2, <3>1, <3>2 DEF Honest, Repeated
      <3> QED
        BY <1>3, <3>3, <3>4
    <2> QED
      BY <1>5, <2>2, <2>3 DEF ServeRequest, Drop, Authenticate, RecordHeartbeat, ReportResult
  <1> QED
    BY <1>4, <1>5

\* Every step of the channel keeps the inductive invariant.
LEMMA AgentNextInv == ChannelInv /\ [AgentNext]_channelVars => ChannelInv'
  <1> SUFFICES ASSUME ChannelInv, [AgentNext]_channelVars PROVE ChannelInv'
    OBVIOUS
  <1>0. AgentTypeOK'
    BY AgentNextType DEF ChannelInv
  <1>1. CASE UNCHANGED channelVars
    <2>1. /\ UNCHANGED <<wait, owner, executions, good, cmd, proc, inflight>>
      BY <1>1 DEF channelVars, cmdVars, srvVars, agentObsVars
    <2>2. \A m \in inflight' : Truthful(m)'
      BY <2>1 DEF ChannelInv, Honest, Truthful
    <2> QED
      BY <1>0, <2>1, <2>2, QuietInv
  <1> QED
    BY <1>0, <1>1, OperatorInv, DispatchInv, ProcessInv, ServeInv DEF AgentNext

\* The inductive invariant holds in every reachable state.
THEOREM AgentInvariance == AgentSpec => []ChannelInv
  BY AgentInitInv, AgentNextInv, PTL DEF AgentSpec

\* Every reachable state has the shape of AgentTypeOK.
THEOREM AgentTypeCorrect == AgentSpec => []AgentTypeOK
  <1>1. ChannelInv => AgentTypeOK
    BY DEF ChannelInv
  <1> QED
    BY <1>1, AgentInvariance, PTL

-----------------------------------------------------------------------------
(* Type correctness, and one execution.                                    *)

\* Poll hands out a command once, so that an agent that has forgotten what it
\* executed, or several agents of a node in turn, execute it at most once.
THEOREM ExecutedOnceHolds == AgentSpec => []ExecutedOnce
  <1>1. ChannelInv => ExecutedOnce
    BY DEF ChannelInv
  <1> QED
    BY <1>1, AgentInvariance, PTL

-----------------------------------------------------------------------------
(* What awaits a command that is to run.                                   *)

\* Revoked rows are of agents an operator has revoked.
Marked == revoking \subseteq revoked /\ \A a \in Agents : agent[a] = "revoked" => a \in revoked

\* A command that is open has a Dispatch that was told nothing yet.
Asked == \A k \in Commands : cmd[k] \in Open => wait[k] \in {"waiting", "timeout"}

\* A command in a batch still awaits its result, unless it is overdue or its
\* agent was revoked.
Held ==
    \A a \in Agents : \A k \in proc[a].batch :
        cmd[k] = "delivered" \/ k \in overdue \/ a \in revoked

\* A command that is in no batch any more.
Gone(k) == cmd[k] \notin {"absent", "pending"} /\ \A a \in Agents : k \notin proc[a].batch

\* A report on the way is the last word about its command, and so is a result.
LastWord ==
    /\ \A m \in inflight :
          m.kind = "report" => Gone(m.cmd) /\ (m.cmd \in good => m.ok)
    /\ \A k \in Commands : cmd[k] \in {"succeeded", "failed"} => Gone(k)
    /\ \A k \in Commands : cmd[k] = "failed" => k \notin good
    /\ \A k \in Commands : wait[k] = "error" =>
          /\ k \notin good
          /\ cmd[k] = "absent" \/ Gone(k)

\* What was executed with success was executed.
Ran == \A k \in good : executions[k] # 0

AwaitInv == Ran /\ Marked /\ Asked /\ Held /\ LastWord

\* An answer about nothing that runs: Operator, Sweep, lost and refused requests.
LEMMA AwaitQuiet ==
    ASSUME ChannelInv, AwaitInv, Marked', UNCHANGED <<wait, owner, executions, good>>,
           overdue \subseteq overdue', revoked \subseteq revoked',
           \A k \in Commands :
              \/ cmd'[k] = cmd[k]
              \/ cmd[k] # "absent" /\ cmd'[k] = "deleted" /\ owner[k] \in revoked'
              \/ cmd[k] \in Open /\ cmd'[k] = "expired"
                    /\ (k \in overdue' \/ owner[k] \in revoked'),
           \A a \in Agents : proc'[a].batch \subseteq proc[a].batch,
           \A m \in inflight' : m.kind = "report" =>
              \E n \in inflight : n.kind = "report" /\ n.cmd = m.cmd /\ n.ok = m.ok
    PROVE  AwaitInv'
  <1> USE DEF AwaitInv
  <1>1. Ran' /\ Asked'
    BY DEF Ran, Asked, Open
  <1>2. Held'
    <2> SUFFICES ASSUME NEW a \in Agents, NEW k \in proc'[a].batch
                 PROVE  cmd'[k] = "delivered" \/ k \in overdue' \/ a \in revoked'
      BY DEF Held
    <2>1. k \in Commands /\ k \in proc[a].batch /\ owner[k] = a
      BY DEF ChannelInv, InBatch, AgentTypeOK, ProcType
    <2> QED
      BY <2>1 DEF Held
  <1>3. \A k \in Commands : Gone(k) => Gone(k)'
    BY DEF Gone, Open
  <1>4. \A m \in inflight : m.kind = "report" => m.cmd \in Commands
    BY DEF ChannelInv, Honest, Truthful
  <1>5. \A m \in inflight' : m.kind = "report" => Gone(m.cmd)' /\ (m.cmd \in good' => m.ok)
    BY <1>3, <1>4 DEF LastWord
  <1>6. /\ \A k \in Commands : cmd'[k] \in {"succeeded", "failed"} => Gone(k)'
        /\ \A k \in Commands : cmd'[k] = "failed" => k \notin good'
    BY <1>3 DEF LastWord
  <1>7. \A k \in Commands : wait'[k] = "error" =>
           /\ k \notin good'
           /\ cmd'[k] = "absent" \/ Gone(k)'
    BY <1>3 DEF LastWord, Open
  <1>8. LastWord'
    BY <1>5, <1>6, <1>7 DEF LastWord
  <1> QED
    BY <1>1, <1>2, <1>8

\* Before anything is dispatched nothing awaits.
LEMMA InitAwait == AgentInit => AwaitInv
  <1> SUFFICES ASSUME AgentInit PROVE AwaitInv
    OBVIOUS
  <1>1. \A a \in Agents : proc[a].batch = {}
    BY DEF AgentInit, Down
  <1>2. Ran /\ Marked /\ Asked
    BY DEF AgentInit, Ran, Marked, Asked, Open
  <1>3. Held
    BY <1>1 DEF Held
  <1>4. LastWord
    BY DEF AgentInit, LastWord
  <1> QED
    BY <1>2, <1>3, <1>4 DEF AwaitInv

\* A command is deleted with its revoked agent, and expires when its agent is
\* revoked or it is overdue.
LEMMA OperatorAwait ==
    ASSUME ChannelInv, AwaitInv, Operator \/ NodeSweep PROVE AwaitInv'
  <1> USE DEF enrolVars, cmdVars, srvVars, agentObsVars
  <1>1. UNCHANGED <<wait, owner, overdue, executions, good, inflight>>
        /\ revoked \subseteq revoked'
    BY DEF Operator, NodeSweep, CreateRegistration, ExpireToken, Enroll, Revoke, RevokeCommands,
           SweepAgents, SweepCommands
  <1>2. Marked'
    <2>1. ASSUME NEW t \in Tokens, NEW a \in Agents, Enroll(t, a) PROVE Marked'
      BY <2>1 DEF Enroll, AwaitInv, Marked, HasRow
    <2>2. ASSUME NEW t \in Tokens, CreateRegistration(t) \/ ExpireToken(t) PROVE Marked'
      BY <2>2 DEF CreateRegistration, ExpireToken, AwaitInv, Marked
    <2>3. ASSUME NEW a \in Agents, Revoke(a) \/ RevokeCommands(a) PROVE Marked'
      BY <2>3 DEF Revoke, RevokeCommands, AwaitInv, Marked, ChannelInv, AgentTypeOK
    <2>4. CASE NodeSweep
      BY <2>4 DEF NodeSweep, SweepAgents, SweepCommands, AwaitInv, Marked, ChannelInv, AgentTypeOK
    <2> QED
      BY <2>1, <2>2, <2>3, <2>4 DEF Operator
  <1>3. \A k \in Commands :
           \/ cmd'[k] = cmd[k]
           \/ cmd[k] # "absent" /\ cmd'[k] = "deleted" /\ owner[k] \in revoked'
           \/ cmd[k] \in Open /\ cmd'[k] = "expired"
                 /\ (k \in overdue' \/ owner[k] \in revoked')
    <2>1. ASSUME NEW t \in Tokens, NEW a \in Agents, Enroll(t, a), NEW k \in Commands
          PROVE  cmd'[k] = cmd[k]
                   \/ (cmd[k] # "absent" /\ cmd'[k] = "deleted" /\ owner[k] \in revoked')
      <3>1. owner[k] \in Agents
        BY DEF ChannelInv, AgentTypeOK
      <3>2. HasRow(owner[k]) => owner[k] \in revoked
        BY <2>1, <3>1 DEF Enroll, AwaitInv, Marked
      <3> QED
        BY <1>1, <2>1, <3>2 DEF Enroll
    <2>2. ASSUME NEW a \in Agents, RevokeCommands(a), NEW k \in Commands
          PROVE  cmd'[k] = cmd[k]
                   \/ (cmd[k] \in Open /\ cmd'[k] = "expired" /\ owner[k] \in revoked')
      <3>1. a \in revoked
        BY <2>2 DEF RevokeCommands, AwaitInv, Marked
      <3> QED
        BY <1>1, <2>2, <3>1 DEF RevokeCommands
    <2>3. ASSUME SweepCommands, NEW k \in Commands
          PROVE  cmd'[k] = cmd[k]
                   \/ (cmd[k] \in Open /\ cmd'[k] = "expired" /\ k \in overdue')
      BY <1>1, <2>3 DEF SweepCommands, Stale
    <2>4. \/ UNCHANGED cmd
          \/ \E t \in Tokens, a \in Agents : Enroll(t, a)
          \/ \E a \in Agents : RevokeCommands(a)
          \/ SweepCommands
      BY DEF Operator, NodeSweep, CreateRegistration, ExpireToken, Revoke, SweepAgents
    <2> QED
      BY <2>1, <2>2, <2>3, <2>4
  <1>4. \A a \in Agents : proc'[a].batch \subseteq proc[a].batch
    <2>1. ASSUME NEW t \in Tokens, NEW a \in Agents, Enroll(t, a)
          PROVE  \A b \in Agents : proc'[b].batch \subseteq proc[b].batch
      <3>1. [Down EXCEPT !.pc = "idle"].batch = {}
        BY DEF Down
      <3> QED
        BY <2>1, <3>1 DEF Enroll, ChannelInv, AgentTypeOK
    <2>2. UNCHANGED proc \/ \E t \in Tokens, a \in Agents : Enroll(t, a)
      BY DEF Operator, NodeSweep, CreateRegistration, ExpireToken, Revoke, RevokeCommands,
             SweepAgents, SweepCommands
    <2> QED
      BY <2>1, <2>2
  <1>5. \A m \in inflight' : m.kind = "report" =>
           \E n \in inflight : n.kind = "report" /\ n.cmd = m.cmd /\ n.ok = m.ok
    BY <1>1
  <1> QED
    BY <1>1, <1>2, <1>3, <1>4, <1>5, AwaitQuiet

\* A Dispatch waits from the insertion of its command on, and repeats a result
\* after which nothing runs.
LEMMA DispatchAwait ==
    ASSUME ChannelInv, AwaitInv, NEW k \in Commands, Dispatch(k) PROVE AwaitInv'
  <1> USE DEF AwaitInv, enrolVars, srvVars, agentObsVars
  <1>0. /\ UNCHANGED <<inflight, proc, executions, good, agent, revoking, revoked>>
        /\ overdue \subseteq overdue'
    BY DEF Dispatch, LoadAgent, InsertCommand, WaitResult, WaitTimeout, Lapse
  <1>1. Ran' /\ Marked'
    BY <1>0 DEF Ran, Marked
  <1>2. /\ \A j \in Commands : j # k => cmd'[j] = cmd[j] /\ wait'[j] = wait[j]
        /\ \/ cmd'[k] = cmd[k] /\ wait'[k] = wait[k]
           \/ cmd[k] = "absent" /\ cmd'[k] = "absent" /\ wait'[k] \in {"loaded", "error"}
           \/ cmd[k] = "absent" /\ cmd'[k] = "pending" /\ wait'[k] = "waiting"
           \/ cmd'[k] = cmd[k] /\ cmd[k] = "failed" /\ wait'[k] = "error"
           \/ cmd'[k] = cmd[k] /\ cmd[k] \notin Open /\ wait'[k] \in {"ok", "expired"}
           \/ cmd'[k] = cmd[k] /\ wait'[k] = "timeout"
    BY DEF Dispatch, LoadAgent, InsertCommand, WaitResult, WaitTimeout, Lapse, Open, Settled,
           ChannelInv, AgentTypeOK, Fresh
  <1>3. Asked'
    BY <1>2 DEF Asked, Open
  <1>4. \A j \in Commands : cmd[j] = "absent" =>
           /\ \A a \in Agents : j \notin proc[a].batch
           /\ j \notin good
    BY DEF ChannelInv, Unseen, Ran
  <1>5. Held'
    <2> SUFFICES ASSUME NEW a \in Agents, NEW j \in proc'[a].batch
                 PROVE  cmd'[j] = "delivered" \/ j \in overdue' \/ a \in revoked'
      BY DEF Held
    <2>1. j \in Commands /\ j \in proc[a].batch
      BY <1>0 DEF ChannelInv, AgentTypeOK, ProcType
    <2>2. cmd'[j] = cmd[j]
      BY <1>2, <1>4, <2>1
    <2> QED
      BY <1>0, <2>1, <2>2 DEF Held
  <1>6. \A j \in Commands : Gone(j) => Gone(j)'
    BY <1>0, <1>2 DEF Gone
  <1>7. \A m \in inflight : m.kind = "report" => m.cmd \in Commands
    BY DEF ChannelInv, Honest, Truthful
  <1>8. \A m \in inflight' : m.kind = "report" => Gone(m.cmd)' /\ (m.cmd \in good' => m.ok)
    BY <1>0, <1>6, <1>7 DEF LastWord
  <1>9. /\ \A j \in Commands : cmd'[j] \in {"succeeded", "failed"} => Gone(j)'
        /\ \A j \in Commands : cmd'[j] = "failed" => j \notin good'
    BY <1>0, <1>2, <1>6 DEF LastWord
  <1>10. \A j \in Commands : wait'[j] = "error" =>
            /\ j \notin good'
            /\ cmd'[j] = "absent" \/ Gone(j)'
    BY <1>0, <1>2, <1>4, <1>6 DEF LastWord
  <1>11. LastWord'
    BY <1>8, <1>9, <1>10 DEF LastWord
  <1> QED
    BY <1>1, <1>3, <1>5, <1>11

\* A command leaves the batch with its report, whether it was executed or not.
LEMMA HandleAwait ==
    ASSUME ChannelInv, AwaitInv, NEW a \in Agents, NEW k \in Commands, Handle(a, k)
    PROVE  AwaitInv'
  <1> USE DEF AwaitInv, enrolVars, cmdVars
  <1>0. UNCHANGED <<cmd, owner, overdue, wait, agent, revoking, revoked>>
    BY DEF Handle
  <1>1. PICK ok \in BOOLEAN :
           /\ inflight' = inflight \cup {Request(a, "report", k, ok)}
           /\ \/ executions' = [executions EXCEPT ![k] = @ + 1]
                   /\ good' = IF ok THEN good \cup {k} ELSE good
              \/ ~ok /\ UNCHANGED <<executions, good>>
    BY DEF Handle, RefusedResult
  <1>2. k \in proc[a].batch /\ executions[k] = 0 /\ owner[k] = a /\ cmd[k] \notin {"absent", "pending"}
    BY DEF Handle, ChannelInv, InBatch, Unseen
  <1>3. /\ \A b \in Agents : proc'[b].batch \subseteq proc[b].batch
        /\ k \notin proc'[a].batch
    <2>1. proc[a] \in ProcType
      BY DEF ChannelInv, AgentTypeOK
    <2>2. proc'[a].batch = proc[a].batch \ {k} /\ \A b \in Agents : b # a => proc'[b] = proc[b]
      BY <2>1 DEF Handle, ChannelInv, AgentTypeOK, ProcType
    <2> QED
      BY <2>2
  <1>4. \A b \in Agents : k \notin proc'[b].batch
    BY <1>2, <1>3 DEF ChannelInv, InBatch
  <1>5. k \notin good /\ \A m \in inflight : m.kind = "report" => m.cmd # k
    BY <1>2 DEF Ran, LastWord, Gone
  <1>6. Ran'
    BY <1>1 DEF Ran, ChannelInv, AgentTypeOK
  <1>7. Marked' /\ Asked'
    BY <1>0 DEF Marked, Asked
  <1>8. Held'
    BY <1>0, <1>3 DEF Held
  <1>9. Gone(k)' /\ \A j \in Commands : Gone(j) => Gone(j)'
    BY <1>0, <1>2, <1>3, <1>4 DEF Gone
  <1>10. \A j \in Commands : j # k => (j \in good' <=> j \in good)
    BY <1>1
  <1>11. \A m \in inflight : m.kind = "report" => m.cmd \in Commands
    BY DEF ChannelInv, Honest, Truthful
  <1>12. \A m \in inflight' : m.kind = "report" => Gone(m.cmd)' /\ (m.cmd \in good' => m.ok)
    <2>1. ASSUME NEW m \in inflight, m.kind = "report"
          PROVE  Gone(m.cmd)' /\ (m.cmd \in good' => m.ok)
      BY <1>5, <1>9, <1>10, <1>11, <2>1 DEF LastWord
    <2>2. /\ Request(a, "report", k, ok).cmd = k
          /\ Request(a, "report", k, ok).ok = ok
      BY DEF Request
    <2>3. k \in good' => ok
      BY <1>1, <1>5
    <2> QED
      BY <1>1, <1>9, <2>1, <2>2, <2>3
  <1>13. /\ \A j \in Commands : cmd'[j] \in {"succeeded", "failed"} => Gone(j)'
         /\ \A j \in Commands : cmd'[j] = "failed" => j \notin good'
    BY <1>0, <1>2, <1>9, <1>10 DEF LastWord, Gone
  <1>14. \A j \in Commands : wait'[j] = "error" =>
            /\ j \notin good'
            /\ cmd'[j] = "absent" \/ Gone(j)'
    BY <1>0, <1>2, <1>9, <1>10 DEF LastWord, Gone
  <1>15. LastWord'
    BY <1>12, <1>13, <1>14 DEF LastWord
  <1> QED
    BY <1>6, <1>7, <1>8, <1>15

\* A process that executes nothing sends no new report.
LEMMA ProcessAwait ==
    ASSUME ChannelInv, AwaitInv, NEW a \in Agents, AgentProcess(a) PROVE AwaitInv'
  <1>1. CASE \E k \in Commands : Handle(a, k)
    BY <1>1, HandleAwait
  <1>2. CASE StartStep(a) \/ GiveUp(a) \/ AgentCrash(a) \/ Restart(a)
    <2>1. UNCHANGED <<cmd, wait, owner, overdue, executions, good, agent, revoking, revoked>>
      BY <1>2 DEF StartStep, GiveUp, AgentCrash, Restart, enrolVars, cmdVars, srvVars,
                  agentObsVars
    <2>2. Marked'
      BY <2>1 DEF AwaitInv, Marked
    <2>3. \A b \in Agents : proc'[b].batch \subseteq proc[b].batch
      BY ProcessBatch DEF ChannelInv
    <2>4. \A m \in inflight' :
             \/ m \in inflight
             \/ \E n \in inflight : m = Abandoned(n)
             \/ m = Request(a, "heartbeat", NoCommand, TRUE)
      <3>1. CASE StartStep(a)
        BY <3>1 DEF StartStep
      <3>2. CASE GiveUp(a)
        BY <3>2 DEF GiveUp
      <3>3. CASE AgentCrash(a)
        BY <3>3 DEF AgentCrash
      <3>4. CASE Restart(a)
        BY <3>4 DEF Restart, srvVars
      <3> QED
        BY <1>2, <3>1, <3>2, <3>3, <3>4
    <2>5. \A n \in inflight : /\ Abandoned(n).kind = n.kind /\ Abandoned(n).cmd = n.cmd
                              /\ Abandoned(n).ok = n.ok
      BY DEF ChannelInv, AgentTypeOK, RequestType, Abandoned
    <2>6. Request(a, "heartbeat", NoCommand, TRUE).kind # "report"
      BY DEF Request
    <2>7. \A m \in inflight' : m.kind = "report" =>
             \E n \in inflight : n.kind = "report" /\ n.cmd = m.cmd /\ n.ok = m.ok
      <3> SUFFICES ASSUME NEW m \in inflight', m.kind = "report"
                   PROVE  \E n \in inflight : n.kind = "report" /\ n.cmd = m.cmd /\ n.ok = m.ok
        OBVIOUS
      <3>1. CASE m \in inflight
        BY <3>1
      <3>2. ASSUME NEW n \in inflight, m = Abandoned(n)
            PROVE  n.kind = "report" /\ n.cmd = m.cmd /\ n.ok = m.ok
        BY <2>5, <3>2
      <3> QED
        BY <2>4, <2>6, <3>1, <3>2
    <2> QED
      BY <2>1, <2>2, <2>3, <2>7, AwaitQuiet
  <1> QED
    BY <1>1, <1>2 DEF AgentProcess

\* Serving a request other than a poll sends no report, and changes a command
\* only as a result or not at all.
LEMMA ServeFrame ==
    ASSUME ChannelInv, AwaitInv, NEW m \in inflight, ServeRequest(m)
    PROVE  /\ UNCHANGED <<wait, owner, overdue, executions, good, revoking, revoked>>
           /\ Marked'
           /\ \A n \in inflight' : n.kind = "report" =>
                 \E l \in inflight : l.kind = "report" /\ l.cmd = n.cmd /\ l.ok = n.ok
  <1>1. UNCHANGED <<wait, owner, overdue, executions, good, revoking, revoked>>
    BY DEF ServeRequest, Drop, Authenticate, RecordHeartbeat, Poll, ReportResult, enrolVars,
           cmdVars, agentObsVars
  <1>2. agent' = agent \/ agent' = [agent EXCEPT ![m.from] = "online"]
    BY DEF ServeRequest, Drop, Authenticate, RecordHeartbeat, Poll, ReportResult, enrolVars
  <1>3. Marked'
    BY <1>1, <1>2 DEF AwaitInv, Marked, ChannelInv, AgentTypeOK
  <1>4. \/ inflight' \subseteq inflight
        \/ inflight' \subseteq inflight \cup {Authenticated(m)}
        \/ inflight' \subseteq inflight \cup {Request(m.from, "poll", NoCommand, TRUE)}
    BY DEF ServeRequest, Drop, Authenticate, RecordHeartbeat, Poll, ReportResult
  <1>5. /\ Authenticated(m).kind = m.kind /\ Authenticated(m).cmd = m.cmd
        /\ Authenticated(m).ok = m.ok
    BY DEF ChannelInv, AgentTypeOK, RequestType, Authenticated
  <1>6. Request(m.from, "poll", NoCommand, TRUE).kind # "report"
    BY DEF Request
  <1> QED
    BY <1>1, <1>3, <1>4, <1>5, <1>6

\* A poll hands out what awaits a result; a result is stored for a command that
\* is in no batch any more.
LEMMA ServeAwait ==
    ASSUME ChannelInv, AwaitInv, NEW m \in inflight, ServeRequest(m) PROVE AwaitInv'
  <1>0. /\ UNCHANGED <<wait, owner, overdue, executions, good, revoking, revoked>>
        /\ Marked'
        /\ \A n \in inflight' : n.kind = "report" =>
              \E l \in inflight : l.kind = "report" /\ l.cmd = n.cmd /\ l.ok = n.ok
    BY ServeFrame
  <1>1. \A n \in inflight : n.kind = "report" => n.cmd \in Commands
    BY DEF ChannelInv, Honest, Truthful
  <1>2. CASE Poll(m)
    <2> DEFINE ks == Oldest(Deliverable(m.from))
    <2>1. \A k \in ks : k \in Commands /\ cmd[k] = "pending"
      BY DEF Oldest, Deliverable
    <2>2. \A k \in Commands : IF k \in ks THEN cmd'[k] = "delivered" ELSE cmd'[k] = cmd[k]
      BY <1>2 DEF Poll
    <2>3. \A b \in Agents :
             proc'[b].batch \subseteq proc[b].batch \/ proc'[b].batch = ks
      BY ServeBatch DEF ChannelInv
    <2> HIDE DEF ks
    <2>4. Ran' /\ Asked'
      BY <1>0, <2>1, <2>2 DEF AwaitInv, Ran, Asked, Open
    <2>5. Held'
      <3> SUFFICES ASSUME NEW a \in Agents, NEW k \in proc'[a].batch
                   PROVE  cmd'[k] = "delivered" \/ k \in overdue' \/ a \in revoked'
        BY DEF Held
      <3>1. CASE k \in ks
        BY <2>1, <2>2, <3>1
      <3>2. CASE k \notin ks
        <4>1. k \in Commands /\ k \in proc[a].batch
          BY <2>3, <3>2 DEF ChannelInv, AgentTypeOK, ProcType
        <4> QED
          BY <1>0, <2>2, <3>2, <4>1 DEF AwaitInv, Held
      <3> QED
        BY <3>1, <3>2
    <2>6. \A k \in Commands : Gone(k) => Gone(k)'
      BY <2>1, <2>2, <2>3 DEF Gone
    <2>7. \A n \in inflight' : n.kind = "report" => Gone(n.cmd)' /\ (n.cmd \in good' => n.ok)
      BY <1>0, <1>1, <2>6 DEF AwaitInv, LastWord
    <2>8. \A k \in Commands :
             /\ cmd'[k] \in {"succeeded", "failed"} => Gone(k)'
             /\ cmd'[k] = "failed" => k \notin good'
             /\ wait'[k] = "error" => k \notin good' /\ (cmd'[k] = "absent" \/ Gone(k)')
      BY <1>0, <2>1, <2>2, <2>6 DEF AwaitInv, LastWord, Gone
    <2>9. LastWord'
      BY <2>7, <2>8 DEF LastWord
    <2> QED
      BY <1>0, <2>4, <2>5, <2>9 DEF AwaitInv
  <1>3. CASE ~Poll(m)
    <2>1. \A b \in Agents : proc'[b].batch \subseteq proc[b].batch
      BY <1>3, ServeBatch DEF ChannelInv
    <2>2. CASE UNCHANGED cmd
      BY <1>0, <2>1, <2>2, AwaitQuiet
    <2>3. CASE /\ ReportResult(m)
               /\ Awaits(m.cmd, m.from)
               /\ cmd' = [cmd EXCEPT ![m.cmd] = IF m.ok THEN "succeeded" ELSE "failed"]
      <3>1. /\ m.cmd \in Commands /\ cmd[m.cmd] = "delivered"
            /\ Gone(m.cmd) /\ (m.cmd \in good => m.ok)
        BY <1>1, <2>3 DEF ReportResult, Awaits, AwaitInv, LastWord
      <3>2. /\ \A k \in Commands : k # m.cmd => cmd'[k] = cmd[k]
            /\ \/ cmd'[m.cmd] = "succeeded"
               \/ cmd'[m.cmd] = "failed" /\ m.cmd \notin good
        BY <2>3, <3>1 DEF ChannelInv, AgentTypeOK
      <3>3. Ran' /\ Asked'
        BY <1>0, <3>2 DEF AwaitInv, Ran, Asked, Open
      <3>4. Held'
        BY <1>0, <2>1, <3>1, <3>2 DEF AwaitInv, Held, Gone, ChannelInv, AgentTypeOK, ProcType
      <3>5. \A k \in Commands : Gone(k) => Gone(k)'
        BY <2>1, <3>2 DEF Gone
      <3>6. \A n \in inflight' : n.kind = "report" => Gone(n.cmd)' /\ (n.cmd \in good' => n.ok)
        BY <1>0, <1>1, <3>5 DEF AwaitInv, LastWord
      <3>7. \A k \in Commands :
               /\ cmd'[k] \in {"succeeded", "failed"} => Gone(k)'
               /\ cmd'[k] = "failed" => k \notin good'
               /\ wait'[k] = "error" => k \notin good' /\ (cmd'[k] = "absent" \/ Gone(k)')
        BY <1>0, <3>1, <3>2, <3>5 DEF AwaitInv, LastWord
      <3>8. LastWord'
        BY <3>6, <3>7 DEF LastWord
      <3> QED
        BY <1>0, <3>3, <3>4, <3>8 DEF AwaitInv
    <2> QED
      BY <1>3, <2>2, <2>3 DEF ServeRequest, Drop, Authenticate, RecordHeartbeat, ReportResult,
                              cmdVars
  <1> QED
    BY <1>2, <1>3

\* Every step of the channel keeps it.
LEMMA NextAwait ==
    ASSUME ChannelInv, AwaitInv, [AgentNext]_channelVars PROVE AwaitInv'
  <1>1. CASE UNCHANGED channelVars
    <2>1. UNCHANGED <<wait, owner, executions, good, overdue, revoked, revoking, agent, cmd, proc,
                      inflight>>
      BY <1>1 DEF channelVars, enrolVars, cmdVars, srvVars, agentObsVars
    <2>2. Marked'
      BY <2>1 DEF AwaitInv, Marked
    <2> QED
      BY <2>1, <2>2, AwaitQuiet
  <1> QED
    BY <1>1, OperatorAwait, DispatchAwait, ProcessAwait, ServeAwait DEF AgentNext

\* The channel's whole invariant holds in every reachable state.
THEOREM AwaitInvariance == AgentSpec => [](ChannelInv /\ AwaitInv)
  <1>1. ChannelInv /\ AwaitInv /\ [AgentNext]_channelVars => (ChannelInv /\ AwaitInv)'
    BY AgentNextInv, NextAwait
  <1> QED
    BY <1>1, AgentInitInv, InitAwait, PTL DEF AgentSpec

\* What WaitResult reports of a stored result is true, and ReportResult never
\* gives a result to a command whose Dispatch was told that it expired.
THEOREM ResultToldTruthHolds == AgentSpec => []ResultToldTruth
  <1>1. ChannelInv /\ AwaitInv => ResultToldTruth
    BY DEF ChannelInv, AwaitInv, Repeated, LastWord, ResultToldTruth
  <1> QED
    BY <1>1, AwaitInvariance, PTL

\* The agent refuses what the sweep may have expired, so that nothing runs after
\* its row was closed but the batch of a revoked agent.
THEOREM RunIsAwaitedHolds == AgentSpec => RunIsAwaited
  <1> DEFINE Awaited == \A k \in Commands :
                executions'[k] # executions[k] =>
                   \/ cmd[k] = "delivered" /\ wait[k] \in {"waiting", "timeout"}
                   \/ owner[k] \in revoked
  <1>1. ChannelInv /\ AwaitInv /\ [AgentNext]_channelVars => [Awaited]_channelVars
    <2> SUFFICES ASSUME ChannelInv, AwaitInv, AgentNext, NEW k \in Commands, executions'[k] # executions[k]
                 PROVE  \/ cmd[k] = "delivered" /\ wait[k] \in {"waiting", "timeout"}
                        \/ owner[k] \in revoked
      OBVIOUS
    <2>1. PICK a \in Agents, j \in Commands : Handle(a, j)
      <3>1. Operator \/ NodeSweep => executions' = executions
        BY DEF Operator, NodeSweep, CreateRegistration, ExpireToken, Enroll, Revoke,
               RevokeCommands, SweepAgents, SweepCommands, agentObsVars
      <3>2. \A j \in Commands : Dispatch(j) => executions' = executions
        BY DEF Dispatch, LoadAgent, InsertCommand, WaitResult, WaitTimeout, Lapse, agentObsVars
      <3>3. \A a \in Agents :
               AgentProcess(a) => executions' = executions \/ \E j \in Commands : Handle(a, j)
        BY DEF AgentProcess, StartStep, GiveUp, AgentCrash, Restart, agentObsVars
      <3>4. \A m \in inflight : ServeRequest(m) => executions' = executions
        BY DEF ServeRequest, Drop, Authenticate, RecordHeartbeat, Poll, ReportResult, agentObsVars
      <3> QED
        BY <3>1, <3>2, <3>3, <3>4 DEF AgentNext
    <2>2. VerifyCommand(j) /\ j \in proc[a].batch /\ executions' = [executions EXCEPT ![j] = @ + 1]
      BY <2>1 DEF Handle
    <2>3. j = k
      BY <2>2 DEF ChannelInv, AgentTypeOK
    <2>4. k \notin overdue /\ owner[k] = a
      BY <2>2, <2>3 DEF VerifyCommand, ChannelInv, InBatch
    <2> QED
      BY <2>2, <2>3, <2>4 DEF AwaitInv, Held, Asked, Open
  <1> QED
    BY <1>1, AwaitInvariance, PTL DEF AgentSpec, RunIsAwaited

-----------------------------------------------------------------------------
(* Enrolment.                                                              *)

\* The agents that were ever enrolled, and the tokens that were used.
Enrolled == {a \in Agents : agent[a] # "absent"}
Used == {t \in Tokens : registration[t] = "used"}

\* Only finitely many enrolments have happened, each with a token of its own.
EnrolInv ==
    /\ OneAgent
    /\ IsFiniteSet(Enrolled)
    /\ IsFiniteSet(Used)

\* Nobody is enrolled at first.
LEMMA InitEnrol == AgentInit => EnrolInv
  <1> SUFFICES ASSUME AgentInit PROVE EnrolInv
    OBVIOUS
  <1>1. Enrolled = {} /\ Used = {}
    BY DEF AgentInit, Enrolled, Used
  <1>2. \A a \in Agents : ~HasRow(a)
    BY DEF AgentInit, HasRow
  <1> QED
    BY <1>1, <1>2, FS_EmptySet DEF EnrolInv, OneAgent, Enrolled, Used

\* An enrolment adds an agent and uses a token; it deletes the row of the
\* revoked agent that was there.
LEMMA EnrollEnrol ==
    ASSUME AgentTypeOK, EnrolInv, NEW t \in Tokens, NEW a \in Agents, Enroll(t, a)
    PROVE  EnrolInv'
  <1>1. \A b \in Agents : HasRow(b)' => b = a
    BY DEF Enroll, HasRow, AgentTypeOK
  <1>2. Enrolled' = Enrolled \cup {a} /\ a \notin Enrolled
    BY DEF Enroll, Enrolled, HasRow, AgentTypeOK
  <1>3. Used' = Used \cup {t} /\ t \notin Used
    BY DEF Enroll, Used, AgentTypeOK
  <1>4. /\ IsFiniteSet(Enrolled') /\ Cardinality(Enrolled') = Cardinality(Enrolled) + 1
        /\ IsFiniteSet(Used') /\ Cardinality(Used') = Cardinality(Used) + 1
    BY <1>2, <1>3, FS_AddElement DEF EnrolInv
  <1>5. Cardinality(Enrolled') = Cardinality(Used')
    BY <1>4 DEF EnrolInv, OneAgent, Enrolled, Used
  <1>6. OneAgent'
    BY <1>1, <1>5 DEF OneAgent, Enrolled, Used
  <1> QED
    BY <1>4, <1>6 DEF EnrolInv

\* No other step enrols an agent, brings one back or uses a token.
LEMMA NextEnrol == AgentTypeOK /\ EnrolInv /\ [AgentNext]_channelVars => EnrolInv'
  <1> SUFFICES ASSUME AgentTypeOK, EnrolInv, [AgentNext]_channelVars PROVE EnrolInv'
    OBVIOUS
  <1>1. CASE \E t \in Tokens, a \in Agents : Enroll(t, a)
    BY <1>1, EnrollEnrol
  <1>2. CASE ~ \E t \in Tokens, a \in Agents : Enroll(t, a)
    <2>1. \A a \in Agents :
             /\ agent'[a] = "absent" <=> agent[a] = "absent"
             /\ HasRow(a)' => HasRow(a)
      <3>1. ASSUME NEW b \in Agents, Revoke(b)
                   PROVE agent' = [agent EXCEPT ![b] = "revoked"] /\ HasRow(b)
        BY <3>1 DEF Revoke
      <3>2. ASSUME NEW m \in inflight, RecordHeartbeat(m)
            PROVE  \/ agent' = agent
                   \/ m.from \in Agents /\ HasRow(m.from) /\ agent' = [agent EXCEPT ![m.from] = "online"]
        BY <3>2 DEF RecordHeartbeat, AgentTypeOK, RequestType
      <3>3. \/ agent' = agent
            \/ \E b \in Agents : HasRow(b) /\ agent' = [agent EXCEPT ![b] = "revoked"]
            \/ \E b \in Agents : HasRow(b) /\ agent' = [agent EXCEPT ![b] = "online"]
            \/ \E b \in Agents : HasRow(b) /\ agent' = [agent EXCEPT ![b] = "offline"]
        BY <1>2, <3>1, <3>2
        DEF AgentNext, Operator, CreateRegistration, ExpireToken, RevokeCommands,
            Dispatch, LoadAgent, InsertCommand, WaitResult, WaitTimeout, Lapse,
            AgentProcess, StartStep, Handle, GiveUp, AgentCrash, Restart, ServeRequest, Drop,
            Authenticate, Poll, ReportResult, NodeSweep, SweepAgents, SweepCommands, HasRow,
            enrolVars, channelVars
      <3> QED
        BY <3>3 DEF HasRow, AgentTypeOK
    <2>2. \A t \in Tokens : registration'[t] = "used" <=> registration[t] = "used"
      BY <1>2
      DEF AgentTypeOK, AgentNext, Operator, CreateRegistration, ExpireToken, Revoke,
          RevokeCommands, Dispatch, LoadAgent, InsertCommand, WaitResult, WaitTimeout, Lapse,
          AgentProcess, StartStep, Handle, GiveUp, AgentCrash, Restart, ServeRequest, Drop,
          Authenticate, RecordHeartbeat, Poll, ReportResult, NodeSweep, SweepAgents,
          SweepCommands, enrolVars, channelVars
    <2>3. Enrolled' = Enrolled /\ Used' = Used
      BY <2>1, <2>2 DEF Enrolled, Used
    <2>4. OneAgent'
      <3>1. Cardinality(Enrolled') = Cardinality(Used')
        BY <2>3 DEF EnrolInv, OneAgent, Enrolled, Used
      <3> QED
        BY <2>1, <3>1 DEF EnrolInv, OneAgent, Enrolled, Used
    <2> QED
      BY <2>3, <2>4 DEF EnrolInv
  <1> QED
    BY <1>1, <1>2

\* A node has one agent that is not deleted, and as many agents were enrolled
\* as tokens were used: Enroll spends its token in the transaction that inserts
\* the agent.
THEOREM OneAgentHolds == AgentSpec => []OneAgent
  <1>1. EnrolInv => OneAgent
    BY DEF EnrolInv
  <1> QED
    BY <1>1, InitEnrol, NextEnrol, AgentTypeCorrect, PTL DEF AgentSpec

-----------------------------------------------------------------------------
(* Deployments: rows, releases and the live tree.                          *)

\* Where a run has no row of its own, and where its row is "running".
NoRow == {"idle", "precheck", "undo_restore"} \cup RollbackSteps
OpenRow == {"fetch", "test", "preserve", "activate", "health", "complete",
            "undo_deploy", "undo_fetch"}

\* The row of the run in progress.
RunRow ==
    /\ phase \in NoRow => dep = None
    /\ phase \in OpenRow => dep \in Rows
    /\ phase \in OpenRow \cup {"undo_precheck"} /\ dep # None => deployment[dep] = "running"
    /\ phase = "prune" => dep \in Rows /\ deployment[dep] = "succeeded"
    /\ phase = "conclude" /\ dep # None => deployment[dep] # "running" \/ dep \in lost
    /\ phase \in RollbackSteps \cup {"undo_restore"} => target \in Rows

\* Rows are inserted in order, and the row of the run is the last one.
InOrder ==
    /\ \A c, d \in Rows : c < d /\ deployment[c] = "absent" => deployment[d] = "absent"
    /\ phase \in OpenRow => \A c \in Rows : dep < c => deployment[c] = "absent"

\* Completed deployments stay completed.
MadeComplete == \A d \in made : deployment[d] \in Completed

\* With rows st whose deployments left the trees sv, the tree is what the newest
\* successful one left, or what the project came with.
ServesIn(tree, st, sv) ==
    /\ \A d \in Rows :
          st[d] = "succeeded" /\ (\A c \in Rows : st[c] = "succeeded" => c <= d) =>
             tree = sv[d]
    /\ (\A d \in Rows : st[d] # "succeeded") => tree \in {Empty, [f \in Files |-> Base]}

Serves(tree) == ServesIn(tree, deployment, served)

\* Where the live tree is still, or again, the one the run found.
Untouched == {"precheck", "fetch", "test", "preserve", "locate", "set_aside",
              "undo_fetch", "undo_precheck", "conclude"}

\* Where the old tree is kept: aside by a deployment, aside by a rollback.
Preserved == {"activate", "health", "complete", "undo_deploy"}
SetAsidePCs == {"restore", "supersede", "undo_restore"}

\* As long as every tree was preserved whole, the run can put back what it
\* found, and what it found was the newest.
LiveKept ==
    intact =>
        /\ phase \in {"idle", "prune"} => Serves(live)
        /\ phase \in Untouched \cup Preserved \cup SetAsidePCs => Serves(before)
        /\ phase \in Untouched => live = before
        /\ phase \in Preserved => before = IF backedUp THEN previous ELSE Empty
        /\ phase \in SetAsidePCs => pre[target] = before /\ before # Empty

\* Between runs and before its first write a run holds no preserved tree.
Cleared ==
    phase \in {"idle", "precheck", "fetch", "test", "preserve"} => previous = Empty /\ ~backedUp

\* The inductive invariant.
IInv ==
    /\ DeployTypeOK
    /\ RunRow
    /\ InOrder
    /\ ActiveRowOwned
    /\ MadeComplete
    /\ NewestRestorable
    /\ Cleared
    /\ LiveKept

-----------------------------------------------------------------------------
(* Directories.                                                            *)

\* What is copied, merged and removed are directories again.
LEMMA DirsClosed ==
    /\ Empty \in Dirs
    /\ [f \in Files |-> Base] \in Dirs
    /\ \A src, dst \in Dirs : \A fs : Merged(src, dst, fs) \in Dirs
    /\ \A dir \in Dirs : \A fs : Without(dir, fs) \in Dirs
  BY DEF Empty, Dirs, Merged, Without

\* The same for the operations on whole directories.
LEMMA CopiesAreDirs ==
    /\ \A src, dst \in Dirs : CopyTree(src, dst) \in Dirs
    /\ \A src, dst \in Dirs : Copying(src, dst) \subseteq Dirs
    /\ \A dir \in Dirs : Removing(dir) \subseteq Dirs
  BY DirsClosed DEF CopyTree, Copying, Removing

\* A copy into an empty directory is the original.
LEMMA CopyIsSame == \A src \in Dirs : CopyTree(src, Empty) = src
  BY DEF CopyTree, Merged, Dirs, Empty, None

-----------------------------------------------------------------------------
(* Type correctness.                                                       *)

\* The conjuncts of TypeOK on flags.
Flags == backedUp \in BOOLEAN /\ rolledBackAll \in BOOLEAN /\ intact \in BOOLEAN

\* Every step leaves the flags Boolean.
LEMMA NextFlags == DeployTypeOK /\ DeployNext => Flags'
  BY Zenon
  DEF DeployTypeOK, Flags, DeployNext, Deploy, Precheck, Fetch, Test, Preserve, Activate,
      HealthCheck, Complete, Prune, UndoDeploy, UndoFetch, UndoPrecheck, Rollback, Locate,
      SetAside, Restore, Supersede, Record, UndoRestore, Stop, Conclude, Crash, ClearDeploy,
      deployRunVars, deployObsVars

\* The first state has the shape of TypeOK.
LEMMA DeployInitType == DeployInit => DeployTypeOK
  <1> SUFFICES ASSUME DeployInit PROVE DeployTypeOK
    OBVIOUS
  <1>1. Flags
    BY Zenon DEF DeployInit, Flags
  <1>2. live \in Dirs /\ Empty \in Dirs
    BY DirsClosed DEF DeployInit
  <1> QED
    BY <1>1, <1>2, DeploymentsAssumption DEF DeployInit, DeployTypeOK, Flags

\* The first Undo of a step is one of the program counters.
LEMMA UndoOfType == \A p : UndoOf(p) \in Undos
  BY DEF UndoOf, Undos

\* Faults are counted up to their bound.
LEMMA FaultType ==
    ASSUME DeployTypeOK, NoFault \/ Fault \/ TwoFaults
    PROVE  faults' \in 0..MaxFaults
  BY DeploymentsAssumption DEF DeployTypeOK, NoFault, Fault, TwoFaults

\* The rows and their environments keep their shape.
LEMMA RowsType ==
    ASSUME DeployTypeOK, RunRow, DeployNext
    PROVE  /\ deployment' \in [Rows -> {"absent", "running", "failed"} \cup Completed]
           /\ env' \in [Rows -> Envs \cup {NoEnv}]
           /\ dep' \in Rows \cup {None}
           /\ target' \in Rows \cup {None}
           /\ stage' \in Envs \cup {NoEnv}
  <1> USE DEF DeployTypeOK, deployRowVars, deployRunVars
  <1>1. CASE \/ \E e \in Envs : Deploy(e)
             \/ Fetch \/ Test \/ Preserve \/ Activate \/ HealthCheck \/ Prune
             \/ UndoDeploy \/ UndoFetch
             \/ \E t \in Rows : Rollback(t)
             \/ Locate \/ SetAside \/ Restore \/ UndoRestore \/ Stop \/ Conclude \/ Crash
    <2>1. /\ UNCHANGED deployRowVars
          /\ dep' \in {dep, None}
          /\ target' \in Rows \cup {target, None}
          /\ stage' \in Envs \cup {stage, NoEnv}
      BY <1>1
      DEF Deploy, Fetch, Test, Preserve, Activate, HealthCheck, Prune, UndoDeploy, UndoFetch,
          Rollback, Locate, SetAside, Restore, UndoRestore, Stop, Conclude, Crash, ClearDeploy
    <2> QED
      BY <2>1
  <1>2. CASE Precheck
    BY <1>2 DEF Precheck
  <1>3. CASE Complete
    BY <1>3 DEF Complete, Completed
  <1>4. CASE UndoPrecheck
    <2>1. \/ deployment' = deployment
          \/ \E v \in {deployment[dep], "failed"} : deployment' = [deployment EXCEPT ![dep] = v]
      BY <1>4 DEF UndoPrecheck
    <2>2. UNCHANGED <<env, stage, dep, target>>
      BY <1>4 DEF UndoPrecheck
    <2>3. deployment' \in [Rows -> {"absent", "running", "failed"} \cup Completed]
      BY <2>1
    <2> QED
      BY <2>2, <2>3
  <1>5. CASE Supersede
    BY <1>5 DEF Supersede, Completed
  <1>6. CASE Record
    <2>1. target \in Rows
      BY <1>6 DEF Record, RunRow, RollbackSteps
    <2> QED
      BY <1>6, <2>1 DEF Record, ClearDeploy, Completed
  <1> QED
    BY <1>1, <1>2, <1>3, <1>4, <1>5, <1>6 DEF DeployNext

\* The directories keep their shape.
LEMMA DirsType ==
    ASSUME DeployTypeOK, RunRow, DeployNext
    PROVE  /\ live' \in Dirs /\ previous' \in Dirs /\ before' \in Dirs
           /\ release' \in [Rows -> Dirs] /\ pre' \in [Rows -> Dirs]
           /\ content' \in [Rows -> Dirs] /\ served' \in [Rows -> Dirs]
  <1> DEFINE Goal == /\ live' \in Dirs /\ previous' \in Dirs /\ before' \in Dirs
                     /\ release' \in [Rows -> Dirs] /\ pre' \in [Rows -> Dirs]
                     /\ content' \in [Rows -> Dirs] /\ served' \in [Rows -> Dirs]
  <1> USE DEF dirVars, deployObsVars
  <1>0. /\ live \in Dirs /\ previous \in Dirs /\ before \in Dirs /\ Empty \in Dirs
        /\ release \in [Rows -> Dirs] /\ pre \in [Rows -> Dirs]
        /\ content \in [Rows -> Dirs] /\ served \in [Rows -> Dirs]
    BY DirsClosed DEF DeployTypeOK
  <1>1. CASE \/ \E e \in Envs : Deploy(e)
             \/ Precheck \/ Test \/ HealthCheck \/ UndoPrecheck
             \/ \E t \in Rows : Rollback(t)
             \/ Locate \/ Supersede \/ Stop
    <2>1. UNCHANGED <<dirVars, content, served>> /\ before' \in {before, live}
      BY <1>1 DEF Deploy, Precheck, Test, HealthCheck, UndoPrecheck, Rollback, Locate,
                  Supersede, Stop
    <2> QED
      BY <1>0, <2>1
  <1>2. CASE Conclude \/ Crash
    BY <1>0, <1>2 DEF Conclude, Crash, ClearDeploy
  <1>3. CASE Fetch
    <2>1. PICK fs \in SUBSET Files :
             release' = [release EXCEPT ![dep] = [f \in Files |-> IF f \in fs THEN dep ELSE None]]
      BY <1>3 DEF Fetch
    <2>2. dep \in Rows
      BY <1>3 DEF Fetch, RunRow, OpenRow
    <2>3. [f \in Files |-> IF f \in fs THEN dep ELSE None] \in Dirs
      BY <2>2 DEF Dirs
    <2> QED
      BY <1>0, <1>3, <2>1, <2>3 DEF Fetch
  <1>4. CASE Preserve
    <2>1. live' \in Dirs /\ previous' \in Dirs
      BY <1>0, <1>4, CopiesAreDirs DEF Preserve
    <2> QED
      BY <1>0, <1>4, <2>1 DEF Preserve
  <1>5. CASE Activate
    <2>1. release[dep] \in Dirs
      BY <1>0, <1>5 DEF Activate, RunRow, OpenRow
    <2>2. live' \in Dirs
      BY <1>0, <1>5, <2>1, CopiesAreDirs DEF Activate
    <2> QED
      BY <1>0, <1>5, <2>2 DEF Activate
  <1>6. CASE Complete
    <2>1. release[dep] \in Dirs
      BY <1>0, <1>6 DEF Complete, RunRow, OpenRow
    <2> QED
      BY <1>0, <1>6, <2>1 DEF Complete
  <1>7. CASE Prune
    <2>1. release' \in [Rows -> Dirs]
      BY <1>0, <1>7, DirsClosed DEF Prune
    <2> QED
      BY <1>0, <1>7, <2>1 DEF Prune, ClearDeploy
  <1>8. CASE UndoDeploy
    <2>1. live' \in Dirs
      BY <1>0, <1>8, CopiesAreDirs DEF UndoDeploy
    <2> QED
      BY <1>0, <1>8, <2>1 DEF UndoDeploy
  <1>9. CASE UndoFetch
    <2>1. release[dep] \in Dirs
      BY <1>0, <1>9 DEF UndoFetch, RunRow, OpenRow
    <2>2. release' \in [Rows -> Dirs]
      BY <1>0, <1>9, <2>1, CopiesAreDirs DEF UndoFetch
    <2> QED
      BY <1>0, <1>9, <2>2 DEF UndoFetch
  <1>10. CASE SetAside \/ Restore \/ Record \/ UndoRestore
    <2>1. target \in Rows /\ pre[target] \in Dirs /\ release[target] \in Dirs
      BY <1>0, <1>10 DEF SetAside, Restore, Record, UndoRestore, RunRow, RollbackSteps
    <2>2. CASE SetAside
      <3>1. live' \in Dirs
        BY <1>0, <2>2, CopiesAreDirs DEF SetAside
      <3>2. pre' = pre \/ \E dir \in Dirs : pre' = [pre EXCEPT ![target] = dir]
        BY <1>0, <2>1, <2>2, CopiesAreDirs DEF SetAside
      <3> QED
        BY <1>0, <2>2, <3>1, <3>2 DEF SetAside
    <2>3. CASE Restore
      <3>1. live' \in Dirs
        BY <1>0, <2>1, <2>3, CopiesAreDirs DEF Restore
      <3> QED
        BY <1>0, <2>3, <3>1 DEF Restore
    <2>4. CASE Record
      BY <1>0, <2>1, <2>4 DEF Record, ClearDeploy
    <2>5. CASE UndoRestore
      <3>1. live' \in Dirs
        BY <1>0, <2>1, <2>5, CopiesAreDirs DEF UndoRestore
      <3> QED
        BY <1>0, <2>5, <3>1 DEF UndoRestore
    <2> QED
      BY <1>10, <2>2, <2>3, <2>4, <2>5
  <1> QED
    BY <1>1, <1>2, <1>3, <1>4, <1>5, <1>6, <1>7, <1>8, <1>9, <1>10 DEF DeployNext

\* Every step keeps the shape.
LEMMA DeployNextType == DeployTypeOK /\ RunRow /\ [DeployNext]_deployVars => DeployTypeOK'
  <1> SUFFICES ASSUME DeployTypeOK, RunRow, [DeployNext]_deployVars PROVE DeployTypeOK'
    OBVIOUS
  <1>1. CASE DeployNext
    <2>1. Flags'
      BY <1>1, NextFlags
    <2>2. faults' \in 0..MaxFaults
      <3>1. NoFault \/ Fault \/ TwoFaults
        BY <1>1
        DEF DeployNext, Deploy, Precheck, Fetch, Test, Preserve, Activate, HealthCheck, Complete,
            Prune, UndoDeploy, UndoFetch, UndoPrecheck, Rollback, Locate, SetAside, Restore,
            Supersede, Record, UndoRestore, Stop, Conclude, Crash, NoFault
      <3> QED
        BY <3>1, FaultType
    <2>3. phase' \in {"idle"} \cup DeploySteps \cup RollbackSteps \cup Undos
      BY <1>1, UndoOfType
      DEF DeployNext, Deploy, Precheck, Fetch, Test, Preserve, Activate, HealthCheck, Complete,
          Prune, UndoDeploy, UndoFetch, UndoPrecheck, Rollback, Locate, SetAside, Restore,
          Supersede, Record, UndoRestore, Stop, Conclude, Crash, ClearDeploy, Fail,
          DeploySteps, RollbackSteps, Undos
    <2>4. report' \in {"none", "succeeded", "rolled_back", "rollback_failed"}
      BY <1>1
      DEF DeployTypeOK, DeployNext, Deploy, Precheck, Fetch, Test, Preserve, Activate,
          HealthCheck, Complete, Prune, UndoDeploy, UndoFetch, UndoPrecheck, Rollback, Locate,
          SetAside, Restore, Supersede, Record, UndoRestore, Stop, Conclude, Crash, deployObsVars
    <2>5. made' \subseteq Rows /\ lost' \subseteq Rows
      <3>1. \/ made' = made /\ lost' \subseteq lost \cup ({dep} \ {None})
            \/ dep \in Rows /\ made' = made \cup {dep} /\ lost' = lost
        BY <1>1
        DEF RunRow, OpenRow, DeployNext, Deploy, Precheck, Fetch, Test, Preserve, Activate,
            HealthCheck, Complete, Prune, UndoDeploy, UndoFetch, UndoPrecheck, Rollback, Locate,
            SetAside, Restore, Supersede, Record, UndoRestore, Stop, Conclude, Crash,
            deployObsVars
      <3> QED
        BY <3>1 DEF DeployTypeOK
    <2> QED
      BY <1>1, <2>1, <2>2, <2>3, <2>4, <2>5, RowsType, DirsType DEF DeployTypeOK, Flags
  <1>2. CASE UNCHANGED deployVars
    BY <1>2 DEF deployVars, deployRowVars, dirVars, deployRunVars, deployObsVars, DeployTypeOK
  <1> QED
    BY <1>1, <1>2

-----------------------------------------------------------------------------
(* The rows.                                                               *)

\* The invariant of the deployments table.
RowsInv == RunRow /\ InOrder /\ ActiveRowOwned /\ MadeComplete

\* Where each step goes when it fails.
LEMMA FailGoes ==
    ASSUME Fail
    PROVE  /\ phase = "precheck" => phase' = "undo_precheck"
           /\ phase \in {"fetch", "test"} => phase' = "undo_fetch"
           /\ phase \in {"preserve", "activate", "health", "complete"} => phase' = "undo_deploy"
           /\ phase \in {"set_aside", "restore", "supersede", "record"} => phase' = "undo_restore"
           /\ phase = "locate" => phase' = "conclude"
  BY DEF Fail, UndoOf

\* A step that writes no row.
LEMMA MoveRows ==
    ASSUME DeployTypeOK, RowsInv, UNCHANGED <<deployment, env, dep, lost, made>>,
           \/ phase \in NoRow /\ phase' \in NoRow \cup {"undo_precheck", "conclude"}
           \/ phase \in OpenRow /\ phase' \in OpenRow \cup {"undo_precheck"},
           phase' \in RollbackSteps \cup {"undo_restore"} => target' \in Rows
    PROVE  RowsInv'
  <1> USE DEF RowsInv
  <1>1. RunRow'
    BY DEF RunRow, NoRow, OpenRow, RollbackSteps, None, Rows
  <1>2. InOrder'
    BY DEF InOrder, NoRow, OpenRow, RollbackSteps
  <1>3. ActiveRowOwned' /\ MadeComplete'
    BY DEF ActiveRowOwned, ActiveIn, MadeComplete
  <1> QED
    BY <1>1, <1>2, <1>3

\* A run may end once its row is closed, or is known to be lost.
LEMMA EndRows ==
    ASSUME DeployTypeOK, RowsInv, UNCHANGED <<deployment, env, made>>, ClearDeploy,
           lost \subseteq lost',
           dep # None => deployment[dep] # "running" \/ dep \in lost'
    PROVE  RowsInv'
  <1> USE DEF RowsInv, ClearDeploy
  <1>1. RunRow'
    BY DEF RunRow, NoRow, OpenRow, RollbackSteps
  <1>2. InOrder'
    BY DEF InOrder, OpenRow
  <1>3. ActiveRowOwned' /\ MadeComplete'
    BY DEF ActiveRowOwned, ActiveIn, MadeComplete, None, Rows
  <1> QED
    BY <1>1, <1>2, <1>3

\* PRECHECK inserts the only active row of its environment.
LEMMA PrecheckRows ==
    ASSUME DeployTypeOK, RowsInv, Precheck
    PROVE  RowsInv'
  <1> USE DEF RowsInv
  <1>1. CASE Fail /\ UNCHANGED <<deployRowVars, dep>>
    BY <1>1, FailGoes, MoveRows
    DEF Precheck, deployRowVars, deployObsVars, NoRow, OpenRow, RollbackSteps
  <1>2. ASSUME NEW d \in Rows, ActiveIn(stage) = {}, NewRow(d),
               deployment' = [deployment EXCEPT ![d] = "running"],
               env' = [env EXCEPT ![d] = stage], dep' = d, phase' = "fetch"
        PROVE  RowsInv'
    <2>1. UNCHANGED <<made, lost>>
      BY DEF Precheck, deployObsVars
    <2>2. /\ deployment[d] = "absent"
          /\ \A c \in Rows : c < d => deployment[c] # "absent"
          /\ \A c \in Rows : d < c => deployment[c] = "absent"
      BY <1>2 DEF NewRow, InOrder, Rows
    <2>3. /\ deployment'[d] = "running" /\ env'[d] = stage
          /\ \A c \in Rows : c # d => deployment'[c] = deployment[c] /\ env'[c] = env[c]
      BY <1>2 DEF DeployTypeOK
    <2>4. RunRow'
      BY <1>2, <2>3 DEF RunRow, NoRow, OpenRow, RollbackSteps, None, Rows
    <2>5. InOrder'
      BY <1>2, <2>2, <2>3, DeploymentsAssumption DEF InOrder, Rows
    <2>6. ActiveRowOwned'
      <3> SUFFICES ASSUME NEW c \in Rows, deployment'[c] = "running"
                   PROVE  ActiveIn(env[c])' = {c} /\ (c = dep' \/ c \in lost')
        BY DEF ActiveRowOwned
      <3>1. CASE c = d
        BY <1>2, <2>3, <3>1 DEF ActiveIn
      <3>2. CASE c # d
        <4>1. deployment[c] = "running" /\ env'[c] = env[c] /\ env[c] # stage
          BY <1>2, <2>3, <3>2 DEF ActiveIn
        <4>2. ActiveIn(env[c]) = {c} /\ (c = dep \/ c \in lost)
          BY <4>1 DEF ActiveRowOwned
        <4>3. dep = None
          BY DEF Precheck, RunRow, NoRow
        <4> QED
          BY <2>1, <2>2, <2>3, <3>2, <4>1, <4>2, <4>3 DEF ActiveIn, None, Rows
      <3> QED
        BY <3>1, <3>2
    <2>7. MadeComplete'
      BY <2>1, <2>2, <2>3 DEF MadeComplete, Completed, DeployTypeOK
    <2> QED
      BY <2>4, <2>5, <2>6, <2>7
  <1> QED
    BY <1>1, <1>2 DEF Precheck

\* A row of the run that is closed is active no more.
LEMMA CloseRow ==
    ASSUME DeployTypeOK, RowsInv, dep \in Rows, deployment[dep] = "running", NEW v \in {"succeeded", "failed"},
           deployment' = [deployment EXCEPT ![dep] = v], UNCHANGED <<env, dep, lost>>
    PROVE  ActiveRowOwned'
           /\ \A c, d \in Rows :
                 c < d /\ deployment'[c] = "absent" => deployment'[d] = "absent"
  <1>1. deployment'[dep] = v /\ \A c \in Rows : c # dep => deployment'[c] = deployment[c]
    BY DEF DeployTypeOK
  <1>2. \A c, d \in Rows : c < d /\ deployment'[c] = "absent" => deployment'[d] = "absent"
    BY <1>1 DEF RowsInv, InOrder
  <1>3. ActiveRowOwned'
    <2> SUFFICES ASSUME NEW c \in Rows, deployment'[c] = "running"
                 PROVE  ActiveIn(env[c])' = {c} /\ (c = dep' \/ c \in lost')
      BY DEF ActiveRowOwned
    <2>1. c # dep /\ deployment[c] = "running"
      BY <1>1
    <2>2. ActiveIn(env[c]) = {c} /\ (c = dep \/ c \in lost)
      BY <2>1 DEF RowsInv, ActiveRowOwned
    <2> QED
      BY <1>1, <2>1, <2>2 DEF ActiveIn
  <1> QED
    BY <1>2, <1>3

\* COMPLETE closes the row of the run as succeeded.
LEMMA CompleteRows ==
    ASSUME DeployTypeOK, RowsInv, Complete
    PROVE  RowsInv'
  <1> USE DEF RowsInv
  <1>0. phase = "complete" /\ dep \in Rows /\ deployment[dep] = "running"
        /\ UNCHANGED <<env, dep, lost>>
    BY DEF Complete, RunRow, OpenRow, deployRunVars, None, Rows
  <1>1. CASE Fail /\ UNCHANGED <<deployment, made>>
    BY <1>0, <1>1, FailGoes, MoveRows DEF NoRow, OpenRow, RollbackSteps
  <1>2. CASE /\ deployment' = [deployment EXCEPT ![dep] = "succeeded"]
             /\ made' = made \cup {dep}
             /\ phase' = "prune"
    <2>1. deployment'[dep] = "succeeded"
          /\ \A c \in Rows : c # dep => deployment'[c] = deployment[c]
      BY <1>0, <1>2 DEF DeployTypeOK
    <2>2. ActiveRowOwned' /\ InOrder'
      BY <1>0, <1>2, CloseRow DEF InOrder, OpenRow
    <2>3. RunRow'
      BY <1>0, <1>2, <2>1 DEF RunRow, NoRow, OpenRow, RollbackSteps
    <2>4. MadeComplete'
      BY <1>2, <2>1 DEF MadeComplete, Completed, DeployTypeOK
    <2> QED
      BY <2>2, <2>3, <2>4
  <1> QED
    BY <1>1, <1>2 DEF Complete

\* The last Undo closes the row as failed, or the write is lost.
LEMMA UndoPrecheckRows ==
    ASSUME DeployTypeOK, RowsInv, UndoPrecheck
    PROVE  RowsInv'
  <1> USE DEF RowsInv
  <1>0. /\ phase = "undo_precheck" /\ phase' = "conclude"
        /\ UNCHANGED <<env, dep, made>>
        /\ dep # None => dep \in Rows /\ deployment[dep] = "running"
    BY DEF UndoPrecheck, RunRow, deployRunVars, DeployTypeOK
  <1>1. CASE /\ dep # None
             /\ UNCHANGED lost
             /\ deployment' = [deployment EXCEPT ![dep] = IF @ = "running" THEN "failed" ELSE @]
    <2>1. deployment' = [deployment EXCEPT ![dep] = "failed"]
      BY <1>0, <1>1
    <2>2. deployment'[dep] = "failed" /\ \A c \in Rows : c # dep => deployment'[c] = deployment[c]
      BY <1>0, <1>1, <2>1 DEF DeployTypeOK
    <2>3. ActiveRowOwned' /\ InOrder'
      BY <1>0, <1>1, <2>1, CloseRow DEF InOrder, OpenRow
    <2>4. RunRow'
      BY <1>0, <1>1, <2>2 DEF RunRow, NoRow, OpenRow, RollbackSteps
    <2>5. MadeComplete'
      BY <1>0, <1>1, <2>2 DEF MadeComplete, Completed, DeployTypeOK
    <2> QED
      BY <2>3, <2>4, <2>5
  <1>2. CASE UNCHANGED deployment /\ (dep = None \/ lost' = lost \cup {dep}) /\ lost \subseteq lost'
    <2>1. RunRow'
      BY <1>0, <1>2 DEF RunRow, NoRow, OpenRow, RollbackSteps
    <2>2. InOrder' /\ ActiveRowOwned' /\ MadeComplete'
      BY <1>0, <1>2 DEF InOrder, OpenRow, ActiveRowOwned, ActiveIn, MadeComplete
    <2> QED
      BY <2>1, <2>2
  <1> QED
    BY <1>1, <1>2 DEF UndoPrecheck

\* A rollback supersedes succeeded rows and then inserts one of its own.
LEMMA RollbackRows ==
    ASSUME DeployTypeOK, RowsInv, Supersede \/ Record
    PROVE  RowsInv'
  <1> USE DEF RowsInv
  <1>0. /\ phase \in {"supersede", "record"} /\ dep = None /\ target \in Rows
        /\ UNCHANGED <<lost, made>>
    BY DEF Supersede, Record, RunRow, NoRow, RollbackSteps, deployObsVars
  <1>1. CASE Fail /\ UNCHANGED <<deployRowVars, deployRunVars>>
    BY <1>0, <1>1, FailGoes, MoveRows DEF deployRowVars, deployRunVars, NoRow, OpenRow,
                                          RollbackSteps
  <1>2. CASE /\ deployment' = [d \in Rows |->
                   IF deployment[d] = "succeeded" /\ env[d] = env[target] /\ d # target
                   THEN "rolled_back" ELSE deployment[d]]
             /\ phase' = "record" /\ UNCHANGED <<env, deployRunVars>>
    <2>1. \A d \in Rows : \/ deployment'[d] = deployment[d]
                          \/ deployment[d] = "succeeded" /\ deployment'[d] = "rolled_back"
      BY <1>2
    <2>2. RunRow' /\ InOrder'
      BY <1>0, <1>2, <2>1 DEF RunRow, InOrder, NoRow, OpenRow, RollbackSteps, deployRunVars
    <2>3. ActiveRowOwned' /\ MadeComplete'
      BY <1>0, <1>2, <2>1 DEF ActiveRowOwned, ActiveIn, MadeComplete, Completed, deployRunVars,
                              DeployTypeOK
    <2> QED
      BY <2>2, <2>3
  <1>3. ASSUME NEW d \in Rows, NewRow(d), ClearDeploy,
               deployment' = [deployment EXCEPT ![d] = "succeeded"],
               env' = [env EXCEPT ![d] = env[target]]
        PROVE  RowsInv'
    <2>1. /\ deployment[d] = "absent"
          /\ \A c \in Rows : c < d => deployment[c] # "absent"
      BY <1>3 DEF NewRow, Rows
    <2>2. /\ deployment'[d] = "succeeded"
          /\ \A c \in Rows : c # d => deployment'[c] = deployment[c] /\ env'[c] = env[c]
      BY <1>3 DEF DeployTypeOK
    <2>3. RunRow'
      BY <1>3 DEF ClearDeploy, RunRow, NoRow, OpenRow, RollbackSteps
    <2>4. InOrder'
      BY <1>3, <2>1, <2>2, DeploymentsAssumption DEF ClearDeploy, InOrder, OpenRow, Rows
    <2>5. ActiveRowOwned'
      <3> SUFFICES ASSUME NEW c \in Rows, deployment'[c] = "running"
                   PROVE  ActiveIn(env[c])' = {c} /\ (c = dep' \/ c \in lost')
        BY DEF ActiveRowOwned
      <3>1. c # d /\ deployment[c] = "running"
        BY <2>2
      <3>2. ActiveIn(env[c]) = {c} /\ c \in lost
        BY <1>0, <3>1 DEF ActiveRowOwned, None, Rows
      <3> QED
        BY <1>0, <2>1, <2>2, <3>1, <3>2 DEF ActiveIn
    <2>6. MadeComplete'
      BY <1>0, <2>1, <2>2 DEF MadeComplete, Completed, DeployTypeOK
    <2> QED
      BY <2>3, <2>4, <2>5, <2>6
  <1>4. CASE Supersede
    BY <1>1, <1>2, <1>4 DEF Supersede, deployRowVars
  <1>5. CASE Record
    BY <1>1, <1>3, <1>5 DEF Record
  <1> QED
    BY <1>4, <1>5

\* Every step keeps the invariant of the rows.
LEMMA NextRows == DeployTypeOK /\ RowsInv /\ [DeployNext]_deployVars => RowsInv'
  <1> SUFFICES ASSUME DeployTypeOK, RowsInv, [DeployNext]_deployVars PROVE RowsInv'
    OBVIOUS
  <1> USE DEF deployRowVars, deployRunVars, deployObsVars
  <1>1. CASE \/ \E e \in Envs : Deploy(e)
             \/ \E t \in Rows : Rollback(t)
    BY <1>1, MoveRows DEF Deploy, Rollback, NoRow, OpenRow, RollbackSteps
  <1>2. CASE Fetch \/ Test \/ Preserve \/ Activate \/ HealthCheck \/ UndoDeploy \/ UndoFetch
    <2>1. /\ UNCHANGED <<deployment, env, dep, lost, made>>
          /\ phase \in OpenRow /\ phase' \in OpenRow \cup {"undo_precheck"}
      BY <1>2, FailGoes
      DEF Fetch, Test, Preserve, Activate, HealthCheck, UndoDeploy, UndoFetch, OpenRow
    <2> QED
      BY <2>1, MoveRows DEF OpenRow, RollbackSteps
  <1>3. CASE Locate \/ SetAside \/ Restore \/ UndoRestore
    <2>1. /\ UNCHANGED <<deployment, env, dep, target, lost, made>>
          /\ phase \in RollbackSteps \cup {"undo_restore"}
          /\ phase' \in NoRow \cup {"undo_precheck", "conclude"}
      BY <1>3, FailGoes DEF Locate, SetAside, Restore, UndoRestore, NoRow, RollbackSteps
    <2> QED
      BY <2>1, MoveRows DEF NoRow, RowsInv, RunRow
  <1>4. CASE Stop
    <2>1. UNCHANGED <<deployment, env, dep, target, lost, made>>
      BY <1>4 DEF Stop
    <2>2. \/ phase \in NoRow /\ phase' \in NoRow \cup {"undo_precheck", "conclude"}
          \/ phase \in OpenRow /\ phase' \in OpenRow \cup {"undo_precheck"}
      BY <1>4 DEF Stop, NoRow, OpenRow, RollbackSteps
    <2>3. phase' \in RollbackSteps \cup {"undo_restore"} => target' \in Rows
      BY <1>4, <2>1 DEF Stop, RowsInv, RunRow, RollbackSteps
    <2> QED
      BY <2>1, <2>2, <2>3, MoveRows
  <1>5. CASE Prune \/ Conclude \/ Crash
    <2>1. UNCHANGED <<deployment, env, made>> /\ ClearDeploy /\ lost \subseteq lost'
      BY <1>5 DEF Prune, Conclude, Crash
    <2>2. dep # None => deployment[dep] # "running" \/ dep \in lost'
      BY <1>5 DEF Prune, Conclude, Crash, RowsInv, RunRow
    <2> QED
      BY <2>1, <2>2, EndRows
  <1>6. CASE UNCHANGED deployVars
    <2>1. UNCHANGED <<deployment, env, dep, target, lost, made, phase>>
      BY <1>6 DEF deployVars
    <2>2. RunRow' /\ InOrder' /\ ActiveRowOwned' /\ MadeComplete'
      BY <2>1 DEF RowsInv, RunRow, InOrder, ActiveRowOwned, ActiveIn, MadeComplete
    <2> QED
      BY <2>2 DEF RowsInv
  <1> QED
    BY <1>1, <1>2, <1>3, <1>4, <1>5, <1>6, PrecheckRows, CompleteRows, UndoPrecheckRows,
       RollbackRows
    DEF DeployNext

-----------------------------------------------------------------------------
(* The releases.                                                           *)

\* A completed deployment stays completed.
LEMMA StaysCompleted ==
    ASSUME DeployTypeOK, RowsInv, DeployNext
    PROVE  \A c \in Rows : deployment[c] \in Completed => deployment'[c] \in Completed
  <1> USE DEF deployRowVars, DeployTypeOK
  <1>1. CASE UNCHANGED deployment
    BY <1>1
  <1>2. CASE Precheck
    <2>1. ASSUME NEW d \in Rows, NewRow(d), deployment' = [deployment EXCEPT ![d] = "running"]
          PROVE  \A c \in Rows : deployment[c] \in Completed => deployment'[c] \in Completed
      BY <2>1 DEF NewRow, Completed
    <2> QED
      BY <1>1, <1>2, <2>1 DEF Precheck
  <1>3. CASE Complete
    BY <1>3 DEF Complete, Completed
  <1>4. CASE UndoPrecheck
    <2>1. \A c \in Rows :
             deployment'[c] = deployment[c] \/ (deployment[c] = "running" /\ deployment'[c] = "failed")
      BY <1>4 DEF UndoPrecheck
    <2> QED
      BY <2>1 DEF Completed
  <1>5. CASE Supersede
    BY <1>5 DEF Supersede, Completed
  <1>6. CASE Record
    BY <1>6 DEF Record, Completed
  <1> QED
    BY <1>1, <1>2, <1>3, <1>4, <1>5, <1>6
    DEF DeployNext, Deploy, Fetch, Test, Preserve, Activate, HealthCheck, Prune, UndoDeploy,
        UndoFetch, Rollback, Locate, SetAside, Restore, UndoRestore, Stop, Conclude, Crash

\* So the number of newer completed deployments never falls.
LEMMA NewerGrows ==
    ASSUME NEW d \in Rows,
           \A c \in Rows : deployment[c] \in Completed => deployment'[c] \in Completed
    PROVE  /\ Cardinality(Newer(d)) \in Nat
           /\ Cardinality(Newer(d)') \in Nat
           /\ Cardinality(Newer(d)) <= Cardinality(Newer(d)')
  <1>1. IsFiniteSet(Rows)
    BY DeploymentsAssumption, FS_Interval DEF Rows
  <1>2. Newer(d) \subseteq Newer(d)' /\ Newer(d)' \subseteq Rows
    BY DEF Newer
  <1>3. IsFiniteSet(Newer(d)')
    BY <1>1, <1>2, FS_Subset
  <1> QED
    BY <1>2, <1>3, FS_Subset, FS_CardinalityType

\* A step touches the release and the content of a completed deployment only
\* when it prunes an old one.
LEMMA ReleaseKept ==
    ASSUME DeployTypeOK, RowsInv, DeployNext, NEW d \in made
    PROVE  /\ content'[d] = content[d]
           /\ release'[d] = release[d] \/ ~(Cardinality(Newer(d)) < Keep)
  <1>0. d \in Rows /\ deployment[d] \in Completed
    BY DEF DeployTypeOK, RowsInv, MadeComplete
  <1> USE DEF DeployTypeOK, dirVars, deployObsVars
  <1>1. CASE UNCHANGED <<content, release>>
    BY <1>1
  <1>2. CASE Fetch \/ UndoFetch
    <2>1. d # dep /\ dep \in Rows
      BY <1>0, <1>2 DEF Fetch, UndoFetch, RowsInv, RunRow, OpenRow, Completed, None, Rows
    <2>2. \E dir : release' = [release EXCEPT ![dep] = dir]
      BY <1>2 DEF Fetch, UndoFetch
    <2>3. content' = content
      BY <1>2 DEF Fetch, UndoFetch
    <2> QED
      BY <1>0, <2>1, <2>2, <2>3
  <1>3. CASE Complete
    <2>1. d # dep /\ dep \in Rows
      BY <1>0, <1>3 DEF Complete, RowsInv, RunRow, OpenRow, Completed, None, Rows
    <2> QED
      BY <1>0, <1>3, <2>1 DEF Complete
  <1>4. CASE Prune
    <2>1. content' = content
      BY <1>4 DEF Prune
    <2>2. d \notin Old => release'[d] = release[d]
      BY <1>0, <1>4 DEF Prune
    <2>3. d \in Old => Cardinality(Newer(d)) >= Keep
      BY DEF Old
    <2>4. Cardinality(Newer(d)) \in Nat
      <3>1. IsFiniteSet(Rows)
        BY DeploymentsAssumption, FS_Interval DEF Rows
      <3>2. IsFiniteSet(Newer(d))
        BY <3>1, FS_Subset DEF Newer
      <3> QED
        BY <3>2, FS_CardinalityType
    <2> QED
      BY <2>1, <2>2, <2>3, <2>4, DeploymentsAssumption
  <1>5. CASE Record
    BY <1>0, <1>5 DEF Record, NewRow, Completed
  <1> QED
    BY <1>1, <1>2, <1>3, <1>4, <1>5
    DEF DeployNext, Deploy, Precheck, Test, Preserve, Activate, HealthCheck, UndoDeploy,
        UndoPrecheck, Rollback, Locate, SetAside, Restore, Supersede, UndoRestore, Stop,
        Conclude, Crash

\* Every step keeps the newest releases.
LEMMA NextRestorable ==
    ASSUME DeployTypeOK, RowsInv, NewestRestorable, DeployNext
    PROVE  NewestRestorable'
  <1> SUFFICES ASSUME NEW d \in made', Cardinality(Newer(d)') < Keep
               PROVE  release'[d] = content'[d]
    BY DEF NewestRestorable
  <1>1. CASE d \in made
    <2>1. d \in Rows
      BY <1>1 DEF DeployTypeOK
    <2>2. Cardinality(Newer(d)) < Keep
      BY <2>1, NewerGrows, StaysCompleted, DeploymentsAssumption
    <2> QED
      BY <1>1, <2>2, ReleaseKept DEF NewestRestorable
  <1>2. CASE d \notin made
    <2>1. Complete /\ made' = made \cup {dep}
      BY <1>2
      DEF DeployNext, Deploy, Precheck, Fetch, Test, Preserve, Activate, HealthCheck, Complete,
          Prune, UndoDeploy, UndoFetch, UndoPrecheck, Rollback, Locate, SetAside, Restore,
          Supersede, Record, UndoRestore, Stop, Conclude, Crash, deployObsVars
    <2>2. d = dep /\ dep \in Rows
      BY <1>2, <2>1 DEF Complete, RowsInv, RunRow, OpenRow
    <2>3. content' = [content EXCEPT ![dep] = release[dep]] /\ release' = release
      BY <1>2, <2>1 DEF Complete, dirVars
    <2> QED
      BY <2>2, <2>3 DEF DeployTypeOK
  <1> QED
    BY <1>1, <1>2

-----------------------------------------------------------------------------
(* The live tree.                                                          *)

\* The invariant of the live tree and its copies.
TreeInv == Cleared /\ LiveKept

\* A tree serves as long as no row succeeds or is superseded.
LEMMA ServesStays ==
    ASSUME NEW tree, NEW st, NEW sv, NEW st2, NEW sv2, ServesIn(tree, st, sv),
           \A d \in Rows : st2[d] = "succeeded" <=> st[d] = "succeeded",
           \A d \in Rows : st[d] = "succeeded" => sv2[d] = sv[d]
    PROVE  ServesIn(tree, st2, sv2)
  BY DEF ServesIn

\* The tree of the last row serves once that row has succeeded.
LEMMA ServesLast ==
    ASSUME NEW tree, NEW st, NEW sv, NEW d \in Rows, st[d] = "succeeded", sv[d] = tree,
           \A c \in Rows : d < c => st[c] # "succeeded"
    PROVE  ServesIn(tree, st, sv)
  <1>1. \A c \in Rows : st[c] = "succeeded" /\ d <= c => c = d
    BY DEF Rows
  <1> QED
    BY <1>1 DEF ServesIn

\* What was preserved whole is never found whole again later.
LEMMA IntactFalls == DeployTypeOK /\ DeployNext => (intact' => intact)
  BY Zenon
  DEF DeployTypeOK, DeployNext, Deploy, Precheck, Fetch, Test, Preserve, Activate, HealthCheck,
      Complete, Prune, UndoDeploy, UndoFetch, UndoPrecheck, Rollback, Locate, SetAside, Restore,
      Supersede, Record, UndoRestore, Stop, Conclude, Crash, deployObsVars

\* Where no preserved tree is held.
ClearedPCs == {"idle", "precheck", "fetch", "test", "preserve"}

\* A step that leaves the trees alone, before the run writes to the live tree
\* or after it has put it back.
LEMMA TreesUntouched ==
    ASSUME DeployTypeOK, TreeInv, UNCHANGED <<live, before, previous, backedUp>>,
           intact' => intact,
           phase \in Untouched, phase' \in Untouched,
           phase' \in ClearedPCs => phase \in ClearedPCs,
           \A d \in Rows : deployment'[d] = "succeeded" <=> deployment[d] = "succeeded",
           served' = served
    PROVE  TreeInv'
  <1> USE DEF TreeInv
  <1>1. Cleared'
    BY DEF Cleared, ClearedPCs
  <1>2. ASSUME intact' PROVE live' = before' /\ Serves(before)'
    <2>1. live = before /\ Serves(before)
      BY <1>2 DEF LiveKept
    <2> QED
      BY <2>1, ServesStays DEF Serves
  <1>3. LiveKept'
    BY <1>2 DEF LiveKept, Untouched, Preserved, SetAsidePCs
  <1> QED
    BY <1>1, <1>3

\* A run starts from the live tree.
LEMMA StartTree ==
    ASSUME DeployTypeOK, RowsInv, TreeInv, intact' => intact,
           (\E e \in Envs : Deploy(e)) \/ (\E t \in Rows : Rollback(t))
    PROVE  TreeInv'
  <1> USE DEF TreeInv
  <1>0. /\ UNCHANGED <<deployment, served, live, previous, backedUp>>
        /\ before' = live /\ phase = "idle" /\ phase' \in {"precheck", "locate"}
    BY DEF Deploy, Rollback, deployRowVars, dirVars
  <1>1. Cleared'
    BY <1>0 DEF Cleared
  <1>2. ASSUME intact' PROVE live' = before' /\ Serves(before)'
    BY <1>0, <1>2 DEF LiveKept, Serves
  <1>3. LiveKept'
    BY <1>0, <1>2 DEF LiveKept, Untouched, Preserved, SetAsidePCs
  <1> QED
    BY <1>1, <1>3

\* Steps before the live tree is written to, and after it was put back.
LEMMA QuietTree ==
    ASSUME DeployTypeOK, RowsInv, TreeInv, intact' => intact,
           Precheck \/ Fetch \/ Test \/ UndoFetch \/ UndoPrecheck \/ Locate
    PROVE  TreeInv'
  <1>0. /\ UNCHANGED <<live, before, previous, backedUp, served>>
        /\ phase \in Untouched /\ phase' \in Untouched
        /\ phase' \in ClearedPCs => phase \in ClearedPCs
    BY FailGoes
    DEF Precheck, Fetch, Test, UndoFetch, UndoPrecheck, Locate, Untouched, ClearedPCs, dirVars,
        deployRunVars, deployObsVars
  <1>1. \A d \in Rows : deployment'[d] = "succeeded" <=> deployment[d] = "succeeded"
    <2>1. CASE UNCHANGED deployment
      BY <2>1
    <2>2. CASE \E d \in Rows : NewRow(d) /\ deployment' = [deployment EXCEPT ![d] = "running"]
      BY <2>2 DEF NewRow, DeployTypeOK
    <2>3. CASE deployment' = [deployment EXCEPT ![dep] = IF @ = "running" THEN "failed" ELSE @]
      BY <2>3 DEF DeployTypeOK
    <2> QED
      BY <2>1, <2>2, <2>3
      DEF Precheck, Fetch, Test, UndoFetch, UndoPrecheck, Locate, deployRowVars
  <1> QED
    BY <1>0, <1>1, TreesUntouched

\* DEPLOY keeps the old tree aside before it removes it.
LEMMA PreserveTree ==
    ASSUME DeployTypeOK, RowsInv, TreeInv, intact' => intact, Preserve
    PROVE  TreeInv'
  <1> USE DEF TreeInv
  <1>0. /\ phase = "preserve" /\ UNCHANGED <<deployment, served, before>>
        /\ phase' \in {"activate", "undo_deploy"}
        /\ previous = Empty /\ ~backedUp /\ live \in Dirs
    BY FailGoes DEF Preserve, deployRowVars, Cleared, DeployTypeOK
  <1>1. Cleared'
    BY <1>0 DEF Cleared
  <1>2. ASSUME intact' PROVE LiveKept'
    <2>1. live = before /\ Serves(before)
      BY <1>0, <1>2 DEF LiveKept, Untouched
    <2>2. CASE backedUp' /\ previous' = CopyTree(live, previous)
               /\ (phase' = "activate" => live' = Empty)
      <3>1. previous' = before'
        BY <1>0, <2>1, <2>2, CopyIsSame
      <3> QED
        BY <1>0, <2>1, <2>2, <3>1 DEF LiveKept, Serves, Untouched, Preserved, SetAsidePCs
    <2>3. CASE live = Empty /\ UNCHANGED <<live, previous, backedUp>> /\ phase' = "activate"
      BY <1>0, <2>1, <2>3 DEF LiveKept, Serves, Untouched, Preserved, SetAsidePCs
    <2>4. \/ backedUp' /\ previous' = CopyTree(live, previous)
             /\ (phase' = "activate" => live' = Empty)
          \/ live = Empty /\ UNCHANGED <<live, previous, backedUp>> /\ phase' = "activate"
      BY <1>0, <1>2, FailGoes, Zenon DEF Preserve
    <2> QED
      BY <2>2, <2>3, <2>4
  <1>3. LiveKept'
    BY <1>2 DEF LiveKept
  <1> QED
    BY <1>1, <1>3

\* While the old tree is preserved, steps write to the live tree only.
LEMMA PreservedTree ==
    ASSUME DeployTypeOK, TreeInv, UNCHANGED <<deployment, served, before, previous, backedUp>>,
           intact' => intact, phase \in Preserved, phase' \in {"health", "complete", "undo_deploy"}
    PROVE  TreeInv'
  <1> USE DEF TreeInv
  <1>1. Cleared'
    BY DEF Cleared
  <1>2. ASSUME intact' PROVE Serves(before)' /\ before' = IF backedUp' THEN previous' ELSE Empty
    BY <1>2 DEF LiveKept, Serves
  <1>3. LiveKept'
    BY <1>2 DEF LiveKept, Untouched, Preserved, SetAsidePCs
  <1> QED
    BY <1>1, <1>3

\* The same while the old tree is set aside by a rollback.
LEMMA AsideTree ==
    ASSUME DeployTypeOK, TreeInv, UNCHANGED <<deployment, served, before, pre, target>>,
           intact' => intact, phase \in SetAsidePCs, phase' \in {"supersede", "undo_restore"}
    PROVE  TreeInv'
  <1> USE DEF TreeInv
  <1>1. Cleared'
    BY DEF Cleared
  <1>2. ASSUME intact' PROVE Serves(before)' /\ pre'[target'] = before' /\ before' # Empty
    BY <1>2 DEF LiveKept, Serves
  <1>3. LiveKept'
    BY <1>2 DEF LiveKept, Untouched, Preserved, SetAsidePCs
  <1> QED
    BY <1>1, <1>3

\* A deployment fills the emptied tree while the old one is preserved.
LEMMA ActivateTree ==
    ASSUME DeployTypeOK, TreeInv, intact' => intact, Activate \/ HealthCheck
    PROVE  TreeInv'
  <1>1. /\ UNCHANGED <<deployment, served, before, previous, backedUp>>
        /\ phase \in Preserved
        /\ phase' \in {"health", "complete", "undo_deploy"}
    BY FailGoes
    DEF Activate, HealthCheck, Preserved, deployRowVars, dirVars, deployRunVars, deployObsVars
  <1> QED
    BY <1>1, PreservedTree

\* A completed deployment is the newest, and it is live.
LEMMA CompleteTree ==
    ASSUME DeployTypeOK, RowsInv, TreeInv, intact' => intact, Complete
    PROVE  TreeInv'
  <1>0. /\ phase = "complete" /\ dep \in Rows
        /\ UNCHANGED <<live, before, previous, backedUp, release, dep>>
    BY DEF Complete, RowsInv, RunRow, OpenRow, dirVars, deployRunVars
  <1>1. CASE Fail /\ UNCHANGED <<deployment, served>>
    BY <1>0, <1>1, FailGoes, PreservedTree DEF Preserved
  <1>2. CASE /\ deployment' = [deployment EXCEPT ![dep] = "succeeded"]
             /\ served' = [served EXCEPT ![dep] = live]
             /\ phase' = "prune"
    <2>1. Cleared'
      BY <1>2 DEF Cleared
    <2>2. ASSUME intact' PROVE Serves(live)'
      <3>1. /\ deployment'[dep] = "succeeded" /\ served'[dep] = live'
            /\ \A c \in Rows : dep < c => deployment'[c] # "succeeded"
        BY <1>0, <1>2 DEF DeployTypeOK, RowsInv, InOrder, OpenRow, Rows
      <3> QED
        BY <1>0, <3>1, ServesLast DEF Serves
    <2>3. LiveKept'
      BY <1>2, <2>2 DEF LiveKept, Untouched, Preserved, SetAsidePCs
    <2> QED
      BY <2>1, <2>3 DEF TreeInv
  <1> QED
    BY <1>1, <1>2 DEF Complete

\* The Undo of DEPLOY puts back what was preserved.
LEMMA UndoDeployTree ==
    ASSUME DeployTypeOK, RowsInv, TreeInv, intact' => intact, UndoDeploy
    PROVE  TreeInv'
  <1>0. /\ phase = "undo_deploy" /\ phase' = "undo_fetch"
        /\ UNCHANGED <<deployment, served, before>>
    BY DEF UndoDeploy, deployRowVars
  <1>1. Cleared'
    BY <1>0 DEF Cleared
  <1>2. ASSUME intact' PROVE live' = before' /\ Serves(before)'
    <2>1. Serves(before) /\ before = IF backedUp THEN previous ELSE Empty
      BY <1>0, <1>2 DEF TreeInv, LiveKept, Preserved
    <2>2. live' = IF backedUp THEN CopyTree(previous, Empty) ELSE Empty
      BY <1>2, Zenon DEF UndoDeploy
    <2> QED
      BY <1>0, <2>1, <2>2, CopyIsSame DEF DeployTypeOK, Serves
  <1>3. LiveKept'
    BY <1>0, <1>2 DEF LiveKept, Untouched, Preserved, SetAsidePCs
  <1> QED
    BY <1>1, <1>3 DEF TreeInv

\* The end of a run leaves the tree it activated or the one it found.
LEMMA EndTree ==
    ASSUME DeployTypeOK, RowsInv, TreeInv, intact' => intact, Prune \/ Conclude \/ Crash
    PROVE  TreeInv'
  <1>0. /\ phase' = "idle" /\ previous' = Empty
        /\ UNCHANGED <<deployment, served, live>>
    BY DEF Prune, Conclude, Crash, ClearDeploy, deployRowVars
  <1>1. ~backedUp'
    BY Zenon DEF Prune, Conclude, Crash, ClearDeploy
  <1>2. Cleared'
    BY <1>0, <1>1 DEF Cleared
  <1>3. ASSUME intact' PROVE Serves(live)'
    <2>1. phase = "prune" \/ phase = "conclude"
      BY <1>3, Zenon DEF Prune, Conclude, Crash
    <2>2. Serves(live)
      BY <1>3, <2>1 DEF TreeInv, LiveKept, Untouched
    <2> QED
      BY <1>0, <2>2 DEF Serves
  <1>4. LiveKept'
    BY <1>0, <1>3 DEF LiveKept, Untouched, Preserved, SetAsidePCs
  <1> QED
    BY <1>2, <1>4 DEF TreeInv

\* A rollback sets the old tree aside whole, or the loss is noted.
LEMMA SetAsideTree ==
    ASSUME DeployTypeOK, RowsInv, TreeInv, intact' => intact, SetAside
    PROVE  TreeInv'
  <1>0. /\ phase = "set_aside" /\ phase' \in {"restore", "undo_restore"}
        /\ UNCHANGED <<deployment, served, before, target>>
    BY FailGoes DEF SetAside, deployRowVars, deployRunVars
  <1>1. Cleared'
    BY <1>0 DEF Cleared
  <1>2. ASSUME intact' PROVE LiveKept'
    <2>1. live = before /\ Serves(before)
      BY <1>0, <1>2 DEF TreeInv, LiveKept, Untouched
    <2>2. live # Empty /\ pre'[target] = live
      BY <1>2, Zenon DEF SetAside
    <2>3. phase' = "restore" => live' = Empty
      BY <1>2, <2>2, FailGoes DEF SetAside
    <2> QED
      BY <1>0, <2>1, <2>2, <2>3 DEF LiveKept, Serves, Untouched, Preserved, SetAsidePCs
  <1>3. LiveKept'
    BY <1>2 DEF LiveKept
  <1> QED
    BY <1>1, <1>3 DEF TreeInv

\* A rollback fills the emptied tree while the old one is set aside.
LEMMA RestoreTree ==
    ASSUME DeployTypeOK, TreeInv, intact' => intact, Restore
    PROVE  TreeInv'
  <1>1. /\ UNCHANGED <<deployment, served, before, pre, target>>
        /\ phase \in SetAsidePCs /\ phase' \in {"supersede", "undo_restore"}
    BY FailGoes DEF Restore, SetAsidePCs, deployRowVars, deployRunVars, deployObsVars
  <1> QED
    BY <1>1, AsideTree

\* Once others are superseded the restored tree awaits its row.
LEMMA SupersedeTree ==
    ASSUME DeployTypeOK, RowsInv, TreeInv, intact' => intact, Supersede
    PROVE  TreeInv'
  <1>0. phase = "supersede" /\ UNCHANGED <<live, release, pre, served, before, target>>
    BY DEF Supersede, dirVars, deployRunVars, deployObsVars
  <1>1. CASE Fail /\ UNCHANGED deployment
    BY <1>0, <1>1, FailGoes, AsideTree DEF SetAsidePCs
  <1>2. CASE phase' = "record"
    <2>1. Cleared'
      BY <1>2 DEF Cleared
    <2>2. LiveKept'
      BY <1>0, <1>2 DEF TreeInv, LiveKept, Untouched, Preserved, SetAsidePCs
    <2> QED
      BY <2>1, <2>2 DEF TreeInv
  <1> QED
    BY <1>1, <1>2 DEF Supersede

\* The row of a rollback is the newest, and what it restored is live.
LEMMA RecordTree ==
    ASSUME DeployTypeOK, RowsInv, TreeInv, intact' => intact, Record
    PROVE  TreeInv'
  <1>0. phase = "record" /\ target \in Rows /\ live' = live
    BY DEF Record, RowsInv, RunRow, RollbackSteps
  <1>1. CASE Fail
    <2>1. phase' = "undo_restore" /\ ~intact'
      <3>1. phase' = "undo_restore"
        BY <1>0, <1>1, FailGoes
      <3>2. ClearDeploy => phase' = "idle"
        BY DEF ClearDeploy
      <3>3. ~ClearDeploy
        BY <3>1, <3>2
      <3>4. ~intact'
        BY <3>3, Zenon DEF Record
      <3> QED
        BY <3>1, <3>4
    <2> QED
      BY <2>1 DEF TreeInv, Cleared, LiveKept
  <1>2. ASSUME NEW d \in Rows, NewRow(d), ClearDeploy,
               deployment' = [deployment EXCEPT ![d] = "succeeded"],
               served' = [served EXCEPT ![d] = live]
        PROVE  TreeInv'
    <2>1. ~backedUp' /\ previous' = Empty /\ phase' = "idle"
      BY <1>2, Zenon DEF ClearDeploy
    <2>2. Cleared'
      BY <2>1 DEF Cleared
    <2>3. ASSUME intact' PROVE Serves(live)'
      <3>1. /\ deployment'[d] = "succeeded" /\ served'[d] = live'
            /\ \A c \in Rows : d < c => deployment'[c] # "succeeded"
        BY <1>0, <1>2 DEF DeployTypeOK, NewRow, RowsInv, InOrder, Rows
      <3> QED
        BY <3>1, ServesLast DEF Serves
    <2>4. LiveKept'
      BY <2>1, <2>3 DEF LiveKept, Untouched, Preserved, SetAsidePCs
    <2> QED
      BY <2>2, <2>4 DEF TreeInv
  <1> QED
    BY <1>1, <1>2 DEF Record

\* The Undo of a rollback puts back what was set aside.
LEMMA UndoRestoreTree ==
    ASSUME DeployTypeOK, RowsInv, TreeInv, intact' => intact, UndoRestore
    PROVE  TreeInv'
  <1>0. /\ phase = "undo_restore" /\ phase' = "conclude"
        /\ UNCHANGED <<deployment, served, before>>
    BY DEF UndoRestore, deployRowVars
  <1>1. Cleared'
    BY <1>0 DEF Cleared
  <1>2. ASSUME intact' PROVE live' = before' /\ Serves(before)'
    <2>1. Serves(before) /\ pre[target] = before /\ before # Empty
      BY <1>0, <1>2 DEF TreeInv, LiveKept, SetAsidePCs
    <2>2. live' = IF pre[target] = Empty THEN live ELSE CopyTree(pre[target], Empty)
      BY <1>2, Zenon DEF UndoRestore
    <2> QED
      BY <1>0, <2>1, <2>2, CopyIsSame DEF DeployTypeOK, Serves
  <1>3. LiveKept'
    BY <1>0, <1>2 DEF LiveKept, Untouched, Preserved, SetAsidePCs
  <1> QED
    BY <1>1, <1>3 DEF TreeInv

\* A cancellation starts the rollback from wherever the run stands.
LEMMA StopTree ==
    ASSUME DeployTypeOK, RowsInv, TreeInv, intact' => intact, Stop
    PROVE  TreeInv'
  <1>0. UNCHANGED <<deployment, served, live, before, previous, pre, backedUp, target, release,
                    dep>>
    BY DEF Stop, deployRowVars, dirVars, deployRunVars, deployObsVars
  <1>1. CASE phase' \in {"conclude", "undo_precheck", "undo_fetch"}
    BY <1>0, <1>1, TreesUntouched DEF Stop, Untouched, ClearedPCs
  <1>2. CASE phase' = "undo_deploy"
    BY <1>0, <1>2, PreservedTree DEF Stop, Preserved
  <1>3. CASE phase' = "undo_restore"
    BY <1>0, <1>3, AsideTree DEF Stop, SetAsidePCs
  <1> QED
    BY <1>1, <1>2, <1>3 DEF Stop

\* Every step keeps the invariant of the trees.
LEMMA NextTree ==
    ASSUME DeployTypeOK, RowsInv, TreeInv, DeployNext
    PROVE  TreeInv'
  <1>1. intact' => intact
    BY IntactFalls
  <1> QED
    BY <1>1, StartTree, QuietTree, PreserveTree, ActivateTree, CompleteTree, UndoDeployTree,
       EndTree, SetAsideTree, RestoreTree, SupersedeTree, RecordTree, UndoRestoreTree, StopTree
    DEF DeployNext

-----------------------------------------------------------------------------
(* The properties.                                                         *)

\* Before the first deployment the invariant holds.
LEMMA DeployInitInv == DeployInit => IInv
  <1> SUFFICES ASSUME DeployInit PROVE IInv
    OBVIOUS
  <1>1. RunRow /\ InOrder /\ ActiveRowOwned
    BY DEF DeployInit, RunRow, InOrder, ActiveRowOwned, NoRow, OpenRow, RollbackSteps
  <1>2. MadeComplete /\ NewestRestorable
    BY DEF DeployInit, MadeComplete, NewestRestorable
  <1>3. ~backedUp
    BY Zenon DEF DeployInit
  <1>4. Cleared
    BY <1>3 DEF DeployInit, Cleared
  <1>5. LiveKept
    BY DEF DeployInit, LiveKept, Serves, ServesIn, Untouched, Preserved, SetAsidePCs
  <1> QED
    BY <1>1, <1>2, <1>4, <1>5, DeployInitType DEF IInv

\* Every step keeps the inductive invariant.
LEMMA DeployNextInv == IInv /\ [DeployNext]_deployVars => IInv'
  <1> SUFFICES ASSUME IInv, [DeployNext]_deployVars PROVE IInv'
    OBVIOUS
  <1>1. DeployTypeOK'
    BY DeployNextType DEF IInv
  <1>2. RowsInv'
    BY NextRows DEF IInv, RowsInv
  <1>3. CASE DeployNext
    <2>1. NewestRestorable' /\ TreeInv'
      BY <1>3, NextRestorable, NextTree DEF IInv, RowsInv, TreeInv
    <2> QED
      BY <1>1, <1>2, <2>1 DEF IInv, RowsInv, TreeInv
  <1>4. CASE UNCHANGED deployVars
    <2> USE <1>4 DEF deployVars, deployRowVars, dirVars, deployRunVars, deployObsVars
    <2>1. NewestRestorable'
      BY DEF IInv, NewestRestorable, Newer
    <2>2. Cleared'
      BY DEF IInv, Cleared
    <2>3. LiveKept'
      BY DEF IInv, LiveKept, Serves
    <2> QED
      BY <1>1, <1>2, <2>1, <2>2, <2>3 DEF IInv, RowsInv
  <1> QED
    BY <1>3, <1>4

\* The inductive invariant holds in every reachable state.
THEOREM DeployInvariance == DeploySpec => []IInv
  BY DeployInitInv, DeployNextInv, PTL DEF DeploySpec

\* Every reachable state has the shape of TypeOK.
THEOREM DeployTypeCorrect == DeploySpec => []DeployTypeOK
  <1>1. IInv => DeployTypeOK
    BY DEF IInv
  <1> QED
    BY <1>1, DeployInvariance, PTL

\* The unique index and Validate give an environment one active deployment;
\* every path of the engine closes its row before the run ends, unless the
\* process crashes or the closing write is lost.
THEOREM ActiveRowOwnedHolds == DeploySpec => []ActiveRowOwned
  <1>1. IInv => ActiveRowOwned
    BY DEF IInv
  <1> QED
    BY <1>1, DeployInvariance, PTL

\* pruneReleases never takes one of the newest keepReleases completed
\* deployments, nor does an Undo: they can be restored to what they activated.
THEOREM NewestRestorableHolds == DeploySpec => []NewestRestorable
  <1>1. IInv => NewestRestorable
    BY DEF IInv
  <1> QED
    BY <1>1, DeployInvariance, PTL

\* Between runs the newest successful deployment is live, through failures,
\* cancellations and rollbacks that preserved every tree whole.
THEOREM LiveIsNewestHolds == DeploySpec => []LiveIsNewest
  <1>1. IInv => LiveIsNewest
    <2> SUFFICES ASSUME IInv, intact, phase = "idle" PROVE LiveIsNewest
      BY DEF LiveIsNewest
    <2>1. ServesIn(live, deployment, served)
      BY DEF IInv, LiveKept, Serves
    <2> QED
      BY <2>1 DEF ServesIn, LiveIsNewest
  <1> QED
    BY <1>1, DeployInvariance, PTL

=============================================================================
