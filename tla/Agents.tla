------------------------------- MODULE Agents -------------------------------
(***************************************************************************)
(* AI agents and the gateway they speak through: api/internal/agents, the  *)
(* profiles and the chat of api/internal/ai and its registry of models.    *)
(*                                                                         *)
(* One agent, one profile, and two providers with one model each, named by *)
(* their kind.  A request of a caller takes one action per statement it    *)
(* sends to the database, and one per call to a model or a tool: what it   *)
(* read may be out of date when it acts.  A caller holds agents.manage,    *)
(* agents.execute and ai.manage, and of the permissions an agent may be    *)
(* given those in Grantable.  A tool that needs no approval is run at      *)
(* once; one that does becomes a row of Approvals.tla.                     *)
(***************************************************************************)
EXTENDS Integers, Sequences, FiniteSets

CONSTANT MaxAgentRequests       \* bound: requests

ASSUME AgentsAssumption == MaxAgentRequests \in Nat

VARIABLES
    bot,        \* the row of agents
    profile,    \* the row of ai_profiles
    provider,   \* ai_providers: the status of each
    model,      \* ai_models: the status of the model of each provider
    usage,      \* ai_usage_records: the statuses recorded so far
    turn,       \* the requests in progress
    asked,      \* requests so far
    \* observations, read by no action
    moments,    \* the rows of the agent and the profile during each request
    deed        \* what the last step did outside the database

agentVars == <<bot, profile, provider, model, usage, turn, asked, moments, deed>>

Turns == {1, 2}
Managers == {"admin", "lead"}
Scopes == {"ai.use", "infrastructure.read"}
Tools == {"get_server_metrics"}
ToolPermission == "infrastructure.read"
Grantable(u) == IF u = "admin" THEN Scopes ELSE {"ai.use"}
Providers == {"cloud", "local"}
Routes == {<<"cloud", "local">>, <<"local">>}

NoBot == [status |-> "none", tools |-> {}, scope |-> {}]
Bots == [status: {"active", "disabled"}, tools: SUBSET Tools, scope: SUBSET Scopes]
NoProfile == [privacy |-> "none", route |-> <<>>]
Profiles == [privacy: {"internal", "restricted"}, route: Routes]
NoTurn == [pc |-> "idle", by |-> "admin", bot |-> NoBot, profile |-> NoProfile, edit |-> <<>>,
           route |-> <<>>]
NoDeed == [kind |-> "none", model |-> "none", forBot |-> FALSE, during |-> {}]

\* An edit gives one field: its name and its new value.
BotEdits == ({"tools"} \X SUBSET Tools) \cup ({"scope"} \X SUBSET Scopes)
ProfileEdits == ({"privacy"} \X {"internal", "restricted"}) \cup ({"route"} \X Routes)

AgentsTypeOK ==
    /\ bot \in Bots \cup {NoBot} /\ profile \in Profiles \cup {NoProfile}
    /\ provider \in [Providers -> {"none", "active", "disabled"}]
    /\ model \in [Providers -> {"none", "available", "unavailable"}]
    /\ usage \subseteq {"success", "error"}
    /\ \A t \in Turns :
          /\ turn[t].pc \in {"idle", "edit_bot", "delete_bot", "edit_profile", "delete_profile",
                             "tool", "chat", "resolve", "converse"}
          /\ turn[t].by \in Managers
          /\ turn[t].bot \in Bots \cup {NoBot} /\ turn[t].profile \in Profiles \cup {NoProfile}
    /\ asked \in 0..MaxAgentRequests

\* Any row that requests before these may have left.
AgentsInit ==
    /\ bot \in Bots \cup {NoBot} /\ profile \in Profiles \cup {NoProfile}
    /\ provider = [p \in Providers |-> "active"]
    /\ model = [p \in Providers |-> "available"]
    /\ usage = {} /\ turn = [t \in Turns |-> NoTurn] /\ asked = 0
    /\ moments = [t \in Turns |-> {}] /\ deed = NoDeed

-----------------------------------------------------------------------------
rows == <<bot, profile, provider, model, usage>>

\* A request that is one statement.
Statement ==
    /\ asked < MaxAgentRequests /\ asked' = asked + 1
    /\ UNCHANGED turn /\ deed' = NoDeed

\* A request reads, and goes on in a later action.
Asks(t, r) ==
    /\ turn[t].pc = "idle" /\ \A o \in Turns : o < t => turn[o].pc # "idle"
    /\ asked < MaxAgentRequests /\ asked' = asked + 1
    /\ turn' = [turn EXCEPT ![t] = r]
    /\ UNCHANGED rows /\ deed' = NoDeed

Here(t, pc) == turn[t].pc = pc /\ UNCHANGED asked
Continues(t, r) == turn' = [turn EXCEPT ![t] = r]
Answers(t) == Continues(t, NoTurn)

-----------------------------------------------------------------------------
(* Agents.                                                                 *)

CreateAgent(u, T, S) ==
    /\ bot = NoBot /\ S \subseteq Grantable(u)
    /\ bot' = [status |-> "disabled", tools |-> T, scope |-> S]
    /\ Statement /\ UNCHANGED <<profile, provider, model, usage>>

SetStatus(s) ==
    /\ bot # NoBot /\ bot' = [bot EXCEPT !.status = s]
    /\ Statement /\ UNCHANGED <<profile, provider, model, usage>>

\* Update: get, check what the caller may grant; then write every column.
UpdateAgentRead(t, u, e) ==
    /\ bot # NoBot /\ (e[1] = "scope" => e[2] \subseteq Grantable(u))
    /\ Asks(t, [NoTurn EXCEPT !.pc = "edit_bot", !.by = u, !.bot = bot, !.edit = e])
UpdateAgentWrite(t) ==
    /\ Here(t, "edit_bot") /\ Answers(t) /\ deed' = NoDeed
    /\ LET old == turn[t].bot  e == turn[t].edit IN
       bot' = IF bot = NoBot THEN bot
              ELSE [bot EXCEPT !.tools = IF e[1] = "tools" THEN e[2] ELSE old.tools,
                               !.scope = IF e[1] = "scope" THEN e[2] ELSE old.scope]
    /\ UNCHANGED <<profile, provider, model, usage>>

DeleteAgentRead(t) ==
    /\ bot.status = "disabled"
    /\ Asks(t, [NoTurn EXCEPT !.pc = "delete_bot", !.bot = bot])
DeleteAgentWrite(t) ==
    /\ Here(t, "delete_bot") /\ Answers(t) /\ deed' = NoDeed
    /\ bot' = NoBot /\ UNCHANGED <<profile, provider, model, usage>>

\* Mutant: the permissions of the invoking caller.
CallerContext(r) == Scopes

\* agentAuthContext: the permissions an agent acts with are its scope.
AgentContext(r) == r.bot.scope

\* ExecuteTool: get and its checks; then Execute of the tool gateway.
ExecuteRead(t, u) ==
    /\ bot.status = "active" /\ bot.tools # {}
    /\ Asks(t, [NoTurn EXCEPT !.pc = "tool", !.by = u, !.bot = bot])
ExecuteTool(t) ==
    /\ Here(t, "tool") /\ Answers(t) /\ UNCHANGED rows
    /\ deed' = IF ToolPermission \in AgentContext(turn[t])
               THEN [kind |-> "tool", model |-> "none", forBot |-> TRUE, during |-> moments[t]]
               ELSE NoDeed

\* Run: get and its checks; then Chat.
RunAgent(t, u) ==
    /\ bot.status = "active" /\ "ai.use" \in bot.scope
    /\ Asks(t, [NoTurn EXCEPT !.pc = "chat", !.by = u, !.bot = bot])

-----------------------------------------------------------------------------
(* Profiles and chat.                                                      *)

CreateProfile(p) ==
    /\ profile = NoProfile /\ profile' = p
    /\ Statement /\ UNCHANGED <<bot, provider, model, usage>>

UpdateProfileRead(t, e) ==
    /\ profile # NoProfile
    /\ Asks(t, [NoTurn EXCEPT !.pc = "edit_profile", !.profile = profile, !.edit = e])
UpdateProfileWrite(t) ==
    /\ Here(t, "edit_profile") /\ Answers(t) /\ deed' = NoDeed
    /\ LET old == turn[t].profile  e == turn[t].edit IN
       profile' = IF profile = NoProfile THEN profile
                  ELSE [privacy |-> IF e[1] = "privacy" THEN e[2] ELSE old.privacy,
                        route |-> IF e[1] = "route" THEN e[2] ELSE old.route]
    /\ UNCHANGED <<bot, provider, model, usage>>

DeleteProfileRead(t) ==
    /\ profile # NoProfile
    /\ Asks(t, [NoTurn EXCEPT !.pc = "delete_profile", !.profile = profile])
DeleteProfileWrite(t) ==
    /\ Here(t, "delete_profile") /\ Answers(t) /\ deed' = NoDeed
    /\ profile' = NoProfile /\ UNCHANGED <<bot, provider, model, usage>>

\* recordUsage, whose failure is only logged.
RecordUsage(status) == usage' \in {usage, usage \cup {status}}

\* Chat of a user, or of an agent that Run has admitted.
Chat(t, u) == Asks(t, [NoTurn EXCEPT !.pc = "chat", !.by = u])
ChatProfile(t) ==
    /\ Here(t, "chat") /\ UNCHANGED rows /\ deed' = NoDeed
    /\ \/ profile = NoProfile /\ Answers(t)
       \/ /\ profile # NoProfile
          /\ Continues(t, [turn[t] EXCEPT !.pc = "resolve", !.profile = profile,
                                          !.route = profile.route])

\* What resolve asks of the model a reference names.  A reference to none, and
\* a provider without an adapter, are passed over like one that is disabled.
Eligible(p, m) ==
    /\ provider[m] = "active" /\ model[m] = "available"
    /\ ~(p.privacy = "restricted" /\ m = "cloud")

\* resolve: one query per reference, preferred ones first.
Resolve(t) ==
    /\ Here(t, "resolve") /\ deed' = NoDeed /\ UNCHANGED <<bot, profile, provider, model>>
    /\ LET r == turn[t] IN
       \/ r.route = <<>> /\ RecordUsage("error") /\ Answers(t)
       \/ /\ r.route # <<>> /\ Eligible(r.profile, Head(r.route))
          /\ Continues(t, [r EXCEPT !.pc = "converse"]) /\ UNCHANGED usage
       \/ /\ r.route # <<>> /\ ~Eligible(r.profile, Head(r.route))
          /\ Continues(t, [r EXCEPT !.route = Tail(@)]) /\ UNCHANGED usage

\* The messages are sent, whatever comes back.
Converse(t) ==
    /\ Here(t, "converse") /\ Answers(t) /\ UNCHANGED <<bot, profile, provider, model>>
    /\ \E status \in {"success", "error"} : RecordUsage(status)
    /\ deed' = [kind |-> "chat", model |-> Head(turn[t].route), forBot |-> turn[t].bot # NoBot,
                during |-> moments[t]]

-----------------------------------------------------------------------------
(* The registry of providers and models.                                   *)

UpsertProvider(m, s) ==
    /\ provider' = [provider EXCEPT ![m] = s]
    /\ Statement /\ UNCHANGED <<bot, profile, model, usage>>
DeleteProvider(m) ==
    /\ provider' = [provider EXCEPT ![m] = "none"]
    /\ model' = [model EXCEPT ![m] = "none"]
    /\ Statement /\ UNCHANGED <<bot, profile, usage>>
UpsertModel(m, s) ==
    /\ provider[m] # "none" /\ model' = [model EXCEPT ![m] = s]
    /\ Statement /\ UNCHANGED <<bot, profile, provider, usage>>
DeleteModel(m) ==
    /\ model' = [model EXCEPT ![m] = "none"]
    /\ Statement /\ UNCHANGED <<bot, profile, provider, usage>>

-----------------------------------------------------------------------------
AgentStep ==
    \/ \E u \in Managers, T \in SUBSET Tools, S \in SUBSET Scopes : CreateAgent(u, T, S)
    \/ \E s \in {"active", "disabled"} : SetStatus(s)
    \/ \E p \in Profiles : CreateProfile(p)
    \/ \E t \in Turns :
          \/ \E u \in Managers :
                ExecuteRead(t, u) \/ RunAgent(t, u) \/ Chat(t, u)
                \/ \E e \in BotEdits : UpdateAgentRead(t, u, e)
          \/ UpdateAgentWrite(t) \/ DeleteAgentRead(t) \/ DeleteAgentWrite(t) \/ ExecuteTool(t)
          \/ (\E e \in ProfileEdits : UpdateProfileRead(t, e)) \/ UpdateProfileWrite(t)
          \/ DeleteProfileRead(t) \/ DeleteProfileWrite(t)
          \/ ChatProfile(t) \/ Resolve(t) \/ Converse(t)
    \/ \E m \in Providers :
          \/ \E s \in {"active", "disabled"} : UpsertProvider(m, s)
          \/ \E s \in {"available", "unavailable"} : UpsertModel(m, s)
          \/ DeleteProvider(m) \/ DeleteModel(m)

\* The moments each request has lived through.
Watch ==
    moments' = [t \in Turns |-> IF turn'[t].pc = "idle" THEN {}
                                ELSE moments[t] \cup {<<bot', profile'>>}]

AgentsNext == AgentStep /\ Watch

AgentsSpec == AgentsInit /\ [][AgentsNext]_agentVars

-----------------------------------------------------------------------------
(* Properties.                                                             *)

\* Whatever is edited, disabled or deleted meanwhile, what a request does for
\* an agent was allowed at one moment of that request: the agent was active,
\* had the tool and the permission the tool needs, or the permission to chat;
\* and a chat goes to a cloud model only if at one moment of it the profile was
\* not restricted.
ActsAsConfigured ==
    /\ deed.kind = "tool" =>
          \E w \in deed.during :
             w[1].status = "active" /\ w[1].tools # {} /\ ToolPermission \in w[1].scope
    /\ (deed.kind = "chat" /\ deed.forBot) =>
          \E w \in deed.during : w[1].status = "active" /\ "ai.use" \in w[1].scope
    /\ deed.model = "cloud" => \E w \in deed.during : w[2].privacy = "internal"

=============================================================================
