----------------------------- MODULE Inventory -----------------------------
(***************************************************************************)
(* The registries of nodes (api/internal/infrastructure) and applications  *)
(* (api/internal/applications), and everything else that writes into them: *)
(* the heartbeats and the sweep of node agents (api/internal/nodeagent),   *)
(* provisioning, and the adoption of containers that run already           *)
(* (api/internal/projects/discovery.go).                                   *)
(*                                                                         *)
(* One node, and one application whose name a container may have too.  A   *)
(* request reads the row and writes it in a later action.  Of the columns  *)
(* that may be edited, one stands for the name and one for all the others; *)
(* project tells whether the application belongs to the project.           *)
(***************************************************************************)
EXTENDS Integers, FiniteSets

CONSTANT MaxVisits      \* bound: requests that read before they write

ASSUME InventoryAssumption == MaxVisits \in Nat

VARIABLES
    asset,      \* the row of nodes and the row of applications
    visit,      \* the requests in progress
    visits      \* requests so far

inventoryVars == <<asset, visit, visits>>

Assets == {"node", "app"}
Visits == {1, 2}
Values == {"old", "new"}
Reports == {"running", "stopped"}       \* of the statuses a report may give
Retirement(i) == IF i = "node" THEN "decommissioned" ELSE "deregistered"
Row == [status: {"none", "unknown", "decommissioned", "deregistered"} \cup Reports,
        name: Values, other: Values, project: BOOLEAN]
Absent == [status |-> "none", name |-> "old", other |-> "old", project |-> FALSE]
NoVisit == [pc |-> "idle", asset |-> "node", row |-> Absent, field |-> "name", value |-> "old"]

InventoryTypeOK ==
    /\ asset \in [Assets -> Row]
    /\ visit \in [Visits -> [pc: {"idle", "edit", "report", "retire"}, asset: Assets, row: Row,
                             field: {"name", "other", "status"}, value: Values \cup Reports]]
    /\ visits \in 0..MaxVisits

InventoryInit ==
    /\ asset = [i \in Assets |-> Absent]
    /\ visit = [v \in Visits |-> NoVisit] /\ visits = 0

-----------------------------------------------------------------------------
Write(i, r) == asset' = [asset EXCEPT ![i] = r] /\ UNCHANGED <<visit, visits>>

RegisterNode ==
    /\ asset["node"] = Absent /\ Write("node", [Absent EXCEPT !.status = "unknown"])
Register ==
    /\ asset["app"] = Absent /\ Write("app", [Absent EXCEPT !.status = "unknown"])

\* Get, by which every request begins.
Reads(v, i, r) ==
    /\ visit[v].pc = "idle" /\ \A o \in Visits : o < v => visit[o].pc # "idle"
    /\ visits < MaxVisits /\ asset[i] # Absent
    /\ visit' = [visit EXCEPT ![v] = [r EXCEPT !.asset = i, !.row = asset[i]]]
    /\ visits' = visits + 1 /\ UNCHANGED asset

\* Mutant: a retired asset may be edited and reported like any other.
Anything(i) == TRUE

\* A retired asset is neither edited nor reported.
InService(i) == asset[i].status # Retirement(i)

Editing(f, x) == [NoVisit EXCEPT !.pc = "edit", !.field = f, !.value = x]
Reporting(s) == [NoVisit EXCEPT !.pc = "report", !.field = "status", !.value = s]
Retiring == [NoVisit EXCEPT !.pc = "retire"]

\* UPDATE ... WHERE id: a row that is gone meanwhile is an error.
Writes(v, i, pc, r) ==
    /\ visit[v].pc = pc /\ visit[v].asset = i
    /\ visit' = [visit EXCEPT ![v] = NoVisit] /\ UNCHANGED visits
    /\ asset' = [asset EXCEPT ![i] = IF @ = Absent THEN @ ELSE r]

\* The columns that were not given are written back as they were read.
Edited(v) ==
    LET old == visit[v].row  given(f) == visit[v].field = f
    IN  [asset[visit[v].asset] EXCEPT
            !.name = IF given("name") THEN visit[v].value ELSE old.name,
            !.other = IF given("other") THEN visit[v].value ELSE old.other]
WithStatus(i, s) == [asset[i] EXCEPT !.status = s]

UpdateNode(v, f, x) == InService("node") /\ Reads(v, "node", Editing(f, x))
UpdateNodeWrite(v) == Writes(v, "node", "edit", Edited(v))
UpdateNodeStatus(v, s) == InService("node") /\ Reads(v, "node", Reporting(s))
UpdateNodeStatusWrite(v) == Writes(v, "node", "report", WithStatus("node", visit[v].value))
DecommissionNode(v) == Reads(v, "node", Retiring)
DecommissionNodeWrite(v) == Writes(v, "node", "retire", WithStatus("node", "decommissioned"))

Update(v, f, x) == InService("app") /\ Reads(v, "app", Editing(f, x))
UpdateWrite(v) == Writes(v, "app", "edit", Edited(v))
UpdateStatus(v, s) == InService("app") /\ Reads(v, "app", Reporting(s))
UpdateStatusWrite(v) == Writes(v, "app", "report", WithStatus("app", visit[v].value))
Deregister(v) == Reads(v, "app", Retiring)
DeregisterWrite(v) == Writes(v, "app", "retire", WithStatus("app", "deregistered"))

-----------------------------------------------------------------------------
(* The other writers.                                                      *)

\* Heartbeat, and Sweep of a silent agent.
Heartbeat(s) ==
    /\ asset["node"] # Absent /\ asset["node"].status # Retirement("node")
    /\ Write("node", [asset["node"] EXCEPT !.status = s])

\* INSERT ... ON CONFLICT (organization_id, name) DO UPDATE, while the row has
\* the container's name (else the INSERT makes another row).
Upserted(s) == [asset["app"] EXCEPT !.status = s, !.project = TRUE]
RegisterForProject == asset["app"].name = "old" /\ Write("app", Upserted("running"))
Adopt(s) == asset["app"].name = "old" /\ Write("app", [Upserted(s) EXCEPT !.other = "new"])

\* A deletion, or the Undo of a provisioning, deletes the rows of the project.
Unregister == asset["app"].project /\ Write("app", Absent)

-----------------------------------------------------------------------------
NodeRequest(v) ==
    \/ \E f \in {"name", "other"}, x \in Values : UpdateNode(v, f, x)
    \/ \E s \in Reports : UpdateNodeStatus(v, s)
    \/ DecommissionNode(v)
    \/ UpdateNodeWrite(v) \/ UpdateNodeStatusWrite(v) \/ DecommissionNodeWrite(v)

ApplicationRequest(v) ==
    \/ \E f \in {"name", "other"}, x \in Values : Update(v, f, x)
    \/ \E s \in Reports : UpdateStatus(v, s)
    \/ Deregister(v)
    \/ UpdateWrite(v) \/ UpdateStatusWrite(v) \/ DeregisterWrite(v)

InventoryNext ==
    \/ RegisterNode \/ Register \/ RegisterForProject \/ Unregister
    \/ \E s \in Reports : Heartbeat(s) \/ Adopt(s)
    \/ \E v \in Visits : NodeRequest(v) \/ ApplicationRequest(v)

InventorySpec == InventoryInit /\ [][InventoryNext]_inventoryVars

-----------------------------------------------------------------------------
(* Properties.                                                             *)

\* Retirement is meant to be final.  A retired node or application comes back
\* only through a status report that had read it before it was retired, or, for
\* an application, when a container of its name is provisioned or adopted: not
\* by a heartbeat or the sweep of the agents, an edit, or a later report.
RetiredReturnsByOldReport ==
    [][ \A i \in Assets :
          (asset[i].status = Retirement(i) /\ asset'[i].status \in Reports \cup {"unknown"}) =>
              \/ \E v \in Visits : /\ visit[v].pc = "report" /\ visit'[v].pc = "idle"
                                   /\ visit[v].asset = i /\ visit[v].row.status # Retirement(i)
              \/ i = "app" /\ (RegisterForProject \/ \E s \in Reports : Adopt(s)) ]_inventoryVars

\* DecommissionNode is "a terminal, one-way state".  It is not so: a status
\* report that read the node before writes WHERE id, whatever its status is now.
DecommissionIsTerminal ==
    [][asset["node"].status = "decommissioned" => asset'["node"].status = "decommissioned"]_inventoryVars

\* A decommissioned node that no report under way has read is out of service for
\* good, whatever edits, heartbeats, sweeps and requests follow, those included
\* that read it before.
NodeSettled ==
    /\ asset["node"].status = "decommissioned"
    /\ \A v \in Visits : visit[v].asset = "node" => visit[v].pc # "report"
RetirementSettles == [][NodeSettled => NodeSettled']_inventoryVars

=============================================================================
