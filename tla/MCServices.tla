----------------------------- MODULE MCServices -----------------------------
(* The safety of the domain services, for TLC.  They share no state that a *)
(* property here speaks of, so a behaviour is one of a single service: the *)
(* initial state chooses it, and the others keep their initial values.     *)
EXTENDS Backups, Certificates, Sites, Plans, Schedules, Members, Sessions, Agents,
        Inventory, Records

CONSTANTS f

MCItems == {f}
MCTypes == {{f}}

VARIABLE service

Only(s) ==
    /\ service = s /\ UNCHANGED service
    /\ s # "backups" => UNCHANGED vars
    /\ s # "network" => UNCHANGED netVars
    /\ s # "sites" => UNCHANGED siteVars
    /\ s # "plans" => UNCHANGED planVars
    /\ s # "schedules" => UNCHANGED schedVars
    /\ s # "members" => UNCHANGED memVars
    /\ s # "sessions" => UNCHANGED sessVars
    /\ s # "agents" => UNCHANGED agentVars
    /\ s # "inventory" => UNCHANGED inventoryVars
    /\ s # "records" => UNCHANGED dnsVars

ServicesInit ==
    /\ service \in {"backups", "network", "sites", "plans", "schedules", "members", "sessions",
                   "agents", "inventory", "records"}
    /\ Init /\ CertInit /\ SitesInit /\ PlanInit /\ SchedInit /\ MemInit /\ SessInit
    /\ AgentsInit /\ InventoryInit /\ DnsInit
    /\ service # "backups" => sftp
    /\ service # "records" => Stored = {}
    /\ service # "agents" => bot = NoBot /\ profile = NoProfile

ServicesNext ==
    \/ Only("backups") /\ Next
    \/ Only("network") /\ CertNext
    \/ Only("sites") /\ SitesNext
    \/ Only("plans") /\ PlanNext
    \/ Only("schedules") /\ SchedNext
    \/ Only("members") /\ MemNext
    \/ Only("sessions") /\ SessNext
    \/ Only("agents") /\ AgentsNext
    \/ Only("inventory") /\ InventoryNext
    \/ Only("records") /\ DnsNext

allVars == <<service, vars, netVars, siteVars, planVars, schedVars, memVars, sessVars,
             agentVars, inventoryVars, dnsVars>>

ServicesSpec == ServicesInit /\ [][ServicesNext]_allVars
=============================================================================
