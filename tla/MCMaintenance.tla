---------------------------- MODULE MCMaintenance ----------------------------
(* The three services whose periodic work runs beside the requests, for    *)
(* TLC.  They share no state that a property here speaks of, so a          *)
(* behaviour is one of a single service: the initial state chooses it, and *)
(* the others keep their initial values.                                   *)
EXTENDS Backups, Monitoring, Certificates

CONSTANTS f

MCItems == {f}
MCTypes == {{f}}

VARIABLE service

InBackups(A) == service = "backups" /\ A /\ UNCHANGED <<service, monVars, netVars>>
InMonitoring(A) == service = "monitoring" /\ A /\ UNCHANGED <<service, vars, netVars>>
InNetwork(A) == service = "network" /\ A /\ UNCHANGED <<service, vars, monVars>>

AllInit == service \in {"backups", "monitoring", "network"} /\ Init /\ MonInit /\ CertInit
AllNext == InBackups(Next) \/ InMonitoring(MonNext) \/ InNetwork(CertNext)

allVars == <<service, vars, monVars, netVars>>

\* Fairness, MonFairness and CertFairness, each in the behaviours of its
\* service.
AllFairness ==
    /\ WF_allVars(InBackups(WorkerStep)) /\ WF_allVars(InBackups(Maintenance))
    /\ \A b \in Rows : WF_allVars(InBackups(Expire(b)))
    /\ SF_allVars(InMonitoring(RunDue)) /\ SF_allVars(InMonitoring(Evaluate))
    /\ WF_allVars(InMonitoring(LoopStep)) /\ WF_allVars(InMonitoring(RequestStep))
    /\ WF_allVars(InMonitoring(Elapse))
    /\ WF_allVars(InNetwork(CertStep)) /\ SF_allVars(InNetwork(ClaimRenewal))
    /\ WF_allVars(InNetwork(SweepExpired)) /\ WF_allVars(InNetwork(Sweeping))
    /\ SF_allVars(InNetwork(NewDay))

AllSpec == AllInit /\ [][AllNext]_allVars /\ AllFairness
=============================================================================
