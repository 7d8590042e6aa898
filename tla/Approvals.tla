------------------------------ MODULE Approvals ------------------------------
(***************************************************************************)
(* The tool gateway of api/internal/tools for one organization.  A request *)
(* for a read or safe tool runs at once; one for a privileged or critical  *)
(* tool becomes a pending row of the approvals table that a decider        *)
(* approves or rejects, its requester cancels, or time expires.            *)
(*                                                                         *)
(* A call is one HTTP request in flight in some API process.  Each of its  *)
(* actions is one SQL statement (or the handler), so any other call, the   *)
(* sweep, the clock and a crash may come between two of them.              *)
(***************************************************************************)
EXTENDS Integers

CONSTANTS
    Actors,         \* who may call: users, agents and service accounts
    Humans,         \* the actors of type user
    Deciders,       \* the actors holding approvals.decide
    Requests,       \* tool invocations that may be requested
    Gated,          \* those of tools with risk privileged or critical
    Runnable,       \* those of tools that have an execution backend
    Allowed,        \* <<actor, request>>: holds the tool's permission and tier
    Calls,          \* decision and cancellation calls in flight at a time
    NoActor,        \* NULL
    NoRequest,
    MinTTL,         \* minApprovalTTL
    MaxTTL,         \* maxApprovalTTL
    DefaultTTL,     \* defaultApprovalTTL
    MaxTime         \* bound: the last instant

ASSUME ActorAssumption ==
    /\ Humans \subseteq Actors
    /\ Deciders \subseteq Actors
    /\ NoActor \notin Actors
    /\ NoRequest \notin Requests
    /\ Gated \subseteq Requests
    /\ Runnable \subseteq Requests
    /\ Allowed \subseteq Actors \X Requests

ASSUME TimeAssumption ==
    /\ MinTTL \in Nat
    /\ MaxTTL \in Nat
    /\ DefaultTTL \in MinTTL..MaxTTL
    /\ MaxTime \in Nat

VARIABLES
    now,        \* the database clock
    ttl,        \* the organization's approval_ttl_seconds, or NoTTL
    \* the approvals table
    approval,   \* "absent" before the request, "direct" for an ungated one
    requester,  \* requesting_user_id
    expiresAt,
    call,       \* the calls in flight
    \* observations, read by no action
    runs,       \* how often the handler of the request was called
    approver,   \* the actor whose approval won the row
    outcome     \* what the handler answered

approvalVars == <<approval, requester, expiresAt>>
gateObsVars == <<runs, approver, outcome>>
gateVars == <<now, ttl, approvalVars, call, gateObsVars>>

NoTTL == -1
ApprovalStatuses == {"absent", "direct", "pending", "executing", "executed",
             "execution_failed", "rejected", "cancelled", "expired"}
Approved == {"executing", "executed", "execution_failed"}
PCs == {"idle", "load", "update", "execute", "record"}
Ops == {"approve", "reject", "cancel"}
Results == {"none", "ok", "error"}

\* A call acts for actor with operation op on request req; it began at instant
\* began and the handler returned result to it.
CallType ==
    [pc : PCs, op : Ops \cup {"none"}, req : Requests \cup {NoRequest},
     actor : Actors \cup {NoActor}, began : 0..MaxTime, result : Results]

NoCall ==
    [pc |-> "idle", op |-> "none", req |-> NoRequest, actor |-> NoActor,
     began |-> 0, result |-> "none"]

GateTypeOK ==
    /\ now \in 0..MaxTime
    /\ ttl \in (MinTTL..MaxTTL) \cup {NoTTL}
    /\ approval \in [Requests -> ApprovalStatuses]
    /\ requester \in [Requests -> Actors \cup {NoActor}]
    /\ expiresAt \in [Requests -> Nat]
    /\ call \in [Calls -> CallType]
    /\ \A c \in Calls :
          call[c] # NoCall => /\ call[c].pc # "idle"
                             /\ call[c].req \in Requests
                             /\ call[c].actor \in Actors
    /\ runs \in [Requests -> Nat]
    /\ approver \in [Requests -> Actors \cup {NoActor}]
    /\ outcome \in [Requests -> Results]

GateInit ==
    /\ now = 0
    /\ ttl = NoTTL
    /\ approval = [r \in Requests |-> "absent"]
    /\ requester = [r \in Requests |-> NoActor]
    /\ expiresAt = [r \in Requests |-> 0]
    /\ call = [c \in Calls |-> NoCall]
    /\ runs = [r \in Requests |-> 0]
    /\ approver = [r \in Requests |-> NoActor]
    /\ outcome = [r \in Requests |-> "none"]

-----------------------------------------------------------------------------
(* Time and expiry.                                                        *)

Tick ==
    /\ now < MaxTime
    /\ now' = now + 1
    /\ UNCHANGED <<ttl, approvalVars, call, gateObsVars>>

Due(r) == approval[r] = "pending" /\ expiresAt[r] < now

\* Mutant: only what users requested expires.
ExpireUserRequests ==
    [r \in Requests |->
        IF Due(r) /\ requester[r] # NoActor THEN "expired" ELSE approval[r]]

\* UPDATE approvals SET status = 'expired' WHERE status = 'pending' AND
\* expires_at < now()
Expired == [r \in Requests |-> IF Due(r) THEN "expired" ELSE approval[r]]

\* RunExpirySweep, and the expirePending of ListApprovals.
Sweep ==
    /\ approval' = Expired
    /\ approval' # approval
    /\ UNCHANGED <<now, ttl, requester, expiresAt, call, gateObsVars>>

\* SetApprovalTTL and ClearApprovalTTL: later requests only.
SetTTL ==
    /\ ttl' \in (MinTTL..MaxTTL) \cup {NoTTL}
    /\ ttl' # ttl
    /\ UNCHANGED <<now, approvalVars, call, gateObsVars>>

\* resolveApprovalTTL: the override, or the default.
ResolvedTTL == IF ttl = NoTTL THEN DefaultTTL ELSE ttl

-----------------------------------------------------------------------------
(* Execute: the entry point of the gateway.                                *)

\* runHandler: without a backend the call fails and nothing runs.
RunHandler(r, res) ==
    IF r \in Runnable
    THEN /\ runs' = [runs EXCEPT ![r] = @ + 1]
         /\ outcome' = [outcome EXCEPT ![r] = res]
    ELSE /\ res = "error"
         /\ UNCHANGED <<runs, outcome>>

\* A read or safe tool is executed at once.
ExecuteDirect(u, r) ==
    /\ approval[r] = "absent"
    /\ <<u, r>> \in Allowed
    /\ r \notin Gated
    /\ \E res \in {"ok", "error"} : RunHandler(r, res)
    /\ approval' = [approval EXCEPT ![r] = "direct"]
    /\ UNCHANGED <<now, ttl, requester, expiresAt, call, approver>>

\* createApproval.  requesting_user_id is set for a user only.
CreateApproval(u, r) ==
    /\ approval[r] = "absent"
    /\ <<u, r>> \in Allowed
    /\ r \in Gated
    /\ now + ResolvedTTL < MaxTime
    /\ approval' = [approval EXCEPT ![r] = "pending"]
    /\ requester' = [requester EXCEPT ![r] = IF u \in Humans THEN u ELSE NoActor]
    /\ expiresAt' = [expiresAt EXCEPT ![r] = now + ResolvedTTL]
    /\ UNCHANGED <<now, ttl, call, gateObsVars>>

-----------------------------------------------------------------------------
(* DecideApproval and CancelApproval.                                      *)

Permitted(u, o) == IF o = "cancel" THEN u \in Humans ELSE u \in Deciders

\* The call that actor u makes now with operation o on request r.
NewCall(u, o, r) ==
    [pc |-> "load", op |-> o, req |-> r, actor |-> u, began |-> now, result |-> "none"]

\* Mutant: the decision does not expire stale rows first.
BeginWithoutExpiry(c, u, o, r) ==
    /\ call[c] = NoCall
    /\ Permitted(u, o)
    /\ approval[r] \notin {"absent", "direct"}
    /\ call' = [call EXCEPT ![c] = NewCall(u, o, r)]
    /\ UNCHANGED <<now, ttl, approvalVars, gateObsVars>>

\* The permission check and the first statement, expirePending.
Begin(c, u, o, r) ==
    /\ call[c] = NoCall
    /\ Permitted(u, o)
    /\ approval[r] \notin {"absent", "direct"}
    /\ approval' = Expired
    /\ call' = [call EXCEPT ![c] = NewCall(u, o, r)]
    /\ UNCHANGED <<now, ttl, requester, expiresAt, gateObsVars>>

\* SELECT status: the friendly errors.
Load(c) ==
    LET r == call[c].req IN
    /\ call[c].pc = "load"
    /\ call' = [call EXCEPT ![c] =
                   IF /\ approval[r] = "pending"
                      /\ call[c].op = "cancel" => requester[r] = call[c].actor
                   THEN [@ EXCEPT !.pc = "update"] ELSE NoCall]
    /\ UNCHANGED <<now, ttl, approvalVars, gateObsVars>>

\* Mutant: the approval trusts the status it loaded.
ApproveLoaded(c) ==
    LET r == call[c].req IN
    /\ call[c].pc = "update"
    /\ call[c].op = "approve"
    /\ approval' = [approval EXCEPT ![r] = "executing"]
    /\ approver' = [approver EXCEPT ![r] = call[c].actor]
    /\ call' = [call EXCEPT ![c] = [@ EXCEPT !.pc = "execute"]]
    /\ UNCHANGED <<now, ttl, requester, expiresAt, runs, outcome>>

\* UPDATE ... SET status = 'executing' WHERE status = 'pending' RETURNING: only
\* the call that matches the row goes on to the handler.
Approve(c) ==
    LET r == call[c].req IN
    /\ call[c].pc = "update"
    /\ call[c].op = "approve"
    /\ IF approval[r] = "pending"
       THEN /\ approval' = [approval EXCEPT ![r] = "executing"]
            /\ approver' = [approver EXCEPT ![r] = call[c].actor]
            /\ call' = [call EXCEPT ![c] = [@ EXCEPT !.pc = "execute"]]
       ELSE /\ call' = [call EXCEPT ![c] = NoCall]
            /\ UNCHANGED <<approval, approver>>
    /\ UNCHANGED <<now, ttl, requester, expiresAt, runs, outcome>>

\* Mutant: the rejection trusts the status it loaded.
RejectLoaded(c) ==
    /\ call[c].pc = "update"
    /\ call[c].op = "reject"
    /\ call' = [call EXCEPT ![c] = NoCall]
    /\ approval' = [approval EXCEPT ![call[c].req] = "rejected"]
    /\ UNCHANGED <<now, ttl, requester, expiresAt, gateObsVars>>

\* The same UPDATE to 'rejected' ...
Reject(c) ==
    LET r == call[c].req IN
    /\ call[c].pc = "update"
    /\ call[c].op = "reject"
    /\ call' = [call EXCEPT ![c] = NoCall]
    /\ approval' = IF approval[r] = "pending" THEN [approval EXCEPT ![r] = "rejected"]
       ELSE approval
    /\ UNCHANGED <<now, ttl, requester, expiresAt, gateObsVars>>

\* ... and to 'cancelled'.
CancelPending(c) ==
    LET r == call[c].req IN
    /\ call[c].pc = "update"
    /\ call[c].op = "cancel"
    /\ call' = [call EXCEPT ![c] = NoCall]
    /\ approval' = IF approval[r] = "pending" THEN [approval EXCEPT ![r] = "cancelled"]
       ELSE approval
    /\ UNCHANGED <<now, ttl, requester, expiresAt, gateObsVars>>

\* The tool is looked up again, which may fail, and its handler called.
Execute(c) ==
    /\ call[c].pc = "execute"
    /\ \E res \in {"ok", "error"} :
          /\ \/ RunHandler(call[c].req, res)
             \/ res = "error" /\ UNCHANGED <<runs, outcome>>
          /\ call' = [call EXCEPT ![c] = [@ EXCEPT !.pc = "record", !.result = res]]
    /\ UNCHANGED <<now, ttl, approvalVars, approver>>

\* Mutant: the handler's error is dropped.
FinalExecuted(c) == "executed"

FinalStatus(c) == IF call[c].result = "ok" THEN "executed" ELSE "execution_failed"

\* UPDATE ... SET status = final WHERE status = 'executing'; when the write
\* fails the row stays as it is.
Record(c) ==
    LET r == call[c].req IN
    /\ call[c].pc = "record"
    /\ call' = [call EXCEPT ![c] = NoCall]
    /\ \/ /\ approval[r] = "executing"
          /\ approval' = [approval EXCEPT ![r] = FinalStatus(c)]
       \/ UNCHANGED approval
    /\ UNCHANGED <<now, ttl, requester, expiresAt, gateObsVars>>

\* The process crashes, the handler panics, or a statement fails: the call is
\* over wherever it was.
Abort(c) ==
    /\ call[c] # NoCall
    /\ call' = [call EXCEPT ![c] = NoCall]
    /\ UNCHANGED <<now, ttl, approvalVars, gateObsVars>>

-----------------------------------------------------------------------------

Call(c) ==
    \/ \E u \in Actors, o \in Ops, r \in Requests : Begin(c, u, o, r)
    \/ Load(c)
    \/ Approve(c)
    \/ Reject(c)
    \/ CancelPending(c)
    \/ Execute(c)
    \/ Record(c)
    \/ Abort(c)

GateNext ==
    \/ Tick
    \/ Sweep
    \/ SetTTL
    \/ \E u \in Actors, r \in Requests : ExecuteDirect(u, r) \/ CreateApproval(u, r)
    \/ \E c \in Calls : Call(c)

GateSpec == GateInit /\ [][GateNext]_gateVars

\* Time passes and the sweep runs every five minutes.
GateFairness == WF_gateVars(Tick) /\ WF_gateVars(Sweep)

GateFairSpec == GateSpec /\ GateFairness

-----------------------------------------------------------------------------
(* Properties.                                                             *)

\* "a tool can be executed at most once per approval" (tools.DecideApproval),
\* whatever calls, sweeps and crashes race.
AtMostOnce == \A r \in Gated : runs[r] <= 1

\* A privileged or critical tool runs only for an approval that a holder of
\* approvals.decide approved, and whose row says so from then on: what was
\* rejected, cancelled or has expired never runs.
OnlyApprovedRuns ==
    \A r \in Gated :
        runs[r] > 0 => approver[r] \in Deciders /\ approval[r] \in Approved

\* "how long a pending approval stays actionable before it's treated as
\* expired" (tools.defaultApprovalTTL): a decision that begins after the
\* deadline executes nothing.
NoLateDecision ==
    \A c \in Calls :
        call[c].pc \in {"execute", "record"} => call[c].began <= expiresAt[call[c].req]

\* A decision stands: a row that is no longer pending changes only from
\* 'executing' to the status that reports what its own handler did.  "There is
\* deliberately no code path that reclaims an 'executing' approval."
DecisionStands ==
    [][\A r \in Requests :
          approval[r] \notin {"absent", "pending"} /\ approval'[r] # approval[r] =>
             /\ approval[r] = "executing"
             /\ approval'[r] = IF outcome[r] = "ok" THEN "executed"
                ELSE "execution_failed"]_gateVars

\* An approval nobody decides does not stay pending forever: RunExpirySweep
\* expires it "independent of any request".
PendingEnds ==
    \A r \in Gated : approval[r] = "pending" ~> approval[r] # "pending"
==============================================================================
