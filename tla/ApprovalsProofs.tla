--------------------------- MODULE ApprovalsProofs ---------------------------
(***************************************************************************)
(* Proofs about Approvals, for any number of requests and of calls in      *)
(* flight and any TTLs: what holds of decisions that race with each other, *)
(* with cancellations, the clock, the expiry sweep and crashes.            *)
(***************************************************************************)
EXTENDS Approvals, TLAPS

Busy(c) == call[c].pc # "idle"
Owns(c) == call[c].pc \in {"execute", "record"}

\* Exactly the gated requests get a row of the approvals table, and a call is
\* about a row that exists.
RowsOfGated ==
    /\ \A r \in Gated : approval[r] # "direct"
    /\ \A r \in Requests : approval[r] \notin {"absent", "direct"} => r \in Gated
    /\ \A c \in Calls : Busy(c) => approval[call[c].req] \notin {"absent", "direct"}

\* The call that won the row's UPDATE owns it: the row is executing, and no
\* other call owns it.
OwnerExecutes ==
    /\ \A c \in Calls : Owns(c) => approval[call[c].req] = "executing"
    /\ \A c, d \in Calls : Owns(c) /\ Owns(d) /\ call[c].req = call[d].req => c = d

\* Nothing runs before the row is approved, nor before the owner calls the
\* handler; what the owner is about to record is what the handler answered.
RunOnce ==
    /\ \A r \in Gated : approval[r] \notin Approved => runs[r] = 0
    /\ \A c \in Calls : call[c].pc = "execute" => runs[call[c].req] = 0
    /\ \A r \in Gated : runs[r] = 0 => outcome[r] = "none"
    /\ \A c \in Calls :
          call[c].pc = "record" => (call[c].result = "ok" <=> outcome[call[c].req] = "ok")

\* Approving calls are made by deciders, and one of them approved each row.
DeciderApproved ==
    /\ \A c \in Calls : Busy(c) /\ call[c].op = "approve" => call[c].actor \in Deciders
    /\ \A r \in Gated : approval[r] \in Approved => approver[r] \in Deciders

\* A call that finds its row pending began before the deadline.
InTime ==
    \A c \in Calls :
        /\ Busy(c) /\ approval[call[c].req] = "pending" => call[c].began <= expiresAt[call[c].req]
        /\ Owns(c) => call[c].began <= expiresAt[call[c].req]

\* The inductive invariant.
AInv ==
    /\ GateTypeOK
    /\ RowsOfGated
    /\ OwnerExecutes
    /\ RunOnce
    /\ DeciderApproved
    /\ InTime
    /\ AtMostOnce

-----------------------------------------------------------------------------
(* Type correctness.                                                       *)

\* The first state has the shape of TypeOK.
LEMMA InitType == GateInit => GateTypeOK
  BY TimeAssumption DEF GateInit, GateTypeOK, ApprovalStatuses, CallType, NoCall, PCs, Results,
                        NoTTL

\* What a call in flight is, whatever its stage.
LEMMA CallFields ==
    ASSUME GateTypeOK, NEW c \in Calls, call[c].pc # "idle"
    PROVE  /\ call[c] \in CallType
           /\ call[c] # NoCall
           /\ call[c].req \in Requests
           /\ call[c].actor \in Actors
  BY DEF GateTypeOK, NoCall

\* Every action that only replaces the record of one call c, and keeps or ends
\* it, preserves the part of TypeOK about calls.
LEMMA CallUpdate ==
    ASSUME GateTypeOK, NEW c \in Calls, NEW v \in CallType,
           call' = [call EXCEPT ![c] = v],
           v = NoCall \/ (v.pc # "idle" /\ v.req \in Requests /\ v.actor \in Actors)
    PROVE  /\ call' \in [Calls -> CallType]
           /\ \A d \in Calls :
                 call'[d] # NoCall => /\ call'[d].pc # "idle"
                                     /\ call'[d].req \in Requests
                                     /\ call'[d].actor \in Actors
  BY DEF GateTypeOK

\* Every statement of a call, of the sweep and of the gateway keeps the shape.
LEMMA NextType == GateTypeOK /\ [GateNext]_gateVars => GateTypeOK'
  <1> SUFFICES ASSUME GateTypeOK, [GateNext]_gateVars PROVE GateTypeOK'
    OBVIOUS
  <1> USE TimeAssumption, ActorAssumption DEF approvalVars, gateObsVars
  <1>a. Expired \in [Requests -> ApprovalStatuses]
    BY DEF GateTypeOK, Expired, ApprovalStatuses
  <1>b. NoCall \in CallType
    BY DEF NoCall, CallType, PCs, Results
  <1>1. CASE Tick
    BY <1>1 DEF Tick, GateTypeOK
  <1>2. CASE Sweep
    BY <1>2, <1>a DEF Sweep, GateTypeOK
  <1>3. CASE SetTTL
    BY <1>3 DEF SetTTL, GateTypeOK
  <1>4. ASSUME NEW u \in Actors, NEW r \in Requests, ExecuteDirect(u, r) PROVE GateTypeOK'
    BY <1>4 DEF ExecuteDirect, RunHandler, GateTypeOK, ApprovalStatuses, Results
  <1>5. ASSUME NEW u \in Actors, NEW r \in Requests, CreateApproval(u, r) PROVE GateTypeOK'
    <2>1. now + ResolvedTTL \in Nat
      BY DEF GateTypeOK, ResolvedTTL
    <2> QED
      BY <1>5, <2>1 DEF CreateApproval, GateTypeOK, ApprovalStatuses
  <1>6. ASSUME NEW c \in Calls, NEW u \in Actors, NEW o \in Ops, NEW r \in Requests,
               Begin(c, u, o, r)
        PROVE  GateTypeOK'
    <2>1. /\ NewCall(u, o, r) \in CallType
          /\ NewCall(u, o, r).pc # "idle"
          /\ NewCall(u, o, r).req \in Requests
          /\ NewCall(u, o, r).actor \in Actors
      BY DEF NewCall, CallType, PCs, Results, GateTypeOK
    <2>2. call' = [call EXCEPT ![c] = NewCall(u, o, r)]
      BY <1>6 DEF Begin
    <2>3. /\ call' \in [Calls -> CallType]
          /\ \A d \in Calls :
                call'[d] # NoCall => /\ call'[d].pc # "idle"
                                    /\ call'[d].req \in Requests
                                    /\ call'[d].actor \in Actors
      BY <2>1, <2>2, CallUpdate
    <2> QED
      BY <1>6, <1>a, <2>3 DEF Begin, GateTypeOK
  <1>7. ASSUME NEW c \in Calls,
               \/ Load(c) \/ Approve(c) \/ Reject(c) \/ CancelPending(c)
               \/ Execute(c) \/ Record(c) \/ Abort(c)
        PROVE  GateTypeOK'
    <2>1. /\ call[c] \in CallType
          /\ call[c].pc # "idle"
          /\ call[c].req \in Requests
          /\ call[c].actor \in Actors
      BY <1>7, CallFields DEF Load, Approve, Reject, CancelPending, Execute, Record, Abort,
                              GateTypeOK
    <2>2. PICK v \in CallType :
            /\ call' = [call EXCEPT ![c] = v]
            /\ v = NoCall \/ (v.pc # "idle" /\ v.req \in Requests /\ v.actor \in Actors)
      <3>1. ASSUME NEW p \in PCs \ {"idle"}, NEW res \in Results
            PROVE  LET v == [call[c] EXCEPT !.pc = p, !.result = res] IN
                   v \in CallType /\ v.pc # "idle" /\ v.req \in Requests /\ v.actor \in Actors
        BY <2>1 DEF CallType
      <3>2. ASSUME NEW p \in PCs \ {"idle"}
            PROVE  LET v == [call[c] EXCEPT !.pc = p] IN
                   v \in CallType /\ v.pc # "idle" /\ v.req \in Requests /\ v.actor \in Actors
        BY <2>1 DEF CallType
      <3>3. CASE Load(c)
        BY <1>b, <3>2, <3>3 DEF Load, PCs, GateTypeOK
      <3>4. CASE Approve(c)
        BY <1>b, <3>2, <3>4 DEF Approve, PCs, GateTypeOK
      <3>5. CASE Execute(c)
        BY <3>1, <3>5 DEF Execute, PCs, Results, GateTypeOK
      <3>6. CASE Reject(c) \/ CancelPending(c) \/ Record(c) \/ Abort(c)
        BY <1>b, <3>6 DEF Reject, CancelPending, Record, Abort
      <3> QED
        BY <1>7, <3>3, <3>4, <3>5, <3>6
    <2>3. /\ call' \in [Calls -> CallType]
          /\ \A d \in Calls :
                call'[d] # NoCall => /\ call'[d].pc # "idle"
                                    /\ call'[d].req \in Requests
                                    /\ call'[d].actor \in Actors
      BY <2>2, CallUpdate
    <2>4. now' = now /\ ttl' = ttl /\ requester' = requester /\ expiresAt' = expiresAt
      BY <1>7 DEF Load, Approve, Reject, CancelPending, Execute, Record, Abort
    <2>5. approval' \in [Requests -> ApprovalStatuses]
      BY <1>7, <2>1 DEF Load, Approve, Reject, CancelPending, Execute, Record, FinalStatus,
                        Abort, ApprovalStatuses, GateTypeOK
    <2>6. /\ runs' \in [Requests -> Nat]
          /\ approver' \in [Requests -> Actors \cup {NoActor}]
          /\ outcome' \in [Requests -> Results]
      BY <1>7, <2>1 DEF Load, Approve, Reject, CancelPending, Execute, RunHandler, Record, Abort,
                        Results, GateTypeOK
    <2> QED
      BY <2>3, <2>4, <2>5, <2>6 DEF GateTypeOK
  <1>8. CASE UNCHANGED gateVars
    BY <1>8 DEF gateVars, GateTypeOK
  <1> QED
    BY <1>1, <1>2, <1>3, <1>4, <1>5, <1>6, <1>7, <1>8 DEF GateNext, Call

\* Every state of the gateway has the shape TypeOK: each call in flight has an
\* actor and a request, and the rows hold the statuses of the approvals table.
THEOREM TypeCorrect == GateSpec => []GateTypeOK
  <1> QED
    BY InitType, NextType, PTL DEF GateSpec

-----------------------------------------------------------------------------
(* The inductive invariant.                                                *)

\* With no row and no call there is nothing to own.
LEMMA InitInv == GateInit => AInv
  <1> SUFFICES ASSUME GateInit PROVE AInv
    OBVIOUS
  <1>1. GateTypeOK
    BY InitType
  <1>2. \A c \in Calls : call[c].pc = "idle"
    BY DEF GateInit, NoCall
  <1>3. \A r \in Gated : approval[r] = "absent" /\ runs[r] = 0 /\ outcome[r] = "none"
    BY ActorAssumption DEF GateInit
  <1>4. \A r \in Requests : approval[r] = "absent"
    BY DEF GateInit
  <1> QED
    BY <1>1, <1>2, <1>3, <1>4
    DEF AInv, RowsOfGated, OwnerExecutes, RunOnce, DeciderApproved, InTime, AtMostOnce,
        Busy, Owns, Approved

\* The clock, the TTL setting and the sweep, which only turns pending rows
\* into expired ones, own nothing and run nothing.
LEMMA EnvironmentInv == AInv /\ GateTypeOK' /\ (Tick \/ SetTTL \/ Sweep) => AInv'
  <1> SUFFICES ASSUME AInv, GateTypeOK', Tick \/ SetTTL \/ Sweep PROVE AInv'
    OBVIOUS
  <1> USE ActorAssumption
  <1>1. /\ requester' = requester /\ expiresAt' = expiresAt /\ call' = call
        /\ runs' = runs /\ approver' = approver /\ outcome' = outcome
    BY DEF Tick, SetTTL, Sweep, approvalVars, gateObsVars
  <1>2. \A r \in Requests :
          approval'[r] = approval[r] \/ (approval[r] = "pending" /\ approval'[r] = "expired")
    BY DEF Tick, SetTTL, Sweep, approvalVars, Expired, Due
  <1>3. \A c \in Calls : Busy(c) => call[c].req \in Requests
    BY CallFields DEF AInv, Busy
  <1>4. \A c \in Calls : (Busy(c)' <=> Busy(c)) /\ (Owns(c)' <=> Owns(c)) /\ (Owns(c) => Busy(c))
    BY <1>1 DEF Busy, Owns
  <1>5. RowsOfGated'
    BY <1>1, <1>2, <1>3, <1>4 DEF AInv, RowsOfGated
  <1>6. OwnerExecutes'
    BY <1>1, <1>2, <1>3, <1>4 DEF AInv, OwnerExecutes
  <1>7. RunOnce'
    BY <1>1, <1>2 DEF AInv, RunOnce, Approved
  <1>8. DeciderApproved'
    BY <1>1, <1>2, <1>4 DEF AInv, DeciderApproved, Approved
  <1>9. InTime'
    BY <1>1, <1>2, <1>3, <1>4 DEF AInv, InTime
  <1>10. AtMostOnce'
    BY <1>1 DEF AInv, AtMostOnce
  <1> QED
    BY <1>5, <1>6, <1>7, <1>8, <1>9, <1>10 DEF AInv

\* Execute touches a request that has no row yet, so no call is about it.
LEMMA GatewayInv ==
    ASSUME AInv, GateTypeOK', NEW u \in Actors, NEW r \in Requests,
           ExecuteDirect(u, r) \/ CreateApproval(u, r)
    PROVE  AInv'
  <1> USE ActorAssumption
  <1>1. /\ approval[r] = "absent"
        /\ call' = call /\ approver' = approver
        /\ \/ r \notin Gated /\ approval'[r] = "direct"
           \/ r \in Gated /\ approval'[r] = "pending"
        /\ \A q \in Requests : q # r => approval'[q] = approval[q] /\ expiresAt'[q] = expiresAt[q]
    BY DEF ExecuteDirect, CreateApproval, approvalVars, gateObsVars, AInv, GateTypeOK
  <1>2. \A q \in Gated : runs'[q] = runs[q] /\ outcome'[q] = outcome[q]
    BY DEF ExecuteDirect, RunHandler, CreateApproval, gateObsVars, AInv, GateTypeOK
  <1>3. \A c \in Calls : Busy(c) => call[c].req \in Requests /\ call[c].req # r
    BY <1>1, CallFields DEF AInv, Busy, RowsOfGated
  <1>4. \A c \in Calls : (Busy(c)' <=> Busy(c)) /\ (Owns(c)' <=> Owns(c)) /\ (Owns(c) => Busy(c))
    BY <1>1 DEF Busy, Owns
  <1>5. \A c \in Calls : Busy(c) => call[c].req \in Gated
    BY <1>3 DEF AInv, RowsOfGated
  <1>6. RowsOfGated'
    BY <1>1, <1>3, <1>4 DEF AInv, RowsOfGated
  <1>7. OwnerExecutes'
    BY <1>1, <1>3, <1>4 DEF AInv, OwnerExecutes
  <1>8. RunOnce'
    <2>1. \A q \in Gated : approval'[q] \notin Approved => runs'[q] = 0
      BY <1>1, <1>2 DEF AInv, RunOnce, Approved
    <2>2. \A c \in Calls : call[c].pc \in {"execute", "record"} => Busy(c)
      BY DEF Busy
    <2> QED
      BY <1>1, <1>2, <1>5, <2>1, <2>2 DEF AInv, RunOnce
  <1>9. DeciderApproved'
    BY <1>1, <1>4 DEF AInv, DeciderApproved, Approved
  <1>10. InTime'
    BY <1>1, <1>3, <1>4 DEF AInv, InTime
  <1>11. AtMostOnce'
    BY <1>2 DEF AInv, AtMostOnce
  <1> QED
    BY <1>6, <1>7, <1>8, <1>9, <1>10, <1>11 DEF AInv

\* A call begins by expiring what is overdue: if its row is still pending, the
\* deadline has not passed.
LEMMA BeginInv ==
    ASSUME AInv, GateTypeOK', NEW c \in Calls, NEW u \in Actors, NEW o \in Ops, NEW r \in Requests,
           Begin(c, u, o, r)
    PROVE  AInv'
  <1> USE ActorAssumption
  <1>1. /\ expiresAt' = expiresAt /\ runs' = runs /\ approver' = approver /\ outcome' = outcome
        /\ approval[r] \notin {"absent", "direct"}
        /\ call'[c] = NewCall(u, o, r)
        /\ \A d \in Calls : d # c => call'[d] = call[d]
    BY DEF Begin, gateObsVars, AInv, GateTypeOK
  <1>2. /\ call'[c].pc = "load" /\ call'[c].op = o /\ call'[c].req = r
        /\ call'[c].actor = u /\ call'[c].began = now
        /\ o = "approve" => u \in Deciders
    BY <1>1 DEF NewCall, Begin, Permitted
  <1>3. \A q \in Requests :
          /\ approval'[q] = approval[q] \/ (approval[q] = "pending" /\ approval'[q] = "expired")
          /\ approval'[q] = "pending" => ~ (expiresAt[q] < now)
    BY DEF Begin, Expired, Due
  <1>4. \A d \in Calls : Busy(d) => call[d].req \in Requests
    BY CallFields DEF AInv, Busy
  <1>5. /\ Busy(c)' /\ ~ Owns(c)'
        /\ \A d \in Calls :
              /\ d # c => (Busy(d)' <=> Busy(d)) /\ (Owns(d)' <=> Owns(d))
              /\ Owns(d) => Busy(d)
    BY <1>1, <1>2 DEF Busy, Owns
  <1>6. RowsOfGated'
    BY <1>1, <1>2, <1>3, <1>4, <1>5 DEF AInv, RowsOfGated
  <1>7. OwnerExecutes'
    BY <1>1, <1>3, <1>4, <1>5 DEF AInv, OwnerExecutes
  <1>8. RunOnce'
    BY <1>1, <1>2, <1>3 DEF AInv, RunOnce, Approved
  <1>9. DeciderApproved'
    BY <1>1, <1>2, <1>3, <1>5 DEF AInv, DeciderApproved, Approved
  <1>10. InTime'
    <2>1. now \in Nat /\ expiresAt[r] \in Nat
      BY TimeAssumption DEF AInv, GateTypeOK
    <2>2. approval'[r] = "pending" => call'[c].began <= expiresAt'[r]
      BY <1>1, <1>2, <1>3, <2>1
    <2> QED
      BY <1>1, <1>2, <1>3, <1>4, <1>5, <2>2 DEF AInv, InTime
  <1>11. AtMostOnce'
    BY <1>1 DEF AInv, AtMostOnce
  <1> QED
    BY <1>6, <1>7, <1>8, <1>9, <1>10, <1>11 DEF AInv

\* Load takes the call on to its UPDATE or ends it; Abort ends it.  A call
\* that ends may leave its row executing, and nobody else takes the row over.
LEMMA LoadAbortInv ==
    ASSUME AInv, GateTypeOK', NEW c \in Calls, Load(c) \/ Abort(c)
    PROVE  AInv'
  <1> USE ActorAssumption
  <1>1. /\ approval' = approval /\ expiresAt' = expiresAt
        /\ runs' = runs /\ approver' = approver /\ outcome' = outcome
        /\ \A d \in Calls : d # c => call'[d] = call[d]
        /\ \/ call'[c] = NoCall
           \/ call[c].pc = "load" /\ call'[c] = [call[c] EXCEPT !.pc = "update"]
    BY DEF Load, Abort, approvalVars, gateObsVars, AInv, GateTypeOK
  <1>2. \/ call'[c].pc = "idle"
        \/ /\ call[c].pc = "load" /\ call'[c].pc = "update"
           /\ call'[c].op = call[c].op /\ call'[c].req = call[c].req
           /\ call'[c].actor = call[c].actor /\ call'[c].began = call[c].began
    <2>1. call[c] \in CallType
      BY DEF AInv, GateTypeOK
    <2> QED
      BY <1>1, <2>1 DEF NoCall, CallType
  <1>3. /\ ~ Owns(c)' /\ (Busy(c)' => Busy(c))
        /\ \A d \in Calls : d # c => (Busy(d)' <=> Busy(d)) /\ (Owns(d)' <=> Owns(d))
    BY <1>1, <1>2 DEF Busy, Owns
  <1>4. RowsOfGated'
    BY <1>1, <1>2, <1>3 DEF AInv, RowsOfGated, Busy
  <1>5. OwnerExecutes'
    BY <1>1, <1>3 DEF AInv, OwnerExecutes
  <1>6. RunOnce'
    BY <1>1, <1>2 DEF AInv, RunOnce
  <1>7. DeciderApproved'
    BY <1>1, <1>2, <1>3 DEF AInv, DeciderApproved, Busy
  <1>8. InTime'
    BY <1>1, <1>2, <1>3 DEF AInv, InTime, Busy
  <1>9. AtMostOnce'
    BY <1>1 DEF AInv, AtMostOnce
  <1> QED
    BY <1>4, <1>5, <1>6, <1>7, <1>8, <1>9 DEF AInv

\* The UPDATE of an approval takes a pending row, which nobody owns and which
\* has not run.
LEMMA ApproveInv ==
    ASSUME AInv, GateTypeOK', NEW c \in Calls, Approve(c), approval[call[c].req] = "pending"
    PROVE  AInv'
  <1> USE ActorAssumption
  <1> DEFINE r == call[c].req
  <1>1. /\ Busy(c) /\ r \in Requests /\ r \in Gated /\ call[c].op = "approve"
        /\ call[c].actor \in Deciders
    <2>1. call[c].pc = "update" /\ call[c].op = "approve"
      BY DEF Approve
    <2> QED
      BY <2>1, CallFields DEF AInv, Busy, RowsOfGated, DeciderApproved
  <1>2. /\ expiresAt' = expiresAt /\ runs' = runs /\ outcome' = outcome
        /\ approval'[r] = "executing" /\ approver'[r] = call[c].actor
        /\ \A q \in Requests : q # r => approval'[q] = approval[q] /\ approver'[q] = approver[q]
        /\ \A d \in Calls : d # c => call'[d] = call[d]
        /\ call'[c].pc = "execute" /\ call'[c].op = call[c].op /\ call'[c].req = r
        /\ call'[c].actor = call[c].actor /\ call'[c].began = call[c].began
    <2>1. call[c] \in CallType
      BY DEF AInv, GateTypeOK
    <2> QED
      BY <1>1, <2>1 DEF Approve, AInv, GateTypeOK, CallType
  <1>3. \A d \in Calls : Busy(d) => call[d].req \in Requests /\ call[d].req \in Gated
    BY CallFields DEF AInv, Busy, RowsOfGated
  <1>4. /\ Owns(c)' /\ Busy(c)'
        /\ \A d \in Calls :
              /\ d # c => (Busy(d)' <=> Busy(d)) /\ (Owns(d)' <=> Owns(d))
              /\ Owns(d) => Busy(d)
    BY <1>2 DEF Busy, Owns
  <1>5. \A d \in Calls : Owns(d) => call[d].req # r
    BY DEF AInv, OwnerExecutes
  <1>6. RowsOfGated'
    BY <1>1, <1>2, <1>3, <1>4 DEF AInv, RowsOfGated
  <1>7. OwnerExecutes'
    BY <1>1, <1>2, <1>3, <1>4, <1>5 DEF AInv, OwnerExecutes
  <1>8. RunOnce'
    BY <1>1, <1>2 DEF AInv, RunOnce, Approved
  <1>9. DeciderApproved'
    BY <1>1, <1>2, <1>4 DEF AInv, DeciderApproved
  <1>10. InTime'
    BY <1>1, <1>2, <1>3, <1>4 DEF AInv, InTime
  <1>11. AtMostOnce'
    BY <1>2 DEF AInv, AtMostOnce
  <1> QED
    BY <1>6, <1>7, <1>8, <1>9, <1>10, <1>11 DEF AInv

\* A refusal, an approval that lost its row and the final write end the call;
\* they change a row only from pending to a refusal, or from executing to the
\* status its owner reports.
LEMMA EndCallInv ==
    ASSUME AInv, GateTypeOK', NEW c \in Calls,
           \/ Reject(c) \/ CancelPending(c)
           \/ Approve(c) /\ approval[call[c].req] # "pending"
           \/ Record(c)
    PROVE  AInv'
  <1> USE ActorAssumption
  <1> DEFINE r == call[c].req
  <1>1. Busy(c) /\ r \in Requests /\ r \in Gated
    <2>1. call[c].pc # "idle"
      BY DEF Reject, CancelPending, Approve, Record
    <2> QED
      BY <2>1, CallFields DEF AInv, Busy, RowsOfGated
  <1>2. /\ expiresAt' = expiresAt /\ runs' = runs /\ outcome' = outcome /\ approver' = approver
        /\ call'[c].pc = "idle"
        /\ \A d \in Calls : d # c => call'[d] = call[d]
    BY DEF Reject, CancelPending, Approve, Record, gateObsVars, AInv, GateTypeOK, NoCall
  <1>3. /\ \A q \in Requests : q # r => approval'[q] = approval[q]
        /\ \/ approval'[r] = approval[r]
           \/ approval[r] = "pending" /\ approval'[r] \in {"rejected", "cancelled"}
           \/ Owns(c) /\ approval[r] = "executing" /\ approval'[r] \in {"executed", "execution_failed"}
    BY <1>1 DEF Reject, CancelPending, Approve, Record, FinalStatus, AInv, GateTypeOK, Owns
  <1>4. /\ ~ Owns(c)' /\ ~ Busy(c)'
        /\ \A d \in Calls :
              /\ d # c => (Busy(d)' <=> Busy(d)) /\ (Owns(d)' <=> Owns(d))
              /\ Owns(d) => Busy(d)
    BY <1>2 DEF Busy, Owns
  <1>5. \A d \in Calls : Busy(d) => call[d].req \in Requests
    BY CallFields DEF AInv, Busy
  <1>6. RowsOfGated'
    BY <1>1, <1>2, <1>3, <1>4, <1>5 DEF AInv, RowsOfGated
  <1>7. OwnerExecutes'
    BY <1>1, <1>2, <1>3, <1>4, <1>5 DEF AInv, OwnerExecutes
  <1>8. RunOnce'
    BY <1>1, <1>2, <1>3 DEF AInv, RunOnce, Approved
  <1>9. DeciderApproved'
    BY <1>1, <1>2, <1>3, <1>4 DEF AInv, DeciderApproved, Approved
  <1>10. InTime'
    BY <1>1, <1>2, <1>3, <1>4, <1>5 DEF AInv, InTime
  <1>11. AtMostOnce'
    BY <1>2 DEF AInv, AtMostOnce
  <1> QED
    BY <1>6, <1>7, <1>8, <1>9, <1>10, <1>11 DEF AInv

\* Only the owner calls the handler, and it had not been called.
LEMMA ExecuteInv ==
    ASSUME AInv, GateTypeOK', NEW c \in Calls, Execute(c)
    PROVE  AInv'
  <1> USE ActorAssumption
  <1> DEFINE r == call[c].req
  <1>1. /\ Busy(c) /\ Owns(c) /\ r \in Requests /\ r \in Gated
        /\ approval[r] = "executing" /\ runs[r] = 0 /\ outcome[r] = "none"
    <2>1. call[c].pc = "execute"
      BY DEF Execute
    <2> QED
      BY <2>1, CallFields DEF AInv, Busy, Owns, RowsOfGated, OwnerExecutes, RunOnce
  <1>2. PICK res \in {"ok", "error"} :
          /\ \/ RunHandler(r, res)
             \/ res = "error" /\ UNCHANGED <<runs, outcome>>
          /\ call' = [call EXCEPT ![c] = [@ EXCEPT !.pc = "record", !.result = res]]
    BY DEF Execute
  <1>3. /\ approval' = approval /\ expiresAt' = expiresAt /\ approver' = approver
        /\ \A d \in Calls : d # c => call'[d] = call[d]
        /\ call'[c].pc = "record" /\ call'[c].op = call[c].op /\ call'[c].req = r
        /\ call'[c].actor = call[c].actor /\ call'[c].began = call[c].began
        /\ call'[c].result = res
    <2>1. call[c] \in CallType
      BY DEF AInv, GateTypeOK
    <2> QED
      BY <1>2, <2>1 DEF Execute, approvalVars, AInv, GateTypeOK, CallType
  <1>4. /\ \A q \in Requests : q # r => runs'[q] = runs[q] /\ outcome'[q] = outcome[q]
        /\ \/ runs'[r] = 1 /\ outcome'[r] = res
           \/ runs'[r] = 0 /\ outcome'[r] = "none" /\ res = "error"
    BY <1>1, <1>2 DEF RunHandler, AInv, GateTypeOK
  <1>5. \A d \in Calls : Busy(d) => call[d].req \in Requests
    BY CallFields DEF AInv, Busy
  <1>6. /\ Owns(c)' /\ Busy(c)'
        /\ \A d \in Calls :
              /\ d # c => (Busy(d)' <=> Busy(d)) /\ (Owns(d)' <=> Owns(d))
              /\ Owns(d) => Busy(d)
              /\ Owns(d) /\ d # c => call[d].req # r
    BY <1>1, <1>3 DEF Busy, Owns, AInv, OwnerExecutes
  <1>7. RowsOfGated'
    BY <1>1, <1>3, <1>6 DEF AInv, RowsOfGated
  <1>8. OwnerExecutes'
    BY <1>1, <1>3, <1>6 DEF AInv, OwnerExecutes
  <1>9. RunOnce'
    <2>1. \A q \in Gated : /\ approval'[q] \notin Approved => runs'[q] = 0
                           /\ runs'[q] = 0 => outcome'[q] = "none"
      BY <1>1, <1>3, <1>4 DEF AInv, RunOnce, Approved
    <2>2. ASSUME NEW d \in Calls, call'[d].pc = "execute" PROVE runs'[call'[d].req] = 0
      <3>1. d # c /\ Owns(d) /\ call'[d] = call[d]
        BY <1>3, <2>2 DEF Owns
      <3> QED
        BY <1>4, <1>5, <1>6, <2>2, <3>1 DEF AInv, RunOnce
    <2>3. ASSUME NEW d \in Calls, call'[d].pc = "record"
          PROVE  call'[d].result = "ok" <=> outcome'[call'[d].req] = "ok"
      <3>1. CASE d = c
        BY <1>3, <1>4, <3>1
      <3>2. CASE d # c
        <4>1. Owns(d) /\ call'[d] = call[d]
          BY <1>3, <2>3, <3>2 DEF Owns
        <4> QED
          BY <1>4, <1>5, <1>6, <2>3, <3>2, <4>1 DEF AInv, RunOnce
      <3> QED
        BY <3>1, <3>2
    <2> QED
      BY <2>1, <2>2, <2>3 DEF RunOnce
  <1>10. DeciderApproved'
    BY <1>1, <1>3, <1>6 DEF AInv, DeciderApproved
  <1>11. InTime'
    BY <1>1, <1>3, <1>6 DEF AInv, InTime
  <1>12. AtMostOnce'
    BY <1>1, <1>4 DEF AInv, AtMostOnce
  <1> QED
    BY <1>7, <1>8, <1>9, <1>10, <1>11, <1>12 DEF AInv

\* Every step of the gateway preserves the inductive invariant.
LEMMA NextInv == AInv /\ [GateNext]_gateVars => AInv'
  <1> SUFFICES ASSUME AInv, [GateNext]_gateVars PROVE AInv'
    OBVIOUS
  <1>0. GateTypeOK'
    BY NextType DEF AInv
  <1>1. CASE Tick \/ SetTTL \/ Sweep
    BY <1>0, <1>1, EnvironmentInv
  <1>2. ASSUME NEW u \in Actors, NEW r \in Requests, ExecuteDirect(u, r) \/ CreateApproval(u, r)
        PROVE  AInv'
    BY <1>0, <1>2, GatewayInv
  <1>3. ASSUME NEW c \in Calls, Call(c) PROVE AInv'
    <2>1. CASE \E u \in Actors, o \in Ops, r \in Requests : Begin(c, u, o, r)
      BY <1>0, <2>1, BeginInv
    <2>2. CASE Load(c) \/ Abort(c)
      BY <1>0, <2>2, LoadAbortInv
    <2>3. CASE Approve(c) /\ approval[call[c].req] = "pending"
      BY <1>0, <2>3, ApproveInv
    <2>4. CASE Reject(c) \/ CancelPending(c) \/ (Approve(c) /\ approval[call[c].req] # "pending") \/ Record(c)
      BY <1>0, <2>4, EndCallInv
    <2>5. CASE Execute(c)
      BY <1>0, <2>5, ExecuteInv
    <2> QED
      BY <1>3, <2>1, <2>2, <2>3, <2>4, <2>5 DEF Call
  <1>4. CASE UNCHANGED gateVars
    BY <1>0, <1>4 DEF gateVars, approvalVars, gateObsVars, AInv, RowsOfGated, OwnerExecutes,
                      RunOnce, DeciderApproved, InTime, AtMostOnce, Busy, Owns
  <1> QED
    BY <1>1, <1>2, <1>3, <1>4 DEF GateNext

\* The inductive invariant holds of every behaviour: the ownership that the
\* conditional UPDATE of DecideApproval grants is never shared or taken over.
THEOREM Invariance == GateSpec => []AInv
  <1> QED
    BY InitInv, NextInv, PTL DEF GateSpec

-----------------------------------------------------------------------------
(* What follows from it.                                                   *)

\* A tool is executed at most once per approval, however many decisions,
\* cancellations, sweeps and crashes race.
THEOREM AtMostOnceHolds == GateSpec => []AtMostOnce
  <1>1. AInv => AtMostOnce
    BY DEF AInv
  <1> QED
    BY Invariance, <1>1, PTL

\* A gated tool that ran was approved by a holder of approvals.decide and its
\* row says so: what was rejected, cancelled or has expired never runs.
THEOREM OnlyApprovedRunsHolds == GateSpec => []OnlyApprovedRuns
  <1>1. AInv => OnlyApprovedRuns
    <2> SUFFICES ASSUME AInv, NEW r \in Gated, runs[r] > 0
                 PROVE  approver[r] \in Deciders /\ approval[r] \in Approved
      BY DEF OnlyApprovedRuns
    <2>1. approval[r] \in Approved
      BY DEF AInv, RunOnce
    <2> QED
      BY <2>1 DEF AInv, DeciderApproved
  <1> QED
    BY Invariance, <1>1, PTL

\* A decision that begins after the deadline of its approval executes nothing.
THEOREM NoLateDecisionHolds == GateSpec => []NoLateDecision
  <1>1. AInv => NoLateDecision
    BY DEF AInv, InTime, Owns, NoLateDecision
  <1> QED
    BY Invariance, <1>1, PTL

\* A row that is no longer pending changes only from executing to the status
\* that reports what its own handler did.
THEOREM DecisionStandsHolds == GateSpec => DecisionStands
  <1> DEFINE Stands ==
        \A r \in Requests :
          approval[r] \notin {"absent", "pending"} /\ approval'[r] # approval[r] =>
             /\ approval[r] = "executing"
             /\ approval'[r] = IF outcome[r] = "ok" THEN "executed" ELSE "execution_failed"
  <1>1. ASSUME AInv, [GateNext]_gateVars PROVE [Stands]_gateVars
    <2> SUFFICES ASSUME GateNext, NEW r \in Requests, approval[r] \notin {"absent", "pending"},
                        approval'[r] # approval[r]
                 PROVE  /\ approval[r] = "executing"
                        /\ approval'[r] = IF outcome[r] = "ok" THEN "executed"
                                        ELSE "execution_failed"
      BY <1>1
    <2>0. GateTypeOK
      BY <1>1 DEF AInv
    <2>1. ~ (Tick \/ SetTTL \/ Sweep)
      BY DEF Tick, SetTTL, Sweep, approvalVars, Expired, Due
    <2>2. ASSUME NEW u \in Actors, NEW q \in Requests
                 PROVE ~ ExecuteDirect(u, q) /\ ~ CreateApproval(u, q)
      BY <2>0 DEF ExecuteDirect, CreateApproval, GateTypeOK
    <2>3. ASSUME NEW c \in Calls, NEW u \in Actors, NEW o \in Ops, NEW q \in Requests
          PROVE  ~ Begin(c, u, o, q)
      BY DEF Begin, Expired, Due
    <2>4. ASSUME NEW c \in Calls


                        PROVE  ~ (Load(c) \/ Approve(c) \/ Reject(c) \/ CancelPending(c) \/ Execute(c) \/ Abort(c))
      <3>1. ~ (Load(c) \/ Execute(c) \/ Abort(c))
        BY DEF Load, Execute, Abort, approvalVars
      <3> QED
        BY <2>0, <3>1 DEF Approve, Reject, CancelPending, GateTypeOK
    <2>5. PICK c \in Calls : Record(c)
      BY <2>1, <2>2, <2>3, <2>4 DEF GateNext, Call
    <2>6. /\ call[c].pc = "record" /\ call[c].req = r
          /\ approval[r] = "executing" /\ approval'[r] = FinalStatus(c)
      BY <2>0, <2>5 DEF Record, GateTypeOK
    <2>7. call[c].result = "ok" <=> outcome[r] = "ok"
      BY <1>1, <2>6 DEF AInv, RunOnce
    <2> QED
      BY <2>6, <2>7 DEF FinalStatus
  <1> QED
    BY <1>1, Invariance, PTL DEF GateSpec, DecisionStands
==============================================================================
