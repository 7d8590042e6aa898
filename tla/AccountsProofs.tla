--------------------------- MODULE AccountsProofs ---------------------------
(***************************************************************************)
(* Proofs about what people and AI agents may do, for any bounds: password *)
(* resets (Sessions), members and their grants (Members), AI plans (Plans) *)
(* and AI agents (Agents).                                                 *)
(***************************************************************************)
EXTENDS Sessions, Members, Plans, Agents, TLAPS

-----------------------------------------------------------------------------
(* Sessions: a reset link sets the password at most once.                  *)

\* A link has set the password only if it is used.
UsedOnce == \A l \in LinkIds : resets[l] <= IF link[l] = "used" THEN 1 ELSE 0

\* The client that is about to reset holds the lock of an open link.
ResetLocked ==
    \A c \in Clients : client[c].pc = "reset" =>
        holder = c /\ client[c].id \in LinkIds /\ link[client[c].id] \in {"fresh", "expired"}

SessInv == SessTypeOK /\ UsedOnce /\ ResetLocked

ClientRecs == [pc: {"idle", "session", "keep", "change", "others", "link", "reset"},
               id: 0..(MaxSessions + MaxLinks), verified: 0..MaxPasswords]

\* Revoking keeps the shape of the sessions table.
LEMMA RevokedType ==
    ASSUME SessTypeOK, NEW kept
    PROVE  RevokedBut(kept) \in [SessionIds -> [status: {"none", "live", "expired", "revoked"},
                                                under: 0..MaxPasswords]]
  BY DEF RevokedBut, SessTypeOK

\* A step of the sessions table leaves the reset links alone, and no new
\* request is a reset.
LEMMA NoReset ==
    ASSUME SessInv, UNCHANGED <<link, holder, resets>>,
           \A c \in Clients : client'[c].pc = "reset" => client'[c] = client[c]
    PROVE  UsedOnce' /\ ResetLocked'
  BY DEF SessInv, UsedOnce, ResetLocked

\* A request changes what it is about to do, to one that is no reset.
LEMMA RequestMoves ==
    ASSUME SessInv, NEW c \in Clients, NEW r \in ClientRecs, r.pc # "reset", Goes(c, r)
    PROVE  /\ client' \in [Clients -> ClientRecs]
           /\ \A d \in Clients : client'[d].pc = "reset" => client'[d] = client[d] /\ d # c
  BY DEF SessInv, SessTypeOK, Goes, ClientRecs

\* Every step keeps the invariant.
LEMMA SessStep == SessInv /\ [SessNext]_sessVars => SessInv'
  <1> SUFFICES ASSUME SessInv, [SessNext]_sessVars PROVE SessInv'
    OBVIOUS
  <1>t. SessTypeOK /\ UsedOnce /\ ResetLocked /\ client \in [Clients -> ClientRecs]
    BY DEF SessInv, SessTypeOK, ClientRecs
  <1>a. SessionIds \cup LinkIds \cup {0} \subseteq 0..(MaxSessions + MaxLinks)
    BY SessionsAssumption DEF SessionIds, LinkIds
  <1>b. password \in 0..MaxPasswords /\ 0 \in 0..MaxPasswords
    BY <1>t, SessionsAssumption DEF SessTypeOK
  <1>r. Resting \in ClientRecs /\ Resting.pc = "idle"
    BY <1>a, <1>b DEF Resting, ClientRecs
  <1>1. CASE UNCHANGED sessVars
    BY <1>t, <1>1 DEF sessVars, SessInv, SessTypeOK, UsedOnce, ResetLocked
  <1>2. CASE SignUp
    <2>1. SessTypeOK'
      BY <1>t, <1>2, SessionsAssumption DEF SignUp, SessTypeOK
    <2> QED
      BY <1>2, <2>1, NoReset DEF SignUp, SessInv
  <1>3. CASE \E s \in SessionIds : EndSession(s) \/ ExpireSession(s)
    <2>0. PICK s \in SessionIds : EndSession(s) \/ ExpireSession(s)
      BY <1>3
    <2>1. PICK to \in {"expired", "revoked"} :
              session' = [session EXCEPT ![s].status = to]
      BY <2>0 DEF EndSession, ExpireSession
    <2>2. UNCHANGED <<password, link, holder, client, resets>>
      BY <2>0 DEF EndSession, ExpireSession
    <2>3. [session[s] EXCEPT !.status = to] \in [status: {"none", "live", "expired", "revoked"},
                                                under: 0..MaxPasswords]
      BY <1>t DEF SessTypeOK
    <2>4. SessTypeOK'
      BY <1>t, <2>1, <2>2, <2>3 DEF SessTypeOK
    <2> QED
      BY <2>2, <2>4, NoReset DEF SessInv
  <1>4. CASE \E l \in LinkIds : ExpireLink(l)
    BY <1>t, <1>4 DEF ExpireLink, SessInv, SessTypeOK, UsedOnce, ResetLocked
  <1>5. ASSUME NEW c \in Clients,
               \/ LoginVerify(c) \/ ChangeResolve(c)
               \/ \E s \in SessionIds : OthersResolve(c, s)
               \/ \E s \in SessionIds \cup {NoSession} : ChangeVerify(c, s)
        PROVE  SessInv'
    <2>1. PICK r \in ClientRecs : r.pc # "reset" /\ Goes(c, r)
      <3>1. client[c] \in ClientRecs
        BY <1>t
      <3>2. CASE LoginVerify(c)
        <4>1. [Resting EXCEPT !.pc = "session", !.verified = password] \in ClientRecs
          BY <1>a, <1>b DEF Resting, ClientRecs
        <4>2. [Resting EXCEPT !.pc = "session", !.verified = password].pc = "session"
          BY DEF Resting
        <4> QED
          BY <3>2, <4>1, <4>2 DEF LoginVerify
      <3>3. CASE ChangeResolve(c)
        <4> DEFINE r == [client[c] EXCEPT !.pc = "change",
                              !.id = IF Usable(client[c].id) THEN client[c].id ELSE NoSession]
        <4>1. r \in ClientRecs /\ r.pc = "change"
          BY <3>1, <1>a DEF ClientRecs, NoSession
        <4> QED
          BY <3>3, <4>1 DEF ChangeResolve
      <3>4. CASE \E s \in SessionIds : OthersResolve(c, s)
        <4>1. PICK s \in SessionIds : OthersResolve(c, s)
          BY <3>4
        <4> DEFINE r == [Resting EXCEPT !.pc = "others", !.id = s]
        <4>2. r \in ClientRecs /\ r.pc = "others"
          BY <1>a, <1>b DEF Resting, ClientRecs
        <4> QED
          BY <4>1, <4>2 DEF OthersResolve
      <3>5. CASE \E s \in SessionIds \cup {NoSession} : ChangeVerify(c, s)
        <4>1. PICK s \in SessionIds \cup {NoSession} : ChangeVerify(c, s)
          BY <3>5
        <4> DEFINE r == [Resting EXCEPT !.pc = "keep", !.id = s, !.verified = password]
        <4>2. r \in ClientRecs /\ r.pc = "keep"
          BY <1>a, <1>b DEF Resting, ClientRecs, NoSession
        <4> QED
          BY <4>1, <4>2 DEF ChangeVerify
      <3> QED
        BY <1>5, <3>2, <3>3, <3>4, <3>5
    <2>2. UNCHANGED <<password, session, link, holder, resets>>
      BY <1>5 DEF LoginVerify, ChangeResolve, OthersResolve, ChangeVerify
    <2>3. client' \in [Clients -> ClientRecs]
      BY <2>1, RequestMoves
    <2>4. SessTypeOK'
      BY <1>t, <2>2, <2>3 DEF SessTypeOK, ClientRecs
    <2>5. UsedOnce' /\ ResetLocked'
      BY <2>1, <2>2, RequestMoves, NoReset
    <2> QED
      BY <2>4, <2>5 DEF SessInv
  <1>6. ASSUME NEW c \in Clients, LoginInsert(c) \/ OthersRevoke(c) \/ ChangeCommit(c)
        PROVE  SessInv'
    <2>1. Goes(c, Resting) /\ UNCHANGED <<link, holder, resets>>
      BY <1>6 DEF LoginInsert, OthersRevoke, ChangeCommit, Leaves
    <2>2. client' \in [Clients -> ClientRecs]
      BY <1>r, <2>1, RequestMoves
    <2>3. password' \in 0..MaxPasswords
      BY <1>6, <1>t, SessionsAssumption DEF LoginInsert, OthersRevoke, ChangeCommit, SessTypeOK
    <2>4. session' \in [SessionIds -> [status: {"none", "live", "expired", "revoked"},
                                       under: 0..MaxPasswords]]
      <3>1. client[c].verified \in 0..MaxPasswords
        BY <1>t DEF ClientRecs
      <3> QED
        BY <1>6, <1>t, <3>1, RevokedType DEF LoginInsert, OthersRevoke, ChangeCommit, SessTypeOK
    <2>5. SessTypeOK'
      BY <1>t, <2>1, <2>2, <2>3, <2>4 DEF SessTypeOK, ClientRecs
    <2>6. UsedOnce' /\ ResetLocked'
      BY <1>r, <2>1, RequestMoves, NoReset
    <2> QED
      BY <2>5, <2>6 DEF SessInv
  <1>7. ASSUME NEW c \in Clients, SpendLinks(c) PROVE SessInv'
    <2>1. \A d \in Clients : client[d].pc # "reset"
      BY <1>7, <1>t DEF SpendLinks, ResetLocked, Clients, NoClient
    <2> DEFINE r == [Resting EXCEPT !.pc = "link"]
    <2>2. r \in ClientRecs /\ r.pc = "link"
      BY SessionsAssumption DEF Resting, ClientRecs
    <2>3. Goes(c, r)
      BY <1>7 DEF SpendLinks
    <2> HIDE DEF r
    <2>4. client' \in [Clients -> ClientRecs] /\ \A d \in Clients : client'[d].pc # "reset"
      BY <2>1, <2>2, <2>3, RequestMoves
    <2>5. link' \in [LinkIds -> {"none", "fresh", "expired", "used"}]
          /\ \A l \in LinkIds : link[l] = "used" => link'[l] = "used"
      BY <1>7, <1>t DEF SpendLinks, SessTypeOK
    <2>6. UNCHANGED <<password, session, holder, resets>>
      BY <1>7 DEF SpendLinks
    <2>7. SessTypeOK'
      BY <1>t, <2>4, <2>5, <2>6 DEF SessTypeOK, ClientRecs
    <2> QED
      BY <1>t, <2>4, <2>5, <2>6, <2>7 DEF SessInv, SessTypeOK, UsedOnce, ResetLocked
  <1>8. ASSUME NEW c \in Clients, InsertLink(c) PROVE SessInv'
    <2>1. PICK l \in LinkIds : link[l] = "none" /\ link' = [link EXCEPT ![l] = "fresh"]
      BY <1>8 DEF InsertLink
    <2>2. Goes(c, Resting) /\ UNCHANGED <<password, session, holder, resets>>
      BY <1>8 DEF InsertLink, Leaves
    <2>3. /\ client' \in [Clients -> ClientRecs]
          /\ \A d \in Clients : client'[d].pc = "reset" => client'[d] = client[d]
      BY <1>r, <2>2, RequestMoves
    <2>4. SessTypeOK'
      BY <1>t, <2>1, <2>2, <2>3 DEF SessTypeOK, ClientRecs
    <2>5. UsedOnce'
      BY <1>t, <2>1, <2>2 DEF SessTypeOK, UsedOnce
    <2>6. ResetLocked'
      BY <1>t, <2>1, <2>2, <2>3 DEF SessTypeOK, ResetLocked
    <2> QED
      BY <2>4, <2>5, <2>6 DEF SessInv
  <1>9. ASSUME NEW c \in Clients, NEW l \in LinkIds, ResetSelect(c, l) PROVE SessInv'
    <2> DEFINE r == [Resting EXCEPT !.pc = "reset", !.id = l]
    <2>1. r \in ClientRecs /\ r.id = l
      BY <1>a, <1>b DEF Resting, ClientRecs
    <2>2. client' = [client EXCEPT ![c] = r]
      BY <1>9 DEF ResetSelect, Goes
    <2>3. /\ link[l] = "fresh" /\ holder = NoClient /\ holder' = c
          /\ UNCHANGED <<password, session, link, resets>>
      BY <1>9 DEF ResetSelect, LockLink
    <2> HIDE DEF r
    <2>4. \A d \in Clients : client[d].pc # "reset"
      BY <1>t, <2>3 DEF ResetLocked, Clients, NoClient
    <2>5. SessTypeOK'
      BY <1>t, <2>1, <2>2, <2>3 DEF SessTypeOK, ClientRecs
    <2>6. ResetLocked'
      BY <1>t, <2>1, <2>2, <2>3, <2>4 DEF ResetLocked
    <2> QED
      BY <1>t, <2>3, <2>5, <2>6 DEF SessInv, UsedOnce
  <1>10. ASSUME NEW c \in Clients, ResetCommit(c) PROVE SessInv'
    <2>1. PICK l \in LinkIds : l = client[c].id
      BY <1>10, <1>t DEF ResetCommit, Doing, ResetLocked
    <2>2. holder = c /\ link[l] \in {"fresh", "expired"} /\ resets[l] <= 0
      BY <1>10, <1>t, <2>1 DEF ResetCommit, Doing, ResetLocked, UsedOnce
    <2>3. /\ link' = [link EXCEPT ![l] = "used"] /\ resets' = [resets EXCEPT ![l] = @ + 1]
          /\ holder' = NoClient /\ Goes(c, Resting) /\ password' = password + 1
          /\ password < MaxPasswords /\ session' = RevokedBut(NoSession)
      BY <1>10, <2>1 DEF ResetCommit, Leaves
    <2>4. client' \in [Clients -> ClientRecs] /\ \A d \in Clients : client'[d].pc # "reset"
      BY <1>r, <1>t, <2>2, <2>3, RequestMoves DEF ResetLocked
    <2>5. SessTypeOK'
      BY <1>t, <2>3, <2>4, RevokedType, SessionsAssumption DEF SessTypeOK, ClientRecs
    <2>6. UsedOnce'
      BY <1>t, <2>2, <2>3 DEF UsedOnce, SessTypeOK
    <2> QED
      BY <2>4, <2>5, <2>6 DEF SessInv, ResetLocked
  <1>11. ASSUME NEW c \in Clients, Abandon(c) PROVE SessInv'
    <2>1. /\ Goes(c, Resting) /\ UNCHANGED <<password, session, link, resets>>
          /\ holder' = IF holder = c THEN NoClient ELSE holder
      BY <1>11 DEF Abandon, Leaves
    <2>2. /\ client' \in [Clients -> ClientRecs]
          /\ \A d \in Clients : client'[d].pc = "reset" => client'[d] = client[d] /\ d # c
      BY <1>r, <2>1, RequestMoves
    <2>3. SessTypeOK'
      BY <1>t, <2>1, <2>2 DEF SessTypeOK, ClientRecs
    <2>4. UsedOnce' /\ ResetLocked'
      BY <1>t, <2>1, <2>2 DEF UsedOnce, ResetLocked
    <2> QED
      BY <2>3, <2>4 DEF SessInv
  <1> QED
    BY <1>1, <1>2, <1>3, <1>4, <1>5, <1>6, <1>7, <1>8, <1>9, <1>10, <1>11 DEF SessNext

\* The first state: no account, no session, no link.
LEMMA SessStart == SessInit => SessInv
  <1> SUFFICES ASSUME SessInit PROVE SessInv
    OBVIOUS
  <1>1. Resting \in ClientRecs /\ Resting.pc = "idle"
    BY SessionsAssumption DEF Resting, ClientRecs
  <1>2. SessTypeOK
    BY <1>1, SessionsAssumption DEF SessInit, SessTypeOK, ClientRecs
  <1> QED
    BY <1>1, <1>2 DEF SessInit, SessInv, UsedOnce, ResetLocked

\* However many requests use it at the same time, a reset link sets the
\* password at most once.
THEOREM ResetOnceHolds == SessSpec => []ResetOnce
  <1>1. SessInv => ResetOnce
    BY DEF SessInv, UsedOnce, ResetOnce, SessTypeOK
  <1> QED
    BY <1>1, SessStart, SessStep, PTL DEF SessSpec

-----------------------------------------------------------------------------
(* Members: an organisation that nobody may manage stays so.               *)

Owners == Users \cup {NoUser, Account}
TokenRecs == [status: {"none", "live", "revoked", "deleted"}, owner: Owners, scopes: SUBSET Perms]
CallRecs == [pc: Pcs, actor: Owners, perms: SUBSET Perms, user: Users \cup {NoUser},
             role: RoleNames \cup {"none"}]
CustomRecs == [exists: BOOLEAN, perms: SUBSET Perms]

\* A request that is about to assign a role may manage the organisation.
AssignsInHand == \A c \in Callers : caller[c].pc = "assign" => Manages(caller[c].perms)

MemInv == MemTypeOK /\ AssignsInHand

\* A request is one of those under way again, or is answered.
LEMMA CallerWriters ==
    MemNext => \/ UNCHANGED <<caller, requestsMade>>
               \/ \E c \in Callers :
                     \/ Answered(c)
                     \/ RemoveCount(c) \/ DeleteRoleCheck(c) \/ AccountTokenCheck(c) \/ DeleteAccountCheck(c)
                     \/ \E u \in Users : \/ AuthSession(c, u) \/ RemoveIsOwner(c, u) \/ RevokeAdminCheck(c, u)
                                         \/ \E r \in RoleNames : AssignCheck(c, u, r)
                     \/ \E t \in TokenIds : AuthToken(c, t)
                     \/ \E P \in SUBSET Perms : UpdateRoleCheck(c, P)
  <1>1. ASSUME NEW c \in Callers,
               \/ Refused(c) \/ RemoveDelete(c) \/ AssignInsert(c) \/ DeleteRole(c)
               \/ RevokeAdmin(c) \/ DeleteOrganization(c) \/ UpdateRolePermissions(c)
        PROVE  Answered(c)
    BY <1>1, Zenon DEF Refused, RemoveDelete, AssignInsert, DeleteRole, RevokeAdmin,
                       DeleteOrganization, UpdateRolePermissions
  <1>2. ASSUME NEW c \in Callers,
               \/ CreateServiceAccount(c) \/ DisableServiceAccount(c)
               \/ EnableServiceAccount(c) \/ DeleteServiceAccount(c)
        PROVE  Answered(c)
    BY <1>2, Zenon DEF CreateServiceAccount, DisableServiceAccount, EnableServiceAccount,
                       DeleteServiceAccount
  <1>3. ASSUME NEW c \in Callers, NEW u \in Users,
               AddMember(c, u) \/ GrantAdmin(c, u) \/ \E r \in RoleNames : RevokeRole(c, u, r)
        PROVE  Answered(c)
    BY <1>3, Zenon DEF AddMember, GrantAdmin, RevokeRole
  <1>4. ASSUME NEW c \in Callers, NEW t \in TokenIds, RevokeAPIToken(c, t)
        PROVE  Answered(c)
    BY <1>4, Zenon DEF RevokeAPIToken
  <1>5. ASSUME NEW c \in Callers, NEW P \in SUBSET Perms,
               CreateRole(c, P) \/ CreateAPIToken(c, P) \/ AccountTokenInsert(c, P)
        PROVE  Answered(c)
    BY <1>5, Zenon DEF CreateRole, CreateAPIToken, AccountTokenInsert
  <1>6. ASSUME NEW u \in Users, BootstrapAdmin(u)
        PROVE  UNCHANGED <<caller, requestsMade>>
    BY <1>6, Zenon DEF BootstrapAdmin
  <1> QED
    BY <1>1, <1>2, <1>3, <1>4, <1>5, <1>6, Zenon DEF MemNext

\* The tables are written by the other steps only.
LEMMA TableWriters ==
    MemNext => \/ UNCHANGED orgVars
               \/ \E c \in Callers :
                     \/ RemoveDelete(c) \/ AssignInsert(c) \/ DeleteRole(c) \/ DeleteOrganization(c)
                     \/ CreateServiceAccount(c) \/ DisableServiceAccount(c)
                     \/ EnableServiceAccount(c) \/ DeleteServiceAccount(c)
                     \/ RevokeAdmin(c) \/ UpdateRolePermissions(c)
                     \/ \E u \in Users : \/ AddMember(c, u) \/ GrantAdmin(c, u)
                                         \/ \E r \in RoleNames : RevokeRole(c, u, r)
                     \/ \E t \in TokenIds : RevokeAPIToken(c, t)
                     \/ \E P \in SUBSET Perms : \/ CreateRole(c, P) \/ CreateAPIToken(c, P)
                                                \/ AccountTokenInsert(c, P)
               \/ \E u \in Users : BootstrapAdmin(u)
  <1>1. ASSUME NEW c \in Callers,
               \/ Refused(c) \/ RemoveCount(c) \/ DeleteRoleCheck(c)
               \/ AccountTokenCheck(c) \/ DeleteAccountCheck(c)
        PROVE  UNCHANGED orgVars
    BY <1>1, Zenon DEF Refused, RemoveCount, DeleteRoleCheck, AccountTokenCheck, DeleteAccountCheck
  <1>2. ASSUME NEW c \in Callers, NEW u \in Users,
               \/ AuthSession(c, u) \/ RemoveIsOwner(c, u) \/ RevokeAdminCheck(c, u)
               \/ \E r \in RoleNames : AssignCheck(c, u, r)
        PROVE  UNCHANGED orgVars
    BY <1>2, Zenon DEF AuthSession, RemoveIsOwner, RevokeAdminCheck, AssignCheck
  <1>3. ASSUME NEW c \in Callers, NEW t \in TokenIds, AuthToken(c, t)
        PROVE  UNCHANGED orgVars
    BY <1>3, Zenon DEF AuthToken
  <1>4. ASSUME NEW c \in Callers, NEW P \in SUBSET Perms, UpdateRoleCheck(c, P)
        PROVE  UNCHANGED orgVars
    BY <1>4, Zenon DEF UpdateRoleCheck
  <1> QED
    BY <1>1, <1>2, <1>3, <1>4, Zenon DEF MemNext

\* What a member may do is always a set of permissions.
LEMMA ResolvedPerms == ASSUME MemTypeOK, NEW u \in Users PROVE Resolved(u) \subseteq Perms
  <1>1. \A r : RolePerms(r) \subseteq Perms
    BY DEF MemTypeOK, RolePerms
  <1> QED
    BY <1>1 DEF Resolved

\* The requests keep their type.
LEMMA CallersTyped ==
    ASSUME MemTypeOK, MemNext
    PROVE  caller' \in [Callers -> CallRecs] /\ requestsMade' \in 0..MaxRequestsMade
  <1>0. /\ caller \in [Callers -> CallRecs] /\ requestsMade \in 0..MaxRequestsMade
        /\ token \in [TokenIds -> TokenRecs] /\ MaxRequestsMade \in Nat
    BY MembersAssumption DEF MemTypeOK, CallRecs, TokenRecs, Owners
  <1>1. NoCall \in CallRecs
    BY DEF NoCall, CallRecs, Owners, Pcs
  <1>2. ASSUME NEW c \in Callers, NEW r \in CallRecs, Becomes(c, r)
        PROVE  caller' \in [Callers -> CallRecs] /\ requestsMade' \in 0..MaxRequestsMade
    BY <1>0, <1>2 DEF Becomes
  <1>3. ASSUME NEW c \in Callers, NEW r \in CallRecs, caller' = [caller EXCEPT ![c] = r],
               requestsMade < MaxRequestsMade, requestsMade' = requestsMade + 1
        PROVE  caller' \in [Callers -> CallRecs] /\ requestsMade' \in 0..MaxRequestsMade
    BY <1>0, <1>3
  <1>4. CASE UNCHANGED <<caller, requestsMade>>
    BY <1>0, <1>4
  <1>5. ASSUME NEW c \in Callers, Answered(c)
        PROVE  caller' \in [Callers -> CallRecs] /\ requestsMade' \in 0..MaxRequestsMade
    BY <1>1, <1>2, <1>5 DEF Answered
  <1>6. ASSUME NEW c \in Callers,
               RemoveCount(c) \/ DeleteRoleCheck(c) \/ AccountTokenCheck(c) \/ DeleteAccountCheck(c)
        PROVE  caller' \in [Callers -> CallRecs] /\ requestsMade' \in 0..MaxRequestsMade
    <2>1. \A pc \in Pcs : [caller[c] EXCEPT !.pc = pc] \in CallRecs
      BY <1>0 DEF CallRecs
    <2>2. {"remove", "drop_role", "mint", "drop_account"} \subseteq Pcs
      BY DEF Pcs
    <2>3. \E r \in CallRecs : Becomes(c, r)
      BY <1>6, <2>1, <2>2 DEF RemoveCount, DeleteRoleCheck, AccountTokenCheck, DeleteAccountCheck
    <2> QED
      BY <1>2, <2>3
  <1>7. ASSUME NEW c \in Callers, NEW u \in Users,
               \/ AuthSession(c, u) \/ RemoveIsOwner(c, u) \/ RevokeAdminCheck(c, u)
               \/ \E r \in RoleNames : AssignCheck(c, u, r)
        PROVE  caller' \in [Callers -> CallRecs] /\ requestsMade' \in 0..MaxRequestsMade
    <2>4. {"ready", "count", "remove", "assign", "revoke_admin"} \subseteq Pcs
      BY DEF Pcs
    <2>5. CASE AuthSession(c, u)
      <3>1. [NoCall EXCEPT !.pc = "ready", !.actor = u, !.perms = Resolved(u)] \in CallRecs
        BY <1>1, <2>4, ResolvedPerms DEF CallRecs, Owners
      <3> QED
        BY <1>3, <2>5, <3>1 DEF AuthSession
    <2>6. CASE RemoveIsOwner(c, u)
      <3> DEFINE r == [caller[c] EXCEPT !.user = u,
                                        !.pc = IF <<u, "owner">> \in held THEN "count" ELSE "remove"]
      <3>1. r \in CallRecs
        BY <1>0, <2>4 DEF CallRecs
      <3>2. Becomes(c, r)
        BY <2>6, Zenon DEF RemoveIsOwner
      <3> QED
        BY <1>2, <3>1, <3>2, Zenon
    <2>7. CASE RevokeAdminCheck(c, u)
      <3> DEFINE r == [caller[c] EXCEPT !.pc = "revoke_admin", !.user = u]
      <3>1. r \in CallRecs
        BY <1>0, <2>4 DEF CallRecs
      <3>2. Becomes(c, r)
        BY <2>7, Zenon DEF RevokeAdminCheck
      <3> QED
        BY <1>2, <3>1, <3>2, Zenon
    <2>8. ASSUME NEW role \in RoleNames, AssignCheck(c, u, role)
          PROVE  caller' \in [Callers -> CallRecs] /\ requestsMade' \in 0..MaxRequestsMade
      <3> DEFINE r == [caller[c] EXCEPT !.pc = "assign", !.user = u, !.role = role]
      <3>1. r \in CallRecs
        BY <1>0, <2>4 DEF CallRecs
      <3>2. Becomes(c, r)
        BY <2>8, Zenon DEF AssignCheck
      <3> QED
        BY <1>2, <3>1, <3>2, Zenon
    <2> QED
      BY <1>7, <2>5, <2>6, <2>7, <2>8
  <1>8. ASSUME NEW c \in Callers, NEW t \in TokenIds, AuthToken(c, t)
        PROVE  caller' \in [Callers -> CallRecs] /\ requestsMade' \in 0..MaxRequestsMade
    <2>1. [NoCall EXCEPT !.pc = "ready", !.actor = token[t].owner, !.perms = token[t].scopes] \in CallRecs
      BY <1>0, <1>1 DEF CallRecs, TokenRecs, Pcs
    <2> QED
      BY <1>3, <1>8, <2>1 DEF AuthToken
  <1>9. ASSUME NEW c \in Callers, NEW P \in SUBSET Perms, UpdateRoleCheck(c, P)
        PROVE  caller' \in [Callers -> CallRecs] /\ requestsMade' \in 0..MaxRequestsMade
    <2>1. [caller[c] EXCEPT !.pc = "update_role", !.perms = P] \in CallRecs
      BY <1>0 DEF CallRecs, Pcs
    <2> QED
      BY <1>2, <1>9, <2>1 DEF UpdateRoleCheck
  <1> QED
    BY <1>4, <1>5, <1>6, <1>7, <1>8, <1>9, CallerWriters

\* The tables without the requests.
Tables ==
    /\ members \subseteq Users
    /\ held \subseteq Users \X RoleNames
    /\ custom \in CustomRecs
    /\ svcAccount \in {"none", "active", "disabled"}
    /\ token \in [TokenIds -> TokenRecs]
    /\ admins \subseteq Users

\* The organisation is there, or it is not.
LEMMA OrgTyped == ASSUME MemTypeOK, MemNext PROVE orgExists' \in BOOLEAN
  <1>1. ASSUME NEW c \in Callers,
               RemoveDelete(c) \/ AssignInsert(c) \/ DeleteRole(c) \/ RevokeAdmin(c)
        PROVE  orgExists' = orgExists
    BY <1>1, Zenon DEF RemoveDelete, AssignInsert, DeleteRole, RevokeAdmin
  <1>2. ASSUME NEW c \in Callers,
               \/ CreateServiceAccount(c) \/ DisableServiceAccount(c) \/ EnableServiceAccount(c)
               \/ DeleteServiceAccount(c) \/ UpdateRolePermissions(c)
        PROVE  orgExists' = orgExists
    BY <1>2, Zenon DEF CreateServiceAccount, DisableServiceAccount, EnableServiceAccount,
                       DeleteServiceAccount, UpdateRolePermissions
  <1>3. ASSUME NEW c \in Callers, NEW u \in Users,
               AddMember(c, u) \/ GrantAdmin(c, u) \/ \E r \in RoleNames : RevokeRole(c, u, r)
        PROVE  orgExists' = orgExists
    BY <1>3, Zenon DEF AddMember, GrantAdmin, RevokeRole
  <1>4. ASSUME NEW c \in Callers,
               \/ \E t \in TokenIds : RevokeAPIToken(c, t)
               \/ \E P \in SUBSET Perms : CreateRole(c, P) \/ CreateAPIToken(c, P) \/ AccountTokenInsert(c, P)
        PROVE  orgExists' = orgExists
    BY <1>4, Zenon DEF RevokeAPIToken, CreateRole, CreateAPIToken, AccountTokenInsert
  <1>5. ASSUME NEW c \in Callers, DeleteOrganization(c) PROVE orgExists' = FALSE
    BY <1>5, Zenon DEF DeleteOrganization
  <1>6. ASSUME \/ UNCHANGED orgVars
               \/ \E u \in Users : BootstrapAdmin(u)
        PROVE  orgExists' = orgExists
    BY <1>6, Zenon DEF orgVars, BootstrapAdmin
  <1>7. orgExists' = orgExists \/ orgExists' = FALSE
    BY <1>1, <1>2, <1>3, <1>4, <1>5, <1>6, TableWriters, Zenon
  <1> QED
    BY <1>7, Zenon DEF MemTypeOK

\* Every step that writes the tables keeps their type.
LEMMA TablesTyped == ASSUME MemInv, MemNext PROVE Tables'
  <1>0. /\ Tables /\ caller \in [Callers -> CallRecs]
        /\ \A c \in Callers : caller[c].actor \in Owners /\ caller[c].perms \subseteq Perms
    BY DEF MemInv, MemTypeOK, Tables, CallRecs, TokenRecs, CustomRecs, Owners
  <1>1. ASSUME UNCHANGED orgVars PROVE Tables'
    BY <1>0, <1>1 DEF orgVars, Tables, RoleExists
  <1>2. ASSUME UNCHANGED <<orgExists, members, custom, svcAccount, token, admins>>,
               held' \subseteq held
        PROVE  Tables'
    BY <1>0, <1>2 DEF Tables, RoleExists
  <1>3. ASSUME NEW c \in Callers, RemoveDelete(c) PROVE Tables'
    BY <1>0, <1>3 DEF RemoveDelete, Tables, RoleExists
  <1>4. ASSUME NEW c \in Callers, AssignInsert(c) PROVE Tables'
    <2>1. caller[c].user \in members /\ caller[c].user \in Users /\ RoleExists(caller[c].role)
          /\ caller[c].role \in RoleNames
      BY <1>0, <1>4 DEF AssignInsert, RoleExists, RoleNames, Tables
    <2> QED
      BY <1>0, <1>4, <2>1 DEF AssignInsert, Tables, RoleExists
  <1>5. ASSUME NEW c \in Callers, DeleteRole(c) PROVE Tables'
    <2>1. NoCustom \in CustomRecs
      BY Zenon DEF NoCustom, CustomRecs
    <2>2. \A g \in held : g[2] \in SystemRoles \/ g[2] = "custom"
      BY <1>0 DEF Tables, RoleNames
    <2> QED
      BY <1>0, <1>5, <2>1, <2>2 DEF DeleteRole, Tables, RoleExists
  <1>6. ASSUME NEW c \in Callers, DeleteOrganization(c) PROVE Tables'
    <2>1. NoCustom \in CustomRecs
      BY Zenon DEF NoCustom, CustomRecs
    <2>2. NoToken \in TokenRecs /\ NoToken.status = "none"
      BY DEF NoToken, TokenRecs, Owners
    <2>3. \A r \in TokenRecs : LET d == [r EXCEPT !.status = "deleted"]
                               IN  d \in TokenRecs /\ d.status = "deleted"
      BY DEF TokenRecs
    <2>4. /\ token' \in [TokenIds -> TokenRecs]
          /\ \A t \in TokenIds : token'[t].status # "live"
      BY <1>0, <1>6, <2>2, <2>3 DEF DeleteOrganization, Tables
    <2>5. /\ members' = {} /\ held' = {} /\ custom' = NoCustom
          /\ svcAccount' = "none" /\ admins' = admins
      BY <1>6, Zenon DEF DeleteOrganization
    <2> QED
      BY <1>0, <2>1, <2>4, <2>5 DEF Tables
  <1>7. ASSUME NEW c \in Callers, CreateServiceAccount(c) \/ EnableServiceAccount(c)
        PROVE  Tables'
    BY <1>0, <1>7 DEF CreateServiceAccount, EnableServiceAccount, Tables, RoleExists
  <1>8. ASSUME NEW c \in Callers, DisableServiceAccount(c) \/ DeleteServiceAccount(c)
        PROVE  Tables'
    <2>1. \A r \in TokenRecs : \A st \in {"revoked", "deleted"} :
             LET d == [r EXCEPT !.status = st]
             IN  d \in TokenRecs /\ d.status = st /\ d.owner = r.owner
      BY DEF TokenRecs
    <2>2. /\ token' \in [TokenIds -> TokenRecs]
          /\ \A t \in TokenIds : /\ token'[t].owner = token[t].owner
                                 /\ token'[t].status = "live" => token[t].status = "live"
                                 /\ token[t].owner = Account => token'[t].status # "live"
      <3>1. CASE DisableServiceAccount(c)
        BY <1>0, <2>1, <3>1 DEF DisableServiceAccount, Tables
      <3>2. CASE DeleteServiceAccount(c)
        BY <1>0, <2>1, <3>2 DEF DeleteServiceAccount, Tables
      <3> QED
        BY <1>8, <3>1, <3>2
    <2>3. UNCHANGED <<orgExists, members, held, custom, admins>> /\ svcAccount' \in {"none", "disabled"}
      BY <1>8 DEF DisableServiceAccount, DeleteServiceAccount
    <2> QED
      BY <1>0, <2>2, <2>3 DEF Tables, RoleExists
  <1>9. ASSUME NEW c \in Callers, UpdateRolePermissions(c) PROVE Tables'
    <2>1. custom' \in CustomRecs /\ custom'.exists = custom.exists
      BY <1>0, <1>9 DEF UpdateRolePermissions, Tables, CustomRecs
    <2> QED
      BY <1>0, <1>9, <2>1 DEF UpdateRolePermissions, Tables, RoleExists
  <1>10. ASSUME NEW c \in Callers, NEW u \in Users, AddMember(c, u) PROVE Tables'
    BY <1>0, <1>10 DEF AddMember, Tables, RoleExists, RoleNames, SystemRoles
  <1>11. ASSUME admins' \subseteq Users,
                UNCHANGED <<orgExists, members, held, custom, svcAccount, token>>
         PROVE  Tables'
    BY <1>0, <1>11 DEF Tables, RoleExists
  <1>12. ASSUME NEW c \in Callers, NEW t \in TokenIds, RevokeAPIToken(c, t)
         PROVE  Tables'
    <2>1. LET d == [token[t] EXCEPT !.status = "revoked"] IN d \in TokenRecs /\ d.status = "revoked"
      BY <1>0 DEF Tables, TokenRecs
    <2> QED
      BY <1>0, <1>12, <2>1 DEF RevokeAPIToken, Tables, RoleExists
  <1>13. ASSUME NEW c \in Callers, NEW P \in SUBSET Perms, CreateRole(c, P)
         PROVE  Tables'
    <2>1. [exists |-> TRUE, perms |-> P] \in CustomRecs
      BY Zenon DEF CustomRecs
    <2> QED
      BY <1>0, <1>13, <2>1 DEF CreateRole, Tables, RoleExists
  <1>14. ASSUME NEW o \in Owners, NEW P \in SUBSET Perms, NewToken(o, P),
                o = Account => svcAccount # "none",
                UNCHANGED <<orgExists, members, held, custom, svcAccount, admins>>
         PROVE  Tables'
    <2> DEFINE r == [status |-> "live", owner |-> o, scopes |-> P]
    <2>1. r \in TokenRecs /\ r.owner = o
      BY DEF TokenRecs
    <2>2. PICK t \in TokenIds : token' = [token EXCEPT ![t] = r]
      BY <1>14 DEF NewToken
    <2>3. orgExists
      BY <1>14 DEF NewToken
    <2> HIDE DEF r
    <2> QED
      BY <1>0, <1>14, <2>1, <2>2, <2>3 DEF Tables, RoleExists
  <1>15. ASSUME NEW c \in Callers, NEW P \in SUBSET Perms,
                CreateAPIToken(c, P) \/ AccountTokenInsert(c, P)
         PROVE  Tables'
    <2>1. CASE CreateAPIToken(c, P)
      <3>1. caller[c].actor \in Users /\ caller[c].actor # Account
        BY <2>1, MembersAssumption DEF CreateAPIToken, Account
      <3> QED
        BY <1>0, <1>14, <2>1, <3>1 DEF CreateAPIToken
    <2>2. CASE AccountTokenInsert(c, P)
      BY <1>14, <2>2 DEF AccountTokenInsert, Owners
    <2> QED
      BY <1>15, <2>1, <2>2
  <1>16. ASSUME NEW c \in Callers,
                RevokeAdmin(c) \/ \E u \in Users : GrantAdmin(c, u)
         PROVE  Tables'
    BY <1>0, <1>11, <1>16 DEF RevokeAdmin, GrantAdmin, Tables
  <1>17. ASSUME NEW u \in Users, BootstrapAdmin(u) PROVE Tables'
    BY <1>0, <1>11, <1>17 DEF BootstrapAdmin, Tables
  <1>18. ASSUME NEW c \in Callers, NEW u \in Users, NEW r \in RoleNames, RevokeRole(c, u, r)
         PROVE  Tables'
    BY <1>2, <1>18 DEF RevokeRole
  <1> QED
    BY <1>1, <1>3, <1>4, <1>5, <1>6, <1>7, <1>8, <1>9, <1>10, <1>12, <1>13, <1>15, <1>16, <1>17,
       <1>18, TableWriters, Zenon

\* The first state: the founder owns the organisation.
LEMMA MemStart == MemInit => MemInv
  <1> SUFFICES ASSUME MemInit PROVE MemInv
    OBVIOUS
  <1>1. PICK f \in Users : members = {f} /\ held = {<<f, "owner">>} /\ admins = {f}
    BY MembersAssumption DEF MemInit
  <1>2. NoCustom \in CustomRecs /\ orgExists \in BOOLEAN /\ orgExists
    BY Zenon DEF NoCustom, CustomRecs, MemInit
  <1>3. NoToken \in TokenRecs /\ NoToken.status = "none"
    BY DEF NoToken, TokenRecs, Owners
  <1>4. NoCall \in CallRecs
    BY DEF NoCall, CallRecs, Owners, Pcs
  <1>5. Tables
    BY <1>1, <1>2, <1>3 DEF MemInit, Tables, RoleNames, SystemRoles
  <1>6. caller \in [Callers -> CallRecs] /\ requestsMade \in 0..MaxRequestsMade
    <2>1. MaxRequestsMade \in Nat /\ requestsMade = 0
      BY MembersAssumption DEF MemInit
    <2>2. caller = [c \in Callers |-> NoCall]
      BY Zenon DEF MemInit
    <2> QED
      BY <1>4, <2>1, <2>2
  <1>7. AssignsInHand
    BY DEF MemInit, AssignsInHand, NoCall
  <1> QED
    BY <1>2, <1>5, <1>6, <1>7, Zenon
    DEF MemInv, MemTypeOK, Tables, TokenRecs, CallRecs, CustomRecs, Owners

\* A request that begins, or goes on to its write, may manage only if a member or
\* a live token may; one that goes on keeps what it had.
ByToken(c) == \E t \in TokenIds : token[t].status = "live" /\ caller'[c].perms = token[t].scopes
ByMember(c) == \E u \in members : caller'[c].perms = Resolved(u)
CallerGoes(c) ==
    \/ caller'[c].pc = "idle" /\ caller'[c].perms = {}
    \/ caller'[c] = caller[c]
    \/ caller'[c].perms = caller[c].perms /\ (caller'[c].pc = "assign" => Permitted(c))
    \/ caller'[c].pc # "assign" /\ (Permitted(c) \/ ByMember(c) \/ ByToken(c))

LEMMA CallerPerms ==
    ASSUME MemInv, MemNext, NEW c \in Callers
    PROVE  CallerGoes(c)
  <1>0. caller \in [Callers -> CallRecs]
    BY DEF MemInv, MemTypeOK, CallRecs, Owners
  <1>1. NoCall.pc = "idle" /\ NoCall.perms = {}
    BY DEF NoCall
  <1>2. ASSUME NEW d \in Callers, NEW r, caller' = [caller EXCEPT ![d] = r]
        PROVE  caller'[c] = IF c = d THEN r ELSE caller[c]
    BY <1>0, <1>2
  <1>3. ASSUME UNCHANGED <<caller, requestsMade>> PROVE CallerGoes(c)
    BY <1>3 DEF CallerGoes
  <1>4. ASSUME NEW d \in Callers, Answered(d) PROVE CallerGoes(c)
    BY <1>1, <1>2, <1>4 DEF Answered, Becomes, CallerGoes
  <1>5. ASSUME NEW d \in Callers,
               RemoveCount(d) \/ DeleteRoleCheck(d) \/ AccountTokenCheck(d) \/ DeleteAccountCheck(d)
        PROVE  CallerGoes(c)
    <2>1. PICK pc \in {"remove", "drop_role", "mint", "drop_account"} :
             caller' = [caller EXCEPT ![d] = [caller[d] EXCEPT !.pc = pc]]
      BY <1>5 DEF RemoveCount, DeleteRoleCheck, AccountTokenCheck, DeleteAccountCheck, Becomes
    <2>2. LET r == [caller[d] EXCEPT !.pc = pc] IN r.pc = pc /\ r.perms = caller[d].perms
      BY <1>0 DEF CallRecs
    <2> QED
      BY <1>2, <2>1, <2>2 DEF CallerGoes
  <1>6. ASSUME NEW d \in Callers, NEW u \in Users,
               \/ RemoveIsOwner(d, u) \/ RevokeAdminCheck(d, u)
               \/ \E role \in RoleNames : AssignCheck(d, u, role)
        PROVE  CallerGoes(c)
    <2>1. CASE RemoveIsOwner(d, u)
      <3>1. PICK pc \in {"count", "remove"} :
               caller' = [caller EXCEPT ![d] = [caller[d] EXCEPT !.user = u, !.pc = pc]]
        BY <2>1 DEF RemoveIsOwner, Becomes
      <3>2. LET r == [caller[d] EXCEPT !.user = u, !.pc = pc] IN r.pc = pc /\ r.perms = caller[d].perms
        BY <1>0 DEF CallRecs
      <3> QED
        BY <1>2, <3>1, <3>2 DEF CallerGoes
    <2>2. CASE RevokeAdminCheck(d, u)
      <3>1. caller' = [caller EXCEPT ![d] = [caller[d] EXCEPT !.pc = "revoke_admin", !.user = u]]
        BY <2>2 DEF RevokeAdminCheck, Becomes
      <3>2. LET r == [caller[d] EXCEPT !.pc = "revoke_admin", !.user = u]
            IN  r.pc = "revoke_admin" /\ r.perms = caller[d].perms
        BY <1>0 DEF CallRecs
      <3> QED
        BY <1>2, <3>1, <3>2 DEF CallerGoes
    <2>3. ASSUME NEW role \in RoleNames, AssignCheck(d, u, role) PROVE CallerGoes(c)
      <3>1. /\ caller' = [caller EXCEPT ![d] = [caller[d] EXCEPT !.pc = "assign", !.user = u, !.role = role]]
            /\ Permitted(d)
        BY <2>3 DEF AssignCheck, Becomes
      <3>2. LET r == [caller[d] EXCEPT !.pc = "assign", !.user = u, !.role = role]
            IN  r.perms = caller[d].perms
        BY <1>0 DEF CallRecs
      <3> QED
        BY <1>2, <3>1, <3>2 DEF CallerGoes
    <2> QED
      BY <1>6, <2>1, <2>2, <2>3
  <1>7. ASSUME NEW d \in Callers, NEW u \in Users, AuthSession(d, u) PROVE CallerGoes(c)
    <2>1. /\ caller' = [caller EXCEPT ![d] = [NoCall EXCEPT !.pc = "ready", !.actor = u, !.perms = Resolved(u)]]
          /\ u \in members
      BY <1>7 DEF AuthSession
    <2>2. LET r == [NoCall EXCEPT !.pc = "ready", !.actor = u, !.perms = Resolved(u)]
          IN  r.pc = "ready" /\ r.perms = Resolved(u)
      BY DEF NoCall
    <2> QED
      BY <1>2, <2>1, <2>2 DEF CallerGoes, ByMember
  <1>8. ASSUME NEW d \in Callers, NEW t \in TokenIds, AuthToken(d, t) PROVE CallerGoes(c)
    <2>1. /\ caller' = [caller EXCEPT ![d] = [NoCall EXCEPT !.pc = "ready", !.actor = token[t].owner,
                                                            !.perms = token[t].scopes]]
          /\ token[t].status = "live"
      BY <1>8 DEF AuthToken, Authenticates
    <2>2. LET r == [NoCall EXCEPT !.pc = "ready", !.actor = token[t].owner, !.perms = token[t].scopes]
          IN  r.pc = "ready" /\ r.perms = token[t].scopes
      BY DEF NoCall
    <2>3. \/ caller'[c] = caller[c]
          \/ caller'[c].pc = "ready" /\ caller'[c].perms = token[t].scopes
      BY <1>2, <2>1, <2>2
    <2>4. caller'[c].perms = token[t].scopes => ByToken(c)
      BY <2>1 DEF ByToken
    <2> QED
      BY <2>3, <2>4 DEF CallerGoes
  <1>9. ASSUME NEW d \in Callers, NEW P \in SUBSET Perms, UpdateRoleCheck(d, P) PROVE CallerGoes(c)
    <2>1. /\ caller' = [caller EXCEPT ![d] = [caller[d] EXCEPT !.pc = "update_role", !.perms = P]]
          /\ Permitted(d)
      BY <1>9 DEF UpdateRoleCheck, Becomes
    <2>2. [caller[d] EXCEPT !.pc = "update_role", !.perms = P].pc = "update_role"
      BY <1>0 DEF CallRecs
    <2> QED
      BY <1>2, <2>1, <2>2 DEF CallerGoes
  <1> QED
    BY <1>3, <1>4, <1>5, <1>6, <1>7, <1>8, <1>9, CallerWriters, Zenon

\* So a request that is about to assign a role goes on being one that may.
LEMMA HandStep == ASSUME MemInv, MemNext PROVE AssignsInHand'
  <1> SUFFICES ASSUME NEW c \in Callers, caller'[c].pc = "assign" PROVE Manages(caller'[c].perms)
    BY DEF AssignsInHand
  <1> QED
    BY CallerPerms DEF CallerGoes, MemInv, AssignsInHand, Permitted, Manages

\* Without a manager, nobody becomes one by fewer members, fewer assignments and
\* a custom role that does not gain the permission.
LEMMA FewerGrants ==
    ASSUME Unmanaged, members' \subseteq members, held' \subseteq held,
           Manages(custom'.perms) => Manages(custom.perms)
    PROVE  \A u \in members' : ~Manages(Resolved(u)')
  <1> SUFFICES ASSUME NEW u \in members', Manages(Resolved(u)') PROVE FALSE
    OBVIOUS
  <1>1. PICK g \in held' : g[1] = u /\ Manages(RolePerms(g[2])')
    BY DEF Resolved, Manages
  <1>2. Manages(RolePerms(g[2]))
    BY <1>1 DEF RolePerms, Manages
  <1>3. Manages(Resolved(u))
    BY <1>1, <1>2 DEF Resolved, Manages
  <1> QED
    BY <1>3 DEF Unmanaged

\* The tables, without a manager: whoever would write more into them needs the
\* permission, and an assignment under way has it in hand.
LEMMA NobodyGrants ==
    ASSUME MemInv, MemNext, Unmanaged
    PROVE  /\ \A u \in members' : ~Manages(Resolved(u)')
           /\ \A t \in TokenIds : token'[t].status = "live" => ~Manages(token'[t].scopes)
  <1> DEFINE Roles == \A u \in members' : ~Manages(Resolved(u)')
             Tokens == \A t \in TokenIds : token'[t].status = "live" => ~Manages(token'[t].scopes)
  <1>0. /\ Tables /\ \A c \in Callers : ~Permitted(c) /\ caller[c].pc # "assign"
                                       /\ ~Manages(caller[c].perms)
        /\ \A t \in TokenIds : token[t].status = "live" => ~Manages(token[t].scopes)
    BY DEF MemInv, MemTypeOK, Tables, TokenRecs, CustomRecs, Owners, AssignsInHand, Unmanaged, Permitted,
           Manages
  <1>1. ASSUME UNCHANGED <<members, held, custom>> PROVE Roles
    BY <1>1, FewerGrants
  <1>2. ASSUME UNCHANGED token PROVE Tokens
    BY <1>0, <1>2
  <1>3. ASSUME \A t \in TokenIds : \/ token'[t].status # "live"
                                   \/ token'[t] = token[t]
        PROVE  Tokens
    BY <1>0, <1>3
  <1>4. ASSUME NEW c \in Callers, RemoveDelete(c) \/ DeleteRole(c) \/ UpdateRolePermissions(c)
        PROVE  Roles /\ Tokens
    <2>1. /\ members' \subseteq members /\ held' \subseteq held /\ token' = token
          /\ custom' = custom \/ custom'.perms = {} \/ custom'.perms = caller[c].perms
      BY <1>0, <1>4 DEF RemoveDelete, DeleteRole, UpdateRolePermissions, NoCustom, Tables, CustomRecs
    <2>2. Manages(custom'.perms) => Manages(custom.perms)
      BY <1>0, <2>1 DEF Manages
    <2> QED
      BY <1>2, <2>1, <2>2, FewerGrants
  <1>5. ASSUME NEW c \in Callers, DeleteOrganization(c) PROVE Roles /\ Tokens
    <2>1. members' = {}
      BY <1>5 DEF DeleteOrganization
    <2>2. \A t \in TokenIds : token'[t].status # "live"
      BY <1>0, <1>5 DEF DeleteOrganization, Tables, TokenRecs, NoToken
    <2> QED
      BY <2>1, <2>2
  <1>6. ASSUME NEW c \in Callers, DeleteServiceAccount(c) \/ \E t \in TokenIds : RevokeAPIToken(c, t)
        PROVE  Roles /\ Tokens
    <2>1. UNCHANGED <<members, held, custom>>
      BY <1>6 DEF DeleteServiceAccount, RevokeAPIToken
    <2>2. CASE DeleteServiceAccount(c)
      <3>1. \A t \in TokenIds : token'[t].status # "live" \/ token'[t] = token[t]
        BY <1>0, <2>2 DEF DeleteServiceAccount, Tables, TokenRecs
      <3> QED
        BY <1>1, <1>3, <2>1, <3>1
    <2>3. ASSUME NEW t \in TokenIds, RevokeAPIToken(c, t) PROVE Roles /\ Tokens
      <3>1. \A s \in TokenIds : token'[s].status # "live" \/ token'[s] = token[s]
        BY <1>0, <2>3 DEF RevokeAPIToken, Tables, TokenRecs
      <3> QED
        BY <1>1, <1>3, <2>1, <3>1
    <2> QED
      BY <1>6, <2>2, <2>3
  <1>7. ASSUME NEW c \in Callers, NEW P \in SUBSET Perms, AccountTokenInsert(c, P)
        PROVE  Roles /\ Tokens
    <2>1. UNCHANGED <<members, held, custom>> /\ ~Manages(P) /\ NewToken(Account, P)
      BY <1>0, <1>7 DEF AccountTokenInsert, Manages
    <2>2. PICK s \in TokenIds :
             token' = [token EXCEPT ![s] = [status |-> "live", owner |-> Account, scopes |-> P]]
      BY <2>1 DEF NewToken
    <2>3. \A t \in TokenIds : token'[t] = token[t] \/ token'[t].scopes = P
      BY <1>0, <2>2 DEF Tables
    <2> QED
      BY <1>0, <1>1, <2>1, <2>3
  <1>8. ASSUME UNCHANGED orgVars \/ (\E u \in Users : BootstrapAdmin(u))
               \/ (\E c \in Callers : RevokeAdmin(c) \/ \E u \in Users : GrantAdmin(c, u))
        PROVE  Roles /\ Tokens
    BY <1>1, <1>2, <1>8 DEF orgVars, BootstrapAdmin, RevokeAdmin, GrantAdmin
  <1>9. ASSUME NEW c \in Callers PROVE ~AssignInsert(c)
    BY <1>0, <1>9 DEF AssignInsert
  <1>10. ASSUME NEW c \in Callers
         PROVE  ~(CreateServiceAccount(c) \/ DisableServiceAccount(c) \/ EnableServiceAccount(c))
    BY <1>0, <1>10 DEF CreateServiceAccount, DisableServiceAccount, EnableServiceAccount
  <1>11. ASSUME NEW c \in Callers, NEW u \in Users
         PROVE  ~AddMember(c, u) /\ \A r \in RoleNames : ~RevokeRole(c, u, r)
    BY <1>0, <1>11 DEF AddMember, RevokeRole
  <1>12. ASSUME NEW c \in Callers, NEW P \in SUBSET Perms PROVE ~CreateRole(c, P) /\ ~CreateAPIToken(c, P)
    BY <1>0, <1>12 DEF CreateRole, CreateAPIToken
  <1> HIDE DEF Roles, Tokens
  <1>13. Roles /\ Tokens
    BY <1>4, <1>5, <1>6, <1>7, <1>8, <1>9, <1>10, <1>11, <1>12, TableWriters, Zenon
  <1> QED
    BY <1>13 DEF Roles, Tokens

\* Without a manager, no sequence of requests makes one.
THEOREM UnmanagedStaysHolds == MemSpec => UnmanagedStays
  <1>1. MemInv /\ [MemNext]_memVars => MemInv'
    <2> SUFFICES ASSUME MemInv, [MemNext]_memVars PROVE MemInv'
      OBVIOUS
    <2>1. CASE MemNext
      <3>1. Tables' /\ AssignsInHand'
        BY <2>1, TablesTyped, HandStep
      <3>2. caller' \in [Callers -> CallRecs] /\ requestsMade' \in 0..MaxRequestsMade
        BY <2>1, CallersTyped DEF MemInv
      <3>3. orgExists' \in BOOLEAN
        BY <2>1, OrgTyped DEF MemInv
      <3> QED
        BY <3>1, <3>2, <3>3, Zenon
        DEF MemInv, MemTypeOK, Tables, TokenRecs, CallRecs, CustomRecs, Owners
    <2>2. CASE UNCHANGED memVars
      BY <2>2, Zenon DEF MemInv, MemTypeOK, AssignsInHand, Manages, memVars
    <2> QED
      BY <2>1, <2>2
  <1>2. MemInv /\ [MemNext]_memVars => [Unmanaged => Unmanaged']_memVars
    <2> SUFFICES ASSUME MemInv, MemNext, Unmanaged PROVE Unmanaged'
      OBVIOUS
    <2>1. \A c \in Callers : ~Manages(caller'[c].perms)
      <3> TAKE c \in Callers
      <3>1. ~Permitted(c) /\ ~Manages(caller[c].perms)
        BY DEF Unmanaged, Permitted, Manages
      <3>2. \A u \in members : ~Manages(Resolved(u))
        BY DEF Unmanaged
      <3>3. \A t \in TokenIds : token[t].status = "live" => ~Manages(token[t].scopes)
        BY DEF Unmanaged
      <3> QED
        BY <3>1, <3>2, <3>3, CallerPerms DEF CallerGoes, ByMember, ByToken, Manages
    <2> QED
      BY <2>1, NobodyGrants DEF Unmanaged
  <1> QED
    BY <1>1, <1>2, MemStart, PTL DEF MemSpec, UnmanagedStays

-----------------------------------------------------------------------------
(* Plans: an approved plan is followed.                                    *)

Runs == [pc: {"idle", "call", "record"}, index: 0..PlanSteps,
         status: {"absent", "submitted", "awaiting_approval"}]

\* The request that runs a step holds the lock; the plan is approved, the
\* steps before are done and its own is valid and not done.
RunnerFits ==
    \A r \in Runners :
        /\ runner[r].pc = "idle" => runner[r] = NoRun
        /\ runner[r].pc # "idle" =>
              /\ planLock = r /\ planStatus = "approved"
              /\ runner[r].index \in StepIds /\ InTurn(runner[r].index)
              /\ planStep[runner[r].index].status = "pending" /\ planStep[runner[r].index].valid
        /\ runner[r].pc = "record" =>
              /\ runner[r].status # "absent"
              /\ Ran(runner[r].index) > 0

\* Step i has been called and not yet recorded.
Called(i) == \E r \in Runners : runner[r].pc = "record" /\ runner[r].index = i

\* What has been handed over for each step.
StepsFit ==
    \A i \in StepIds :
        /\ stepJobs[i] <= 1
        /\ stepApprovals[i] <= lost[i] + (IF planStep[i].status = "pending" /\ ~Called(i) THEN 0 ELSE 1)
        /\ planStep[i].status # "pending" => Ran(i) > 0
        /\ Ran(i) > 0 => /\ planStatus \in {"approved", "completed"}
                         /\ planStep[i].valid /\ InTurn(i)

\* A completed plan has no step left.
NothingPending == planStatus = "completed" => \A i \in StepIds : planStep[i].status # "pending"

PlanInv == PlanTypeOK /\ RunnerFits /\ StepsFit /\ NothingPending

\* The parts of the invariant, with the numbers as numbers.
LEMMA PlanFacts ==
    ASSUME PlanInv
    PROVE  /\ PlanTypeOK /\ RunnerFits /\ StepsFit /\ NothingPending
           /\ runner \in [Runners -> Runs] /\ planStep \in [StepIds -> StepRow]
           /\ \A i \in StepIds : stepJobs[i] \in Nat /\ stepApprovals[i] \in Nat /\ lost[i] \in Nat
           /\ StepIds \subseteq Nat /\ StepIds # {}
  <1>1. PlanTypeOK /\ RunnerFits /\ StepsFit /\ NothingPending
    BY DEF PlanInv
  <1>2. runner \in [Runners -> Runs] /\ planStep \in [StepIds -> StepRow]
    BY <1>1 DEF PlanTypeOK, Runs
  <1>3. \A i \in StepIds : stepJobs[i] \in Nat /\ stepApprovals[i] \in Nat /\ lost[i] \in Nat
    BY <1>1, PlansAssumption DEF PlanTypeOK
  <1>4. StepIds \subseteq Nat /\ 1 \in StepIds
    BY PlansAssumption DEF StepIds
  <1> QED
    BY <1>1, <1>2, <1>3, <1>4

\* While one request runs a step no other one does.
LEMMA OneRunner ==
    ASSUME PlanInv, NEW r \in Runners, runner[r].pc # "idle"
    PROVE  /\ \A o \in Runners \ {r} : runner[o] = NoRun
           /\ planLock = r /\ planStatus = "approved"
           /\ runner[r].index \in StepIds /\ InTurn(runner[r].index)
           /\ planStep[runner[r].index].status = "pending" /\ planStep[runner[r].index].valid
  BY DEF PlanInv, RunnerFits

\* A request that runs a step ends, and releases the lock.
LEMMA RunEnds ==
    ASSUME PlanInv, NEW r \in Runners, runner[r].pc # "idle",
           runner' = [runner EXCEPT ![r] = NoRun],
           planLock' = IF planLock = r THEN NoRunner ELSE planLock
    PROVE  /\ RunnerFits' /\ runner' \in [Runners -> Runs] /\ planLock' \in Runners \cup {NoRunner}
           /\ \A o \in Runners : runner'[o].pc = "idle"
  <1>1. NoRun \in Runs /\ NoRun.pc = "idle"
    BY PlansAssumption DEF NoRun, Runs
  <1>2. \A o \in Runners : runner'[o] = NoRun
    BY OneRunner, PlanFacts
  <1>3. planLock' = NoRunner
    BY OneRunner
  <1>4. runner' \in [Runners -> Runs]
    BY <1>1, PlanFacts
  <1> QED
    BY <1>1, <1>2, <1>3, <1>4 DEF RunnerFits

\* Before the plan is approved nothing runs or has run.
LEMMA NothingRan ==
    ASSUME PlanInv, planStatus \notin {"approved", "completed"}
    PROVE  /\ \A r \in Runners : runner[r] = NoRun
           /\ \A i \in StepIds : stepJobs[i] = 0 /\ stepApprovals[i] = 0 /\ planStep[i].status = "pending"
  <1>1. \A i \in StepIds : stepJobs[i] = 0 /\ stepApprovals[i] = 0 /\ planStep[i].status = "pending"
    BY PlanFacts DEF StepsFit, Ran
  <1>2. \A r \in Runners : runner[r] = NoRun
    BY DEF PlanInv, RunnerFits
  <1> QED
    BY <1>1, <1>2

\* Every step keeps the invariant.
LEMMA PlanStepInv == PlanInv /\ [PlanNext]_planVars => PlanInv'
  <1> SUFFICES ASSUME PlanInv, [PlanNext]_planVars PROVE PlanInv'
    OBVIOUS
  <1>t. /\ PlanTypeOK /\ RunnerFits /\ StepsFit /\ NothingPending
        /\ runner \in [Runners -> Runs] /\ planStep \in [StepIds -> StepRow]
        /\ \A i \in StepIds : stepJobs[i] \in Nat /\ stepApprovals[i] \in Nat /\ lost[i] \in Nat
        /\ StepIds \subseteq Nat /\ StepIds # {}
    BY PlanFacts
  <1>n. NoRun \in Runs /\ NoRun.pc = "idle"
    BY PlansAssumption DEF NoRun, Runs
  <1>1. CASE UNCHANGED planVars
    BY <1>t, <1>1 DEF planVars, PlanInv, PlanTypeOK, RunnerFits, StepsFit, NothingPending, Called, Ran, InTurn
  <1>2. CASE Propose \/ DecidePlan
    <2>1. /\ \A r \in Runners : runner[r] = NoRun
          /\ \A i \in StepIds : stepJobs[i] = 0 /\ stepApprovals[i] = 0 /\ planStep[i].status = "pending"
      BY <1>2, NothingRan DEF Propose, DecidePlan
    <2>2. UNCHANGED <<runner, planLock, stepJobs, stepApprovals, lost>>
      BY <1>2 DEF Propose, DecidePlan
    <2>3. planStatus' \in {"proposed", "approved", "rejected"}
      BY <1>2 DEF Propose, DecidePlan
    <2>4. planStep' \in [StepIds -> StepRow] /\ \A i \in StepIds : planStep'[i].status = "pending"
      <3>1. CASE Propose
        <4>1. PICK d \in [StepIds -> BOOLEAN], v \in [StepIds -> BOOLEAN] :
                planStep' = [i \in StepIds |-> [dangerous |-> d[i], valid |-> v[i], status |-> "pending"]]
          BY <3>1 DEF Propose
        <4> QED
          BY <4>1 DEF StepRow
      <3>2. CASE DecidePlan
        BY <1>t, <2>1, <3>2 DEF DecidePlan
      <3> QED
        BY <1>2, <3>1, <3>2
    <2>5. PlanTypeOK'
      BY <1>t, <2>2, <2>3, <2>4 DEF PlanTypeOK
    <2>6. RunnerFits'
      BY <1>n, <2>1, <2>2 DEF RunnerFits
    <2>7. StepsFit'
      BY <1>t, <2>1, <2>2, <2>4 DEF StepsFit, Ran
    <2> QED
      BY <2>3, <2>5, <2>6, <2>7 DEF PlanInv, NothingPending
  <1>3. ASSUME NEW r \in Runners, NEW i \in StepIds, RunSelect(r, i) PROVE PlanInv'
    <2>1. PICK n : n = [NoRun EXCEPT !.pc = "call", !.index = i]
      OBVIOUS
    <2>2. n \in Runs /\ n.pc = "call" /\ n.index = i
      <3>1. i \in 0..PlanSteps
        BY PlansAssumption DEF StepIds
      <3>2. n = [pc |-> "call", index |-> i, status |-> "absent"]
        BY <2>1 DEF NoRun
      <3> QED
        BY <3>1, <3>2 DEF Runs
    <2>3. /\ runner' = [runner EXCEPT ![r] = n] /\ planLock = NoRunner /\ planLock' = r
          /\ planStatus = "approved" /\ InTurn(i) /\ planStep[i].status = "pending" /\ planStep[i].valid
          /\ UNCHANGED <<planStatus, planStep, stepJobs, stepApprovals, lost>>
      BY <1>3, <2>1 DEF RunSelect, LockPlan
    <2>4. \A o \in Runners : runner[o] = NoRun
      BY <1>t, <2>3 DEF RunnerFits, Runners, NoRunner
    <2>5. runner' \in [Runners -> Runs] /\ \A o \in Runners \ {r} : runner'[o] = NoRun
      BY <1>t, <2>2, <2>3, <2>4
    <2>6. runner'[r] = n
      BY <1>t, <2>3
    <2>7. PlanTypeOK'
      BY <1>t, <2>3, <2>5 DEF PlanTypeOK, Runs
    <2>8. RunnerFits'
      BY <1>n, <2>2, <2>3, <2>5, <2>6 DEF RunnerFits, InTurn
    <2>9. \A j \in StepIds : ~Called(j)' /\ ~Called(j)
      BY <1>n, <2>2, <2>4, <2>5, <2>6 DEF Called
    <2>10. StepsFit'
      BY <1>t, <2>3, <2>9 DEF StepsFit, Ran, InTurn
    <2> QED
      BY <1>t, <2>3, <2>7, <2>8, <2>10 DEF PlanInv, NothingPending
  <1>4. ASSUME NEW r \in Runners, RunCall(r) PROVE PlanInv'
    <2>1. PICK i \in StepIds : i = runner[r].index
      BY <1>4, OneRunner DEF RunCall
    <2>2. /\ runner[r].pc = "call" /\ UNCHANGED <<planStatus, planStep, planLock, lost>>
          /\ \/ stepApprovals' = [stepApprovals EXCEPT ![i] = @ + 1] /\ UNCHANGED stepJobs
             \/ stepJobs' = [stepJobs EXCEPT ![i] = 1] /\ UNCHANGED stepApprovals
      BY <1>4, <2>1 DEF RunCall, SubmitStep
    <2>3. PICK s \in {"awaiting_approval", "submitted"} :
             runner' = [runner EXCEPT ![r].pc = "record", ![r].status = s]
      BY <1>4, <2>1 DEF RunCall
    <2>4. /\ \A o \in Runners \ {r} : runner[o] = NoRun
          /\ planLock = r /\ planStatus = "approved" /\ InTurn(i)
          /\ planStep[i].status = "pending" /\ planStep[i].valid
      BY <2>1, <2>2, OneRunner
    <2>5. /\ runner' \in [Runners -> Runs]
          /\ runner'[r].pc = "record" /\ runner'[r].status = s /\ runner'[r].index = i
          /\ \A o \in Runners \ {r} : runner'[o] = NoRun
      <3>1. runner[r] \in Runs
        BY <1>t
      <3> QED
        BY <1>t, <2>1, <2>3, <2>4, <3>1 DEF Runs
    <2>6. /\ stepJobs' \in [StepIds -> Nat] /\ stepApprovals' \in [StepIds -> Nat]
          /\ stepJobs'[i] <= 1 /\ stepApprovals'[i] <= stepApprovals[i] + 1
          /\ stepJobs'[i] + stepApprovals'[i] > 0
          /\ \A j \in StepIds \ {i} : stepJobs'[j] = stepJobs[j] /\ stepApprovals'[j] = stepApprovals[j]
      <3>1. stepJobs[i] <= 1
        BY <1>t DEF StepsFit
      <3> QED
        BY <1>t, <2>2, <3>1 DEF PlanTypeOK
    <2>7. PlanTypeOK'
      BY <1>t, <2>2, <2>5, <2>6 DEF PlanTypeOK, Runs
    <2>8. RunnerFits'
      BY <1>n, <2>2, <2>4, <2>5, <2>6 DEF RunnerFits, Ran, InTurn
    <2>9. Called(i)' /\ \A j \in StepIds \ {i} : ~Called(j)' /\ ~Called(j)
      BY <1>n, <2>1, <2>2, <2>4, <2>5 DEF Called
    <2>10. ~Called(i)
      BY <1>n, <2>2, <2>4 DEF Called
    <2>11. StepsFit'
      <3> SUFFICES ASSUME NEW j \in StepIds
                   PROVE  /\ stepJobs'[j] <= 1
                          /\ stepApprovals'[j] <= lost'[j] + (IF planStep'[j].status = "pending" /\ ~Called(j)' THEN 0 ELSE 1)
                          /\ planStep'[j].status # "pending" => stepJobs'[j] + stepApprovals'[j] > 0
                          /\ stepJobs'[j] + stepApprovals'[j] > 0 =>
                                planStatus' \in {"approved", "completed"} /\ planStep'[j].valid /\ InTurn(j)'
        BY DEF StepsFit, Ran
      <3>1. CASE j = i
        <4>1. stepApprovals[i] <= lost[i]
          BY <1>t, <2>4, <2>10 DEF StepsFit
        <4> QED
          BY <1>t, <2>2, <2>4, <2>6, <2>9, <3>1, <4>1 DEF PlanTypeOK, InTurn
      <3>2. CASE j # i
        BY <1>t, <2>2, <2>6, <2>9, <3>2 DEF StepsFit, Ran, InTurn
      <3> QED
        BY <3>1, <3>2
    <2> QED
      BY <1>t, <2>2, <2>7, <2>8, <2>11 DEF PlanInv, NothingPending
  <1>5. ASSUME NEW r \in Runners, RunRefused(r) PROVE PlanInv'
    <2>1. runner[r].pc = "call" /\ UNCHANGED <<planStatus, planStep, stepJobs, stepApprovals, lost>>
      BY <1>5 DEF RunRefused
    <2>2. /\ RunnerFits' /\ runner' \in [Runners -> Runs] /\ planLock' \in Runners \cup {NoRunner}
          /\ \A o \in Runners : runner'[o].pc = "idle"
      BY <1>5, <2>1, RunEnds DEF RunRefused
    <2>3. \A j \in StepIds : ~Called(j)' /\ ~Called(j)
      BY <1>n, <2>1, <2>2, OneRunner DEF Called
    <2>4. PlanTypeOK'
      BY <1>t, <2>1, <2>2 DEF PlanTypeOK, Runs
    <2>5. StepsFit'
      BY <1>t, <2>1, <2>3 DEF StepsFit, Ran, InTurn
    <2> QED
      BY <1>t, <2>1, <2>2, <2>4, <2>5 DEF PlanInv, NothingPending
  <1>6. ASSUME NEW r \in Runners, RunRecord(r) PROVE PlanInv'
    <2>1. PICK i \in StepIds : i = runner[r].index
      BY <1>6, OneRunner DEF RunRecord
    <2>2. PICK s \in {"awaiting_approval", "submitted"} : s = runner[r].status
      BY <1>6, <1>t DEF RunRecord, RunnerFits, Runs
    <2>3. /\ runner[r].pc = "record" /\ UNCHANGED <<stepJobs, stepApprovals, lost>>
          /\ planStep' = [planStep EXCEPT ![i].status = s]
          /\ planStatus' = IF \E j \in StepIds : planStep'[j].status = "pending" THEN planStatus ELSE "completed"
      BY <1>6, <2>1, <2>2 DEF RunRecord
    <2>4. /\ RunnerFits' /\ runner' \in [Runners -> Runs] /\ planLock' \in Runners \cup {NoRunner}
          /\ \A o \in Runners : runner'[o].pc = "idle"
      BY <1>6, <2>3, RunEnds DEF RunRecord
    <2>5. planStatus = "approved" /\ InTurn(i) /\ planStep[i].valid /\ Ran(i) > 0 /\ Called(i)
      BY <1>t, <2>1, <2>3, OneRunner DEF RunnerFits, Called
    <2>6. \A j \in StepIds : ~Called(j)'
      BY <2>4 DEF Called
    <2>7. /\ planStep' \in [StepIds -> StepRow] /\ planStep'[i].status = s
          /\ \A j \in StepIds : planStep'[j].valid = planStep[j].valid
          /\ \A j \in StepIds \ {i} : planStep'[j] = planStep[j]
      BY <1>t, <2>3 DEF StepRow
    <2>8. PlanTypeOK' /\ planStatus' \in {"approved", "completed"}
      BY <1>t, <2>3, <2>4, <2>5, <2>7 DEF PlanTypeOK, Runs
    <2>9. \A j \in StepIds \ {i} : ~Called(j)
      BY <1>n, <2>1, <2>3, OneRunner DEF Called
    <2>10. \A j \in StepIds : InTurn(j) => InTurn(j)'
      <3> SUFFICES ASSUME NEW j \in StepIds, InTurn(j), NEW k \in 1..(j - 1)
                   PROVE  planStep'[k].status # "pending"
        BY DEF InTurn
      <3>1. k \in StepIds
        BY PlansAssumption DEF StepIds
      <3> QED
        BY <2>7, <3>1 DEF InTurn
    <2>11. StepsFit'
      <3> SUFFICES ASSUME NEW j \in StepIds
                   PROVE  /\ stepJobs'[j] <= 1
                          /\ stepApprovals'[j] <= lost'[j] + (IF planStep'[j].status = "pending" /\ ~Called(j)' THEN 0 ELSE 1)
                          /\ planStep'[j].status # "pending" => Ran(j)' > 0
                          /\ Ran(j)' > 0 => planStatus' \in {"approved", "completed"} /\ planStep'[j].valid /\ InTurn(j)'
        BY DEF StepsFit
      <3>1. Ran(j)' = Ran(j) /\ stepJobs'[j] <= 1
        BY <1>t, <2>3 DEF Ran, StepsFit
      <3>2. Ran(j) > 0 => planStep[j].valid /\ InTurn(j)
        BY <1>t DEF StepsFit
      <3>3. planStep'[j].status # "pending" => Ran(j) > 0
        BY <1>t, <2>5, <2>7 DEF StepsFit
      <3>4. stepApprovals'[j] <= lost'[j] + (IF planStep'[j].status = "pending" /\ ~Called(j)' THEN 0 ELSE 1)
        <4>1. CASE j = i
          BY <1>t, <2>3, <2>5, <2>7, <4>1 DEF StepsFit
        <4>2. CASE j # i
          BY <1>t, <2>3, <2>6, <2>7, <2>9, <4>2 DEF StepsFit
        <4> QED
          BY <4>1, <4>2
      <3> QED
        BY <2>7, <2>8, <2>10, <3>1, <3>2, <3>3, <3>4
    <2>12. NothingPending'
      BY <2>3, <2>5 DEF NothingPending
    <2> QED
      BY <2>4, <2>8, <2>11, <2>12 DEF PlanInv
  <1>7. ASSUME NEW r \in Runners, RunLost(r) PROVE PlanInv'
    <2>1. PICK i \in StepIds : i = runner[r].index
      BY <1>7, OneRunner DEF RunLost
    <2>2. /\ runner[r].pc = "record" /\ lost[i] < MaxLost /\ lost' = [lost EXCEPT ![i] = @ + 1]
          /\ UNCHANGED <<planStatus, planStep, stepJobs, stepApprovals>>
      BY <1>7, <2>1 DEF RunLost
    <2>3. /\ RunnerFits' /\ runner' \in [Runners -> Runs] /\ planLock' \in Runners \cup {NoRunner}
          /\ \A o \in Runners : runner'[o].pc = "idle"
      BY <1>7, <2>2, RunEnds DEF RunLost
    <2>4. \A j \in StepIds : ~Called(j)'
      BY <2>3 DEF Called
    <2>5. Called(i) /\ \A j \in StepIds \ {i} : ~Called(j)
      BY <1>n, <2>1, <2>2, OneRunner DEF Called
    <2>6. PlanTypeOK'
      BY <1>t, <2>2, <2>3, PlansAssumption DEF PlanTypeOK, Runs
    <2>7. lost'[i] = lost[i] + 1 /\ \A j \in StepIds \ {i} : lost'[j] = lost[j]
      BY <1>t, <2>2 DEF PlanTypeOK
    <2>8. StepsFit'
      BY <1>t, <2>2, <2>4, <2>5, <2>7 DEF StepsFit, Ran, InTurn
    <2> QED
      BY <1>t, <2>2, <2>3, <2>6, <2>8 DEF PlanInv, NothingPending
  <1> QED
    BY <1>1, <1>2, <1>3, <1>4, <1>5, <1>6, <1>7 DEF PlanNext

\* The first state: no plan.
LEMMA PlanStart == PlanInit => PlanInv
  <1> SUFFICES ASSUME PlanInit PROVE PlanInv
    OBVIOUS
  <1>1. NoRun \in Runs /\ NoRun.pc = "idle"
    BY PlansAssumption DEF NoRun, Runs
  <1>2. \A i \in StepIds : planStep[i] \in StepRow /\ planStep[i].status = "pending"
    BY DEF PlanInit, StepRow
  <1>3. PlanTypeOK
    BY <1>1, <1>2, PlansAssumption DEF PlanInit, PlanTypeOK, Runs
  <1>4. RunnerFits
    BY <1>1 DEF PlanInit, RunnerFits
  <1>5. StepsFit
    BY <1>2 DEF PlanInit, StepsFit, Ran
  <1> QED
    BY <1>3, <1>4, <1>5 DEF PlanInit, PlanInv, NothingPending

\* However its steps are clicked, retried and interrupted, an approved plan is
\* followed in order, each ordinary step as one job.
THEOREM PlanFollowedHolds == PlanSpec => []PlanFollowed
  <1>1. PlanInv => PlanFollowed
    <2> SUFFICES ASSUME PlanInv PROVE PlanFollowed
      OBVIOUS
    <2>0. /\ StepsFit /\ NothingPending
          /\ \A i \in StepIds : stepJobs[i] \in Nat /\ stepApprovals[i] \in Nat /\ lost[i] \in Nat
      BY PlanFacts
    <2>1. ASSUME NEW i \in StepIds, Ran(i) > 0, NEW j \in 1..(i - 1) PROVE Ran(j) > 0
      <3>1. j \in StepIds /\ planStep[j].status # "pending"
        BY <2>0, <2>1, PlansAssumption DEF StepsFit, InTurn, StepIds
      <3> QED
        BY <2>0, <3>1 DEF StepsFit
    <2>2. \A i \in StepIds : stepJobs[i] <= 1 /\ stepApprovals[i] <= 1 + lost[i]
      BY <2>0 DEF StepsFit
    <2>3. planStatus = "completed" => \A i \in StepIds : Ran(i) > 0
      BY <2>0 DEF StepsFit, NothingPending
    <2> QED
      BY <2>0, <2>1, <2>2, <2>3 DEF PlanFollowed, StepsFit
  <1> QED
    BY <1>1, PlanStart, PlanStepInv, PTL DEF PlanSpec

-----------------------------------------------------------------------------
(* Agents: what is done for an agent was allowed while it was asked for.   *)

AnyBot == Bots \cup {NoBot}
AnyProfile == Profiles \cup {NoProfile}
TurnPcs == {"idle", "edit_bot", "delete_bot", "edit_profile", "delete_profile",
            "tool", "chat", "resolve", "converse"}
Chatting == {"chat", "resolve", "converse"}
TurnRecs == [pc: TurnPcs, by: Managers, bot: AnyBot, profile: AnyProfile,
             edit: BotEdits \cup ProfileEdits \cup {<<>>}, route: Seq(Providers)]

\* What a request has read is what the rows were at one moment of it, and what
\* it checked of that still holds of its copy.
Witnessed(r, W) ==
    /\ r.pc = "tool" => /\ r.bot.status = "active" /\ r.bot.tools # {}
                        /\ \E w \in W : w[1] = r.bot
    /\ r.pc \in Chatting /\ r.bot # NoBot => /\ r.bot.status = "active" /\ "ai.use" \in r.bot.scope
                                            /\ \E w \in W : w[1] = r.bot
    /\ r.pc \in {"resolve", "converse"} => r.profile \in Profiles /\ \E w \in W : w[2] = r.profile
    /\ r.pc = "converse" => ~(r.profile.privacy = "restricted" /\ Head(r.route) = "cloud")

\* An edit carries a row that was there and a value of its field.
Edited(r) ==
    /\ r.pc = "edit_bot" => r.bot \in Bots /\ r.edit \in BotEdits
    /\ r.pc = "edit_profile" => r.profile \in Profiles /\ r.edit \in ProfileEdits

AgInv ==
    /\ bot \in AnyBot /\ profile \in AnyProfile
    /\ turn \in [Turns -> TurnRecs]
    /\ DOMAIN moments = Turns
    /\ \A t \in Turns : Witnessed(turn[t], moments[t]) /\ Edited(turn[t])
    /\ ActsAsConfigured

\* The requests, one by one.
Requests == turn \in [Turns -> TurnRecs]
            /\ \A t \in Turns : Witnessed(turn[t], moments[t]) /\ Edited(turn[t])

LEMMA NoTurnFacts ==
    /\ NoTurn \in TurnRecs /\ NoTurn.pc = "idle"
    /\ \A W : Witnessed(NoTurn, W) /\ Edited(NoTurn)
  BY DEF NoTurn, TurnRecs, TurnPcs, Managers, AnyBot, AnyProfile, Witnessed, Edited, Chatting

\* What a request has seen it goes on having seen.
LEMMA StillWitnessed ==
    ASSUME AgInv, Watch, NEW t \in Turns, turn'[t] = turn[t]
    PROVE  Witnessed(turn'[t], moments'[t]) /\ Edited(turn'[t])
  <1>1. turn[t].pc # "idle" => moments'[t] = moments[t] \cup {<<bot', profile'>>}
    BY DEF Watch
  <1> QED
    BY <1>1 DEF AgInv, Witnessed, Edited, Chatting

\* One request moves on, the others stay.
LEMMA OneMoves ==
    ASSUME AgInv, Watch, NEW t \in Turns, NEW r \in TurnRecs, turn' = [turn EXCEPT ![t] = r],
           Witnessed(r, moments'[t]), Edited(r)
    PROVE  Requests'
  <1>1. turn' \in [Turns -> TurnRecs] /\ turn'[t] = r
    BY DEF AgInv
  <1>2. \A o \in Turns : o # t => turn'[o] = turn[o]
    BY DEF AgInv
  <1>3. \A o \in Turns : Witnessed(turn'[o], moments'[o]) /\ Edited(turn'[o])
    BY <1>1, <1>2, StillWitnessed
  <1> QED
    BY <1>1, <1>3 DEF Requests

LEMMA NoneMoves == ASSUME AgInv, Watch, UNCHANGED turn PROVE Requests'
  BY StillWitnessed DEF AgInv, Requests

\* A request that has only just read has seen what it read.
LEMMA NowSeen ==
    ASSUME AgInv, Watch, NEW t \in Turns, turn'[t].pc # "idle", UNCHANGED <<bot, profile>>
    PROVE  \E w \in moments'[t] : w[1] = bot /\ w[2] = profile
  <1>1. moments'[t] = moments[t] \cup {<<bot', profile'>>}
    BY DEF Watch
  <1>2. <<bot, profile>> \in moments'[t]
    BY <1>1
  <1>3. <<bot, profile>>[1] = bot /\ <<bot, profile>>[2] = profile
    OBVIOUS
  <1> QED
    BY <1>2, <1>3, Zenon

\* The reads at the start of a request.
LEMMA ReadStep ==
    ASSUME AgInv, Watch, NEW t \in Turns, NEW u \in Managers,
           \/ ExecuteRead(t, u) \/ RunAgent(t, u) \/ Chat(t, u)
           \/ DeleteAgentRead(t) \/ DeleteProfileRead(t)
           \/ \E e \in BotEdits : UpdateAgentRead(t, u, e)
           \/ \E e \in ProfileEdits : UpdateProfileRead(t, e)
    PROVE  Requests' /\ UNCHANGED <<bot, profile>> /\ deed' = NoDeed
  <1>0. bot \in AnyBot /\ profile \in AnyProfile /\ "admin" \in Managers
        /\ turn \in [Turns -> TurnRecs]
    BY DEF AgInv, Managers
  <1>1. ASSUME NEW r \in TurnRecs, Asks(t, r), Edited(r), r.pc # "idle",
               r.pc = "tool" => r.bot = bot /\ bot.status = "active" /\ bot.tools # {},
               r.pc \in Chatting => /\ r.pc = "chat"
                                    /\ r.bot # NoBot => /\ r.bot = bot /\ bot.status = "active"
                                                        /\ "ai.use" \in bot.scope
        PROVE  Requests' /\ UNCHANGED <<bot, profile>> /\ deed' = NoDeed
    <2>1. UNCHANGED <<bot, profile>> /\ deed' = NoDeed /\ turn' = [turn EXCEPT ![t] = r]
      BY <1>1 DEF Asks, rows
    <2>2. turn'[t] = r
      BY <1>0, <2>1
    <2>3. \E w \in moments'[t] : w[1] = bot
      BY <1>1, <2>1, <2>2, NowSeen
    <2>4. Witnessed(r, moments'[t])
      BY <1>1, <2>3 DEF Witnessed, Chatting
    <2> QED
      BY <1>1, <2>1, <2>4, OneMoves
  <1>2. CASE ExecuteRead(t, u)
    <2> DEFINE r == [NoTurn EXCEPT !.pc = "tool", !.by = u, !.bot = bot]
    <2>1. r \in TurnRecs /\ r.pc = "tool" /\ r.bot = bot
      BY <1>0, NoTurnFacts DEF TurnRecs, TurnPcs
    <2>2. Asks(t, r) /\ bot.status = "active" /\ bot.tools # {}
      BY <1>2 DEF ExecuteRead
    <2> HIDE DEF r
    <2> QED
      BY <1>1, <2>1, <2>2 DEF Edited, Chatting
  <1>3. CASE RunAgent(t, u)
    <2> DEFINE r == [NoTurn EXCEPT !.pc = "chat", !.by = u, !.bot = bot]
    <2>1. r \in TurnRecs /\ r.pc = "chat" /\ r.bot = bot
      BY <1>0, NoTurnFacts DEF TurnRecs, TurnPcs
    <2>2. Asks(t, r) /\ bot.status = "active" /\ "ai.use" \in bot.scope
      BY <1>3 DEF RunAgent
    <2> HIDE DEF r
    <2> QED
      BY <1>1, <2>1, <2>2 DEF Edited, Chatting
  <1>4. CASE Chat(t, u)
    <2> DEFINE r == [NoTurn EXCEPT !.pc = "chat", !.by = u]
    <2>1. r \in TurnRecs /\ r.pc = "chat" /\ r.bot = NoBot
      BY <1>0, NoTurnFacts DEF TurnRecs, TurnPcs, NoTurn
    <2>2. Asks(t, r)
      BY <1>4 DEF Chat
    <2> HIDE DEF r
    <2> QED
      BY <1>1, <2>1, <2>2 DEF Edited, Chatting
  <1>5. CASE DeleteAgentRead(t)
    <2> DEFINE r == [NoTurn EXCEPT !.pc = "delete_bot", !.bot = bot]
    <2>1. r \in TurnRecs /\ r.pc = "delete_bot"
      BY <1>0, NoTurnFacts DEF TurnRecs, TurnPcs
    <2>2. Asks(t, r)
      BY <1>5 DEF DeleteAgentRead
    <2> HIDE DEF r
    <2> QED
      BY <1>1, <2>1, <2>2 DEF Edited, Chatting
  <1>6. CASE DeleteProfileRead(t)
    <2> DEFINE r == [NoTurn EXCEPT !.pc = "delete_profile", !.profile = profile]
    <2>1. r \in TurnRecs /\ r.pc = "delete_profile"
      BY <1>0, NoTurnFacts DEF TurnRecs, TurnPcs
    <2>2. Asks(t, r)
      BY <1>6 DEF DeleteProfileRead
    <2> HIDE DEF r
    <2> QED
      BY <1>1, <2>1, <2>2 DEF Edited, Chatting
  <1>7. ASSUME NEW e \in BotEdits, UpdateAgentRead(t, u, e)
        PROVE  Requests' /\ UNCHANGED <<bot, profile>> /\ deed' = NoDeed
    <2> DEFINE r == [NoTurn EXCEPT !.pc = "edit_bot", !.by = u, !.bot = bot, !.edit = e]
    <2>1. r \in TurnRecs /\ r.pc = "edit_bot" /\ r.bot = bot /\ r.edit = e
      BY <1>0, NoTurnFacts DEF TurnRecs, TurnPcs
    <2>2. Asks(t, r) /\ bot # NoBot
      BY <1>7, Zenon DEF UpdateAgentRead
    <2>3. bot \in Bots
      BY <1>0, <2>2 DEF AnyBot
    <2> HIDE DEF r
    <2> QED
      BY <1>1, <2>1, <2>2, <2>3 DEF Edited, Chatting
  <1>8. ASSUME NEW e \in ProfileEdits, UpdateProfileRead(t, e)
        PROVE  Requests' /\ UNCHANGED <<bot, profile>> /\ deed' = NoDeed
    <2> DEFINE r == [NoTurn EXCEPT !.pc = "edit_profile", !.profile = profile, !.edit = e]
    <2>1. r \in TurnRecs /\ r.pc = "edit_profile" /\ r.profile = profile /\ r.edit = e
      BY <1>0, NoTurnFacts DEF TurnRecs, TurnPcs
    <2>2. Asks(t, r) /\ profile # NoProfile
      BY <1>8, Zenon DEF UpdateProfileRead
    <2>3. profile \in Profiles
      BY <1>0, <2>2 DEF AnyProfile
    <2> HIDE DEF r
    <2> QED
      BY <1>1, <2>1, <2>2, <2>3 DEF Edited, Chatting
  <1> QED
    BY <1>2, <1>3, <1>4, <1>5, <1>6, <1>7, <1>8, Zenon

\* A step that does nothing outside the database.
LEMMA Idle == deed' = NoDeed => ActsAsConfigured'
  BY DEF NoDeed, ActsAsConfigured

RowsTyped == bot \in AnyBot /\ profile \in AnyProfile

\* The statements, and the writes at the end of an edit.
LEMMA WriteStep ==
    ASSUME AgInv, Watch,
           \/ \E u \in Managers, T \in SUBSET Tools, S \in SUBSET Scopes : CreateAgent(u, T, S)
           \/ \E s \in {"active", "disabled"} : SetStatus(s)
           \/ \E p \in Profiles : CreateProfile(p)
           \/ \E t \in Turns : \/ UpdateAgentWrite(t) \/ DeleteAgentWrite(t)
                               \/ UpdateProfileWrite(t) \/ DeleteProfileWrite(t)
           \/ \E m \in Providers :
                 \/ \E s \in {"active", "disabled"} : UpsertProvider(m, s)
                 \/ \E s \in {"available", "unavailable"} : UpsertModel(m, s)
                 \/ DeleteProvider(m) \/ DeleteModel(m)
    PROVE  Requests' /\ RowsTyped' /\ deed' = NoDeed
  <1>0. /\ bot \in AnyBot /\ profile \in AnyProfile /\ turn \in [Turns -> TurnRecs]
        /\ NoBot \in AnyBot /\ NoProfile \in AnyProfile
    BY DEF AgInv, AnyBot, AnyProfile
  <1>1. Statement => Requests' /\ deed' = NoDeed
    BY NoneMoves DEF Statement
  <1>2. \A t \in Turns : Answers(t) => Requests'
    BY OneMoves, NoTurnFacts DEF Answers, Continues
  <1>3. ASSUME NEW u \in Managers, NEW T \in SUBSET Tools, NEW S \in SUBSET Scopes, CreateAgent(u, T, S)
        PROVE  Requests' /\ RowsTyped' /\ deed' = NoDeed
    <2>1. [status |-> "disabled", tools |-> T, scope |-> S] \in AnyBot
      BY DEF AnyBot, Bots
    <2> QED
      BY <1>0, <1>1, <1>3, <2>1, Zenon DEF CreateAgent, RowsTyped
  <1>4. ASSUME NEW s \in {"active", "disabled"}, SetStatus(s)
        PROVE  Requests' /\ RowsTyped' /\ deed' = NoDeed
    <2>1. bot \in Bots
      BY <1>0, <1>4 DEF SetStatus, AnyBot
    <2>2. [bot EXCEPT !.status = s] \in AnyBot
      BY <2>1 DEF AnyBot, Bots
    <2> QED
      BY <1>0, <1>1, <1>4, <2>2, Zenon DEF SetStatus, RowsTyped
  <1>5. ASSUME NEW p \in Profiles, CreateProfile(p) PROVE Requests' /\ RowsTyped' /\ deed' = NoDeed
    <2>1. p \in AnyProfile
      BY DEF AnyProfile
    <2> QED
      BY <1>0, <1>1, <1>5, <2>1, Zenon DEF CreateProfile, RowsTyped
  <1>6. ASSUME NEW t \in Turns, UpdateAgentWrite(t) PROVE Requests' /\ RowsTyped' /\ deed' = NoDeed
    <2>1. turn[t].pc = "edit_bot" /\ Answers(t) /\ deed' = NoDeed /\ profile' = profile
      BY <1>6, Zenon DEF UpdateAgentWrite, Here
    <2>2. turn[t].bot \in Bots /\ turn[t].edit \in BotEdits
      BY <2>1 DEF AgInv, Edited
    <2>3. CASE bot = NoBot
      BY <1>0, <1>2, <1>6, <2>1, <2>3 DEF UpdateAgentWrite, RowsTyped
    <2>4. CASE bot # NoBot
      <3> DEFINE T == IF turn[t].edit[1] = "tools" THEN turn[t].edit[2] ELSE turn[t].bot.tools
                 S == IF turn[t].edit[1] = "scope" THEN turn[t].edit[2] ELSE turn[t].bot.scope
      <3>1. T \in SUBSET Tools /\ S \in SUBSET Scopes
        BY <2>2 DEF Bots, BotEdits
      <3>2. bot' = [bot EXCEPT !.tools = T, !.scope = S]
        BY <1>6, <2>4, Zenon DEF UpdateAgentWrite
      <3>3. bot \in Bots
        BY <1>0, <2>4 DEF AnyBot
      <3> HIDE DEF T, S
      <3>4. bot' \in AnyBot
        BY <3>1, <3>2, <3>3 DEF AnyBot, Bots
      <3> QED
        BY <1>0, <1>2, <2>1, <3>4 DEF RowsTyped
    <2> QED
      BY <2>3, <2>4
  <1>7. ASSUME NEW t \in Turns, UpdateProfileWrite(t) PROVE Requests' /\ RowsTyped' /\ deed' = NoDeed
    <2>1. turn[t].pc = "edit_profile" /\ Answers(t) /\ deed' = NoDeed /\ bot' = bot
      BY <1>7, Zenon DEF UpdateProfileWrite, Here
    <2>2. turn[t].profile \in Profiles /\ turn[t].edit \in ProfileEdits
      BY <2>1 DEF AgInv, Edited
    <2>3. CASE profile = NoProfile
      BY <1>0, <1>2, <1>7, <2>1, <2>3 DEF UpdateProfileWrite, RowsTyped
    <2>4. CASE profile # NoProfile
      <3> DEFINE v == IF turn[t].edit[1] = "privacy" THEN turn[t].edit[2] ELSE turn[t].profile.privacy
                 w == IF turn[t].edit[1] = "route" THEN turn[t].edit[2] ELSE turn[t].profile.route
      <3>1. v \in {"internal", "restricted"} /\ w \in Routes
        BY <2>2 DEF Profiles, ProfileEdits
      <3>2. profile' = [privacy |-> v, route |-> w]
        BY <1>7, <2>4, Zenon DEF UpdateProfileWrite
      <3> HIDE DEF v, w
      <3>3. profile' \in AnyProfile
        BY <3>1, <3>2 DEF AnyProfile, Profiles
      <3> QED
        BY <1>0, <1>2, <2>1, <3>3 DEF RowsTyped
    <2> QED
      BY <2>3, <2>4
  <1>8. ASSUME NEW t \in Turns, DeleteAgentWrite(t) \/ DeleteProfileWrite(t)
        PROVE  Requests' /\ RowsTyped' /\ deed' = NoDeed
    BY <1>0, <1>2, <1>8 DEF DeleteAgentWrite, DeleteProfileWrite, RowsTyped
  <1>9. ASSUME NEW m \in Providers,
               \/ \E s \in {"active", "disabled"} : UpsertProvider(m, s)
               \/ \E s \in {"available", "unavailable"} : UpsertModel(m, s)
               \/ DeleteProvider(m) \/ DeleteModel(m)
        PROVE  Requests' /\ RowsTyped' /\ deed' = NoDeed
    BY <1>0, <1>1, <1>9, Zenon DEF UpsertProvider, UpsertModel, DeleteProvider, DeleteModel, RowsTyped
  <1> QED
    BY <1>3, <1>4, <1>5, <1>6, <1>7, <1>8, <1>9, Zenon

\* A tool is run with the agent's own permissions.
LEMMA ToolStep ==
    ASSUME AgInv, Watch, NEW t \in Turns, ExecuteTool(t)
    PROVE  Requests' /\ RowsTyped' /\ ActsAsConfigured'
  <1>1. turn[t].pc = "tool" /\ Answers(t) /\ UNCHANGED <<bot, profile>>
    BY DEF ExecuteTool, Here, rows
  <1>2. Requests'
    BY <1>1, OneMoves, NoTurnFacts DEF Answers, Continues
  <1>3. RowsTyped'
    BY <1>1 DEF AgInv, RowsTyped
  <1>4. CASE ToolPermission \in turn[t].bot.scope
    <2> DEFINE d == [kind |-> "tool", model |-> "none", forBot |-> TRUE, during |-> moments[t]]
    <2>1. deed' = d
      BY <1>4, Zenon DEF ExecuteTool, AgentContext
    <2>2. d.kind = "tool" /\ d.model = "none" /\ d.during = moments[t]
      OBVIOUS
    <2>3. PICK w \in moments[t] : w[1] = turn[t].bot
      BY <1>1 DEF AgInv, Witnessed
    <2>4. turn[t].bot.status = "active" /\ turn[t].bot.tools # {}
      BY <1>1 DEF AgInv, Witnessed
    <2> HIDE DEF d
    <2> QED
      BY <1>2, <1>3, <1>4, <2>1, <2>2, <2>3, <2>4 DEF ActsAsConfigured
  <1>5. CASE ToolPermission \notin turn[t].bot.scope
    <2>1. deed' = NoDeed
      BY <1>5, Zenon DEF ExecuteTool, AgentContext
    <2> QED
      BY <1>2, <1>3, <2>1, Idle
  <1> QED
    BY <1>4, <1>5

\* A chat reads its profile, looks for a model, and speaks to it.
LEMMA ChatStep ==
    ASSUME AgInv, Watch, NEW t \in Turns, ChatProfile(t) \/ Resolve(t)
    PROVE  Requests' /\ RowsTyped' /\ deed' = NoDeed
  <1>0. /\ UNCHANGED <<bot, profile>> /\ deed' = NoDeed
        /\ bot \in AnyBot /\ profile \in AnyProfile /\ turn \in [Turns -> TurnRecs]
        /\ turn[t] \in TurnRecs /\ Witnessed(turn[t], moments[t])
    BY DEF ChatProfile, Resolve, AgInv, rows
  <1>1. Answers(t) => Requests'
    BY OneMoves, NoTurnFacts DEF Answers, Continues
  <1>2. CASE ChatProfile(t) /\ profile # NoProfile
    <2> DEFINE r == [turn[t] EXCEPT !.pc = "resolve", !.profile = profile, !.route = profile.route]
    <2>1. profile \in Profiles /\ profile.route \in Seq(Providers)
      <3>1. profile \in Profiles
        BY <1>0, <1>2 DEF AnyProfile
      <3>2. profile.route \in Routes
        BY <3>1 DEF Profiles
      <3>3. <<"cloud", "local">> \in Seq(Providers) /\ <<"local">> \in Seq(Providers)
        BY DEF Providers
      <3> QED
        BY <3>1, <3>2, <3>3 DEF Routes
    <2>2. r \in TurnRecs /\ r.pc = "resolve" /\ r.profile = profile /\ r.bot = turn[t].bot
      BY <1>0, <2>1 DEF TurnRecs, TurnPcs
    <2>3. turn' = [turn EXCEPT ![t] = r] /\ turn[t].pc = "chat"
      BY <1>2, Zenon DEF ChatProfile, Continues, Here
    <2> HIDE DEF r
    <2>4. turn'[t] = r
      BY <1>0, <2>3
    <2>5. \E w \in moments'[t] : w[2] = profile
      BY <1>0, <2>2, <2>4, NowSeen
    <2>6. moments[t] \subseteq moments'[t]
      BY <2>2, <2>4 DEF Watch
    <2>7. Witnessed(r, moments'[t]) /\ Edited(r)
      BY <1>0, <2>1, <2>2, <2>3, <2>5, <2>6 DEF Witnessed, Edited, Chatting
    <2> QED
      BY <1>0, <2>2, <2>3, <2>7, OneMoves DEF RowsTyped
  <1>3. CASE Resolve(t) /\ turn[t].route # <<>>
    <2>0. turn[t].pc = "resolve"
      BY <1>3 DEF Resolve, Here
    <2>1. CASE /\ Eligible(turn[t].profile, Head(turn[t].route))
               /\ Continues(t, [turn[t] EXCEPT !.pc = "converse"])
      <3> DEFINE r == [turn[t] EXCEPT !.pc = "converse"]
      <3>1. r \in TurnRecs /\ r.pc = "converse" /\ r.profile = turn[t].profile /\ r.bot = turn[t].bot
            /\ r.route = turn[t].route
        BY <1>0 DEF TurnRecs, TurnPcs
      <3>2. turn' = [turn EXCEPT ![t] = r]
        BY <2>1, Zenon DEF Continues
      <3> HIDE DEF r
      <3>3. turn'[t] = r
        BY <1>0, <3>2
      <3>4. moments[t] \subseteq moments'[t]
        BY <3>1, <3>3 DEF Watch
      <3>5. Witnessed(r, moments'[t]) /\ Edited(r)
        BY <1>0, <2>0, <2>1, <3>1, <3>4 DEF Witnessed, Edited, Chatting, Eligible
      <3> QED
        BY <1>0, <3>1, <3>2, <3>5, OneMoves DEF RowsTyped
    <2>2. CASE Continues(t, [turn[t] EXCEPT !.route = Tail(@)])
      <3> DEFINE r == [turn[t] EXCEPT !.route = Tail(@)]
      <3>0. turn[t].route \in Seq(Providers) /\ Tail(turn[t].route) \in Seq(Providers)
        BY <1>0, <1>3 DEF TurnRecs
      <3>1. r \in TurnRecs /\ r.pc = "resolve" /\ r.profile = turn[t].profile /\ r.bot = turn[t].bot
        BY <1>0, <2>0, <3>0 DEF TurnRecs, TurnPcs
      <3>2. turn' = [turn EXCEPT ![t] = r]
        BY <2>2, Zenon DEF Continues
      <3> HIDE DEF r
      <3>3. turn'[t] = r
        BY <1>0, <3>2
      <3>4. moments[t] \subseteq moments'[t]
        BY <3>1, <3>3 DEF Watch
      <3>5. Witnessed(r, moments'[t]) /\ Edited(r)
        BY <1>0, <2>0, <3>1, <3>4 DEF Witnessed, Edited, Chatting
      <3> QED
        BY <1>0, <3>1, <3>2, <3>5, OneMoves DEF RowsTyped
    <2> QED
      BY <1>3, <2>1, <2>2, Zenon DEF Resolve
  <1>4. CASE Answers(t)
    BY <1>0, <1>1, <1>4 DEF RowsTyped
  <1> QED
    BY <1>2, <1>3, <1>4, Zenon DEF ChatProfile, Resolve

LEMMA ConverseStep ==
    ASSUME AgInv, Watch, NEW t \in Turns, Converse(t)
    PROVE  Requests' /\ RowsTyped' /\ ActsAsConfigured'
  <1>1. turn[t].pc = "converse" /\ Answers(t) /\ UNCHANGED <<bot, profile>>
    BY DEF Converse, Here
  <1>2. Requests'
    BY <1>1, OneMoves, NoTurnFacts DEF Answers, Continues
  <1>3. RowsTyped'
    BY <1>1 DEF AgInv, RowsTyped
  <1>4. /\ deed'.kind = "chat" /\ deed'.model = Head(turn[t].route) /\ deed'.during = moments[t]
        /\ deed'.forBot <=> turn[t].bot # NoBot
    BY Zenon DEF Converse
  <1>5. turn[t].bot # NoBot =>
           \E w \in moments[t] : w[1].status = "active" /\ "ai.use" \in w[1].scope
    BY <1>1 DEF AgInv, Witnessed, Chatting
  <1>6. Head(turn[t].route) = "cloud" => \E w \in moments[t] : w[2].privacy = "internal"
    <2>1. turn[t].profile \in Profiles /\ \E w \in moments[t] : w[2] = turn[t].profile
      BY <1>1 DEF AgInv, Witnessed
    <2>2. Head(turn[t].route) = "cloud" => turn[t].profile.privacy # "restricted"
      BY <1>1 DEF AgInv, Witnessed
    <2> QED
      BY <2>1, <2>2 DEF Profiles
  <1>7. ActsAsConfigured'
    <2>1. deed'.kind # "tool"
      BY <1>4
    <2> QED
      BY <1>4, <1>5, <1>6, <2>1, Zenon DEF ActsAsConfigured
  <1> QED
    BY <1>2, <1>3, <1>7

\* Whatever administrators change while a request runs, what it does for an
\* agent was allowed at one moment of it.
THEOREM ActsAsConfiguredHolds == AgentsSpec => []ActsAsConfigured
  <1>1. AgentsInit => AgInv
    <2> SUFFICES ASSUME AgentsInit PROVE AgInv
      OBVIOUS
    <2>1. turn \in [Turns -> TurnRecs] /\ \A t \in Turns : turn[t] = NoTurn
      BY NoTurnFacts DEF AgentsInit
    <2>2. ActsAsConfigured
      BY DEF AgentsInit, NoDeed, ActsAsConfigured
    <2> QED
      BY <2>1, <2>2, NoTurnFacts DEF AgentsInit, AgInv, AnyBot, AnyProfile
  <1>2. AgInv /\ [AgentsNext]_agentVars => AgInv'
    <2> SUFFICES ASSUME AgInv, [AgentsNext]_agentVars PROVE AgInv'
      OBVIOUS
    <2>1. CASE AgentsNext
      <3>1. AgentStep /\ Watch /\ "admin" \in Managers
        BY <2>1 DEF AgentsNext, Managers
      <3>2. DOMAIN moments' = Turns
        BY <3>1 DEF Watch
      <3>3. Requests' /\ RowsTyped' /\ ActsAsConfigured'
        <4>1. Requests' /\ UNCHANGED <<bot, profile>> /\ deed' = NoDeed => RowsTyped'
          BY DEF AgInv, RowsTyped
        <4> QED
          BY <3>1, <4>1, Idle, ReadStep, WriteStep, ToolStep, ChatStep, ConverseStep, Zenon DEF AgentStep
      <3> QED
        BY <3>2, <3>3, Zenon DEF AgInv, Requests, RowsTyped
    <2>2. CASE UNCHANGED agentVars
      BY <2>2, Zenon DEF agentVars, AgInv, ActsAsConfigured, Witnessed, Edited
    <2> QED
      BY <2>1, <2>2
  <1>3. AgInv => ActsAsConfigured
    BY DEF AgInv
  <1> QED
    BY <1>1, <1>2, <1>3, PTL DEF AgentsSpec

=============================================================================
