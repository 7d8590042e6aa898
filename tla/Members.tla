------------------------------- MODULE Members -------------------------------
(***************************************************************************)
(* One organisation: its members and their roles (api/internal/tenancy,    *)
(* api/internal/rbac), its service account and API tokens                  *)
(* (api/internal/identity), and the platform administrators                *)
(* (api/internal/platformauth).                                            *)
(*                                                                         *)
(* A request resolves its AuthContext once, then calls one operation,      *)
(* which takes an action per statement or transaction: permissions and     *)
(* checks read early may be out of date when the write comes.  The foreign *)
(* keys of the schema act with the statement that touches them.            *)
(***************************************************************************)
EXTENDS Integers, FiniteSets

CONSTANTS
    Users,          \* people who have signed up
    MaxTokens,      \* bound: API tokens ever made
    MaxRequestsMade \* bound: requests ever made

ASSUME MembersAssumption ==
    /\ Users # {} /\ IsFiniteSet(Users)
    /\ "nobody" \notin Users /\ "service account" \notin Users
    /\ {MaxTokens, MaxRequestsMade} \subseteq Nat

VARIABLES
    orgExists,      \* the organizations row
    members,        \* organization_members
    held,           \* organization_member_roles
    custom,         \* the custom role: whether it exists, and its permissions
    svcAccount,     \* the service_accounts row
    token,          \* api_tokens
    admins,         \* platform_user_permissions: holders of platform.admins.manage
    caller,         \* the requests in progress
    requestsMade

memVars == <<orgExists, members, held, custom, svcAccount, token, admins, caller, requestsMade>>

Callers == {1, 2}
TokenIds == 1..MaxTokens
NoUser == "nobody"
Account == "service account"
Perms == {"organization.manage", "deploy"}
SystemRoles == {"owner", "member"}
RoleNames == SystemRoles \cup {"custom"}
NoCustom == [exists |-> FALSE, perms |-> {}]
NoToken == [status |-> "none", owner |-> NoUser, scopes |-> {}]
NoCall == [pc |-> "idle", actor |-> NoUser, perms |-> {}, user |-> NoUser, role |-> "none"]
Pcs == {"idle", "ready", "count", "remove", "assign", "update_role", "drop_role", "mint",
        "drop_account", "revoke_admin"}

MemTypeOK ==
    /\ orgExists \in BOOLEAN
    /\ members \subseteq Users
    /\ held \subseteq Users \X RoleNames
    /\ custom \in [exists: BOOLEAN, perms: SUBSET Perms]
    /\ svcAccount \in {"none", "active", "disabled"}
    /\ token \in [TokenIds -> [status: {"none", "live", "revoked", "deleted"},
                               owner: Users \cup {NoUser, Account}, scopes: SUBSET Perms]]
    /\ admins \subseteq Users
    /\ caller \in [Callers -> [pc: Pcs, actor: Users \cup {NoUser, Account}, perms: SUBSET Perms,
                               user: Users \cup {NoUser}, role: RoleNames \cup {"none"}]]
    /\ requestsMade \in 0..MaxRequestsMade

\* An organisation that CreateOrganization has just made.
MemInit ==
    /\ orgExists = TRUE
    /\ LET founder == CHOOSE u \in Users : TRUE
       IN  members = {founder} /\ held = {<<founder, "owner">>} /\ admins = {founder}
    /\ custom = NoCustom /\ svcAccount = "none"
    /\ token = [t \in TokenIds |-> NoToken]
    /\ caller = [c \in Callers |-> NoCall] /\ requestsMade = 0

orgVars == <<orgExists, members, held, custom, svcAccount, token, admins>>

Becomes(c, r) == caller' = [caller EXCEPT ![c] = r] /\ UNCHANGED requestsMade
Answered(c) == Becomes(c, NoCall)
Permitted(c) == caller[c].pc = "ready" /\ "organization.manage" \in caller[c].perms
RoleExists(r) == r \in SystemRoles \/ (r = "custom" /\ custom.exists)

-----------------------------------------------------------------------------
(* Authentication.                                                         *)

\* ResolvePermissions: the union of the permissions of the roles held.
RolePerms(r) == CASE r = "owner" -> Perms [] r = "custom" -> custom.perms [] OTHER -> {}
Resolved(u) == UNION {RolePerms(g[2]) : g \in {g \in held : g[1] = u}}

\* AuthContextForSession: a member, with the permissions of now.
AuthSession(c, u) ==
    /\ caller[c] = NoCall /\ requestsMade < MaxRequestsMade
    /\ u \in members
    /\ caller' = [caller EXCEPT ![c] = [NoCall EXCEPT !.pc = "ready", !.actor = u,
                                                      !.perms = Resolved(u)]]
    /\ requestsMade' = requestsMade + 1
    /\ UNCHANGED orgVars

\* Mutant: a revoked token authenticates.
IssuedEver(t) == token[t].status \in {"live", "revoked"}

\* Neither revoked nor expired.
Authenticates(t) == token[t].status = "live"

\* AuthContextForAPIToken: the scopes of the token, whatever its owner may do.
AuthToken(c, t) ==
    /\ caller[c] = NoCall /\ requestsMade < MaxRequestsMade
    /\ Authenticates(t)
    /\ caller' = [caller EXCEPT ![c] = [NoCall EXCEPT !.pc = "ready", !.actor = token[t].owner,
                                                      !.perms = token[t].scopes]]
    /\ requestsMade' = requestsMade + 1
    /\ UNCHANGED orgVars

\* The request fails at any point, or is refused.
Refused(c) ==
    /\ caller[c] # NoCall
    /\ Answered(c)
    /\ UNCHANGED orgVars

-----------------------------------------------------------------------------
(* Members and roles.                                                      *)

AddMember(c, u) ==
    /\ Permitted(c) /\ orgExists /\ u \notin members
    /\ members' = members \cup {u}
    /\ held' = held \cup {<<u, "member">>}
    /\ Answered(c)
    /\ UNCHANGED <<orgExists, custom, svcAccount, token, admins>>

\* RemoveMember and LeaveOrganization: is the member an owner?
RemoveIsOwner(c, u) ==
    /\ caller[c].pc = "ready" /\ (Permitted(c) \/ caller[c].actor = u)
    /\ Becomes(c, [caller[c] EXCEPT !.user = u,
                                    !.pc = IF <<u, "owner">> \in held THEN "count" ELSE "remove"])
    /\ UNCHANGED orgVars

\* The last owner stays.
RemoveCount(c) ==
    /\ caller[c].pc = "count"
    /\ Cardinality({g \in held : g[2] = "owner"}) > 1
    /\ Becomes(c, [caller[c] EXCEPT !.pc = "remove"])
    /\ UNCHANGED orgVars

\* ON DELETE CASCADE from organization_members takes the roles with it.
RemoveDelete(c) ==
    /\ caller[c].pc = "remove" /\ caller[c].user \in members
    /\ members' = members \ {caller[c].user}
    /\ held' = {g \in held : g[1] # caller[c].user}
    /\ Answered(c)
    /\ UNCHANGED <<orgExists, custom, svcAccount, token, admins>>

AssignCheck(c, u, r) ==
    /\ Permitted(c) /\ u \in members /\ RoleExists(r)
    /\ Becomes(c, [caller[c] EXCEPT !.pc = "assign", !.user = u, !.role = r])
    /\ UNCHANGED orgVars

\* The INSERT fails when the member or the role has gone since.
AssignInsert(c) ==
    /\ caller[c].pc = "assign" /\ caller[c].user \in members /\ RoleExists(caller[c].role)
    /\ held' = held \cup {<<caller[c].user, caller[c].role>>}
    /\ Answered(c)
    /\ UNCHANGED <<orgExists, members, custom, svcAccount, token, admins>>

RevokeRole(c, u, r) ==
    /\ Permitted(c) /\ <<u, r>> \in held
    /\ held' = held \ {<<u, r>>}
    /\ Answered(c)
    /\ UNCHANGED <<orgExists, members, custom, svcAccount, token, admins>>

\* No more than the caller's own permissions.
CreateRole(c, P) ==
    /\ Permitted(c) /\ orgExists /\ ~custom.exists /\ P \subseteq caller[c].perms
    /\ custom' = [exists |-> TRUE, perms |-> P]
    /\ Answered(c)
    /\ UNCHANGED <<orgExists, members, held, svcAccount, token, admins>>

UpdateRoleCheck(c, P) ==
    /\ Permitted(c) /\ custom.exists /\ P \subseteq caller[c].perms
    /\ Becomes(c, [caller[c] EXCEPT !.pc = "update_role", !.perms = P])
    /\ UNCHANGED orgVars

\* One transaction; the INSERTs fail when the role has gone since.
UpdateRolePermissions(c) ==
    /\ caller[c].pc = "update_role"
    /\ custom' = IF custom.exists THEN [custom EXCEPT !.perms = caller[c].perms] ELSE custom
    /\ Answered(c)
    /\ UNCHANGED <<orgExists, members, held, svcAccount, token, admins>>

DeleteRoleCheck(c) ==
    /\ Permitted(c) /\ custom.exists
    /\ \A g \in held : g[2] # "custom"
    /\ Becomes(c, [caller[c] EXCEPT !.pc = "drop_role"])
    /\ UNCHANGED orgVars

\* ON DELETE CASCADE takes the assignments made since the check with it.
DeleteRole(c) ==
    /\ caller[c].pc = "drop_role"
    /\ custom' = NoCustom
    /\ held' = {g \in held : g[2] # "custom"}
    /\ Answered(c)
    /\ UNCHANGED <<orgExists, members, svcAccount, token, admins>>

-----------------------------------------------------------------------------
(* API tokens and the service account.                                     *)

\* validateTokenScopes and insertAPIToken.
NewToken(owner, P) ==
    /\ P # {} /\ orgExists
    /\ \E t \in TokenIds :
          /\ token[t] = NoToken /\ \A s \in 1..(t - 1) : token[s] # NoToken
          /\ token' = [token EXCEPT ![t] = [status |-> "live", owner |-> owner, scopes |-> P]]

CreateAPIToken(c, P) ==
    /\ Permitted(c) /\ caller[c].actor \in Users /\ P \subseteq caller[c].perms
    /\ NewToken(caller[c].actor, P)
    /\ Answered(c)
    /\ UNCHANGED <<orgExists, members, held, custom, svcAccount, admins>>

\* CreateAPITokenForServiceAccount: serviceAccountExists, then the INSERT.
AccountTokenCheck(c) ==
    /\ Permitted(c) /\ svcAccount = "active"
    /\ Becomes(c, [caller[c] EXCEPT !.pc = "mint"])
    /\ UNCHANGED orgVars

AccountTokenInsert(c, P) ==
    /\ caller[c].pc = "mint" /\ svcAccount # "none" /\ P \subseteq caller[c].perms
    /\ NewToken(Account, P)
    /\ Answered(c)
    /\ UNCHANGED <<orgExists, members, held, custom, svcAccount, admins>>

\* RevokeAPIToken of the caller's own, AdminRevokeAPIToken of any.
RevokeAPIToken(c, t) ==
    /\ caller[c].pc = "ready" /\ token[t].status = "live"
    /\ Permitted(c) \/ token[t].owner = caller[c].actor
    /\ token' = [token EXCEPT ![t].status = "revoked"]
    /\ Answered(c)
    /\ UNCHANGED <<orgExists, members, held, custom, svcAccount, admins>>

CreateServiceAccount(c) ==
    /\ Permitted(c) /\ orgExists /\ svcAccount = "none"
    /\ svcAccount' = "active"
    /\ Answered(c)
    /\ UNCHANGED <<orgExists, members, held, custom, token, admins>>

\* In one transaction: the status, and every token still live.
DisableServiceAccount(c) ==
    /\ Permitted(c) /\ svcAccount # "none"
    /\ svcAccount' = "disabled"
    /\ token' = [t \in TokenIds |-> IF token[t].owner = Account /\ token[t].status = "live"
                                     THEN [token[t] EXCEPT !.status = "revoked"] ELSE token[t]]
    /\ Answered(c)
    /\ UNCHANGED <<orgExists, members, held, custom, admins>>

EnableServiceAccount(c) ==
    /\ Permitted(c) /\ svcAccount # "none"
    /\ svcAccount' = "active"
    /\ Answered(c)
    /\ UNCHANGED <<orgExists, members, held, custom, token, admins>>

DeleteAccountCheck(c) ==
    /\ Permitted(c) /\ svcAccount = "disabled"
    /\ Becomes(c, [caller[c] EXCEPT !.pc = "drop_account"])
    /\ UNCHANGED orgVars

\* ON DELETE CASCADE takes its tokens.
DeleteServiceAccount(c) ==
    /\ caller[c].pc = "drop_account" /\ svcAccount # "none"
    /\ svcAccount' = "none"
    /\ token' = [t \in TokenIds |-> IF token[t].owner = Account
                                     THEN [token[t] EXCEPT !.status = "deleted"] ELSE token[t]]
    /\ Answered(c)
    /\ UNCHANGED <<orgExists, members, held, custom, admins>>

-----------------------------------------------------------------------------
(* The platform.                                                           *)

GrantAdmin(c, u) ==
    /\ caller[c].pc = "ready" /\ caller[c].actor \in admins
    /\ admins' = admins \cup {u}
    /\ Answered(c)
    /\ UNCHANGED <<orgExists, members, held, custom, svcAccount, token>>

\* Nobody takes the permission from themselves when nobody else has it.
RevokeAdminCheck(c, u) ==
    /\ caller[c].pc = "ready" /\ caller[c].actor \in admins
    /\ u = caller[c].actor => admins # {u}
    /\ Becomes(c, [caller[c] EXCEPT !.pc = "revoke_admin", !.user = u])
    /\ UNCHANGED orgVars

RevokeAdmin(c) ==
    /\ caller[c].pc = "revoke_admin"
    /\ admins' = admins \ {caller[c].user}
    /\ Answered(c)
    /\ UNCHANGED <<orgExists, members, held, custom, svcAccount, token>>

\* BootstrapAdmin at the start of a process, for the user its environment names.
BootstrapAdmin(u) ==
    /\ admins' = admins \cup {u}
    /\ UNCHANGED <<orgExists, members, held, custom, svcAccount, token, caller, requestsMade>>

\* Everything the organisation owns goes with its row.
DeleteOrganization(c) ==
    /\ caller[c].pc = "ready" /\ caller[c].actor \in admins /\ orgExists
    /\ orgExists' = FALSE
    /\ members' = {} /\ held' = {} /\ custom' = NoCustom /\ svcAccount' = "none"
    /\ token' = [t \in TokenIds |-> IF token[t] = NoToken THEN NoToken
                                     ELSE [token[t] EXCEPT !.status = "deleted"]]
    /\ Answered(c)
    /\ UNCHANGED admins

MemNext ==
    \/ \E c \in Callers :
          \/ Refused(c)
          \/ RemoveCount(c) \/ RemoveDelete(c) \/ AssignInsert(c)
          \/ DeleteRoleCheck(c) \/ DeleteRole(c)
          \/ AccountTokenCheck(c) \/ CreateServiceAccount(c) \/ DisableServiceAccount(c)
          \/ EnableServiceAccount(c) \/ DeleteAccountCheck(c) \/ DeleteServiceAccount(c)
          \/ RevokeAdmin(c) \/ DeleteOrganization(c)
          \/ \E u \in Users : \/ AuthSession(c, u) \/ AddMember(c, u) \/ RemoveIsOwner(c, u)
                              \/ GrantAdmin(c, u) \/ RevokeAdminCheck(c, u)
                              \/ \E r \in RoleNames : AssignCheck(c, u, r) \/ RevokeRole(c, u, r)
          \/ \E t \in TokenIds : AuthToken(c, t) \/ RevokeAPIToken(c, t)
          \/ UpdateRolePermissions(c)
          \/ \E P \in SUBSET Perms : \/ CreateRole(c, P) \/ UpdateRoleCheck(c, P)
                                    \/ CreateAPIToken(c, P) \/ AccountTokenInsert(c, P)
    \/ \E u \in Users : BootstrapAdmin(u)

MemSpec == MemInit /\ [][MemNext]_memVars

-----------------------------------------------------------------------------
(* Properties.                                                             *)

Manages(P) == "organization.manage" \in P

\* Nobody is left who may manage the organisation: no member by the roles held,
\* no live token by its scopes, and no request that is under way.
Unmanaged ==
    /\ \A u \in members : ~Manages(Resolved(u))
    /\ \A t \in TokenIds : token[t].status = "live" => ~Manages(token[t].scopes)
    /\ \A c \in Callers : ~Manages(caller[c].perms)

\* "An org with zero owners has no one left who can manage it (assign roles,
\* add/remove members, etc.), an unrecoverable state nothing else in the
\* codebase can repair" (tenancy.go): once nobody is left, no sequence of
\* requests makes anybody a manager again, neither by the roles and the custom
\* role's permissions, nor by tokens of members that have gone or of the service
\* account, nor by requests that checked their permission earlier.
UnmanagedStays == [][Unmanaged => Unmanaged']_memVars

\* "A caller never observes a disabled service account whose tokens still
\* authenticate" (DisableServiceAccount).  It is not so: a token whose creation
\* found the account active may be stored after the account was disabled.
DisabledIsCutOff ==
    svcAccount = "disabled" =>
        \A t \in TokenIds : token[t].owner = Account => ~Authenticates(t)

\* DeleteRole refuses "if any member currently holds it ... rather than this
\* silently changing what a member can do".  It is not so: an assignment made
\* after the count goes with the role.
DeletionTakesNoRole ==
    [][(custom.exists /\ ~custom'.exists /\ orgExists') => \A g \in held : g[2] # "custom"]_memVars

\* RemoveMember and LeaveOrganization refuse "to remove the organization's last
\* remaining holder of the system 'owner' role".  It is not so: whether the member
\* is an owner, how many there are and the DELETE are three statements, and an
\* owner that goes or is made in between is not seen.
HasOwner == \E u \in members : <<u, "owner">> \in held
LastOwnerStays == [][(HasOwner /\ members' # members /\ orgExists') => HasOwner']_memVars

\* "Revoking the last remaining platform.admins.manage grant is refused"
\* (docs/SECURITY.md).  It is not so: two administrators may revoke each other,
\* or themselves, at once.
LastAdminStays == [][admins # {} => admins' # {}]_memVars
=============================================================================
