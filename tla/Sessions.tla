------------------------------ MODULE Sessions ------------------------------
(***************************************************************************)
(* The password, the sessions and the reset links of one account           *)
(* (api/internal/identity/identity.go).                                    *)
(*                                                                         *)
(* Requests of several clients run at once.  A request takes one action    *)
(* per statement or transaction it sends to the database: what it read in  *)
(* one may be out of date in the next.  A password is the number of its    *)
(* version; hashes and raw tokens are left out, a caller either has them   *)
(* or the request ends with an error and changes nothing.                  *)
(***************************************************************************)
EXTENDS Integers, FiniteSets

CONSTANTS
    MaxSessions,    \* bound: rows of sessions
    MaxLinks,       \* bound: rows of password_reset_tokens
    MaxPasswords    \* bound: passwords ever set

ASSUME SessionsAssumption ==
    /\ {MaxSessions, MaxLinks} \subseteq Nat
    /\ MaxPasswords \in Nat \ {0}    \* the one of the sign-up is the first

VARIABLES
    password,   \* the stored hash, as the version it was made from; 0: no account
    session,    \* the sessions table: status, the version the login verified
    link,       \* the password_reset_tokens table
    holder,     \* the client whose transaction has locked a reset link
    client,     \* the requests in progress
    resets      \* observation: how often each link has set the password

sessVars == <<password, session, link, holder, client, resets>>

Clients == {1, 2}
SessionIds == 1..MaxSessions
LinkIds == 1..MaxLinks
NoClient == 0
NoSession == 0
Resting == [pc |-> "idle", id |-> 0, verified |-> 0]

SessTypeOK ==
    /\ password \in 0..MaxPasswords
    /\ session \in [SessionIds -> [status: {"none", "live", "expired", "revoked"},
                                   under: 0..MaxPasswords]]
    /\ link \in [LinkIds -> {"none", "fresh", "expired", "used"}]
    /\ holder \in Clients \cup {NoClient}
    /\ client \in [Clients -> [pc: {"idle", "session", "keep", "change", "others", "link", "reset"},
                               id: 0..(MaxSessions + MaxLinks), verified: 0..MaxPasswords]]
    /\ resets \in [LinkIds -> Nat]

SessInit ==
    /\ password = 0
    /\ session = [s \in SessionIds |-> [status |-> "none", under |-> 0]]
    /\ link = [l \in LinkIds |-> "none"]
    /\ holder = NoClient
    /\ client = [c \in Clients |-> Resting]
    /\ resets = [l \in LinkIds |-> 0]

Doing(c, where) == client[c].pc = where
Goes(c, r) == client' = [client EXCEPT ![c] = r]
Leaves(c) == Goes(c, Resting)

\* Clients are interchangeable: a new request is made by the first that rests.
Calls(c) == Doing(c, "idle") /\ \A d \in Clients : d < c => ~Doing(d, "idle")

-----------------------------------------------------------------------------
(* Accounts and sessions.                                                  *)

\* The users row and its credential, in one transaction; users.email is unique.
SignUp ==
    /\ password = 0
    /\ password' = 1
    /\ UNCHANGED <<session, link, holder, client, resets>>

\* sessionUser: neither revoked nor expired.
Usable(s) == s # NoSession /\ session[s].status = "live"

\* UPDATE sessions SET revoked_at WHERE user_id AND id != kept AND revoked_at IS NULL
RevokedBut(kept) ==
    [s \in SessionIds |->
        IF session[s].status \in {"live", "expired"} /\ s # kept
          THEN [session[s] EXCEPT !.status = "revoked"] ELSE session[s]]

\* Login reads the hash and compares; no code disables a user.
LoginVerify(c) ==
    /\ Calls(c) /\ password # 0
    /\ Goes(c, [Resting EXCEPT !.pc = "session", !.verified = password])
    /\ UNCHANGED <<password, session, link, holder, resets>>

LoginInsert(c) ==
    /\ Doing(c, "session")
    /\ \E s \in SessionIds :
          /\ session[s].status = "none" /\ \A o \in 1..(s - 1) : session[o].status # "none"
          /\ session' = [session EXCEPT ![s] = [status |-> "live", under |-> client[c].verified]]
    /\ Leaves(c)
    /\ UNCHANGED <<password, link, holder, resets>>

\* Logout by token and RevokeSession by id.
EndSession(s) ==
    /\ session[s].status \in {"live", "expired"}
    /\ session' = [session EXCEPT ![s].status = "revoked"]
    /\ UNCHANGED <<password, link, holder, client, resets>>

ExpireSession(s) ==
    /\ session[s].status = "live"
    /\ session' = [session EXCEPT ![s].status = "expired"]
    /\ UNCHANGED <<password, link, holder, client, resets>>

\* RevokeAllOtherSessions resolves the caller's session, then revokes the others.
OthersResolve(c, s) ==
    /\ Calls(c) /\ Usable(s)
    /\ Goes(c, [Resting EXCEPT !.pc = "others", !.id = s])
    /\ UNCHANGED <<password, session, link, holder, resets>>

OthersRevoke(c) ==
    /\ Doing(c, "others")
    /\ session' = RevokedBut(client[c].id)
    /\ Leaves(c)
    /\ UNCHANGED <<password, link, holder, resets>>

-----------------------------------------------------------------------------
(* ChangePassword: verify, resolve the session to keep, one transaction.   *)

\* The caller authenticated with session s, or with an API token.
ChangeVerify(c, s) ==
    /\ Calls(c) /\ password # 0
    /\ s # NoSession => Usable(s)
    /\ Goes(c, [Resting EXCEPT !.pc = "keep", !.id = s, !.verified = password])
    /\ UNCHANGED <<password, session, link, holder, resets>>

ChangeResolve(c) ==
    /\ Doing(c, "keep")
    /\ Goes(c, [client[c] EXCEPT !.pc = "change",
                                 !.id = IF Usable(client[c].id) THEN client[c].id ELSE NoSession])
    /\ UNCHANGED <<password, session, link, holder, resets>>

ChangeCommit(c) ==
    /\ Doing(c, "change") /\ password < MaxPasswords
    /\ password' = password + 1
    /\ session' = RevokedBut(client[c].id)
    /\ Leaves(c)
    /\ UNCHANGED <<link, holder, resets>>

-----------------------------------------------------------------------------
(* Reset links.                                                            *)

\* CreatePasswordResetToken spends the links still open; a row that another
\* transaction has locked makes it wait.
SpendLinks(c) ==
    /\ Calls(c) /\ password # 0 /\ holder = NoClient
    /\ link' = [l \in LinkIds |-> IF link[l] \in {"fresh", "expired"} THEN "used" ELSE link[l]]
    /\ Goes(c, [Resting EXCEPT !.pc = "link"])
    /\ UNCHANGED <<password, session, holder, resets>>

InsertLink(c) ==
    /\ Doing(c, "link")
    /\ \E l \in LinkIds :
          /\ link[l] = "none" /\ \A o \in 1..(l - 1) : link[o] # "none"
          /\ link' = [link EXCEPT ![l] = "fresh"]
    /\ Leaves(c)
    /\ UNCHANGED <<password, session, holder, resets>>

ExpireLink(l) ==
    /\ link[l] = "fresh"
    /\ link' = [link EXCEPT ![l] = "expired"]
    /\ UNCHANGED <<password, session, holder, client, resets>>

\* Mutant: SELECT without FOR UPDATE.
UnlockedLink(c, l) == link[l] = "fresh" /\ holder' = holder

\* SELECT ... WHERE used_at IS NULL AND expires_at > now() FOR UPDATE: of two
\* transactions the second waits, and then finds the link used.
LockLink(c, l) == link[l] = "fresh" /\ holder = NoClient /\ holder' = c

ResetSelect(c, l) ==
    /\ Calls(c)
    /\ LockLink(c, l)
    /\ Goes(c, [Resting EXCEPT !.pc = "reset", !.id = l])
    /\ UNCHANGED <<password, session, link, resets>>

ResetCommit(c) ==
    /\ Doing(c, "reset") /\ password < MaxPasswords
    /\ password' = password + 1
    /\ session' = RevokedBut(NoSession)
    /\ link' = [link EXCEPT ![client[c].id] = "used"]
    /\ holder' = NoClient
    /\ resets' = [resets EXCEPT ![client[c].id] = @ + 1]
    /\ Leaves(c)

\* A request ends early: an error, or the client is gone.  A transaction it
\* has open is rolled back, what earlier statements wrote stays.
Abandon(c) ==
    /\ ~Doing(c, "idle")
    /\ holder' = IF holder = c THEN NoClient ELSE holder
    /\ Leaves(c)
    /\ UNCHANGED <<password, session, link, resets>>

SessNext ==
    \/ SignUp
    \/ \E c \in Clients :
          \/ LoginVerify(c) \/ LoginInsert(c)
          \/ OthersRevoke(c)
          \/ ChangeResolve(c) \/ ChangeCommit(c)
          \/ SpendLinks(c) \/ InsertLink(c)
          \/ ResetCommit(c) \/ Abandon(c)
          \/ \E s \in SessionIds : OthersResolve(c, s)
          \/ \E s \in SessionIds \cup {NoSession} : ChangeVerify(c, s)
          \/ \E l \in LinkIds : ResetSelect(c, l)
    \/ \E s \in SessionIds : EndSession(s) \/ ExpireSession(s)
    \/ \E l \in LinkIds : ExpireLink(l)

SessSpec == SessInit /\ [][SessNext]_sessVars

-----------------------------------------------------------------------------
\* A reset link sets the password at most once, whatever requests use it at
\* the same time (ResetPassword: the row is locked, and marked used in the
\* transaction that stores the hash).
ResetOnce == \A l \in LinkIds : resets[l] <= 1
=============================================================================
