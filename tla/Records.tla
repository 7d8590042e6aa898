------------------------------ MODULE Records ------------------------------
(***************************************************************************)
(* The DNS records of one domain (api/internal/network): the rows of       *)
(* dns_records, and the zone of the in-process provider                    *)
(* (api/internal/providers/local/dns.go), which a restart of the API       *)
(* empties and whose record ids then start again from one.                 *)
(*                                                                         *)
(* Two requests may be under way; each takes one action per statement and  *)
(* per call of the provider.  All records have the same name; they are     *)
(* numbered in the order of type and value, addresses before CNAMEs.  The  *)
(* removal of the domain is one operation whose certificates are in        *)
(* Certificates.tla.                                                       *)
(***************************************************************************)
EXTENDS Integers, FiniteSets

CONSTANTS
    Addresses,          \* records that are not CNAMEs
    Cnames,             \* CNAME records
    MaxRecords,         \* maxRecords
    MaxDnsRequests,     \* bound: requests
    MaxDnsFaults        \* bound: restarts of the API and statements that fail

\* The records that Validate accepts; it refuses a request for any other one
\* before anything else happens.
Names == Addresses \cup Cnames

ASSUME RecordsAssumption ==
    /\ Names \subseteq Nat /\ IsFiniteSet(Names)
    /\ \A a \in Addresses, c \in Cnames : a < c
    /\ {MaxRecords, MaxDnsRequests, MaxDnsFaults} \subseteq Nat

VARIABLES
    dnsRow,     \* dns_records: the key of each record's row and provider_record_id
    dnsDomain,  \* status, dns_status and deleted_at of the row of domains
    zone,       \* the provider: whether it knows the zone, the ids of its records, seq
    call,       \* the requests under way
    calls,      \* requests so far
    dnsFaults,
    \* an observation, read by no action
    done        \* the request that the last step completed, with success

dnsVars == <<dnsRow, dnsDomain, zone, call, calls, dnsFaults, done>>

DnsCalls == {1, 2}
Kinds == {"upsert", "delete", "sync", "check", "remove"}
Ids == 0..(MaxDnsRequests + 1) * Cardinality(Names)
NoRow == [key |-> 0, pid |-> 0]
NoZone == [known |-> FALSE, ids |-> [r \in Names |-> 0], seq |-> 0]
NoDnsCall == [pc |-> "idle", kind |-> "none", rec |-> 0, id |-> 0, seen |-> [r \in Names |-> NoRow],
           left |-> {}, all |-> FALSE, key |-> 0, lone |-> FALSE, whole |-> TRUE]
NotDone == [kind |-> "none", rec |-> 0, all |-> FALSE, written |-> FALSE]
Orders(S) ==
    {n \in [Names -> 0..Cardinality(S)] :
        /\ \A r \in Names : n[r] = 0 <=> r \notin S
        /\ \A r, s \in S : n[r] = n[s] => r = s}
Stored == {r \in Names : dnsRow[r] # NoRow}

DnsTypeOK ==
    /\ dnsRow \in [Names -> [key: 0..MaxDnsRequests + Cardinality(Names), pid: Ids]]
    /\ dnsDomain \in [status: {"pending", "active", "removed"}, dns: {"unknown", "pending", "ok"},
                      deleted: BOOLEAN]
    /\ zone \in [known: BOOLEAN, ids: [Names -> Ids], seq: Ids]
    /\ \A q \in DnsCalls : /\ call[q].pc \in {"idle", "read", "push", "store", "finish"}
                           /\ call[q].left \subseteq Names

\* The domain was added, its zone created, and the records S upserted, one after
\* the other.
DnsInit ==
    /\ \E S \in {{}, Addresses} : \E n \in Orders(S) :
          /\ zone = [known |-> TRUE, ids |-> n, seq |-> Cardinality(S)]
          /\ dnsRow = [r \in Names |-> IF r \in S THEN [key |-> MaxDnsRequests + n[r], pid |-> n[r]]
                                     ELSE NoRow]
    /\ dnsDomain = [status |-> "pending", dns |-> "unknown", deleted |-> FALSE]
    /\ call = [q \in DnsCalls |-> NoDnsCall] /\ calls = 0
    /\ dnsFaults = 0 /\ done = NotDone

-----------------------------------------------------------------------------
(* The course of a request.                                                *)

\* getDomain.  Requests are interchangeable: a new one takes the first place.
\* It is alone if no other one is under way until it ends.
GetDomain(q, kind, r) ==
    /\ call[q].pc = "idle" /\ \A o \in DnsCalls : o < q => call[o].pc # "idle"
    /\ calls < MaxDnsRequests /\ ~dnsDomain.deleted
    /\ calls' = calls + 1
    /\ call' = [p \in DnsCalls |->
                  IF p = q
                  THEN [NoDnsCall EXCEPT !.pc = "read", !.kind = kind, !.rec = r, !.key = calls + 1,
                                      !.lone = \A o \in DnsCalls : call[o].pc = "idle"]
                  ELSE [call[p] EXCEPT !.lone = FALSE]]
    /\ done' = NotDone /\ UNCHANGED <<dnsRow, dnsDomain, zone, dnsFaults>>

Stands(q, kind, pc) == call[q].kind = kind /\ call[q].pc = pc /\ UNCHANGED calls
Proceeds(q, c) == call' = [call EXCEPT ![q] = c] /\ done' = NotDone
Rejected(q) == Proceeds(q, NoDnsCall)
\* The request returns success.  Whether all its UPDATEs were done it does not
\* know: it ignores the error of those inside the loop of Sync (whole) and of
\* its last one (written).
Completes(q, written) ==
    /\ call' = [call EXCEPT ![q] = NoDnsCall]
    /\ done' = IF call[q].lone
               THEN [kind |-> call[q].kind, rec |-> call[q].rec, all |-> call[q].all,
                     written |-> call[q].whole /\ written]
               ELSE NotDone

DnsFault == dnsFaults < MaxDnsFaults /\ dnsFaults' = dnsFaults + 1

\* The request is at a statement whose failure ends it with an error: the calls
\* of the provider do not fail, and a request carries on when one fails in
\* SyncStore, RemoveRead, RemoveLoad, UpsertFinish or CheckFinish.  A Sync that
\* fails to read has ensured the zone before: see SyncRead.
AtStatement(q) ==
    \/ call[q].pc = "read" /\ call[q].kind \notin {"remove", "sync"}
    \/ call[q].pc = "store" /\ call[q].kind \in {"upsert", "delete"}
    \/ call[q].pc = "push" /\ call[q].left = {} /\ call[q].kind = "remove"
    \/ call[q].pc = "finish" /\ call[q].kind = "remove"
StatementFails(q) ==
    /\ AtStatement(q) /\ DnsFault /\ Rejected(q)
    /\ UNCHANGED <<dnsRow, dnsDomain, zone, calls>>

\* The API restarts: the requests end and the zones are gone.
RestartApi ==
    /\ DnsFault
    /\ zone' = NoZone /\ call' = [q \in DnsCalls |-> NoDnsCall] /\ done' = NotDone
    /\ UNCHANGED <<dnsRow, dnsDomain, calls>>

-----------------------------------------------------------------------------
(* The provider.                                                           *)

\* The id a pushed record has: that of the same record, or the next one.
PushedId(r) == IF zone.ids[r] # 0 THEN zone.ids[r] ELSE zone.seq + 1
Push(r) ==
    zone' = [zone EXCEPT !.ids[r] = PushedId(r),
                         !.seq = IF PushedId(r) > @ THEN PushedId(r) ELSE @]
\* DeleteRecord removes whatever record has the id, and is content with none.
Unpush(id) ==
    zone' = [zone EXCEPT !.ids = [r \in Names |-> IF zone.ids[r] = id THEN 0 ELSE zone.ids[r]]]
\* The provider's CheckPropagation.
Serves(r) == zone.ids[r] # 0

-----------------------------------------------------------------------------
(* UpsertRecord and DeleteRecord.                                          *)

\* Records of one name: a CNAME tolerates no other record, not even a CNAME.
Conflicts(r, s) == r # s /\ (r \in Cnames \/ s \in Cnames)

UpsertCheck(q) ==
    /\ Stands(q, "upsert", "read") /\ UNCHANGED <<dnsRow, dnsDomain, zone, dnsFaults>>
    /\ IF Cardinality(Stored) < MaxRecords /\ \A s \in Stored : ~Conflicts(call[q].rec, s)
       THEN Proceeds(q, [call[q] EXCEPT !.pc = "push"])
       ELSE Rejected(q)

UpsertPush(q) ==
    /\ Stands(q, "upsert", "push") /\ UNCHANGED <<dnsRow, dnsDomain, dnsFaults>>
    /\ IF zone.known
       THEN /\ Push(call[q].rec)
            /\ Proceeds(q, [call[q] EXCEPT !.pc = "store", !.id = PushedId(call[q].rec)])
       ELSE Rejected(q) /\ UNCHANGED zone

\* INSERT ... ON CONFLICT DO UPDATE.
UpsertStore(q) ==
    /\ Stands(q, "upsert", "store") /\ Proceeds(q, [call[q] EXCEPT !.pc = "finish"])
    /\ dnsRow' = [dnsRow EXCEPT ![call[q].rec] =
                     [key |-> IF @ = NoRow THEN call[q].key ELSE @.key, pid |-> call[q].id]]
    /\ UNCHANGED <<dnsDomain, zone, dnsFaults>>

\* The last UPDATE of domains, whose error is ignored.
SetsStatus(q, domain) ==
    \/ dnsDomain' = domain /\ Completes(q, TRUE) /\ UNCHANGED dnsFaults
    \/ DnsFault /\ Completes(q, FALSE) /\ UNCHANGED dnsDomain

\* dns_status = 'pending'.
UpsertFinish(q) ==
    /\ Stands(q, "upsert", "finish")
    /\ SetsStatus(q, [dnsDomain EXCEPT !.dns = "pending"])
    /\ UNCHANGED <<dnsRow, zone>>

DeleteLoad(q) ==
    /\ Stands(q, "delete", "read") /\ UNCHANGED <<dnsRow, dnsDomain, zone, dnsFaults>>
    /\ IF call[q].rec \in Stored
       THEN Proceeds(q, [call[q] EXCEPT !.pc = "push", !.seen = dnsRow,
                                    !.id = dnsRow[call[q].rec].pid])
       ELSE Rejected(q)

DeletePush(q) ==
    /\ Stands(q, "delete", "push") /\ Unpush(call[q].id)
    /\ Proceeds(q, [call[q] EXCEPT !.pc = "store"]) /\ UNCHANGED <<dnsRow, dnsDomain, dnsFaults>>

DeleteStore(q) ==
    /\ Stands(q, "delete", "store") /\ Completes(q, TRUE)
    /\ dnsRow' = [dnsRow EXCEPT ![call[q].rec] =
                     IF @.key = call[q].seen[call[q].rec].key THEN NoRow ELSE @]
    /\ UNCHANGED <<dnsDomain, zone, dnsFaults>>

-----------------------------------------------------------------------------
(* Sync, CheckPropagation and the removal of the domain: loops over the    *)
(* rows that were read.                                                    *)

First(S) == CHOOSE r \in S : \A s \in S : r <= s

ReadRows(q, pc) ==
    Proceeds(q, [call[q] EXCEPT !.pc = pc, !.seen = dnsRow, !.left = Stored, !.all = Stored # {}])

\* EnsureZone, and then the rows, or getDomain and neither.
SyncRead(q) ==
    /\ Stands(q, "sync", "read") /\ UNCHANGED <<dnsRow, dnsDomain>>
    /\ \/ /\ zone' = [zone EXCEPT !.known = TRUE]
          /\ \/ ReadRows(q, "push") /\ UNCHANGED dnsFaults
             \/ DnsFault /\ Rejected(q)
       \/ DnsFault /\ Rejected(q) /\ UNCHANGED zone

SyncPush(q) ==
    /\ Stands(q, "sync", "push") /\ call[q].left # {}
    /\ LET r == First(call[q].left) IN
          Push(r) /\ Proceeds(q, [call[q] EXCEPT !.pc = "store", !.id = PushedId(r)])
    /\ UNCHANGED <<dnsRow, dnsDomain, dnsFaults>>

\* Mutant: the row keeps the id it had.
SyncedBefore(row, id) == row

\* UPDATE dns_records SET provider_record_id.
Synced(row, id) == [row EXCEPT !.pid = id]

\* The UPDATE finds the row that was read, if it is still there; its error is
\* ignored.
SyncStore(q) ==
    /\ Stands(q, "sync", "store") /\ UNCHANGED <<dnsDomain, zone>>
    /\ LET r == First(call[q].left)
           next == [call[q] EXCEPT !.pc = "push", !.left = @ \ {r}]
       IN  \/ /\ dnsRow' = [dnsRow EXCEPT ![r] = IF @.key = call[q].seen[r].key
                                                 THEN Synced(@, call[q].id) ELSE @]
              /\ Proceeds(q, next) /\ UNCHANGED dnsFaults
           \/ DnsFault /\ Proceeds(q, [next EXCEPT !.whole = FALSE]) /\ UNCHANGED dnsRow

SyncFinish(q) ==
    /\ Stands(q, "sync", "push") /\ call[q].left = {} /\ Completes(q, TRUE)
    /\ UNCHANGED <<dnsRow, dnsDomain, zone, dnsFaults>>

CheckRead(q) ==
    /\ Stands(q, "check", "read") /\ ReadRows(q, "push")
    /\ UNCHANGED <<dnsRow, dnsDomain, zone, dnsFaults>>

CheckOne(q) ==
    /\ Stands(q, "check", "push") /\ call[q].left # {}
    /\ LET r == First(call[q].left) IN
          Proceeds(q, [call[q] EXCEPT !.left = @ \ {r}, !.all = @ /\ Serves(r)])
    /\ UNCHANGED <<dnsRow, dnsDomain, zone, dnsFaults>>

\* UPDATE domains ... WHERE id, whatever its status has become.
CheckFinish(q) ==
    /\ Stands(q, "check", "push") /\ call[q].left = {}
    /\ SetsStatus(q, IF call[q].all THEN [dnsDomain EXCEPT !.dns = "ok", !.status = "active"]
                     ELSE [dnsDomain EXCEPT !.dns = "pending"])
    /\ UNCHANGED <<dnsRow, zone>>

\* A failure to read counts as no records.
RemoveRead(q) ==
    /\ Stands(q, "remove", "read") /\ UNCHANGED <<dnsRow, dnsDomain, zone>>
    /\ \/ ReadRows(q, "push") /\ UNCHANGED dnsFaults
       \/ Proceeds(q, [call[q] EXCEPT !.pc = "push"]) /\ DnsFault

\* The id is read again; there is none if the row is gone or cannot be read.
RemoveLoad(q) ==
    /\ Stands(q, "remove", "push") /\ call[q].left # {}
    /\ LET r == First(call[q].left)  row == dnsRow[r]
           next == [call[q] EXCEPT !.pc = "store", !.left = @ \ {r}, !.id = 0]
       IN  \/ /\ Proceeds(q, [next EXCEPT !.id = IF row.key = call[q].seen[r].key
                                                 THEN row.pid ELSE 0])
              /\ UNCHANGED dnsFaults
           \/ DnsFault /\ Proceeds(q, next)
    /\ UNCHANGED <<dnsRow, dnsDomain, zone>>

RemovePush(q) ==
    /\ Stands(q, "remove", "store") /\ Proceeds(q, [call[q] EXCEPT !.pc = "push"])
    /\ Unpush(call[q].id) /\ UNCHANGED <<dnsRow, dnsDomain, dnsFaults>>

\* DELETE FROM dns_records WHERE domain_id.
RemoveRows(q) ==
    /\ Stands(q, "remove", "push") /\ call[q].left = {}
    /\ dnsRow' = [r \in Names |-> NoRow] /\ Proceeds(q, [call[q] EXCEPT !.pc = "finish"])
    /\ UNCHANGED <<dnsDomain, zone, dnsFaults>>

RemoveFinish(q) ==
    /\ Stands(q, "remove", "finish") /\ Completes(q, TRUE)
    /\ dnsDomain' = [dnsDomain EXCEPT !.status = "removed", !.deleted = TRUE]
    /\ UNCHANGED <<dnsRow, zone, dnsFaults>>

-----------------------------------------------------------------------------
DnsNext ==
    \/ RestartApi
    \/ \E q \in DnsCalls :
          \/ \E kind \in {"upsert", "delete"}, r \in Names : GetDomain(q, kind, r)
          \/ \E kind \in {"sync", "check", "remove"} : GetDomain(q, kind, 0)
          \/ UpsertCheck(q) \/ UpsertPush(q) \/ UpsertStore(q) \/ UpsertFinish(q)
          \/ DeleteLoad(q) \/ DeletePush(q) \/ DeleteStore(q)
          \/ SyncRead(q) \/ SyncPush(q) \/ SyncStore(q) \/ SyncFinish(q)
          \/ CheckRead(q) \/ CheckOne(q) \/ CheckFinish(q)
          \/ RemoveRead(q) \/ RemoveLoad(q) \/ RemovePush(q) \/ RemoveRows(q) \/ RemoveFinish(q)
          \/ StatementFails(q)

DnsSpec == DnsInit /\ [][DnsNext]_dnsVars

-----------------------------------------------------------------------------
(* Properties.                                                             *)

\* A request that no other one overlapped, and that returned success, has done
\* what it promises, however far restarts, failures and overlapping requests
\* before it have driven the rows and the zone apart.  "Sync re-pushes every
\* stored record" (network.go): every one of them is served, and under the id
\* its row has unless an UPDATE of the loop failed, whose error Sync drops.  The
\* answer of CheckPropagation says that all is well exactly if there are records
\* and all of them are served, and dns_status is 'ok' exactly then unless the
\* last UPDATE failed, whose error is dropped too (CheckIsTruthful is about
\* that case).  A record that was upserted is stored, served under the id its
\* row has, and conflicts with no other row.
LoneRequestHolds ==
    /\ done.kind = "sync" =>
          \A r \in Stored : Serves(r) /\ (done.written => zone.ids[r] = dnsRow[r].pid)
    /\ done.kind = "check" =>
          /\ done.all <=> (Stored # {} /\ \A r \in Stored : Serves(r))
          /\ done.written => (dnsDomain.dns = "ok" <=> done.all)
    /\ done.kind = "upsert" =>
          /\ done.rec \in Stored /\ zone.ids[done.rec] = dnsRow[done.rec].pid
          /\ \A s \in Stored : ~Conflicts(done.rec, s)

\* "... and updates the domain's dns_status truthfully (ok only if all are)"
\* (CheckPropagation): when a check that nothing overlapped has returned
\* success, dns_status is 'ok' only if there are records and all are served.
\* It is not so: the error of the UPDATE is dropped, and an 'ok' of before stays.
CheckIsTruthful ==
    done.kind = "check" =>
        (dnsDomain.dns = "ok" => Stored # {} /\ \A r \in Stored : Serves(r))

=============================================================================
