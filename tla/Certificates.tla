---------------------------- MODULE Certificates ----------------------------
(***************************************************************************)
(* The certificates of a domain (api/internal/network).                    *)
(*                                                                         *)
(* One domain.  The worker runs its operations one at a time: issue, renew *)
(* and revoke a certificate, remove the domain.  Beside it the maintenance *)
(* loop sweeps the certificates in four statements and queues renewals.    *)
(*                                                                         *)
(* A bundle of the provider is its serial; its private key is a secret     *)
(* under a name made of the serial.  Time is the age of a row's bundle     *)
(* relative to the renewal window and to not_after.  certificate_orders,   *)
(* which nothing reads back, the provider's list of revoked serials and    *)
(* the DNS records of the domain are left out.                             *)
(***************************************************************************)
EXTENDS Integers, FiniteSets

CONSTANTS
    MaxCerts,       \* bound: rows of certificates
    MaxSerials,     \* bound: bundles the provider makes
    MaxCertFaults   \* bound: failing calls, cancellations, crashes

ASSUME CertificatesAssumption == {MaxCerts, MaxSerials, MaxCertFaults} \subseteq Nat

VARIABLES
    domain, sslStatus,  \* the domains row
    cert,           \* the certificates table
    keys,           \* the serials whose private key is stored
    minted,         \* the serials the provider has made
    certOp,         \* the worker: the running operation
    renewals,       \* renew jobs the sweep has queued
    submitted,      \* the certificates that have a renew job of today
    sweeper,        \* the maintenance loop
    undone,         \* observation: serials whose storing was undone
    certFaults

domainVars == <<domain, sslStatus>>
certVars == <<cert, keys, minted, undone>>
sweepVars == <<renewals, submitted, sweeper>>
netVars == <<domainVars, certVars, certOp, sweepVars, certFaults>>

CertIds == 1..MaxCerts
Serials == 1..MaxSerials
CertStatuses == {"absent", "pending", "valid", "expiring", "expired", "error", "revoked"}
Ages == {"fresh", "due", "over"}
NoCertOp == [kind |-> "none", pc |-> "idle", cert |-> 0, serial |-> 0]

CertTypeOK ==
    /\ domain \in {"absent", "present", "removed"}
    /\ sslStatus \in {"none", "valid", "expiring", "expired"}
    /\ cert \in [CertIds -> [status: CertStatuses, serial: 0..MaxSerials, age: Ages]]
    /\ keys \subseteq Serials /\ undone \subseteq Serials /\ minted \in 0..MaxSerials
    /\ certOp \in [kind: {"none", "issue", "renew", "revoke", "remove"},
                   pc: {"idle", "open", "provider", "key", "row", "ssl", "finish",
                        "undo_store", "undo_open", "revoke", "mark"},
                   cert: 0..MaxCerts, serial: 0..MaxSerials]
    /\ renewals \in 0..MaxCerts /\ submitted \subseteq CertIds
    /\ sweeper \in {"idle", "expiring", "ssl", "submit"}
    /\ certFaults \in 0..MaxCertFaults

CertInit ==
    /\ domain = "absent" /\ sslStatus = "none"
    /\ cert = [c \in CertIds |-> [status |-> "absent", serial |-> 0, age |-> "fresh"]]
    /\ keys = {} /\ undone = {} /\ minted = 0
    /\ certOp = NoCertOp
    /\ renewals = 0 /\ submitted = {} /\ sweeper = "idle" /\ certFaults = 0

CertFault == certFaults < MaxCertFaults /\ certFaults' = certFaults + 1

-----------------------------------------------------------------------------
(* Certificate operations.                                                 *)

\* status NOT IN ('revoked','error','expired')
LiveStatuses == {"pending", "valid", "expiring"}
LiveCerts == {c \in CertIds : cert[c].status \in LiveStatuses}

\* AddDomain: the row, then the zone; without a zone the row is deleted.
AddDomain ==
    /\ domain = "absent"
    /\ domain' = "present"
    /\ UNCHANGED <<sslStatus, certVars, certOp, sweepVars, certFaults>>

Step(pc) ==
    /\ certOp' = [certOp EXCEPT !.pc = pc]
    /\ UNCHANGED certFaults
FailTo(pc) == CertFault /\ certOp' = [certOp EXCEPT !.pc = pc]
OpEnds == certOp' = NoCertOp /\ UNCHANGED certFaults

\* Validate of certOp.
StartCertOp(kind) ==
    /\ certOp.pc = "idle" /\ domain = "present"
    /\ IF kind = "issue" THEN LiveCerts = {} ELSE LiveCerts # {}
    /\ certOp' = [NoCertOp EXCEPT !.kind = kind, !.pc = "open"]
    /\ UNCHANGED <<domainVars, certVars, sweepVars, certFaults>>

\* The worker claims a queued renewal; its Validate may refuse it.
ClaimRenewal ==
    /\ certOp.pc = "idle" /\ renewals > 0
    /\ renewals' = renewals - 1
    /\ certOp' = IF domain = "present" /\ LiveCerts # {}
                 THEN [NoCertOp EXCEPT !.kind = "renew", !.pc = "open"] ELSE certOp
    /\ UNCHANGED <<domainVars, certVars, submitted, sweeper, certFaults>>

\* open-order; the unique index keeps the pending row apart from a live one.
OpenOrder ==
    /\ certOp.pc = "open"
    /\ \/ /\ certOp.kind = "issue"
          /\ \E c \in CertIds :
                /\ cert[c].status = "absent" /\ \A b \in 1..(c - 1) : cert[b].status # "absent"
                /\ cert' = [cert EXCEPT ![c].status = "pending"]
                /\ \/ certOp' = [certOp EXCEPT !.pc = "provider", !.cert = c] /\ UNCHANGED certFaults
                   \/ CertFault /\ certOp' = [certOp EXCEPT !.pc = "undo_open", !.cert = c]
       \/ /\ certOp.kind # "issue"
          /\ \/ \E c \in LiveCerts :
                   certOp' = [certOp EXCEPT !.pc = "provider", !.cert = c] /\ UNCHANGED certFaults
             \/ LiveCerts = {} /\ Step("undo_open")
             \/ FailTo("undo_open")
          /\ UNCHANGED cert
    /\ UNCHANGED <<domainVars, keys, minted, undone, sweepVars>>

\* The provider's step: a new bundle, or a revocation.
CallProvider ==
    /\ certOp.pc = "provider"
    /\ \/ /\ certOp.kind \in {"issue", "renew"} /\ minted < MaxSerials
          /\ minted' = minted + 1
          /\ certOp' = [certOp EXCEPT !.pc = "key", !.serial = minted'] /\ UNCHANGED certFaults
       \/ certOp.kind = "revoke" /\ Step("row") /\ UNCHANGED minted
       \/ FailTo("undo_open") /\ UNCHANGED minted
    /\ UNCHANGED <<domainVars, cert, keys, undone, sweepVars>>

\* Mutant: the error of the secrets service is dropped.
StoreKeyUnchecked ==
    /\ certOp.pc = "key"
    /\ \/ keys' = keys \cup {certOp.serial} /\ Step("row")
       \/ FailTo("row") /\ UNCHANGED keys
    /\ UNCHANGED <<domainVars, cert, minted, undone, sweepVars>>

\* store-certificate: the key first, then the row that names it, then ssl_status.
StoreKey ==
    /\ certOp.pc = "key"
    /\ \/ keys' = keys \cup {certOp.serial} /\ Step("row")
       \/ FailTo("undo_store") /\ UNCHANGED keys
    /\ UNCHANGED <<domainVars, cert, minted, undone, sweepVars>>

StoreRow ==
    /\ certOp.pc = "row"
    /\ \/ /\ cert' = [cert EXCEPT ![certOp.cert] =
                IF certOp.kind = "revoke" THEN [@ EXCEPT !.status = "revoked"]
                ELSE [status |-> "valid", serial |-> certOp.serial, age |-> "fresh"]]
          /\ Step("ssl")
       \/ FailTo("undo_store") /\ UNCHANGED cert
    /\ UNCHANGED <<domainVars, keys, minted, undone, sweepVars>>

StoreSsl ==
    /\ certOp.pc = "ssl"
    /\ \/ /\ sslStatus' = IF certOp.kind = "revoke" THEN "none" ELSE "valid"
          /\ Step("finish")
       \/ FailTo("undo_store") /\ UNCHANGED sslStatus
    /\ UNCHANGED <<domain, certVars, sweepVars>>

\* finish-order; the alternative is its failure, or a cancellation before it.
FinishOrder ==
    /\ certOp.pc = "finish"
    /\ OpEnds \/ FailTo("undo_store")
    /\ UNCHANGED <<domainVars, certVars, sweepVars>>

\* Undo of store-certificate deletes the key, also of a row that names it.
UndoStore ==
    /\ certOp.pc = "undo_store"
    /\ keys' = keys \ {certOp.serial}
    /\ undone' = undone \cup ({certOp.serial} \ {0})
    /\ Step("undo_open")
    /\ UNCHANGED <<domainVars, cert, minted, sweepVars>>

\* Undo of open-order, of the row c: a pending row must not block a retry.
Retired(c) ==
    IF c = certOp.cert /\ certOp.kind = "issue" /\ cert[c].status = "pending"
    THEN [cert[c] EXCEPT !.status = "error"] ELSE cert[c]

\* Its error is ignored.
UndoOpen ==
    /\ certOp.pc = "undo_open"
    /\ \/ cert' = [c \in CertIds |-> Retired(c)] /\ OpEnds
       \/ CertFault /\ certOp' = NoCertOp /\ UNCHANGED cert
    /\ UNCHANGED <<domainVars, keys, minted, undone, sweepVars>>

\* domain.remove: no step has an Undo.
StartRemove ==
    /\ certOp.pc = "idle" /\ domain = "present"
    /\ certOp' = [NoCertOp EXCEPT !.kind = "remove", !.pc = "revoke"]
    /\ UNCHANGED <<domainVars, certVars, sweepVars, certFaults>>

RevokeForRemoval ==
    /\ certOp.pc = "revoke"
    /\ \/ /\ cert' = [c \in CertIds |-> IF c \in LiveCerts THEN [cert[c] EXCEPT !.status = "revoked"]
                                        ELSE cert[c]]
          /\ Step("mark")
       \/ FailTo("undo_open") /\ UNCHANGED cert
    /\ UNCHANGED <<domainVars, keys, minted, undone, sweepVars>>

\* remove-dns-records and mark-removed.
MarkRemoved ==
    /\ certOp.pc = "mark"
    /\ \/ domain' = "removed" /\ sslStatus' = "none" /\ OpEnds
       \/ FailTo("undo_open") /\ UNCHANGED domainVars
    /\ UNCHANGED <<certVars, sweepVars>>

\* The process stops; the operation is not resumed.
CertCrash ==
    /\ certOp.pc # "idle" \/ sweeper # "idle"
    /\ CertFault /\ certOp' = NoCertOp /\ sweeper' = "idle"
    /\ UNCHANGED <<domainVars, certVars, renewals, submitted>>

-----------------------------------------------------------------------------
(* Sweep, statement by statement, and the clock.                           *)

SweptTo(from, ages, to) ==
    [c \in CertIds |-> IF cert[c].status \in from /\ cert[c].age \in ages
                       THEN [cert[c] EXCEPT !.status = to] ELSE cert[c]]

SweepExpired ==
    /\ sweeper = "idle" /\ sweeper' = "expiring"
    /\ cert' = SweptTo({"valid", "expiring"}, {"over"}, "expired")
    /\ UNCHANGED <<domainVars, keys, minted, undone, certOp, renewals, submitted, certFaults>>

SweepExpiring ==
    /\ sweeper = "expiring" /\ sweeper' = "ssl"
    /\ cert' = SweptTo({"valid"}, {"due", "over"}, "expiring")
    /\ UNCHANGED <<domainVars, keys, minted, undone, certOp, renewals, submitted, certFaults>>

\* The join takes any certificate of the domain, an old expired one too.
SweepSsl ==
    /\ sweeper = "ssl" /\ sweeper' = "submit"
    /\ LET differing == {c \in CertIds : cert[c].status \in {"expiring", "expired"} \ {sslStatus}} IN
       \/ differing = {} /\ UNCHANGED sslStatus
       \/ \E c \in differing : sslStatus' = cert[c].status
    /\ UNCHANGED <<domain, certVars, certOp, renewals, submitted, certFaults>>

\* One renewal for each expiring certificate and day, by the idempotency key.
DueForRenewal == {c \in CertIds : cert[c].status = "expiring" /\ c \notin submitted}

SweepSubmit ==
    /\ sweeper = "submit" /\ sweeper' = "idle"
    /\ \/ /\ renewals' = renewals + Cardinality(DueForRenewal) /\ submitted' = submitted \cup DueForRenewal
          /\ UNCHANGED certFaults
       \/ CertFault /\ UNCHANGED <<renewals, submitted>>
    /\ UNCHANGED <<domainVars, certVars, certOp>>

\* Mutant: the key of a renewal names the certificate and not the day.
SameKey == submitted # {} /\ UNCHANGED netVars

\* A day, and an age, last longer than the queued operations.
NewDay ==
    /\ submitted # {} /\ submitted' = {}
    /\ certOp.pc = "idle" /\ renewals = 0
    /\ UNCHANGED <<domainVars, certVars, certOp, renewals, sweeper, certFaults>>

GrowOlder(c) ==
    /\ certOp.pc = "idle" /\ cert[c].serial # 0 /\ cert[c].age # "over"
    /\ cert[c].status \in {"valid", "expiring"}
    /\ cert' = [cert EXCEPT ![c].age = IF @ = "fresh" THEN "due" ELSE "over"]
    /\ UNCHANGED <<domainVars, keys, minted, undone, certOp, sweepVars, certFaults>>

-----------------------------------------------------------------------------
CertStep ==
    \/ OpenOrder \/ CallProvider \/ StoreKey \/ StoreRow \/ StoreSsl \/ FinishOrder
    \/ UndoStore \/ UndoOpen \/ RevokeForRemoval \/ MarkRemoved
Sweeping == SweepExpiring \/ SweepSsl \/ SweepSubmit

CertNext ==
    \/ AddDomain \/ StartRemove \/ ClaimRenewal \/ CertStep \/ CertCrash
    \/ \E kind \in {"issue", "renew", "revoke"} : StartCertOp(kind)
    \/ SweepExpired \/ Sweeping \/ NewDay
    \/ \E c \in CertIds : GrowOlder(c)

\* The worker goes on and claims what is queued, the loop comes round every
\* minute, the days pass.
CertFairness ==
    /\ WF_netVars(CertStep) /\ SF_netVars(ClaimRenewal)
    /\ WF_netVars(SweepExpired) /\ WF_netVars(Sweeping) /\ SF_netVars(NewDay)

CertSpec == CertInit /\ [][CertNext]_netVars /\ CertFairness

-----------------------------------------------------------------------------
(* Properties.                                                             *)

\* A certificate that is served has its private key in the secrets, over any
\* failure, crash and renewal; an operation that is undone after its row was
\* written is the one way to lose it.
LiveHasKey ==
    \A c \in CertIds :
        cert[c].status \in {"valid", "expiring"} => cert[c].serial \in keys \cup undone

\* An expiring certificate is renewed (or ends) although a renewal failed, the
\* process crashed, or the one renewal of the day was used up (up to the bound
\* on serials).
DueIsRenewed ==
    \A c \in CertIds :
        (cert[c].status = "expiring" /\ domain = "present")
            ~> (cert[c].status # "expiring" \/ domain # "present" \/ minted = MaxSerials)

=============================================================================
