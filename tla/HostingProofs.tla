--------------------------- MODULE HostingProofs ----------------------------
(***************************************************************************)
(* Proofs about what is kept for a project and its domain, for any bounds: *)
(* the backup policies (Schedules), the keys of certificates               *)
(* (Certificates), the DNS records (Records) and the hosts they run on     *)
(* (Inventory).                                                            *)
(***************************************************************************)
EXTENDS Schedules, Certificates, Records, Inventory, FiniteSetTheorems, WellFoundedInduction, TLAPS

-----------------------------------------------------------------------------
(* Schedules: a policy is backed up at most once in a period.              *)

\* A period has a backup only if its key is in the jobs table.
Keyed ==
    \A k \in (1..MaxPolicies) \X Periods :
        backupsMade[k] <= IF <<k[1], k[2] * Interval>> \in jobKeys THEN 1 ELSE 0

\* A pass that has read a policy knows its id.
PassFits == \A p \in Processes : pass[p].pc # "idle" => pass[p].policy \in 1..MaxPolicies

SchedInv == SchedTypeOK /\ policyId <= policyCount /\ PassFits /\ Keyed

\* The period of a time lies among the periods, and begins before it.
LEMMA PeriodBounds ==
    ASSUME NEW t \in 0..MaxTicks
    PROVE  t \div Interval \in Periods /\ (t \div Interval) * Interval \in 0..MaxTicks
  <1> DEFINE q == t \div Interval
             m == MaxTicks \div Interval
  <1>1. Interval \in Nat \ {0} /\ MaxTicks \in Nat /\ t \in Nat /\ t <= MaxTicks
    BY SchedulesAssumption
  <1>2. /\ q \in Int /\ Interval * q <= t /\ t < Interval * q + Interval
        /\ m \in Int /\ Interval * m <= MaxTicks /\ MaxTicks < Interval * m + Interval
    BY <1>1
  <1> HIDE DEF q, m
  <1>3. 0 <= q
    BY <1>1, <1>2
  <1>4. q <= m
    <2> SUFFICES ASSUME q >= m + 1 PROVE FALSE
      BY <1>2
    <2>1. Interval * q >= Interval * (m + 1)
      BY <1>1, <1>2
    <2> QED
      BY <1>1, <1>2, <2>1
  <1>5. q * Interval \in 0..MaxTicks
    BY <1>1, <1>2, <1>3
  <1> QED
    BY <1>2, <1>3, <1>4, <1>5 DEF q, m, Periods

Passes == [pc: {"idle", "submit", "stamp"}, at: 0..MaxTicks, policy: 0..MaxPolicies]

\* A pass is over.
LEMMA PassOver ==
    ASSUME SchedInv, NEW p \in Processes, pass' = [pass EXCEPT ![p] = NoPass]
    PROVE  pass' \in [Processes -> Passes] /\ PassFits'
  <1>1. NoPass \in Passes /\ NoPass.pc = "idle"
    BY SchedulesAssumption DEF NoPass, Passes
  <1>2. pass \in [Processes -> Passes] /\ PassFits
    BY DEF SchedInv, SchedTypeOK, Passes
  <1> HIDE DEF NoPass, Passes
  <1> QED
    BY <1>1, <1>2 DEF PassFits

\* Every step keeps the invariant.
LEMMA SchedStep == SchedInv /\ [SchedNext]_schedVars => SchedInv'
  <1> SUFFICES ASSUME SchedInv, [SchedNext]_schedVars PROVE SchedInv'
    OBVIOUS
  <1>t. SchedTypeOK /\ policyId <= policyCount /\ PassFits /\ Keyed /\ pass \in [Processes -> Passes]
    BY DEF SchedInv, SchedTypeOK, Passes
  <1>a. Interval \in Nat \ {0} /\ MaxTicks \in Nat /\ MaxPolicies \in Nat /\ MaxStops \in Nat
    BY SchedulesAssumption
  <1>b. policyOn' \in BOOLEAN
    BY <1>t, Zenon
    DEF SchedTypeOK, SchedNext, schedVars, PassTime, SavePolicy, DeletePolicy, ReadPolicies,
        SubmitDue, Stamp, PassEnds
  <1>1. CASE UNCHANGED schedVars
    BY <1>t, <1>b, <1>1 DEF schedVars, SchedInv, SchedTypeOK, PassFits, Keyed
  <1>2. CASE PassTime
    BY <1>t, <1>a, <1>b, <1>2 DEF PassTime, SchedInv, SchedTypeOK, PassFits, Keyed
  <1>3. CASE DeletePolicy \/ \E on \in BOOLEAN : SavePolicy(on)
    <2>1. UNCHANGED <<clock, pass, jobKeys, backupsMade, stops>>
      BY <1>3 DEF DeletePolicy, SavePolicy
    <2>2. /\ policyId' \in 0..MaxPolicies /\ policyCount' \in 0..MaxPolicies
          /\ lastRun' \in {Never} \cup 0..MaxTicks /\ policyId' <= policyCount'
      BY <1>t, <1>a, <1>3 DEF DeletePolicy, SavePolicy, SchedTypeOK
    <2> QED
      BY <1>t, <1>b, <2>1, <2>2 DEF SchedInv, SchedTypeOK, PassFits, Keyed
  <1>4. ASSUME NEW p \in Processes, ReadPolicies(p) PROVE SchedInv'
    <2>1. PICK r : r = [pc |-> "submit", at |-> clock, policy |-> policyId]
      OBVIOUS
    <2>2. r \in Passes /\ r.policy \in 1..MaxPolicies
      BY <1>t, <1>4, <2>1 DEF ReadPolicies, SchedTypeOK, Passes
    <2>3. pass' = [pass EXCEPT ![p] = r]
          /\ UNCHANGED <<clock, policyId, policyCount, lastRun, jobKeys, backupsMade, stops>>
      BY <1>4, <2>1 DEF ReadPolicies
    <2>4. pass' \in [Processes -> Passes] /\ PassFits'
      BY <1>t, <2>2, <2>3 DEF PassFits
    <2> QED
      BY <1>t, <1>b, <2>3, <2>4 DEF SchedInv, SchedTypeOK, Keyed, Passes
  <1>5. ASSUME NEW p \in Processes, SubmitDue(p) PROVE SchedInv'
    <2>1. PICK d \in Passes : d = pass[p]
      BY <1>t
    <2>2. PICK q : q = d.at \div Interval
      OBVIOUS
    <2>3. PICK n : n = d.policy
      OBVIOUS
    <2>4. n \in 1..MaxPolicies /\ q \in Periods /\ q * Interval \in 0..MaxTicks /\ q \in Nat
      BY <1>t, <1>5, <2>1, <2>2, <2>3, PeriodBounds DEF SubmitDue, PassFits, Passes, Periods
    <2>5. PICK key : key = <<n, q * Interval>>
      OBVIOUS
    <2>6. /\ jobKeys' = jobKeys \cup {key}
          /\ backupsMade' = IF key \in jobKeys THEN backupsMade
                            ELSE [backupsMade EXCEPT ![<<n, q>>] = @ + 1]
          /\ UNCHANGED <<clock, policyId, policyCount, lastRun, stops>>
      BY <1>5, <2>1, <2>2, <2>3, <2>5 DEF SubmitDue, PeriodKey
    <2>7. pass' \in [Processes -> Passes] /\ PassFits'
      <3>1. pass' = [pass EXCEPT ![p].pc = "stamp"] /\ pass[p].pc = "submit"
        BY <1>5 DEF SubmitDue
      <3> QED
        BY <1>t, <3>1 DEF Passes, PassFits
    <2>8. key \in (1..MaxPolicies) \X (0..MaxTicks)
      BY <2>4, <2>5
    <2>9. <<n, q>> \in (1..MaxPolicies) \X Periods /\ backupsMade \in [(1..MaxPolicies) \X Periods -> Nat]
      BY <1>t, <2>4 DEF SchedTypeOK
    <2>10. SchedTypeOK'
      <3>1. backupsMade' \in [(1..MaxPolicies) \X Periods -> Nat]
        BY <2>6, <2>9
      <3>2. jobKeys' \subseteq (1..MaxPolicies) \X (0..MaxTicks)
        BY <1>t, <2>6, <2>8 DEF SchedTypeOK
      <3> QED
        BY <1>t, <1>b, <2>6, <2>7, <3>1, <3>2 DEF SchedTypeOK, Passes
    <2>11. Keyed'
      <3> SUFFICES ASSUME NEW k \in (1..MaxPolicies) \X Periods
                   PROVE  backupsMade'[k] <= IF <<k[1], k[2] * Interval>> \in jobKeys' THEN 1 ELSE 0
        BY DEF Keyed
      <3>1. CASE key \notin jobKeys /\ k = <<n, q>>
        <4>1. k[1] = n /\ k[2] = q /\ <<k[1], k[2] * Interval>> = key
          BY <2>5, <3>1
        <4>2. backupsMade[k] <= 0 /\ backupsMade[k] \in Nat
          BY <1>t, <2>9, <3>1, <4>1 DEF Keyed
        <4>3. backupsMade'[k] = backupsMade[k] + 1
          BY <2>6, <2>9, <3>1
        <4> QED
          BY <2>6, <4>1, <4>2, <4>3
      <3>2. CASE key \in jobKeys \/ k # <<n, q>>
        <4>1. backupsMade'[k] = backupsMade[k]
          BY <2>6, <2>9, <3>2
        <4> QED
          BY <1>t, <2>6, <2>9, <4>1 DEF Keyed
      <3> QED
        BY <3>1, <3>2
    <2> QED
      BY <1>t, <2>6, <2>7, <2>10, <2>11 DEF SchedInv
  <1>6. ASSUME NEW p \in Processes, Stamp(p) \/ PassEnds(p) PROVE SchedInv'
    <2>1. pass' = [pass EXCEPT ![p] = NoPass]
          /\ UNCHANGED <<clock, policyId, policyCount, jobKeys, backupsMade>>
      BY <1>6 DEF Stamp, PassEnds
    <2>2. lastRun' \in {Never} \cup 0..MaxTicks /\ stops' \in 0..MaxStops
      BY <1>t, <1>a, <1>6 DEF Stamp, PassEnds, SchedTypeOK, Passes
    <2> QED
      BY <1>t, <1>b, <2>1, <2>2, PassOver DEF SchedInv, SchedTypeOK, Keyed, Passes
  <1> QED
    BY <1>1, <1>2, <1>3, <1>4, <1>5, <1>6 DEF SchedNext

\* The first state: no policy, no pass, no job.
LEMMA SchedStart == SchedInit => SchedInv
  <1> SUFFICES ASSUME SchedInit PROVE SchedInv
    OBVIOUS
  <1>1. NoPass \in Passes /\ NoPass.pc = "idle"
    BY SchedulesAssumption DEF NoPass, Passes
  <1>2. policyOn \in BOOLEAN
    BY Zenon DEF SchedInit
  <1>3. SchedTypeOK
    BY <1>1, <1>2, SchedulesAssumption DEF SchedInit, SchedTypeOK, Passes
  <1> QED
    BY <1>1, <1>3, SchedulesAssumption DEF SchedInit, SchedInv, PassFits, Keyed

\* Whatever processes pass, stop and overwrite each other's stamp, a policy is
\* backed up at most once in a period.
THEOREM OncePerPeriodHolds == SchedSpec => []OncePerPeriod
  <1>1. SchedInv => OncePerPeriod
    <2> SUFFICES ASSUME SchedInv, NEW k \in DOMAIN backupsMade PROVE backupsMade[k] <= 1
      BY DEF OncePerPeriod
    <2>1. k \in (1..MaxPolicies) \X Periods /\ backupsMade[k] \in Nat
      BY DEF SchedInv, SchedTypeOK
    <2>2. backupsMade[k] <= IF <<k[1], k[2] * Interval>> \in jobKeys THEN 1 ELSE 0
      BY <2>1 DEF SchedInv, Keyed
    <2> QED
      BY <2>1, <2>2
  <1> QED
    BY <1>1, SchedStart, SchedStep, PTL DEF SchedSpec

-----------------------------------------------------------------------------
(* Certificates: what is served has its key.                               *)

CertRecs == [status: CertStatuses, serial: 0..MaxSerials, age: Ages]
OpPcs == {"idle", "open", "provider", "key", "row", "ssl", "finish",
          "undo_store", "undo_open", "revoke", "mark"}
OpRecs == [kind: {"none", "issue", "renew", "revoke", "remove"}, pc: OpPcs,
           cert: 0..MaxCerts, serial: 0..MaxSerials]

\* The running operation: what it may be at each step, and the key it has
\* stored by the time it writes the row.
OpFits ==
    /\ certOp.pc \in {"open", "provider", "key", "row"} => certOp.kind \in {"issue", "renew", "revoke"}
    /\ certOp.pc = "key" => certOp.serial \in Serials
    /\ certOp.pc = "row" /\ certOp.kind # "revoke" => certOp.serial \in keys \cup undone

\* Every queued renewal is of another certificate of today.
OnePerDay == renewals <= Cardinality(submitted)

CertInv == CertTypeOK /\ LiveHasKey /\ OpFits /\ OnePerDay

\* No certificate is served under a serial it was not, and no key goes that is
\* not on record as undone.
Kept ==
    /\ keys \cup undone \subseteq keys' \cup undone'
    /\ cert' \in [CertIds -> CertRecs]
    /\ \A c \in CertIds : cert'[c].status \in {"valid", "expiring"}
                             => /\ cert[c].status \in {"valid", "expiring"}
                                /\ cert'[c].serial = cert[c].serial

LEMMA KeptHasKey == LiveHasKey /\ Kept => LiveHasKey'
  BY DEF LiveHasKey, Kept

\* The types, one part at a time.
LEMMA CertTypes ==
    CertTypeOK <=> /\ domain \in {"absent", "present", "removed"}
                   /\ sslStatus \in {"none", "valid", "expiring", "expired"}
                   /\ cert \in [CertIds -> CertRecs]
                   /\ keys \subseteq Serials /\ undone \subseteq Serials /\ minted \in 0..MaxSerials
                   /\ certOp \in OpRecs
                   /\ renewals \in 0..MaxCerts /\ submitted \subseteq CertIds
                   /\ sweeper \in {"idle", "expiring", "ssl", "submit"}
                   /\ certFaults \in 0..MaxCertFaults
  BY Zenon DEF CertTypeOK, CertRecs, OpRecs, OpPcs

LEMMA CertBounds == MaxCerts \in Nat /\ MaxSerials \in Nat /\ MaxCertFaults \in Nat
  BY CertificatesAssumption

-----------------------------------------------------------------------------
\* The rows: only StoreRow makes one be served, under the serial of its operation.
LEMMA RowStep ==
    ASSUME CertTypeOK, CertNext
    PROVE  \/ Kept
           \/ /\ certOp.pc = "row" /\ certOp.kind # "revoke"
              /\ cert' = [cert EXCEPT ![certOp.cert] =
                             [status |-> "valid", serial |-> certOp.serial, age |-> "fresh"]]
              /\ UNCHANGED <<keys, undone>>
  <1>0. /\ cert \in [CertIds -> CertRecs] /\ certOp \in OpRecs
        /\ keys \subseteq Serials /\ undone \subseteq Serials /\ MaxSerials \in Nat
        /\ 0 \notin keys
    BY CertTypes, CertBounds DEF Serials
  <1>1. \A r \in CertRecs : \A st \in CertStatuses :
           LET q == [r EXCEPT !.status = st]
           IN  q \in CertRecs /\ q.status = st /\ q.serial = r.serial
    BY DEF CertRecs
  <1>2. \A r \in CertRecs : \A g \in Ages :
           LET q == [r EXCEPT !.age = g]
           IN  q \in CertRecs /\ q.status = r.status /\ q.serial = r.serial
    BY DEF CertRecs
  <1>3. ASSUME UNCHANGED <<cert, keys, undone>> PROVE Kept
    BY <1>0, <1>3 DEF Kept
  <1>4. ASSUME AddDomain \/ StartRemove \/ ClaimRenewal \/ CallProvider \/ StoreSsl \/ FinishOrder
               \/ MarkRemoved \/ CertCrash \/ SweepSsl \/ SweepSubmit \/ NewDay
               \/ \E kind \in {"issue", "renew", "revoke"} : StartCertOp(kind)
        PROVE  UNCHANGED <<cert, keys, undone>>
    BY <1>4, Zenon
    DEF AddDomain, StartRemove, ClaimRenewal, CallProvider, StoreSsl, FinishOrder, MarkRemoved,
        CertCrash, SweepSsl, SweepSubmit, NewDay, StartCertOp, certVars
  <1>m. ASSUME NEW S \in SUBSET CertIds, NEW st \in {"pending", "revoked", "error"},
               cert' = [x \in CertIds |-> IF x \in S THEN [cert[x] EXCEPT !.status = st] ELSE cert[x]],
               UNCHANGED <<keys, undone>>
        PROVE  Kept
    <2>1. st \in CertStatuses /\ st \notin {"valid", "expiring"}
      BY DEF CertStatuses
    <2>2. \A x \in CertIds :
             cert'[x] = IF x \in S THEN [cert[x] EXCEPT !.status = st] ELSE cert[x]
      BY <1>m
    <2>3. \A x \in CertIds : /\ cert'[x] \in CertRecs
                             /\ x \in S => cert'[x].status = st
                             /\ x \notin S => cert'[x] = cert[x]
      <3> TAKE x \in CertIds
      <3>1. cert[x] \in CertRecs
        BY <1>0
      <3>2. [cert[x] EXCEPT !.status = st] \in CertRecs /\ [cert[x] EXCEPT !.status = st].status = st
        BY <2>1, <3>1 DEF CertRecs
      <3> QED
        BY <2>2, <3>1, <3>2
    <2>4. cert' \in [CertIds -> CertRecs]
      BY <1>m, <2>2, <2>3
    <2> QED
      BY <1>m, <2>1, <2>3, <2>4 DEF Kept
  <1>5. CASE OpenOrder
    <2>1. UNCHANGED <<keys, undone>>
      BY <1>5, Zenon DEF OpenOrder
    <2>2. cert' = cert \/ \E c \in CertIds : cert' = [cert EXCEPT ![c].status = "pending"]
      BY <1>5, Zenon DEF OpenOrder
    <2>3. ASSUME NEW c \in CertIds, cert' = [cert EXCEPT ![c].status = "pending"]
          PROVE  cert' = [x \in CertIds |-> IF x \in {c} THEN [cert[x] EXCEPT !.status = "pending"]
                                             ELSE cert[x]]
      BY <1>0, <2>3
    <2>4. ASSUME NEW c \in CertIds, cert' = [cert EXCEPT ![c].status = "pending"] PROVE Kept
      <3>1. {c} \in SUBSET CertIds
        OBVIOUS
      <3> QED
        BY <1>m, <2>1, <2>3, <2>4, <3>1
    <2> QED
      BY <1>3, <2>1, <2>2, <2>4
  <1>6. CASE StoreKey
    BY <1>0, <1>6 DEF StoreKey, Kept
  <1>7. CASE StoreRow
    <2>1. CASE certOp.kind = "revoke"
      <3>1. UNCHANGED <<keys, undone>>
        BY <1>7 DEF StoreRow
      <3>2. cert' = cert \/ cert' = [cert EXCEPT ![certOp.cert] = [cert[certOp.cert] EXCEPT !.status = "revoked"]]
        BY <1>7, <2>1 DEF StoreRow
      <3>3. ASSUME cert' # cert
            PROVE  cert' = [x \in CertIds |-> IF x \in {certOp.cert} \cap CertIds
                                               THEN [cert[x] EXCEPT !.status = "revoked"] ELSE cert[x]]
        BY <1>0, <3>2, <3>3
      <3> QED
        BY <1>3, <1>m, <3>1, <3>3
    <2>2. CASE certOp.kind # "revoke"
      BY <1>3, <1>7, <2>2 DEF StoreRow
    <2> QED
      BY <2>1, <2>2
  <1>8. CASE UndoStore
    BY <1>0, <1>8 DEF UndoStore, Kept
  <1>9. CASE UndoOpen
    <2>1. UNCHANGED <<keys, undone>> /\ (cert' = cert \/ cert' = [c \in CertIds |-> Retired(c)])
      BY <1>9 DEF UndoOpen
    <2> DEFINE S == {c \in CertIds : /\ c = certOp.cert /\ certOp.kind = "issue"
                                     /\ cert[c].status = "pending"}
    <2>2. ASSUME cert' # cert
          PROVE  cert' = [x \in CertIds |-> IF x \in S THEN [cert[x] EXCEPT !.status = "error"]
                                             ELSE cert[x]]
      BY <2>1, <2>2 DEF Retired
    <2> QED
      BY <1>3, <1>m, <2>1, <2>2
  <1>10. CASE RevokeForRemoval
    <2>1. /\ UNCHANGED <<keys, undone>> /\ LiveCerts \subseteq CertIds
          /\ \/ cert' = cert
             \/ cert' = [x \in CertIds |-> IF x \in LiveCerts THEN [cert[x] EXCEPT !.status = "revoked"]
                                           ELSE cert[x]]
      BY <1>10 DEF RevokeForRemoval, LiveCerts
    <2> QED
      BY <1>3, <1>m, <2>1
  <1>11. CASE SweepExpired
    BY <1>0, <1>1, <1>11 DEF SweepExpired, SweptTo, Kept, CertStatuses
  <1>12. CASE SweepExpiring
    BY <1>0, <1>1, <1>12 DEF SweepExpiring, SweptTo, Kept, CertStatuses
  <1>13. ASSUME NEW c \in CertIds, GrowOlder(c) PROVE Kept
    BY <1>0, <1>2, <1>13 DEF GrowOlder, Kept, Ages
  <1> QED
    BY <1>3, <1>4, <1>5, <1>6, <1>7, <1>8, <1>9, <1>10, <1>11, <1>12, <1>13, Zenon
    DEF CertNext, CertStep, Sweeping

\* The rows keep their type and their keys.
LEMMA RowsServed == ASSUME CertInv, CertNext PROVE LiveHasKey' /\ cert' \in [CertIds -> CertRecs]
  <1>1. CASE Kept
    BY <1>1, KeptHasKey DEF CertInv, Kept
  <1>2. CASE /\ certOp.pc = "row" /\ certOp.kind # "revoke"
             /\ cert' = [cert EXCEPT ![certOp.cert] =
                            [status |-> "valid", serial |-> certOp.serial, age |-> "fresh"]]
             /\ UNCHANGED <<keys, undone>>
    <2> DEFINE r == [status |-> "valid", serial |-> certOp.serial, age |-> "fresh"]
    <2>1. cert \in [CertIds -> CertRecs] /\ certOp.serial \in 0..MaxSerials
      BY CertTypes DEF CertInv, OpRecs
    <2>2. r \in CertRecs /\ r.serial = certOp.serial
      BY <2>1 DEF CertRecs, CertStatuses, Ages
    <2>3. r.serial \in keys \cup undone
      BY <1>2, <2>2 DEF CertInv, OpFits
    <2>4. cert' = [cert EXCEPT ![certOp.cert] = r]
      BY <1>2
    <2> HIDE DEF r
    <2> QED
      BY <1>2, <2>1, <2>2, <2>3, <2>4 DEF CertInv, LiveHasKey
  <1> QED
    BY <1>1, <1>2, RowStep DEF CertInv

\* The operation: its record, its key and the serials.
LEMMA OpStep ==
    ASSUME CertTypeOK, OpFits, CertNext
    PROVE  /\ certOp' \in OpRecs /\ OpFits'
           /\ keys' \subseteq Serials /\ undone' \subseteq Serials /\ minted' \in 0..MaxSerials
  <1> DEFINE Goal == /\ certOp' \in OpRecs /\ OpFits'
                     /\ keys' \subseteq Serials /\ undone' \subseteq Serials /\ minted' \in 0..MaxSerials
             Still == UNCHANGED <<keys, undone, minted>>
  <1>0. /\ certOp \in OpRecs /\ keys \subseteq Serials /\ undone \subseteq Serials
        /\ minted \in 0..MaxSerials /\ MaxSerials \in Nat /\ MaxCerts \in Nat
    BY CertTypes, CertBounds
  <1>1. NoCertOp \in OpRecs /\ NoCertOp.pc = "idle"
    BY CertBounds DEF NoCertOp, OpRecs, OpPcs
  <1>2. ASSUME certOp' = NoCertOp, Still PROVE Goal
    BY <1>0, <1>1, <1>2 DEF OpFits
  <1>3. ASSUME certOp' = certOp, Still PROVE Goal
    BY <1>0, <1>3 DEF OpFits
  <1>4. ASSUME NEW pc \in OpPcs \ {"open", "provider", "key", "row"},
               certOp' = [certOp EXCEPT !.pc = pc],
               keys' \subseteq Serials, undone' \subseteq Serials, minted' = minted
        PROVE  Goal
    <2>1. certOp' \in OpRecs /\ certOp'.pc = pc
      BY <1>0, <1>4 DEF OpRecs
    <2> QED
      BY <1>0, <1>4, <2>1 DEF OpFits
  <1>5. ASSUME NEW pc \in {"provider", "undo_open"}, NEW c \in CertIds, certOp.pc = "open",
               certOp' = [certOp EXCEPT !.pc = pc, !.cert = c], Still
        PROVE  Goal
    <2>1. certOp' \in OpRecs /\ certOp'.pc = pc /\ certOp'.kind = certOp.kind
      <3>1. c \in 0..MaxCerts /\ pc \in OpPcs
        BY <1>0, <1>5 DEF CertIds, OpPcs
      <3> QED
        BY <1>0, <1>5, <3>1 DEF OpRecs
    <2> QED
      BY <1>0, <1>5, <2>1 DEF OpFits
  <1>6. ASSUME NEW kind \in {"issue", "renew", "revoke"},
               certOp' = [NoCertOp EXCEPT !.kind = kind, !.pc = "open"], Still
        PROVE  Goal
    <2>1. certOp' \in OpRecs /\ certOp'.pc = "open" /\ certOp'.kind = kind
      BY <1>1, <1>6 DEF OpRecs, OpPcs
    <2> QED
      BY <1>0, <1>6, <2>1 DEF OpFits
  <1>7. \A pc \in OpPcs \ {"open", "provider", "key", "row"} : FailTo(pc) => certOp' = [certOp EXCEPT !.pc = pc]
    BY DEF FailTo
  <1>8. \A pc \in OpPcs : Step(pc) => certOp' = [certOp EXCEPT !.pc = pc]
    BY DEF Step
  <1>9. {"undo_open", "undo_store", "ssl", "finish", "mark"} \subseteq OpPcs \ {"open", "provider", "key", "row"}
    BY DEF OpPcs
  <1>10. ASSUME AddDomain \/ SweepExpired \/ SweepExpiring \/ SweepSsl \/ SweepSubmit \/ NewDay
                \/ \E c \in CertIds : GrowOlder(c)
         PROVE  certOp' = certOp /\ Still
    BY <1>10, Zenon
    DEF AddDomain, SweepExpired, SweepExpiring, SweepSsl, SweepSubmit, NewDay, GrowOlder, certVars
  <1>11. CASE StartRemove
    <2>1. certOp' = [NoCertOp EXCEPT !.kind = "remove", !.pc = "revoke"] /\ Still
      BY <1>11 DEF StartRemove, certVars
    <2>2. certOp' \in OpRecs /\ certOp'.pc = "revoke"
      BY <1>1, <2>1 DEF OpRecs, OpPcs
    <2> QED
      BY <1>0, <2>1, <2>2 DEF OpFits
  <1>12. ASSUME NEW kind \in {"issue", "renew", "revoke"}, StartCertOp(kind) PROVE Goal
    BY <1>6, <1>12 DEF StartCertOp, certVars
  <1>13. CASE ClaimRenewal
    BY <1>3, <1>6, <1>13 DEF ClaimRenewal, certVars
  <1>14. CASE OpenOrder
    <2>1. certOp.pc = "open" /\ Still
      BY <1>14, Zenon DEF OpenOrder
    <2>2. \/ \E c \in CertIds : \E pc \in {"provider", "undo_open"} :
                certOp' = [certOp EXCEPT !.pc = pc, !.cert = c]
          \/ Step("undo_open") \/ FailTo("undo_open")
      BY <1>14, Zenon DEF OpenOrder, LiveCerts
    <2>3. CASE Step("undo_open") \/ FailTo("undo_open")
      BY <1>0, <1>4, <1>7, <1>8, <1>9, <2>1, <2>3
    <2> QED
      BY <1>5, <2>1, <2>2, <2>3
  <1>15. CASE CallProvider
    <2>1. CASE FailTo("undo_open") /\ UNCHANGED minted
      BY <1>0, <1>4, <1>7, <1>9, <1>15, <2>1 DEF CallProvider
    <2>2. CASE certOp.kind = "revoke" /\ Step("row") /\ UNCHANGED minted
      <3>1. certOp' \in OpRecs /\ certOp'.pc = "row" /\ certOp'.kind = "revoke" /\ Still
        BY <1>0, <1>15, <2>2 DEF Step, OpRecs, OpPcs, CallProvider
      <3> QED
        BY <1>0, <3>1 DEF OpFits
    <2>3. CASE /\ certOp.kind \in {"issue", "renew"} /\ minted < MaxSerials
               /\ minted' = minted + 1
               /\ certOp' = [certOp EXCEPT !.pc = "key", !.serial = minted'] /\ UNCHANGED certFaults
      <3>1. minted' \in Serials /\ minted' \in 0..MaxSerials
        BY <1>0, <2>3 DEF Serials
      <3>2. /\ certOp' \in OpRecs /\ certOp'.pc = "key" /\ certOp'.serial = minted'
            /\ certOp'.kind = certOp.kind
        BY <1>0, <2>3, <3>1 DEF OpRecs, OpPcs
      <3>3. UNCHANGED <<keys, undone>>
        BY <1>15 DEF CallProvider
      <3> QED
        BY <1>0, <2>3, <3>1, <3>2, <3>3 DEF OpFits
    <2> QED
      BY <1>15, <2>1, <2>2, <2>3 DEF CallProvider
  <1>16. CASE StoreKey
    <2>1. CASE keys' = keys \cup {certOp.serial} /\ Step("row")
      <3>1. certOp.serial \in Serials /\ certOp.kind \in {"issue", "renew", "revoke"}
        BY <1>16 DEF OpFits, StoreKey
      <3>2. /\ certOp' \in OpRecs /\ certOp'.pc = "row" /\ certOp'.serial = certOp.serial
            /\ certOp'.kind = certOp.kind
        BY <1>0, <2>1 DEF Step, OpRecs, OpPcs
      <3>3. UNCHANGED <<undone, minted>>
        BY <1>16 DEF StoreKey
      <3> QED
        BY <1>0, <2>1, <3>1, <3>2, <3>3 DEF OpFits
    <2>2. CASE FailTo("undo_store") /\ UNCHANGED keys
      BY <1>0, <1>4, <1>7, <1>9, <1>16, <2>2 DEF StoreKey
    <2> QED
      BY <1>16, <2>1, <2>2 DEF StoreKey
  <1>17. CASE StoreRow
    BY <1>0, <1>4, <1>7, <1>8, <1>9, <1>17 DEF StoreRow
  <1>18. CASE StoreSsl
    BY <1>0, <1>4, <1>7, <1>8, <1>9, <1>18 DEF StoreSsl, certVars
  <1>19. CASE FinishOrder
    BY <1>0, <1>2, <1>4, <1>7, <1>9, <1>19 DEF FinishOrder, OpEnds, certVars
  <1>20. CASE UndoStore
    <2>1. keys' \subseteq Serials /\ undone' \subseteq Serials /\ minted' = minted
      <3>1. certOp.serial \in 0..MaxSerials
        BY <1>0 DEF OpRecs
      <3>2. {certOp.serial} \ {0} \subseteq Serials
        BY <1>0, <3>1 DEF Serials
      <3> QED
        BY <1>0, <1>20, <3>2 DEF UndoStore
    <2> QED
      BY <1>4, <1>8, <1>9, <1>20, <2>1 DEF UndoStore
  <1>21. CASE UndoOpen
    BY <1>2, <1>21 DEF UndoOpen, OpEnds
  <1>22. CASE RevokeForRemoval
    BY <1>0, <1>4, <1>7, <1>8, <1>9, <1>22 DEF RevokeForRemoval
  <1>23. CASE MarkRemoved
    BY <1>0, <1>2, <1>4, <1>7, <1>9, <1>23 DEF MarkRemoved, OpEnds, certVars
  <1>24. CASE CertCrash
    BY <1>2, <1>24 DEF CertCrash, certVars
  <1>a. CASE CertStep
    BY <1>a, <1>14, <1>15, <1>16, <1>17, <1>18, <1>19, <1>20, <1>21, <1>22, <1>23, Zenon
    DEF CertStep
  <1> QED
    BY <1>3, <1>10, <1>11, <1>12, <1>13, <1>24, <1>a, Zenon DEF CertNext, Sweeping

\* The renewals of a day are of different certificates, so never more than those.
LEMMA RenewalStep ==
    ASSUME CertTypeOK, OnePerDay, CertNext
    PROVE  renewals' \in 0..MaxCerts /\ submitted' \subseteq CertIds /\ OnePerDay'
  <1>0. /\ renewals \in 0..MaxCerts /\ submitted \subseteq CertIds /\ MaxCerts \in Nat
        /\ renewals <= Cardinality(submitted)
    BY CertTypes, CertBounds DEF OnePerDay
  <1>1. IsFiniteSet(CertIds) /\ Cardinality(CertIds) = MaxCerts
    BY <1>0, FS_Interval DEF CertIds
  <1>2. \A S \in SUBSET CertIds : IsFiniteSet(S) /\ Cardinality(S) \in Nat /\ Cardinality(S) <= MaxCerts
    BY <1>1, FS_Subset, FS_CardinalityType
  <1>3. CASE UNCHANGED <<renewals, submitted>>
    BY <1>0, <1>3 DEF OnePerDay
  <1>4. CASE ClaimRenewal
    BY <1>0, <1>2, <1>4 DEF ClaimRenewal, OnePerDay
  <1>5. CASE SweepSubmit
    <2>1. CASE /\ renewals' = renewals + Cardinality(DueForRenewal)
               /\ submitted' = submitted \cup DueForRenewal
      <3>1. DueForRenewal \in SUBSET CertIds /\ submitted \cap DueForRenewal = {}
        BY DEF DueForRenewal
      <3>2. Cardinality(submitted') = Cardinality(submitted) + Cardinality(DueForRenewal)
        <4>1. IsFiniteSet(submitted) /\ IsFiniteSet(DueForRenewal)
          BY <1>0, <1>2, <3>1
        <4>2. Cardinality(submitted \cup DueForRenewal)
                = Cardinality(submitted) + Cardinality(DueForRenewal) - Cardinality({})
          BY <3>1, <4>1, FS_Union
        <4>3. Cardinality(submitted) \in Nat /\ Cardinality(DueForRenewal) \in Nat
          BY <1>0, <1>2, <3>1
        <4> QED
          BY <2>1, <4>2, <4>3, FS_EmptySet
      <3>3. submitted' \in SUBSET CertIds
        BY <1>0, <2>1, <3>1
      <3> QED
        BY <1>0, <1>2, <2>1, <3>1, <3>2, <3>3 DEF OnePerDay
    <2> QED
      BY <1>3, <1>5, <2>1 DEF SweepSubmit
  <1>6. CASE NewDay
    <2>1. renewals' = 0 /\ submitted' = {}
      BY <1>6 DEF NewDay
    <2> QED
      BY <1>0, <2>1, FS_EmptySet DEF OnePerDay
  <1>7. CertNext => UNCHANGED <<renewals, submitted>> \/ ClaimRenewal \/ SweepSubmit \/ NewDay
    BY Zenon
    DEF CertNext, CertStep, Sweeping, AddDomain, StartRemove, OpenOrder, CallProvider, StoreKey,
        StoreRow, StoreSsl, FinishOrder, UndoStore, UndoOpen, RevokeForRemoval, MarkRemoved,
        CertCrash, StartCertOp, SweepExpired, SweepExpiring, SweepSsl, GrowOlder, sweepVars
  <1> QED
    BY <1>3, <1>4, <1>5, <1>6, <1>7

\* The domain, the loop and the faults.
LEMMA RestStep ==
    ASSUME CertTypeOK, CertNext
    PROVE  /\ domain' \in {"absent", "present", "removed"}
           /\ sslStatus' \in {"none", "valid", "expiring", "expired"}
           /\ sweeper' \in {"idle", "expiring", "ssl", "submit"}
           /\ certFaults' \in 0..MaxCertFaults
  <1>0. /\ domain \in {"absent", "present", "removed"}
        /\ sslStatus \in {"none", "valid", "expiring", "expired"}
        /\ sweeper \in {"idle", "expiring", "ssl", "submit"}
        /\ certFaults \in 0..MaxCertFaults /\ MaxCertFaults \in Nat
    BY CertTypes, CertBounds
  <1>1. CertNext => UNCHANGED domain \/ AddDomain \/ MarkRemoved
    BY Zenon
    DEF CertNext, CertStep, Sweeping, StartRemove, ClaimRenewal, OpenOrder, CallProvider, StoreKey,
        StoreRow, StoreSsl, FinishOrder, UndoStore, UndoOpen, RevokeForRemoval, SweepSubmit, NewDay,
        CertCrash, StartCertOp, SweepExpired, SweepExpiring, SweepSsl, GrowOlder, domainVars
  <1>2. CertNext => UNCHANGED sslStatus \/ StoreSsl \/ MarkRemoved \/ SweepSsl
    BY Zenon
    DEF CertNext, CertStep, Sweeping, AddDomain, StartRemove, ClaimRenewal, OpenOrder, CallProvider,
        StoreKey, StoreRow, FinishOrder, UndoStore, UndoOpen, RevokeForRemoval, SweepSubmit, NewDay,
        CertCrash, StartCertOp, SweepExpired, SweepExpiring, GrowOlder, domainVars
  <1>3. CertNext => UNCHANGED certFaults \/ CertFault
    BY Zenon
    DEF CertNext, CertStep, Sweeping, AddDomain, StartRemove, ClaimRenewal, OpenOrder, CallProvider,
        StoreKey, StoreRow, StoreSsl, FinishOrder, UndoStore, UndoOpen, RevokeForRemoval, MarkRemoved,
        SweepSubmit, NewDay, CertCrash, StartCertOp, SweepExpired, SweepExpiring, SweepSsl, GrowOlder,
        Step, FailTo, OpEnds
  <1>4. CertNext => \/ UNCHANGED sweeper \/ sweeper' = "idle" \/ sweeper' = "expiring"
                    \/ sweeper' = "ssl" \/ sweeper' = "submit"
    BY Zenon
    DEF CertNext, CertStep, Sweeping, AddDomain, StartRemove, ClaimRenewal, OpenOrder, CallProvider,
        StoreKey, StoreRow, StoreSsl, FinishOrder, UndoStore, UndoOpen, RevokeForRemoval, MarkRemoved,
        SweepSubmit, NewDay, CertCrash, StartCertOp, SweepExpired, SweepExpiring, SweepSsl, GrowOlder,
        sweepVars
  <1>5. domain' \in {"absent", "present", "removed"}
    BY <1>0, <1>1 DEF AddDomain, MarkRemoved, domainVars
  <1>6. sslStatus' \in {"none", "valid", "expiring", "expired"}
    BY <1>0, <1>2 DEF StoreSsl, MarkRemoved, SweepSsl, domainVars
  <1>7. certFaults' \in 0..MaxCertFaults
    BY <1>0, <1>3 DEF CertFault
  <1> QED
    BY <1>0, <1>4, <1>5, <1>6, <1>7

\* The first state: no domain, no certificate.
LEMMA CertStart == CertInit => CertInv
  <1> SUFFICES ASSUME CertInit PROVE CertInv
    OBVIOUS
  <1>1. [status |-> "absent", serial |-> 0, age |-> "fresh"] \in CertRecs
    BY CertBounds DEF CertRecs, CertStatuses, Ages
  <1>2. NoCertOp \in OpRecs /\ NoCertOp.pc = "idle"
    BY CertBounds DEF NoCertOp, OpRecs, OpPcs
  <1>3. CertTypeOK
    BY <1>1, <1>2, CertBounds, CertTypes DEF CertInit
  <1>4. LiveHasKey /\ OpFits
    BY <1>2 DEF CertInit, LiveHasKey, OpFits
  <1> QED
    BY <1>3, <1>4, FS_EmptySet DEF CertInit, CertInv, OnePerDay

\* A served certificate has its key over every failure, crash and renewal,
\* except the key that the undo of a stored row has deleted.
THEOREM LiveHasKeyHolds == CertSpec => []LiveHasKey
  <1>1. CertInv /\ [CertNext]_netVars => CertInv'
    <2> SUFFICES ASSUME CertInv, [CertNext]_netVars PROVE CertInv'
      OBVIOUS
    <2>1. CASE CertNext
      <3>1. LiveHasKey' /\ cert' \in [CertIds -> CertRecs]
        BY <2>1, RowsServed
      <3>2. /\ certOp' \in OpRecs /\ OpFits'
            /\ keys' \subseteq Serials /\ undone' \subseteq Serials /\ minted' \in 0..MaxSerials
        BY <2>1, OpStep DEF CertInv
      <3>3. renewals' \in 0..MaxCerts /\ submitted' \subseteq CertIds /\ OnePerDay'
        BY <2>1, RenewalStep DEF CertInv
      <3>4. CertTypeOK'
        BY <2>1, <3>1, <3>2, <3>3, RestStep, Zenon DEF CertInv, CertTypeOK, CertRecs, OpRecs, OpPcs
      <3> QED
        BY <3>1, <3>2, <3>3, <3>4 DEF CertInv
    <2>2. CASE UNCHANGED netVars
      <3>1. UNCHANGED <<domain, sslStatus, cert, keys, minted, undone, certOp, renewals, submitted,
                        sweeper, certFaults>>
        BY <2>2 DEF netVars, domainVars, certVars, sweepVars
      <3>2. CertTypeOK'
        BY <3>1, Zenon DEF CertInv, CertTypeOK
      <3>3. LiveHasKey' /\ OpFits' /\ OnePerDay'
        BY <3>1 DEF CertInv, LiveHasKey, OpFits, OnePerDay
      <3> QED
        BY <3>2, <3>3 DEF CertInv
    <2> QED
      BY <2>1, <2>2
  <1>2. CertInv => LiveHasKey
    BY DEF CertInv
  <1> QED
    BY <1>1, <1>2, CertStart, PTL DEF CertSpec

-----------------------------------------------------------------------------
(* Records: a request that nothing overlapped tells the truth.             *)

RowRecs == [key: Nat, pid: Nat]
ZoneRecs == [known: BOOLEAN, ids: [Names -> Nat], seq: Nat]
DomainRecs == [status: {"pending", "active", "removed"}, dns: {"unknown", "pending", "ok"},
               deleted: BOOLEAN]
DnsPcs == {"idle", "read", "push", "store", "finish"}
DnsCallRecs == [pc: DnsPcs, kind: Kinds \cup {"none"}, rec: Names \cup {0}, id: Nat,
                seen: [Names -> RowRecs], left: SUBSET Names, all: BOOLEAN, key: Nat, lone: BOOLEAN,
                whole: BOOLEAN]

DnsShape ==
    /\ dnsRow \in [Names -> RowRecs] /\ zone \in ZoneRecs /\ dnsDomain \in DomainRecs
    /\ call \in [DnsCalls -> DnsCallRecs] /\ calls \in Nat

\* A request about a record names one.
Named(c) == c.pc # "idle" /\ c.kind \in {"upsert", "delete"} => c.rec \in Names

\* How far a sync that is alone has brought rows and zone together: the records
\* it has left are rows as it read them, every other one is served, and under
\* the id of its row if no UPDATE failed.
SyncCourse(c) ==
    c.kind = "sync" =>
        /\ c.pc \in {"push", "store"} =>
              /\ \A r \in c.left : r \in Stored /\ c.seen[r].key = dnsRow[r].key
              /\ \A r \in Stored \ c.left :
                    Serves(r) /\ (c.whole => zone.ids[r] = dnsRow[r].pid)
        /\ c.pc = "store" =>
              c.left # {} /\ Serves(First(c.left)) /\ zone.ids[First(c.left)] = c.id

\* A check knows of the rows it is through with whether they are all served.
CheckCourse(c) ==
    (c.kind = "check" /\ c.pc = "push") =>
        /\ c.left \subseteq Stored
        /\ c.all <=> (Stored # {} /\ \A r \in Stored \ c.left : Serves(r))

\* An upsert goes on finding no conflict, and its record where it put it.
UpsertCourse(c) ==
    c.kind = "upsert" =>
        /\ c.pc \in {"push", "store", "finish"} => \A s \in Stored : ~Conflicts(c.rec, s)
        /\ c.pc = "store" => Serves(c.rec) /\ zone.ids[c.rec] = c.id
        /\ c.pc = "finish" => c.rec \in Stored /\ zone.ids[c.rec] = dnsRow[c.rec].pid

Course(c) == c.lone => SyncCourse(c) /\ CheckCourse(c) /\ UpsertCourse(c)

\* A request that is alone is the only one under way.
Alone == \A q, o \in DnsCalls : call[q].lone /\ o # q => call[o].pc = "idle"

DnsInv ==
    /\ DnsShape /\ Alone /\ LoneRequestHolds
    /\ \A q \in DnsCalls : Named(call[q]) /\ Course(call[q])

\* The loops take the rows in order, and one of the rows that are left.
LEMMA FirstIsOne == ASSUME NEW S \in SUBSET Names, S # {} PROVE First(S) \in S
  <1>1. Names \subseteq Nat
    BY RecordsAssumption
  <1>2. PICK x \in S : \A y \in S : ~(<<y, x>> \in OpToRel(<, Nat))
    BY <1>1, NatLessThanWellFounded, WFMin, Zenon
  <1>3. \A y \in S : <<y, x>> \in Nat \X Nat /\ <<y, x>>[1] = y /\ <<y, x>>[2] = x
    BY <1>1
  <1>4. \A y \in S : ~(y < x)
    BY <1>2, <1>3, Zenon DEF OpToRel
  <1>5. \A y \in S : x <= y
    BY <1>1, <1>4
  <1> QED
    BY <1>5 DEF First

\* A request that ends leaves nothing to say about it.
LEMMA NoDnsCallFacts ==
    /\ NoDnsCall \in DnsCallRecs /\ NoRow \in RowRecs
    /\ NoDnsCall.pc = "idle" /\ ~NoDnsCall.lone
  <1>1. NoRow \in RowRecs /\ [r \in Names |-> NoRow] \in [Names -> RowRecs]
    BY DEF NoRow, RowRecs
  <1>2. NoDnsCall \in DnsCallRecs
    BY <1>1 DEF NoDnsCall, DnsCallRecs, DnsPcs
  <1> QED
    BY <1>1, <1>2 DEF NoDnsCall

\* What one request does next to the others: they were not alone, it stays
\* alone at most.
LEMMA Goes ==
    ASSUME DnsInv, NEW q \in DnsCalls, call[q].pc # "idle",
           NEW c \in DnsCallRecs, call' = [call EXCEPT ![q] = c],
           c.lone => call[q].lone, Named(c), Course(c)',
           dnsRow' \in [Names -> RowRecs], zone' \in ZoneRecs, dnsDomain' \in DomainRecs,
           calls' = calls, LoneRequestHolds'
    PROVE  DnsInv'
  <1>0. call \in [DnsCalls -> DnsCallRecs] /\ calls \in Nat /\ Alone
    BY DEF DnsInv, DnsShape
  <1>1. DnsShape'
    BY <1>0 DEF DnsShape
  <1>2. call'[q] = c /\ \A o \in DnsCalls : o # q => call'[o] = call[o] /\ ~call[o].lone
    BY <1>0 DEF Alone
  <1>3. Alone'
    BY <1>0, <1>2 DEF Alone
  <1>4. \A o \in DnsCalls : Named(call'[o]) /\ (o # q => ~call'[o].lone)
    BY <1>2 DEF DnsInv
  <1>5. \A o \in DnsCalls : Named(call[o])' /\ Course(call[o])'
    <2> TAKE o \in DnsCalls
    <2>1. Named(call[o])'
      BY <1>4 DEF Named
    <2>2. Course(call[o])'
      BY <1>2, <1>4 DEF Course, SyncCourse, CheckCourse, UpsertCourse
    <2> QED
      BY <2>1, <2>2
  <1> QED
    BY <1>1, <1>3, <1>5 DEF DnsInv

\* The same for one that ends.
LEMMA GoesHome ==
    ASSUME DnsInv, NEW q \in DnsCalls, call[q].pc # "idle", call' = [call EXCEPT ![q] = NoDnsCall],
           dnsRow' \in [Names -> RowRecs], zone' \in ZoneRecs, dnsDomain' \in DomainRecs,
           calls' = calls, LoneRequestHolds'
    PROVE  DnsInv'
  <1>1. PICK c \in DnsCallRecs : c = NoDnsCall
    BY NoDnsCallFacts
  <1>2. ~c.lone /\ Named(c)
    BY <1>1, NoDnsCallFacts DEF Named
  <1>3. Course(c)'
    BY <1>2 DEF Course
  <1> QED
    BY <1>1, <1>2, <1>3, Goes

\* A step that completes nothing.
LEMMA NothingDone == done' = NotDone => LoneRequestHolds'
  BY DEF NotDone, LoneRequestHolds

\* What the provider's two calls do to the zone.
LEMMA PushFacts ==
    ASSUME zone \in ZoneRecs, NEW r \in Names, Push(r)
    PROVE  /\ zone' \in ZoneRecs
           /\ PushedId(r) \in Nat \ {0} /\ zone'.ids[r] = PushedId(r)
           /\ \A s \in Names : s # r => zone'.ids[s] = zone.ids[s]
  <1>1. zone.ids \in [Names -> Nat] /\ zone.seq \in Nat
    BY DEF ZoneRecs
  <1>2. PushedId(r) \in Nat \ {0}
    BY <1>1 DEF PushedId
  <1>3. PICK i \in Nat : i = PushedId(r)
    BY <1>2
  <1>4. zone' = [zone EXCEPT !.ids[r] = i, !.seq = IF i > @ THEN i ELSE @]
    BY <1>3 DEF Push
  <1>5. zone' \in ZoneRecs
    BY <1>1, <1>4 DEF ZoneRecs
  <1>6. zone'.ids = [zone.ids EXCEPT ![r] = i]
    BY <1>4 DEF ZoneRecs
  <1> QED
    BY <1>1, <1>2, <1>3, <1>5, <1>6

LEMMA UnpushFacts == ASSUME zone \in ZoneRecs, NEW id, Unpush(id) PROVE zone' \in ZoneRecs
  <1> DEFINE n == [r \in Names |-> IF zone.ids[r] = id THEN 0 ELSE zone.ids[r]]
  <1>1. n \in [Names -> Nat]
    BY DEF ZoneRecs
  <1>2. zone' = [zone EXCEPT !.ids = n]
    BY DEF Unpush
  <1> HIDE DEF n
  <1> QED
    BY <1>1, <1>2 DEF ZoneRecs

\* The parts of the invariant that every step of request q starts from.
LEMMA CallFacts ==
    ASSUME DnsInv, NEW q \in DnsCalls
    PROVE  /\ dnsRow \in [Names -> RowRecs] /\ zone \in ZoneRecs /\ dnsDomain \in DomainRecs
           /\ call \in [DnsCalls -> DnsCallRecs] /\ call[q] \in DnsCallRecs
           /\ Named(call[q]) /\ Course(call[q])
  BY DEF DnsInv, DnsShape

\* What a request that ends with success says about itself.
LEMMA CompletesFacts ==
    ASSUME NEW q \in DnsCalls, NEW w, Completes(q, w)
    PROVE  /\ call' = [call EXCEPT ![q] = NoDnsCall]
           /\ call[q].lone => /\ done'.kind = call[q].kind /\ done'.rec = call[q].rec
                              /\ done'.all = call[q].all
                              /\ done'.written = (call[q].whole /\ w)
           /\ ~call[q].lone => done' = NotDone
  BY DEF Completes

LEMMA StatusFacts ==
    ASSUME NEW q \in DnsCalls, NEW d \in DomainRecs, dnsDomain \in DomainRecs, SetsStatus(q, d)
    PROVE  dnsDomain' \in DomainRecs /\ \E w \in BOOLEAN : Completes(q, w) /\ (w => dnsDomain' = d)
  <1>1. CASE dnsDomain' = d /\ Completes(q, TRUE)
    <2>1. PICK b \in BOOLEAN : b = TRUE
      BY Zenon
    <2> QED
      BY <1>1, <2>1, Zenon
  <1>2. CASE Completes(q, FALSE) /\ UNCHANGED dnsDomain
    <2>1. PICK b \in BOOLEAN : b = FALSE
      BY Zenon
    <2>2. Completes(q, b) /\ (b => dnsDomain' = d)
      BY <1>2, <2>1, Zenon
    <2> QED
      BY <1>2, <2>2, Zenon
  <1> QED
    BY <1>1, <1>2, Zenon DEF SetsStatus

LEMMA UpsertStep ==
    ASSUME DnsInv, NEW q \in DnsCalls,
           UpsertCheck(q) \/ UpsertPush(q) \/ UpsertStore(q) \/ UpsertFinish(q)
    PROVE  DnsInv'
  <1> DEFINE r == call[q].rec
  <1>0. /\ dnsRow \in [Names -> RowRecs] /\ zone \in ZoneRecs /\ dnsDomain \in DomainRecs
        /\ call[q] \in DnsCallRecs /\ Named(call[q]) /\ Course(call[q])
    BY CallFacts
  <1>1. call[q].kind = "upsert" /\ call[q].pc # "idle" /\ calls' = calls
    BY DEF UpsertCheck, UpsertPush, UpsertStore, UpsertFinish, Stands
  <1>2. r \in Names
    BY <1>0, <1>1 DEF Named
  <1>3. CASE Rejected(q) /\ UNCHANGED <<dnsRow, dnsDomain, zone>>
    BY <1>0, <1>1, <1>3, GoesHome, NothingDone DEF Rejected, Proceeds
  <1>4. CASE UpsertCheck(q) /\ ~Rejected(q)
    <2>1. PICK c \in DnsCallRecs : c = [call[q] EXCEPT !.pc = "push"]
      BY <1>0 DEF DnsCallRecs, DnsPcs
    <2>2. c.pc = "push" /\ c.kind = "upsert" /\ c.rec = r /\ c.lone = call[q].lone
      BY <1>0, <1>1, <2>1 DEF DnsCallRecs
    <2>3. /\ Proceeds(q, c) /\ \A s \in Stored : ~Conflicts(r, s)
          /\ UNCHANGED <<dnsRow, dnsDomain, zone>>
      BY <1>4, <2>1, Zenon DEF UpsertCheck
    <2>4. Named(c) /\ Course(c)'
      BY <1>2, <2>2, <2>3 DEF Named, Course, SyncCourse, CheckCourse, UpsertCourse, Stored
    <2> QED
      BY <1>0, <1>1, <2>2, <2>3, <2>4, Goes, NothingDone DEF Proceeds
  <1>5. CASE UpsertPush(q) /\ zone.known
    <2>1. Push(r) /\ UNCHANGED <<dnsRow, dnsDomain>> /\ call[q].pc = "push"
      BY <1>5 DEF UpsertPush, Stands
    <2>2. zone' \in ZoneRecs /\ PushedId(r) \in Nat \ {0} /\ zone'.ids[r] = PushedId(r)
      BY <1>0, <1>2, <2>1, PushFacts
    <2>3. PICK c \in DnsCallRecs : c = [call[q] EXCEPT !.pc = "store", !.id = PushedId(r)]
      BY <1>0, <2>2 DEF DnsCallRecs, DnsPcs
    <2>4. /\ c.pc = "store" /\ c.kind = "upsert" /\ c.rec = r /\ c.lone = call[q].lone
          /\ c.id = PushedId(r)
      BY <1>0, <1>1, <2>3 DEF DnsCallRecs
    <2>5. Proceeds(q, c)
      BY <1>5, <2>3, Zenon DEF UpsertPush
    <2>6. Stored' = Stored
      BY <2>1 DEF Stored
    <2>7. Named(c) /\ Course(c)'
      BY <1>0, <1>1, <1>2, <2>1, <2>2, <2>4, <2>6
      DEF Named, Course, SyncCourse, CheckCourse, UpsertCourse, Serves
    <2> QED
      BY <1>0, <1>1, <2>1, <2>2, <2>4, <2>5, <2>7, Goes, NothingDone DEF Proceeds
  <1>6. CASE UpsertStore(q)
    <2>1. PICK c \in DnsCallRecs : c = [call[q] EXCEPT !.pc = "finish"]
      BY <1>0 DEF DnsCallRecs, DnsPcs
    <2>2. c.pc = "finish" /\ c.kind = "upsert" /\ c.rec = r /\ c.lone = call[q].lone
      BY <1>0, <1>1, <2>1 DEF DnsCallRecs
    <2>3. Proceeds(q, c) /\ UNCHANGED <<dnsDomain, zone>> /\ call[q].pc = "store"
      BY <1>6, <2>1, Zenon DEF UpsertStore, Stands
    <2>4. call[q].key \in Nat /\ call[q].id \in Nat /\ dnsRow[r] \in RowRecs
      BY <1>0, <1>2 DEF DnsCallRecs
    <2>5. PICK row \in RowRecs : row = [key |-> IF dnsRow[r] = NoRow THEN call[q].key ELSE dnsRow[r].key,
                                        pid |-> call[q].id]
      BY <2>4 DEF RowRecs
    <2>6. dnsRow' = [dnsRow EXCEPT ![r] = row] /\ row.pid = call[q].id
      BY <1>6, <2>5 DEF UpsertStore
    <2>7. dnsRow' \in [Names -> RowRecs] /\ dnsRow'[r] = row
          /\ \A s \in Names : s # r => dnsRow'[s] = dnsRow[s]
      BY <1>0, <1>2, <2>6
    <2>8. Stored' \subseteq Stored \cup {r} /\ (row.pid # 0 => r \in Stored')
      BY <1>2, <2>7 DEF Stored, NoRow
    <2>9. call[q].lone => /\ \A s \in Stored : ~Conflicts(r, s)
                          /\ zone.ids[r] = call[q].id /\ call[q].id # 0
      BY <1>0, <1>1, <2>3 DEF Course, UpsertCourse, Serves
    <2>10. c.lone => UpsertCourse(c)'
      BY <2>2, <2>3, <2>6, <2>7, <2>8, <2>9 DEF UpsertCourse, Conflicts
    <2>11. Named(c) /\ Course(c)'
      BY <1>2, <2>2, <2>10 DEF Named, Course, SyncCourse, CheckCourse
    <2> QED
      BY <1>0, <1>1, <2>2, <2>3, <2>7, <2>11, Goes, NothingDone DEF Proceeds
  <1>7. CASE UpsertFinish(q)
    <2>0. [dnsDomain EXCEPT !.dns = "pending"] \in DomainRecs
      BY <1>0 DEF DomainRecs
    <2>1. /\ UNCHANGED <<dnsRow, zone>> /\ call[q].pc = "finish"
          /\ SetsStatus(q, [dnsDomain EXCEPT !.dns = "pending"])
      BY <1>7, Zenon DEF UpsertFinish, Stands
    <2>2. dnsDomain' \in DomainRecs /\ \E w \in BOOLEAN : Completes(q, w)
      BY <1>0, <2>0, <2>1, StatusFacts
    <2>3. call[q].lone => /\ r \in Stored /\ zone.ids[r] = dnsRow[r].pid
                          /\ \A s \in Stored : ~Conflicts(r, s)
      BY <1>0, <1>1, <2>1 DEF Course, UpsertCourse
    <2>4. Stored' = Stored
      BY <2>1 DEF Stored
    <2>5. CASE call[q].lone
      <3>1. done'.kind = "upsert" /\ done'.rec = r
        BY <1>1, <2>2, <2>5, CompletesFacts
      <3>2. LoneRequestHolds'
        BY <2>1, <2>3, <2>4, <2>5, <3>1 DEF LoneRequestHolds
      <3> QED
        BY <1>0, <1>1, <2>1, <2>2, <3>2, GoesHome, CompletesFacts
    <2>6. CASE ~call[q].lone
      BY <1>0, <1>1, <2>1, <2>2, <2>6, GoesHome, NothingDone, CompletesFacts
    <2> QED
      BY <2>5, <2>6
  <1>8. UpsertCheck(q) => UNCHANGED <<dnsRow, dnsDomain, zone>>
    BY DEF UpsertCheck
  <1>9. UpsertPush(q) /\ ~zone.known => Rejected(q) /\ UNCHANGED <<dnsRow, dnsDomain, zone>>
    BY DEF UpsertPush
  <1> QED
    BY <1>3, <1>4, <1>5, <1>6, <1>7, <1>8, <1>9

\* A request of a kind that promises nothing at its end only has to keep the
\* shape of things.
LEMMA PlainCourse ==
    ASSUME NEW c, c.kind \in {"delete", "remove"} PROVE Course(c)'
  BY DEF Course, SyncCourse, CheckCourse, UpsertCourse

LEMMA DeleteRecordStep ==
    ASSUME DnsInv, NEW q \in DnsCalls, DeleteLoad(q) \/ DeletePush(q) \/ DeleteStore(q)
    PROVE  DnsInv'
  <1> DEFINE r == call[q].rec
  <1>0. /\ dnsRow \in [Names -> RowRecs] /\ zone \in ZoneRecs /\ dnsDomain \in DomainRecs
        /\ call[q] \in DnsCallRecs /\ Named(call[q])
    BY CallFacts
  <1>1. call[q].kind = "delete" /\ call[q].pc # "idle" /\ calls' = calls
    BY DEF DeleteLoad, DeletePush, DeleteStore, Stands
  <1>2. r \in Names
    BY <1>0, <1>1 DEF Named
  <1>3. CASE DeleteLoad(q) /\ r \notin Stored
    BY <1>0, <1>1, <1>3, GoesHome, NothingDone DEF DeleteLoad, Rejected, Proceeds
  <1>4. CASE DeleteLoad(q) /\ r \in Stored
    <2>1. dnsRow[r].pid \in Nat
      BY <1>0, <1>2 DEF RowRecs
    <2>2. PICK c \in DnsCallRecs : c = [call[q] EXCEPT !.pc = "push", !.seen = dnsRow, !.id = dnsRow[r].pid]
      BY <1>0, <2>1 DEF DnsCallRecs, DnsPcs
    <2>3. c.pc = "push" /\ c.kind = "delete" /\ c.rec = r /\ c.lone = call[q].lone
      BY <1>0, <1>1, <2>2 DEF DnsCallRecs
    <2>4. Proceeds(q, c) /\ UNCHANGED <<dnsRow, dnsDomain, zone>>
      BY <1>4, <2>2, Zenon DEF DeleteLoad
    <2>5. Named(c) /\ Course(c)'
      BY <1>2, <2>3, PlainCourse DEF Named
    <2> QED
      BY <1>0, <1>1, <2>3, <2>4, <2>5, Goes, NothingDone DEF Proceeds
  <1>5. CASE DeletePush(q)
    <2>1. PICK c \in DnsCallRecs : c = [call[q] EXCEPT !.pc = "store"]
      BY <1>0 DEF DnsCallRecs, DnsPcs
    <2>2. c.pc = "store" /\ c.kind = "delete" /\ c.rec = r /\ c.lone = call[q].lone
      BY <1>0, <1>1, <2>1 DEF DnsCallRecs
    <2>3. Proceeds(q, c) /\ UNCHANGED <<dnsRow, dnsDomain>> /\ Unpush(call[q].id)
      BY <1>5, <2>1, Zenon DEF DeletePush
    <2>4. zone' \in ZoneRecs
      BY <1>0, <2>3, UnpushFacts
    <2>5. Named(c) /\ Course(c)'
      BY <1>2, <2>2, PlainCourse DEF Named
    <2> QED
      BY <1>0, <1>1, <2>2, <2>3, <2>4, <2>5, Goes, NothingDone DEF Proceeds
  <1>6. CASE DeleteStore(q)
    <2>1. PICK row \in RowRecs :
             row = IF dnsRow[r].key = call[q].seen[r].key THEN NoRow ELSE dnsRow[r]
      BY <1>0, <1>2, NoDnsCallFacts
    <2>2. /\ dnsRow' = [dnsRow EXCEPT ![r] = row] /\ Completes(q, TRUE)
          /\ UNCHANGED <<dnsDomain, zone>>
      BY <1>6, <2>1, Zenon DEF DeleteStore
    <2>3. dnsRow' \in [Names -> RowRecs]
      BY <1>0, <2>2
    <2>4. done'.kind \in {"none", "delete"}
      <3>1. \/ call[q].lone /\ done'.kind = call[q].kind
            \/ done' = NotDone
        BY <2>2, CompletesFacts, Zenon
      <3> QED
        BY <1>1, <3>1 DEF NotDone
    <2>5. LoneRequestHolds'
      BY <2>4 DEF LoneRequestHolds
    <2> QED
      BY <1>0, <1>1, <2>2, <2>3, <2>5, GoesHome, CompletesFacts
  <1> QED
    BY <1>3, <1>4, <1>5, <1>6

\* Reading the rows: nothing is done with them yet.
LEMMA ReadRowsFacts ==
    ASSUME DnsInv, NEW q \in DnsCalls, ReadRows(q, "push"), UNCHANGED dnsRow
    PROVE  \E c \in DnsCallRecs :
              /\ Proceeds(q, c) /\ c.pc = "push" /\ c.kind = call[q].kind /\ c.lone = call[q].lone
              /\ c.left = Stored /\ c.seen = dnsRow /\ (c.all <=> Stored # {}) /\ c.rec = call[q].rec
              /\ c.whole = call[q].whole
  <1>0. dnsRow \in [Names -> RowRecs] /\ call[q] \in DnsCallRecs /\ Stored \subseteq Names
    BY CallFacts DEF Stored
  <1>1. PICK b \in BOOLEAN : b = (Stored # {})
    BY Zenon
  <1> DEFINE c == [call[q] EXCEPT !.pc = "push", !.seen = dnsRow, !.left = Stored, !.all = b]
  <1>2. c \in DnsCallRecs
    BY <1>0 DEF DnsCallRecs, DnsPcs
  <1>3. /\ c.pc = "push" /\ c.kind = call[q].kind /\ c.lone = call[q].lone
        /\ c.left = Stored /\ c.seen = dnsRow /\ c.all = b /\ c.rec = call[q].rec
        /\ c.whole = call[q].whole
    BY <1>0 DEF DnsCallRecs
  <1>4. Proceeds(q, c)
    BY <1>1, Zenon DEF ReadRows
  <1> HIDE DEF c
  <1> QED
    BY <1>1, <1>2, <1>3, <1>4, Zenon

LEMMA SyncStep ==
    ASSUME DnsInv, NEW q \in DnsCalls,
           SyncRead(q) \/ SyncPush(q) \/ SyncStore(q) \/ SyncFinish(q)
    PROVE  DnsInv'
  <1> DEFINE L == call[q].left  r == First(L)
  <1>0. /\ dnsRow \in [Names -> RowRecs] /\ zone \in ZoneRecs /\ dnsDomain \in DomainRecs
        /\ call[q] \in DnsCallRecs /\ L \in SUBSET Names /\ (call[q].lone => SyncCourse(call[q]))
    BY CallFacts DEF DnsCallRecs, Course
  <1>1. call[q].kind = "sync" /\ call[q].pc # "idle" /\ calls' = calls
    BY DEF SyncRead, SyncPush, SyncStore, SyncFinish, Stands
  <1>2. L # {} => r \in L /\ r \in Names
    BY <1>0, FirstIsOne
  <1>3. CASE SyncRead(q)
    <2>0. UNCHANGED <<dnsRow, dnsDomain>> /\ zone' \in ZoneRecs
          /\ (ReadRows(q, "push") \/ Rejected(q))
      <3>1. [zone EXCEPT !.known = TRUE] \in ZoneRecs
        BY <1>0, Zenon DEF ZoneRecs
      <3> QED
        BY <1>0, <1>3, <3>1, Zenon DEF SyncRead
    <2>1. CASE Rejected(q)
      BY <1>0, <1>1, <2>0, <2>1, GoesHome, NothingDone DEF Rejected, Proceeds
    <2>2. CASE ReadRows(q, "push")
      <3>1. PICK c \in DnsCallRecs :
                /\ Proceeds(q, c) /\ c.pc = "push" /\ c.kind = "sync" /\ c.lone = call[q].lone
                /\ c.left = Stored /\ c.seen = dnsRow
        BY <1>1, <2>0, <2>2, ReadRowsFacts
      <3>2. Stored' = Stored
        BY <2>0 DEF Stored
      <3>3. Named(c) /\ Course(c)'
        BY <2>0, <3>1, <3>2 DEF Named, Course, SyncCourse, CheckCourse, UpsertCourse
      <3> QED
        BY <1>0, <1>1, <2>0, <3>1, <3>3, Goes, NothingDone DEF Proceeds
    <2> QED
      BY <2>0, <2>1, <2>2
  <1>4. CASE SyncPush(q)
    <2>1. /\ L # {} /\ Push(r) /\ UNCHANGED <<dnsRow, dnsDomain>> /\ call[q].pc = "push"
      BY <1>4, Zenon DEF SyncPush, Stands
    <2>2. /\ zone' \in ZoneRecs /\ PushedId(r) \in Nat \ {0} /\ zone'.ids[r] = PushedId(r)
          /\ \A s \in Names : s # r => zone'.ids[s] = zone.ids[s]
      BY <1>0, <1>2, <2>1, PushFacts
    <2>3. PICK c \in DnsCallRecs : c = [call[q] EXCEPT !.pc = "store", !.id = PushedId(r)]
      BY <1>0, <2>2 DEF DnsCallRecs, DnsPcs
    <2>4. /\ c.pc = "store" /\ c.kind = "sync" /\ c.lone = call[q].lone /\ c.id = PushedId(r)
          /\ c.left = L /\ c.seen = call[q].seen /\ c.whole = call[q].whole
      BY <1>0, <1>1, <2>3 DEF DnsCallRecs
    <2>5. Proceeds(q, c)
      BY <1>4, <2>3, Zenon DEF SyncPush
    <2>6. Stored' = Stored /\ Stored \subseteq Names
      BY <2>1 DEF Stored
    <2>7. c.lone => SyncCourse(c)'
      BY <1>0, <1>1, <1>2, <2>1, <2>2, <2>4, <2>6 DEF SyncCourse, Serves
    <2>8. Named(c) /\ Course(c)'
      BY <2>4, <2>7 DEF Named, Course, CheckCourse, UpsertCourse
    <2> QED
      BY <1>0, <1>1, <2>1, <2>2, <2>4, <2>5, <2>8, Goes, NothingDone DEF Proceeds
  <1>5. CASE SyncStore(q)
    <2> DEFINE next == [call[q] EXCEPT !.pc = "push", !.left = @ \ {r}]
    <2>0. call[q].pc = "store" /\ UNCHANGED <<dnsDomain, zone>>
      BY <1>5 DEF SyncStore, Stands
    <2>1. PICK c \in DnsCallRecs : c = next
      BY <1>0 DEF DnsCallRecs, DnsPcs
    <2>2. /\ c.pc = "push" /\ c.kind = "sync" /\ c.lone = call[q].lone
          /\ c.left = L \ {r} /\ c.seen = call[q].seen /\ c.whole = call[q].whole
      BY <1>0, <1>1, <2>1 DEF DnsCallRecs
    <2>3. CASE DnsFault /\ Proceeds(q, [next EXCEPT !.whole = FALSE]) /\ UNCHANGED dnsRow
      <3>0. PICK no \in BOOLEAN : no = FALSE
        BY Zenon
      <3>1. PICK d \in DnsCallRecs : d = [c EXCEPT !.whole = no]
        BY DEF DnsCallRecs
      <3>2. /\ d.pc = "push" /\ d.kind = "sync" /\ d.lone = call[q].lone /\ d.whole = no
            /\ d.left = L \ {r} /\ d.seen = call[q].seen
        BY <2>2, <3>1 DEF DnsCallRecs
      <3>3. Proceeds(q, d)
        BY <2>1, <2>3, <3>0, <3>1, Zenon
      <3>4. Stored' = Stored /\ Stored \subseteq Names /\ ~d.whole
        BY <2>3, <3>0, <3>2, Zenon DEF Stored
      <3>5. d.lone => SyncCourse(d)'
        <4> SUFFICES ASSUME d.lone PROVE SyncCourse(d)'
          OBVIOUS
        <4>1. /\ \A s \in L : s \in Stored /\ call[q].seen[s].key = dnsRow[s].key
              /\ \A s \in Stored \ L : Serves(s)
              /\ Serves(r)
          BY <1>0, <1>1, <2>0, <3>2 DEF SyncCourse
        <4>2. \A s \in Stored \ d.left : Serves(s)
          BY <3>2, <4>1
        <4> QED
          BY <2>0, <2>3, <3>2, <3>4, <4>1, <4>2 DEF SyncCourse, Serves
      <3>6. Named(d) /\ Course(d)'
        BY <3>2, <3>5 DEF Named, Course, CheckCourse, UpsertCourse
      <3> QED
        BY <1>0, <1>1, <2>0, <2>3, <3>2, <3>3, <3>6, Goes, NothingDone DEF Proceeds
    <2>4. CASE /\ dnsRow' = [dnsRow EXCEPT ![r] = IF @.key = call[q].seen[r].key
                                                 THEN Synced(@, call[q].id) ELSE @]
               /\ Proceeds(q, next)
      <3>1. \A row \in RowRecs : LET s == Synced(row, call[q].id)
                                 IN  s \in RowRecs /\ s.key = row.key /\ s.pid = call[q].id
        BY <1>0 DEF Synced, RowRecs, DnsCallRecs
      <3>2. /\ dnsRow' \in [Names -> RowRecs]
            /\ \A s \in Names : s # r => dnsRow'[s] = dnsRow[s]
            /\ r \in Names /\ dnsRow[r].key = call[q].seen[r].key => dnsRow'[r].pid = call[q].id
        BY <1>0, <2>4, <3>1
      <3>3. call[q].lone => /\ r \in L /\ r \in Names /\ zone.ids[r] = call[q].id /\ call[q].id # 0
                            /\ dnsRow'[r].pid = call[q].id
        BY <1>0, <1>1, <1>2, <2>0, <3>2 DEF SyncCourse, Serves
      <3>4. call[q].lone => Stored' \subseteq Stored /\ Stored \subseteq Stored'
        BY <1>0, <1>1, <2>0, <3>2, <3>3 DEF Stored, NoRow, SyncCourse
      <3>5. c.lone => SyncCourse(c)'
        <4> SUFFICES ASSUME c.lone PROVE SyncCourse(c)'
          OBVIOUS
        <4>1. Stored' = Stored /\ Stored \subseteq Names
          BY <2>2, <3>4 DEF Stored
        <4>2. /\ \A s \in L : s \in Stored /\ call[q].seen[s].key = dnsRow[s].key
              /\ \A s \in Stored \ L : Serves(s) /\ (c.whole => zone.ids[s] = dnsRow[s].pid)
          BY <1>0, <1>1, <2>0, <2>2 DEF SyncCourse
        <4>3. \A s \in c.left : s \in Stored' /\ c.seen[s].key = dnsRow'[s].key
          BY <2>2, <3>2, <4>1, <4>2
        <4>4. \A s \in Stored' \ c.left : zone'.ids[s] # 0 /\ (c.whole => zone'.ids[s] = dnsRow'[s].pid)
          BY <2>0, <2>2, <3>2, <3>3, <4>1, <4>2 DEF Serves
        <4> QED
          BY <2>2, <4>3, <4>4 DEF SyncCourse, Serves
      <3>6. Named(c) /\ Course(c)'
        BY <2>2, <3>5 DEF Named, Course, CheckCourse, UpsertCourse
      <3> QED
        BY <1>0, <1>1, <2>0, <2>1, <2>2, <2>4, <3>2, <3>6, Goes, NothingDone DEF Proceeds
    <2> QED
      BY <1>5, <2>3, <2>4, Zenon DEF SyncStore
  <1>6. CASE SyncFinish(q)
    <2>1. /\ Completes(q, TRUE) /\ UNCHANGED <<dnsRow, dnsDomain, zone>>
          /\ L = {} /\ call[q].pc = "push"
      BY <1>6, Zenon DEF SyncFinish, Stands
    <2>2. Stored' = Stored
      BY <2>1 DEF Stored
    <2>3. CASE call[q].lone
      <3>1. done'.kind = "sync" /\ (done'.written => call[q].whole)
        BY <1>1, <2>1, <2>3, CompletesFacts
      <3>2. \A s \in Stored : Serves(s) /\ (call[q].whole => zone.ids[s] = dnsRow[s].pid)
        BY <1>0, <1>1, <2>1, <2>3 DEF SyncCourse
      <3>3. LoneRequestHolds'
        BY <2>1, <2>2, <3>1, <3>2 DEF LoneRequestHolds, Serves
      <3> QED
        BY <1>0, <1>1, <2>1, <3>3, GoesHome, CompletesFacts
    <2>4. CASE ~call[q].lone
      BY <1>0, <1>1, <2>1, <2>4, GoesHome, NothingDone, CompletesFacts
    <2> QED
      BY <2>3, <2>4
  <1> QED
    BY <1>3, <1>4, <1>5, <1>6

LEMMA CheckStep ==
    ASSUME DnsInv, NEW q \in DnsCalls, CheckRead(q) \/ CheckOne(q) \/ CheckFinish(q)
    PROVE  DnsInv'
  <1> DEFINE L == call[q].left  r == First(L)
  <1>0. /\ dnsRow \in [Names -> RowRecs] /\ zone \in ZoneRecs /\ dnsDomain \in DomainRecs
        /\ call[q] \in DnsCallRecs /\ L \in SUBSET Names /\ (call[q].lone => CheckCourse(call[q]))
    BY CallFacts DEF DnsCallRecs, Course
  <1>1. call[q].kind = "check" /\ call[q].pc # "idle" /\ calls' = calls
    BY DEF CheckRead, CheckOne, CheckFinish, Stands
  <1>2. CASE CheckRead(q)
    <2>1. ReadRows(q, "push") /\ UNCHANGED <<dnsRow, dnsDomain, zone>>
      BY <1>2 DEF CheckRead
    <2>2. PICK c \in DnsCallRecs :
              /\ Proceeds(q, c) /\ c.pc = "push" /\ c.kind = "check" /\ c.lone = call[q].lone
              /\ c.left = Stored /\ (c.all <=> Stored # {})
      BY <1>1, <2>1, ReadRowsFacts
    <2>3. Stored' = Stored
      BY <2>1 DEF Stored
    <2>4. Named(c) /\ Course(c)'
      BY <2>2, <2>3 DEF Named, Course, SyncCourse, CheckCourse, UpsertCourse
    <2> QED
      BY <1>0, <1>1, <2>1, <2>2, <2>4, Goes, NothingDone DEF Proceeds
  <1>3. CASE CheckOne(q)
    <2>1. L # {} /\ UNCHANGED <<dnsRow, dnsDomain, zone>> /\ call[q].pc = "push"
      BY <1>3, Zenon DEF CheckOne, Stands
    <2>2. PICK b \in BOOLEAN : b = (call[q].all /\ Serves(r))
      BY Zenon
    <2>3. PICK c \in DnsCallRecs : c = [call[q] EXCEPT !.left = L \ {r}, !.all = b]
      BY <1>0 DEF DnsCallRecs
    <2>4. /\ c.pc = "push" /\ c.kind = "check" /\ c.lone = call[q].lone
          /\ c.left = L \ {r} /\ c.all = b
      BY <1>0, <1>1, <2>1, <2>3 DEF DnsCallRecs
    <2>5. Proceeds(q, [call[q] EXCEPT !.left = L \ {r}, !.all = call[q].all /\ Serves(r)])
      BY <1>3 DEF CheckOne
    <2>6. Proceeds(q, c)
      BY <2>2, <2>3, <2>5, Zenon
    <2>7. c.all <=> call[q].all /\ Serves(r)
      BY <2>2, <2>4, Zenon
    <2>8. Stored' = Stored
      BY <2>1 DEF Stored
    <2>9. c.lone => /\ c.left \subseteq Stored
                    /\ c.all <=> (Stored # {} /\ \A s \in Stored \ c.left : Serves(s))
      <3> SUFFICES ASSUME c.lone
                   PROVE  /\ c.left \subseteq Stored
                          /\ c.all <=> (Stored # {} /\ \A s \in Stored \ c.left : Serves(s))
        OBVIOUS
      <3>1. /\ L \subseteq Stored
            /\ call[q].all <=> (Stored # {} /\ \A s \in Stored \ L : Serves(s))
        BY <1>0, <1>1, <2>1, <2>4 DEF CheckCourse
      <3>2. r \in L /\ Stored \ c.left = (Stored \ L) \cup {r}
        BY <1>0, <2>1, <2>4, <3>1, FirstIsOne
      <3> QED
        BY <2>4, <2>7, <3>1, <3>2
    <2>10. Named(c) /\ Course(c)'
      BY <2>1, <2>4, <2>8, <2>9 DEF Named, Course, SyncCourse, CheckCourse, UpsertCourse, Serves
    <2> QED
      BY <1>0, <1>1, <2>1, <2>4, <2>6, <2>10, Goes, NothingDone DEF Proceeds
  <1>4. CASE CheckFinish(q)
    <2> DEFINE d == IF call[q].all THEN [dnsDomain EXCEPT !.dns = "ok", !.status = "active"]
                    ELSE [dnsDomain EXCEPT !.dns = "pending"]
    <2>1. /\ UNCHANGED <<dnsRow, zone>> /\ L = {} /\ call[q].pc = "push" /\ SetsStatus(q, d)
      BY <1>4, Zenon DEF CheckFinish, Stands
    <2>2. d \in DomainRecs /\ (d.dns = "ok" <=> call[q].all)
      BY <1>0 DEF DomainRecs
    <2>3. dnsDomain' \in DomainRecs
      BY <1>0, <2>1, <2>2, StatusFacts
    <2>4. PICK w \in BOOLEAN : Completes(q, w) /\ (w => dnsDomain' = d)
      BY <1>0, <2>1, <2>2, StatusFacts
    <2> HIDE DEF d
    <2>5. Stored' = Stored
      BY <2>1 DEF Stored
    <2>6. CASE call[q].lone
      <3>1. /\ done'.kind = "check" /\ done'.all = call[q].all
            /\ done'.written = (call[q].whole /\ w)
        BY <1>1, <2>4, <2>6, CompletesFacts
      <3>2. done'.written => (dnsDomain'.dns = "ok" <=> done'.all)
        BY <2>2, <2>4, <3>1
      <3>3. call[q].all <=> (Stored # {} /\ \A s \in Stored : Serves(s))
        BY <1>0, <1>1, <2>1, <2>6 DEF CheckCourse
      <3>4. LoneRequestHolds'
        BY <2>1, <2>5, <3>1, <3>2, <3>3 DEF LoneRequestHolds, Serves
      <3> QED
        BY <1>0, <1>1, <2>1, <2>3, <2>4, <3>4, GoesHome, CompletesFacts
    <2>7. CASE ~call[q].lone
      BY <1>0, <1>1, <2>1, <2>3, <2>4, <2>7, GoesHome, NothingDone, CompletesFacts
    <2> QED
      BY <2>6, <2>7
  <1> QED
    BY <1>2, <1>3, <1>4

LEMMA RemoveStep ==
    ASSUME DnsInv, NEW q \in DnsCalls,
           RemoveRead(q) \/ RemoveLoad(q) \/ RemovePush(q) \/ RemoveRows(q) \/ RemoveFinish(q)
    PROVE  DnsInv'
  <1> DEFINE L == call[q].left  r == First(L)
  <1>0. /\ dnsRow \in [Names -> RowRecs] /\ zone \in ZoneRecs /\ dnsDomain \in DomainRecs
        /\ call[q] \in DnsCallRecs /\ L \in SUBSET Names /\ FALSE \in BOOLEAN
    BY CallFacts, Zenon DEF DnsCallRecs
  <1>1. call[q].kind = "remove" /\ call[q].pc # "idle" /\ calls' = calls
    BY DEF RemoveRead, RemoveLoad, RemovePush, RemoveRows, RemoveFinish, Stands
  <1>2. ASSUME NEW c \in DnsCallRecs, Proceeds(q, c), c.kind = "remove", c.lone => call[q].lone,
               dnsRow' \in [Names -> RowRecs], zone' \in ZoneRecs, UNCHANGED dnsDomain
        PROVE  DnsInv'
    <2>1. Named(c) /\ Course(c)'
      BY <1>2, PlainCourse DEF Named
    <2> QED
      BY <1>0, <1>1, <1>2, <2>1, Goes, NothingDone DEF Proceeds
  <1>3. CASE RemoveRead(q)
    <2>1. UNCHANGED <<dnsRow, dnsDomain, zone>>
      BY <1>3 DEF RemoveRead
    <2>2. CASE ReadRows(q, "push")
      <3>1. PICK c \in DnsCallRecs : Proceeds(q, c) /\ c.kind = "remove" /\ c.lone = call[q].lone
        BY <1>1, <2>1, <2>2, ReadRowsFacts
      <3> QED
        BY <1>0, <1>2, <2>1, <3>1
    <2>3. CASE Proceeds(q, [call[q] EXCEPT !.pc = "push"])
      <3>1. PICK c \in DnsCallRecs : c = [call[q] EXCEPT !.pc = "push"]
        BY <1>0 DEF DnsCallRecs, DnsPcs
      <3>2. c.kind = "remove" /\ c.lone = call[q].lone
        BY <1>0, <1>1, <3>1 DEF DnsCallRecs
      <3>3. Proceeds(q, c)
        BY <2>3, <3>1, Zenon
      <3> QED
        BY <1>0, <1>2, <2>1, <3>2, <3>3
    <2> QED
      BY <1>3, <2>2, <2>3 DEF RemoveRead
  <1>4. CASE RemoveLoad(q)
    <2> DEFINE next == [call[q] EXCEPT !.pc = "store", !.left = @ \ {r}, !.id = 0]
               pid == IF dnsRow[r].key = call[q].seen[r].key THEN dnsRow[r].pid ELSE 0
    <2>1. L # {} /\ UNCHANGED <<dnsRow, dnsDomain, zone>>
      BY <1>4, Zenon DEF RemoveLoad
    <2>2. r \in Names /\ pid \in Nat
      <3>1. r \in Names
        BY <1>0, <2>1, FirstIsOne
      <3> QED
        BY <1>0, <3>1 DEF RowRecs
    <2>3. PICK n \in DnsCallRecs : n = next
      BY <1>0 DEF DnsCallRecs, DnsPcs
    <2>4. n.kind = "remove" /\ n.lone = call[q].lone
      BY <1>0, <1>1, <2>3 DEF DnsCallRecs
    <2>5. CASE Proceeds(q, [next EXCEPT !.id = pid])
      <3>0. PICK id \in Nat : id = pid
        BY <2>2
      <3>1. PICK c \in DnsCallRecs : c = [n EXCEPT !.id = id]
        BY DEF DnsCallRecs
      <3>2. c.kind = "remove" /\ c.lone = call[q].lone
        BY <2>4, <3>1 DEF DnsCallRecs
      <3>3. Proceeds(q, c)
        BY <2>3, <2>5, <3>0, <3>1, Zenon
      <3> QED
        BY <1>0, <1>2, <2>1, <3>2, <3>3
    <2>6. CASE Proceeds(q, next)
      BY <1>0, <1>2, <2>1, <2>3, <2>4, <2>6, Zenon
    <2> QED
      BY <1>4, <2>5, <2>6, Zenon DEF RemoveLoad
  <1>5. CASE RemovePush(q)
    <2>1. PICK c \in DnsCallRecs : c = [call[q] EXCEPT !.pc = "push"]
      BY <1>0 DEF DnsCallRecs, DnsPcs
    <2>2. c.kind = "remove" /\ c.lone = call[q].lone
      BY <1>0, <1>1, <2>1 DEF DnsCallRecs
    <2>3. Proceeds(q, c) /\ UNCHANGED <<dnsRow, dnsDomain>> /\ Unpush(call[q].id)
      BY <1>5, <2>1, Zenon DEF RemovePush
    <2>4. zone' \in ZoneRecs
      BY <1>0, <2>3, UnpushFacts
    <2> QED
      BY <1>0, <1>2, <2>2, <2>3, <2>4
  <1>6. CASE RemoveRows(q)
    <2>1. PICK c \in DnsCallRecs : c = [call[q] EXCEPT !.pc = "finish"]
      BY <1>0 DEF DnsCallRecs, DnsPcs
    <2>2. c.kind = "remove" /\ c.lone = call[q].lone
      BY <1>0, <1>1, <2>1 DEF DnsCallRecs
    <2>3. Proceeds(q, c) /\ UNCHANGED <<dnsDomain, zone>> /\ dnsRow' = [s \in Names |-> NoRow]
      BY <1>6, <2>1, Zenon DEF RemoveRows
    <2>4. dnsRow' \in [Names -> RowRecs]
      BY <2>3, NoDnsCallFacts
    <2> QED
      BY <1>0, <1>2, <2>2, <2>3, <2>4
  <1>7. CASE RemoveFinish(q)
    <2>1. /\ Completes(q, TRUE) /\ UNCHANGED <<dnsRow, zone>>
          /\ dnsDomain' = [dnsDomain EXCEPT !.status = "removed", !.deleted = TRUE]
      BY <1>7, Zenon DEF RemoveFinish
    <2>2. PICK b \in BOOLEAN : b = TRUE
      BY Zenon
    <2>3. [dnsDomain EXCEPT !.status = "removed", !.deleted = b] \in DomainRecs
      BY <1>0 DEF DomainRecs
    <2>4. dnsDomain' \in DomainRecs
      BY <2>1, <2>2, <2>3, Zenon
    <2>5. done'.kind \in {"none", "remove"}
      <3>1. \/ call[q].lone /\ done'.kind = call[q].kind
            \/ done' = NotDone
        BY <2>1, CompletesFacts, Zenon
      <3> QED
        BY <1>1, <3>1 DEF NotDone
    <2>6. LoneRequestHolds'
      BY <2>5 DEF LoneRequestHolds
    <2> QED
      BY <1>0, <1>1, <2>1, <2>4, <2>6, GoesHome, CompletesFacts
  <1> QED
    BY <1>3, <1>4, <1>5, <1>6, <1>7

\* A request begins: alone if no other one is under way, and then none is.
LEMMA BeginStep ==
    ASSUME DnsInv, NEW q \in DnsCalls, NEW kind \in Kinds, NEW rec \in Names \cup {0},
           kind \in {"upsert", "delete"} => rec \in Names, GetDomain(q, kind, rec)
    PROVE  DnsInv'
  <1>0. /\ dnsRow \in [Names -> RowRecs] /\ zone \in ZoneRecs /\ dnsDomain \in DomainRecs
        /\ call \in [DnsCalls -> DnsCallRecs] /\ calls \in Nat
        /\ \A p \in DnsCalls : Named(call[p])
    BY DEF DnsInv, DnsShape
  <1>1. PICK b \in BOOLEAN : b = (\A o \in DnsCalls : call[o].pc = "idle")
    BY Zenon
  <1>2. PICK no \in BOOLEAN : no = FALSE
    BY Zenon
  <1> DEFINE n == [NoDnsCall EXCEPT !.pc = "read", !.kind = kind, !.rec = rec, !.key = calls + 1, !.lone = b]
             m(p) == IF p = q THEN n ELSE [call[p] EXCEPT !.lone = no]
  <1>3. n \in DnsCallRecs
    <2>1. calls + 1 \in Nat /\ "read" \in DnsPcs /\ kind \in Kinds \cup {"none"}
      BY <1>0 DEF DnsPcs
    <2> QED
      BY <2>1, NoDnsCallFacts DEF DnsCallRecs
  <1>4. n.pc = "read" /\ n.kind = kind /\ n.rec = rec /\ n.lone = b
    BY NoDnsCallFacts DEF DnsCallRecs
  <1>5. \A p \in DnsCalls : LET c == [call[p] EXCEPT !.lone = no]
                            IN  /\ c \in DnsCallRecs /\ c.lone = no /\ c.pc = call[p].pc
                                /\ c.kind = call[p].kind /\ c.rec = call[p].rec
    BY <1>0 DEF DnsCallRecs
  <1>6. call' = [p \in DnsCalls |-> m(p)]
    BY <1>1, <1>2, Zenon DEF GetDomain
  <1>7. /\ done' = NotDone /\ UNCHANGED <<dnsRow, dnsDomain, zone>> /\ calls' = calls + 1
    BY Zenon DEF GetDomain
  <1> HIDE DEF n
  <1>8. /\ call' \in [DnsCalls -> DnsCallRecs]
        /\ call'[q] = n
        /\ \A p \in DnsCalls : p # q => /\ call'[p].lone = no /\ call'[p].pc = call[p].pc
                                        /\ call'[p].kind = call[p].kind /\ call'[p].rec = call[p].rec
    BY <1>3, <1>5, <1>6
  <1>9. b => \A o \in DnsCalls : call[o].pc = "idle"
    BY <1>1, Zenon
  <1>10. ~no
    BY <1>2, Zenon
  <1>11. Alone'
    BY <1>4, <1>8, <1>9, <1>10 DEF Alone
  <1>12. \A p \in DnsCalls : Named(call[p])'
    BY <1>0, <1>4, <1>8 DEF Named
  <1>13. \A p \in DnsCalls : Course(call[p])'
    BY <1>4, <1>8, <1>10 DEF Course, SyncCourse, CheckCourse, UpsertCourse
  <1>14. DnsShape'
    BY <1>0, <1>7, <1>8 DEF DnsShape
  <1> QED
    BY <1>7, <1>11, <1>12, <1>13, <1>14, NothingDone DEF DnsInv

\* The API restarts, or a statement fails.
LEMMA FaultStep ==
    ASSUME DnsInv, RestartApi \/ \E q \in DnsCalls : StatementFails(q) PROVE DnsInv'
  <1>0. /\ dnsRow \in [Names -> RowRecs] /\ zone \in ZoneRecs /\ dnsDomain \in DomainRecs
        /\ call \in [DnsCalls -> DnsCallRecs] /\ calls \in Nat
    BY DEF DnsInv, DnsShape
  <1>1. CASE RestartApi
    <2>1. /\ zone' = NoZone /\ call' = [q \in DnsCalls |-> NoDnsCall] /\ done' = NotDone
          /\ UNCHANGED <<dnsRow, dnsDomain, calls>>
      BY <1>1 DEF RestartApi
    <2>2. PICK no \in BOOLEAN : no = FALSE
      BY Zenon
    <2>3. [known |-> no, ids |-> [r \in Names |-> 0], seq |-> 0] \in ZoneRecs
      BY DEF ZoneRecs
    <2>4. NoZone \in ZoneRecs
      BY <2>2, <2>3, Zenon DEF NoZone
    <2>5. call' \in [DnsCalls -> DnsCallRecs] /\ \A q \in DnsCalls : call'[q] = NoDnsCall
      BY <2>1, NoDnsCallFacts
    <2>6. DnsShape'
      BY <1>0, <2>1, <2>4, <2>5 DEF DnsShape
    <2>7. Alone' /\ \A q \in DnsCalls : Named(call[q])' /\ Course(call[q])'
      BY <2>5, NoDnsCallFacts DEF Alone, Named, Course
    <2> QED
      BY <2>1, <2>6, <2>7, NothingDone DEF DnsInv
  <1>2. ASSUME NEW q \in DnsCalls, StatementFails(q) PROVE DnsInv'
    <2>1. /\ call[q].pc # "idle" /\ call' = [call EXCEPT ![q] = NoDnsCall] /\ done' = NotDone
          /\ UNCHANGED <<dnsRow, dnsDomain, zone, calls>>
      BY <1>2 DEF StatementFails, AtStatement, Rejected, Proceeds
    <2> QED
      BY <1>0, <2>1, GoesHome, NothingDone
  <1> QED
    BY <1>1, <1>2

\* The first state: whatever records are there, they are in the zone.
LEMMA DnsStart == DnsInit => DnsInv
  <1> SUFFICES ASSUME DnsInit PROVE DnsInv
    OBVIOUS
  <1>1. PICK S \in {{}, Addresses} : \E n \in Orders(S) :
           /\ zone = [known |-> TRUE, ids |-> n, seq |-> Cardinality(S)]
           /\ dnsRow = [r \in Names |-> IF r \in S THEN [key |-> MaxDnsRequests + n[r], pid |-> n[r]]
                                     ELSE NoRow]
    BY DEF DnsInit
  <1>2. Cardinality(S) \in Nat
    <2>1. IsFiniteSet(Names)
      BY RecordsAssumption
    <2>2. S \in SUBSET Names
      BY <1>1 DEF Names
    <2> QED
      BY <2>1, <2>2, FS_Subset, FS_CardinalityType
  <1>3. PICK n \in [Names -> Nat] :
           /\ zone = [known |-> TRUE, ids |-> n, seq |-> Cardinality(S)]
           /\ dnsRow = [r \in Names |-> IF r \in S THEN [key |-> MaxDnsRequests + n[r], pid |-> n[r]]
                                     ELSE NoRow]
    <2>1. PICK n \in Orders(S) :
             /\ zone = [known |-> TRUE, ids |-> n, seq |-> Cardinality(S)]
             /\ dnsRow = [r \in Names |-> IF r \in S THEN [key |-> MaxDnsRequests + n[r], pid |-> n[r]]
                                       ELSE NoRow]
      BY <1>1, Zenon
    <2>2. n \in [Names -> 0..Cardinality(S)]
      BY Zenon DEF Orders
    <2>3. n \in [Names -> Nat]
      BY <1>2, <2>2
    <2> QED
      BY <2>1, <2>3, Zenon
  <1>4. PICK b \in BOOLEAN : b = TRUE
    BY Zenon
  <1>5. [known |-> b, ids |-> n, seq |-> Cardinality(S)] \in ZoneRecs
    BY <1>2, <1>3 DEF ZoneRecs
  <1>6. zone \in ZoneRecs
    BY <1>3, <1>4, <1>5, Zenon
  <1>7. \A r \in Names : [key |-> MaxDnsRequests + n[r], pid |-> n[r]] \in RowRecs
    BY <1>3, RecordsAssumption DEF RowRecs
  <1>8. dnsRow \in [Names -> RowRecs]
    BY <1>3, <1>7, NoDnsCallFacts
  <1>9. PICK no \in BOOLEAN : no = FALSE
    BY Zenon
  <1>10. [status |-> "pending", dns |-> "unknown", deleted |-> no] \in DomainRecs
    BY DEF DomainRecs
  <1>11. dnsDomain \in DomainRecs
    BY <1>9, <1>10, Zenon DEF DnsInit
  <1>12. call = [q \in DnsCalls |-> NoDnsCall] /\ calls = 0 /\ done = NotDone
    BY Zenon DEF DnsInit
  <1>13. call \in [DnsCalls -> DnsCallRecs] /\ \A q \in DnsCalls : call[q] = NoDnsCall
    BY <1>12, NoDnsCallFacts
  <1>14. DnsShape
    BY <1>6, <1>8, <1>11, <1>12, <1>13 DEF DnsShape
  <1>15. Alone /\ \A q \in DnsCalls : Named(call[q]) /\ Course(call[q])
    BY <1>13, NoDnsCallFacts DEF Alone, Named, Course
  <1>16. LoneRequestHolds
    BY <1>12 DEF NotDone, LoneRequestHolds
  <1> QED
    BY <1>14, <1>15, <1>16 DEF DnsInv

\* However far faults and overlapping requests have driven rows and zone
\* apart, a sync, a check or an upsert that nothing overlapped ends with what
\* it promises.
THEOREM LoneRequestHoldsAlways == DnsSpec => []LoneRequestHolds
  <1>1. DnsInv /\ [DnsNext]_dnsVars => DnsInv'
    <2> SUFFICES ASSUME DnsInv, [DnsNext]_dnsVars PROVE DnsInv'
      OBVIOUS
    <2>1. CASE DnsNext
      <3>1. ASSUME NEW q \in DnsCalls, NEW kind \in {"upsert", "delete"}, NEW r \in Names,
                   GetDomain(q, kind, r)
            PROVE  DnsInv'
        BY <3>1, BeginStep DEF Kinds
      <3>2. ASSUME NEW q \in DnsCalls, NEW kind \in {"sync", "check", "remove"}, GetDomain(q, kind, 0)
            PROVE  DnsInv'
        BY <3>2, BeginStep DEF Kinds
      <3> QED
        BY <2>1, <3>1, <3>2, UpsertStep, DeleteRecordStep, SyncStep, CheckStep, RemoveStep, FaultStep, Zenon
        DEF DnsNext
    <2>2. CASE UNCHANGED dnsVars
      <3>1. UNCHANGED <<dnsRow, dnsDomain, zone, call, calls, done>>
        BY <2>2 DEF dnsVars
      <3>2. Stored' = Stored
        BY <3>1 DEF Stored
      <3>3. DnsShape' /\ Alone' /\ LoneRequestHolds'
        BY <3>1, <3>2 DEF DnsInv, DnsShape, Alone, LoneRequestHolds, Serves
      <3>4. \A q \in DnsCalls : Named(call[q])' /\ Course(call[q])'
        BY <3>1, <3>2 DEF DnsInv, Named, Course, SyncCourse, CheckCourse, UpsertCourse, Serves
      <3> QED
        BY <3>3, <3>4 DEF DnsInv
    <2> QED
      BY <2>1, <2>2
  <1>2. DnsInv => LoneRequestHolds
    BY DEF DnsInv
  <1> QED
    BY <1>1, <1>2, DnsStart, PTL DEF DnsSpec

-----------------------------------------------------------------------------
(* Inventory: what brings a retired node or application back.              *)

\* A status report was made of an asset that was in service; an edit gives a
\* column a value that it can have.
RequestsFit ==
    \A v \in Visits :
        /\ visit[v].pc = "report" => /\ visit[v].row.status # Retirement(visit[v].asset)
                                    /\ visit[v].value \in Reports
        /\ visit[v].pc = "edit" => visit[v].value \in Values

InventoryInv == InventoryTypeOK /\ RequestsFit

Visit == [pc: {"idle", "edit", "report", "retire"}, asset: Assets, row: Row,
          field: {"name", "other", "status"}, value: Values \cup Reports]

\* What RetiredReturnsByOldReport says of one step.
ByOldReport ==
    \A i \in Assets :
      (asset[i].status = Retirement(i) /\ asset'[i].status \in Reports \cup {"unknown"}) =>
          \/ \E v \in Visits : /\ visit[v].pc = "report" /\ visit'[v].pc = "idle"
                               /\ visit[v].asset = i /\ visit[v].row.status # Retirement(i)
          \/ i = "app" /\ (RegisterForProject \/ \E s \in Reports : Adopt(s))

\* The rows and the requests that the actions start from are well formed.
LEMMA AbsentIsRow == Absent \in Row /\ NoVisit \in Visit
  <1>1. PICK b \in BOOLEAN : b = FALSE
    BY Zenon
  <1>2. [status |-> "none", name |-> "old", other |-> "old", project |-> b] \in Row
    BY DEF Row, Values
  <1>3. Absent \in Row
    BY <1>1, <1>2, Zenon DEF Absent
  <1> QED
    BY <1>3 DEF NoVisit, Visit, Assets, Values

\* Only the status of a row is rewritten.
LEMMA StatusIsRow ==
    ASSUME NEW r \in Row, NEW s \in {"none", "unknown", "decommissioned", "deregistered"} \cup Reports
    PROVE  [r EXCEPT !.status = s] \in Row /\ [r EXCEPT !.status = s].status = s
  BY DEF Row, Reports

\* A writer that puts a well-formed row keeps the invariant, and concerns one
\* asset only.
LEMMA WriteStep ==
    ASSUME InventoryInv, NEW i \in Assets, NEW r \in Row, Write(i, r)
    PROVE  /\ InventoryInv'
           /\ asset'[i] = r
           /\ \A j \in Assets : j # i => asset'[j] = asset[j]
           /\ visit' = visit
  <1>1. asset' = [asset EXCEPT ![i] = r] /\ visit' = visit /\ visits' = visits
    BY DEF Write
  <1>2. asset \in [Assets -> Row]
    BY DEF InventoryInv, InventoryTypeOK
  <1> QED
    BY <1>1, <1>2 DEF InventoryInv, InventoryTypeOK, RequestsFit

\* A request that reads a row leaves the rows alone; a report is made only of
\* an asset in service.
LEMMA ReadsStep ==
    ASSUME InventoryInv, NEW v \in Visits, NEW i \in Assets, NEW r \in Visit, Reads(v, i, r),
           r.pc = "report" => InService(i) /\ r.value \in Reports,
           r.pc = "edit" => r.value \in Values
    PROVE  InventoryInv' /\ asset' = asset
  <1>1. /\ visits < MaxVisits /\ visits' = visits + 1 /\ asset' = asset
        /\ visit' = [visit EXCEPT ![v] = [r EXCEPT !.asset = i, !.row = asset[i]]]
    BY DEF Reads
  <1>2. asset[i] \in Row /\ visit \in [Visits -> Visit] /\ visits \in 0..MaxVisits /\ asset \in [Assets -> Row]
    BY DEF InventoryInv, InventoryTypeOK, Visit
  <1>3. PICK w \in Visit : w = [r EXCEPT !.asset = i, !.row = asset[i]]
    BY <1>2 DEF Visit
  <1>4. w.pc = r.pc /\ w.asset = i /\ w.row = asset[i] /\ w.value = r.value
    BY <1>3 DEF Visit
  <1>5. visit' = [visit EXCEPT ![v] = w]
    BY <1>1, <1>3
  <1>6. visit' \in [Visits -> Visit] /\ visits' \in 0..MaxVisits
    BY <1>1, <1>2, <1>5, InventoryAssumption
  <1>7. RequestsFit'
    BY <1>2, <1>4, <1>5 DEF RequestsFit, InventoryInv, InService
  <1> QED
    BY <1>1, <1>2, <1>6, <1>7 DEF InventoryInv, InventoryTypeOK, Visit

\* The write of a request ends it, and finds a row that exists or writes none.
LEMMA WritesStep ==
    ASSUME InventoryInv, NEW v \in Visits, NEW i \in Assets, NEW pc, NEW r \in Row, Writes(v, i, pc, r)
    PROVE  /\ InventoryInv'
           /\ visit[v].pc = pc /\ visit[v].asset = i /\ visit'[v].pc = "idle"
           /\ asset'[i] = asset[i] \/ asset'[i] = r
           /\ \A j \in Assets : j # i => asset'[j] = asset[j]
  <1>1. /\ visit[v].pc = pc /\ visit[v].asset = i /\ visits' = visits
        /\ visit' = [visit EXCEPT ![v] = NoVisit]
        /\ asset' = [asset EXCEPT ![i] = IF @ = Absent THEN @ ELSE r]
    BY DEF Writes
  <1>2. asset \in [Assets -> Row] /\ visit \in [Visits -> Visit] /\ visits \in 0..MaxVisits
    BY DEF InventoryInv, InventoryTypeOK, Visit
  <1>3. NoVisit.pc = "idle" /\ NoVisit \in Visit
    BY AbsentIsRow DEF NoVisit
  <1>4. visit' \in [Visits -> Visit] /\ RequestsFit'
    BY <1>1, <1>2, <1>3 DEF RequestsFit, InventoryInv
  <1>5. /\ asset' \in [Assets -> Row]
        /\ asset'[i] = asset[i] \/ asset'[i] = r
        /\ \A j \in Assets : j # i => asset'[j] = asset[j]
    BY <1>1, <1>2
  <1> QED
    BY <1>1, <1>2, <1>3, <1>4, <1>5 DEF InventoryInv, InventoryTypeOK, Visit

\* A retired status is none that a report gives.
LEMMA RetiredIsNoReport == \A i \in Assets : Retirement(i) \notin Reports \cup {"unknown"}
  BY DEF Retirement, Reports

\* Where every row keeps its status, or is not retired, nothing came back.
LEMMA NothingReturns ==
    ASSUME \A i \in Assets : \/ asset'[i].status = asset[i].status
                             \/ asset[i].status # Retirement(i)
                             \/ asset'[i].status \notin Reports \cup {"unknown"}
    PROVE  ByOldReport
  BY RetiredIsNoReport DEF ByOldReport

\* The writes of an edit, a report and a retirement, to either registry.
LEMMA RequestWrites ==
    ASSUME InventoryInv, NEW v \in Visits, NEW i \in Assets
    PROVE  /\ Writes(v, i, "edit", Edited(v)) => InventoryInv' /\ ByOldReport
           /\ Writes(v, i, "report", WithStatus(i, visit[v].value)) => InventoryInv' /\ ByOldReport
           /\ Writes(v, i, "retire", WithStatus(i, Retirement(i))) => InventoryInv' /\ ByOldReport
  <1>1. asset \in [Assets -> Row] /\ visit[v] \in Visit /\ asset[i] \in Row
    BY DEF InventoryInv, InventoryTypeOK, Visit
  <1>2. ASSUME Writes(v, i, "edit", Edited(v)) PROVE InventoryInv' /\ ByOldReport
    <2>1. visit[v].asset = i /\ visit[v].value \in Values /\ visit[v].row \in Row
      BY <1>1, <1>2 DEF Writes, InventoryInv, RequestsFit, Visit
    <2>2. PICK n \in Values : n = IF visit[v].field = "name" THEN visit[v].value ELSE visit[v].row.name
      BY <2>1 DEF Row
    <2>3. PICK o \in Values : o = IF visit[v].field = "other" THEN visit[v].value ELSE visit[v].row.other
      BY <2>1 DEF Row
    <2>4. Edited(v) = [asset[i] EXCEPT !.name = n, !.other = o]
      BY <2>1, <2>2, <2>3 DEF Edited
    <2>5. Edited(v) \in Row /\ Edited(v).status = asset[i].status
      BY <1>1, <2>4 DEF Row
    <2>6. InventoryInv' /\ \A j \in Assets : asset'[j].status = asset[j].status
      BY <1>2, <2>5, WritesStep
    <2> QED
      BY <2>6, NothingReturns
  <1>3. ASSUME Writes(v, i, "report", WithStatus(i, visit[v].value)) PROVE InventoryInv' /\ ByOldReport
    <2>1. visit[v].pc = "report" /\ visit[v].asset = i
      BY <1>3 DEF Writes
    <2>2. visit[v].row.status # Retirement(i) /\ visit[v].value \in Reports
      BY <2>1 DEF InventoryInv, RequestsFit
    <2>3. WithStatus(i, visit[v].value) \in Row
      BY <1>1, <2>2, StatusIsRow DEF WithStatus
    <2>4. InventoryInv' /\ visit'[v].pc = "idle" /\ \A j \in Assets : j # i => asset'[j] = asset[j]
      BY <1>3, <2>3, WritesStep
    <2> QED
      BY <2>1, <2>2, <2>4, RetiredIsNoReport DEF ByOldReport
  <1>4. ASSUME Writes(v, i, "retire", WithStatus(i, Retirement(i))) PROVE InventoryInv' /\ ByOldReport
    <2>1. WithStatus(i, Retirement(i)) \in Row /\ WithStatus(i, Retirement(i)).status = Retirement(i)
      BY <1>1, StatusIsRow DEF WithStatus, Retirement
    <2>2. /\ InventoryInv'
          /\ asset'[i] = asset[i] \/ asset'[i].status = Retirement(i)
          /\ \A j \in Assets : j # i => asset'[j] = asset[j]
      BY <1>4, <2>1, WritesStep
    <2> QED
      BY <2>2, NothingReturns, RetiredIsNoReport
  <1> QED
    BY <1>2, <1>3, <1>4

\* Get of a request that edits, reports or retires.
LEMMA RequestReads ==
    ASSUME InventoryInv, NEW v \in Visits, NEW i \in Assets
    PROVE  /\ \A f \in {"name", "other"}, x \in Values :
                 Reads(v, i, Editing(f, x)) => InventoryInv' /\ ByOldReport
           /\ \A s \in Reports :
                 InService(i) /\ Reads(v, i, Reporting(s)) => InventoryInv' /\ ByOldReport
           /\ Reads(v, i, Retiring) => InventoryInv' /\ ByOldReport
  <1>1. \A f \in {"name", "other"}, x \in Values :
            Editing(f, x) \in Visit /\ Editing(f, x).pc = "edit" /\ Editing(f, x).value = x
    BY AbsentIsRow DEF Editing, Visit, NoVisit
  <1>2. \A s \in Reports :
            Reporting(s) \in Visit /\ Reporting(s).pc = "report" /\ Reporting(s).value = s
    BY AbsentIsRow DEF Reporting, Visit, NoVisit
  <1>3. Retiring \in Visit /\ Retiring.pc = "retire"
    BY AbsentIsRow DEF Retiring, Visit, NoVisit
  <1>4. asset' = asset => ByOldReport
    BY NothingReturns
  <1>5. ASSUME NEW f \in {"name", "other"}, NEW x \in Values, Reads(v, i, Editing(f, x))
        PROVE  InventoryInv' /\ ByOldReport
    BY <1>1, <1>4, <1>5, ReadsStep
  <1>6. ASSUME NEW s \in Reports, InService(i), Reads(v, i, Reporting(s))
        PROVE  InventoryInv' /\ ByOldReport
    BY <1>2, <1>4, <1>6, ReadsStep
  <1>7. ASSUME Reads(v, i, Retiring)
        PROVE  InventoryInv' /\ ByOldReport
    BY <1>3, <1>4, <1>7, ReadsStep
  <1> QED
    BY <1>5, <1>6, <1>7

\* The writers that read and write in one statement: only provisioning and
\* adoption may bring a retired application back.
LEMMA OtherWriters ==
    ASSUME InventoryInv,
           \/ RegisterNode \/ Register \/ RegisterForProject \/ Unregister
           \/ \E s \in Reports : Heartbeat(s) \/ Adopt(s)
    PROVE  InventoryInv' /\ ByOldReport
  <1>1. asset \in [Assets -> Row] /\ "node" \in Assets /\ "app" \in Assets
    BY DEF InventoryInv, InventoryTypeOK, Assets
  <1>2. \A i \in Assets : asset[i] = Absent => asset[i].status # Retirement(i)
    BY DEF Absent, Retirement
  <1>3. [Absent EXCEPT !.status = "unknown"] \in Row
    BY AbsentIsRow, StatusIsRow
  <1>4. ASSUME NEW i \in Assets, asset[i] = Absent, Write(i, [Absent EXCEPT !.status = "unknown"])
        PROVE  InventoryInv' /\ ByOldReport
    <2>1. InventoryInv' /\ \A j \in Assets : j # i => asset'[j] = asset[j]
      BY <1>3, <1>4, WriteStep
    <2> QED
      BY <1>2, <1>4, <2>1, NothingReturns
  <1>5. ASSUME NEW s \in Reports PROVE Upserted(s) \in Row /\ [Upserted(s) EXCEPT !.other = "new"] \in Row
    <2>1. PICK b \in BOOLEAN : b = TRUE
      BY Zenon
    <2>2. [asset["app"] EXCEPT !.status = s, !.project = b] \in Row
      BY <1>1 DEF Row, Reports
    <2>3. Upserted(s) \in Row
      BY <2>1, <2>2, Zenon DEF Upserted
    <2> QED
      BY <2>3 DEF Row, Values
  <1>6. ASSUME NEW r \in Row, Write("app", r), RegisterForProject \/ \E s \in Reports : Adopt(s)
        PROVE  InventoryInv' /\ ByOldReport
    <2>1. InventoryInv' /\ \A j \in Assets : j # "app" => asset'[j] = asset[j]
      BY <1>1, <1>6, WriteStep
    <2> QED
      BY <1>6, <2>1, RetiredIsNoReport DEF ByOldReport
  <1>7. CASE RegisterNode
    BY <1>1, <1>4, <1>7, Zenon DEF RegisterNode
  <1>8. CASE Register
    BY <1>1, <1>4, <1>8, Zenon DEF Register
  <1>9. CASE RegisterForProject
    <2>1. "running" \in Reports /\ Write("app", Upserted("running"))
      BY <1>9 DEF RegisterForProject, Reports
    <2> QED
      BY <1>5, <1>6, <1>9, <2>1
  <1>10. CASE Unregister
    <2>1. Write("app", Absent)
      BY <1>10 DEF Unregister
    <2>2. InventoryInv' /\ asset'["app"] = Absent /\ \A j \in Assets : j # "app" => asset'[j] = asset[j]
      BY <1>1, <2>1, AbsentIsRow, WriteStep
    <2>3. Absent.status \notin Reports \cup {"unknown"}
      BY DEF Absent, Reports
    <2> QED
      BY <2>2, <2>3, NothingReturns
  <1>11. ASSUME NEW s \in Reports, Heartbeat(s) PROVE InventoryInv' /\ ByOldReport
    <2>1. /\ asset["node"].status # Retirement("node")
          /\ Write("node", [asset["node"] EXCEPT !.status = s])
      BY <1>11 DEF Heartbeat
    <2>2. [asset["node"] EXCEPT !.status = s] \in Row
      BY <1>1, StatusIsRow
    <2>3. InventoryInv' /\ \A j \in Assets : j # "node" => asset'[j] = asset[j]
      BY <1>1, <2>1, <2>2, WriteStep
    <2> QED
      BY <2>1, <2>3, NothingReturns
  <1>12. ASSUME NEW s \in Reports, Adopt(s) PROVE InventoryInv' /\ ByOldReport
    <2>1. Write("app", [Upserted(s) EXCEPT !.other = "new"])
      BY <1>12 DEF Adopt
    <2> QED
      BY <1>5, <1>6, <1>12, <2>1
  <1> QED
    BY <1>7, <1>8, <1>9, <1>10, <1>11, <1>12

\* Every step keeps the invariant, and brings back nothing but by an old report
\* or, of an application, by provisioning or adopting a container of its name.
LEMMA InventoryStep == ASSUME InventoryInv, InventoryNext PROVE InventoryInv' /\ ByOldReport
  <1>1. "node" \in Assets /\ "app" \in Assets /\ Retirement("node") = "decommissioned"
        /\ Retirement("app") = "deregistered"
    BY DEF Assets, Retirement
  <1>2. ASSUME NEW v \in Visits, NodeRequest(v) PROVE InventoryInv' /\ ByOldReport
    BY <1>1, <1>2, RequestReads, RequestWrites, Zenon
    DEF NodeRequest, UpdateNode, UpdateNodeStatus, DecommissionNode,
        UpdateNodeWrite, UpdateNodeStatusWrite, DecommissionNodeWrite
  <1>3. ASSUME NEW v \in Visits, ApplicationRequest(v) PROVE InventoryInv' /\ ByOldReport
    BY <1>1, <1>3, RequestReads, RequestWrites, Zenon
    DEF ApplicationRequest, Update, UpdateStatus, Deregister, UpdateWrite, UpdateStatusWrite, DeregisterWrite
  <1> QED
    BY <1>2, <1>3, OtherWriters, Zenon DEF InventoryNext

\* The invariant of the registries.
LEMMA InventoryInvStays == InventorySpec => []InventoryInv
  <1>1. InventoryInit => InventoryInv
    <2> SUFFICES ASSUME InventoryInit PROVE InventoryInv
      OBVIOUS
    <2>1. asset = [i \in Assets |-> Absent] /\ visit = [v \in Visits |-> NoVisit] /\ visits = 0
      BY DEF InventoryInit
    <2>2. NoVisit.pc = "idle"
      BY DEF NoVisit
    <2> QED
      BY <2>1, <2>2, AbsentIsRow, InventoryAssumption
      DEF InventoryInv, InventoryTypeOK, RequestsFit, Visit
  <1>2. InventoryInv /\ [InventoryNext]_inventoryVars => InventoryInv'
    <2>1. ASSUME InventoryInv, UNCHANGED inventoryVars PROVE InventoryInv'
      BY <2>1 DEF inventoryVars, InventoryInv, InventoryTypeOK, RequestsFit
    <2> QED
      BY <2>1, InventoryStep
  <1> QED
    BY <1>1, <1>2, PTL DEF InventorySpec

\* A retired node or application comes back only through a status report that
\* had read it before it was retired or, for an application, when a container
\* of its name is provisioned or adopted.
THEOREM RetiredReturnsByOldReportHolds == InventorySpec => RetiredReturnsByOldReport
  <1>1. InventoryInv /\ [InventoryNext]_inventoryVars => [ByOldReport]_inventoryVars
    BY InventoryStep
  <1> QED
    BY <1>1, InventoryInvStays, PTL DEF InventorySpec, RetiredReturnsByOldReport, ByOldReport

\* What an action does to a settled node: its status stays, and a request that
\* it leaves behind is no report of the node.
LEMMA SettledStep ==
    ASSUME NodeSettled, asset'["node"].status = asset["node"].status,
           \A v \in Visits : visit'[v] = visit[v] \/ visit'[v].asset # "node" \/ visit'[v].pc # "report"
    PROVE  NodeSettled'
  BY DEF NodeSettled

\* A writer of the application leaves the node alone; a read leaves both.
LEMMA ElsewhereSettled ==
    ASSUME InventoryInv, NodeSettled
    PROVE  /\ \A r : Write("app", r) => NodeSettled'
           /\ \A v \in Visits, i \in Assets, r \in Visit :
                 Reads(v, i, r) /\ (i # "node" \/ r.pc # "report") => NodeSettled'
           /\ \A v \in Visits, i \in Assets : \A pc, r :
                 Writes(v, i, pc, r) /\ (i # "node" \/ r.status = asset["node"].status) => NodeSettled'
  <1>1. /\ asset \in [Assets -> Row] /\ visit \in [Visits -> Visit]
        /\ "node" \in Assets /\ "app" \in Assets
    BY DEF InventoryInv, InventoryTypeOK, Visit, Assets
  <1>2. NoVisit.pc = "idle"
    BY DEF NoVisit
  <1>3. ASSUME NEW r, Write("app", r) PROVE NodeSettled'
    <2>1. asset'["node"] = asset["node"] /\ visit' = visit
      BY <1>1, <1>3 DEF Write
    <2> QED
      BY <2>1, SettledStep
  <1>4. ASSUME NEW v \in Visits, NEW i \in Assets, NEW r \in Visit, Reads(v, i, r),
               i # "node" \/ r.pc # "report"
        PROVE  NodeSettled'
    <2>1. asset' = asset /\ visit' = [visit EXCEPT ![v] = [r EXCEPT !.asset = i, !.row = asset[i]]]
      BY <1>4 DEF Reads
    <2>2. PICK w : w = [r EXCEPT !.asset = i, !.row = asset[i]]
      OBVIOUS
    <2>3. w.asset = i /\ w.pc = r.pc
      BY <2>2 DEF Visit
    <2>4. visit' = [visit EXCEPT ![v] = w]
      BY <2>1, <2>2
    <2> QED
      BY <1>1, <1>4, <2>1, <2>3, <2>4, SettledStep
  <1>5. ASSUME NEW v \in Visits, NEW i \in Assets, NEW pc, NEW r, Writes(v, i, pc, r),
               i # "node" \/ r.status = asset["node"].status
        PROVE  NodeSettled'
    <2>1. /\ visit' = [visit EXCEPT ![v] = NoVisit]
          /\ asset' = [asset EXCEPT ![i] = IF @ = Absent THEN @ ELSE r]
      BY <1>5 DEF Writes
    <2>2. asset'["node"].status = asset["node"].status
      BY <1>1, <1>5, <2>1
    <2> QED
      BY <1>1, <1>2, <2>1, <2>2, SettledStep
  <1> QED
    BY <1>3, <1>4, <1>5

\* A decommissioned node that no report under way has read stays so for good.
THEOREM RetirementSettlesHolds == InventorySpec => RetirementSettles
  <1>1. ASSUME InventoryInv, InventoryNext, NodeSettled PROVE NodeSettled'
    <2>1. /\ asset \in [Assets -> Row] /\ visit \in [Visits -> Visit]
          /\ "node" \in Assets /\ "app" \in Assets
          /\ asset["node"].status = "decommissioned" /\ Retirement("node") = "decommissioned"
          /\ Absent.status = "none"
      BY <1>1 DEF InventoryInv, InventoryTypeOK, Visit, Assets, NodeSettled, Retirement, Absent
    <2>2. /\ \A f \in {"name", "other"}, x \in Values : Editing(f, x) \in Visit /\ Editing(f, x).pc = "edit"
          /\ \A s \in Reports : Reporting(s) \in Visit
          /\ Retiring \in Visit /\ Retiring.pc = "retire"
      BY AbsentIsRow DEF Editing, Reporting, Retiring, NoVisit, Visit
    <2>3. CASE \E v \in Visits : ApplicationRequest(v)
      BY <1>1, <2>1, <2>2, <2>3, ElsewhereSettled, Zenon
      DEF ApplicationRequest, Update, UpdateStatus, Deregister, UpdateWrite, UpdateStatusWrite, DeregisterWrite
    <2>4. ASSUME NEW v \in Visits, NodeRequest(v) PROVE NodeSettled'
      <3>1. CASE \E f \in {"name", "other"}, x \in Values : UpdateNode(v, f, x)
        BY <1>1, <2>1, <2>2, <3>1, ElsewhereSettled DEF UpdateNode
      <3>2. CASE \E s \in Reports : UpdateNodeStatus(v, s)
        BY <2>1, <3>2 DEF UpdateNodeStatus, InService
      <3>3. CASE DecommissionNode(v)
        BY <1>1, <2>1, <2>2, <3>3, ElsewhereSettled DEF DecommissionNode
      <3>4. CASE UpdateNodeWrite(v)
        <4>1. visit[v].asset = "node"
          BY <3>4 DEF UpdateNodeWrite, Writes
        <4>2. Edited(v).status = asset["node"].status
          BY <2>1, <4>1 DEF Edited, Row
        <4> QED
          BY <1>1, <2>1, <3>4, <4>2, ElsewhereSettled DEF UpdateNodeWrite
      <3>5. CASE UpdateNodeStatusWrite(v)
        BY <1>1, <3>5 DEF UpdateNodeStatusWrite, Writes, NodeSettled
      <3>6. CASE DecommissionNodeWrite(v)
        <4>1. WithStatus("node", "decommissioned").status = asset["node"].status
          BY <2>1 DEF WithStatus, Row
        <4> QED
          BY <1>1, <2>1, <3>6, <4>1, ElsewhereSettled DEF DecommissionNodeWrite
      <3> QED
        BY <2>4, <3>1, <3>2, <3>3, <3>4, <3>5, <3>6, Zenon DEF NodeRequest
    <2>5. CASE RegisterNode
      BY <2>1, <2>5 DEF RegisterNode
    <2>6. CASE Register \/ RegisterForProject \/ Unregister \/ \E s \in Reports : Adopt(s)
      BY <1>1, <2>6, ElsewhereSettled, Zenon DEF Register, RegisterForProject, Unregister, Adopt
    <2>7. CASE \E s \in Reports : Heartbeat(s)
      BY <2>1, <2>7 DEF Heartbeat
    <2> QED
      BY <1>1, <2>3, <2>4, <2>5, <2>6, <2>7, Zenon DEF InventoryNext
  <1>2. InventoryInv /\ [InventoryNext]_inventoryVars => [NodeSettled => NodeSettled']_inventoryVars
    BY <1>1
  <1>3. InventorySpec => []InventoryInv
    BY InventoryInvStays
  <1> QED
    BY <1>2, <1>3, PTL DEF InventorySpec, RetirementSettles

=============================================================================
