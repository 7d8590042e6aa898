--------------------------- MODULE BackupsProofs ---------------------------
(***************************************************************************)
(* Proofs about Backups, for any items, types, rows, restores, edits and   *)
(* faults: the safety snapshot of a restore outlives it, a changed remote  *)
(* archive does not reach the live project unless it was replaced with its *)
(* checksum file behind the check, and a restore that is rolled back puts  *)
(* back what it found.                                                     *)
(***************************************************************************)
EXTENDS Backups, TLAPS

\* The steps of a restore, those of its snapshot left out.
RestoreSteps == {"source", "link", "extract", "finalize", "undo_restore", "undo_source"}

\* The steps that have a row of their own.
OwnRow == (SnapSteps \ {"insert"}) \cup {"link", "extract", "finalize", "undo_restore"}

\* What the worker holds at each step.
WorkerFits ==
    /\ pc = "idle" => job = "none"
    /\ pc \in RestoreSteps => job = "restore"
    /\ pc \in SnapSteps => job \in {"create", "restore"}
    /\ pc \in {"hash", "verified", "unverified"} => job = "verify"
    /\ pc \in {"unlink", "forget"} => job = "delete"
    /\ job \in {"verify", "restore", "delete"} => tgt \in Rows
    /\ pc \in {"upload", "sidecar"} => sftp

\* The rows the worker has inserted: a backup, which is new and which no one
\* else has, and a restore, which is running.
OwnRows ==
    /\ pc \in OwnRow => row \in Rows
    /\ pc \in {"idle", "source", "insert"} \/ job \notin {"create", "restore"} => row = None
    /\ row # None => row \notin expired /\ row # tgt /\ bStatus[row] # "absent"
    /\ pc \in SnapSteps \cup {"link"} => \A r \in Restores : rSafety[r] # None => rSafety[r] # row
    /\ pc = "link" => bStatus[row] = "completed"
    /\ pc \in {"record", "link"} => Archive(row) # "none"
    /\ job = "restore" /\ pc \notin {"source", "undo_source"} => rid \in Restores
    /\ rid # None => rStatus[rid] = "running"
    /\ job # "restore" \/ pc = "source" => rid = None

\* A row that does not exist yet is known to nobody.
Unborn ==
    /\ \A b \in Rows : bStatus[b] = "absent" =>
          b \notin expired /\ content[b] = NoTree /\ tgt # b /\ \A r \in Restores : rSafety[r] # b
    /\ \A r \in Restores : rStatus[r] = "absent" => rSafety[r] = None

\* The maintenance loop deletes only what has expired.
SweepsExpired ==
    /\ todo \subseteq expired
    /\ gone # None => gone \in expired
    /\ mpc = "forget" => gone # None

\* Nobody is about to delete the safety snapshot of a running restore.
Spared ==
    \A r \in Restores :
        rStatus[r] = "running" /\ rSafety[r] # None =>
            rSafety[r] \notin todo /\ rSafety[r] # gone /\ (job = "delete" => rSafety[r] # tgt)

\* What the running restore has checked was not replaced since.
Genuine == sftp /\ ~late => \A b \in Rows : Checked(b) => ~Replaced(b)

\* No archive was built from a project that a tampered one has reached.
PureArchives == sftp /\ ~late => \A b \in Rows, i \in Items : content[b][i] # Bad

\* An archive holds items of its backup's type only.
Covered == \A b \in Rows, i \in Items : content[b][i] # None => i \in bType[b]

\* A safety snapshot has the type of the backup that is restored, and holds
\* what the restore found; up to the extraction that is also what is live, and
\* then nothing but the items of the archive differs.
Untouched == {"source", "insert", "build", "upload", "sidecar", "check", "record", "link", "extract"}
SnapTaken == {"upload", "sidecar", "check", "record", "link", "extract", "finalize", "undo_restore"}

SnapshotOf(tree, b) == \A i \in Items : content[b][i] = IF i \in bType[b] THEN tree[i] ELSE None

Restored == \A i \in Items : asBefore[i] # None => live[i] = asBefore[i]

Restorable ==
    /\ job = "restore" /\ row # None => bType[row] = bType[tgt]
    /\ job = "restore" /\ pc \in SnapTaken => SnapshotOf(asBefore, row)
    /\ job = "restore" /\ pc \in Untouched => live = asBefore
    /\ pc \in {"finalize", "undo_restore"} =>
          \A i \in Items : live[i] # asBefore[i] => i \in bType[tgt]
    /\ pc = "undo_source" /\ putBack /\ (row # None => Archive(row) # "bad") => Restored

\* The inductive invariant.
IInv ==
    /\ TypeOK
    /\ WorkerFits
    /\ OwnRows
    /\ Unborn
    /\ SweepsExpired
    /\ Spared
    /\ SafetyKept
    /\ Genuine
    /\ PureArchives
    /\ TamperedRefused
    /\ Covered
    /\ Restorable

-----------------------------------------------------------------------------
(* Type correctness.                                                       *)

\* The conjuncts of TypeOK on flags.
Flags == ctx \in BOOLEAN /\ putBack \in BOOLEAN /\ sftp \in BOOLEAN /\ late \in BOOLEAN

\* The destination is configured once.
LEMMA SameDestination == Next => sftp' = sftp
  BY Zenon
  DEF Next, WorkerStep, SnapStep, RestoreStep, Maintenance, Requested, Environment,
      SnapInsert, SnapBuild, SnapUpload, SnapSidecar, SnapCheck, SnapRecord, SnapFails,
      VerifyHash, VerifyRecord, RestoreSource, RestoreSourceFails, RestoreLink, RestoreExtract,
      RestoreFinalize, UndoRestore, UndoSource, DeleteUnlink, DeleteForget, Retain, SweepFile,
      SweepRow, SweepEnds, StartCreate, StartVerify, StartRestore, StartDelete, RestoreCancelled,
      Edit, Expire, Tamper, Timeout, Crash

\* Only a change behind the program's back is noted.
LEMMA LateWriters == Next => UNCHANGED late \/ \E b \in Rows : Tamper(b)
  BY Zenon
  DEF Next, WorkerStep, SnapStep, RestoreStep, Maintenance, Requested, Environment,
      SnapInsert, SnapBuild, SnapUpload, SnapSidecar, SnapCheck, SnapRecord, SnapFails,
      VerifyHash, VerifyRecord, RestoreSource, RestoreSourceFails, RestoreLink, RestoreExtract,
      RestoreFinalize, UndoRestore, UndoSource, DeleteUnlink, DeleteForget, Retain, SweepFile,
      SweepRow, SweepEnds, StartCreate, StartVerify, StartRestore, StartDelete, RestoreCancelled,
      Edit, Expire, Timeout, Crash

\* Every step leaves the flags Boolean.
LEMMA NextFlags == TypeOK /\ Next => Flags'
  <1> SUFFICES ASSUME TypeOK, Next PROVE Flags'
    OBVIOUS
  <1>1. \/ UNCHANGED <<ctx, putBack>>
        \/ ctx' = TRUE /\ putBack' = TRUE
        \/ ctx' = FALSE /\ UNCHANGED putBack
        \/ putBack' = FALSE /\ UNCHANGED ctx
    BY Zenon
    DEF Next, WorkerStep, SnapStep, RestoreStep, Maintenance, Requested, Environment,
      SnapInsert, SnapBuild, SnapUpload, SnapSidecar, SnapCheck, SnapRecord, SnapFails,
      VerifyHash, VerifyRecord, RestoreSource, RestoreSourceFails, RestoreLink, RestoreExtract,
      RestoreFinalize, UndoRestore, UndoSource, DeleteUnlink, DeleteForget, Retain, SweepFile,
      SweepRow, SweepEnds, StartCreate, StartVerify, StartRestore, StartDelete, RestoreCancelled,
      Edit, Expire, Tamper, Timeout, Crash, Starts, Goto, End, StepFails, runVars
  <1>2. late' \in BOOLEAN
    BY Zenon, LateWriters DEF TypeOK, Tamper
  <1> QED
    BY Zenon, <1>1, <1>2, SameDestination DEF TypeOK, Flags

FileRecs == [local: {"none", "good", "bad"}, remote: {"none", "good", "bad"},
             sum: {"none", "good", "forged"}]

\* One row of the archives is written, and the others are left alone.
Rewritten(b) == \E fl \in FileRecs : file' = [file EXCEPT ![b] = fl]

\* A write to one of the files of a row, and the deletion of all of them,
\* rewrite the row.
LEMMA FileWrites ==
    ASSUME file \in [Rows -> FileRecs], NEW b \in Rows, NEW c \in {"none", "good", "bad"}
    PROVE  /\ file' = [file EXCEPT ![b] = NoFile] => Rewritten(b)
           /\ file' = [file EXCEPT ![b].local = c] => Rewritten(b)
           /\ file' = [file EXCEPT ![b].remote = c] => Rewritten(b)
           /\ file' = [file EXCEPT ![b].sum = "good", ![b].local = c] => Rewritten(b)
           /\ \A t \in {"none", "good", "forged"} :
                 file' = [file EXCEPT ![b].remote = c, ![b].sum = t] => Rewritten(b)
  <1>0. file[b] \in FileRecs
    OBVIOUS
  <1>1. NoFile \in FileRecs
    BY DEF NoFile, FileRecs
  <1>2. [file[b] EXCEPT !.local = c] \in FileRecs
    BY <1>0 DEF FileRecs
  <1>3. [file[b] EXCEPT !.remote = c] \in FileRecs
    BY <1>0 DEF FileRecs
  <1>4. [file[b] EXCEPT !.sum = "good", !.local = c] \in FileRecs
    BY <1>0 DEF FileRecs
  <1>5. file' = [file EXCEPT ![b] = NoFile] => Rewritten(b)
    BY <1>1 DEF Rewritten
  <1>6. file' = [file EXCEPT ![b].local = c] => Rewritten(b)
    BY <1>0, <1>2 DEF Rewritten
  <1>7. file' = [file EXCEPT ![b].remote = c] => Rewritten(b)
    BY <1>0, <1>3 DEF Rewritten
  <1>8. file' = [file EXCEPT ![b].sum = "good", ![b].local = c] => Rewritten(b)
    BY <1>0, <1>4 DEF Rewritten
  <1>9. ASSUME NEW t \in {"none", "good", "forged"},
               file' = [file EXCEPT ![b].remote = c, ![b].sum = t]
        PROVE  Rewritten(b)
    <2>1. [file[b] EXCEPT !.remote = c, !.sum = t] \in FileRecs
      BY <1>0 DEF FileRecs
    <2> QED
      BY <1>0, <1>9, <2>1 DEF Rewritten
  <1> QED
    BY <1>5, <1>6, <1>7, <1>8, <1>9

-----------------------------------------------------------------------------
(* Which steps write which variables.                                      *)

\* The backups table is written by the worker, the sweep and the clock.
LEMMA RowWriters ==
    Next => \/ UNCHANGED <<bStatus, bRef, bType, expired>>
            \/ SnapInsert \/ SnapRecord \/ SnapFails \/ VerifyRecord \/ DeleteForget
            \/ SweepRow \/ \E b \in Rows : Expire(b)
  BY Zenon
  DEF Next, WorkerStep, SnapStep, RestoreStep, Maintenance, Requested, Environment,
      SnapBuild, SnapUpload, SnapSidecar, SnapCheck, VerifyHash, RestoreSource,
      RestoreSourceFails, RestoreLink, RestoreExtract, RestoreFinalize, UndoRestore, UndoSource,
      DeleteUnlink, Retain, SweepFile, SweepEnds, StartCreate, StartVerify, StartRestore,
      StartDelete, RestoreCancelled, Edit, Tamper, Timeout, Crash, tableVars

\* The restores table is written by the steps of a restore.
LEMMA RestoreWriters ==
    Next => \/ UNCHANGED <<rStatus, rSource, rSafety>>
            \/ RestoreSource \/ RestoreLink \/ RestoreFinalize \/ UndoSource
  BY Zenon
  DEF Next, WorkerStep, SnapStep, RestoreStep, Maintenance, Requested, Environment,
      SnapInsert, SnapBuild, SnapUpload, SnapSidecar, SnapCheck, SnapRecord, SnapFails,
      VerifyHash, VerifyRecord, RestoreSourceFails, RestoreExtract, UndoRestore,
      DeleteUnlink, DeleteForget, Retain, SweepFile, SweepRow, SweepEnds, StartCreate,
      StartVerify, StartRestore, StartDelete, RestoreCancelled, Edit, Expire, Tamper, Timeout,
      Crash, tableVars

\* Archives are written by a snapshot, deleted by the two deletions, and
\* tampered with.
LEMMA FileWriters ==
    Next => /\ \/ UNCHANGED file
               \/ SnapBuild \/ SnapUpload \/ SnapSidecar \/ SnapFails \/ DeleteUnlink \/ SweepFile
               \/ \E b \in Rows : Tamper(b)
            /\ UNCHANGED content \/ SnapBuild
  BY Zenon
  DEF Next, WorkerStep, SnapStep, RestoreStep, Maintenance, Requested, Environment,
      SnapInsert, SnapUpload, SnapSidecar, SnapCheck, SnapRecord, SnapFails, VerifyHash,
      VerifyRecord, RestoreSource, RestoreSourceFails, RestoreLink, RestoreExtract,
      RestoreFinalize, UndoRestore, UndoSource, DeleteUnlink, DeleteForget, Retain, SweepFile,
      SweepRow, SweepEnds, StartCreate, StartVerify, StartRestore, StartDelete, RestoreCancelled,
      Edit, Expire, Tamper, Timeout, Crash, fileVars

\* The live project is written by a restore, by its Undo and by its owner.
LEMMA LiveWriters ==
    Next => /\ UNCHANGED live \/ RestoreExtract \/ UndoRestore \/ \E i \in Items : Edit(i)
            /\ UNCHANGED edits \/ \E i \in Items : Edit(i)
  BY Zenon
  DEF Next, WorkerStep, SnapStep, RestoreStep, Maintenance, Requested, Environment,
      SnapInsert, SnapBuild, SnapUpload, SnapSidecar, SnapCheck, SnapRecord, SnapFails,
      VerifyHash, VerifyRecord, RestoreSource, RestoreSourceFails, RestoreLink, RestoreExtract,
      RestoreFinalize, UndoRestore, UndoSource, DeleteUnlink, DeleteForget, Retain, SweepFile,
      SweepRow, SweepEnds, StartCreate, StartVerify, StartRestore, StartDelete, RestoreCancelled,
      Expire, Tamper, Timeout, Crash

\* The variables of the sweep are its own, but for a crash.
LEMMA SweepWriters == Next => UNCHANGED maintVars \/ Maintenance \/ Crash
  BY Zenon
  DEF Next, WorkerStep, SnapStep, RestoreStep, Requested, Environment,
      SnapInsert, SnapBuild, SnapUpload, SnapSidecar, SnapCheck, SnapRecord, SnapFails,
      VerifyHash, VerifyRecord, RestoreSource, RestoreSourceFails, RestoreLink, RestoreExtract,
      RestoreFinalize, UndoRestore, UndoSource, DeleteUnlink, DeleteForget,
      StartCreate, StartVerify, StartRestore, StartDelete, RestoreCancelled,
      Edit, Expire, Tamper, Timeout

\* Faults are counted up to their bound.
LEMMA FaultsCounted == Next => UNCHANGED backupFaults \/ BackupFault
  BY Zenon
  DEF Next, WorkerStep, SnapStep, RestoreStep, Maintenance, Requested, Environment, CallFails,
      SnapInsert, SnapBuild, SnapUpload, SnapSidecar, SnapCheck, SnapRecord, SnapFails,
      VerifyHash, VerifyRecord, RestoreSource, RestoreSourceFails, RestoreLink, RestoreExtract,
      RestoreFinalize, UndoRestore, UndoSource, DeleteUnlink, DeleteForget, Retain, SweepFile,
      SweepRow, SweepEnds, StartCreate, StartVerify, StartRestore, StartDelete, RestoreCancelled,
      Edit, Expire, Tamper, Timeout, Crash

\* The worker's own state: only the steps of its operation write it.
LEMMA WorkerWriters ==
    Next => \/ UNCHANGED <<pc, runVars, asBefore, rStatus, rSource, rSafety, content, bType>>
            \/ WorkerStep \/ StartCreate \/ RestoreCancelled \/ Crash
            \/ \E b \in Rows : StartVerify(b) \/ StartRestore(b) \/ StartDelete(b)
  BY Zenon
  DEF Next, Maintenance, Requested, Environment, Retain, SweepFile, SweepRow, SweepEnds,
      Edit, Expire, Tamper, Timeout, tableVars, fileVars

-----------------------------------------------------------------------------
(* Every part of the state keeps its shape.                                *)

Statuses == {"absent", "running", "completed", "failed", "corrupt", "deleted"}

\* The backups table.
LEMMA RowsType ==
    ASSUME TypeOK, WorkerFits, OwnRows, SweepsExpired, Next
    PROVE  /\ bStatus' \in [Rows -> Statuses]
           /\ bRef' \in [Rows -> BOOLEAN]
           /\ bType' \in [Rows -> Types \cup {{}}]
           /\ expired' \subseteq Rows
  <1> USE DEF TypeOK, Statuses
  <1>1. CASE UNCHANGED <<bStatus, bRef, bType, expired>>
    BY <1>1
  <1>2. CASE SnapInsert
    BY <1>2 DEF SnapInsert, WorkerFits, SnapSteps
  <1>3. CASE SnapRecord
    <2>1. row \in Rows
      BY <1>3 DEF SnapRecord, OwnRows, OwnRow, SnapSteps
    <2> QED
      BY <1>3, <2>1 DEF SnapRecord
  <1>4. CASE SnapFails
    <2>1. pc # "insert" => row \in Rows
      BY <1>4 DEF SnapFails, OwnRows, OwnRow
    <2> QED
      BY <1>4, <2>1 DEF SnapFails, MarkFailed
  <1>5. CASE VerifyRecord
    BY <1>5 DEF VerifyRecord, WorkerFits
  <1>6. CASE DeleteForget
    BY <1>6 DEF DeleteForget, WorkerFits
  <1>7. CASE SweepRow
    BY <1>7 DEF SweepRow, SweepsExpired
  <1>8. CASE \E b \in Rows : Expire(b)
    BY <1>8 DEF Expire
  <1> QED
    BY <1>1, <1>2, <1>3, <1>4, <1>5, <1>6, <1>7, <1>8, RowWriters

\* The restores table.
LEMMA RestoresType ==
    ASSUME TypeOK, WorkerFits, OwnRows, Next
    PROVE  /\ rStatus' \in [Restores -> {"absent", "running", "completed", "rolled_back"}]
           /\ rSource' \in [Restores -> Rows \cup {None}]
           /\ rSafety' \in [Restores -> Rows \cup {None}]
  <1> USE DEF TypeOK
  <1>1. CASE UNCHANGED <<rStatus, rSource, rSafety>>
    BY <1>1
  <1>2. CASE RestoreSource
    BY <1>2 DEF RestoreSource
  <1>3. CASE RestoreLink
    BY <1>3 DEF RestoreLink, OwnRows, OwnRow
  <1>4. CASE RestoreFinalize
    BY <1>4 DEF RestoreFinalize, OwnRows, WorkerFits, RestoreSteps
  <1>5. CASE UndoSource
    BY <1>5 DEF UndoSource
  <1> QED
    BY <1>1, <1>2, <1>3, <1>4, <1>5, RestoreWriters

\* Every tree is built of items that hold an edit, nothing or garbage.
LEMMA TreesClosed ==
    ASSUME TypeOK, NEW b \in Rows, NEW is
    PROVE  Extracted(b, is) \in Trees /\ NoTree \in Trees
  BY DEF TypeOK, Extracted, Trees, NoTree

\* The row that is written, if any: that of the snapshot, that of the
\* deletion, one of the sweep, or one that is tampered with.
LEMMA FileStep ==
    ASSUME TypeOK, WorkerFits, OwnRows, Next
    PROVE  \/ UNCHANGED file
           \/ pc \in SnapSteps \ {"insert", "record"} /\ row \in Rows /\ Rewritten(row)
           \/ job = "delete" /\ tgt \in Rows /\ Rewritten(tgt)
           \/ \E b \in todo : Rewritten(b)
           \/ \E b \in Rows : Tamper(b) /\ Rewritten(b)
  <1>0. file \in [Rows -> FileRecs] /\ todo \subseteq Rows
    BY DEF TypeOK, FileRecs
  <1>1. CASE SnapBuild \/ SnapUpload \/ SnapSidecar
    <2>1. pc \in SnapSteps \ {"insert", "record"} /\ row \in Rows
      BY <1>1 DEF SnapBuild, SnapUpload, SnapSidecar, OwnRows, OwnRow, SnapSteps
    <2>2. CASE SnapBuild \/ SnapUpload
      BY <1>0, <2>1, <2>2, FileWrites DEF SnapBuild, SnapUpload
    <2>3. CASE SnapSidecar
      <3>1. PICK c : c = IF KeepLocal THEN file[row].local ELSE "none"
        OBVIOUS
      <3>2. c \in {"none", "good", "bad"}
        BY <1>0, <2>1, <3>1 DEF FileRecs
      <3>3. file' = [file EXCEPT ![row].sum = "good", ![row].local = c]
        BY <1>0, <2>1, <2>3, <3>1 DEF SnapSidecar
      <3> QED
        BY <1>0, <2>1, <3>2, <3>3, FileWrites
    <2> QED
      BY <1>1, <2>2, <2>3
  <1>2. CASE SnapFails /\ ~UNCHANGED file
    <2>1. pc \in SnapSteps \ {"insert", "record"}
      BY <1>2, Zenon DEF SnapFails, CleanUp
    <2>2. row \in Rows
      BY <2>1 DEF OwnRows, OwnRow
    <2>3. \/ file' = [file EXCEPT ![row] = NoFile]
          \/ file' = [file EXCEPT ![row].local = "none"]
      BY <1>2 DEF SnapFails, CleanUp, DeleteFile
    <2> QED
      BY <1>0, <2>1, <2>2, <2>3, FileWrites
  <1>3. CASE DeleteUnlink
    <2>1. job = "delete" /\ tgt \in Rows
      BY <1>3 DEF DeleteUnlink, WorkerFits
    <2> QED
      BY <1>0, <1>3, <2>1, FileWrites DEF DeleteUnlink, DeleteFile, DeleteHalf
  <1>4. CASE SweepFile
    BY <1>0, <1>4, FileWrites DEF SweepFile, DeleteFile, DeleteHalf
  <1>5. CASE \E b \in Rows : Tamper(b)
    <2>1. PICK b \in Rows : Tamper(b)
      BY <1>5
    <2>2. \/ file' = [file EXCEPT ![b].local = "bad"]
          \/ \E a \in {file[b].remote, "bad"}, t \in {file[b].sum, "forged"} :
                file' = [file EXCEPT ![b].remote = a, ![b].sum = t]
      BY <2>1, Zenon DEF Tamper
    <2>3. file[b] \in FileRecs
      BY <1>0
    <2>4. /\ {file[b].remote, "bad"} \subseteq {"none", "good", "bad"}
          /\ {file[b].sum, "forged"} \subseteq {"none", "good", "forged"}
      BY <2>3 DEF FileRecs
    <2> QED
      BY <1>0, <2>1, <2>2, <2>4, FileWrites
  <1> QED
    BY <1>1, <1>2, <1>3, <1>4, <1>5, FileWriters

\* The archives.
LEMMA FilesType ==
    ASSUME TypeOK, WorkerFits, OwnRows, Next
    PROVE  file' \in [Rows -> FileRecs] /\ content' \in [Rows -> Trees]
  <1>1. file' \in [Rows -> FileRecs]
    <2>1. file \in [Rows -> FileRecs] /\ todo \subseteq Rows
      BY DEF TypeOK, FileRecs
    <2>2. UNCHANGED file \/ \E b \in Rows : Rewritten(b)
      BY <2>1, FileStep
    <2> QED
      BY <2>1, <2>2 DEF Rewritten
  <1>2. content' \in [Rows -> Trees]
    <2>1. live \in Trees /\ content \in [Rows -> Trees]
      BY DEF TypeOK
    <2>2. CASE SnapBuild
      <3>1. [i \in Items |-> IF i \in bType[row] THEN live[i] ELSE None] \in Trees
        BY <2>1 DEF Trees
      <3> QED
        BY <2>1, <2>2, <3>1 DEF SnapBuild
    <2> QED
      BY <2>1, <2>2, FileWriters
  <1> QED
    BY <1>1, <1>2

\* An archive that the snapshot, the deletion and the sweep have nothing to do
\* with stays as it is, or is tampered with.
LEMMA ArchiveStays ==
    ASSUME TypeOK, WorkerFits, OwnRows, Next, NEW b \in Rows, b \notin todo,
           job = "delete" => tgt # b,
           b = row => pc \notin SnapSteps \ {"insert", "record"}
    PROVE  Archive(b)' = Archive(b) \/ (Archive(b) = "good" /\ Archive(b)' = "bad")
  <1>0. file \in [Rows -> FileRecs] /\ sftp' = sftp
    BY SameDestination DEF TypeOK, FileRecs
  <1>1. CASE \E a \in Rows : Tamper(a)
    <2>1. PICK a \in Rows : Tamper(a)
      BY <1>1
    <2>2. CASE a = b
      BY <1>0, <2>1, <2>2 DEF Tamper, Archive, FileRecs
    <2>3. CASE a # b
      BY <1>0, <2>1, <2>3 DEF Tamper, Archive
    <2> QED
      BY <2>2, <2>3
  <1>2. CASE UNCHANGED file \/ \E a \in Rows \ {b} : Rewritten(a)
    BY <1>0, <1>2 DEF Rewritten, Archive
  <1>3. todo \subseteq Rows
    BY DEF TypeOK
  <1> QED
    BY <1>1, <1>2, <1>3, FileStep

\* The live project and its edits.
LEMMA LiveType ==
    ASSUME TypeOK, WorkerFits, OwnRows, Next
    PROVE  live' \in Trees /\ edits' \in 0..MaxEdits /\ backupFaults' \in 0..MaxBackupFaults
  <1>1. backupFaults' \in 0..MaxBackupFaults
    BY FaultsCounted, BackupsAssumption DEF TypeOK, BackupFault
  <1>2. edits' \in 0..MaxEdits
    BY LiveWriters, BackupsAssumption DEF TypeOK, Edit
  <1>3. CASE RestoreExtract
    <2>1. tgt \in Rows
      BY <1>3 DEF RestoreExtract, WorkerFits, RestoreSteps
    <2> QED
      BY <1>1, <1>2, <1>3, <2>1, TreesClosed DEF RestoreExtract, TypeOK
  <1>4. CASE UndoRestore
    <2>1. row \in Rows
      BY <1>4 DEF UndoRestore, OwnRows, OwnRow
    <2> QED
      BY <1>1, <1>2, <1>4, <2>1, TreesClosed DEF UndoRestore, SafetyRow, TypeOK
  <1>5. CASE \E i \in Items : Edit(i)
    BY <1>1, <1>2, <1>5, BackupsAssumption DEF Edit, TypeOK, Trees
  <1> QED
    BY <1>1, <1>2, <1>3, <1>4, <1>5, LiveWriters DEF TypeOK

\* The maintenance loop.
LEMMA SweepType ==
    ASSUME TypeOK, Next
    PROVE  mpc' \in {"idle", "sweep", "forget"} /\ todo' \subseteq Rows /\ gone' \in Rows \cup {None}
  BY SweepWriters DEF TypeOK, maintVars, Maintenance, Retain, SweepFile, SweepRow, SweepEnds, Crash

-----------------------------------------------------------------------------
(* The worker.                                                             *)

Pcs == SnapSteps \cup {"idle", "hash", "verified", "unverified", "source", "link",
           "extract", "finalize", "undo_restore", "undo_source", "unlink", "forget"}

\* The conjuncts of TypeOK on the operation that runs.
WorkerShape ==
    /\ pc \in Pcs
    /\ job \in {"none", "create", "verify", "restore", "delete"}
    /\ tgt \in Rows \cup {None} /\ row \in Rows \cup {None} /\ rid \in Restores \cup {None}
    /\ asBefore \in Trees

\* The three ways a step of the worker may go on.
LEMMA EndFits ==
    ASSUME TypeOK, End PROVE WorkerShape' /\ WorkerFits'
  BY DEF End, TypeOK, WorkerShape, WorkerFits, Pcs, SnapSteps, RestoreSteps, Trees, NoTree, None

LEMMA GotoFits ==
    ASSUME TypeOK, WorkerFits, NEW p \in Pcs, Goto(p), sftp' = sftp,
           p \in RestoreSteps => job = "restore",
           p \in SnapSteps => job \in {"create", "restore"},
           p \in {"hash", "verified", "unverified"} => job = "verify",
           p \in {"unlink", "forget"} => job = "delete",
           p \in {"upload", "sidecar"} => sftp,
           p # "idle"
    PROVE  WorkerShape' /\ WorkerFits'
  BY DEF Goto, runVars, TypeOK, WorkerShape, WorkerFits, Pcs, SnapSteps, RestoreSteps

LEMMA StartsFits ==
    ASSUME TypeOK, WorkerFits, NEW o, NEW b, NEW p, Starts(o, b, p),
           \/ o = "create" /\ p = "insert" /\ b = None
           \/ b \in Rows /\ \/ o = "verify" /\ p = "hash"
                            \/ o = "restore" /\ p = "source"
                            \/ o = "delete" /\ p = "unlink"
    PROVE  WorkerShape' /\ WorkerFits'
  <1>1. WorkerShape'
    BY DEF Starts, TypeOK, WorkerShape, Pcs, SnapSteps, Trees, NoTree
  <1>2. WorkerFits'
    BY DEF Starts, WorkerFits, SnapSteps, RestoreSteps
  <1> QED
    BY <1>1, <1>2

\* Every step of the worker leaves it at a step of its operation.
LEMMA WorkerStays ==
    ASSUME TypeOK, WorkerFits, OwnRows, Next
    PROVE  WorkerShape' /\ WorkerFits'
  <1>0. sftp' = sftp
    BY SameDestination
  <1> USE DEF Pcs, SnapSteps, RestoreSteps
  <1>1. CASE UNCHANGED <<pc, runVars, asBefore, rStatus, rSource, rSafety, content, bType>>
    BY <1>0, <1>1 DEF TypeOK, WorkerShape, WorkerFits, runVars
  <1>2. CASE SnapInsert
    BY <1>0, <1>2 DEF SnapInsert, TypeOK, WorkerShape, WorkerFits
  <1>3. CASE SnapBuild \/ SnapUpload \/ SnapSidecar \/ SnapCheck
    <2>1. PICK p \in {"upload", "check", "sidecar", "record"} : Goto(p) /\ (p \in {"upload", "sidecar"} => sftp)
      BY <1>3 DEF SnapBuild, SnapUpload, SnapSidecar, SnapCheck, WorkerFits
    <2>2. job \in {"create", "restore"}
      BY <1>3 DEF SnapBuild, SnapUpload, SnapSidecar, SnapCheck, WorkerFits
    <2> QED
      BY <1>0, <2>1, <2>2, GotoFits
  <1>4. CASE SnapRecord
    BY <1>0, <1>4, GotoFits, EndFits DEF SnapRecord
  <1>5. CASE SnapFails
    <2>1. End \/ (job = "restore" /\ Goto("undo_source"))
      BY <1>5 DEF SnapFails, StepFails, Goto
    <2> QED
      BY <1>0, <2>1, GotoFits, EndFits
  <1>6. CASE VerifyHash
    <2>1. job = "verify" /\ (Goto("verified") \/ Goto("unverified"))
      BY <1>6 DEF VerifyHash, WorkerFits
    <2> QED
      BY <1>0, <2>1, GotoFits
  <1>7. CASE VerifyRecord \/ DeleteForget \/ UndoSource
    BY <1>7, EndFits DEF VerifyRecord, DeleteForget, UndoSource
  <1>8. CASE RestoreSource
    BY <1>0, <1>8 DEF RestoreSource, TypeOK, WorkerShape, WorkerFits
  <1>9. CASE RestoreSourceFails \/ RestoreLink \/ RestoreExtract \/ RestoreFinalize \/ RestoreCancelled
    <2>1. job = "restore"
      BY <1>9 DEF RestoreSourceFails, RestoreLink, RestoreExtract, RestoreFinalize, RestoreCancelled, WorkerFits
    <2>2. End \/ \E p \in RestoreSteps : Goto(p)
      BY <1>9 DEF RestoreSourceFails, RestoreLink, RestoreExtract, RestoreFinalize, RestoreCancelled
    <2> QED
      BY <1>0, <2>1, <2>2, GotoFits, EndFits
  <1>10. CASE UndoRestore
    BY <1>0, <1>10 DEF UndoRestore, TypeOK, WorkerShape, WorkerFits
  <1>11. CASE DeleteUnlink
    <2>1. job = "delete" /\ (End \/ Goto("forget"))
      BY <1>11 DEF DeleteUnlink, WorkerFits
    <2> QED
      BY <1>0, <2>1, GotoFits, EndFits
  <1>12. CASE StartCreate \/ \E b \in Rows : StartVerify(b) \/ StartRestore(b) \/ StartDelete(b)
    BY <1>12, StartsFits DEF StartCreate, StartVerify, StartRestore, StartDelete
  <1>13. CASE Crash
    <2>1. End
      BY <1>13 DEF Crash, End
    <2> QED
      BY <2>1, EndFits
  <1> QED
    BY <1>1, <1>2, <1>3, <1>4, <1>5, <1>6, <1>7, <1>8, <1>9, <1>10, <1>11, <1>12, <1>13,
       WorkerWriters DEF WorkerStep, SnapStep, RestoreStep

\* Every step keeps the whole state in shape.
LEMMA NextType ==
    ASSUME TypeOK, WorkerFits, OwnRows, SweepsExpired, Next
    PROVE  TypeOK' /\ WorkerFits'
  <1>1. Flags'
    BY NextFlags
  <1> QED
    BY <1>1, RowsType, RestoresType, FilesType, LiveType, SweepType, WorkerStays
    DEF TypeOK, WorkerShape, Statuses, FileRecs, Pcs, Flags

\* The first state has the shape of TypeOK.
LEMMA InitType == Init => TypeOK
  <1> SUFFICES ASSUME Init PROVE TypeOK
    OBVIOUS
  <1>1. Flags
    BY Zenon DEF Init, Flags
  <1>2. live \in Trees /\ NoTree \in Trees /\ edits \in 0..MaxEdits
    BY BackupsAssumption DEF Init, Trees, NoTree
  <1>3. NoFile \in FileRecs
    BY DEF NoFile, FileRecs
  <1>4. file \in [Rows -> FileRecs] /\ content \in [Rows -> Trees]
    BY <1>2, <1>3 DEF Init
  <1> QED
    BY <1>1, <1>2, <1>4, BackupsAssumption DEF Init, TypeOK, Flags, FileRecs, None

-----------------------------------------------------------------------------
(* The rows.                                                               *)

\* Rows are never taken back, expired rows stay expired, and the row that the
\* worker has inserted does not expire meanwhile.
LEMMA RowsGrow ==
    ASSUME TypeOK, OwnRows, Next
    PROVE  /\ \A b \in Rows : bStatus'[b] = "absent" => bStatus[b] = "absent"
           /\ expired \subseteq expired'
           /\ \A b \in expired' \ expired : bStatus[b] # "absent" /\ b # row
  <1>1. \A b \in Rows : bStatus'[b] = "absent" => bStatus[b] = "absent"
    BY RowWriters
    DEF TypeOK, SnapInsert, SnapRecord, SnapFails, MarkFailed, VerifyRecord, DeleteForget,
        SweepRow, Expire
  <1>2. expired \subseteq expired' /\ \A b \in expired' \ expired : bStatus[b] # "absent" /\ b # row
    BY RowWriters
    DEF SnapInsert, SnapRecord, SnapFails, VerifyRecord, DeleteForget, SweepRow, Expire
  <1> QED
    BY <1>1, <1>2

\* What the sweep has to delete has expired.
LEMMA SweepsExpiredStays ==
    ASSUME TypeOK, OwnRows, SweepsExpired, Next PROVE SweepsExpired'
  <1>1. expired \subseteq expired'
    BY RowsGrow
  <1>2. CASE UNCHANGED maintVars
    BY <1>1, <1>2 DEF SweepsExpired, maintVars
  <1>3. CASE Retain
    BY <1>1, <1>3 DEF SweepsExpired, Retain, DueForDeletion, TypeOK
  <1>4. CASE SweepFile
    BY <1>1, <1>4 DEF SweepsExpired, SweepFile, TypeOK, Rows, None
  <1>5. CASE SweepRow \/ SweepEnds \/ Crash
    BY <1>1, <1>5 DEF SweepsExpired, SweepRow, SweepEnds, Crash, None
  <1> QED
    BY <1>2, <1>3, <1>4, <1>5, SweepWriters DEF Maintenance

\* What a step needs to know of the rows the worker holds on to.
LEMMA OwnBackupStays ==
    ASSUME TypeOK, WorkerFits, OwnRows, SweepsExpired, Next,
           row \in Rows, row' = row, tgt' = tgt
    PROVE  /\ row' \notin expired' /\ row' # tgt' /\ bStatus'[row'] # "absent"
           /\ pc = "link" => bStatus'[row'] = bStatus[row]
           /\ pc \in {"record", "link"} => Archive(row)' # "none"
  <1>1. row \notin expired /\ row # tgt /\ bStatus[row] # "absent"
    BY DEF OwnRows, Rows, None
  <1>2. row' \notin expired' /\ row' # tgt' /\ bStatus'[row'] # "absent"
    BY <1>1, RowsGrow
  <1>3. ASSUME pc = "link" PROVE bStatus'[row'] = bStatus[row]
    <2>1. ~SnapInsert /\ ~SnapRecord /\ ~SnapFails /\ ~VerifyRecord /\ ~DeleteForget
      BY <1>3 DEF SnapInsert, SnapRecord, SnapFails, VerifyRecord, DeleteForget, SnapSteps
    <2>2. ASSUME SweepRow PROVE bStatus'[row'] = bStatus[row]
      <3>1. gone # row
        BY <1>1, <2>2 DEF SweepRow, SweepsExpired
      <3> QED
        BY <2>2, <3>1 DEF SweepRow, TypeOK
    <2> QED
      BY <2>1, <2>2, RowWriters DEF Expire
  <1>4. ASSUME pc \in {"record", "link"} PROVE Archive(row)' # "none"
    <2>1. Archive(row) # "none"
      BY <1>4 DEF OwnRows
    <2>2. row \notin todo /\ job # "delete" /\ pc \notin SnapSteps \ {"insert", "record"}
      BY <1>1, <1>4 DEF SweepsExpired, WorkerFits, SnapSteps, RestoreSteps
    <2>3. PICK b \in Rows : b = row
      OBVIOUS
    <2>4. Archive(b) # "none" /\ Archive(b)' # "none"
      BY <2>1, <2>2, <2>3, ArchiveStays
    <2> QED
      BY <2>3, <2>4 DEF Archive
  <1> QED
    BY <1>2, <1>3, <1>4

\* The worker goes on with the rows it has, or with none.
LEMMA GotoOwnRows ==
    ASSUME TypeOK, WorkerFits, OwnRows, SweepsExpired, Next, NEW p, Goto(p), rStatus' = rStatus,
           p \in OwnRow => pc \in OwnRow,
           p \notin {"idle", "source", "insert"},
           p \in SnapSteps \cup {"link"} => pc \in SnapSteps /\ rSafety' = rSafety,
           p = "link" => bStatus'[row] = "completed",
           p \in {"record", "link"} => Archive(row)' # "none",
           job = "restore" /\ p # "undo_source" => pc \notin {"source", "undo_source"}
    PROVE  OwnRows'
  <1>0. pc' = p /\ UNCHANGED <<job, tgt, row, rid>>
    BY DEF Goto, runVars
  <1>1. row' # None => row' \notin expired' /\ row' # tgt' /\ bStatus'[row'] # "absent"
    <2>1. row # None => row \in Rows
      BY DEF TypeOK
    <2> QED
      BY <1>0, <2>1, OwnBackupStays
  <1>2. /\ pc' \in OwnRow => row' \in Rows
        /\ pc' \in {"idle", "source", "insert"} \/ job' \notin {"create", "restore"} => row' = None
        /\ pc' \in SnapSteps \cup {"link"} => \A r \in Restores : rSafety'[r] # None => rSafety'[r] # row'
        /\ pc' = "link" => bStatus'[row'] = "completed"
        /\ pc' \in {"record", "link"} => Archive(row)' # "none"
    BY <1>0 DEF OwnRows
  <1>3. /\ job' = "restore" /\ pc' \notin {"source", "undo_source"} => rid' \in Restores
        /\ rid' # None => rStatus'[rid'] = "running"
        /\ job' # "restore" \/ pc' = "source" => rid' = None
    BY <1>0 DEF OwnRows
  <1> QED
    BY <1>1, <1>2, <1>3 DEF OwnRows

LEMMA EndOwnRows == ASSUME End PROVE OwnRows'
  BY DEF End, OwnRows, OwnRow, SnapSteps, None

LEMMA StartOwnRows ==
    ASSUME WorkerFits, OwnRows, NEW o, NEW b, NEW p, Starts(o, b, p),
           p \notin OwnRow \cup {"undo_source"},
           o = "restore" => p = "source",
           o = "create" => p = "insert"
    PROVE  OwnRows'
  BY DEF Starts, WorkerFits, OwnRows, OwnRow, SnapSteps

\* Every step keeps the rows of the worker its own.
LEMMA OwnRowsStay ==
    ASSUME TypeOK, WorkerFits, OwnRows, Unborn, SweepsExpired, Next
    PROVE  OwnRows'
  <1> USE DEF SnapSteps, OwnRow
  <1>1. CASE UNCHANGED <<pc, runVars, asBefore, rStatus, rSource, rSafety, content, bType>>
    <2>1. row # None => row \in Rows
      BY DEF TypeOK
    <2>2. row' = row /\ tgt' = tgt /\ rid' = rid /\ pc' = pc /\ job' = job
          /\ rStatus' = rStatus /\ rSafety' = rSafety
      BY <1>1 DEF runVars
    <2>3. pc \in {"record", "link"} => row \in Rows
      BY DEF OwnRows
    <2> QED
      BY <2>1, <2>2, <2>3, OwnBackupStays DEF OwnRows
  <1>2. CASE SnapInsert
    <2>1. PICK b \in Rows : bStatus[b] = "absent" /\ row' = b /\ bStatus' = [bStatus EXCEPT ![b] = "running"]
      BY <1>2 DEF SnapInsert
    <2>2. b \notin expired /\ tgt # b /\ \A r \in Restores : rSafety[r] # b
      BY <2>1 DEF Unborn
    <2>3. pc = "insert" /\ pc' = "build" /\ UNCHANGED <<expired, tgt, rSafety, rStatus, rid, job>>
      BY <1>2 DEF SnapInsert
    <2>4. bStatus'[b] = "running"
      BY <2>1 DEF TypeOK
    <2>5. job \in {"create", "restore"}
      BY <2>3 DEF WorkerFits
    <2> QED
      BY <2>1, <2>2, <2>3, <2>4, <2>5 DEF OwnRows
  <1>3. CASE SnapBuild \/ SnapUpload \/ SnapSidecar \/ SnapCheck
    <2>1. PICK p \in {"upload", "check", "sidecar", "record"} : Goto(p) /\ (p = "record" => SnapCheck)
      BY <1>3 DEF SnapBuild, SnapUpload, SnapSidecar, SnapCheck
    <2>2. pc \in {"build", "upload", "sidecar", "check"} /\ UNCHANGED <<rStatus, rSafety, sftp>>
      BY <1>3 DEF SnapBuild, SnapUpload, SnapSidecar, SnapCheck, tableVars
    <2>3. p = "record" => Archive(row)' # "none"
      BY <2>1, <2>2 DEF SnapCheck, Intact, Archive, Goto, runVars, fileVars
    <2> QED
      BY <2>1, <2>2, <2>3, GotoOwnRows
  <1>4. CASE SnapRecord
    <2>1. CASE job = "restore"
      <3>1. row \in Rows /\ pc = "record" /\ Goto("link") /\ UNCHANGED <<rStatus, rSafety>>
        BY <1>4, <2>1 DEF SnapRecord, OwnRows
      <3>2. bStatus'[row] = "completed"
        BY <1>4, <3>1 DEF SnapRecord, TypeOK
      <3>3. Archive(row)' # "none"
        BY <3>1, OwnBackupStays DEF Goto, runVars
      <3> QED
        BY <3>1, <3>2, <3>3, GotoOwnRows
    <2>2. CASE job # "restore"
      BY <1>4, <2>2, EndOwnRows DEF SnapRecord
    <2> QED
      BY <2>1, <2>2
  <1>5. CASE SnapFails
    <2>1. End \/ (pc \in SnapSteps /\ Goto("undo_source") /\ rStatus' = rStatus)
      BY <1>5 DEF SnapFails, StepFails, Goto
    <2> QED
      BY <2>1, EndOwnRows, GotoOwnRows
  <1>6. CASE VerifyHash \/ RestoreSourceFails \/ RestoreLink \/ RestoreExtract
             \/ (RestoreFinalize /\ ~End) \/ (RestoreCancelled /\ ~End) \/ (DeleteUnlink /\ ~End)
    <2>1. rStatus' = rStatus
      BY <1>6 DEF VerifyHash, RestoreSourceFails, RestoreLink, RestoreExtract, RestoreFinalize,
                  RestoreCancelled, DeleteUnlink, tableVars
    <2>2. PICK p \in {"verified", "unverified", "undo_source", "extract", "finalize",
                      "undo_restore", "forget"} :
             /\ Goto(p)
             /\ p \in OwnRow => pc \in OwnRow
             /\ job = "restore" /\ p # "undo_source" => pc \notin {"source", "undo_source"}
      BY <1>6 DEF VerifyHash, RestoreSourceFails, RestoreLink, RestoreExtract, RestoreFinalize,
                  RestoreCancelled, DeleteUnlink
    <2> QED
      BY <2>1, <2>2, GotoOwnRows
  <1>7. CASE VerifyRecord \/ DeleteForget \/ UndoSource \/ Crash
             \/ (RestoreFinalize /\ End) \/ (RestoreCancelled /\ End) \/ (DeleteUnlink /\ End)
    <2>1. End
      BY <1>7 DEF VerifyRecord, DeleteForget, UndoSource, Crash, End
    <2> QED
      BY <2>1, EndOwnRows
  <1>8. CASE RestoreSource
    <2>1. row = None /\ job = "restore"
      BY <1>8 DEF RestoreSource, OwnRows, WorkerFits, RestoreSteps
    <2>2. rid' \in Restores /\ rStatus'[rid'] = "running"
      BY <1>8 DEF RestoreSource, TypeOK
    <2>3. pc' = "insert" /\ UNCHANGED <<job, row, rSafety>>
      BY <1>8 DEF RestoreSource
    <2> QED
      BY <2>1, <2>2, <2>3 DEF OwnRows
  <1>9. CASE UndoRestore
    <2>1. row \in Rows
      BY <1>9 DEF UndoRestore, OwnRows
    <2>2. row' = row /\ tgt' = tgt /\ job' = job /\ rid' = rid /\ rStatus' = rStatus
          /\ pc = "undo_restore" /\ pc' = "undo_source"
      BY <1>9 DEF UndoRestore, tableVars
    <2> QED
      BY <2>1, <2>2, OwnBackupStays DEF OwnRows, WorkerFits, RestoreSteps
  <1>10. CASE StartCreate \/ \E b \in Rows : StartVerify(b) \/ StartRestore(b) \/ StartDelete(b)
    BY <1>10, StartOwnRows DEF StartCreate, StartVerify, StartRestore, StartDelete
  <1> QED
    BY <1>1, <1>2, <1>3, <1>4, <1>5, <1>6, <1>7, <1>8, <1>9, <1>10,
       WorkerWriters DEF WorkerStep, SnapStep, RestoreStep

\* Every step leaves the rows that do not exist yet alone.
LEMMA UnbornStays ==
    ASSUME TypeOK, WorkerFits, OwnRows, Unborn, Next
    PROVE  Unborn'
  <1>1. ASSUME NEW b \in Rows, bStatus'[b] = "absent"
        PROVE  b \notin expired' /\ content'[b] = NoTree
    <2>1. bStatus[b] = "absent"
      BY <1>1, RowsGrow
    <2>2. b \notin expired'
      BY <2>1, RowsGrow DEF Unborn
    <2>3. CASE SnapBuild
      <3>1. row # b
        BY <2>1, <2>3 DEF SnapBuild, OwnRows, OwnRow, SnapSteps, Rows, None
      <3> QED
        BY <2>1, <2>2, <2>3, <3>1 DEF SnapBuild, TypeOK, Unborn
    <2>4. CASE UNCHANGED content
      BY <2>1, <2>2, <2>4 DEF Unborn
    <2> QED
      BY <2>3, <2>4, FileWriters
  <1>2. ASSUME NEW b \in Rows, bStatus'[b] = "absent" PROVE tgt' # b
    <2>1. bStatus[b] = "absent" /\ tgt # b /\ b # None
      BY <1>2, RowsGrow DEF Unborn, Rows, None
    <2>2. tgt' \in {tgt, None} \/ bStatus[tgt'] # "absent"
      <3>1. CASE StartCreate \/ \E a \in Rows : StartVerify(a) \/ StartRestore(a) \/ StartDelete(a)
        BY <3>1 DEF StartCreate, StartVerify, StartRestore, StartDelete, Starts
      <3>2. CASE ~(StartCreate \/ \E a \in Rows : StartVerify(a) \/ StartRestore(a) \/ StartDelete(a))
        BY <3>2, WorkerWriters, Zenon
        DEF WorkerStep, SnapStep, RestoreStep, SnapInsert, SnapBuild, SnapUpload, SnapSidecar,
            SnapCheck, SnapRecord, SnapFails, VerifyHash, VerifyRecord, RestoreSource,
            RestoreSourceFails, RestoreLink, RestoreExtract, RestoreFinalize, UndoRestore,
            UndoSource, DeleteUnlink, DeleteForget, RestoreCancelled, Crash, Goto, End, StepFails,
            runVars
      <3> QED
        BY <3>1, <3>2
    <2> QED
      BY <2>1, <2>2
  <1>3. ASSUME NEW b \in Rows, bStatus'[b] = "absent", NEW r \in Restores PROVE rSafety'[r] # b
    <2>1. bStatus[b] = "absent" /\ rSafety[r] # b
      BY <1>3, RowsGrow DEF Unborn
    <2>2. CASE RestoreLink
      <3>1. row # b
        BY <2>1, <2>2 DEF RestoreLink, OwnRows
      <3> QED
        BY <2>1, <2>2, <3>1 DEF RestoreLink, TypeOK
    <2> QED
      BY <2>1, <2>2, RestoreWriters DEF RestoreSource, RestoreFinalize, UndoSource
  <1>4. ASSUME NEW r \in Restores, rStatus'[r] = "absent" PROVE rSafety'[r] = None
    <2>1. rStatus[r] = "absent" /\ rSafety[r] = None
      <3>1. rStatus[r] = "absent"
        BY <1>4, RestoreWriters DEF RestoreSource, RestoreLink, RestoreFinalize, UndoSource, TypeOK
      <3> QED
        BY <3>1 DEF Unborn
    <2>2. CASE RestoreLink
      <3>1. rid # r
        BY <2>1, <2>2 DEF RestoreLink, OwnRows, Restores, None
      <3> QED
        BY <2>1, <2>2, <3>1 DEF RestoreLink, TypeOK
    <2> QED
      BY <2>1, <2>2, RestoreWriters DEF RestoreSource, RestoreFinalize, UndoSource
  <1> QED
    BY <1>1, <1>2, <1>3, <1>4 DEF Unborn

-----------------------------------------------------------------------------
(* The safety snapshot of a running restore.                               *)

\* A running restore has its snapshot since an earlier step, or gets it now.
LEMMA Linked ==
    ASSUME TypeOK, WorkerFits, OwnRows, Unborn, Next,
           NEW r \in Restores, rStatus'[r] = "running", rSafety'[r] # None
    PROVE  \/ rStatus[r] = "running" /\ rSafety'[r] = rSafety[r]
           \/ RestoreLink /\ rSafety'[r] = row
  <1>1. CASE RestoreLink
    <2>1. rStatus' = rStatus
      BY <1>1 DEF RestoreLink
    <2>2. rSafety'[r] \in {row, rSafety[r]}
      BY <1>1 DEF RestoreLink, TypeOK
    <2> QED
      BY <1>1, <2>1, <2>2
  <1>2. CASE RestoreSource
    <2>1. rSafety' = rSafety /\ rStatus[r] # "absent"
      BY <1>2 DEF RestoreSource, Unborn
    <2> QED
      BY <1>2, <2>1 DEF RestoreSource, TypeOK
  <1>3. CASE RestoreFinalize \/ UndoSource
    BY <1>3 DEF RestoreFinalize, UndoSource, TypeOK
  <1> QED
    BY <1>1, <1>2, <1>3, RestoreWriters

\* No deletion is under way, or begins, of the snapshot of a running restore.
LEMMA SparedStays ==
    ASSUME TypeOK, WorkerFits, OwnRows, Unborn, SweepsExpired, Spared, Next
    PROVE  Spared'
  <1> SUFFICES ASSUME NEW r \in Restores, rStatus'[r] = "running", rSafety'[r] # None
               PROVE  /\ rSafety'[r] \notin todo' /\ rSafety'[r] # gone'
                      /\ job' = "delete" => rSafety'[r] # tgt'
    BY DEF Spared
  <1>1. CASE RestoreLink /\ rSafety'[r] = row
    <2>1. row \in Rows /\ row # None /\ row \notin expired
      BY <1>1 DEF RestoreLink, OwnRows, OwnRow, Rows, None
    <2>2. job = "restore" /\ job' = "restore" /\ UNCHANGED maintVars
      BY <1>1 DEF RestoreLink, Goto, runVars, WorkerFits, RestoreSteps
    <2> QED
      BY <1>1, <2>1, <2>2 DEF maintVars, SweepsExpired
  <1>2. CASE rStatus[r] = "running" /\ rSafety'[r] = rSafety[r]
    <2>0. rSafety[r] \notin todo /\ rSafety[r] # gone /\ (job = "delete" => rSafety[r] # tgt)
      BY <1>2 DEF Spared
    <2>1. rSafety'[r] \notin todo' /\ rSafety'[r] # gone'
      <3>1. CASE Retain
        <4>1. ~DueForDeletion(rSafety[r])
          BY <1>2 DEF DueForDeletion, Protected
        <4> QED
          BY <1>2, <2>0, <3>1, <4>1 DEF Retain
      <3>2. CASE UNCHANGED maintVars \/ SweepFile \/ SweepRow \/ SweepEnds \/ Crash
        BY <1>2, <2>0, <3>2 DEF maintVars, SweepFile, SweepRow, SweepEnds, Crash
      <3> QED
        BY <3>1, <3>2, SweepWriters DEF Maintenance
    <2>2. job' = "delete" => rSafety'[r] # tgt'
      <3>1. CASE \E b \in Rows : StartDelete(b)
        BY <1>2, <3>1 DEF StartDelete, Starts, InUse
      <3>2. CASE ~(\E b \in Rows : StartDelete(b))
        <4>1. job' = "delete" => job = "delete" /\ tgt' = tgt
          BY <3>2, WorkerWriters
          DEF WorkerStep, SnapStep, RestoreStep, SnapInsert, SnapBuild, SnapUpload, SnapSidecar,
              SnapCheck, SnapRecord, SnapFails, VerifyHash, VerifyRecord, RestoreSource,
              RestoreSourceFails, RestoreLink, RestoreExtract, RestoreFinalize, UndoRestore,
              UndoSource, DeleteUnlink, DeleteForget, RestoreCancelled, Crash, Goto, End, StepFails,
              StartCreate, StartVerify, StartRestore, Starts, runVars
        <4> QED
          BY <1>2, <2>0, <4>1
      <3> QED
        BY <3>1, <3>2
    <2> QED
      BY <2>1, <2>2
  <1> QED
    BY <1>1, <1>2, Linked

\* The snapshot stays a completed or corrupt row with an archive.
LEMMA SafetyStays ==
    ASSUME TypeOK, WorkerFits, OwnRows, Unborn, SweepsExpired, Spared, SafetyKept, Next
    PROVE  SafetyKept'
  <1> SUFFICES ASSUME NEW r \in Restores, rStatus'[r] = "running", rSafety'[r] # None,
                      NEW s \in Rows, s = rSafety'[r]
               PROVE  bStatus'[s] \in {"completed", "corrupt"} /\ Archive(s)' # "none"
    <2>1. \A r \in Restores : rSafety'[r] # None => rSafety'[r] \in Rows
      BY RestoresType
    <2> QED
      BY <2>1 DEF SafetyKept, Archive
  <1>1. CASE RestoreLink /\ rSafety'[r] = row
    <2>1. s = row /\ pc = "link" /\ row' = row /\ tgt' = tgt
      BY <1>1 DEF RestoreLink, Goto, runVars
    <2>2. bStatus'[s] = "completed"
      BY <1>1, <2>1 DEF RestoreLink, OwnRows
    <2>3. Archive(s)' # "none"
      BY <2>1, OwnBackupStays DEF Archive
    <2> QED
      BY <2>2, <2>3
  <1>2. CASE rStatus[r] = "running" /\ rSafety'[r] = rSafety[r]
    <2>0. /\ s = rSafety[r] /\ s # None
          /\ s \notin todo /\ s # gone /\ (job = "delete" => s # tgt)
          /\ bStatus[s] \in {"completed", "corrupt"} /\ Archive(s) # "none"
      BY <1>2 DEF Spared, SafetyKept
    <2>1. pc \in SnapSteps => s # row
      BY <2>0 DEF OwnRows
    <2>2. Archive(s)' # "none"
      BY <2>0, <2>1, ArchiveStays
    <2>3. bStatus'[s] \in {"completed", "corrupt"}
      <3>1. CASE SnapInsert \/ SnapRecord \/ SnapFails
        BY <2>0, <2>1, <3>1 DEF SnapInsert, SnapRecord, SnapFails, MarkFailed, SnapSteps, TypeOK
      <3>2. CASE VerifyRecord
        BY <2>0, <3>2 DEF VerifyRecord, TypeOK
      <3>3. CASE DeleteForget
        BY <2>0, <3>3 DEF DeleteForget, TypeOK, WorkerFits
      <3>4. CASE SweepRow
        BY <2>0, <3>4 DEF SweepRow, TypeOK
      <3> QED
        BY <2>0, <3>1, <3>2, <3>3, <3>4, RowWriters DEF Expire
    <2> QED
      BY <2>2, <2>3
  <1> QED
    BY <1>1, <1>2, Linked

-----------------------------------------------------------------------------
(* What reaches the live project.                                          *)

\* A remote archive that may be extracted is a good one or was replaced.
LEMMA ExtractsGood ==
    ASSUME TypeOK, NEW b \in Rows, sftp, Extractable(b), ~Replaced(b)
    PROVE  Archive(b) = "good"
  BY DEF Extractable, Archive

\* Extraction writes what the archive holds, or leaves the item alone.
LEMMA ExtractedItems ==
    ASSUME NEW b \in Rows, NEW is, NEW i \in Items
    PROVE  /\ content[b][i] = None => Extracted(b, is)[i] = live[i]
           /\ Archive(b) # "bad" => Extracted(b, is)[i] \in {live[i], content[b][i]}
           /\ Archive(b) # "bad" /\ i \in is /\ content[b][i] # None =>
                 Extracted(b, is)[i] = content[b][i]
  BY DEF Extracted

\* The program itself never makes a changed archive agree with its checksum
\* file.
LEMMA ReplacedByTamper ==
    ASSUME TypeOK, WorkerFits, OwnRows, Next, NEW b \in Rows, Replaced(b)'
    PROVE  Replaced(b) \/ Tamper(b)
  <1>0. file \in [Rows -> FileRecs] /\ file[b] \in FileRecs
    BY DEF TypeOK, FileRecs
  <1>1. CASE UNCHANGED file
    BY <1>1 DEF Replaced
  <1>2. CASE SnapBuild \/ SnapUpload \/ SnapSidecar
    <2>1. row \in Rows
      BY <1>2 DEF SnapBuild, SnapUpload, SnapSidecar, OwnRows, OwnRow, SnapSteps
    <2> QED
      BY <1>0, <1>2, <2>1 DEF SnapBuild, SnapUpload, SnapSidecar, Replaced, FileRecs
  <1>3. CASE SnapFails
    <2>1. \/ UNCHANGED file
          \/ file' = [file EXCEPT ![row] = NoFile]
          \/ file' = [file EXCEPT ![row].local = "none"]
      BY <1>3 DEF SnapFails, CleanUp, DeleteFile
    <2> QED
      BY <1>0, <2>1 DEF Replaced, NoFile, FileRecs
  <1>4. CASE DeleteUnlink \/ SweepFile
    <2>1. \/ UNCHANGED file
          \/ \E a \in Rows : DeleteFile(a) \/ DeleteHalf(a)
      BY <1>4 DEF DeleteUnlink, SweepFile, WorkerFits, TypeOK
    <2> QED
      BY <1>0, <2>1 DEF DeleteFile, DeleteHalf, Replaced, NoFile, FileRecs
  <1>5. CASE \E a \in Rows : Tamper(a)
    <2>1. PICK a \in Rows : Tamper(a)
      BY <1>5
    <2>2. ASSUME a # b PROVE file'[b] = file[b]
      BY <1>0, <2>1, <2>2 DEF Tamper
    <2> QED
      BY <2>1, <2>2 DEF Replaced
  <1> QED
    BY <1>1, <1>2, <1>3, <1>4, <1>5, FileWriters

\* What is newly checked has just been hashed.
LEMMA CheckedByHash ==
    ASSUME TypeOK, WorkerFits, OwnRows, Next, NEW b \in Rows, Checked(b)'
    PROVE  \/ Checked(b)
           \/ (RestoreSource \/ SnapCheck) /\ Intact(b) /\ UNCHANGED file
  <1> USE DEF Checked, SnapSteps
  <1>1. CASE UNCHANGED <<pc, runVars>>
    BY <1>1 DEF runVars
  <1>2. CASE Crash \/ (\E a \in Rows : StartVerify(a) \/ StartRestore(a) \/ StartDelete(a))
    BY <1>2 DEF Crash, StartVerify, StartRestore, StartDelete, Starts
  <1>3. CASE StartCreate
    BY <1>3 DEF StartCreate, Starts
  <1>4. CASE RestoreCancelled
    BY <1>4 DEF RestoreCancelled, Goto, End, runVars
  <1>5. CASE SnapInsert
    BY <1>5 DEF SnapInsert
  <1>6. CASE SnapBuild \/ SnapUpload \/ SnapSidecar
    BY <1>6 DEF SnapBuild, SnapUpload, SnapSidecar, Goto, runVars
  <1>7. CASE SnapCheck
    BY <1>7 DEF SnapCheck, Goto, runVars, fileVars
  <1>8. CASE SnapRecord \/ SnapFails
    BY <1>8 DEF SnapRecord, SnapFails, StepFails, Goto, End, runVars
  <1>9. CASE VerifyHash \/ VerifyRecord \/ DeleteUnlink \/ DeleteForget
    <2>1. job' # "restore"
      BY <1>9 DEF VerifyHash, VerifyRecord, DeleteUnlink, DeleteForget, Goto, End, runVars,
                  WorkerFits
    <2> QED
      BY <2>1
  <1>10. CASE RestoreSource
    BY <1>10 DEF RestoreSource, fileVars
  <1>11. CASE RestoreSourceFails \/ RestoreLink \/ RestoreExtract \/ RestoreFinalize
    BY <1>11 DEF RestoreSourceFails, RestoreLink, RestoreExtract, RestoreFinalize, Goto, End,
                 runVars
  <1>12. CASE UndoRestore \/ UndoSource
    BY <1>12 DEF UndoRestore, UndoSource, End
  <1> QED
    BY <1>1, <1>2, <1>3, <1>4, <1>5, <1>6, <1>7, <1>8, <1>9, <1>10, <1>11, <1>12,
       WorkerWriters DEF WorkerStep, SnapStep, RestoreStep

\* Nothing that was checked is replaced unnoticed.
LEMMA GenuineStays ==
    ASSUME TypeOK, WorkerFits, OwnRows, Genuine, Next
    PROVE  Genuine'
  <1> SUFFICES ASSUME sftp, ~late', NEW b \in Rows, Checked(b)', Replaced(b)'
               PROVE  FALSE
    BY SameDestination DEF Genuine
  <1>1. ~late
    BY LateWriters, Zenon DEF Tamper
  <1>2. CASE Tamper(b)
    <2>1. Checked(b)
      BY <1>2 DEF Tamper, Checked, runVars
    <2> QED
      BY <1>2, <2>1, Zenon DEF Tamper
  <1>3. CASE Replaced(b)
    <2>1. ~Checked(b)
      BY <1>1, <1>3 DEF Genuine
    <2>2. Intact(b)
      BY <2>1, CheckedByHash
    <2> QED
      BY <1>3, <2>2 DEF Intact, Archive, Replaced
  <1> QED
    BY <1>2, <1>3, ReplacedByTamper

\* No step brings a tampered remote archive into the project or from there
\* into another archive, unless it was replaced behind the check.
LEMMA PurityStays ==
    ASSUME TypeOK, WorkerFits, OwnRows, Genuine, PureArchives, TamperedRefused, Next
    PROVE  PureArchives' /\ TamperedRefused'
  <1> SUFFICES ASSUME sftp, ~late'
               PROVE  /\ \A b \in Rows, i \in Items : content'[b][i] # Bad
                      /\ \A i \in Items : live'[i] # Bad
    BY SameDestination DEF PureArchives, TamperedRefused
  <1>0. ~late
    BY LateWriters, Zenon DEF Tamper
  <1>1. /\ \A b \in Rows, i \in Items : content[b][i] # Bad
        /\ \A i \in Items : live[i] # Bad
    BY <1>0 DEF PureArchives, TamperedRefused
  <1>2. \A b \in Rows, i \in Items : content'[b][i] # Bad
    <2>1. CASE SnapBuild
      <3> SUFFICES ASSUME NEW b \in Rows, NEW i \in Items PROVE content'[b][i] # Bad
        OBVIOUS
      <3>1. content'[b] = IF b = row
                          THEN [j \in Items |-> IF j \in bType[row] THEN live[j] ELSE None]
                          ELSE content[b]
        BY <2>1 DEF SnapBuild, TypeOK
      <3> QED
        BY <1>1, <3>1 DEF Bad, None
    <2> QED
      BY <1>1, <2>1, FileWriters
  <1>3. ASSUME NEW b \in Rows, NEW is, Checked(b), Extractable(b), NEW i \in Items
        PROVE  Extracted(b, is)[i] # Bad
    <2>1. Archive(b) = "good"
      BY <1>0, <1>3, ExtractsGood DEF Genuine
    <2> QED
      BY <1>1, <2>1, ExtractedItems
  <1>4. CASE RestoreExtract
    <2>1. tgt \in Rows /\ Checked(tgt)
      BY <1>4 DEF RestoreExtract, WorkerFits, RestoreSteps, Checked
    <2>2. live' = live \/ \E is : Extractable(tgt) /\ live' = Extracted(tgt, is)
      BY <1>4 DEF RestoreExtract
    <2> QED
      BY <1>1, <1>2, <1>3, <2>1, <2>2
  <1>5. CASE UndoRestore
    <2>1. row \in Rows /\ Checked(row)
      BY <1>5 DEF UndoRestore, WorkerFits, RestoreSteps, OwnRows, OwnRow, Checked
    <2>2. live' = live \/ \E is : Extractable(row) /\ live' = Extracted(row, is)
      BY <1>5 DEF UndoRestore, SafetyRow
    <2> QED
      BY <1>1, <1>2, <1>3, <2>1, <2>2
  <1>6. CASE \E i \in Items : Edit(i)
    BY <1>1, <1>2, <1>6 DEF Edit, TypeOK, Trees, None, Bad
  <1> QED
    BY <1>1, <1>2, <1>4, <1>5, <1>6, LiveWriters

\* Archives hold what their type covers.
LEMMA CoveredStays ==
    ASSUME TypeOK, OwnRows, Unborn, Covered, Next
    PROVE  Covered'
  <1> SUFFICES ASSUME NEW b \in Rows, NEW i \in Items, content'[b][i] # None
               PROVE  i \in bType'[b]
    BY DEF Covered
  <1>1. CASE SnapInsert
    <2>1. content' = content
      BY <1>1 DEF SnapInsert, fileVars
    <2>2. bStatus[b] # "absent"
      BY <2>1 DEF Unborn, NoTree
    <2>3. bType'[b] = bType[b]
      BY <1>1, <2>2 DEF SnapInsert, TypeOK
    <2> QED
      BY <2>1, <2>3 DEF Covered
  <1>2. CASE bType' = bType /\ SnapBuild
    BY <1>2 DEF SnapBuild, Covered, TypeOK
  <1>3. CASE bType' = bType /\ content' = content
    BY <1>3 DEF Covered
  <1>4. bType' = bType \/ SnapInsert
    BY RowWriters DEF SnapRecord, SnapFails, VerifyRecord, DeleteForget, SweepRow, Expire
  <1> QED
    BY <1>1, <1>2, <1>3, <1>4, FileWriters

-----------------------------------------------------------------------------
(* A restore that is rolled back.                                          *)

\* A step that only moves the worker on.
LEMMA GotoRestorable ==
    ASSUME TypeOK, Restorable, NEW p, Goto(p), UNCHANGED <<live, content, bType>>,
           p \in SnapTaken => pc \in SnapTaken,
           p \in Untouched => pc \in Untouched,
           p \in {"finalize", "undo_restore"} => pc \in {"finalize", "undo_restore"},
           p = "undo_source" => job = "restore" /\ pc \in Untouched
    PROVE  Restorable'
  <1>0. pc' = p /\ UNCHANGED <<job, tgt, row, asBefore>>
    BY DEF Goto, runVars
  <1>1. (job = "restore" /\ row # None => bType[row] = bType[tgt])'
    BY <1>0 DEF Restorable
  <1>2. (job = "restore" /\ pc \in SnapTaken => SnapshotOf(asBefore, row))'
    BY <1>0 DEF Restorable, SnapshotOf
  <1>3. (job = "restore" /\ pc \in Untouched => live = asBefore)'
    BY <1>0 DEF Restorable
  <1>4. (pc \in {"finalize", "undo_restore"} =>
            \A i \in Items : live[i] # asBefore[i] => i \in bType[tgt])'
    BY <1>0 DEF Restorable
  <1>5. (pc = "undo_source" => Restored)'
    BY <1>0 DEF Restorable, Restored
  <1> QED
    BY <1>1, <1>2, <1>3, <1>4, <1>5, Zenon DEF Restorable

LEMMA EndRestorable == ASSUME End PROVE Restorable'
  BY DEF End, Restorable, SnapTaken, Untouched

LEMMA StartRestorable ==
    ASSUME OwnRows, NEW o, NEW b, NEW p, Starts(o, b, p), live' = live,
           p \in {"insert", "hash", "source", "unlink"}
    PROVE  Restorable'
  BY DEF Starts, OwnRows, Restorable, SnapTaken, Untouched

\* Every step keeps what a restore found restorable.
LEMMA RestorableStays ==
    ASSUME TypeOK, WorkerFits, OwnRows, Unborn, SweepsExpired, Covered, Restorable, Next
    PROVE  Restorable'
  <1> USE DEF SnapTaken, Untouched
  <1>1. CASE UNCHANGED <<pc, runVars, asBefore, rStatus, rSource, rSafety, content, bType>>
    <2>1. UNCHANGED <<pc, job, tgt, row, asBefore, content, bType>> /\ (putBack' <=> putBack)
      BY <1>1, Zenon DEF runVars
    <2>2. pc # "idle" => live' = live
      <3>1. ~RestoreExtract /\ ~UndoRestore
        BY <2>1 DEF RestoreExtract, UndoRestore, Goto
      <3> QED
        BY <3>1, LiveWriters DEF Edit
    <2>3. (job = "restore" /\ row # None => bType[row] = bType[tgt])'
      BY <2>1 DEF Restorable
    <2>4. (job = "restore" /\ pc \in SnapTaken => SnapshotOf(asBefore, row))'
      BY <2>1 DEF Restorable, SnapshotOf
    <2>5. (job = "restore" /\ pc \in Untouched => live = asBefore)'
      BY <2>1, <2>2 DEF Restorable
    <2>6. (pc \in {"finalize", "undo_restore"} =>
              \A i \in Items : live[i] # asBefore[i] => i \in bType[tgt])'
      BY <2>1, <2>2 DEF Restorable
    <2>7. (pc = "undo_source" /\ putBack /\ (row # None => Archive(row) # "bad") => Restored)'
      <3> SUFFICES ASSUME pc = "undo_source", putBack, row # None => Archive(row)' # "bad"
                   PROVE  Restored'
        BY <2>1
      <3>1. row # None => Archive(row) # "bad"
        <4> SUFFICES ASSUME NEW s \in Rows, s = row, Archive(s)' # "bad" PROVE Archive(s) # "bad"
          BY <2>1 DEF Archive, TypeOK
        <4>1. s \notin todo /\ job # "delete"
          BY DEF OwnRows, SweepsExpired, WorkerFits, RestoreSteps, Rows, None
        <4>2. pc \notin SnapSteps
          BY DEF SnapSteps
        <4> QED
          BY <4>1, <4>2, ArchiveStays
      <3> QED
        BY <2>1, <2>2, <3>1 DEF Restorable, Restored
    <2> QED
      BY <2>3, <2>4, <2>5, <2>6, <2>7, Zenon DEF Restorable
  <1>2. CASE SnapInsert
    <2>1. PICK b \in Rows : bStatus[b] = "absent" /\ row' = b
             /\ \E t \in IF job = "restore" THEN {bType[tgt]} ELSE Types : bType' = [bType EXCEPT ![b] = t]
      BY <1>2 DEF SnapInsert
    <2>2. pc = "insert" /\ pc' = "build" /\ UNCHANGED <<job, tgt, live, asBefore>>
      BY <1>2 DEF SnapInsert
    <2>3. job = "restore" => tgt \in Rows /\ tgt # b
      BY <2>1 DEF WorkerFits, Unborn
    <2>4. job' = "restore" => bType'[row'] = bType'[tgt']
      BY <2>1, <2>2, <2>3 DEF TypeOK
    <2> QED
      BY <2>2, <2>4 DEF Restorable
  <1>3. CASE SnapBuild
    <2>1. row \in Rows /\ pc = "build"
      BY <1>3 DEF SnapBuild, OwnRows, OwnRow, SnapSteps
    <2>2. pc' \in {"upload", "check"} /\ UNCHANGED <<job, tgt, row, live, asBefore, bType>>
      BY <1>3 DEF SnapBuild, Goto, runVars, tableVars
    <2>3. job = "restore" => live = asBefore /\ (row # None => bType[row] = bType[tgt])
      BY <2>1 DEF Restorable
    <2>4. content'[row] = [i \in Items |-> IF i \in bType[row] THEN live[i] ELSE None]
      BY <1>3, <2>1 DEF SnapBuild, TypeOK
    <2>5. job = "restore" => SnapshotOf(asBefore, row)'
      BY <2>2, <2>3, <2>4 DEF SnapshotOf
    <2> QED
      BY <2>2, <2>3, <2>5 DEF Restorable
  <1>4. CASE SnapUpload \/ SnapSidecar \/ SnapCheck
    BY <1>4, GotoRestorable DEF SnapUpload, SnapSidecar, SnapCheck, tableVars, fileVars
  <1>5. CASE SnapRecord
    BY <1>5, GotoRestorable, EndRestorable DEF SnapRecord, fileVars
  <1>6. CASE SnapFails
    <2>1. End \/ (job = "restore" /\ pc \in SnapSteps /\ Goto("undo_source")
                  /\ UNCHANGED <<live, content, bType>>)
      BY <1>6 DEF SnapFails, StepFails, Goto
    <2> QED
      BY <2>1, GotoRestorable, EndRestorable DEF SnapSteps
  <1>7. CASE VerifyHash \/ RestoreSourceFails \/ RestoreLink
             \/ (RestoreFinalize /\ ~End) \/ (RestoreCancelled /\ ~End) \/ (DeleteUnlink /\ ~End)
    <2>1. UNCHANGED <<live, content, bType>>
      BY <1>7 DEF VerifyHash, RestoreSourceFails, RestoreLink, RestoreFinalize, RestoreCancelled,
                  DeleteUnlink, tableVars, fileVars
    <2>2. PICK p \in {"verified", "unverified", "undo_source", "extract", "undo_restore", "forget"} :
             /\ Goto(p)
             /\ p = "extract" => pc = "link"
             /\ p = "undo_restore" => pc = "finalize"
             /\ p = "undo_source" => job = "restore" /\ pc \in Untouched
      BY <1>7 DEF VerifyHash, RestoreSourceFails, RestoreLink, RestoreFinalize, RestoreCancelled,
                  DeleteUnlink, WorkerFits, RestoreSteps
    <2> QED
      BY <2>1, <2>2, GotoRestorable
  <1>8. CASE VerifyRecord \/ DeleteForget \/ UndoSource \/ Crash
             \/ (RestoreFinalize /\ End) \/ (RestoreCancelled /\ End) \/ (DeleteUnlink /\ End)
    <2>1. End
      BY <1>8 DEF VerifyRecord, DeleteForget, UndoSource, Crash, End
    <2> QED
      BY <2>1, EndRestorable
  <1>9. CASE RestoreSource
    BY <1>9 DEF RestoreSource, Restorable, OwnRows
  <1>10. CASE RestoreExtract
    <2>1. /\ pc = "extract" /\ pc' \in {"finalize", "undo_restore"}
          /\ UNCHANGED <<job, tgt, row, asBefore, content, bType>>
      BY <1>10 DEF RestoreExtract, Goto, runVars, tableVars, fileVars
    <2>2. job = "restore" /\ tgt \in Rows /\ live = asBefore
      BY <2>1 DEF WorkerFits, RestoreSteps, Restorable
    <2>3. live' = live \/ \E is : live' = Extracted(tgt, is)
      BY <1>10 DEF RestoreExtract
    <2>4. \A i \in Items : live'[i] # asBefore[i] => i \in bType[tgt]
      BY <2>2, <2>3, ExtractedItems DEF Covered
    <2>5. SnapshotOf(asBefore, row)'
      BY <2>1, <2>2 DEF Restorable, SnapshotOf
    <2> QED
      BY <2>1, <2>4, <2>5 DEF Restorable
  <1>11. CASE UndoRestore
    <2>1. /\ pc = "undo_restore" /\ pc' = "undo_source"
          /\ UNCHANGED <<job, tgt, row, asBefore, content, bType, file, sftp>>
      BY <1>11 DEF UndoRestore, tableVars, fileVars
    <2>2. row \in Rows /\ job = "restore" /\ row # None
      BY <2>1 DEF OwnRows, OwnRow, WorkerFits, RestoreSteps, Rows, None
    <2>3. /\ bType[row] = bType[tgt] /\ SnapshotOf(asBefore, row)
          /\ \A i \in Items : live[i] # asBefore[i] => i \in bType[tgt]
      BY <2>1, <2>2 DEF Restorable
    <2>4. ~putBack' \/ live' = Extracted(row, Items)
      BY <1>11, Zenon DEF UndoRestore, SafetyRow
    <2>5. ASSUME live' = Extracted(row, Items), Archive(row) # "bad" PROVE Restored'
      <3> SUFFICES ASSUME NEW i \in Items, asBefore[i] # None PROVE live'[i] = asBefore[i]
        BY <2>1 DEF Restored
      <3>1. CASE i \in bType[row]
        BY <2>2, <2>3, <2>5, <3>1, ExtractedItems DEF SnapshotOf
      <3>2. CASE i \notin bType[row]
        BY <2>2, <2>3, <2>5, <3>2, ExtractedItems DEF SnapshotOf
      <3> QED
        BY <3>1, <3>2
    <2>6. Archive(row)' = Archive(row)
      BY <2>1 DEF Archive
    <2>7. (pc = "undo_source" /\ putBack /\ (row # None => Archive(row) # "bad") => Restored)'
      <3> SUFFICES ASSUME putBack', row' # None => Archive(row)' # "bad" PROVE Restored'
        OBVIOUS
      <3>1. live' = Extracted(row, Items)
        BY <2>4
      <3> QED
        BY <2>1, <2>2, <2>5, <2>6, <3>1
    <2>8. bType'[row'] = bType'[tgt']
      BY <2>1, <2>3
    <2> QED
      BY <2>1, <2>7, <2>8 DEF Restorable
  <1>12. CASE StartCreate \/ \E b \in Rows : StartVerify(b) \/ StartRestore(b) \/ StartDelete(b)
    BY <1>12, StartRestorable DEF StartCreate, StartVerify, StartRestore, StartDelete
  <1> QED
    BY <1>1, <1>2, <1>3, <1>4, <1>5, <1>6, <1>7, <1>8, <1>9, <1>10, <1>11, <1>12,
       WorkerWriters DEF WorkerStep, SnapStep, RestoreStep

-----------------------------------------------------------------------------
(* The theorems.                                                           *)

\* The first state has no row, no restore and no operation.
LEMMA InitInv == Init => IInv
  <1> SUFFICES ASSUME Init PROVE IInv
    OBVIOUS
  <1>1. TypeOK
    BY InitType
  <1>2. WorkerFits /\ OwnRows
    BY DEF Init, WorkerFits, OwnRows, OwnRow, SnapSteps, RestoreSteps
  <1>3. Unborn /\ SweepsExpired /\ Spared /\ SafetyKept
    BY DEF Init, Unborn, SweepsExpired, Spared, SafetyKept, Rows, Restores, None
  <1>4. Genuine /\ PureArchives /\ TamperedRefused /\ Covered
    BY DEF Init, Genuine, Checked, PureArchives, TamperedRefused, Covered, NoTree, None, Bad
  <1>5. Restorable
    BY DEF Init, Restorable, SnapTaken, Untouched
  <1> QED
    BY <1>1, <1>2, <1>3, <1>4, <1>5 DEF IInv

\* Every step keeps the invariant.
LEMMA StepInv == IInv /\ [Next]_vars => IInv'
  <1> SUFFICES ASSUME IInv, [Next]_vars PROVE IInv'
    OBVIOUS
  <1>0. /\ TypeOK /\ WorkerFits /\ OwnRows /\ Unborn /\ SweepsExpired /\ Spared /\ SafetyKept
        /\ Genuine /\ PureArchives /\ TamperedRefused /\ Covered /\ Restorable
    BY DEF IInv
  <1>1. CASE Next
    BY <1>0, <1>1, NextType, OwnRowsStay, UnbornStays, SweepsExpiredStays, SparedStays,
       SafetyStays, GenuineStays, PurityStays, CoveredStays, RestorableStays DEF IInv
  <1>2. CASE UNCHANGED vars
    <2> USE <1>2 DEF vars, tableVars, fileVars, runVars, maintVars
    <2>0. Flags'
      BY <1>0, Zenon DEF TypeOK, Flags
    <2>1. TypeOK'
      BY <1>0, <2>0 DEF TypeOK, Flags
    <2>2. WorkerFits' /\ OwnRows' /\ Unborn'
      BY <1>0 DEF WorkerFits, OwnRows, Unborn, Archive
    <2>3. SweepsExpired' /\ Spared' /\ SafetyKept'
      BY <1>0 DEF SweepsExpired, Spared, SafetyKept, Archive
    <2>4. Genuine' /\ PureArchives' /\ TamperedRefused' /\ Covered'
      BY <1>0, Zenon DEF Genuine, Checked, Replaced, PureArchives, TamperedRefused, Covered
    <2>5. Restorable'
      BY <1>0, Zenon DEF Restorable, SnapshotOf, Restored, Archive
    <2> QED
      BY <2>1, <2>2, <2>3, <2>4, <2>5 DEF IInv
  <1> QED
    BY <1>1, <1>2

\* The invariant holds in every reachable state.
THEOREM Invariance == Spec => []IInv
  BY InitInv, StepInv, PTL DEF Spec

\* Every reachable state has the shape of TypeOK: rows, archives and the run that
\* works on them.
THEOREM TypeCorrect == Spec => []TypeOK
  <1>1. IInv => TypeOK
    BY DEF IInv
  <1> QED
    BY <1>1, Invariance, PTL

\* Until a restore has ended, neither the retention nor a delete takes the
\* safety snapshot it may have to be undone with.
THEOREM SafetyKeptHolds == Spec => []SafetyKept
  <1>1. IInv => SafetyKept
    BY DEF IInv
  <1> QED
    BY <1>1, Invariance, PTL

\* A changed remote archive reaches the live project only if it and its checksum
\* file were replaced after the restore had hashed the archive against its row.
THEOREM TamperedRefusedHolds == Spec => []TamperedRefused
  <1>1. IInv => TamperedRefused
    BY DEF IInv
  <1> QED
    BY <1>1, Invariance, PTL

\* A restore that ends rolled back has put back every item it found, unless
\* the safety archive was tampered with or could not be extracted.
THEOREM RolledBackRestoresHolds == Spec => RolledBackRestores
  <1>1. ASSUME IInv, UndoSource, putBack, row # None => Archive(row) # "bad"
        PROVE  \A i \in Items : asBefore[i] # None => live'[i] = asBefore[i]
    <2>1. pc = "undo_source" /\ live' = live
      BY <1>1 DEF UndoSource
    <2> QED
      BY <1>1, <2>1 DEF IInv, Restorable, Restored
  <1>2. IInv => [(UndoSource /\ putBack /\ (row # None => Archive(row) # "bad"))
                   => \A i \in Items : asBefore[i] # None => live'[i] = asBefore[i]]_vars
    BY <1>1
  <1> QED
    BY <1>2, Invariance, PTL DEF RolledBackRestores

=============================================================================
