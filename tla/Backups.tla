------------------------------- MODULE Backups -------------------------------
(***************************************************************************)
(* Backups, restores and retention of one project                          *)
(* (api/internal/backups), over the archive providers of                   *)
(* api/internal/providers/local and api/internal/providers/offsite.        *)
(*                                                                         *)
(* Two threads of one API process share the tables and the archives: the   *)
(* job worker, which runs one operation at a time (its steps and the Undo  *)
(* of a failed step are those of the operation engine, Operations.tla),    *)
(* and the maintenance loop, which deletes expired backups (the policies   *)
(* it submits are in Schedules.tla).  A step reads and writes in separate  *)
(* actions, so that the other thread, a crash or the end of the job's      *)
(* context can come between them.                                          *)
(*                                                                         *)
(* A project is a set of items (files, the database); an item holds the    *)
(* number of the edit that wrote it.                                       *)
(***************************************************************************)
EXTENDS Integers, FiniteSets

CONSTANTS
    Items,          \* what a project consists of
    Types,          \* backup types, each the set of items it covers
    KeepLocal,      \* NODERA_BACKUP_KEEP_LOCAL
    MaxBackups,     \* bound: rows of backups
    MaxRestores,    \* bound: rows of restores
    MaxEdits,       \* bound: edits of the live project
    MaxBackupFaults       \* bound: crashes, timeouts, failing calls, tampering

ASSUME BackupsAssumption ==
    /\ Types \subseteq SUBSET Items \ {{}}
    /\ KeepLocal \in BOOLEAN
    /\ {MaxBackups, MaxRestores, MaxBackupFaults} \subseteq Nat
    /\ MaxEdits \in Nat \ {0}     \* the project as it comes is the first edit

VARIABLES
    \* the backups table; rows are numbered in the order of created_at
    bStatus, bRef, bType, expired,
    \* the restores table
    rStatus, rSource, rSafety,
    \* archives: the local copy, the remote copy and the checksum file beside it
    \* ("good" is the sum of the archive as it was uploaded, "forged" that of a
    \* changed one)
    file,
    content,    \* what the archive of a row was built from
    \* the configured destination
    sftp,
    \* the live project
    live,
    \* the worker
    pc, job, tgt, row, rid, ctx, putBack,
    \* the maintenance loop: where it is, the rows it still has to delete, and
    \* the one whose archive it has just deleted
    mpc, todo, gone,
    \* observations, read by no action
    asBefore,   \* the live project when the restore began
    late,       \* a remote archive and its checksum file were found to agree, and
                \* were both changed before the restore that checked used them
    \* counters that bound the environment
    edits, backupFaults

tableVars == <<bStatus, bRef, bType, expired, rStatus, rSource, rSafety>>
fileVars == <<file, content>>
runVars == <<job, tgt, row, rid, putBack>>
maintVars == <<mpc, todo, gone>>
vars == <<tableVars, fileVars, sftp, live, pc, runVars, ctx,
          maintVars, asBefore, late, edits, backupFaults>>

Rows == 1..MaxBackups
Restores == 1..MaxRestores
None == 0
Bad == -1           \* what comes out of a tampered archive
NoFile == [local |-> "none", remote |-> "none", sum |-> "none"]
Trees == [Items -> {Bad, None} \cup 1..MaxEdits]
NoTree == [i \in Items |-> None]
SnapSteps == {"insert", "build", "upload", "sidecar", "check", "record"}

TypeOK ==
    /\ bStatus \in [Rows -> {"absent", "running", "completed", "failed", "corrupt", "deleted"}]
    /\ bRef \in [Rows -> BOOLEAN]
    /\ bType \in [Rows -> Types \cup {{}}]
    /\ expired \subseteq Rows
    /\ rStatus \in [Restores -> {"absent", "running", "completed", "rolled_back"}]
    /\ rSource \in [Restores -> Rows \cup {None}]
    /\ rSafety \in [Restores -> Rows \cup {None}]
    /\ file \in [Rows -> [local: {"none", "good", "bad"}, remote: {"none", "good", "bad"},
                          sum: {"none", "good", "forged"}]]
    /\ content \in [Rows -> Trees]
    /\ sftp \in BOOLEAN
    /\ live \in Trees
    /\ pc \in SnapSteps \cup {"idle", "hash", "verified", "unverified", "source", "link",
              "extract", "finalize", "undo_restore", "undo_source", "unlink", "forget"}
    /\ job \in {"none", "create", "verify", "restore", "delete"}
    /\ tgt \in Rows \cup {None} /\ row \in Rows \cup {None} /\ rid \in Restores \cup {None}
    /\ ctx \in BOOLEAN /\ putBack \in BOOLEAN
    /\ mpc \in {"idle", "sweep", "forget"}
    /\ todo \subseteq Rows /\ gone \in Rows \cup {None}
    /\ asBefore \in Trees
    /\ late \in BOOLEAN
    /\ edits \in 0..MaxEdits
    /\ backupFaults \in 0..MaxBackupFaults

Init ==
    /\ bStatus = [b \in Rows |-> "absent"]
    /\ bRef = [b \in Rows |-> FALSE]
    /\ bType = [b \in Rows |-> {}]
    /\ expired = {}
    /\ rStatus = [r \in Restores |-> "absent"]
    /\ rSource = [r \in Restores |-> None]
    /\ rSafety = [r \in Restores |-> None]
    /\ file = [b \in Rows |-> NoFile]
    /\ content = [b \in Rows |-> NoTree]
    /\ sftp \in BOOLEAN
    /\ live = [i \in Items |-> 1]
    /\ pc = "idle" /\ job = "none" /\ tgt = None /\ row = None /\ rid = None
    /\ ctx = TRUE /\ putBack = TRUE
    /\ mpc = "idle" /\ todo = {} /\ gone = None
    /\ asBefore = NoTree /\ late = FALSE
    /\ edits = 1 /\ backupFaults = 0

-----------------------------------------------------------------------------
(* The archive providers.                                                  *)

\* The copy a storage_ref names: local://<id>.tar.gz or sftp://<id>.tar.gz.
Archive(b) == IF sftp THEN file[b].remote ELSE file[b].local

\* Verify: the stored copy hashes to the recorded checksum.
Intact(b) == Archive(b) = "good"

\* The remote archive and the checksum file beside it were changed alike.
Replaced(b) == file[b].remote = "bad" /\ file[b].sum = "forged"

\* Mutant: the downloaded archive is not compared with its checksum file.
ExtractableUnhashed(b) == Archive(b) # "none"

\* Restore may begin to extract: the remote copy is downloaded and compared
\* with the checksum file beside it first; the local one is opened as it is.
Extractable(b) ==
    IF sftp
    THEN \/ file[b].remote = "good" /\ file[b].sum = "good"
         \/ Replaced(b)
    ELSE file[b].local # "none"

\* The live project after the items is were extracted from the archive of b.
Extracted(b, is) ==
    [i \in Items |->
        IF i \in is /\ content[b][i] # None
        THEN IF Archive(b) = "bad" THEN Bad ELSE content[b][i]
        ELSE live[i]]

\* Delete: everything there is of the archive, or only part of it when the
\* remote store fails between its two objects.
DeleteFile(b) == file' = [file EXCEPT ![b] = NoFile]
DeleteHalf(b) ==
    /\ sftp
    /\ file' = [file EXCEPT ![b].remote = "none"]

-----------------------------------------------------------------------------
(* The operation engine around the steps.                                  *)

\* One more fault of the environment.
BackupFault ==
    /\ backupFaults < MaxBackupFaults
    /\ backupFaults' = backupFaults + 1

\* A call fails: its context has ended, or the environment fails it.
CallFails ==
    \/ ~ctx /\ UNCHANGED backupFaults
    \/ ctx /\ BackupFault

End ==
    /\ pc' = "idle" /\ job' = "none" /\ tgt' = None /\ row' = None /\ rid' = None
    /\ ctx' = TRUE /\ putBack' = TRUE
    /\ asBefore' = NoTree

\* The step fails: only the steps of a restore have an Undo.
StepFails(undo) ==
    IF job = "restore"
    THEN /\ pc' = undo
         /\ UNCHANGED <<runVars, ctx, asBefore>>
    ELSE End

Goto(p) ==
    /\ pc' = p
    /\ UNCHANGED <<runVars, ctx, asBefore>>

\* The bounds leave room for what the operation inserts.
Room(o) ==
    /\ o \in {"create", "restore"} => \E b \in Rows : bStatus[b] = "absent"
    /\ o = "restore" => \E r \in Restores : rStatus[r] = "absent"

\* Validate passed and the worker runs the operation o on row b.
Starts(o, b, p) ==
    /\ pc = "idle" /\ Room(o)
    /\ job' = o /\ tgt' = b /\ pc' = p
    /\ UNCHANGED <<row, rid, ctx, putBack>>
    /\ asBefore' = IF o = "restore" THEN live ELSE NoTree

-----------------------------------------------------------------------------
(* snapshot: the one code path of user, scheduled and safety backups.      *)

\* createOp: asked for by a user or by a policy (Schedules.tla).
StartCreate ==
    /\ Starts("create", None, "insert")
    /\ UNCHANGED <<tableVars, fileVars, sftp, live, maintVars, late, edits,
                   backupFaults>>

\* A safety snapshot has the type of the backup it protects against.
SnapInsert ==
    /\ pc = "insert" /\ ctx
    /\ \E b \in Rows :
        /\ bStatus[b] = "absent" /\ \A a \in 1..(b - 1) : bStatus[a] # "absent"
        /\ bStatus' = [bStatus EXCEPT ![b] = "running"]
        /\ \E t \in IF job = "restore" THEN {bType[tgt]} ELSE Types :
            bType' = [bType EXCEPT ![b] = t]
        /\ row' = b
    /\ pc' = "build"
    /\ UNCHANGED <<bRef, expired, rStatus, rSource, rSafety, fileVars, sftp,
                   live, job, tgt, rid, putBack, ctx, maintVars, asBefore,
                   late, edits, backupFaults>>

\* The closure fail: the row is marked under the job's own context.
MarkFailed ==
    bStatus' = IF ctx THEN [bStatus EXCEPT ![row] = "failed"] ELSE bStatus

\* local Create: the archive appears under its name when it is complete.
SnapBuild ==
    /\ pc = "build" /\ ctx
    /\ file' = [file EXCEPT ![row].local = "good"]
    /\ content' = [content EXCEPT ![row] =
                      [i \in Items |-> IF i \in bType[row] THEN live[i] ELSE None]]
    /\ Goto(IF sftp THEN "upload" ELSE "check")
    /\ UNCHANGED <<tableVars, sftp, live, maintVars, late, edits,
                   backupFaults>>

\* offsite Create: the archive, then its checksum file, then the local copy goes.
SnapUpload ==
    /\ pc = "upload" /\ ctx
    /\ file' = [file EXCEPT ![row].remote = "good"]
    /\ Goto("sidecar")
    /\ UNCHANGED <<tableVars, content, sftp, live, maintVars, late, edits,
                   backupFaults>>

SnapSidecar ==
    /\ pc = "sidecar" /\ ctx
    /\ file' = [file EXCEPT ![row].sum = "good",
                            ![row].local = IF KeepLocal THEN @ ELSE "none"]
    /\ Goto("check")
    /\ UNCHANGED <<tableVars, content, sftp, live, maintVars, late, edits,
                   backupFaults>>

SnapCheck ==
    /\ pc = "check" /\ ctx /\ Intact(row)
    /\ Goto("record")
    /\ UNCHANGED <<tableVars, fileVars, sftp, live, maintVars, late, edits,
                   backupFaults>>

\* The completed row; a restore goes on, a create is over.
SnapRecord ==
    /\ pc = "record" /\ ctx
    /\ bStatus' = [bStatus EXCEPT ![row] = "completed"]
    /\ bRef' = [bRef EXCEPT ![row] = TRUE]
    /\ IF job = "restore" THEN Goto("link") ELSE End
    /\ UNCHANGED <<bType, expired, rStatus, rSource, rSafety, fileVars, sftp,
                   live, maintVars, late, edits, backupFaults>>

\* What a failed step leaves of the archive: the remote copy is cleaned up on
\* a context of its own, but by the store that may just have failed; after
\* the check, it is deleted under the context of the job.
CleanUp ==
    CASE pc \in {"upload", "sidecar"} ->
            file' \in {[file EXCEPT ![row] = NoFile], [file EXCEPT ![row].local = "none"]}
      [] pc = "check" /\ (ctx \/ ~sftp) -> DeleteFile(row) \/ (sftp /\ UNCHANGED file)
      [] OTHER -> UNCHANGED file

SnapFails ==
    /\ pc \in SnapSteps
    /\ CallFails \/ (pc = "check" /\ ctx /\ ~Intact(row) /\ UNCHANGED backupFaults)
    /\ CleanUp
    /\ IF pc = "insert" THEN UNCHANGED bStatus ELSE MarkFailed
    /\ StepFails("undo_source")
    /\ UNCHANGED <<bRef, bType, expired, rStatus, rSource, rSafety, content,
                   sftp, live, maintVars, late, edits>>

-----------------------------------------------------------------------------
(* verifyOp.                                                               *)

StartVerify(b) ==
    /\ bStatus[b] \notin {"absent", "deleted"} /\ bRef[b]
    /\ Starts("verify", b, "hash")
    /\ UNCHANGED <<tableVars, fileVars, sftp, live, maintVars, late, edits,
                   backupFaults>>

\* Any error of Verify counts as a corrupt backup.
VerifyHash ==
    /\ pc = "hash"
    /\ \/ ctx /\ Intact(tgt) /\ Goto("verified") /\ UNCHANGED backupFaults
       \/ ctx /\ ~Intact(tgt) /\ Goto("unverified") /\ UNCHANGED backupFaults
       \/ CallFails /\ Goto("unverified")
    /\ UNCHANGED <<tableVars, fileVars, sftp, live, maintVars, late, edits>>

\* The row is written whatever it says by now.
VerifyRecord ==
    /\ pc \in {"verified", "unverified"}
    /\ bStatus' = IF ctx
                  THEN [bStatus EXCEPT ![tgt] = IF pc = "verified" THEN "completed" ELSE "corrupt"]
                  ELSE bStatus
    /\ End
    /\ UNCHANGED <<bRef, bType, expired, rStatus, rSource, rSafety, fileVars,
                   sftp, live, maintVars, late, edits, backupFaults>>

-----------------------------------------------------------------------------
(* restoreOp.                                                              *)

StartRestore(b) ==
    /\ bStatus[b] = "completed"
    /\ Starts("restore", b, "source")
    /\ UNCHANGED <<tableVars, fileVars, sftp, live, maintVars, late, edits,
                   backupFaults>>

\* verify-source-backup
RestoreSource ==
    /\ pc = "source" /\ ctx /\ Intact(tgt)
    /\ \E r \in Restores :
        /\ rStatus[r] = "absent" /\ \A s \in 1..(r - 1) : rStatus[s] # "absent"
        /\ rStatus' = [rStatus EXCEPT ![r] = "running"]
        /\ rSource' = [rSource EXCEPT ![r] = tgt]
        /\ rid' = r
    /\ pc' = "insert"
    /\ UNCHANGED <<bStatus, bRef, bType, expired, rSafety, fileVars, sftp,
                   live, job, tgt, row, putBack, ctx, maintVars, asBefore,
                   late, edits, backupFaults>>

RestoreSourceFails ==
    /\ pc = "source"
    /\ CallFails \/ (ctx /\ ~Intact(tgt) /\ UNCHANGED backupFaults)
    /\ Goto("undo_source")
    /\ UNCHANGED <<tableVars, fileVars, sftp, live, maintVars, late, edits>>

\* safety-snapshot, after snapshot returned
RestoreLink ==
    /\ pc = "link"
    /\ \/ /\ ctx
          /\ rSafety' = [rSafety EXCEPT ![rid] = row]
          /\ Goto("extract")
          /\ UNCHANGED backupFaults
       \/ /\ CallFails
          /\ Goto("undo_source")
          /\ UNCHANGED rSafety
    /\ UNCHANGED <<bStatus, bRef, bType, expired, rStatus, rSource, fileVars,
                   sftp, live, maintVars, late, edits>>

\* restore: extraction stops at the item that fails; the source may be gone.
RestoreExtract ==
    /\ pc = "extract"
    /\ \/ /\ ctx /\ Extractable(tgt)
          /\ live' = Extracted(tgt, Items)
          /\ Goto("finalize")
          /\ UNCHANGED backupFaults
       \/ /\ CallFails
          /\ \E is \in SUBSET Items : live' = IF Extractable(tgt) THEN Extracted(tgt, is) ELSE live
          /\ Goto("undo_restore")
       \/ /\ ctx /\ ~Extractable(tgt)
          /\ Goto("undo_restore")
          /\ UNCHANGED <<live, backupFaults>>
    /\ UNCHANGED <<tableVars, fileVars, sftp, maintVars, late, edits>>

RestoreFinalize ==
    /\ pc = "finalize"
    /\ \/ /\ ctx
          /\ rStatus' = [rStatus EXCEPT ![rid] = "completed"]
          /\ End
          /\ UNCHANGED backupFaults
       \/ /\ CallFails
          /\ Goto("undo_restore")
          /\ UNCHANGED rStatus
    /\ UNCHANGED <<bStatus, bRef, bType, expired, rSource, rSafety, fileVars,
                   sftp, live, maintVars, late, edits>>

\* Cancelled at the boundary before a step: that step's Undo does not run.
RestoreCancelled ==
    /\ job = "restore"
    /\ \/ pc \in {"insert", "extract"} /\ Goto("undo_source")
       \/ pc = "finalize" /\ Goto("undo_restore")
       \/ pc = "source" /\ End
    /\ UNCHANGED <<tableVars, fileVars, sftp, live, maintVars, late, edits,
                   backupFaults>>

\* Mutant: the Undo reads the id of the backup that was being restored.
SourceAgain == tgt

\* safetyID: the snapshot this restore took.
SafetyRow == row

\* Undo of restore: the safety snapshot is put back.
UndoRestore ==
    /\ pc = "undo_restore"
    /\ \/ /\ Extractable(SafetyRow)
          /\ live' = Extracted(SafetyRow, Items)
          /\ UNCHANGED <<putBack, backupFaults>>
       \/ /\ BackupFault
          /\ \E is \in SUBSET Items : live' = IF Extractable(SafetyRow) THEN Extracted(SafetyRow, is) ELSE live
          /\ putBack' = FALSE
       \/ /\ ~Extractable(SafetyRow)
          /\ putBack' = FALSE
          /\ UNCHANGED <<live, backupFaults>>
    /\ pc' = "undo_source"
    /\ UNCHANGED <<tableVars, fileVars, sftp, job, tgt, row, rid, ctx,
                   maintVars, asBefore, late, edits>>

\* Undo of verify-source-backup; its error is ignored.
UndoSource ==
    /\ pc = "undo_source"
    /\ \/ /\ rStatus' = IF rid = None THEN rStatus ELSE [rStatus EXCEPT ![rid] = "rolled_back"]
          /\ UNCHANGED backupFaults
       \/ BackupFault /\ UNCHANGED rStatus
    /\ End
    /\ UNCHANGED <<bStatus, bRef, bType, expired, rSource, rSafety, fileVars,
                   sftp, live, maintVars, late, edits>>

-----------------------------------------------------------------------------
(* deleteOp.                                                               *)

InUse(b) ==
    \E r \in Restores : rStatus[r] = "running" /\ b \in {rSource[r], rSafety[r]}

StartDelete(b) ==
    /\ bStatus[b] \notin {"absent", "deleted"}
    /\ ~InUse(b)
    /\ Starts("delete", b, "unlink")
    /\ UNCHANGED <<tableVars, fileVars, sftp, live, maintVars, late, edits,
                   backupFaults>>

DeleteUnlink ==
    /\ pc = "unlink"
    /\ \/ /\ ctx
          /\ IF bRef[tgt] THEN DeleteFile(tgt) ELSE UNCHANGED file
          /\ Goto("forget")
          /\ UNCHANGED backupFaults
       \/ /\ CallFails
          /\ UNCHANGED file \/ (bRef[tgt] /\ DeleteHalf(tgt))
          /\ End
    /\ UNCHANGED <<tableVars, content, sftp, live, maintVars, late, edits>>

DeleteForget ==
    /\ pc = "forget"
    /\ \/ /\ ctx
          /\ bStatus' = [bStatus EXCEPT ![tgt] = "deleted"]
          /\ End
          /\ UNCHANGED backupFaults
       \/ /\ CallFails
          /\ End
          /\ UNCHANGED bStatus
    /\ UNCHANGED <<bRef, bType, expired, rStatus, rSource, rSafety, fileVars,
                   sftp, live, maintVars, late, edits>>

-----------------------------------------------------------------------------
(* The retention sweep of the maintenance loop.                            *)

\* Mutant: the NOT EXISTS of the retention query is dropped.
ProtectedNever(b) == FALSE

\* EnforceRetention: the expired backups, but for the safety snapshot of a
\* running restore
Protected(b) == \E r \in Restores : rStatus[r] = "running" /\ rSafety[r] = b

\* Mutant: completed backups are left out of the retention query.
DueForDeletionButCompleted(b) ==
    b \in expired /\ bStatus[b] \in {"corrupt", "failed"} /\ ~Protected(b)

DueForDeletion(b) ==
    b \in expired /\ bStatus[b] \in {"completed", "corrupt", "failed"} /\ ~Protected(b)

Retain ==
    /\ mpc = "idle"
    /\ todo' = {b \in Rows : DueForDeletion(b)}
    /\ mpc' = "sweep"
    /\ UNCHANGED <<tableVars, fileVars, sftp, live, pc, runVars, ctx, gone,
                   asBefore, late, edits, backupFaults>>

\* The archive goes first; when that fails the row waits for the next sweep.
SweepFile ==
    /\ mpc = "sweep"
    /\ \E b \in todo :
        /\ todo' = todo \ {b}
        /\ \/ /\ IF bRef[b] THEN DeleteFile(b) ELSE UNCHANGED file
              /\ mpc' = "forget" /\ gone' = b
              /\ UNCHANGED backupFaults
           \/ /\ BackupFault /\ bRef[b]
              /\ UNCHANGED file \/ DeleteHalf(b)
              /\ UNCHANGED <<mpc, gone>>
    /\ UNCHANGED <<tableVars, content, sftp, live, pc, runVars, ctx, asBefore,
                   late, edits>>

SweepRow ==
    /\ mpc = "forget"
    /\ \/ bStatus' = [bStatus EXCEPT ![gone] = "deleted"] /\ UNCHANGED backupFaults
       \/ BackupFault /\ UNCHANGED bStatus
    /\ mpc' = "sweep" /\ gone' = None
    /\ UNCHANGED <<bRef, bType, expired, rStatus, rSource, rSafety, fileVars,
                   sftp, live, pc, runVars, ctx, todo, asBefore, late, edits>>

SweepEnds ==
    /\ mpc = "sweep" /\ todo = {}
    /\ mpc' = "idle"
    /\ UNCHANGED <<tableVars, fileVars, sftp, live, pc, runVars, ctx, todo,
                   gone, asBefore, late, edits, backupFaults>>

-----------------------------------------------------------------------------
(* The environment.                                                        *)

\* The site changes between operations.
Edit(i) ==
    /\ pc = "idle" /\ edits < MaxEdits
    /\ edits' = edits + 1
    /\ \E v \in {None, edits'} : live' = [live EXCEPT ![i] = v]
    /\ UNCHANGED <<tableVars, fileVars, sftp, pc, runVars, ctx, maintVars,
                   asBefore, backupFaults, late>>

\* retention_until passes: days, while an operation lasts an hour at most, so
\* never for a row the running operation has just inserted.
Expire(b) ==
    /\ bStatus[b] # "absent" /\ b \notin expired /\ b # row
    /\ expired' = expired \cup {b}
    /\ UNCHANGED <<bStatus, bRef, bType, rStatus, rSource, rSafety, fileVars,
                   sftp, live, pc, runVars, ctx, maintVars, asBefore, late,
                   edits, backupFaults>>

\* The archive and the checksum file that the running restore has checked, and
\* has still to use.
Checked(b) ==
    /\ job = "restore"
    /\ \/ b = tgt /\ pc \in SnapSteps \cup {"link", "extract"}
       \/ b = row /\ pc \in {"record", "link", "extract", "finalize", "undo_restore"}

\* What is stored changes behind the program's back: the archive, and at the
\* remote destination the checksum file beside it, or both.
Tamper(b) ==
    /\ BackupFault
    /\ Archive(b) # "none"
    /\ IF sftp
       THEN \E a \in {file[b].remote, "bad"}, s \in {file[b].sum, "forged"} :
               file' = [file EXCEPT ![b].remote = a, ![b].sum = s]
       ELSE file' = [file EXCEPT ![b].local = "bad"]
    /\ file' # file
    /\ late' = (late \/ (sftp /\ Checked(b) /\ Replaced(b)'))
    /\ UNCHANGED <<tableVars, content, sftp, live, pc, runVars, ctx, maintVars,
                   asBefore, edits>>

\* The context of the job ends; the Undos have one of their own.
Timeout ==
    /\ pc \notin {"idle", "undo_restore", "undo_source"} /\ ctx
    /\ BackupFault
    /\ ctx' = FALSE
    /\ UNCHANGED <<tableVars, fileVars, sftp, live, pc, runVars, maintVars,
                   asBefore, late, edits>>

\* The process dies and starts again; the job is marked failed (JobQueue.tla).
Crash ==
    /\ BackupFault
    /\ pc' = "idle" /\ job' = "none" /\ tgt' = None /\ row' = None /\ rid' = None
    /\ ctx' = TRUE /\ putBack' = TRUE
    /\ mpc' = "idle" /\ todo' = {} /\ gone' = None
    /\ asBefore' = NoTree
    /\ UNCHANGED <<tableVars, fileVars, sftp, live, late, edits>>

-----------------------------------------------------------------------------

SnapStep ==
    \/ SnapInsert \/ SnapBuild \/ SnapUpload \/ SnapSidecar \/ SnapCheck \/ SnapRecord \/ SnapFails

RestoreStep ==
    \/ RestoreSource \/ RestoreSourceFails \/ RestoreLink \/ RestoreExtract \/ RestoreFinalize
    \/ UndoRestore \/ UndoSource

WorkerStep ==
    \/ SnapStep
    \/ VerifyHash \/ VerifyRecord
    \/ RestoreStep
    \/ DeleteUnlink \/ DeleteForget

Maintenance == Retain \/ SweepFile \/ SweepRow \/ SweepEnds

Requested ==
    \/ StartCreate
    \/ \E b \in Rows : StartVerify(b) \/ StartRestore(b) \/ StartDelete(b)
    \/ RestoreCancelled
    \/ \E i \in Items : Edit(i)

Environment ==
    \/ \E b \in Rows : Expire(b) \/ Tamper(b)
    \/ Timeout
    \/ Crash

Next == WorkerStep \/ Maintenance \/ Requested \/ Environment

Fairness ==
    /\ WF_vars(WorkerStep)
    /\ WF_vars(Maintenance)
    /\ \A b \in Rows : WF_vars(Expire(b))

Spec == Init /\ [][Next]_vars /\ Fairness

-----------------------------------------------------------------------------
(* Properties.                                                             *)

\* While a restore has not ended, a crash included, the safety snapshot it
\* may have to be undone with is kept: neither retention (EnforceRetention's
\* NOT EXISTS) nor a delete (deleteOp.Validate) takes it away.
SafetyKept ==
    \A r \in Restores :
        rStatus[r] = "running" /\ rSafety[r] # None =>
            /\ bStatus[rSafety[r]] \in {"completed", "corrupt"}
            /\ Archive(rSafety[r]) # "none"

\* "a corrupt or tampered remote object never reaches the destination
\* filesystem" (offsite.Restore, docs/BACKUPS.md).
TamperedStaysOut == sftp => \A i \in Items : live[i] # Bad

\* A changed remote archive reaches the live project, by a restore, by the Undo
\* of one or through a later backup of what they wrote, only if its checksum file
\* was changed to match it and the pair became so after this restore had hashed
\* the archive against the row: verify-source-backup and the check of the safety
\* snapshot stand in front of every download.
TamperedRefused == sftp /\ ~late => \A i \in Items : live[i] # Bad

\* A restore that ends rolled back has put every item that was there back as
\* it was, unless the safety archive itself was tampered with.
RolledBackRestores ==
    [][(UndoSource /\ putBack /\ (row # None => Archive(row) # "bad"))
        => \A i \in Items : asBefore[i] # None => live'[i] = asBefore[i]]_vars

\* A row that says 'completed' while its archive is gone (verify raced the
\* retention, or a delete stopped half-way) does not say so for ever.
GhostEnds ==
    \A b \in Rows :
        (bStatus[b] = "completed" /\ Archive(b) = "none") ~> (bStatus[b] # "completed")
=============================================================================
