-------------------------------- MODULE Sites --------------------------------
(***************************************************************************)
(* The operations on a WordPress project and the site it serves:           *)
(* provisioning and deletion (api/internal/provisioning, over the rows of  *)
(* api/internal/projects), clone and image update (api/internal/wordpress) *)
(* and the migration of an external site into it (api/internal/sitemig).   *)
(*                                                                         *)
(* They are step lists run by the operation engine (Operations.tla), one   *)
(* operation at a time.  A failing step is undone together with the steps  *)
(* before it, in reverse order.  A step that makes several calls may fail, *)
(* or the process die, between them; an Undo may fail; a migration status  *)
(* may go unwritten (setStatus drops its error).  An upload of the source  *)
(* archive, an HTTP request, runs beside the operations.                   *)
(*                                                                         *)
(* A site is a file both sites have ("index"), one only the migrated site  *)
(* has ("plugin"), and the database.  Each is absent, "old" (the site of   *)
(* the project), "new" (the migrated one) or, for the database, "mixed".   *)
(***************************************************************************)
EXTENDS Integers, Sequences, FiniteSets

CONSTANTS
    MaxUploads,     \* bound: versions of the source archive
    MaxOps,         \* bound: operations that are started
    MaxFaults       \* bound: failing calls, cancellations, crashes

ASSUME SitesAssumption == {MaxUploads, MaxOps, MaxFaults} \subseteq Nat

VARIABLES
    st,         \* the tables and the host, a record of State
    op, k, mode,            \* the running operation, its step, and its phase
    mem,        \* what the steps of the run have kept: a record of Memory
    allBack,    \* every Undo so far succeeded
    upload,     \* the upload request
    before,     \* st as Validate of the operation read it
    last,       \* observation: the operation that ended last, and how
    torn,       \* observation: a crash, a failed Undo or an unwritten status
    spoilt,     \* observation: a migration.rollback failed half-way in the data
    ops, faults

siteVars == <<st, op, k, mode, mem, allBack, upload, before, last, torn, spoilt, ops,
              faults>>

Contents == {"none", "old", "new"}
Versions == 0..MaxUploads
ProjectStatuses == {"none", "provisioning", "failed", "active", "deleting", "deleted"}
MigrationStatuses ==
    {"none", "discovering", "planned", "preflight_failed", "transferring", "importing",
     "validating", "ready_for_cutover", "cutting_over", "completed", "failed", "rolled_back"}
Site == [index: Contents, plugin: Contents, data: Contents \cup {"mixed"}]
NoSite == [index |-> "none", plugin |-> "none", data |-> "none"]
State ==
    [project: ProjectStatuses, site: Site,
     secret: BOOLEAN, dbRow: BOOLEAN,       \* the stored password, project_databases
     ctr: {"none", "stopped", "running"}, image: 1..2, cfgImage: 1..2, app: BOOLEAN,
     mig: MigrationStatuses, archive: Versions, ref: BOOLEAN, planned: Versions,
     stage: Versions, sdb: {"none", "empty", "loaded"}, safety: Site]
Memory ==
    [db: BOOLEAN, pw: BOOLEAN, ctr: BOOLEAN,  \* db_created, db_password, container_created
     id: BOOLEAN,                             \* newID of a clone
     safety: Site, found: Versions, spec: 0..2]
NoMemory ==
    [db |-> FALSE, pw |-> FALSE, ctr |-> FALSE, id |-> FALSE,
     safety |-> NoSite, found |-> 0, spec |-> 0]

Provision ==
    <<"validate-project", "prepare-workspace", "create-database", "create-container",
      "start-container", "health-check", "register-application", "activate-project">>
CutoverSteps ==
    <<"begin", "safety-backup", "swap-files", "swap-database", "restart-and-verify", "finalize">>

Steps ==
    [provision |-> Provision,
     clone |-> <<"create-clone-project">> \o Provision
               \o <<"clone-files", "clone-database", "restart-clone">>,
     delete |-> <<"mark-deleting", "remove-container", "drop-database", "remove-workspace",
                  "remove-records">>,
     update |-> <<"update-backup", "capture-current-spec", "replace-container",
                  "update-health", "record">>,
     plan |-> <<"discovery", "preflight">>,
     run |-> <<"mark-running", "transfer-files", "create-staging-database",
               "import-database", "validate", "ready">>,
     cutover |-> CutoverSteps,
     rollback |-> <<"restore-safety-backup">>]

SitesTypeOK ==
    /\ st \in State /\ before \in State
    /\ op \in DOMAIN Steps \cup {"none"} /\ k \in 0..13
    /\ mode \in {"idle", "run", "undo"}
    /\ mem \in Memory
    /\ upload \in {"none", "checked", "written"}
    /\ last \in [op: DOMAIN Steps \cup {"none"},
                 end: {"none", "succeeded", "rolled_back", "rollback_failed"}]
    /\ allBack \in BOOLEAN /\ torn \in BOOLEAN /\ spoilt \in BOOLEAN
    /\ ops \in 0..MaxOps /\ faults \in 0..MaxFaults

SitesInit ==
    /\ st = [project |-> "none", site |-> NoSite, secret |-> FALSE,
             dbRow |-> FALSE, ctr |-> "none", image |-> 1, cfgImage |-> 1, app |-> FALSE,
             mig |-> "none", archive |-> 0, ref |-> FALSE, planned |-> 0, stage |-> 0, sdb |-> "none",
             safety |-> NoSite]
    /\ op = "none" /\ k = 0 /\ mode = "idle" /\ mem = NoMemory /\ allBack = TRUE
    /\ upload = "none" /\ before = st /\ last = [op |-> "none", end |-> "none"]
    /\ torn = FALSE /\ spoilt = FALSE /\ ops = 0 /\ faults = 0

-----------------------------------------------------------------------------
(* The engine around the steps.                                            *)

Fault == faults < MaxFaults /\ faults' = faults + 1

At(n) == mode = "run" /\ k <= Len(Steps[op]) /\ Steps[op][k] = n
Undoing(n) == mode = "undo" /\ k >= 1 /\ Steps[op][k] = n

\* The process dies; the job is not resumed (Operations.tla).
Dies ==
    /\ op' = "none" /\ k' = 0 /\ mode' = "idle" /\ mem' = NoMemory /\ allBack' = TRUE
    /\ upload' = "none" /\ torn' = TRUE
    /\ last' = [op |-> "none", end |-> "none"]
    /\ UNCHANGED <<before, ops>>

\* A step returns nil, having made s and m.
Done(s, m) ==
    /\ st' = s /\ mem' = m /\ k' = k + 1
    /\ UNCHANGED <<op, mode, allBack, upload, before, last, torn, ops, faults>>

\* A step returns an error without having changed anything: it is undone too.
Refuses ==
    /\ mode' = "undo"
    /\ UNCHANGED <<st, mem, op, k, allBack, upload, before, last, torn, ops, faults>>

\* A call of a step fails, or the process dies in it, when it has made s and m.
Fails(s, m) ==
    /\ Fault /\ st' = s
    /\ \/ /\ mem' = m /\ mode' = "undo"
          /\ UNCHANGED <<op, k, allBack, upload, before, last, torn, ops>>
       \/ Dies

\* An Undo returns; then the step before it.
Undone(s) ==
    /\ st' = s /\ k' = k - 1
    /\ UNCHANGED <<op, mode, mem, allBack, upload, before, last, torn, ops, faults>>
UndoFails(s) ==
    /\ Fault /\ st' = s
    /\ \/ /\ k' = k - 1 /\ allBack' = FALSE /\ torn' = TRUE
          /\ UNCHANGED <<op, mode, mem, upload, before, last, ops>>
       \/ Dies
Undo(n, s, halves) == Undoing(n) /\ (Undone(s) \/ \E h \in halves : UndoFails(h))

\* setStatus: s with the migration status, unless that write fails unseen.
SetMig(s, status) == [s EXCEPT !.mig = status]
Unwritten(s) ==
    /\ Fault /\ torn' = TRUE /\ st' = s
    /\ k' = IF mode = "run" THEN k + 1 ELSE k - 1
    /\ UNCHANGED <<mem, op, mode, allBack, upload, before, last, ops>>

\* A call fails and its error is dropped: the step, or the Undo, succeeds with s.
Unseen(s) ==
    /\ Fault /\ st' = s
    /\ k' = IF mode = "run" THEN k + 1 ELSE k - 1
    /\ UNCHANGED <<mem, op, mode, allBack, upload, before, last, torn, ops>>

Ends(end) ==
    /\ last' = [op |-> op, end |-> end]
    /\ op' = "none" /\ k' = 0 /\ mode' = "idle" /\ mem' = NoMemory /\ allBack' = TRUE
    /\ UNCHANGED <<st, upload, before, torn, ops, faults>>

Succeed == mode = "run" /\ k = Len(Steps[op]) + 1 /\ Ends("succeeded")
RolledBack == mode = "undo" /\ k = 0 /\ Ends(IF allBack THEN "rolled_back" ELSE "rollback_failed")

\* A cancellation is seen between two steps.
Cancel ==
    /\ mode = "run" /\ k <= Len(Steps[op]) /\ Fault
    /\ mode' = "undo" /\ k' = k - 1
    /\ UNCHANGED <<st, mem, op, allBack, upload, before, last, torn, ops>>

\* Steps that have no Undo are passed over.
HasUndo ==
    {"validate-project", "prepare-workspace", "create-database", "create-container",
     "start-container", "register-application", "activate-project", "create-clone-project",
     "replace-container", "mark-running", "transfer-files", "create-staging-database",
     "begin", "swap-files"}
SkipUndo == mode = "undo" /\ k >= 1 /\ Steps[op][k] \notin HasUndo /\ Undone(st)

SitesCrash == mode # "idle" /\ Fault /\ Dies /\ UNCHANGED st

\* Validate of each operation, when the worker has claimed its job.
ValidProvision == st.project \in {"provisioning", "failed"}
ValidClone     == st.project = "none"
ValidDelete    == st.project \in {"provisioning", "failed", "active"}
ValidUpdate    == st.project = "active"
ValidPlan      == st.mig \in {"discovering", "planned", "preflight_failed"}
ValidRun       == st.mig = "planned"
ValidCutover   == st.mig = "ready_for_cutover"
ValidRollback  == st.mig = "completed" /\ st.safety # NoSite

Valid(o) ==
    \/ o = "provision" /\ ValidProvision
    \/ o = "clone" /\ ValidClone
    \/ o = "delete" /\ ValidDelete
    \/ o = "update" /\ ValidUpdate
    \/ o = "plan" /\ ValidPlan
    \/ o = "run" /\ ValidRun
    \/ o = "cutover" /\ ValidCutover
    \/ o = "rollback" /\ ValidRollback

Start(o) ==
    /\ mode = "idle" /\ ops < MaxOps /\ Valid(o)
    /\ op' = o /\ k' = 1 /\ mode' = "run" /\ ops' = ops + 1
    /\ before' = st /\ last' = [op |-> "none", end |-> "none"]
    /\ UNCHANGED <<st, mem, allBack, upload, torn, faults>>

-----------------------------------------------------------------------------
(* Requests: a project, a migration into it, the upload of its source.     *)

Serve(s) ==
    /\ st' = s
    /\ UNCHANGED <<op, k, mode, mem, allBack, before, last, torn, ops, faults>>

CreateProject ==
    /\ mode = "idle" /\ st.project = "none"
    /\ Serve([st EXCEPT !.project = "provisioning"])
    /\ UNCHANGED upload

CreateMigration ==
    /\ mode = "idle" /\ st.mig = "none" /\ st.project \notin {"none", "deleted"}
    /\ Serve([st EXCEPT !.mig = "discovering"])
    /\ UNCHANGED upload

\* UploadSource: the status is read, the archive written, the status set.
UploadCheck ==
    /\ upload = "none" /\ st.archive < MaxUploads
    /\ st.mig \in {"discovering", "planned", "preflight_failed"}
    /\ upload' = "checked"
    /\ Serve(st)
UploadWrite ==
    /\ upload = "checked" /\ upload' = "written"
    /\ Serve([st EXCEPT !.archive = @ + 1])
UploadRecord ==
    /\ upload = "written" /\ upload' = "none"
    /\ Serve([st EXCEPT !.mig = "discovering", !.ref = TRUE])

-----------------------------------------------------------------------------
(* project.provision                                                       *)

Status(s) == [st EXCEPT !.project = s]

ValidateProject ==
    \/ At("validate-project") /\ (Done(Status("provisioning"), mem) \/ Fails(st, mem))
    \/ Undo("validate-project", Status("failed"), {st})

PrepareWorkspace ==
    \/ /\ At("prepare-workspace")
       /\ LET made == [st EXCEPT !.site.index = "old"] IN Done(made, mem) \/ Fails(made, mem)
    \/ Undo("prepare-workspace",
            [st EXCEPT !.site.index = "none", !.site.plugin = "none"], {st})

\* The database dropped, and what is left of its row and of its password.
Dropped(row, kept) == [st EXCEPT !.site.data = "none", !.dbRow = row, !.secret = kept]

\* EnsureDatabase sends CREATE DATABASE, CREATE USER and GRANT: a failure after
\* the first leaves a database that the run does not know it created.  The Undo
\* drops the error of deleting the row, which then stays.
MadeDatabase == [st EXCEPT !.site.data = "old"]
CreateDatabase ==
    \/ /\ At("create-database")
       /\ \/ st.site.data # "none" /\ Done(st, mem)
          \/ /\ st.site.data = "none"
             /\ \/ Done([MadeDatabase EXCEPT !.secret = TRUE, !.dbRow = TRUE],
                        [mem EXCEPT !.db = TRUE, !.pw = TRUE])
                \/ Fails(st, mem)
                \/ Fails(MadeDatabase, mem)
                \/ Fails(MadeDatabase, [mem EXCEPT !.db = TRUE])
                \/ Fails([MadeDatabase EXCEPT !.secret = TRUE], [mem EXCEPT !.db = TRUE])
    \/ /\ ~mem.db
       /\ Undo("create-database", st, {})
    \/ /\ mem.db
       /\ \/ Undo("create-database", Dropped(FALSE, FALSE),
                  {st, Dropped(FALSE, st.secret), Dropped(st.dbRow, st.secret)})
          \/ Undoing("create-database") /\ Unseen(Dropped(st.dbRow, FALSE))

\* containerSpec needs the password of the database: the one this run generated,
\* or else the stored one.
SpecKnown == mem.pw \/ st.secret

\* Create of the provider: create, then inspect.  An error of the inspection
\* leaves a container the run does not know it created.
Created == [st EXCEPT !.ctr = "stopped", !.image = st.cfgImage]
CreateContainer ==
    \/ /\ At("create-container")
       /\ \/ ~SpecKnown /\ Refuses
          \/ SpecKnown /\ st.ctr # "none" /\ st.image = st.cfgImage /\ Done(st, mem)
          \/ SpecKnown /\ st.ctr # "none" /\ st.image # st.cfgImage /\ Refuses
          \/ /\ SpecKnown /\ st.ctr = "none"
             /\ Done(Created, [mem EXCEPT !.ctr = TRUE]) \/ Fails(st, mem) \/ Fails(Created, mem)
    \/ ~mem.ctr /\ Undo("create-container", st, {})
    \/ mem.ctr /\ Undo("create-container", [st EXCEPT !.ctr = "none"], {st})

Stopped == [st EXCEPT !.ctr = IF @ = "none" THEN "none" ELSE "stopped"]
StartContainer ==
    \/ /\ At("start-container")
       /\ Done([st EXCEPT !.ctr = "running"], mem) \/ Fails(st, mem)
    \/ Undo("start-container", Stopped, {st})

HealthCheck == At("health-check") /\ (Done(st, mem) \/ Fails(st, mem))

RegisterApplication ==
    \/ At("register-application") /\ (Done([st EXCEPT !.app = TRUE], mem) \/ Fails(st, mem))
    \/ Undo("register-application", [st EXCEPT !.app = FALSE], {st})

ActivateProject ==
    \/ At("activate-project") /\ (Done(Status("active"), mem) \/ Fails(st, mem))
    \/ Undo("activate-project", Status("failed"), {st})

ProvisionStep ==
    \/ ValidateProject \/ PrepareWorkspace \/ CreateDatabase \/ CreateContainer
    \/ StartContainer \/ HealthCheck \/ RegisterApplication \/ ActivateProject

-----------------------------------------------------------------------------
(* wordpress.clone: the steps around those of project.provision.           *)

\* Create inserts the row and then reads it back.
CloneProject ==
    \/ /\ At("create-clone-project")
       /\ LET made == Status("provisioning") IN
          Done(made, [mem EXCEPT !.id = TRUE]) \/ Fails(st, mem) \/ Fails(made, mem)
    \/ Undo("create-clone-project", IF mem.id THEN Status("deleted") ELSE st,
            IF mem.id THEN {st} ELSE {})

CloneFiles == At("clone-files") /\ (Done(st, mem) \/ Fails(st, mem))
CloneDatabase ==
    /\ At("clone-database")
    /\ \/ ~st.dbRow /\ Refuses
       \/ st.dbRow /\ (Done(st, mem) \/ Fails([st EXCEPT !.site.data = "mixed"], mem))
RestartClone == At("restart-clone") /\ (Done([st EXCEPT !.ctr = "running"], mem) \/ Fails(st, mem))

CloneStep == CloneProject \/ CloneFiles \/ CloneDatabase \/ RestartClone

-----------------------------------------------------------------------------
(* project.delete: forward only, no step has an Undo.                      *)

MarkDeleting == At("mark-deleting") /\ (Done(Status("deleting"), mem) \/ Fails(st, mem))

\* Mutant: only the containers that are registered as applications.
RemovedRegistered == [st EXCEPT !.ctr = IF st.app THEN "none" ELSE @]

\* The registered names and the deterministic one.
Removed == [st EXCEPT !.ctr = "none"]
RemoveContainer == At("remove-container") /\ (Done(Removed, mem) \/ Fails(st, mem))

\* Only the databases that project_databases lists, as far as the rows were
\* read (rows.Err is not looked at).  An error of deleting the password is
\* dropped, and the password stays.
DropDatabase ==
    /\ At("drop-database")
    /\ \/ Fails(st, mem)
       \/ ~st.dbRow /\ Done(st, mem)
       \/ /\ st.dbRow
          /\ \/ Done(Dropped(FALSE, FALSE), mem)
             \/ Unseen(st) \/ Unseen(Dropped(FALSE, st.secret))
             \/ Fails(Dropped(TRUE, FALSE), mem) \/ Fails(Dropped(TRUE, st.secret), mem)

RemoveWorkspace ==
    /\ At("remove-workspace")
    /\ \/ Done([st EXCEPT !.site.index = "none", !.site.plugin = "none"], mem)
       \/ Fails([st EXCEPT !.site.plugin = "none"], mem)

RemoveRecords ==
    /\ At("remove-records")
    /\ LET removed == [st EXCEPT !.app = FALSE] IN
       Done([removed EXCEPT !.project = "deleted"], mem) \/ Fails(st, mem) \/ Fails(removed, mem)

DeleteStep == MarkDeleting \/ RemoveContainer \/ DropDatabase \/ RemoveWorkspace \/ RemoveRecords

-----------------------------------------------------------------------------
(* Restoring a backup puts back what the archive holds and removes nothing *)
(* else.                                                                   *)

RestoredSite(live, b) ==
    [index  |-> IF b.index = "none" THEN live.index ELSE b.index,
     plugin |-> IF b.plugin = "none" THEN live.plugin ELSE b.plugin,
     data   |-> IF b.data = "none" \/ ~st.dbRow THEN live.data ELSE b.data]
Restored(b) == [st EXCEPT !.site = RestoredSite(@, b)]
HalfRestored(b) ==
    LET restored == RestoredSite(st.site, b) IN
    {st, [st EXCEPT !.site = IF st.dbRow THEN [restored EXCEPT !.data = "mixed"] ELSE restored]}

\* A full backup dumps the database that project_databases lists.
Snapshottable == st.dbRow => st.site.data # "none"

-----------------------------------------------------------------------------
(* wordpress.update, to image 2.                                           *)

UpdateBackup ==
    /\ At("update-backup")
    /\ \/ ~Snapshottable /\ Refuses
       \/ Snapshottable /\ (Done(st, [mem EXCEPT !.safety = st.site]) \/ Fails(st, mem))

CaptureSpec ==
    /\ At("capture-current-spec")
    /\ \/ ~st.secret /\ Refuses
       \/ st.secret /\ (Done(st, [mem EXCEPT !.spec = st.cfgImage]) \/ Fails(st, mem))

\* recreate: Remove, Create, Start; the states it passes through.
Recreated(image) == [st EXCEPT !.ctr = "running", !.image = image]
HalfRecreated(image) ==
    {st, [st EXCEPT !.ctr = "none"], [st EXCEPT !.ctr = "stopped", !.image = image]}

\* Mutant: the previous image is read again when the update is undone.
OldImageReread == 2

\* The image of the spec captured before the container was replaced.
OldImage == mem.spec

ReplaceContainer ==
    \/ /\ At("replace-container")
       /\ Done(Recreated(2), mem) \/ \E h \in HalfRecreated(2) : Fails(h, mem)
    \/ mem.spec = 0 /\ Undo("replace-container", st, {})
    \/ /\ mem.spec # 0
       /\ LET back == [Recreated(OldImage) EXCEPT !.site = RestoredSite(@, mem.safety)]
          IN Undo("replace-container", back,
                  HalfRecreated(OldImage) \cup {[back EXCEPT !.site.data = "mixed"]})

UpdateHealth == At("update-health") /\ (Done(st, mem) \/ Fails(st, mem))
Record == At("record") /\ (Done([st EXCEPT !.cfgImage = 2], mem) \/ Fails(st, mem))

UpdateStep == UpdateBackup \/ CaptureSpec \/ ReplaceContainer \/ UpdateHealth \/ Record

-----------------------------------------------------------------------------
(* migration.plan and migration.run                                        *)

\* The archive, if the row Validate read had one.
Discovery ==
    /\ At("discovery")
    /\ Done(st, [mem EXCEPT !.found = IF before.ref THEN st.archive ELSE 0])

\* The report is about the archive that was discovered; the archive may also
\* be one that cannot be migrated.
Preflight ==
    /\ At("preflight")
    /\ LET report(status) == [st EXCEPT !.mig = status, !.planned = mem.found] IN
       \/ mem.found > 0 /\ st.project = "active" /\ Done(report("planned"), mem)
       \/ Done(report("preflight_failed"), mem)
       \/ Fails(st, mem)

MarkRunning ==
    \/ At("mark-running") /\ (Done(SetMig(st, "transferring"), mem) \/ Unwritten(st))
    \/ Undo("mark-running", SetMig(st, "failed"), {})
    \/ Undoing("mark-running") /\ Unwritten(st)

\* Mutant: the staged files stay.
StagedStill == st

\* Undo of transfer-files.
Unstaged == [st EXCEPT !.stage = 0]

TransferFiles ==
    \/ /\ At("transfer-files")
       /\ LET staged == [st EXCEPT !.stage = st.archive] IN
          \/ Done(SetMig(staged, "importing"), mem) \/ Unwritten(staged)
          \/ Fails(st, mem) \/ Fails(staged, mem)
    \/ Undo("transfer-files", Unstaged, {st})

CreateStagingDatabase ==
    \/ /\ At("create-staging-database")
       /\ LET made == [st EXCEPT !.sdb = IF @ = "none" THEN "empty" ELSE @]
          IN Done(made, mem) \/ Fails(st, mem) \/ Fails(made, mem)
    \/ Undo("create-staging-database", [st EXCEPT !.sdb = "none"], {st})

ImportDatabase ==
    /\ At("import-database")
    /\ LET loaded == [st EXCEPT !.sdb = "loaded"] IN
       Done(SetMig(loaded, "importing"), mem) \/ Unwritten(loaded)
       \/ Fails(SetMig(st, "importing"), mem)

\* An error of the dump, or blocking problems found in it.
ValidateRun ==
    /\ At("validate")
    /\ Done(SetMig(st, "validating"), mem) \/ Unwritten(st) \/ Fails(SetMig(st, "validating"), mem)

Ready == At("ready") /\ (Done(SetMig(st, "ready_for_cutover"), mem) \/ Unwritten(st))

RunStep ==
    \/ Discovery \/ Preflight \/ MarkRunning \/ TransferFiles
    \/ CreateStagingDatabase \/ ImportDatabase \/ ValidateRun \/ Ready

-----------------------------------------------------------------------------
(* migration.cutover and migration.rollback                                *)

\* Undo of begin: whatever the Undo of swap-files did.
Unbegun(s) == SetMig(s, "ready_for_cutover")
Begin ==
    \/ /\ At("begin")
       /\ \/ (~st.dbRow \/ st.project = "deleted") /\ Refuses
          \/ /\ st.dbRow /\ st.project # "deleted"
             /\ Done(SetMig(st, "cutting_over"), mem) \/ Unwritten(st) \/ Fails(st, mem)
    \/ Undo("begin", Unbegun(st), {})
    \/ Undoing("begin") /\ Unwritten(st)

SafetyBackup ==
    /\ At("safety-backup")
    /\ LET taken == [mem EXCEPT !.safety = st.site] IN
       \/ ~Snapshottable /\ Refuses
       \/ Snapshottable /\ (Done([st EXCEPT !.safety = st.site], taken)
                            \/ Fails(st, mem) \/ Fails(st, taken))

NewFiles == [st EXCEPT !.site.index = "new", !.site.plugin = "new"]

\* restore of the cutover: RestoreNow of the safety backup.
SafetyRestored(b) == Restored(b)

\* The live tree is removed, then the staged one copied file by file.
SwapFiles ==
    \/ /\ At("swap-files")
       /\ \/ Done(NewFiles, mem)
          \/ Fails(st, mem)
          \/ \E i \in {"none", "new"} :
                Fails([st EXCEPT !.site.index = i, !.site.plugin = "none"], mem)
    \/ mem.safety = NoSite /\ Undo("swap-files", st, {})
    \/ /\ mem.safety # NoSite
       /\ Undo("swap-files", SafetyRestored(mem.safety), HalfRestored(mem.safety))

SwapDatabase ==
    /\ At("swap-database")
    /\ \/ st.sdb # "loaded" /\ Refuses
       \/ /\ st.sdb = "loaded"
          /\ \/ Done([st EXCEPT !.site.data = "new"], mem)
             \/ Fails(st, mem) \/ Fails([st EXCEPT !.site.data = "mixed"], mem)

RestartVerify ==
    /\ At("restart-and-verify")
    /\ Done([st EXCEPT !.ctr = IF @ = "none" THEN @ ELSE "running"], mem) \/ Fails(st, mem)

\* Dropping the staging database and the staged files may fail unseen.
Finalize ==
    /\ At("finalize")
    /\ LET cleared == [st EXCEPT !.stage = 0, !.sdb = "none"] IN
       \/ Done(SetMig(cleared, "completed"), mem)
       \/ Unwritten(cleared) \/ Unwritten(SetMig(st, "completed"))
       \/ Fails(st, mem)

RestoreSafetyBackup ==
    /\ At("restore-safety-backup")
    /\ \/ Done(SetMig(Restored(st.safety), "rolled_back"), mem)
       \/ Unwritten(Restored(st.safety))
       \/ \E h \in HalfRestored(st.safety) : Fails(h, mem)

CutoverStep ==
    \/ Begin \/ SafetyBackup \/ SwapFiles \/ SwapDatabase \/ RestartVerify \/ Finalize
    \/ RestoreSafetyBackup

-----------------------------------------------------------------------------
SiteStep ==
    \/ CreateProject \/ CreateMigration \/ UploadCheck \/ UploadWrite \/ UploadRecord
    \/ \E o \in DOMAIN Steps : Start(o)
    \/ ProvisionStep \/ CloneStep \/ DeleteStep \/ UpdateStep \/ RunStep \/ CutoverStep
    \/ SkipUndo \/ Succeed \/ RolledBack \/ Cancel \/ SitesCrash

RollbackFails == At("restore-safety-backup") /\ mode' = "undo"

SitesNext ==
    /\ SiteStep
    /\ spoilt' = (spoilt \/ (RollbackFails /\ st'.site.data = "mixed"))

SitesSpec == SitesInit /\ [][SitesNext]_siteVars

-----------------------------------------------------------------------------
(* Properties.                                                             *)

\* A project that is 'active' with no operation under way has its files, its
\* database and the password of it, its registration and a running container
\* of the image its configuration names, whatever failed and was undone; only
\* where a migration.rollback has failed is the data ever mixed, and then the
\* migration still names a backup that holds a database.
ActiveIsWhole ==
    (mode = "idle" /\ st.project = "active" /\ ~torn) =>
        /\ st.site.index # "none" /\ st.site.data # "none"
        /\ st.site.data = "mixed" => spoilt /\ st.safety.data # "none"
        /\ st.secret /\ st.dbRow /\ st.app
        /\ st.ctr = "running" /\ st.image = st.cfgImage

\* An operation that was rolled back has put back what it changed: a cutover
\* every file the site had and its data, an update the image, a run what it
\* staged itself.
UndoneIsRestored ==
    (mode = "idle" /\ last.end = "rolled_back" /\ ~torn) =>
        /\ last.op \in {"cutover", "update"} =>
              /\ st.site.data = before.site.data
              /\ before.site.index # "none" => st.site.index = before.site.index
              /\ st.image = before.image
        /\ last.op \in {"plan", "run"} => st.site = before.site
        /\ last.op = "run" => st.stage \in {0, before.stage} /\ st.sdb \in {"none", before.sdb}

\* A deletion that succeeded, and a clone that was undone, leave no container
\* running, no files and no registration, and the clone no password.  The rest
\* is not promised, for the steps do not look whether it went: a deletion may
\* leave the database and its password (drop-database drops the errors of
\* reading the rows and of deleting the password), a clone the row of its
\* database, or a database that create-database did not know it had made.
DeletedLeavesNothing ==
    ( /\ mode = "idle" /\ ~torn
      /\ last \in {[op |-> "delete", end |-> "succeeded"], [op |-> "clone", end |-> "rolled_back"]} ) =>
        /\ st.site.index = "none" /\ st.site.plugin = "none" /\ ~st.app
        /\ st.ctr # "running" /\ (last.op = "delete" => st.ctr = "none")
        /\ last.op = "clone" => ~st.secret

\* What the comment on deleteProject.Steps says, and the code does not do: a
\* failure leaves the project in 'failed' for an operator to retry.  Whatever
\* status a failed deletion leaves must be one that Validate accepts.
FailedDeletionIsRetryable ==
    (mode = "idle" /\ last.op = "delete" /\ last.end # "succeeded") => ValidDelete

\* What docs/DISASTER-TESTS.md expects when MariaDB stops during a provisioning,
\* and the code does not do: rolled back step by step, the attempt leaves no
\* database and no row of one where there was none.
UndoneBuildLeavesNoDatabase ==
    ( /\ mode = "idle" /\ ~torn
      /\ last = [op |-> "provision", end |-> "rolled_back"]
      /\ before.site.data = "none" /\ ~before.dbRow ) =>
        st.site.data = "none" /\ ~st.dbRow

=============================================================================
