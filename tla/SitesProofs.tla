----------------------------- MODULE SitesProofs -----------------------------
(***************************************************************************)
(* Proofs about Sites, for any number of uploads, operations and faults:   *)
(* as long as no crash, no failed Undo and no unwritten status has torn    *)
(* the project, an active one is whole, an operation that was undone has   *)
(* put back what it changed, and a deletion leaves nothing that serves.    *)
(*                                                                         *)
(* None of the three is inductive: they speak of a project between two     *)
(* operations, and hold there because of what each operation has made or   *)
(* undone at each of its steps.  Sound says that, one operator for every   *)
(* operation (BuildFits for provision and clone, DeleteFits, UpdateFits,   *)
(* PlanFits, RunFits, CutoverFits, RollbackFits) over the direction the    *)
(* run goes in, the step it is at, the state, what the run remembers and   *)
(* the state it found, and Rest for a project at rest.                     *)
(***************************************************************************)
EXTENDS Sites, SequenceTheorems, TLAPS

\* The statuses of a migration that was planned, for a project that was active.
Later == MigrationStatuses \ {"none", "discovering", "preflight_failed"}
Built == {"active", "deleting", "deleted"}

\* What Bare and Whole say of a project's state: nothing of it is on the host
\* that could serve, or everything is.
Bare(s) ==
    /\ ~s.secret /\ ~s.app
    /\ s.site.index = "none" /\ s.site.plugin = "none" /\ s.site.data \in {"none", "old"}
    /\ s.ctr # "running" /\ (s.ctr # "none" => s.image = s.cfgImage)
    /\ s.safety = NoSite
Whole(s) ==
    /\ s.secret /\ s.dbRow /\ s.app /\ s.ctr = "running" /\ s.image = s.cfgImage
    /\ s.site.index # "none" /\ s.site.data # "none"

\* A project at rest: one not yet built has nothing but a database that create-database
\* did not know of, or the row that its Undo could not delete, and no migration is
\* planned for it; an active one has everything; mixed data is there only after a
\* migration.rollback failed, and the backup that the migration names holds a site.
Rest(s, sp) ==
    /\ s.project \in {"none", "provisioning", "failed"} => Bare(s) /\ s.mig \notin Later
    /\ s.project = "active" => Whole(s)
    /\ s.site.data = "mixed" => sp /\ s.safety # NoSite
    /\ s.safety # NoSite => s.safety.data # "none"
    /\ s.safety.data = "mixed" => sp

\* What provisioning has made before its step j (provisioning.go): the workspace,
\* the database with its password, the container, the registration, in this order.
BuildRuns(j, s, m) ==
    /\ s.project \in IF j = 0 THEN {"none"} ELSE IF j = 1 THEN {"provisioning", "failed"}
                     ELSE IF j <= 8 THEN {"provisioning"} ELSE {"active"}
    /\ s.site.index = IF j <= 2 THEN "none" ELSE "old"
    /\ s.site.data \in {"none", "old"} /\ (j >= 4 => s.site.data = "old")
    /\ j <= 3 => ~s.secret /\ ~m.db /\ ~m.pw
    /\ j >= 4 => (m.db <=> s.secret) /\ (m.db => s.dbRow) /\ (m.db <=> m.pw)
    /\ j >= 5 => m.db /\ s.ctr # "none"
    /\ IF j <= 5 THEN s.ctr # "running" ELSE s.ctr = "running"
    /\ s.app <=> j >= 8

\* What is left of it when the Undos of the steps above j have run.
BuildUndoes(j, s, m) ==
    /\ j <= 7 => s.project # "active"
    /\ j <= 6 => ~s.app
    /\ j <= 4 => s.ctr # "running"
    /\ s.site.data # "new"
    /\ j <= 2 \/ ~m.db => ~s.secret /\ s.site.data # "mixed"
    /\ j <= 1 => s.site.index = "none"

\* A run that builds a project, forward or backward.
BuildFits(md, j, s, m) ==
    /\ s.safety = NoSite /\ s.site.plugin = "none" /\ s.mig \notin Later /\ (s.ctr # "none" => s.image = s.cfgImage)
    /\ md = "run" => BuildRuns(j, s, m)
    /\ md = "undo" => BuildUndoes(j, s, m)

\* project.delete: before its step i the steps above have removed their part; a
\* step that fails ends it with the project at rest, for nothing of it is undone.
DeleteFits(md, i, s, sp) ==
    /\ Rest(s, sp)
    /\ md = "run" =>
        /\ i \in 2..5 => s.project = "deleting"
        /\ i >= 3 => s.ctr = "none"
        /\ i >= 5 => s.site.index = "none" /\ s.site.plugin = "none"
        /\ i = 6 => ~s.app /\ s.project = "deleted"

\* wordpress.update: the image changes at step 3, the configuration at step 5, and
\* the Undos put back what the run remembers of both.
UpdateFits(md, i, s, m, b, sp) ==
    /\ Rest(b, sp) /\ b.project = "active" /\ s.project = "active"
    /\ s.secret /\ s.dbRow /\ s.app /\ s.site = b.site /\ s.safety = b.safety
    /\ md = "run" =>
        /\ i >= 2 => m.safety = b.site
        /\ i >= 3 => m.spec = b.cfgImage
        /\ s.ctr = "running" /\ s.image = (IF i <= 3 THEN b.image ELSE 2)
        /\ s.cfgImage = IF i <= 5 THEN b.cfgImage ELSE 2
    /\ md = "undo" =>
        /\ s.cfgImage = b.cfgImage
        /\ i >= 3 => m.safety = b.site /\ m.spec = b.cfgImage
        /\ i <= 2 => s.ctr = "running" /\ s.image = b.image

\* migration.plan reads the site and changes none of it.
PlanFits(s, b, sp) == Rest(s, sp) /\ s.site = b.site

\* migration.run: what is staged is its own from step 2, the database from step 3,
\* and gone again once the Undo of that step has run.
RunFits(md, i, s, b, sp) ==
    /\ PlanFits(s, b, sp) /\ s.project \in Built
    /\ md = "run" /\ i <= 2 => s.stage = b.stage
    /\ md = "run" /\ i <= 3 => s.sdb = b.sdb
    /\ md = "undo" /\ i <= 1 => s.stage \in {0, b.stage}
    /\ md = "undo" /\ i <= 2 => s.sdb \in {"none", b.sdb}

\* What a cutover leaves of the project as it found it: all but the site, the
\* backup and a container that it starts.
Owned(s, b) ==
    /\ s.project = b.project /\ s.secret = b.secret /\ s.dbRow = b.dbRow /\ s.app = b.app
    /\ s.image = b.image /\ s.cfgImage = b.cfgImage
    /\ s.ctr = b.ctr \/ (s.ctr = "running" /\ b.ctr # "none")

\* migration.cutover: the backup taken at step 2 holds the site as it was found, so
\* that the Undos of the swaps can put it back.
CutoverFits(md, i, s, m, b, sp) ==
    /\ Rest(b, sp) /\ Owned(s, b)
    /\ s.safety = b.safety \/ (s.safety = b.site /\ b.dbRow /\ b.site.data # "none")
    /\ IF md = "run" THEN i <= 3 => s.site = b.site
       ELSE i <= 2 => /\ b.site.index # "none" => s.site.index = b.site.index
                      /\ s.site.data = b.site.data
    /\ ~b.dbRow => s.site = b.site /\ s.ctr = b.ctr
    /\ b.project \in Built
    /\ (md = "run" /\ i >= 2) \/ (md = "undo" /\ i >= 3) => b.dbRow /\ b.project # "deleted"
    /\ i >= 3 => m.safety = b.site /\ s.safety = b.site /\ b.site.data # "none"
    /\ md = "run" /\ i >= 4 => s.site.index = "new" /\ s.site.plugin = "new"
    /\ md = "run" /\ i = 4 => s.site.data = b.site.data
    /\ md = "run" /\ i >= 5 => s.site.data = "new"

\* migration.rollback, which needs the backup of a cutover.
RollbackFits(s, sp) == Rest(s, sp) /\ s.safety # NoSite

\* What holds in the middle of an operation.
OpFits(o, md, i, s, m, b, sp) ==
    /\ o = "provision" => BuildFits(md, i, s, m)
    /\ o = "clone" => BuildFits(md, i - 1, s, m)
    /\ o = "delete" => DeleteFits(md, i, s, sp)
    /\ o = "update" => UpdateFits(md, i, s, m, b, sp)
    /\ o = "plan" => PlanFits(s, b, sp)
    /\ o = "run" => RunFits(md, i, s, b, sp)
    /\ o = "cutover" => CutoverFits(md, i, s, m, b, sp)
    /\ o = "rollback" => RollbackFits(s, sp)

\* Where a run can be.
Placed ==
    /\ mode = "idle" <=> op = "none"
    /\ mode = "idle" => k = 0 /\ mem = NoMemory
    /\ mode = "run" => k \in 1..(Len(Steps[op]) + 1)
    /\ mode = "undo" => k \in 0..Len(Steps[op])
    /\ upload = "checked" => st.archive < MaxUploads

\* What holds of a project that nothing has torn.
Sound ==
    ~torn =>
        /\ allBack
        /\ mode = "idle" =>
              Rest(st, spoilt) /\ UndoneIsRestored /\ DeletedLeavesNothing
        /\ mode # "idle" => OpFits(op, mode, k, st, mem, before, spoilt)

-----------------------------------------------------------------------------
(* The step lists, written out.                                            *)

\* The steps of every operation.
LEMMA StepsWritten ==
    /\ DOMAIN Steps = {"provision", "clone", "delete", "update", "plan", "run", "cutover", "rollback"}
    /\ Steps["provision"] = Provision /\ Steps["delete"] =
         <<"mark-deleting", "remove-container", "drop-database", "remove-workspace", "remove-records">>
    /\ Steps["update"] =
         <<"update-backup", "capture-current-spec", "replace-container", "update-health", "record">>
    /\ Steps["plan"] = <<"discovery", "preflight">>
    /\ Steps["run"] =
         <<"mark-running", "transfer-files", "create-staging-database", "import-database",
           "validate", "ready">>
    /\ Steps["cutover"] = CutoverSteps
    /\ Steps["rollback"] = <<"restore-safety-backup">>
    /\ Steps["clone"] = <<"create-clone-project">> \o Provision
                        \o <<"clone-files", "clone-database", "restart-clone">>
  BY DEF Steps

\* The entries of a concatenation, read off its two parts.
LEMMA Glued ==
    ASSUME NEW S, NEW u \in Seq(S), NEW v \in Seq(S), NEW w, w = u \o v
    PROVE  /\ w \in Seq(S) /\ Len(w) = Len(u) + Len(v)
           /\ \A i \in 1..Len(u) : w[i] = u[i]
           /\ \A i \in 1..Len(v) : w[Len(u) + i] = v[i]
  <1>1. /\ u \o v \in Seq(S) /\ Len(u \o v) = Len(u) + Len(v)
        /\ \A i \in 1..(Len(u) + Len(v)) :
               (u \o v)[i] = IF i <= Len(u) THEN u[i] ELSE v[i - Len(u)]
    BY ConcatProperties, Zenon
  <1>2. /\ w \in Seq(S) /\ Len(w) = Len(u) + Len(v)
        /\ \A i \in 1..(Len(u) + Len(v)) :
               w[i] = IF i <= Len(u) THEN u[i] ELSE v[i - Len(u)]
    BY <1>1, Zenon
  <1>3. Len(u) \in Nat /\ Len(v) \in Nat
    OBVIOUS
  <1> QED
    BY <1>2, <1>3

\* The steps of wordpress.clone, one by one: those of provisioning between its own.
LEMMA CloneWritten ==
    /\ Len(Steps["clone"]) = 12
    /\ Steps["clone"][1] = "create-clone-project" /\ Steps["clone"][2] = "validate-project"
    /\ Steps["clone"][3] = "prepare-workspace" /\ Steps["clone"][4] = "create-database"
    /\ Steps["clone"][5] = "create-container" /\ Steps["clone"][6] = "start-container"
    /\ Steps["clone"][7] = "health-check" /\ Steps["clone"][8] = "register-application"
    /\ Steps["clone"][9] = "activate-project" /\ Steps["clone"][10] = "clone-files"
    /\ Steps["clone"][11] = "clone-database" /\ Steps["clone"][12] = "restart-clone"
  <1> DEFINE f == <<"create-clone-project">>
             g == <<"clone-files", "clone-database", "restart-clone">>
             N == {"create-clone-project", "validate-project", "prepare-workspace",
                   "create-database", "create-container", "start-container", "health-check",
                   "register-application", "activate-project", "clone-files",
                   "clone-database", "restart-clone"}
             h == f \o Provision
  <1>1. f \in Seq(N) /\ g \in Seq(N) /\ Provision \in Seq(N)
    BY DEF Provision
  <1>2. /\ Len(f) = 1 /\ f[1] = "create-clone-project" /\ Len(g) = 3
        /\ g[1] = "clone-files" /\ g[2] = "clone-database" /\ g[3] = "restart-clone"
    OBVIOUS
  <1>3. /\ Len(Provision) = 8 /\ Provision[1] = "validate-project"
        /\ Provision[2] = "prepare-workspace" /\ Provision[3] = "create-database"
        /\ Provision[4] = "create-container" /\ Provision[5] = "start-container"
        /\ Provision[6] = "health-check" /\ Provision[7] = "register-application"
        /\ Provision[8] = "activate-project"
    BY DEF Provision
  <1>4. Steps["clone"] = h \o g
    BY StepsWritten
  <1> HIDE DEF f, g, N
  <1>h. h = f \o Provision
    OBVIOUS
  <1> HIDE DEF h
  <1>5. /\ h \in Seq(N) /\ Len(h) = Len(f) + Len(Provision)
        /\ \A i \in 1..Len(f) : h[i] = f[i]
        /\ \A i \in 1..Len(Provision) : h[Len(f) + i] = Provision[i]
    BY <1>1, <1>h, Glued
  <1>s. h \in Seq(N)
    BY <1>5, Zenon
  <1>6. /\ Steps["clone"] \in Seq(N) /\ Len(Steps["clone"]) = Len(h) + Len(g)
        /\ \A i \in 1..Len(h) : Steps["clone"][i] = h[i]
        /\ \A i \in 1..Len(g) : Steps["clone"][Len(h) + i] = g[i]
    BY <1>1, <1>4, <1>s, Glued
  <1>7. Len(h) = 9 /\ Len(Steps["clone"]) = 12
    BY <1>2, <1>3, <1>5, <1>6
  <1>8. /\ h[1] = "create-clone-project" /\ h[1 + 1] = "validate-project"
        /\ h[1 + 2] = "prepare-workspace" /\ h[1 + 3] = "create-database"
        /\ h[1 + 4] = "create-container" /\ h[1 + 5] = "start-container"
        /\ h[1 + 6] = "health-check" /\ h[1 + 7] = "register-application"
        /\ h[1 + 8] = "activate-project"
    BY <1>2, <1>3, <1>5
  <1>9. /\ \A i \in 1..9 : Steps["clone"][i] = h[i]
        /\ Steps["clone"][9 + 1] = g[1] /\ Steps["clone"][9 + 2] = g[2]
        /\ Steps["clone"][9 + 3] = g[3]
    BY <1>2, <1>6, <1>7
  <1> QED
    BY <1>2, <1>7, <1>8, <1>9

\* How many steps an operation has.
LEMMA Lengths ==
    /\ Len(Steps["provision"]) = 8 /\ Len(Steps["clone"]) = 12 /\ Len(Steps["delete"]) = 5
    /\ Len(Steps["update"]) = 5 /\ Len(Steps["plan"]) = 2 /\ Len(Steps["run"]) = 6
    /\ Len(Steps["cutover"]) = 6 /\ Len(Steps["rollback"]) = 1
  BY StepsWritten, CloneWritten DEF Provision, CutoverSteps

\* Which steps of which operation a name stands for.
StepPlaces(n, o, i) ==
    /\ n = "validate-project" => (o = "provision" /\ i = 1) \/ (o = "clone" /\ i = 2)
    /\ n = "prepare-workspace" => (o = "provision" /\ i = 2) \/ (o = "clone" /\ i = 3)
    /\ n = "create-database" => (o = "provision" /\ i = 3) \/ (o = "clone" /\ i = 4)
    /\ n = "create-container" => (o = "provision" /\ i = 4) \/ (o = "clone" /\ i = 5)
    /\ n = "start-container" => (o = "provision" /\ i = 5) \/ (o = "clone" /\ i = 6)
    /\ n = "health-check" => (o = "provision" /\ i = 6) \/ (o = "clone" /\ i = 7)
    /\ n = "register-application" => (o = "provision" /\ i = 7) \/ (o = "clone" /\ i = 8)
    /\ n = "activate-project" => (o = "provision" /\ i = 8) \/ (o = "clone" /\ i = 9)
    /\ n = "create-clone-project" => o = "clone" /\ i = 1
    /\ n = "clone-files" => o = "clone" /\ i = 10
    /\ n = "clone-database" => o = "clone" /\ i = 11
    /\ n = "restart-clone" => o = "clone" /\ i = 12
    /\ n = "mark-deleting" => o = "delete" /\ i = 1
    /\ n = "remove-container" => o = "delete" /\ i = 2
    /\ n = "drop-database" => o = "delete" /\ i = 3
    /\ n = "remove-workspace" => o = "delete" /\ i = 4
    /\ n = "remove-records" => o = "delete" /\ i = 5
    /\ n = "update-backup" => o = "update" /\ i = 1
    /\ n = "capture-current-spec" => o = "update" /\ i = 2
    /\ n = "replace-container" => o = "update" /\ i = 3
    /\ n = "update-health" => o = "update" /\ i = 4
    /\ n = "record" => o = "update" /\ i = 5
    /\ n = "discovery" => o = "plan" /\ i = 1
    /\ n = "preflight" => o = "plan" /\ i = 2
    /\ n = "mark-running" => o = "run" /\ i = 1
    /\ n = "transfer-files" => o = "run" /\ i = 2
    /\ n = "create-staging-database" => o = "run" /\ i = 3
    /\ n = "import-database" => o = "run" /\ i = 4
    /\ n = "validate" => o = "run" /\ i = 5
    /\ n = "ready" => o = "run" /\ i = 6
    /\ n = "begin" => o = "cutover" /\ i = 1
    /\ n = "safety-backup" => o = "cutover" /\ i = 2
    /\ n = "swap-files" => o = "cutover" /\ i = 3
    /\ n = "swap-database" => o = "cutover" /\ i = 4
    /\ n = "restart-and-verify" => o = "cutover" /\ i = 5
    /\ n = "finalize" => o = "cutover" /\ i = 6
    /\ n = "restore-safety-backup" => o = "rollback" /\ i = 1

\* A step is at the place that its name stands for.
LEMMA PlacesOfSteps ==
    ASSUME NEW o \in DOMAIN Steps, NEW i \in 1..Len(Steps[o])
    PROVE  StepPlaces(Steps[o][i], o, i)
  <1>1. CASE o = "provision"
    <2>1. i \in 1..8
      BY <1>1, Lengths
    <2>2. /\ Steps[o][1] = "validate-project" /\ Steps[o][2] = "prepare-workspace"
          /\ Steps[o][3] = "create-database" /\ Steps[o][4] = "create-container"
          /\ Steps[o][5] = "start-container" /\ Steps[o][6] = "health-check"
          /\ Steps[o][7] = "register-application" /\ Steps[o][8] = "activate-project"
      BY <1>1, StepsWritten DEF Provision
    <2>3. CASE i = 1
      BY <1>1, <2>2, <2>3 DEF StepPlaces
    <2>4. CASE i = 2
      BY <1>1, <2>2, <2>4 DEF StepPlaces
    <2>5. CASE i = 3
      BY <1>1, <2>2, <2>5 DEF StepPlaces
    <2>6. CASE i = 4
      BY <1>1, <2>2, <2>6 DEF StepPlaces
    <2>7. CASE i = 5
      BY <1>1, <2>2, <2>7 DEF StepPlaces
    <2>8. CASE i = 6
      BY <1>1, <2>2, <2>8 DEF StepPlaces
    <2>9. CASE i = 7
      BY <1>1, <2>2, <2>9 DEF StepPlaces
    <2>10. CASE i = 8
      BY <1>1, <2>2, <2>10 DEF StepPlaces
    <2> QED
      BY <2>1, <2>3, <2>4, <2>5, <2>6, <2>7, <2>8, <2>9, <2>10
  <1>2. CASE o = "clone"
    <2>1. i \in 1..12
      BY <1>2, Lengths
    <2>2. /\ Steps[o][1] = "create-clone-project" /\ Steps[o][2] = "validate-project"
          /\ Steps[o][3] = "prepare-workspace" /\ Steps[o][4] = "create-database"
          /\ Steps[o][5] = "create-container" /\ Steps[o][6] = "start-container"
          /\ Steps[o][7] = "health-check" /\ Steps[o][8] = "register-application"
          /\ Steps[o][9] = "activate-project" /\ Steps[o][10] = "clone-files"
          /\ Steps[o][11] = "clone-database" /\ Steps[o][12] = "restart-clone"
      BY <1>2, CloneWritten
    <2>3. CASE i = 1
      BY <1>2, <2>2, <2>3 DEF StepPlaces
    <2>4. CASE i = 2
      BY <1>2, <2>2, <2>4 DEF StepPlaces
    <2>5. CASE i = 3
      BY <1>2, <2>2, <2>5 DEF StepPlaces
    <2>6. CASE i = 4
      BY <1>2, <2>2, <2>6 DEF StepPlaces
    <2>7. CASE i = 5
      BY <1>2, <2>2, <2>7 DEF StepPlaces
    <2>8. CASE i = 6
      BY <1>2, <2>2, <2>8 DEF StepPlaces
    <2>9. CASE i = 7
      BY <1>2, <2>2, <2>9 DEF StepPlaces
    <2>10. CASE i = 8
      BY <1>2, <2>2, <2>10 DEF StepPlaces
    <2>11. CASE i = 9
      BY <1>2, <2>2, <2>11 DEF StepPlaces
    <2>12. CASE i = 10
      BY <1>2, <2>2, <2>12 DEF StepPlaces
    <2>13. CASE i = 11
      BY <1>2, <2>2, <2>13 DEF StepPlaces
    <2>14. CASE i = 12
      BY <1>2, <2>2, <2>14 DEF StepPlaces
    <2> QED
      BY <2>1, <2>3, <2>4, <2>5, <2>6, <2>7, <2>8, <2>9, <2>10, <2>11, <2>12, <2>13, <2>14
  <1>3. CASE o = "delete"
    <2>1. i \in 1..5
      BY <1>3, Lengths
    <2>2. /\ Steps[o][1] = "mark-deleting" /\ Steps[o][2] = "remove-container"
          /\ Steps[o][3] = "drop-database" /\ Steps[o][4] = "remove-workspace"
          /\ Steps[o][5] = "remove-records"
      BY <1>3, StepsWritten
    <2> QED
      BY <1>3, <2>1, <2>2 DEF StepPlaces
  <1>4. CASE o = "update"
    <2>1. i \in 1..5
      BY <1>4, Lengths
    <2>2. /\ Steps[o][1] = "update-backup" /\ Steps[o][2] = "capture-current-spec"
          /\ Steps[o][3] = "replace-container" /\ Steps[o][4] = "update-health"
          /\ Steps[o][5] = "record"
      BY <1>4, StepsWritten
    <2> QED
      BY <1>4, <2>1, <2>2 DEF StepPlaces
  <1>5. CASE o = "plan"
    <2>1. i \in 1..2
      BY <1>5, Lengths
    <2>2. /\ Steps[o][1] = "discovery" /\ Steps[o][2] = "preflight"
      BY <1>5, StepsWritten
    <2> QED
      BY <1>5, <2>1, <2>2 DEF StepPlaces
  <1>6. CASE o = "run"
    <2>1. i \in 1..6
      BY <1>6, Lengths
    <2>2. /\ Steps[o][1] = "mark-running" /\ Steps[o][2] = "transfer-files"
          /\ Steps[o][3] = "create-staging-database" /\ Steps[o][4] = "import-database"
          /\ Steps[o][5] = "validate" /\ Steps[o][6] = "ready"
      BY <1>6, StepsWritten
    <2> QED
      BY <1>6, <2>1, <2>2 DEF StepPlaces
  <1>7. CASE o = "cutover"
    <2>1. i \in 1..6
      BY <1>7, Lengths
    <2>2. /\ Steps[o][1] = "begin" /\ Steps[o][2] = "safety-backup"
          /\ Steps[o][3] = "swap-files" /\ Steps[o][4] = "swap-database"
          /\ Steps[o][5] = "restart-and-verify" /\ Steps[o][6] = "finalize"
      BY <1>7, StepsWritten DEF CutoverSteps
    <2> QED
      BY <1>7, <2>1, <2>2 DEF StepPlaces
  <1>8. CASE o = "rollback"
    <2>1. i \in 1..1
      BY <1>8, Lengths
    <2>2. /\ Steps[o][1] = "restore-safety-backup"
      BY <1>8, StepsWritten
    <2> QED
      BY <1>8, <2>1, <2>2 DEF StepPlaces
  <1> QED
    BY StepsWritten, <1>1, <1>2, <1>3, <1>4, <1>5, <1>6, <1>7, <1>8

\* The steps that SkipUndo passes over.
LEMMA SkippedSteps ==
    ASSUME NEW o \in DOMAIN Steps, NEW i \in 1..Len(Steps[o]), Steps[o][i] \notin HasUndo
    PROVE  /\ o = "provision" => i = 6
           /\ o = "clone" => i \in {7, 10, 11, 12}
           /\ o = "update" => i # 3
           /\ o = "run" => i \notin 1..3
           /\ o = "cutover" => i \notin {1, 3}
  <1>1. ASSUME o = "provision" PROVE i \in 1..8 /\ i # 1 /\ i # 2 /\ i # 3 /\ i # 4 /\ i # 5 /\ i # 7 /\ i # 8
    <2>1. i \in 1..8
      BY <1>1, Lengths
    <2>2. Steps["provision"][1] \in HasUndo /\ Steps["provision"][2] \in HasUndo
          /\ Steps["provision"][3] \in HasUndo /\ Steps["provision"][4] \in HasUndo
          /\ Steps["provision"][5] \in HasUndo /\ Steps["provision"][7] \in HasUndo
          /\ Steps["provision"][8] \in HasUndo
      BY StepsWritten DEF HasUndo, Provision
    <2> QED
      BY <1>1, <2>1, <2>2
  <1>2. ASSUME o = "clone" PROVE i \in 1..12 /\ i # 1 /\ i # 2 /\ i # 3 /\ i # 4 /\ i # 5 /\ i # 6 /\ i # 8 /\ i # 9
    <2>1. i \in 1..12
      BY <1>2, Lengths
    <2>2. Steps["clone"][1] \in HasUndo /\ Steps["clone"][2] \in HasUndo
          /\ Steps["clone"][3] \in HasUndo /\ Steps["clone"][4] \in HasUndo
          /\ Steps["clone"][5] \in HasUndo /\ Steps["clone"][6] \in HasUndo
          /\ Steps["clone"][8] \in HasUndo /\ Steps["clone"][9] \in HasUndo
      BY CloneWritten DEF HasUndo
    <2> QED
      BY <1>2, <2>1, <2>2
  <1>3. ASSUME o = "update" PROVE i \in 1..5 /\ i # 3
    <2>1. i \in 1..5
      BY <1>3, Lengths
    <2>2. Steps["update"][3] \in HasUndo
      BY StepsWritten DEF HasUndo
    <2> QED
      BY <1>3, <2>1, <2>2
  <1>4. ASSUME o = "run" PROVE i \in 1..6 /\ i # 1 /\ i # 2 /\ i # 3
    <2>1. i \in 1..6
      BY <1>4, Lengths
    <2>2. Steps["run"][1] \in HasUndo /\ Steps["run"][2] \in HasUndo
          /\ Steps["run"][3] \in HasUndo
      BY StepsWritten DEF HasUndo
    <2> QED
      BY <1>4, <2>1, <2>2
  <1>5. ASSUME o = "cutover" PROVE i \in 1..6 /\ i # 1 /\ i # 3
    <2>1. i \in 1..6
      BY <1>5, Lengths
    <2>2. Steps["cutover"][1] \in HasUndo /\ Steps["cutover"][3] \in HasUndo
      BY StepsWritten DEF HasUndo, CutoverSteps
    <2> QED
      BY <1>5, <2>1, <2>2
  <1> QED
    BY <1>1, <1>2, <1>3, <1>4, <1>5

-----------------------------------------------------------------------------
(* Types.                                                                  *)

\* The type invariant made inductive.
TypeInv == SitesTypeOK /\ Placed

\* s can follow the current state while the upload request waits.
Legal(s) == s \in State /\ s.archive = st.archive

\* Every operation has steps, and at most twelve.
LEMMA OpLengths ==
    ASSUME op \in DOMAIN Steps
    PROVE  Len(Steps[op]) \in 1..12
  <1>1. op \in {"provision", "clone", "delete", "update", "plan", "run", "cutover", "rollback"}
    BY StepsWritten, Zenon
  <1> QED
    BY <1>1, Lengths

\* A place in a list of at most twelve steps.
LEMMA WithinTwelve ==
    ASSUME NEW l \in 1..12, NEW i \in 1..l
    PROVE  i \in 1..12
  OBVIOUS

\* A run that is under way belongs to an operation.
LEMMA BusyOp ==
    ASSUME TypeInv, mode # "idle"
    PROVE  op \in DOMAIN Steps /\ Len(Steps[op]) \in 1..12 /\ mode \in {"run", "undo"}
  BY OpLengths DEF TypeInv, SitesTypeOK, Placed

\* The fault counter, when a call fails.
LEMMA FaultCounted ==
    ASSUME SitesTypeOK, Fault
    PROVE  faults' \in 0..MaxFaults
  BY SitesAssumption DEF SitesTypeOK, Fault

\* A run starts out remembering nothing.
LEMMA NoMemoryTyped == NoSite \in Site /\ NoMemory \in Memory
  <1>1. NoSite \in Site
    BY DEF NoSite, Site, Contents
  <1>2. 0 \in Versions
    BY SitesAssumption DEF Versions
  <1> QED
    BY <1>1, <1>2 DEF NoMemory, Memory

\* A crash.
LEMMA DeathTyped ==
    ASSUME TypeInv, spoilt' \in BOOLEAN, st' \in State, faults' \in 0..MaxFaults, Dies
    PROVE  TypeInv'
  <1>1. SitesTypeOK'
    BY NoMemoryTyped DEF TypeInv, SitesTypeOK, Dies
  <1>2. Placed'
    BY StepsWritten DEF Dies, Placed
  <1> QED
    BY <1>1, <1>2 DEF TypeInv

\* The outcomes of a step.
LEMMA StepTyped ==
    ASSUME TypeInv, spoilt' \in BOOLEAN, NEW s, NEW m, Legal(s), m \in Memory,
           mode = "run", k <= Len(Steps[op]),
           Done(s, m) \/ Fails(s, m) \/ Unwritten(s) \/ Unseen(s) \/ Refuses
    PROVE  TypeInv'
  <1>0. op \in DOMAIN Steps /\ Len(Steps[op]) \in 1..12 /\ k \in 1..Len(Steps[op])
    BY BusyOp DEF TypeInv, Placed
  <1>1. op \in DOMAIN Steps /\ k \in 1..Len(Steps[op]) /\ k \in 1..12
    BY <1>0, WithinTwelve, Zenon
  <1>2. CASE Done(s, m)
    <2>0. k' \in 0..13
      BY <1>1, <1>2 DEF Done
    <2>1. SitesTypeOK'
      BY <1>2, <2>0, Zenon DEF TypeInv, SitesTypeOK, Done, Legal
    <2>2. Placed'
      BY <1>1, <1>2 DEF TypeInv, Placed, Done, Legal
    <2> QED
      BY <2>1, <2>2 DEF TypeInv
  <1>3. CASE Fails(s, m)
    <2>1. faults' \in 0..MaxFaults /\ st' = s
      BY <1>3, FaultCounted DEF TypeInv, Fails
    <2>2. CASE Dies
      BY <2>1, <2>2, DeathTyped DEF Legal
    <2>3. CASE ~Dies
      BY <1>1, <1>3, <2>1, <2>3 DEF TypeInv, SitesTypeOK, Placed, Fails, Legal
    <2> QED
      BY <2>2, <2>3
  <1>4. CASE Unwritten(s) \/ Unseen(s)
    <2>1. faults' \in 0..MaxFaults
      BY <1>4, FaultCounted DEF TypeInv, Unwritten, Unseen
    <2>2. k' \in 0..13
      BY <1>1, <1>4 DEF Unwritten, Unseen
    <2>3. SitesTypeOK'
      BY <1>4, <2>1, <2>2, Zenon DEF TypeInv, SitesTypeOK, Unwritten, Unseen, Legal
    <2>4. Placed'
      BY <1>1, <1>4 DEF TypeInv, Placed, Unwritten, Unseen, Legal
    <2> QED
      BY <2>3, <2>4 DEF TypeInv
  <1>5. CASE Refuses
    BY <1>1, <1>5 DEF TypeInv, SitesTypeOK, Placed, Refuses
  <1> QED
    BY <1>2, <1>3, <1>4, <1>5

\* The outcomes of an Undo.
LEMMA UndoTyped ==
    ASSUME TypeInv, spoilt' \in BOOLEAN, NEW s, Legal(s),
           mode = "undo", k >= 1, Undone(s) \/ UndoFails(s) \/ Unwritten(s) \/ Unseen(s)
    PROVE  TypeInv'
  <1>0. op \in DOMAIN Steps /\ Len(Steps[op]) \in 1..12 /\ k \in 1..Len(Steps[op])
    BY BusyOp DEF TypeInv, Placed
  <1>1. op \in DOMAIN Steps /\ k \in 1..Len(Steps[op]) /\ k \in 1..12
    BY <1>0, WithinTwelve, Zenon
  <1>2. CASE Undone(s)
    BY <1>1, <1>2 DEF TypeInv, SitesTypeOK, Placed, Undone, Legal
  <1>3. CASE UndoFails(s)
    <2>1. faults' \in 0..MaxFaults /\ st' = s
      BY <1>3, FaultCounted DEF TypeInv, UndoFails
    <2>2. CASE Dies
      BY <2>1, <2>2, DeathTyped DEF Legal
    <2>3. CASE ~Dies
      <3>1. k' \in 0..13
        BY <1>1, <1>3, <2>3 DEF UndoFails
      <3>2. SitesTypeOK'
        BY <1>3, <2>1, <2>3, <3>1, Zenon DEF TypeInv, SitesTypeOK, UndoFails, Legal
      <3>3. Placed'
        BY <1>1, <1>3, <2>3 DEF TypeInv, Placed, UndoFails, Legal
      <3> QED
        BY <3>2, <3>3 DEF TypeInv
    <2> QED
      BY <2>2, <2>3
  <1>4. CASE Unwritten(s) \/ Unseen(s)
    <2>1. faults' \in 0..MaxFaults
      BY <1>4, FaultCounted DEF TypeInv, Unwritten, Unseen
    <2>2. k' \in 0..13
      BY <1>1, <1>4 DEF Unwritten, Unseen
    <2>3. SitesTypeOK'
      BY <1>4, <2>1, <2>2, Zenon DEF TypeInv, SitesTypeOK, Unwritten, Unseen, Legal
    <2>4. Placed'
      BY <1>1, <1>4 DEF TypeInv, Placed, Unwritten, Unseen, Legal
    <2> QED
      BY <2>3, <2>4 DEF TypeInv
  <1> QED
    BY <1>2, <1>3, <1>4

\* The states the steps of a provisioning make.
LEMMA BuildLegal ==
    ASSUME st \in State
    PROVE  /\ Legal(st) /\ Legal(Stopped) /\ Legal(Created) /\ Legal(MadeDatabase)
           /\ \A v \in ProjectStatuses : Legal(Status(v))
           /\ Legal([st EXCEPT !.app = TRUE]) /\ Legal([st EXCEPT !.app = FALSE])
           /\ Legal([st EXCEPT !.site.index = "old"]) /\ Legal([st EXCEPT !.ctr = "none"])
           /\ Legal([st EXCEPT !.site.index = "none", !.site.plugin = "none"])
           /\ Legal([st EXCEPT !.ctr = "running"])
           /\ Legal([MadeDatabase EXCEPT !.secret = TRUE, !.dbRow = TRUE])
           /\ Legal([MadeDatabase EXCEPT !.secret = TRUE])
           /\ \A row, kept \in BOOLEAN : Legal(Dropped(row, kept))
           /\ Legal([st EXCEPT !.site.data = "mixed"])
  <1>1. Legal(st)
    BY DEF Legal
  <1>2. Legal(Stopped)
    BY DEF Legal, State, Stopped
  <1>3. Legal(Created)
    BY DEF Legal, State, Created
  <1>4. Legal(MadeDatabase)
    BY DEF Legal, State, Site, Contents, MadeDatabase
  <1>5. \A v \in ProjectStatuses : Legal(Status(v))
    BY DEF Legal, State, Status
  <1>6. Legal([st EXCEPT !.app = TRUE]) /\ Legal([st EXCEPT !.app = FALSE])
    BY DEF Legal, State
  <1>7. Legal([st EXCEPT !.site.index = "old"]) /\ Legal([st EXCEPT !.ctr = "none"])
    BY DEF Legal, State, Site, Contents
  <1>8. Legal([st EXCEPT !.site.index = "none", !.site.plugin = "none"])
    BY DEF Legal, State, Site, Contents
  <1>9. Legal([st EXCEPT !.ctr = "running"])
    BY DEF Legal, State
  <1>10. Legal([MadeDatabase EXCEPT !.secret = TRUE, !.dbRow = TRUE])
    BY <1>4 DEF Legal, State
  <1>11. Legal([MadeDatabase EXCEPT !.secret = TRUE])
    BY <1>4 DEF Legal, State
  <1>12. \A row, kept \in BOOLEAN : Legal(Dropped(row, kept))
    BY DEF Legal, State, Site, Contents, Dropped
  <1>13. Legal([st EXCEPT !.site.data = "mixed"])
    BY DEF Legal, State, Site, Contents
  <1> QED
    BY <1>1, <1>2, <1>3, <1>4, <1>5, <1>6, <1>7, <1>8, <1>9, <1>10, <1>11, <1>12, <1>13

\* What the steps of a run remember.
LEMMA MemoryLegal ==
    ASSUME mem \in Memory, st \in State
    PROVE  /\ [mem EXCEPT !.db = TRUE] \in Memory /\ [mem EXCEPT !.ctr = TRUE] \in Memory
           /\ [mem EXCEPT !.id = TRUE] \in Memory
           /\ [mem EXCEPT !.db = TRUE, !.pw = TRUE] \in Memory
           /\ [mem EXCEPT !.safety = st.site] \in Memory
           /\ [mem EXCEPT !.spec = st.cfgImage] \in Memory
           /\ \A v \in Versions : [mem EXCEPT !.found = v] \in Memory
  <1>1. /\ [mem EXCEPT !.db = TRUE] \in Memory /\ [mem EXCEPT !.ctr = TRUE] \in Memory
        /\ [mem EXCEPT !.id = TRUE] \in Memory
    BY DEF Memory
  <1>2. [mem EXCEPT !.db = TRUE, !.pw = TRUE] \in Memory
    BY DEF Memory
  <1>3. [mem EXCEPT !.safety = st.site] \in Memory
    BY DEF Memory, State
  <1>4. [mem EXCEPT !.spec = st.cfgImage] \in Memory
    BY DEF Memory, State
  <1>5. \A v \in Versions : [mem EXCEPT !.found = v] \in Memory
    BY DEF Memory
  <1> QED
    BY <1>1, <1>2, <1>3, <1>4, <1>5

\* StepTyped and UndoTyped, as the steps below use them.
LEMMA OutcomesTyped ==
    ASSUME TypeInv, spoilt' \in BOOLEAN
    PROVE  /\ \A n, s, m : At(n) /\ Legal(s) /\ m \in Memory /\ Done(s, m) => TypeInv'
           /\ \A n, s, m : At(n) /\ Legal(s) /\ m \in Memory /\ Fails(s, m) => TypeInv'
           /\ \A n, s : At(n) /\ Legal(s) /\ (Unwritten(s) \/ Unseen(s)) => TypeInv'
           /\ \A n : At(n) /\ Refuses => TypeInv'
           /\ \A n, s : Undoing(n) /\ Legal(s) /\ (Unwritten(s) \/ Unseen(s)) => TypeInv'
           /\ \A n, s, halves :
                 Undo(n, s, halves) /\ Legal(s) /\ (\A h \in halves : Legal(h)) => TypeInv'
  <1>1. Legal(st) /\ mem \in Memory
    BY DEF TypeInv, SitesTypeOK, Legal
  <1>2. \A n, s, m : At(n) /\ Legal(s) /\ m \in Memory /\ Done(s, m) => TypeInv'
    BY StepTyped DEF At
  <1>3. \A n, s, m : At(n) /\ Legal(s) /\ m \in Memory /\ Fails(s, m) => TypeInv'
    BY StepTyped DEF At
  <1>4. \A n, s : At(n) /\ Legal(s) /\ (Unwritten(s) \/ Unseen(s)) => TypeInv'
    BY <1>1, StepTyped DEF At
  <1>5. \A n : At(n) /\ Refuses => TypeInv'
    BY <1>1, StepTyped DEF At
  <1>6. \A n, s : Undoing(n) /\ Legal(s) /\ (Unwritten(s) \/ Unseen(s)) => TypeInv'
    BY UndoTyped DEF Undoing
  <1>7. \A n, s, halves :
           Undo(n, s, halves) /\ Legal(s) /\ (\A h \in halves : Legal(h)) => TypeInv'
    BY UndoTyped DEF Undo, Undoing
  <1> QED
    BY <1>2, <1>3, <1>4, <1>5, <1>6, <1>7

\* The building steps keep the types.
LEMMA ProvisionTyped ==
    ASSUME TypeInv, spoilt' \in BOOLEAN, ProvisionStep
    PROVE  TypeInv'
  <1>1. st \in State /\ mem \in Memory
    BY DEF TypeInv, SitesTypeOK
  <1>2. CASE ValidateProject
    BY <1>1, <1>2, BuildLegal, OutcomesTyped DEF ValidateProject, ProjectStatuses
  <1>3. CASE PrepareWorkspace
    BY <1>1, <1>3, BuildLegal, OutcomesTyped DEF PrepareWorkspace
  <1>4. CASE CreateDatabase
    <2>1. /\ Legal(Dropped(FALSE, FALSE)) /\ Legal(Dropped(FALSE, st.secret))
          /\ Legal(Dropped(st.dbRow, st.secret)) /\ Legal(Dropped(st.dbRow, FALSE))
      BY <1>1, BuildLegal DEF State
    <2>2. CASE At("create-database")
      BY <1>1, <1>4, <2>2, BuildLegal, MemoryLegal, OutcomesTyped
         DEF CreateDatabase, Undo, At, Undoing
    <2>3. CASE Undoing("create-database")
      <3> DEFINE halves == {st, Dropped(FALSE, st.secret), Dropped(st.dbRow, st.secret)}
      <3>1. \/ Undo("create-database", st, {})
            \/ Undo("create-database", Dropped(FALSE, FALSE), halves)
            \/ Unseen(Dropped(st.dbRow, FALSE))
        BY <1>4, <2>3 DEF CreateDatabase, At, Undoing
      <3>2. Legal(st) /\ \A h \in halves : Legal(h)
        BY <1>1, <2>1, BuildLegal
      <3> HIDE DEF halves
      <3>3. CASE Undo("create-database", st, {})
        BY <3>2, <3>3, OutcomesTyped
      <3>4. CASE Undo("create-database", Dropped(FALSE, FALSE), halves)
        BY <2>1, <3>2, <3>4, OutcomesTyped
      <3>5. CASE Unseen(Dropped(st.dbRow, FALSE))
        BY <2>1, <2>3, <3>5, OutcomesTyped
      <3> QED
        BY <3>1, <3>3, <3>4, <3>5
    <2> QED
      BY <1>4, <2>2, <2>3 DEF CreateDatabase, Undo
  <1>5. CASE CreateContainer
    BY <1>1, <1>5, BuildLegal, MemoryLegal, OutcomesTyped DEF CreateContainer
  <1>6. CASE StartContainer
    BY <1>1, <1>6, BuildLegal, OutcomesTyped DEF StartContainer
  <1>7. CASE HealthCheck
    BY <1>1, <1>7, BuildLegal, OutcomesTyped DEF HealthCheck
  <1>8. CASE RegisterApplication
    BY <1>1, <1>8, BuildLegal, OutcomesTyped DEF RegisterApplication
  <1>9. CASE ActivateProject
    BY <1>1, <1>9, BuildLegal, OutcomesTyped DEF ActivateProject, ProjectStatuses
  <1> QED
    BY <1>2, <1>3, <1>4, <1>5, <1>6, <1>7, <1>8, <1>9 DEF ProvisionStep

\* The steps of a clone around the building keep the types.
LEMMA CloneTyped ==
    ASSUME TypeInv, spoilt' \in BOOLEAN, CloneStep
    PROVE  TypeInv'
  <1>1. st \in State /\ mem \in Memory
    BY DEF TypeInv, SitesTypeOK
  <1>2. CASE CloneProject
    BY <1>1, <1>2, BuildLegal, MemoryLegal, OutcomesTyped DEF CloneProject, ProjectStatuses
  <1>3. CASE CloneFiles
    BY <1>1, <1>3, BuildLegal, OutcomesTyped DEF CloneFiles
  <1>4. CASE CloneDatabase
    BY <1>1, <1>4, BuildLegal, OutcomesTyped DEF CloneDatabase
  <1>5. CASE RestartClone
    BY <1>1, <1>5, BuildLegal, OutcomesTyped DEF RestartClone
  <1> QED
    BY <1>2, <1>3, <1>4, <1>5 DEF CloneStep

\* The steps of project.delete keep the types.
LEMMA DeleteTyped ==
    ASSUME TypeInv, spoilt' \in BOOLEAN, DeleteStep
    PROVE  TypeInv'
  <1> DEFINE removed == [st EXCEPT !.app = FALSE]
  <1>1. st \in State /\ mem \in Memory
    BY DEF TypeInv, SitesTypeOK
  <1>2. Legal(removed) /\ Legal(Removed)
    BY <1>1 DEF Legal, State, Site, Contents, Removed
  <1>3. Legal([removed EXCEPT !.project = "deleted"])
    <2> HIDE DEF removed
    <2>1. \A s \in State : /\ [s EXCEPT !.project = "deleted"] \in State
                           /\ [s EXCEPT !.project = "deleted"].archive = s.archive
      BY DEF State, ProjectStatuses
    <2> QED
      BY <1>2, <2>1 DEF Legal
  <1>4. Legal([st EXCEPT !.site.plugin = "none"])
    BY <1>1 DEF Legal, State, Site, Contents
  <1>5. CASE MarkDeleting
    BY <1>1, <1>5, BuildLegal, OutcomesTyped DEF MarkDeleting, ProjectStatuses
  <1>6. CASE RemoveContainer
    BY <1>1, <1>2, <1>6, BuildLegal, OutcomesTyped DEF RemoveContainer
  <1>7. CASE DropDatabase
    <2>1. \A row \in BOOLEAN, kept \in {FALSE, st.secret} : Legal(Dropped(row, kept))
      BY <1>1, BuildLegal DEF State
    <2> QED
      BY <1>1, <1>7, <2>1, BuildLegal, OutcomesTyped DEF DropDatabase
  <1>8. CASE RemoveWorkspace
    BY <1>1, <1>4, <1>8, BuildLegal, OutcomesTyped DEF RemoveWorkspace
  <1>9. CASE RemoveRecords
    BY <1>1, <1>2, <1>3, <1>9, BuildLegal, OutcomesTyped DEF RemoveRecords
  <1> QED
    BY <1>5, <1>6, <1>7, <1>8, <1>9 DEF DeleteStep

\* What restoring a backup makes of a site.
LEMMA RestoredTyped ==
    ASSUME st \in State, NEW b \in Site
    PROVE  /\ RestoredSite(st.site, b) \in Site /\ Legal(Restored(b))
           /\ \A h \in HalfRestored(b) : Legal(h)
  <1>1. st.site \in Site
    BY DEF State
  <1>2. RestoredSite(st.site, b) \in Site
    BY <1>1 DEF RestoredSite, Site
  <1>3. Legal(Restored(b))
    BY <1>2 DEF Legal, State, Restored
  <1>4. [RestoredSite(st.site, b) EXCEPT !.data = "mixed"] \in Site
    BY <1>2 DEF Site
  <1>5. \A c \in Site : Legal([st EXCEPT !.site = c])
    BY DEF Legal, State
  <1>6. \A h \in HalfRestored(b) : Legal(h)
    BY <1>2, <1>4, <1>5, BuildLegal DEF HalfRestored
  <1> QED
    BY <1>2, <1>3, <1>6

\* The steps of wordpress.update keep the types.
LEMMA UpdateTyped ==
    ASSUME TypeInv, spoilt' \in BOOLEAN, UpdateStep
    PROVE  TypeInv'
  <1>1. st \in State /\ mem \in Memory /\ st.site \in Site /\ mem.safety \in Site /\ mem.spec \in 0..2
    BY DEF TypeInv, SitesTypeOK, State, Memory
  <1>2. \A i \in 1..2 : Legal(Recreated(i)) /\ \A h \in HalfRecreated(i) : Legal(h)
    <2> TAKE i \in 1..2
    <2>1. Legal([st EXCEPT !.ctr = "running", !.image = i])
      BY <1>1 DEF Legal, State
    <2>2. Legal([st EXCEPT !.ctr = "stopped", !.image = i])
      BY <1>1 DEF Legal, State
    <2>3. Legal([st EXCEPT !.ctr = "none"]) /\ Legal(st)
      BY <1>1 DEF Legal, State
    <2>4. Legal(Recreated(i))
      BY <2>1 DEF Recreated
    <2>5. \A h \in HalfRecreated(i) : Legal(h)
      BY <2>2, <2>3 DEF HalfRecreated
    <2> QED
      BY <2>4, <2>5
  <1>3. CASE UpdateBackup
    BY <1>1, <1>3, BuildLegal, MemoryLegal, OutcomesTyped DEF UpdateBackup
  <1>4. CASE CaptureSpec
    BY <1>1, <1>4, BuildLegal, MemoryLegal, OutcomesTyped DEF CaptureSpec
  <1>5. CASE ReplaceContainer
    <2> DEFINE back == [Recreated(OldImage) EXCEPT !.site = RestoredSite(@, mem.safety)]
               broken == [back EXCEPT !.site.data = "mixed"]
    <2>1. CASE mem.spec = 0
      BY <1>1, <1>2, <1>5, <2>1, BuildLegal, OutcomesTyped DEF ReplaceContainer
    <2>2. CASE mem.spec # 0
      <3>1. OldImage \in 1..2
        BY <1>1, <2>2 DEF OldImage
      <3>2. Legal(Recreated(OldImage)) /\ Recreated(OldImage).site = st.site
        BY <1>1, <1>2, <3>1 DEF Recreated, State
      <3>3. Legal(back)
        BY <1>1, <3>2, RestoredTyped DEF Legal, State
      <3>4. Legal(broken)
        BY <3>3 DEF Legal, State, Site, Contents
      <3>5. \A h \in HalfRecreated(OldImage) \cup {broken} : Legal(h)
        BY <1>2, <3>1, <3>4
      <3> HIDE DEF broken
      <3>6. \/ At("replace-container")
               /\ (Done(Recreated(2), mem) \/ \E h \in HalfRecreated(2) : Fails(h, mem))
            \/ Undo("replace-container", back, HalfRecreated(OldImage) \cup {broken})
        BY <1>5, <2>2 DEF ReplaceContainer, broken
      <3> HIDE DEF back
      <3> QED
        BY <1>1, <1>2, <3>3, <3>5, <3>6, OutcomesTyped
    <2> QED
      BY <2>1, <2>2
  <1>6. CASE UpdateHealth
    BY <1>1, <1>6, BuildLegal, OutcomesTyped DEF UpdateHealth
  <1>7. CASE Record
    <2>1. Legal([st EXCEPT !.cfgImage = 2])
      BY <1>1 DEF Legal, State
    <2> QED
      BY <1>1, <1>7, <2>1, BuildLegal, OutcomesTyped DEF Record
  <1> QED
    BY <1>3, <1>4, <1>5, <1>6, <1>7 DEF UpdateStep

\* The states migration.plan and migration.run make, but for their status.
LEMMA StagingLegal ==
    ASSUME st \in State
    PROVE  /\ Legal([st EXCEPT !.stage = st.archive]) /\ Legal([st EXCEPT !.stage = 0])
           /\ Legal([st EXCEPT !.sdb = IF @ = "none" THEN "empty" ELSE @])
           /\ Legal([st EXCEPT !.sdb = "none"]) /\ Legal([st EXCEPT !.sdb = "loaded"])
           /\ Legal([st EXCEPT !.stage = 0, !.sdb = "none"])
  <1>1. 0 \in Versions
    BY SitesAssumption DEF Versions
  <1>2. Legal([st EXCEPT !.stage = st.archive]) /\ Legal([st EXCEPT !.stage = 0])
    BY <1>1 DEF Legal, State
  <1>3. /\ Legal([st EXCEPT !.sdb = IF @ = "none" THEN "empty" ELSE @])
        /\ Legal([st EXCEPT !.sdb = "none"]) /\ Legal([st EXCEPT !.sdb = "loaded"])
    BY DEF Legal, State
  <1>4. Legal([st EXCEPT !.stage = 0, !.sdb = "none"])
    BY <1>1 DEF Legal, State
  <1> QED
    BY <1>2, <1>3, <1>4

\* Writing a migration's status makes a state.
LEMMA SetMigLegal == \A s, v : Legal(s) /\ v \in MigrationStatuses => Legal(SetMig(s, v))
  BY DEF Legal, State, SetMig

\* The steps of migration.plan and migration.run keep the types.
LEMMA RunTyped ==
    ASSUME TypeInv, spoilt' \in BOOLEAN, RunStep
    PROVE  TypeInv'
  <1>1. st \in State /\ mem \in Memory /\ Legal(st) /\ st.archive \in Versions /\ mem.found \in Versions
        /\ 0 \in Versions
    BY SitesAssumption DEF TypeInv, SitesTypeOK, Legal, State, Memory, Versions
  <1>2. \A v \in {"transferring", "importing", "validating", "ready_for_cutover", "failed"} :
            v \in MigrationStatuses
    BY DEF MigrationStatuses
  <1>3. CASE Discovery
    BY <1>1, <1>3, MemoryLegal, OutcomesTyped DEF Discovery
  <1>4. CASE Preflight
    <2>1. \A v \in {"planned", "preflight_failed"} :
              Legal([st EXCEPT !.mig = v, !.planned = mem.found])
      BY <1>1 DEF Legal, State, MigrationStatuses
    <2> QED
      BY <1>1, <1>4, <2>1, OutcomesTyped DEF Preflight
  <1>5. CASE MarkRunning
    BY <1>1, <1>2, <1>5, SetMigLegal, OutcomesTyped DEF MarkRunning
  <1>6. CASE TransferFiles
    BY <1>1, <1>2, <1>6, StagingLegal, SetMigLegal, OutcomesTyped DEF TransferFiles, Unstaged
  <1>7. CASE CreateStagingDatabase
    BY <1>1, <1>7, StagingLegal, OutcomesTyped DEF CreateStagingDatabase
  <1>8. CASE ImportDatabase
    BY <1>1, <1>2, <1>8, StagingLegal, SetMigLegal, OutcomesTyped DEF ImportDatabase
  <1>9. CASE ValidateRun
    BY <1>1, <1>2, <1>9, SetMigLegal, OutcomesTyped DEF ValidateRun
  <1>10. CASE Ready
    BY <1>1, <1>2, <1>10, SetMigLegal, OutcomesTyped DEF Ready
  <1> QED
    BY <1>3, <1>4, <1>5, <1>6, <1>7, <1>8, <1>9, <1>10 DEF RunStep

\* The steps of migration.cutover and migration.rollback keep the types.
LEMMA CutoverTyped ==
    ASSUME TypeInv, spoilt' \in BOOLEAN, CutoverStep
    PROVE  TypeInv'
  <1>1. st \in State /\ mem \in Memory /\ Legal(st) /\ st.safety \in Site /\ mem.safety \in Site
    BY DEF TypeInv, SitesTypeOK, Legal, State, Memory
  <1>2. \A v \in {"cutting_over", "ready_for_cutover", "completed", "rolled_back"} :
            v \in MigrationStatuses
    BY DEF MigrationStatuses
  <1>3. CASE Begin
    BY <1>1, <1>2, <1>3, SetMigLegal, OutcomesTyped DEF Begin, Unbegun
  <1>4. CASE SafetyBackup
    <2>1. Legal([st EXCEPT !.safety = st.site])
      BY <1>1 DEF Legal, State
    <2> QED
      BY <1>1, <1>4, <2>1, MemoryLegal, OutcomesTyped DEF SafetyBackup
  <1>5. CASE SwapFiles
    <2>1. /\ Legal(NewFiles)
          /\ \A i \in {"none", "new"} : Legal([st EXCEPT !.site.index = i, !.site.plugin = "none"])
      BY <1>1 DEF Legal, State, Site, Contents, NewFiles
    <2>2. Legal(SafetyRestored(mem.safety)) /\ \A h \in HalfRestored(mem.safety) : Legal(h)
      BY <1>1, RestoredTyped DEF SafetyRestored
    <2> QED
      BY <1>1, <1>5, <2>1, <2>2, OutcomesTyped DEF SwapFiles
  <1>6. CASE SwapDatabase
    <2>1. Legal([st EXCEPT !.site.data = "new"]) /\ Legal([st EXCEPT !.site.data = "mixed"])
      BY <1>1 DEF Legal, State, Site, Contents
    <2> QED
      BY <1>1, <1>6, <2>1, OutcomesTyped DEF SwapDatabase
  <1>7. CASE RestartVerify
    <2>1. Legal([st EXCEPT !.ctr = IF @ = "none" THEN @ ELSE "running"])
      BY <1>1 DEF Legal, State
    <2> QED
      BY <1>1, <1>7, <2>1, OutcomesTyped DEF RestartVerify
  <1>8. CASE Finalize
    BY <1>1, <1>2, <1>8, StagingLegal, SetMigLegal, OutcomesTyped DEF Finalize
  <1>9. CASE RestoreSafetyBackup
    <2>1. Legal(Restored(st.safety)) /\ \A h \in HalfRestored(st.safety) : Legal(h)
      BY <1>1, RestoredTyped
    <2> QED
      BY <1>1, <1>2, <1>9, <2>1, SetMigLegal, OutcomesTyped DEF RestoreSafetyBackup
  <1> QED
    BY <1>3, <1>4, <1>5, <1>6, <1>7, <1>8, <1>9 DEF CutoverStep

\* The requests outside an operation keep the types.
LEMMA RequestsTyped ==
    ASSUME TypeInv, spoilt' \in BOOLEAN,
           CreateProject \/ CreateMigration \/ UploadCheck \/ UploadWrite \/ UploadRecord
    PROVE  TypeInv'
  <1>1. /\ st \in State /\ MaxUploads \in Nat /\ st.archive \in 0..MaxUploads
        /\ "provisioning" \in ProjectStatuses /\ "discovering" \in MigrationStatuses
    BY SitesAssumption DEF TypeInv, SitesTypeOK, State, Versions, ProjectStatuses, MigrationStatuses
  <1>2. CASE CreateProject
    <2>1. Legal([st EXCEPT !.project = "provisioning"])
      BY <1>1 DEF Legal, State
    <2> QED
      BY <1>2, <2>1 DEF CreateProject, Serve, Legal, TypeInv, SitesTypeOK, Placed
  <1>3. CASE CreateMigration
    <2>1. Legal([st EXCEPT !.mig = "discovering"])
      BY <1>1 DEF Legal, State
    <2> QED
      BY <1>3, <2>1 DEF CreateMigration, Serve, Legal, TypeInv, SitesTypeOK, Placed
  <1>4. CASE UploadCheck
    BY <1>4 DEF UploadCheck, Serve, TypeInv, SitesTypeOK, Placed
  <1>5. CASE UploadWrite
    <2>1. st.archive + 1 \in Versions
      BY <1>1, <1>5 DEF UploadWrite, TypeInv, Placed, Versions
    <2>2. [st EXCEPT !.archive = @ + 1] \in State
      BY <1>1, <2>1 DEF State
    <2> QED
      BY <1>5, <2>2 DEF UploadWrite, Serve, TypeInv, SitesTypeOK, Placed
  <1>6. CASE UploadRecord
    <2>1. Legal([st EXCEPT !.mig = "discovering", !.ref = TRUE])
      BY <1>1 DEF Legal, State
    <2> QED
      BY <1>6, <2>1 DEF UploadRecord, Serve, Legal, TypeInv, SitesTypeOK, Placed
  <1> QED
    BY <1>2, <1>3, <1>4, <1>5, <1>6

\* Starting, ending, cancelling and crashing keep the types.
LEMMA EngineTyped ==
    ASSUME TypeInv, spoilt' \in BOOLEAN,
           (\E o \in DOMAIN Steps : Start(o)) \/ SkipUndo \/ Succeed \/ RolledBack \/ Cancel \/ SitesCrash
    PROVE  TypeInv'
  <1>1. st \in State /\ Legal(st) /\ "none" \notin DOMAIN Steps
    BY StepsWritten DEF TypeInv, SitesTypeOK, Legal
  <1>2. ASSUME NEW o \in DOMAIN Steps, Start(o) PROVE TypeInv'
    <2>1. o # "none" /\ o \in DOMAIN Steps
      BY <1>1
    <2>2. ops' \in 0..MaxOps
      BY <1>2, SitesAssumption DEF Start, TypeInv, SitesTypeOK
    <2>3. last' \in [op: DOMAIN Steps \cup {"none"},
                     end: {"none", "succeeded", "rolled_back", "rollback_failed"}]
      BY <1>2 DEF Start
    <2>4. k' = 1 /\ mode' = "run" /\ op' = o
      BY <1>2 DEF Start
    <2>5. SitesTypeOK'
      BY <1>2, <2>1, <2>2, <2>3, <2>4 DEF Start, TypeInv, SitesTypeOK
    <2>6. Len(Steps[o]) \in 1..12
      <3>1. o \in {"provision", "clone", "delete", "update", "plan", "run", "cutover", "rollback"}
        BY StepsWritten, Zenon
      <3> QED
        BY <3>1, Lengths
    <2>7. Placed'
      BY <1>2, <2>1, <2>4, <2>6 DEF Start, TypeInv, Placed
    <2> QED
      BY <2>5, <2>7 DEF TypeInv
  <1>3. CASE SkipUndo
    BY <1>1, <1>3, UndoTyped DEF SkipUndo
  <1>4. ASSUME NEW e \in {"succeeded", "rolled_back", "rollback_failed"}, Ends(e), mode # "idle"
        PROVE  TypeInv'
    <2>1. last' \in [op: DOMAIN Steps \cup {"none"},
                     end: {"none", "succeeded", "rolled_back", "rollback_failed"}]
      BY <1>4, BusyOp DEF Ends
    <2>2. SitesTypeOK'
      BY <1>4, <2>1, NoMemoryTyped DEF Ends, TypeInv, SitesTypeOK
    <2>3. Placed'
      BY <1>4 DEF Ends, TypeInv, Placed
    <2> QED
      BY <2>2, <2>3 DEF TypeInv
  <1>5. CASE Succeed \/ RolledBack
    BY <1>4, <1>5 DEF Succeed, RolledBack
  <1>6. CASE Cancel
    <2>1. /\ op \in DOMAIN Steps /\ Len(Steps[op]) \in 1..12 /\ k \in 1..Len(Steps[op])
          /\ mode = "run"
      BY <1>6, BusyOp DEF Cancel, TypeInv, Placed
    <2>2. k \in 1..12
      BY <2>1, WithinTwelve, Zenon
    <2>3. k' \in 0..13 /\ mode' = "undo" /\ k' = k - 1
      BY <1>6, <2>2 DEF Cancel
    <2>4. faults' \in 0..MaxFaults
      BY <1>6, FaultCounted DEF Cancel, TypeInv
    <2>5. SitesTypeOK'
      BY <1>6, <2>3, <2>4 DEF Cancel, TypeInv, SitesTypeOK
    <2>6. Placed'
      BY <1>6, <2>1, <2>3 DEF Cancel, TypeInv, Placed
    <2> QED
      BY <2>5, <2>6 DEF TypeInv
  <1>7. CASE SitesCrash
    <2>1. faults' \in 0..MaxFaults /\ st' \in State
      BY <1>1, <1>7, FaultCounted DEF SitesCrash, TypeInv
    <2> QED
      BY <1>7, <2>1, DeathTyped DEF SitesCrash
  <1> QED
    BY <1>2, <1>3, <1>5, <1>6, <1>7

\* The observation of a failed migration.rollback is a Boolean.
LEMMA SpoiltTyped ==
    ASSUME TypeInv, SitesNext
    PROVE  spoilt' \in BOOLEAN
  <1>1. PICK b \in BOOLEAN : b = (spoilt \/ (RollbackFails /\ st'.site.data = "mixed"))
    BY Zenon
  <1> QED
    BY <1>1, Zenon DEF SitesNext

\* The types hold at the start.
LEMMA InitTyped == SitesInit => TypeInv
  <1> SUFFICES ASSUME SitesInit PROVE TypeInv
    OBVIOUS
  <1>1. MaxUploads \in Nat /\ MaxOps \in Nat /\ MaxFaults \in Nat /\ 0 \in Versions
    BY SitesAssumption DEF Versions
  <1>2. st \in State
    BY <1>1, NoMemoryTyped DEF SitesInit, State, ProjectStatuses, MigrationStatuses
  <1>3. SitesTypeOK
    <2>1. last \in [op: DOMAIN Steps \cup {"none"},
                    end: {"none", "succeeded", "rolled_back", "rollback_failed"}]
      BY DEF SitesInit
    <2>2. k \in 0..13 /\ ops \in 0..MaxOps /\ faults \in 0..MaxFaults
      BY <1>1 DEF SitesInit
    <2>3. before \in State
      BY <1>2, Zenon DEF SitesInit
    <2> QED
      BY <1>2, <2>1, <2>2, <2>3, NoMemoryTyped, Zenon DEF SitesInit, SitesTypeOK
  <1>4. Placed
    BY DEF SitesInit, Placed
  <1> QED
    BY <1>3, <1>4 DEF TypeInv

\* Every step keeps the types.
LEMMA NextTyped == TypeInv /\ [SitesNext]_siteVars => TypeInv'
  <1> SUFFICES ASSUME TypeInv, [SitesNext]_siteVars PROVE TypeInv'
    OBVIOUS
  <1>1. CASE SitesNext
    <2>1. spoilt' \in BOOLEAN
      BY <1>1, SpoiltTyped
    <2>2. SiteStep
      BY <1>1 DEF SitesNext
    <2> QED
      BY <2>1, <2>2, RequestsTyped, EngineTyped, ProvisionTyped, CloneTyped, DeleteTyped,
         UpdateTyped, RunTyped, CutoverTyped, Zenon DEF SiteStep
  <1>2. CASE UNCHANGED siteVars
    BY <1>2 DEF siteVars, TypeInv, SitesTypeOK, Placed
  <1> QED
    BY <1>1, <1>2

\* Type correctness: the tables and the host always hold one of their states
\* (State), the run is at a step of its operation, and the counters stay within
\* their bounds.
THEOREM SitesTypes == SitesSpec => []SitesTypeOK
  <1>1. TypeInv => SitesTypeOK
    BY DEF TypeInv
  <1> QED
    BY <1>1, InitTyped, NextTyped, PTL DEF SitesSpec

-----------------------------------------------------------------------------
(* Soundness: what a run has made, place by place.                         *)

\* Where a run is that executes or undoes the step with a given name.
LEMMA Located ==
    ASSUME TypeInv
    PROVE  /\ \A n : At(n) => mode = "run" /\ StepPlaces(n, op, k)
           /\ \A n : Undoing(n) => mode = "undo" /\ StepPlaces(n, op, k)
  <1>1. ASSUME mode = "run" \/ mode = "undo", mode = "run" => k <= Len(Steps[op]), mode = "undo" => k >= 1
        PROVE  StepPlaces(Steps[op][k], op, k)
    <2>1. op \in DOMAIN Steps /\ Len(Steps[op]) \in 1..12 /\ k \in 1..Len(Steps[op])
      BY <1>1, BusyOp DEF TypeInv, Placed
    <2> QED
      BY <2>1, PlacesOfSteps
  <1> QED
    BY <1>1 DEF At, Undoing

\* What is to be shown of each outcome of a step, where nothing is torn.
LEMMA OutcomesSound ==
    ASSUME TypeInv, Sound, ~torn'
    PROVE  /\ \A n, s, m : At(n) /\ Done(s, m) /\ OpFits(op, "run", k + 1, s, m, before, spoilt')
                 => Sound'
           /\ \A n, s, m : At(n) /\ Fails(s, m) /\ OpFits(op, "undo", k, s, m, before, spoilt')
                 => Sound'
           /\ \A n : At(n) /\ Refuses /\ OpFits(op, "undo", k, st, mem, before, spoilt') => Sound'
           /\ \A n, s, halves :
                 Undo(n, s, halves) /\ OpFits(op, "undo", k - 1, s, mem, before, spoilt') => Sound'
           /\ \A n, s : At(n) /\ Unseen(s) /\ OpFits(op, "run", k + 1, s, mem, before, spoilt')
                 => Sound'
           /\ \A n, s : Undoing(n) /\ Unseen(s) /\ OpFits(op, "undo", k - 1, s, mem, before, spoilt')
                 => Sound'
           /\ \A s : Unwritten(s) => Sound'
  <1>1. ASSUME NEW n, NEW s, NEW m, At(n), Done(s, m),
               OpFits(op, "run", k + 1, s, m, before, spoilt')
        PROVE  Sound'
    <2>1. ~torn /\ mode # "idle" /\ mode = "run"
      BY <1>1 DEF Done, At
    <2>2. /\ st' = s /\ mem' = m /\ k' = k + 1 /\ op' = op /\ mode' = "run" /\ before' = before
          /\ allBack'
      BY <1>1, <2>1 DEF Done, Sound
    <2> QED
      BY <1>1, <2>2 DEF Sound
  <1>2. ASSUME NEW n, NEW s, NEW m, At(n), Fails(s, m),
               OpFits(op, "undo", k, s, m, before, spoilt')
        PROVE  Sound'
    <2>1. ~Dies
      BY DEF Dies
    <2>2. ~torn /\ mode = "run"
      BY <1>2, <2>1 DEF Fails, At
    <2>3. /\ st' = s /\ mem' = m /\ k' = k /\ op' = op /\ mode' = "undo" /\ before' = before
          /\ allBack' = allBack
      BY <1>2, <2>1, Zenon DEF Fails
    <2>4. allBack'
      BY <2>2, <2>3 DEF Sound
    <2> QED
      BY <1>2, <2>3, <2>4 DEF Sound
  <1>3. ASSUME NEW n, At(n), Refuses, OpFits(op, "undo", k, st, mem, before, spoilt')
        PROVE  Sound'
    <2>1. ~torn /\ mode = "run"
      BY <1>3 DEF Refuses, At
    <2>2. /\ st' = st /\ mem' = mem /\ k' = k /\ op' = op /\ mode' = "undo" /\ before' = before
          /\ allBack'
      BY <1>3, <2>1 DEF Refuses, Sound
    <2> QED
      BY <1>3, <2>2 DEF Sound
  <1>4. ASSUME NEW n, NEW s, NEW halves, Undo(n, s, halves),
               OpFits(op, "undo", k - 1, s, mem, before, spoilt')
        PROVE  Sound'
    <2>1. \A h : ~UndoFails(h)
      BY DEF UndoFails, Dies
    <2>2. mode = "undo" /\ Undone(s)
      BY <1>4, <2>1 DEF Undo, Undoing
    <2>3. ~torn
      BY <2>2 DEF Undone
    <2>4. /\ st' = s /\ mem' = mem /\ k' = k - 1 /\ op' = op /\ mode' = "undo" /\ before' = before
          /\ allBack'
      BY <2>2, <2>3 DEF Undone, Sound
    <2> QED
      BY <1>4, <2>4 DEF Sound
  <1>5. ASSUME NEW n, NEW s, At(n) \/ Undoing(n), Unseen(s),
               OpFits(op, mode, IF mode = "run" THEN k + 1 ELSE k - 1, s, mem, before, spoilt')
        PROVE  Sound'
    <2>1. ~torn /\ mode # "idle"
      BY <1>5 DEF Unseen, At, Undoing
    <2>2. /\ st' = s /\ mem' = mem /\ op' = op /\ mode' = mode /\ before' = before
          /\ k' = (IF mode = "run" THEN k + 1 ELSE k - 1) /\ allBack'
      BY <1>5, <2>1 DEF Unseen, Sound
    <2> QED
      BY <1>5, <2>1, <2>2 DEF Sound
  <1>6. /\ \A n, s : At(n) /\ Unseen(s) /\ OpFits(op, "run", k + 1, s, mem, before, spoilt') => Sound'
        /\ \A n, s : Undoing(n) /\ Unseen(s) /\ OpFits(op, "undo", k - 1, s, mem, before, spoilt')
              => Sound'
    BY <1>5 DEF At, Undoing
  <1>7. \A s : ~Unwritten(s)
    BY DEF Unwritten
  <1> QED
    BY <1>1, <1>2, <1>3, <1>4, <1>6, <1>7

\* What holds of a run that is under way.
LEMMA BusyFits ==
    ASSUME TypeInv, Sound, ~torn, mode # "idle"
    PROVE  OpFits(op, mode, k, st, mem, before, spoilt)
  BY DEF Sound

\* OpFits, read off operation by operation.
LEMMA OpFitsOf ==
    ASSUME NEW md, NEW i, NEW s, NEW m, NEW b, NEW sp
    PROVE  /\ OpFits("provision", md, i, s, m, b, sp) <=> BuildFits(md, i, s, m)
           /\ OpFits("clone", md, i, s, m, b, sp) <=> BuildFits(md, i - 1, s, m)
           /\ OpFits("delete", md, i, s, m, b, sp) <=> DeleteFits(md, i, s, sp)
           /\ OpFits("update", md, i, s, m, b, sp) <=> UpdateFits(md, i, s, m, b, sp)
           /\ OpFits("plan", md, i, s, m, b, sp) <=> PlanFits(s, b, sp)
           /\ OpFits("run", md, i, s, m, b, sp) <=> RunFits(md, i, s, b, sp)
           /\ OpFits("cutover", md, i, s, m, b, sp) <=> CutoverFits(md, i, s, m, b, sp)
           /\ OpFits("rollback", md, i, s, m, b, sp) <=> RollbackFits(s, sp)
  BY DEF OpFits

\* A building step that fails, or is cancelled, before it has done anything.
LEMMA BuildTurns ==
    ASSUME st \in State, mem \in Memory, NEW j \in Int, BuildFits("run", j, st, mem)
    PROVE  BuildFits("undo", j, st, mem) /\ BuildFits("undo", j - 1, st, mem)
  BY DEF BuildFits, BuildRuns, BuildUndoes

\* The building steps, forward.
LEMMA BuildForward ==
    ASSUME st \in State, mem \in Memory
    PROVE  /\ BuildFits("run", 1, st, mem) => BuildFits("run", 2, Status("provisioning"), mem)
           /\ BuildFits("run", 2, st, mem) =>
                 LET made == [st EXCEPT !.site.index = "old"]
                 IN BuildFits("run", 3, made, mem) /\ BuildFits("undo", 2, made, mem)
           /\ BuildFits("run", 5, st, mem) => BuildFits("run", 6, [st EXCEPT !.ctr = "running"], mem)
           /\ BuildFits("run", 6, st, mem) => BuildFits("run", 7, st, mem)
           /\ BuildFits("run", 7, st, mem) => BuildFits("run", 8, [st EXCEPT !.app = TRUE], mem)
           /\ BuildFits("run", 8, st, mem) => BuildFits("run", 9, Status("active"), mem)
  <1>1. BuildFits("run", 1, st, mem) => BuildFits("run", 2, Status("provisioning"), mem)
    BY DEF State, Site, Status, BuildFits, BuildRuns
  <1>2. BuildFits("run", 2, st, mem) =>
            LET made == [st EXCEPT !.site.index = "old"]
            IN BuildFits("run", 3, made, mem) /\ BuildFits("undo", 2, made, mem)
    BY DEF State, Site, BuildFits, BuildRuns, BuildUndoes
  <1>3. BuildFits("run", 5, st, mem) => BuildFits("run", 6, [st EXCEPT !.ctr = "running"], mem)
    BY DEF State, BuildFits, BuildRuns
  <1>4. BuildFits("run", 6, st, mem) => BuildFits("run", 7, st, mem)
    BY DEF BuildFits, BuildRuns
  <1>5. BuildFits("run", 7, st, mem) => BuildFits("run", 8, [st EXCEPT !.app = TRUE], mem)
    BY DEF State, BuildFits, BuildRuns
  <1>6. BuildFits("run", 8, st, mem) => BuildFits("run", 9, Status("active"), mem)
    BY DEF State, Status, BuildFits, BuildRuns
  <1> QED
    BY <1>1, <1>2, <1>3, <1>4, <1>5, <1>6

\* create-database: a database the run knows of, or one it found and whose
\* password it does not have.
LEMMA DatabaseBuilt ==
    ASSUME st \in State, mem \in Memory, BuildFits("run", 3, st, mem)
    PROVE  /\ st.site.data # "none" => BuildFits("run", 4, st, mem)
           /\ st.site.data = "none" =>
                 /\ BuildFits("run", 4, [MadeDatabase EXCEPT !.secret = TRUE, !.dbRow = TRUE],
                              [mem EXCEPT !.db = TRUE, !.pw = TRUE])
                 /\ BuildFits("undo", 3, MadeDatabase, mem)
                 /\ BuildFits("undo", 3, MadeDatabase, [mem EXCEPT !.db = TRUE])
                 /\ BuildFits("undo", 3, [MadeDatabase EXCEPT !.secret = TRUE],
                              [mem EXCEPT !.db = TRUE])
  <1>1. st.site.data # "none" => BuildFits("run", 4, st, mem)
    BY DEF State, Site, BuildFits, BuildRuns
  <1>2. BuildFits("run", 4, [MadeDatabase EXCEPT !.secret = TRUE, !.dbRow = TRUE],
                  [mem EXCEPT !.db = TRUE, !.pw = TRUE])
    BY DEF State, Site, Memory, MadeDatabase, BuildFits, BuildRuns
  <1>3. BuildFits("undo", 3, MadeDatabase, mem)
    BY DEF State, Site, MadeDatabase, BuildFits, BuildRuns, BuildUndoes
  <1>4. BuildFits("undo", 3, MadeDatabase, [mem EXCEPT !.db = TRUE])
    BY DEF State, Site, Memory, MadeDatabase, BuildFits, BuildRuns, BuildUndoes
  <1>5. BuildFits("undo", 3, [MadeDatabase EXCEPT !.secret = TRUE], [mem EXCEPT !.db = TRUE])
    BY DEF State, Site, Memory, MadeDatabase, BuildFits, BuildRuns, BuildUndoes
  <1> QED
    BY <1>1, <1>2, <1>3, <1>4, <1>5

\* create-container, once the password is known.
LEMMA ContainerBuilt ==
    ASSUME st \in State, mem \in Memory, BuildFits("run", 4, st, mem), SpecKnown
    PROVE  /\ st.ctr # "none" => BuildFits("run", 5, st, mem)
           /\ st.ctr = "none" => BuildFits("run", 5, Created, [mem EXCEPT !.ctr = TRUE])
           /\ st.ctr = "none" => BuildFits("undo", 4, Created, mem)
  <1>1. st.ctr # "none" => BuildFits("run", 5, st, mem)
    BY DEF SpecKnown, BuildFits, BuildRuns
  <1>2. st.ctr = "none" => BuildFits("run", 5, Created, [mem EXCEPT !.ctr = TRUE])
    BY DEF State, Memory, SpecKnown, Created, BuildFits, BuildRuns
  <1>3. st.ctr = "none" => BuildFits("undo", 4, Created, mem)
    BY DEF State, Created, BuildFits, BuildRuns, BuildUndoes
  <1> QED
    BY <1>1, <1>2, <1>3

\* The fields of a state whose workspace is emptied.
LEMMA WorkspaceEmptied ==
    ASSUME st \in State, NEW s, s = [st EXCEPT !.site.index = "none", !.site.plugin = "none"]
    PROVE  /\ s.site.index = "none" /\ s.site.plugin = "none" /\ s.site.data = st.site.data
           /\ s.project = st.project /\ s.secret = st.secret /\ s.dbRow = st.dbRow
           /\ s.ctr = st.ctr /\ s.image = st.image /\ s.cfgImage = st.cfgImage /\ s.app = st.app
           /\ s.safety = st.safety /\ s.mig = st.mig
  BY DEF State, Site

\* The building steps, backward.
LEMMA BuildBackward ==
    ASSUME st \in State, mem \in Memory
    PROVE  /\ BuildFits("undo", 8, st, mem) => BuildFits("undo", 7, Status("failed"), mem)
           /\ BuildFits("undo", 7, st, mem) => BuildFits("undo", 6, [st EXCEPT !.app = FALSE], mem)
           /\ BuildFits("undo", 5, st, mem) => BuildFits("undo", 4, Stopped, mem)
           /\ BuildFits("undo", 4, st, mem) =>
                 /\ BuildFits("undo", 3, [st EXCEPT !.ctr = "none"], mem)
                 /\ BuildFits("undo", 3, st, mem)
           /\ BuildFits("undo", 3, st, mem) /\ ~mem.db => BuildFits("undo", 2, st, mem)
           /\ BuildFits("undo", 3, st, mem) =>
                 \A row : BuildFits("undo", 2, Dropped(row, FALSE), mem)
           /\ BuildFits("undo", 2, st, mem) =>
                 BuildFits("undo", 1, [st EXCEPT !.site.index = "none", !.site.plugin = "none"], mem)
           /\ BuildFits("undo", 1, st, mem) => BuildFits("undo", 0, Status("failed"), mem)
           /\ \A j \in {6, 9, 10, 11} : BuildFits("undo", j, st, mem) => BuildFits("undo", j - 1, st, mem)
  <1>1. BuildFits("undo", 8, st, mem) => BuildFits("undo", 7, Status("failed"), mem)
    BY DEF State, Status, BuildFits, BuildUndoes
  <1>2. BuildFits("undo", 7, st, mem) => BuildFits("undo", 6, [st EXCEPT !.app = FALSE], mem)
    BY DEF State, BuildFits, BuildUndoes
  <1>3. BuildFits("undo", 5, st, mem) => BuildFits("undo", 4, Stopped, mem)
    BY DEF State, Stopped, BuildFits, BuildUndoes
  <1>4. BuildFits("undo", 4, st, mem) =>
            /\ BuildFits("undo", 3, [st EXCEPT !.ctr = "none"], mem)
            /\ BuildFits("undo", 3, st, mem)
    BY DEF State, BuildFits, BuildUndoes
  <1>5. BuildFits("undo", 3, st, mem) /\ ~mem.db => BuildFits("undo", 2, st, mem)
    BY DEF State, BuildFits, BuildUndoes
  <1>6. BuildFits("undo", 3, st, mem) => \A row : BuildFits("undo", 2, Dropped(row, FALSE), mem)
    BY DEF State, Site, Dropped, BuildFits, BuildUndoes
  <1>7. BuildFits("undo", 2, st, mem) =>
            BuildFits("undo", 1, [st EXCEPT !.site.index = "none", !.site.plugin = "none"], mem)
    <2> DEFINE s == [st EXCEPT !.site.index = "none", !.site.plugin = "none"]
    <2>0. s = [st EXCEPT !.site.index = "none", !.site.plugin = "none"]
      OBVIOUS
    <2> HIDE DEF s
    <2>1. /\ s.site.index = "none" /\ s.site.plugin = "none" /\ s.site.data = st.site.data
          /\ s.project = st.project /\ s.secret = st.secret /\ s.dbRow = st.dbRow
          /\ s.ctr = st.ctr /\ s.image = st.image /\ s.cfgImage = st.cfgImage /\ s.app = st.app
          /\ s.safety = st.safety /\ s.mig = st.mig
      BY <2>0, WorkspaceEmptied
    <2>2. BuildFits("undo", 2, st, mem) => BuildFits("undo", 1, s, mem)
      BY <2>1 DEF BuildFits, BuildUndoes
    <2> QED
      BY <2>2 DEF s
  <1>8. BuildFits("undo", 1, st, mem) => BuildFits("undo", 0, Status("failed"), mem)
    BY DEF State, Status, BuildFits, BuildUndoes
  <1>9. \A j \in {6, 9, 10, 11} : BuildFits("undo", j, st, mem) => BuildFits("undo", j - 1, st, mem)
    BY DEF BuildFits, BuildUndoes
  <1> QED
    BY <1>1, <1>2, <1>3, <1>4, <1>5, <1>6, <1>7, <1>8, <1>9

\* Where a building step is, and what holds there.
LEMMA BuildPlace ==
    ASSUME TypeInv, Sound, ~torn, op \in {"provision", "clone"}, mode # "idle"
    PROVE  /\ st \in State /\ mem \in Memory
           /\ op = "provision" => BuildFits(mode, k, st, mem)
           /\ op = "clone" => BuildFits(mode, k - 1, st, mem)
  <1>1. st \in State /\ mem \in Memory
    BY DEF TypeInv, SitesTypeOK
  <1>2. OpFits(op, mode, k, st, mem, before, spoilt)
    BY BusyFits
  <1> QED
    BY <1>1, <1>2, OpFitsOf

\* OutcomesSound for a building step whose place in the building is j.
LEMMA BuildOutcomes ==
    ASSUME TypeInv, Sound, ~torn', NEW j \in Int,
           (op = "provision" /\ k = j) \/ (op = "clone" /\ k = j + 1)
    PROVE  /\ \A n, s, m : At(n) /\ Done(s, m) /\ BuildFits("run", j + 1, s, m) => Sound'
           /\ \A n, s, m : At(n) /\ Fails(s, m) /\ BuildFits("undo", j, s, m) => Sound'
           /\ \A n : At(n) /\ Refuses /\ BuildFits("undo", j, st, mem) => Sound'
           /\ \A n, s, halves : Undo(n, s, halves) /\ BuildFits("undo", j - 1, s, mem) => Sound'
           /\ \A n, s : Undoing(n) /\ Unseen(s) /\ BuildFits("undo", j - 1, s, mem) => Sound'
  <1>1. /\ \A s, m : BuildFits("run", j + 1, s, m) => OpFits(op, "run", k + 1, s, m, before, spoilt')
        /\ \A s, m : BuildFits("undo", j, s, m) => OpFits(op, "undo", k, s, m, before, spoilt')
        /\ \A s, m : BuildFits("undo", j - 1, s, m) => OpFits(op, "undo", k - 1, s, m, before, spoilt')
    <2>1. CASE op = "provision" /\ k = j
      BY <2>1, OpFitsOf
    <2>2. CASE op = "clone" /\ k = j + 1
      <3>1. (k + 1) - 1 = j + 1 /\ k - 1 = j /\ (k - 1) - 1 = j - 1
        BY <2>2
      <3> QED
        BY <2>2, <3>1, OpFitsOf
    <2> QED
      BY <2>1, <2>2
  <1> QED
    BY <1>1, OutcomesSound

\* The building steps keep Sound.
LEMMA ProvisionSound ==
    ASSUME TypeInv, Sound, ~torn, ~torn', ProvisionStep
    PROVE  Sound'
  <1>0. st \in State /\ mem \in Memory
    BY DEF TypeInv, SitesTypeOK
  <1>1. CASE ValidateProject
    <2>1. At("validate-project") \/ Undoing("validate-project")
      BY <1>1 DEF ValidateProject, Undo
    <2>2. (op = "provision" /\ k = 1) \/ (op = "clone" /\ k = 1 + 1)
      BY <2>1, Located DEF StepPlaces
    <2>3. /\ mode # "idle" /\ BuildFits(mode, 1, st, mem)
          /\ At("validate-project") => mode = "run"
          /\ Undoing("validate-project") => mode = "undo"
      BY <2>1, <2>2, BuildPlace DEF At, Undoing
    <2>4. /\ \A s, m : At("validate-project") /\ Done(s, m) /\ BuildFits("run", 2, s, m) => Sound'
          /\ \A s, m : At("validate-project") /\ Fails(s, m) /\ BuildFits("undo", 1, s, m) => Sound'
          /\ At("validate-project") /\ Refuses /\ BuildFits("undo", 1, st, mem) => Sound'
          /\ \A s, halves : Undo("validate-project", s, halves) /\ BuildFits("undo", 0, s, mem)
                 => Sound'
      BY <2>2, BuildOutcomes
    <2> QED
      BY <1>0, <1>1, <2>3, <2>4, BuildTurns, BuildForward, BuildBackward DEF ValidateProject, Undo
  <1>2. CASE PrepareWorkspace
    <2>1. At("prepare-workspace") \/ Undoing("prepare-workspace")
      BY <1>2 DEF PrepareWorkspace, Undo
    <2>2. (op = "provision" /\ k = 2) \/ (op = "clone" /\ k = 2 + 1)
      BY <2>1, Located DEF StepPlaces
    <2>3. /\ mode # "idle" /\ BuildFits(mode, 2, st, mem)
          /\ At("prepare-workspace") => mode = "run"
          /\ Undoing("prepare-workspace") => mode = "undo"
      BY <2>1, <2>2, BuildPlace DEF At, Undoing
    <2>4. /\ \A s, m : At("prepare-workspace") /\ Done(s, m) /\ BuildFits("run", 3, s, m) => Sound'
          /\ \A s, m : At("prepare-workspace") /\ Fails(s, m) /\ BuildFits("undo", 2, s, m)
                 => Sound'
          /\ At("prepare-workspace") /\ Refuses /\ BuildFits("undo", 2, st, mem) => Sound'
          /\ \A s, halves : Undo("prepare-workspace", s, halves) /\ BuildFits("undo", 1, s, mem)
                 => Sound'
      BY <2>2, BuildOutcomes
    <2> QED
      BY <1>0, <1>2, <2>3, <2>4, BuildTurns, BuildForward, BuildBackward DEF PrepareWorkspace, Undo
  <1>3. CASE CreateDatabase
    <2>1. At("create-database") \/ Undoing("create-database")
      BY <1>3 DEF CreateDatabase, Undo
    <2>2. (op = "provision" /\ k = 3) \/ (op = "clone" /\ k = 3 + 1)
      BY <2>1, Located DEF StepPlaces
    <2>3. /\ mode # "idle" /\ BuildFits(mode, 3, st, mem)
          /\ At("create-database") => mode = "run"
          /\ Undoing("create-database") => mode = "undo"
      BY <2>1, <2>2, BuildPlace DEF At, Undoing
    <2>4. /\ \A s, m : At("create-database") /\ Done(s, m) /\ BuildFits("run", 4, s, m) => Sound'
          /\ \A s, m : At("create-database") /\ Fails(s, m) /\ BuildFits("undo", 3, s, m) => Sound'
          /\ At("create-database") /\ Refuses /\ BuildFits("undo", 3, st, mem) => Sound'
          /\ \A s, halves : Undo("create-database", s, halves) /\ BuildFits("undo", 2, s, mem)
                 => Sound'
          /\ \A s : Undoing("create-database") /\ Unseen(s) /\ BuildFits("undo", 2, s, mem)
                 => Sound'
      BY <2>2, BuildOutcomes
    <2>5. CASE At("create-database")
      BY <1>0, <1>3, <2>3, <2>4, <2>5, BuildTurns, DatabaseBuilt DEF CreateDatabase, Undo, At, Undoing
    <2>6. CASE Undoing("create-database")
      BY <1>0, <1>3, <2>3, <2>4, <2>6, BuildBackward DEF CreateDatabase, Undo, At, Undoing
    <2> QED
      BY <2>1, <2>5, <2>6
  <1>4. CASE CreateContainer
    <2>1. At("create-container") \/ Undoing("create-container")
      BY <1>4 DEF CreateContainer, Undo
    <2>2. (op = "provision" /\ k = 4) \/ (op = "clone" /\ k = 4 + 1)
      BY <2>1, Located DEF StepPlaces
    <2>3. /\ mode # "idle" /\ BuildFits(mode, 4, st, mem)
          /\ At("create-container") => mode = "run"
          /\ Undoing("create-container") => mode = "undo"
      BY <2>1, <2>2, BuildPlace DEF At, Undoing
    <2>4. /\ \A s, m : At("create-container") /\ Done(s, m) /\ BuildFits("run", 5, s, m) => Sound'
          /\ \A s, m : At("create-container") /\ Fails(s, m) /\ BuildFits("undo", 4, s, m) => Sound'
          /\ At("create-container") /\ Refuses /\ BuildFits("undo", 4, st, mem) => Sound'
          /\ \A s, halves : Undo("create-container", s, halves) /\ BuildFits("undo", 3, s, mem)
                 => Sound'
      BY <2>2, BuildOutcomes
    <2>5. CASE At("create-container")
      BY <1>0, <1>4, <2>3, <2>4, <2>5, BuildTurns, ContainerBuilt DEF CreateContainer, Undo, At, Undoing
    <2>6. CASE Undoing("create-container")
      BY <1>0, <1>4, <2>3, <2>4, <2>6, BuildBackward DEF CreateContainer, Undo, At, Undoing
    <2> QED
      BY <2>1, <2>5, <2>6
  <1>5. CASE StartContainer
    <2>1. At("start-container") \/ Undoing("start-container")
      BY <1>5 DEF StartContainer, Undo
    <2>2. (op = "provision" /\ k = 5) \/ (op = "clone" /\ k = 5 + 1)
      BY <2>1, Located DEF StepPlaces
    <2>3. /\ mode # "idle" /\ BuildFits(mode, 5, st, mem)
          /\ At("start-container") => mode = "run"
          /\ Undoing("start-container") => mode = "undo"
      BY <2>1, <2>2, BuildPlace DEF At, Undoing
    <2>4. /\ \A s, m : At("start-container") /\ Done(s, m) /\ BuildFits("run", 6, s, m) => Sound'
          /\ \A s, m : At("start-container") /\ Fails(s, m) /\ BuildFits("undo", 5, s, m) => Sound'
          /\ At("start-container") /\ Refuses /\ BuildFits("undo", 5, st, mem) => Sound'
          /\ \A s, halves : Undo("start-container", s, halves) /\ BuildFits("undo", 4, s, mem)
                 => Sound'
      BY <2>2, BuildOutcomes
    <2> QED
      BY <1>0, <1>5, <2>3, <2>4, BuildTurns, BuildForward, BuildBackward DEF StartContainer, Undo
  <1>6. CASE HealthCheck
    <2>1. At("health-check")
      BY <1>6 DEF HealthCheck
    <2>2. (op = "provision" /\ k = 6) \/ (op = "clone" /\ k = 6 + 1)
      BY <2>1, Located DEF StepPlaces
    <2>3. /\ mode # "idle" /\ BuildFits(mode, 6, st, mem)
          /\ At("health-check") => mode = "run"
          /\ Undoing("health-check") => mode = "undo"
      BY <2>1, <2>2, BuildPlace DEF At, Undoing
    <2>4. /\ \A s, m : At("health-check") /\ Done(s, m) /\ BuildFits("run", 7, s, m) => Sound'
          /\ \A s, m : At("health-check") /\ Fails(s, m) /\ BuildFits("undo", 6, s, m) => Sound'
          /\ At("health-check") /\ Refuses /\ BuildFits("undo", 6, st, mem) => Sound'
          /\ \A s, halves : Undo("health-check", s, halves) /\ BuildFits("undo", 5, s, mem)
                 => Sound'
      BY <2>2, BuildOutcomes
    <2> QED
      BY <1>0, <1>6, <2>3, <2>4, BuildTurns, BuildForward, BuildBackward DEF HealthCheck, Undo
  <1>7. CASE RegisterApplication
    <2>1. At("register-application") \/ Undoing("register-application")
      BY <1>7 DEF RegisterApplication, Undo
    <2>2. (op = "provision" /\ k = 7) \/ (op = "clone" /\ k = 7 + 1)
      BY <2>1, Located DEF StepPlaces
    <2>3. /\ mode # "idle" /\ BuildFits(mode, 7, st, mem)
          /\ At("register-application") => mode = "run"
          /\ Undoing("register-application") => mode = "undo"
      BY <2>1, <2>2, BuildPlace DEF At, Undoing
    <2>4. /\ \A s, m : At("register-application") /\ Done(s, m) /\ BuildFits("run", 8, s, m)
                 => Sound'
          /\ \A s, m : At("register-application") /\ Fails(s, m) /\ BuildFits("undo", 7, s, m)
                 => Sound'
          /\ At("register-application") /\ Refuses /\ BuildFits("undo", 7, st, mem) => Sound'
          /\ \A s, halves : Undo("register-application", s, halves) /\ BuildFits("undo", 6, s, mem)
                 => Sound'
      BY <2>2, BuildOutcomes
    <2> QED
      BY <1>0, <1>7, <2>3, <2>4, BuildTurns, BuildForward, BuildBackward DEF RegisterApplication, Undo
  <1>8. CASE ActivateProject
    <2>1. At("activate-project") \/ Undoing("activate-project")
      BY <1>8 DEF ActivateProject, Undo
    <2>2. (op = "provision" /\ k = 8) \/ (op = "clone" /\ k = 8 + 1)
      BY <2>1, Located DEF StepPlaces
    <2>3. /\ mode # "idle" /\ BuildFits(mode, 8, st, mem)
          /\ At("activate-project") => mode = "run"
          /\ Undoing("activate-project") => mode = "undo"
      BY <2>1, <2>2, BuildPlace DEF At, Undoing
    <2>4. /\ \A s, m : At("activate-project") /\ Done(s, m) /\ BuildFits("run", 9, s, m) => Sound'
          /\ \A s, m : At("activate-project") /\ Fails(s, m) /\ BuildFits("undo", 8, s, m) => Sound'
          /\ At("activate-project") /\ Refuses /\ BuildFits("undo", 8, st, mem) => Sound'
          /\ \A s, halves : Undo("activate-project", s, halves) /\ BuildFits("undo", 7, s, mem)
                 => Sound'
      BY <2>2, BuildOutcomes
    <2> QED
      BY <1>0, <1>8, <2>3, <2>4, BuildTurns, BuildForward, BuildBackward DEF ActivateProject, Undo
  <1> QED
    BY <1>1, <1>2, <1>3, <1>4, <1>5, <1>6, <1>7, <1>8 DEF ProvisionStep

\* The steps of a clone around the provisioning.
LEMMA CloneMoves ==
    ASSUME st \in State, mem \in Memory
    PROVE  /\ BuildFits("run", 0, st, mem) =>
                 /\ BuildFits("run", 1, Status("provisioning"), [mem EXCEPT !.id = TRUE])
                 /\ BuildFits("undo", 0, Status("provisioning"), mem)
           /\ BuildFits("undo", 0, st, mem) =>
                 BuildFits("undo", -1, st, mem) /\ BuildFits("undo", -1, Status("deleted"), mem)
           /\ BuildFits("run", 9, st, mem) => BuildFits("run", 10, st, mem)
           /\ BuildFits("run", 10, st, mem) =>
                 BuildFits("run", 11, st, mem) /\ BuildFits("undo", 10, [st EXCEPT !.site.data = "mixed"], mem)
           /\ BuildFits("run", 11, st, mem) => BuildFits("run", 12, [st EXCEPT !.ctr = "running"], mem)
  <1>1. BuildFits("run", 0, st, mem) =>
            BuildFits("run", 1, Status("provisioning"), [mem EXCEPT !.id = TRUE])
    BY DEF State, Memory, Status, BuildFits, BuildRuns
  <1>2. BuildFits("run", 0, st, mem) => BuildFits("undo", 0, Status("provisioning"), mem)
    BY DEF State, Status, BuildFits, BuildRuns, BuildUndoes
  <1>3. BuildFits("undo", 0, st, mem) =>
            BuildFits("undo", -1, st, mem) /\ BuildFits("undo", -1, Status("deleted"), mem)
    BY DEF State, Status, BuildFits, BuildUndoes
  <1>4. BuildFits("run", 9, st, mem) => BuildFits("run", 10, st, mem)
    BY DEF BuildFits, BuildRuns
  <1>5. BuildFits("run", 10, st, mem) => BuildFits("run", 11, st, mem)
    BY DEF BuildFits, BuildRuns
  <1>6. /\ BuildFits("run", 10, st, mem) => BuildFits("undo", 10, [st EXCEPT !.site.data = "mixed"], mem)
    BY DEF State, Site, BuildFits, BuildRuns, BuildUndoes
  <1>7. BuildFits("run", 11, st, mem) => BuildFits("run", 12, [st EXCEPT !.ctr = "running"], mem)
    BY DEF State, BuildFits, BuildRuns
  <1> QED
    BY <1>1, <1>2, <1>3, <1>4, <1>5, <1>6, <1>7

\* The steps of a clone around the building keep Sound.
LEMMA CloneSound ==
    ASSUME TypeInv, Sound, ~torn, ~torn', CloneStep
    PROVE  Sound'
  <1>0. st \in State /\ mem \in Memory
    BY DEF TypeInv, SitesTypeOK
  <1>1. CASE CloneProject
    <2>1. At("create-clone-project") \/ Undoing("create-clone-project")
      BY <1>1 DEF CloneProject, Undo
    <2>2. op = "clone" /\ k = 0 + 1
      BY <2>1, Located DEF StepPlaces
    <2>3. /\ mode # "idle" /\ BuildFits(mode, 0, st, mem)
          /\ At("create-clone-project") => mode = "run"
          /\ Undoing("create-clone-project") => mode = "undo"
      BY <2>1, <2>2, BuildPlace DEF At, Undoing
    <2>4. /\ \A s, m : At("create-clone-project") /\ Done(s, m) /\ BuildFits("run", 1, s, m)
                 => Sound'
          /\ \A s, m : At("create-clone-project") /\ Fails(s, m) /\ BuildFits("undo", 0, s, m)
                 => Sound'
          /\ At("create-clone-project") /\ Refuses /\ BuildFits("undo", 0, st, mem) => Sound'
          /\ \A s, halves : Undo("create-clone-project", s, halves) /\ BuildFits("undo", -1, s, mem)
                 => Sound'
      BY <2>2, BuildOutcomes
    <2> QED
      BY <1>0, <1>1, <2>3, <2>4, BuildTurns, CloneMoves DEF CloneProject, Undo
  <1>2. CASE CloneFiles
    <2>1. At("clone-files")
      BY <1>2 DEF CloneFiles
    <2>2. op = "clone" /\ k = 9 + 1
      BY <2>1, Located DEF StepPlaces
    <2>3. /\ mode # "idle" /\ BuildFits(mode, 9, st, mem)
          /\ At("clone-files") => mode = "run"
          /\ Undoing("clone-files") => mode = "undo"
      BY <2>1, <2>2, BuildPlace DEF At, Undoing
    <2>4. /\ \A s, m : At("clone-files") /\ Done(s, m) /\ BuildFits("run", 10, s, m) => Sound'
          /\ \A s, m : At("clone-files") /\ Fails(s, m) /\ BuildFits("undo", 9, s, m) => Sound'
          /\ At("clone-files") /\ Refuses /\ BuildFits("undo", 9, st, mem) => Sound'
          /\ \A s, halves : Undo("clone-files", s, halves) /\ BuildFits("undo", 8, s, mem) => Sound'
      BY <2>2, BuildOutcomes
    <2> QED
      BY <1>0, <1>2, <2>3, <2>4, BuildTurns, CloneMoves DEF CloneFiles, Undo
  <1>3. CASE CloneDatabase
    <2>1. At("clone-database")
      BY <1>3 DEF CloneDatabase
    <2>2. op = "clone" /\ k = 10 + 1
      BY <2>1, Located DEF StepPlaces
    <2>3. /\ mode # "idle" /\ BuildFits(mode, 10, st, mem)
          /\ At("clone-database") => mode = "run"
          /\ Undoing("clone-database") => mode = "undo"
      BY <2>1, <2>2, BuildPlace DEF At, Undoing
    <2>4. /\ \A s, m : At("clone-database") /\ Done(s, m) /\ BuildFits("run", 11, s, m) => Sound'
          /\ \A s, m : At("clone-database") /\ Fails(s, m) /\ BuildFits("undo", 10, s, m) => Sound'
          /\ At("clone-database") /\ Refuses /\ BuildFits("undo", 10, st, mem) => Sound'
          /\ \A s, halves : Undo("clone-database", s, halves) /\ BuildFits("undo", 9, s, mem)
                 => Sound'
      BY <2>2, BuildOutcomes
    <2> QED
      BY <1>0, <1>3, <2>3, <2>4, BuildTurns, CloneMoves DEF CloneDatabase, Undo
  <1>4. CASE RestartClone
    <2>1. At("restart-clone")
      BY <1>4 DEF RestartClone
    <2>2. op = "clone" /\ k = 11 + 1
      BY <2>1, Located DEF StepPlaces
    <2>3. /\ mode # "idle" /\ BuildFits(mode, 11, st, mem)
          /\ At("restart-clone") => mode = "run"
          /\ Undoing("restart-clone") => mode = "undo"
      BY <2>1, <2>2, BuildPlace DEF At, Undoing
    <2>4. /\ \A s, m : At("restart-clone") /\ Done(s, m) /\ BuildFits("run", 12, s, m) => Sound'
          /\ \A s, m : At("restart-clone") /\ Fails(s, m) /\ BuildFits("undo", 11, s, m) => Sound'
          /\ At("restart-clone") /\ Refuses /\ BuildFits("undo", 11, st, mem) => Sound'
          /\ \A s, halves : Undo("restart-clone", s, halves) /\ BuildFits("undo", 10, s, mem)
                 => Sound'
      BY <2>2, BuildOutcomes
    <2> QED
      BY <1>0, <1>4, <2>3, <2>4, BuildTurns, CloneMoves DEF RestartClone, Undo
  <1> QED
    BY <1>1, <1>2, <1>3, <1>4 DEF CloneStep

\* project.delete, step by step.
LEMMA DeleteMoves ==
    ASSUME st \in State, NEW sp \in BOOLEAN, NEW i \in Int, DeleteFits("run", i, st, sp)
    PROVE  /\ \A l : DeleteFits("undo", l, st, sp)
           /\ i = 1 => DeleteFits("run", 2, Status("deleting"), sp)
           /\ i = 2 => DeleteFits("run", 3, Removed, sp)
           /\ i = 3 =>
                 /\ DeleteFits("run", 4, st, sp)
                 /\ \A row, kept : /\ DeleteFits("run", 4, Dropped(row, kept), sp)
                                   /\ DeleteFits("undo", 3, Dropped(row, kept), sp)
           /\ i = 4 =>
                 /\ DeleteFits("run", 5, [st EXCEPT !.site.index = "none", !.site.plugin = "none"], sp)
                 /\ DeleteFits("undo", 4, [st EXCEPT !.site.plugin = "none"], sp)
           /\ i = 5 =>
                 LET removed == [st EXCEPT !.app = FALSE] IN
                 /\ DeleteFits("run", 6, [removed EXCEPT !.project = "deleted"], sp)
                 /\ DeleteFits("undo", 5, removed, sp)
  <1>1. \A l : DeleteFits("undo", l, st, sp)
    BY DEF DeleteFits
  <1>2. i = 1 => DeleteFits("run", 2, Status("deleting"), sp)
    BY DEF State, Status, DeleteFits, Rest
  <1>3. i = 2 => DeleteFits("run", 3, Removed, sp)
    BY DEF State, Removed, DeleteFits, Rest
  <1>4. ASSUME i = 3
        PROVE  /\ DeleteFits("run", 4, st, sp)
               /\ \A row, kept : /\ DeleteFits("run", 4, Dropped(row, kept), sp)
                                 /\ DeleteFits("undo", 3, Dropped(row, kept), sp)
    <2>1. DeleteFits("run", 4, st, sp)
      BY <1>4 DEF DeleteFits, Rest
    <2>2. ASSUME NEW row, NEW kept
          PROVE  /\ DeleteFits("run", 4, Dropped(row, kept), sp)
                 /\ DeleteFits("undo", 3, Dropped(row, kept), sp)
      BY <1>4 DEF State, Site, Dropped, DeleteFits, Rest
    <2> QED
      BY <2>1, <2>2
  <1>5. i = 4 => DeleteFits("run", 5, [st EXCEPT !.site.index = "none", !.site.plugin = "none"], sp)
    <2> DEFINE s == [st EXCEPT !.site.index = "none", !.site.plugin = "none"]
    <2>0. s = [st EXCEPT !.site.index = "none", !.site.plugin = "none"]
      OBVIOUS
    <2> HIDE DEF s
    <2>1. /\ s.site.index = "none" /\ s.site.plugin = "none" /\ s.site.data = st.site.data
          /\ s.project = st.project /\ s.secret = st.secret /\ s.dbRow = st.dbRow
          /\ s.ctr = st.ctr /\ s.image = st.image /\ s.cfgImage = st.cfgImage /\ s.app = st.app
          /\ s.safety = st.safety /\ s.mig = st.mig
      BY <2>0, WorkspaceEmptied
    <2>2. i = 4 => DeleteFits("run", 5, s, sp)
      BY <2>1 DEF DeleteFits, Rest
    <2> QED
      BY <2>2 DEF s
  <1>6. i = 4 => DeleteFits("undo", 4, [st EXCEPT !.site.plugin = "none"], sp)
    BY DEF State, Site, DeleteFits, Rest
  <1>7. ASSUME i = 5
        PROVE  LET removed == [st EXCEPT !.app = FALSE] IN
               /\ DeleteFits("run", 6, [removed EXCEPT !.project = "deleted"], sp)
               /\ DeleteFits("undo", 5, removed, sp)
    <2> DEFINE removed == [st EXCEPT !.app = FALSE]
    <2>1. DeleteFits("run", 6, [removed EXCEPT !.project = "deleted"], sp)
      BY <1>7 DEF State, DeleteFits, Rest
    <2>2. DeleteFits("undo", 5, removed, sp)
      BY <1>7 DEF State, DeleteFits, Rest
    <2> QED
      BY <2>1, <2>2
  <1> QED
    BY <1>1, <1>2, <1>3, <1>4, <1>5, <1>6, <1>7

\* What SitesNext does to the observation, apart from a failing migration.rollback.
LEMMA SpoiltKept ==
    ASSUME TypeInv, SitesNext
    PROVE  /\ spoilt \in BOOLEAN /\ spoilt' \in BOOLEAN
           /\ spoilt => spoilt'
           /\ op # "rollback" => spoilt' = spoilt
  <1>1. spoilt \in BOOLEAN /\ spoilt' \in BOOLEAN
    BY SpoiltTyped DEF TypeInv, SitesTypeOK
  <1>2. spoilt' = (spoilt \/ (RollbackFails /\ st'.site.data = "mixed"))
    BY Zenon DEF SitesNext
  <1>3. RollbackFails => op = "rollback"
    BY Located DEF RollbackFails, StepPlaces
  <1>4. op # "rollback" => spoilt' = spoilt
    BY <1>1, <1>2, <1>3
  <1> QED
    BY <1>1, <1>2, <1>4

\* The steps of project.delete keep Sound.
LEMMA DeleteSound ==
    ASSUME TypeInv, Sound, ~torn, ~torn', spoilt \in BOOLEAN, op # "rollback" => spoilt' = spoilt,
           DeleteStep
    PROVE  Sound'
  <1>0. st \in State /\ mem \in Memory
    BY DEF TypeInv, SitesTypeOK
  <1>1. CASE MarkDeleting
    <2>1. At("mark-deleting")
      BY <1>1 DEF MarkDeleting
    <2>2. op = "delete" /\ k = 1 /\ mode = "run"
      BY <2>1, Located DEF StepPlaces
    <2>3. DeleteFits("run", 1, st, spoilt) /\ spoilt' = spoilt
      BY <2>2, BusyFits, OpFitsOf
    <2>4. /\ \A s, m : Done(s, m) /\ DeleteFits("run", 2, s, spoilt) => Sound'
          /\ \A s, m : Fails(s, m) /\ DeleteFits("undo", 1, s, spoilt) => Sound'
      BY <2>1, <2>2, <2>3, OutcomesSound, OpFitsOf
    <2>5. DeleteFits("run", 2, Status("deleting"), spoilt) /\ DeleteFits("undo", 1, st, spoilt)
      BY <1>0, <2>3, DeleteMoves
    <2> QED
      BY <1>1, <2>4, <2>5 DEF MarkDeleting
  <1>2. CASE RemoveContainer
    <2>1. At("remove-container")
      BY <1>2 DEF RemoveContainer
    <2>2. op = "delete" /\ k = 2 /\ mode = "run"
      BY <2>1, Located DEF StepPlaces
    <2>3. DeleteFits("run", 2, st, spoilt) /\ spoilt' = spoilt
      BY <2>2, BusyFits, OpFitsOf
    <2>4. /\ \A s, m : Done(s, m) /\ DeleteFits("run", 3, s, spoilt) => Sound'
          /\ \A s, m : Fails(s, m) /\ DeleteFits("undo", 2, s, spoilt) => Sound'
      BY <2>1, <2>2, <2>3, OutcomesSound, OpFitsOf
    <2>5. DeleteFits("run", 3, Removed, spoilt) /\ DeleteFits("undo", 2, st, spoilt)
      BY <1>0, <2>3, DeleteMoves
    <2> QED
      BY <1>2, <2>4, <2>5 DEF RemoveContainer
  <1>3. CASE DropDatabase
    <2>1. At("drop-database")
      BY <1>3 DEF DropDatabase
    <2>2. op = "delete" /\ k = 3 /\ mode = "run"
      BY <2>1, Located DEF StepPlaces
    <2>3. DeleteFits("run", 3, st, spoilt) /\ spoilt' = spoilt
      BY <2>2, BusyFits, OpFitsOf
    <2>4. /\ \A s, m : Done(s, m) /\ DeleteFits("run", 4, s, spoilt) => Sound'
          /\ \A s, m : Fails(s, m) /\ DeleteFits("undo", 3, s, spoilt) => Sound'
          /\ \A s : Unseen(s) /\ DeleteFits("run", 4, s, spoilt) => Sound'
      BY <2>1, <2>2, <2>3, OutcomesSound, OpFitsOf
    <2>5. /\ DeleteFits("run", 4, st, spoilt) /\ DeleteFits("undo", 3, st, spoilt)
          /\ \A row, kept : /\ DeleteFits("run", 4, Dropped(row, kept), spoilt)
                            /\ DeleteFits("undo", 3, Dropped(row, kept), spoilt)
      BY <1>0, <2>3, DeleteMoves
    <2>6. \/ Done(st, mem) \/ Done(Dropped(FALSE, FALSE), mem)
          \/ Unseen(st) \/ Unseen(Dropped(FALSE, st.secret))
          \/ Fails(st, mem)
          \/ Fails(Dropped(TRUE, FALSE), mem) \/ Fails(Dropped(TRUE, st.secret), mem)
      BY <1>3 DEF DropDatabase
    <2> QED
      BY <2>4, <2>5, <2>6
  <1>4. CASE RemoveWorkspace
    <2>1. At("remove-workspace")
      BY <1>4 DEF RemoveWorkspace
    <2>2. op = "delete" /\ k = 4 /\ mode = "run"
      BY <2>1, Located DEF StepPlaces
    <2>3. DeleteFits("run", 4, st, spoilt) /\ spoilt' = spoilt
      BY <2>2, BusyFits, OpFitsOf
    <2>4. /\ \A s, m : Done(s, m) /\ DeleteFits("run", 5, s, spoilt) => Sound'
          /\ \A s, m : Fails(s, m) /\ DeleteFits("undo", 4, s, spoilt) => Sound'
      BY <2>1, <2>2, <2>3, OutcomesSound, OpFitsOf
    <2>5. /\ DeleteFits("undo", 4, [st EXCEPT !.site.plugin = "none"], spoilt)
          /\ DeleteFits("run", 5, [st EXCEPT !.site.index = "none", !.site.plugin = "none"], spoilt)
      BY <1>0, <2>3, DeleteMoves
    <2> QED
      BY <1>4, <2>4, <2>5 DEF RemoveWorkspace
  <1>5. CASE RemoveRecords
    <2>1. At("remove-records")
      BY <1>5 DEF RemoveRecords
    <2>2. op = "delete" /\ k = 5 /\ mode = "run"
      BY <2>1, Located DEF StepPlaces
    <2>3. DeleteFits("run", 5, st, spoilt) /\ spoilt' = spoilt
      BY <2>2, BusyFits, OpFitsOf
    <2>4. /\ \A s, m : Done(s, m) /\ DeleteFits("run", 6, s, spoilt) => Sound'
          /\ \A s, m : Fails(s, m) /\ DeleteFits("undo", 5, s, spoilt) => Sound'
      BY <2>1, <2>2, <2>3, OutcomesSound, OpFitsOf
    <2> DEFINE removed == [st EXCEPT !.app = FALSE]
    <2>5. /\ DeleteFits("run", 6, [removed EXCEPT !.project = "deleted"], spoilt)
          /\ DeleteFits("undo", 5, removed, spoilt) /\ DeleteFits("undo", 5, st, spoilt)
      <3>1. \A i \in Int : DeleteFits("run", i, st, spoilt) =>
                /\ \A l : DeleteFits("undo", l, st, spoilt)
                /\ i = 5 => /\ DeleteFits("run", 6, [removed EXCEPT !.project = "deleted"], spoilt)
                            /\ DeleteFits("undo", 5, removed, spoilt)
        BY <1>0, DeleteMoves, Zenon
      <3>2. 5 \in Int
        OBVIOUS
      <3> QED
        BY <2>3, <3>1, <3>2, Zenon
    <2>6. \/ Done([removed EXCEPT !.project = "deleted"], mem)
          \/ Fails(st, mem) \/ Fails(removed, mem)
      BY <1>5 DEF RemoveRecords
    <2> HIDE DEF removed
    <2> QED
      BY <2>4, <2>5, <2>6
  <1> QED
    BY <1>1, <1>2, <1>3, <1>4, <1>5 DEF DeleteStep

\* wordpress.update, step by step; b is the state its Validate read.
LEMMA UpdateMoves ==
    ASSUME st \in State, mem \in Memory, NEW b \in State, NEW sp \in BOOLEAN, NEW i \in Int
    PROVE  /\ UpdateFits("run", i, st, mem, b, sp) /\ i <= 5 =>
                 UpdateFits("undo", i, st, mem, b, sp) /\ UpdateFits("undo", i - 1, st, mem, b, sp)
           /\ UpdateFits("run", 1, st, mem, b, sp) =>
                 UpdateFits("run", 2, st, [mem EXCEPT !.safety = st.site], b, sp)
           /\ UpdateFits("run", 2, st, mem, b, sp) =>
                 UpdateFits("run", 3, st, [mem EXCEPT !.spec = st.cfgImage], b, sp)
           /\ UpdateFits("run", 3, st, mem, b, sp) =>
                 /\ UpdateFits("run", 4, Recreated(2), mem, b, sp)
                 /\ \A h \in HalfRecreated(2) : UpdateFits("undo", 3, h, mem, b, sp)
           /\ UpdateFits("run", 4, st, mem, b, sp) => UpdateFits("run", 5, st, mem, b, sp)
           /\ UpdateFits("run", 5, st, mem, b, sp) =>
                 UpdateFits("run", 6, [st EXCEPT !.cfgImage = 2], mem, b, sp)
           /\ UpdateFits("undo", i, st, mem, b, sp) /\ i # 3 => UpdateFits("undo", i - 1, st, mem, b, sp)
  <1>1. UpdateFits("run", i, st, mem, b, sp) /\ i <= 5 =>
            UpdateFits("undo", i, st, mem, b, sp) /\ UpdateFits("undo", i - 1, st, mem, b, sp)
    BY DEF UpdateFits
  <1>2. UpdateFits("run", 1, st, mem, b, sp) =>
            UpdateFits("run", 2, st, [mem EXCEPT !.safety = st.site], b, sp)
    BY DEF Memory, UpdateFits
  <1>3. UpdateFits("run", 2, st, mem, b, sp) =>
            UpdateFits("run", 3, st, [mem EXCEPT !.spec = st.cfgImage], b, sp)
    BY DEF Memory, UpdateFits
  <1>4. UpdateFits("run", 3, st, mem, b, sp) => UpdateFits("run", 4, Recreated(2), mem, b, sp)
    BY DEF State, Recreated, UpdateFits
  <1>5. UpdateFits("run", 3, st, mem, b, sp) =>
            \A h \in HalfRecreated(2) : UpdateFits("undo", 3, h, mem, b, sp)
    <2> SUFFICES ASSUME UpdateFits("run", 3, st, mem, b, sp), NEW h \in HalfRecreated(2)
                 PROVE  UpdateFits("undo", 3, h, mem, b, sp)
      OBVIOUS
    <2>1. /\ h.project = st.project /\ h.secret = st.secret /\ h.dbRow = st.dbRow
          /\ h.app = st.app /\ h.site = st.site /\ h.safety = st.safety
          /\ h.cfgImage = st.cfgImage
      BY DEF State, HalfRecreated
    <2> QED
      BY <2>1 DEF UpdateFits
  <1>6. UpdateFits("run", 4, st, mem, b, sp) => UpdateFits("run", 5, st, mem, b, sp)
    BY DEF UpdateFits
  <1>7. UpdateFits("run", 5, st, mem, b, sp) =>
            UpdateFits("run", 6, [st EXCEPT !.cfgImage = 2], mem, b, sp)
    BY DEF State, UpdateFits
  <1>8. UpdateFits("undo", i, st, mem, b, sp) /\ i # 3 => UpdateFits("undo", i - 1, st, mem, b, sp)
    BY DEF UpdateFits
  <1> QED
    BY <1>1, <1>2, <1>3, <1>4, <1>5, <1>6, <1>7, <1>8

\* Undo of replace-container: the image of the captured spec, and the site of
\* the backup, which the update has not changed.
LEMMA UpdateUndone ==
    ASSUME st \in State, mem \in Memory, NEW b \in State, NEW sp \in BOOLEAN,
           UpdateFits("undo", 3, st, mem, b, sp)
    PROVE  /\ mem.spec # 0
           /\ UpdateFits("undo", 2, [Recreated(OldImage) EXCEPT !.site = RestoredSite(@, mem.safety)],
                         mem, b, sp)
  <1> DEFINE r == Recreated(OldImage)
             s == [r EXCEPT !.site = RestoredSite(@, mem.safety)]
  <1>1. /\ b.cfgImage \in 1..2 /\ b.site \in Site /\ mem.safety = b.site /\ mem.spec = b.cfgImage
        /\ st.site = b.site /\ b.project = "active" /\ Rest(b, sp)
    BY DEF State, UpdateFits
  <1>2. mem.spec # 0
    BY <1>1
  <1>3. Whole(b)
    BY <1>1 DEF Rest
  <1>4. /\ r.project = st.project /\ r.secret = st.secret /\ r.dbRow = st.dbRow /\ r.app = st.app
        /\ r.site = st.site /\ r.safety = st.safety /\ r.cfgImage = st.cfgImage
        /\ r.ctr = "running" /\ r.image = mem.spec /\ r \in State
    BY <1>1 DEF State, Recreated, OldImage
  <1> HIDE DEF r
  <1>5. RestoredSite(r.site, mem.safety) = b.site
    BY <1>1, <1>4 DEF RestoredSite, Site
  <1>6. /\ s.project = r.project /\ s.secret = r.secret /\ s.dbRow = r.dbRow /\ s.app = r.app
        /\ s.site = b.site /\ s.safety = r.safety /\ s.cfgImage = r.cfgImage
        /\ s.ctr = "running" /\ s.image = r.image
    BY <1>4, <1>5 DEF State
  <1> HIDE DEF s
  <1>7. UpdateFits("undo", 2, s, mem, b, sp)
    BY <1>1, <1>3, <1>4, <1>6 DEF UpdateFits, Whole
  <1> QED
    BY <1>2, <1>7 DEF s, r

\* The steps of wordpress.update keep Sound.
LEMMA UpdateSound ==
    ASSUME TypeInv, Sound, ~torn, ~torn', spoilt \in BOOLEAN, op # "rollback" => spoilt' = spoilt,
           UpdateStep
    PROVE  Sound'
  <1>0. st \in State /\ mem \in Memory /\ before \in State
    BY DEF TypeInv, SitesTypeOK
  <1>1. CASE UpdateBackup
    <2>1. At("update-backup")
      BY <1>1 DEF UpdateBackup
    <2>2. /\ op = "update" /\ k = 1
          /\ At("update-backup") => mode = "run"
          /\ Undoing("update-backup") => mode = "undo"
      BY <2>1, Located DEF StepPlaces
    <2>3. UpdateFits(mode, 1, st, mem, before, spoilt) /\ spoilt' = spoilt
      BY <2>1, <2>2, BusyFits, OpFitsOf
    <2>4. /\ \A s, m : At("update-backup") /\ Done(s, m) /\ UpdateFits("run", 2, s, m, before, spoilt)
                 => Sound'
          /\ \A s, m : At("update-backup") /\ Fails(s, m) /\ UpdateFits("undo", 1, s, m, before, spoilt)
                 => Sound'
          /\ At("update-backup") /\ Refuses /\ UpdateFits("undo", 1, st, mem, before, spoilt) => Sound'
      BY <2>2, <2>3, OutcomesSound, OpFitsOf
    <2>5. /\ UpdateFits("run", 2, st, [mem EXCEPT !.safety = st.site], before, spoilt)
          /\ UpdateFits("undo", 1, st, mem, before, spoilt)
      BY <1>0, <2>1, <2>2, <2>3, UpdateMoves
    <2> QED
      BY <1>1, <2>4, <2>5 DEF UpdateBackup
  <1>2. CASE CaptureSpec
    <2>1. At("capture-current-spec")
      BY <1>2 DEF CaptureSpec
    <2>2. /\ op = "update" /\ k = 2
          /\ At("capture-current-spec") => mode = "run"
          /\ Undoing("capture-current-spec") => mode = "undo"
      BY <2>1, Located DEF StepPlaces
    <2>3. UpdateFits(mode, 2, st, mem, before, spoilt) /\ spoilt' = spoilt
      BY <2>1, <2>2, BusyFits, OpFitsOf
    <2>4. /\ \A s, m : At("capture-current-spec") /\ Done(s, m) /\ UpdateFits("run", 3, s, m, before, spoilt)
                 => Sound'
          /\ \A s, m : At("capture-current-spec") /\ Fails(s, m) /\ UpdateFits("undo", 2, s, m, before, spoilt)
                 => Sound'
          /\ At("capture-current-spec") /\ Refuses /\ UpdateFits("undo", 2, st, mem, before, spoilt) => Sound'
      BY <2>2, <2>3, OutcomesSound, OpFitsOf
    <2>5. /\ UpdateFits("run", 3, st, [mem EXCEPT !.spec = st.cfgImage], before, spoilt)
          /\ UpdateFits("undo", 2, st, mem, before, spoilt)
      BY <1>0, <2>1, <2>2, <2>3, UpdateMoves
    <2> QED
      BY <1>2, <2>4, <2>5 DEF CaptureSpec
  <1>3. CASE ReplaceContainer
    <2>1. At("replace-container") \/ Undoing("replace-container")
      BY <1>3 DEF ReplaceContainer, Undo
    <2>2. /\ op = "update" /\ k = 3
          /\ At("replace-container") => mode = "run"
          /\ Undoing("replace-container") => mode = "undo"
      BY <2>1, Located DEF StepPlaces
    <2>3. UpdateFits(mode, 3, st, mem, before, spoilt) /\ spoilt' = spoilt
      BY <2>1, <2>2, BusyFits, OpFitsOf
    <2>4. /\ \A s, m : At("replace-container") /\ Done(s, m) /\ UpdateFits("run", 4, s, m, before, spoilt)
                 => Sound'
          /\ \A s, m : At("replace-container") /\ Fails(s, m) /\ UpdateFits("undo", 3, s, m, before, spoilt)
                 => Sound'
          /\ At("replace-container") /\ Refuses /\ UpdateFits("undo", 3, st, mem, before, spoilt) => Sound'
          /\ \A s, halves : Undo("replace-container", s, halves) /\ UpdateFits("undo", 2, s, mem, before, spoilt)
                => Sound'
      BY <2>2, <2>3, OutcomesSound, OpFitsOf
    <2>5. CASE At("replace-container")
      <3>1. /\ UpdateFits("run", 4, Recreated(2), mem, before, spoilt)
            /\ \A h \in HalfRecreated(2) : UpdateFits("undo", 3, h, mem, before, spoilt)
        BY <1>0, <2>2, <2>3, <2>5, UpdateMoves
      <3>2. Done(Recreated(2), mem) \/ \E h \in HalfRecreated(2) : Fails(h, mem)
        BY <1>3, <2>5 DEF ReplaceContainer, Undo, At, Undoing
      <3> QED
        BY <2>4, <2>5, <3>1, <3>2
    <2>6. CASE Undoing("replace-container")
      <3> DEFINE back == [Recreated(OldImage) EXCEPT !.site = RestoredSite(@, mem.safety)]
      <3>1. mem.spec # 0 /\ UpdateFits("undo", 2, back, mem, before, spoilt)
        BY <1>0, <2>2, <2>3, <2>6, UpdateUndone
      <3>2. \E halves : Undo("replace-container", back, halves)
        BY <1>3, <2>6, <3>1 DEF ReplaceContainer, At, Undoing
      <3> HIDE DEF back
      <3> QED
        BY <2>4, <3>1, <3>2
    <2> QED
      BY <2>1, <2>5, <2>6
  <1>4. CASE UpdateHealth
    <2>1. At("update-health")
      BY <1>4 DEF UpdateHealth
    <2>2. /\ op = "update" /\ k = 4
          /\ At("update-health") => mode = "run"
          /\ Undoing("update-health") => mode = "undo"
      BY <2>1, Located DEF StepPlaces
    <2>3. UpdateFits(mode, 4, st, mem, before, spoilt) /\ spoilt' = spoilt
      BY <2>1, <2>2, BusyFits, OpFitsOf
    <2>4. /\ \A s, m : At("update-health") /\ Done(s, m) /\ UpdateFits("run", 5, s, m, before, spoilt)
                 => Sound'
          /\ \A s, m : At("update-health") /\ Fails(s, m) /\ UpdateFits("undo", 4, s, m, before, spoilt)
                 => Sound'
          /\ At("update-health") /\ Refuses /\ UpdateFits("undo", 4, st, mem, before, spoilt) => Sound'
      BY <2>2, <2>3, OutcomesSound, OpFitsOf
    <2>5. /\ UpdateFits("run", 5, st, mem, before, spoilt)
          /\ UpdateFits("undo", 4, st, mem, before, spoilt)
      BY <1>0, <2>1, <2>2, <2>3, UpdateMoves
    <2> QED
      BY <1>4, <2>4, <2>5 DEF UpdateHealth
  <1>5. CASE Record
    <2>1. At("record")
      BY <1>5 DEF Record
    <2>2. /\ op = "update" /\ k = 5
          /\ At("record") => mode = "run"
          /\ Undoing("record") => mode = "undo"
      BY <2>1, Located DEF StepPlaces
    <2>3. UpdateFits(mode, 5, st, mem, before, spoilt) /\ spoilt' = spoilt
      BY <2>1, <2>2, BusyFits, OpFitsOf
    <2>4. /\ \A s, m : At("record") /\ Done(s, m) /\ UpdateFits("run", 6, s, m, before, spoilt)
                 => Sound'
          /\ \A s, m : At("record") /\ Fails(s, m) /\ UpdateFits("undo", 5, s, m, before, spoilt)
                 => Sound'
          /\ At("record") /\ Refuses /\ UpdateFits("undo", 5, st, mem, before, spoilt) => Sound'
      BY <2>2, <2>3, OutcomesSound, OpFitsOf
    <2>5. /\ UpdateFits("run", 6, [st EXCEPT !.cfgImage = 2], mem, before, spoilt)
          /\ UpdateFits("undo", 5, st, mem, before, spoilt)
      BY <1>0, <2>1, <2>2, <2>3, UpdateMoves
    <2> QED
      BY <1>5, <2>4, <2>5 DEF Record
  <1> QED
    BY <1>1, <1>2, <1>3, <1>4, <1>5 DEF UpdateStep

\* t has the project, the site and the host of s.
SameHosting(s, t) ==
    /\ t.project = s.project /\ t.site = s.site /\ t.secret = s.secret /\ t.dbRow = s.dbRow
    /\ t.ctr = s.ctr /\ t.image = s.image /\ t.cfgImage = s.cfgImage /\ t.app = s.app
    /\ t.safety = s.safety

\* A state with the same hosting is at rest if the first is, unless a migration
\* was planned for a project that is not built.
LEMMA HostingKept ==
    ASSUME NEW s, NEW t, NEW sp, SameHosting(s, t),
           t.mig \notin Later \/ t.mig = s.mig \/ s.project \in Built
    PROVE  /\ Rest(s, sp) => Rest(t, sp)
           /\ \A b : PlanFits(s, b, sp) => PlanFits(t, b, sp)
  BY DEF SameHosting, PlanFits, Rest, Bare, Whole, Built

\* Writing a migration's status leaves the hosting and what is staged alone.
LEMMA SetMigHosting ==
    ASSUME NEW s \in State, NEW v \in MigrationStatuses
    PROVE  /\ SameHosting(s, SetMig(s, v)) /\ SetMig(s, v) \in State
           /\ SetMig(s, v).stage = s.stage /\ SetMig(s, v).sdb = s.sdb
  BY DEF State, SetMig, SameHosting

\* Writing a migration's status in the middle of migration.run.
LEMMA SetMigFits ==
    ASSUME NEW s \in State, NEW v \in MigrationStatuses, NEW md, NEW i, NEW b, NEW sp,
           RunFits(md, i, s, b, sp)
    PROVE  RunFits(md, i, SetMig(s, v), b, sp)
  <1>1. PlanFits(SetMig(s, v), b, sp)
    BY SetMigHosting, HostingKept DEF RunFits
  <1> QED
    BY <1>1, SetMigHosting DEF RunFits, SameHosting

\* migration.run, step by step: staged is what transfer-files made, made what
\* create-staging-database made, and what they leave behind when undone.
LEMMA RunMoves ==
    ASSUME st \in State, NEW b \in State, NEW sp \in BOOLEAN, NEW i \in Int
    PROVE  /\ RunFits("run", i, st, b, sp) =>
                 RunFits("undo", i, st, b, sp) /\ RunFits("undo", i - 1, st, b, sp)
           /\ RunFits("run", i, st, b, sp) /\ i \notin {2, 3} => RunFits("run", i + 1, st, b, sp)
           /\ RunFits("run", 2, st, b, sp) =>
                 LET staged == [st EXCEPT !.stage = st.archive]
                 IN RunFits("run", 3, staged, b, sp) /\ RunFits("undo", 2, staged, b, sp)
           /\ RunFits("run", 3, st, b, sp) =>
                 LET made == [st EXCEPT !.sdb = IF @ = "none" THEN "empty" ELSE @]
                 IN RunFits("run", 4, made, b, sp) /\ RunFits("undo", 3, made, b, sp)
           /\ RunFits("run", 4, st, b, sp) => RunFits("run", 5, [st EXCEPT !.sdb = "loaded"], b, sp)
           /\ RunFits("undo", i, st, b, sp) /\ i \notin {2, 3} => RunFits("undo", i - 1, st, b, sp)
           /\ RunFits("undo", 3, st, b, sp) => RunFits("undo", 2, [st EXCEPT !.sdb = "none"], b, sp)
           /\ RunFits("undo", 2, st, b, sp) => RunFits("undo", 1, [st EXCEPT !.stage = 0], b, sp)
  <1> DEFINE staged(v) == [st EXCEPT !.stage = v]
             made(v) == [st EXCEPT !.sdb = v]
  <1>1. RunFits("run", i, st, b, sp) =>
            RunFits("undo", i, st, b, sp) /\ RunFits("undo", i - 1, st, b, sp)
    BY DEF RunFits
  <1>2. RunFits("run", i, st, b, sp) /\ i \notin {2, 3} => RunFits("run", i + 1, st, b, sp)
    BY DEF RunFits
  <1>3. /\ \A v : /\ SameHosting(st, staged(v)) /\ staged(v).sdb = st.sdb /\ staged(v).stage = v
                 /\ staged(v).project = st.project /\ staged(v).mig = st.mig
        /\ \A v : /\ SameHosting(st, made(v)) /\ made(v).sdb = v /\ made(v).stage = st.stage
                 /\ made(v).project = st.project /\ made(v).mig = st.mig
    BY DEF SameHosting, State
  <1> HIDE DEF staged, made
  <1>4. \A v : PlanFits(st, b, sp) => PlanFits(staged(v), b, sp) /\ PlanFits(made(v), b, sp)
    BY <1>3, HostingKept
  <1>5. RunFits("run", 2, st, b, sp) =>
            \A v : RunFits("run", 3, staged(v), b, sp) /\ RunFits("undo", 2, staged(v), b, sp)
    BY <1>3, <1>4 DEF RunFits
  <1>6. RunFits("run", 3, st, b, sp) =>
            \A v : RunFits("run", 4, made(v), b, sp) /\ RunFits("undo", 3, made(v), b, sp)
    BY <1>3, <1>4 DEF RunFits
  <1>7. RunFits("run", 4, st, b, sp) => RunFits("run", 5, made("loaded"), b, sp)
    BY <1>3, <1>4 DEF RunFits
  <1>8. RunFits("undo", i, st, b, sp) /\ i \notin {2, 3} => RunFits("undo", i - 1, st, b, sp)
    BY DEF RunFits
  <1>9. RunFits("undo", 3, st, b, sp) => RunFits("undo", 2, made("none"), b, sp)
    BY <1>3, <1>4 DEF RunFits
  <1>10. RunFits("undo", 2, st, b, sp) => RunFits("undo", 1, staged(0), b, sp)
    BY <1>3, <1>4 DEF RunFits
  <1> QED
    BY <1>1, <1>2, <1>5, <1>6, <1>7, <1>8, <1>9, <1>10 DEF staged, made

\* The steps of migration.plan keep Sound.
LEMMA PlanSound ==
    ASSUME TypeInv, Sound, ~torn, ~torn', spoilt \in BOOLEAN, op # "rollback" => spoilt' = spoilt,
           Discovery \/ Preflight
    PROVE  Sound'
  <1>1. PICK n \in {"discovery", "preflight"} : At(n)
    BY DEF Discovery, Preflight
  <1>2. op = "plan" /\ mode = "run" /\ st \in State /\ mem.found \in Versions
    BY <1>1, Located DEF StepPlaces, TypeInv, SitesTypeOK, Memory
  <1>3. PlanFits(st, before, spoilt) /\ spoilt' = spoilt
    BY <1>2, BusyFits, OpFitsOf
  <1>4. /\ \A s, m : Done(s, m) /\ PlanFits(s, before, spoilt) => Sound'
        /\ \A s, m : Fails(s, m) /\ PlanFits(s, before, spoilt) => Sound'
    BY <1>1, <1>2, <1>3, OutcomesSound, OpFitsOf
  <1>5. CASE Discovery
    BY <1>3, <1>4, <1>5 DEF Discovery
  <1>6. CASE Preflight
    <2> DEFINE report(v) == [st EXCEPT !.mig = v, !.planned = mem.found]
    <2>1. \A v : SameHosting(st, report(v)) /\ report(v).mig = v
      BY <1>2 DEF SameHosting, State
    <2>2. \/ st.project = "active" /\ Done(report("planned"), mem)
          \/ Done(report("preflight_failed"), mem) \/ Fails(st, mem)
      BY <1>6 DEF Preflight
    <2> HIDE DEF report
    <2>3. PlanFits(report("preflight_failed"), before, spoilt)
      BY <1>3, <2>1, HostingKept DEF Later
    <2>4. st.project = "active" => PlanFits(report("planned"), before, spoilt)
      BY <1>3, <2>1, HostingKept DEF Built
    <2> QED
      BY <1>3, <1>4, <2>2, <2>3, <2>4
  <1> QED
    BY <1>5, <1>6

\* The steps of migration.run keep Sound.
LEMMA RunSound ==
    ASSUME TypeInv, Sound, ~torn, ~torn', spoilt \in BOOLEAN, op # "rollback" => spoilt' = spoilt,
           RunStep
    PROVE  Sound'
  <1>0. st \in State /\ before \in State
    BY DEF TypeInv, SitesTypeOK
  <1>s. \A v \in {"transferring", "importing", "validating", "ready_for_cutover", "failed"} :
            v \in MigrationStatuses
    BY DEF MigrationStatuses
  <1>m. \A md, i, s : \A v \in {"transferring", "importing", "validating", "ready_for_cutover", "failed"} :
            s \in State /\ RunFits(md, i, s, before, spoilt) => RunFits(md, i, SetMig(s, v), before, spoilt)
    BY <1>s, SetMigFits
  <1>u. \A i \in Int : RunFits("run", i, st, before, spoilt) =>
            /\ RunFits("undo", i, st, before, spoilt)
            /\ i \notin {2, 3} => RunFits("run", i + 1, st, before, spoilt)
    BY <1>0, RunMoves
  <1>1. CASE MarkRunning
    <2>1. At("mark-running") \/ Undoing("mark-running")
      BY <1>1 DEF MarkRunning, Undo
    <2>2. /\ op = "run" /\ k = 1
          /\ At("mark-running") => mode = "run"
          /\ Undoing("mark-running") => mode = "undo"
      BY <2>1, Located DEF StepPlaces
    <2>3. RunFits(mode, 1, st, before, spoilt) /\ spoilt' = spoilt
      BY <2>1, <2>2, BusyFits, OpFitsOf
    <2>4. /\ \A s, m : At("mark-running") /\ Done(s, m) /\ RunFits("run", 2, s, before, spoilt)
                 => Sound'
          /\ \A s, m : At("mark-running") /\ Fails(s, m) /\ RunFits("undo", 1, s, before, spoilt)
                 => Sound'
          /\ \A s, halves : Undo("mark-running", s, halves) /\ RunFits("undo", 0, s, before, spoilt)
                 => Sound'
          /\ \A s : Unwritten(s) => Sound'
      BY <2>2, <2>3, OutcomesSound, OpFitsOf
    <2>5. At("mark-running") =>
             /\ RunFits("run", 2, st, before, spoilt)
             /\ RunFits("undo", 1, st, before, spoilt)
      BY <1>u, <2>2, <2>3
    <2>6. Undoing("mark-running") => RunFits("undo", 0, st, before, spoilt)
      BY <1>0, <2>2, <2>3, RunMoves
    <2> QED
      BY <1>0, <1>m, <1>1, <2>4, <2>5, <2>6 DEF MarkRunning, Undo
  <1>2. CASE TransferFiles
    <2>1. At("transfer-files") \/ Undoing("transfer-files")
      BY <1>2 DEF TransferFiles, Undo
    <2>2. /\ op = "run" /\ k = 2
          /\ At("transfer-files") => mode = "run"
          /\ Undoing("transfer-files") => mode = "undo"
      BY <2>1, Located DEF StepPlaces
    <2>3. RunFits(mode, 2, st, before, spoilt) /\ spoilt' = spoilt
      BY <2>1, <2>2, BusyFits, OpFitsOf
    <2>4. /\ \A s, m : At("transfer-files") /\ Done(s, m) /\ RunFits("run", 3, s, before, spoilt)
                 => Sound'
          /\ \A s, m : At("transfer-files") /\ Fails(s, m) /\ RunFits("undo", 2, s, before, spoilt)
                 => Sound'
          /\ \A s, halves : Undo("transfer-files", s, halves) /\ RunFits("undo", 1, s, before, spoilt)
                 => Sound'
          /\ \A s : Unwritten(s) => Sound'
      BY <2>2, <2>3, OutcomesSound, OpFitsOf
    <2> DEFINE staged == [st EXCEPT !.stage = st.archive]
    <2>5. At("transfer-files") =>
             /\ RunFits("run", 3, staged, before, spoilt)
             /\ RunFits("undo", 2, staged, before, spoilt)
             /\ RunFits("undo", 2, st, before, spoilt)
      BY <1>0, <2>2, <2>3, RunMoves
    <2>6. Undoing("transfer-files") => RunFits("undo", 1, Unstaged, before, spoilt)
      BY <1>0, <2>2, <2>3, RunMoves DEF Unstaged
    <2>7. staged \in State
      BY <1>0 DEF State
    <2> QED
      BY <1>0, <1>m, <1>2, <2>4, <2>5, <2>6, <2>7 DEF TransferFiles, Undo
  <1>3. CASE CreateStagingDatabase
    <2>1. At("create-staging-database") \/ Undoing("create-staging-database")
      BY <1>3 DEF CreateStagingDatabase, Undo
    <2>2. /\ op = "run" /\ k = 3
          /\ At("create-staging-database") => mode = "run"
          /\ Undoing("create-staging-database") => mode = "undo"
      BY <2>1, Located DEF StepPlaces
    <2>3. RunFits(mode, 3, st, before, spoilt) /\ spoilt' = spoilt
      BY <2>1, <2>2, BusyFits, OpFitsOf
    <2>4. /\ \A s, m : At("create-staging-database") /\ Done(s, m) /\ RunFits("run", 4, s, before, spoilt)
                 => Sound'
          /\ \A s, m : At("create-staging-database") /\ Fails(s, m) /\ RunFits("undo", 3, s, before, spoilt)
                 => Sound'
          /\ \A s, halves : Undo("create-staging-database", s, halves) /\ RunFits("undo", 2, s, before, spoilt)
                 => Sound'
          /\ \A s : Unwritten(s) => Sound'
      BY <2>2, <2>3, OutcomesSound, OpFitsOf
    <2> DEFINE made == [st EXCEPT !.sdb = IF @ = "none" THEN "empty" ELSE @]
    <2>5. At("create-staging-database") =>
             /\ RunFits("run", 4, made, before, spoilt)
             /\ RunFits("undo", 3, made, before, spoilt)
             /\ RunFits("undo", 3, st, before, spoilt)
      BY <1>0, <2>2, <2>3, RunMoves
    <2>6. Undoing("create-staging-database") => RunFits("undo", 2, [st EXCEPT !.sdb = "none"], before, spoilt)
      BY <1>0, <2>2, <2>3, RunMoves
    <2> QED
      BY <1>0, <1>m, <1>3, <2>4, <2>5, <2>6 DEF CreateStagingDatabase, Undo
  <1>4. CASE ImportDatabase
    <2>1. At("import-database")
      BY <1>4 DEF ImportDatabase
    <2>2. /\ op = "run" /\ k = 4
          /\ At("import-database") => mode = "run"
          /\ Undoing("import-database") => mode = "undo"
      BY <2>1, Located DEF StepPlaces
    <2>3. RunFits(mode, 4, st, before, spoilt) /\ spoilt' = spoilt
      BY <2>1, <2>2, BusyFits, OpFitsOf
    <2>4. /\ \A s, m : At("import-database") /\ Done(s, m) /\ RunFits("run", 5, s, before, spoilt)
                 => Sound'
          /\ \A s, m : At("import-database") /\ Fails(s, m) /\ RunFits("undo", 4, s, before, spoilt)
                 => Sound'
          /\ \A s, halves : Undo("import-database", s, halves) /\ RunFits("undo", 3, s, before, spoilt)
                 => Sound'
          /\ \A s : Unwritten(s) => Sound'
      BY <2>2, <2>3, OutcomesSound, OpFitsOf
    <2> DEFINE loaded == [st EXCEPT !.sdb = "loaded"]
    <2>5. At("import-database") =>
              RunFits("run", 5, loaded, before, spoilt) /\ RunFits("undo", 4, st, before, spoilt)
      <3>1. RunFits("run", 4, st, before, spoilt) => RunFits("run", 5, loaded, before, spoilt)
        BY <1>0, RunMoves
      <3> HIDE DEF loaded
      <3> QED
        BY <1>u, <2>2, <2>3, <3>1
    <2>7. loaded \in State
      BY <1>0 DEF State
    <2> QED
      BY <1>0, <1>m, <1>4, <2>4, <2>5, <2>7 DEF ImportDatabase
  <1>5. CASE ValidateRun
    <2>1. At("validate")
      BY <1>5 DEF ValidateRun
    <2>2. /\ op = "run" /\ k = 5
          /\ At("validate") => mode = "run"
          /\ Undoing("validate") => mode = "undo"
      BY <2>1, Located DEF StepPlaces
    <2>3. RunFits(mode, 5, st, before, spoilt) /\ spoilt' = spoilt
      BY <2>1, <2>2, BusyFits, OpFitsOf
    <2>4. /\ \A s, m : At("validate") /\ Done(s, m) /\ RunFits("run", 6, s, before, spoilt)
                 => Sound'
          /\ \A s, m : At("validate") /\ Fails(s, m) /\ RunFits("undo", 5, s, before, spoilt)
                 => Sound'
          /\ \A s, halves : Undo("validate", s, halves) /\ RunFits("undo", 4, s, before, spoilt)
                 => Sound'
          /\ \A s : Unwritten(s) => Sound'
      BY <2>2, <2>3, OutcomesSound, OpFitsOf
    <2>5. At("validate") =>
             /\ RunFits("run", 6, st, before, spoilt)
             /\ RunFits("undo", 5, st, before, spoilt)
      BY <1>u, <2>2, <2>3
    <2> QED
      BY <1>0, <1>m, <1>5, <2>4, <2>5 DEF ValidateRun
  <1>6. CASE Ready
    <2>1. At("ready")
      BY <1>6 DEF Ready
    <2>2. /\ op = "run" /\ k = 6
          /\ At("ready") => mode = "run"
          /\ Undoing("ready") => mode = "undo"
      BY <2>1, Located DEF StepPlaces
    <2>3. RunFits(mode, 6, st, before, spoilt) /\ spoilt' = spoilt
      BY <2>1, <2>2, BusyFits, OpFitsOf
    <2>4. /\ \A s, m : At("ready") /\ Done(s, m) /\ RunFits("run", 7, s, before, spoilt) => Sound'
          /\ \A s, m : At("ready") /\ Fails(s, m) /\ RunFits("undo", 6, s, before, spoilt) => Sound'
          /\ \A s, halves : Undo("ready", s, halves) /\ RunFits("undo", 5, s, before, spoilt)
                 => Sound'
          /\ \A s : Unwritten(s) => Sound'
      BY <2>2, <2>3, OutcomesSound, OpFitsOf
    <2>5. At("ready") =>
             /\ RunFits("run", 7, st, before, spoilt)
             /\ RunFits("undo", 6, st, before, spoilt)
      BY <1>u, <2>2, <2>3
    <2> QED
      BY <1>0, <1>m, <1>6, <2>4, <2>5 DEF Ready
  <1>7. CASE Discovery \/ Preflight
    BY <1>7, PlanSound
  <1> QED
    BY <1>1, <1>2, <1>3, <1>4, <1>5, <1>6, <1>7 DEF RunStep

\* migration.cutover, step by step; b is the state its Validate read.
LEMMA CutoverKept ==
    ASSUME NEW s, NEW t, NEW md, NEW i, NEW m, NEW b, NEW sp, SameHosting(s, t),
           CutoverFits(md, i, s, m, b, sp)
    PROVE  CutoverFits(md, i, t, m, b, sp)
  BY DEF SameHosting, CutoverFits, Owned

\* A step that fails, is cancelled or has no Undo.
LEMMA CutoverTurns ==
    ASSUME NEW s, NEW m, NEW b, NEW sp, NEW i \in Int
    PROVE  /\ CutoverFits("run", i, s, m, b, sp) =>
                 CutoverFits("undo", i, s, m, b, sp) /\ CutoverFits("undo", i - 1, s, m, b, sp)
           /\ CutoverFits("undo", i, s, m, b, sp) /\ i \notin {1, 3} => CutoverFits("undo", i - 1, s, m, b, sp)
           /\ CutoverFits("undo", 1, s, m, b, sp) => CutoverFits("undo", 0, s, m, b, sp)
           /\ CutoverFits("run", 6, s, m, b, sp) => CutoverFits("run", 7, s, m, b, sp)
           /\ CutoverFits("run", 1, s, m, b, sp) /\ s.dbRow /\ s.project # "deleted"
                 => CutoverFits("run", 2, s, m, b, sp)
  <1>1. CutoverFits("run", i, s, m, b, sp) =>
            CutoverFits("undo", i, s, m, b, sp) /\ CutoverFits("undo", i - 1, s, m, b, sp)
    BY DEF CutoverFits
  <1>2. /\ CutoverFits("undo", i, s, m, b, sp) /\ i \notin {1, 3} => CutoverFits("undo", i - 1, s, m, b, sp)
    BY DEF CutoverFits
  <1>3. CutoverFits("undo", 1, s, m, b, sp) => CutoverFits("undo", 0, s, m, b, sp)
    BY DEF CutoverFits
  <1>4. CutoverFits("run", 6, s, m, b, sp) => CutoverFits("run", 7, s, m, b, sp)
    BY DEF CutoverFits
  <1>5. CutoverFits("run", 1, s, m, b, sp) /\ s.dbRow /\ s.project # "deleted"
            => CutoverFits("run", 2, s, m, b, sp)
    BY DEF CutoverFits, Owned
  <1> QED
    BY <1>1, <1>2, <1>3, <1>4, <1>5

\* The steps of a cutover that did their work, and those that failed half-way in
\* the files or in the data.
LEMMA CutoverMoves ==
    ASSUME st \in State, mem \in Memory, NEW b \in State, NEW sp \in BOOLEAN
    PROVE  /\ CutoverFits("run", 2, st, mem, b, sp) /\ Snapshottable =>
                 LET taken == [mem EXCEPT !.safety = st.site] IN
                 /\ CutoverFits("run", 3, [st EXCEPT !.safety = st.site], taken, b, sp)
                 /\ CutoverFits("undo", 2, st, taken, b, sp)
           /\ CutoverFits("run", 3, st, mem, b, sp) =>
                 /\ CutoverFits("run", 4, NewFiles, mem, b, sp)
                 /\ \A i \in {"none", "new"} :
                       CutoverFits("undo", 3, [st EXCEPT !.site.index = i, !.site.plugin = "none"],
                                   mem, b, sp)
           /\ CutoverFits("run", 4, st, mem, b, sp) =>
                 /\ CutoverFits("run", 5, [st EXCEPT !.site.data = "new"], mem, b, sp)
                 /\ CutoverFits("undo", 4, [st EXCEPT !.site.data = "mixed"], mem, b, sp)
           /\ CutoverFits("run", 5, st, mem, b, sp) =>
                 CutoverFits("run", 6, [st EXCEPT !.ctr = IF @ = "none" THEN @ ELSE "running"], mem, b, sp)
  <1>1. CutoverFits("run", 2, st, mem, b, sp) /\ Snapshottable =>
            CutoverFits("run", 3, [st EXCEPT !.safety = st.site], [mem EXCEPT !.safety = st.site], b, sp)
    BY DEF State, Memory, Snapshottable, CutoverFits, Owned
  <1>2. CutoverFits("run", 2, st, mem, b, sp) =>
            CutoverFits("undo", 2, st, [mem EXCEPT !.safety = st.site], b, sp)
    BY DEF Memory, CutoverFits
  <1>3. CutoverFits("run", 3, st, mem, b, sp) => CutoverFits("run", 4, NewFiles, mem, b, sp)
    <2>1. /\ NewFiles.site.index = "new" /\ NewFiles.site.plugin = "new"
          /\ NewFiles.site.data = st.site.data /\ NewFiles.project = st.project
          /\ NewFiles.secret = st.secret /\ NewFiles.dbRow = st.dbRow /\ NewFiles.ctr = st.ctr
          /\ NewFiles.image = st.image /\ NewFiles.cfgImage = st.cfgImage
          /\ NewFiles.app = st.app /\ NewFiles.safety = st.safety
      BY DEF State, Site, NewFiles
    <2> QED
      BY <2>1 DEF CutoverFits, Owned
  <1>4. CutoverFits("run", 3, st, mem, b, sp) =>
            \A i \in {"none", "new"} :
                CutoverFits("undo", 3, [st EXCEPT !.site.index = i, !.site.plugin = "none"], mem, b, sp)
    BY DEF State, Site, CutoverFits, Owned
  <1>5. CutoverFits("run", 4, st, mem, b, sp) =>
            CutoverFits("run", 5, [st EXCEPT !.site.data = "new"], mem, b, sp)
    BY DEF State, Site, CutoverFits, Owned
  <1>6. CutoverFits("run", 4, st, mem, b, sp) =>
            CutoverFits("undo", 4, [st EXCEPT !.site.data = "mixed"], mem, b, sp)
    BY DEF State, Site, CutoverFits, Owned
  <1>7. CutoverFits("run", 5, st, mem, b, sp) =>
            CutoverFits("run", 6, [st EXCEPT !.ctr = IF @ = "none" THEN @ ELSE "running"], mem, b, sp)
    BY DEF State, CutoverFits, Owned
  <1> QED
    BY <1>1, <1>2, <1>3, <1>4, <1>5, <1>6, <1>7

\* Undo of swap-files: the safety backup holds the index and the data that
\* the site had, and the database is still registered.
LEMMA CutoverUndone ==
    ASSUME st \in State, mem \in Memory, NEW b \in State, NEW sp \in BOOLEAN,
           CutoverFits("undo", 3, st, mem, b, sp)
    PROVE  mem.safety # NoSite /\ CutoverFits("undo", 2, SafetyRestored(mem.safety), mem, b, sp)
  <1>1. mem.safety = b.site /\ b.site \in Site /\ st.dbRow /\ b.site.data # "none"
    BY DEF State, CutoverFits, Owned, Rest
  <1>2. mem.safety # NoSite
    BY <1>1 DEF NoSite
  <1> DEFINE r == RestoredSite(st.site, mem.safety)
             s == [st EXCEPT !.site = r]
  <1>3. (b.site.index # "none" => r.index = b.site.index) /\ r.data = b.site.data
    BY <1>1 DEF RestoredSite
  <1> HIDE DEF r
  <1>4. /\ s.site = r /\ s.project = st.project /\ s.secret = st.secret /\ s.dbRow = st.dbRow
        /\ s.ctr = st.ctr /\ s.image = st.image /\ s.cfgImage = st.cfgImage /\ s.app = st.app
        /\ s.safety = st.safety
    BY DEF State
  <1> HIDE DEF s
  <1>5. CutoverFits("undo", 2, s, mem, b, sp)
    BY <1>3, <1>4 DEF CutoverFits, Owned
  <1>6. SafetyRestored(mem.safety) = s
    BY DEF SafetyRestored, Restored, s, r
  <1> QED
    BY <1>2, <1>5, <1>6

\* migration.rollback: the restored site is whole again, and a site it fails to
\* restore has mixed data and still its backup.
LEMMA RollbackMoves ==
    ASSUME st \in State, NEW sp \in BOOLEAN, NEW now \in BOOLEAN, sp => now, RollbackFits(st, sp)
    PROVE  /\ RollbackFits(st, now) /\ RollbackFits(Restored(st.safety), now)
           /\ \A h \in HalfRestored(st.safety) : (h.site.data = "mixed" => now) => RollbackFits(h, now)
  <1> DEFINE r == RestoredSite(st.site, st.safety)
             with(c) == [st EXCEPT !.site = c]
  <1>1. st.site \in Site /\ st.safety \in Site
    BY DEF State
  <1>2. /\ st.site.index # "none" => r.index # "none"
        /\ st.safety.data # "none"
        /\ r.data = IF st.dbRow THEN st.safety.data ELSE st.site.data
    BY DEF RestoredSite, RollbackFits, Rest
  <1> HIDE DEF r
  <1>3. \A c : /\ with(c).site = c /\ with(c).project = st.project /\ with(c).secret = st.secret
               /\ with(c).dbRow = st.dbRow /\ with(c).ctr = st.ctr /\ with(c).image = st.image
               /\ with(c).cfgImage = st.cfgImage /\ with(c).app = st.app
               /\ with(c).safety = st.safety /\ with(c).mig = st.mig
    BY DEF State
  <1> HIDE DEF with
  <1>4. \A c : (st.site.index # "none" => c.index # "none") /\ (st.dbRow => c.data # "none") /\ (c.data = "mixed" => now)
                => RollbackFits(with(c), now)
    BY <1>3 DEF RollbackFits, Rest, Bare, Whole
  <1>5. RollbackFits(st, now)
    BY DEF RollbackFits, Rest
  <1>6. Restored(st.safety) = with(r)
    BY DEF Restored, r, with
  <1>7. RollbackFits(Restored(st.safety), now)
    BY <1>2, <1>4, <1>6 DEF RollbackFits, Rest
  <1>8. HalfRestored(st.safety) = {st, with(IF st.dbRow THEN [r EXCEPT !.data = "mixed"] ELSE r)}
    BY DEF HalfRestored, r, with
  <1>9. r \in Site
    BY <1>1, RestoredTyped DEF r
  <1>10. /\ [r EXCEPT !.data = "mixed"].index = r.index
         /\ [r EXCEPT !.data = "mixed"].data = "mixed"
    BY <1>9 DEF Site
  <1>11. ASSUME NEW h \in HalfRestored(st.safety), h.site.data = "mixed" => now
         PROVE  RollbackFits(h, now)
    <2>1. CASE h = st
      BY <1>5, <2>1
    <2>2. CASE h = with(r) /\ ~st.dbRow
      BY <1>2, <1>3, <1>4, <1>11, <2>2
    <2>3. CASE h = with([r EXCEPT !.data = "mixed"])
      BY <1>2, <1>3, <1>4, <1>10, <1>11, <2>3
    <2> QED
      BY <1>8, <1>11, <2>1, <2>2, <2>3
  <1> QED
    BY <1>5, <1>7, <1>11

\* The steps of migration.cutover keep Sound.
LEMMA CutoverSound ==
    ASSUME TypeInv, Sound, ~torn, ~torn', spoilt \in BOOLEAN, op # "rollback" => spoilt' = spoilt,
           Begin \/ SafetyBackup \/ SwapFiles \/ SwapDatabase \/ RestartVerify \/ Finalize
    PROVE  Sound'
  <1>0. st \in State /\ mem \in Memory /\ before \in State
    BY DEF TypeInv, SitesTypeOK
  <1>s. \A v \in {"cutting_over", "ready_for_cutover", "completed"} : v \in MigrationStatuses
    BY DEF MigrationStatuses
  <1>m. \A md, i, s, m : \A v \in {"cutting_over", "ready_for_cutover", "completed"} :
            s \in State /\ CutoverFits(md, i, s, m, before, spoilt)
                => CutoverFits(md, i, SetMig(s, v), m, before, spoilt)
    BY <1>s, SetMigHosting, CutoverKept
  <1>u. \A i \in Int : CutoverFits("run", i, st, mem, before, spoilt) =>
            CutoverFits("undo", i, st, mem, before, spoilt)
    BY CutoverTurns
  <1>1. CASE Begin
    <2>1. At("begin") \/ Undoing("begin")
      BY <1>1 DEF Begin, Undo
    <2>2. /\ op = "cutover" /\ k = 1
          /\ At("begin") => mode = "run"
          /\ Undoing("begin") => mode = "undo"
      BY <2>1, Located DEF StepPlaces
    <2>3. CutoverFits(mode, 1, st, mem, before, spoilt) /\ spoilt' = spoilt
      BY <2>1, <2>2, BusyFits, OpFitsOf
    <2>4. /\ \A s, m : At("begin") /\ Done(s, m) /\ CutoverFits("run", 2, s, m, before, spoilt)
                 => Sound'
          /\ \A s, m : At("begin") /\ Fails(s, m) /\ CutoverFits("undo", 1, s, m, before, spoilt)
                 => Sound'
          /\ At("begin") /\ Refuses /\ CutoverFits("undo", 1, st, mem, before, spoilt) => Sound'
          /\ \A s, halves : Undo("begin", s, halves) /\ CutoverFits("undo", 0, s, mem, before, spoilt)
                => Sound'
          /\ \A s : Unwritten(s) => Sound'
      BY <2>2, <2>3, OutcomesSound, OpFitsOf
    <2>5. At("begin") => CutoverFits("undo", 1, st, mem, before, spoilt)
      BY <1>u, <2>2, <2>3
    <2>6. At("begin") /\ st.dbRow /\ st.project # "deleted" => CutoverFits("run", 2, st, mem, before, spoilt)
      BY <2>2, <2>3, CutoverTurns
    <2>7. Undoing("begin") => CutoverFits("undo", 0, st, mem, before, spoilt)
      BY <2>2, <2>3, CutoverTurns
    <2> QED
      BY <1>0, <1>1, <1>m, <2>4, <2>5, <2>6, <2>7 DEF Begin, Undo, Unbegun
  <1>2. CASE SafetyBackup
    <2>1. At("safety-backup")
      BY <1>2 DEF SafetyBackup
    <2>2. /\ op = "cutover" /\ k = 2
          /\ At("safety-backup") => mode = "run"
          /\ Undoing("safety-backup") => mode = "undo"
      BY <2>1, Located DEF StepPlaces
    <2>3. CutoverFits(mode, 2, st, mem, before, spoilt) /\ spoilt' = spoilt
      BY <2>1, <2>2, BusyFits, OpFitsOf
    <2>4. /\ \A s, m : At("safety-backup") /\ Done(s, m) /\ CutoverFits("run", 3, s, m, before, spoilt)
                 => Sound'
          /\ \A s, m : At("safety-backup") /\ Fails(s, m) /\ CutoverFits("undo", 2, s, m, before, spoilt)
                 => Sound'
          /\ At("safety-backup") /\ Refuses /\ CutoverFits("undo", 2, st, mem, before, spoilt) => Sound'
          /\ \A s, halves : Undo("safety-backup", s, halves) /\ CutoverFits("undo", 1, s, mem, before, spoilt)
                => Sound'
          /\ \A s : Unwritten(s) => Sound'
      BY <2>2, <2>3, OutcomesSound, OpFitsOf
    <2>5. At("safety-backup") => CutoverFits("undo", 2, st, mem, before, spoilt)
      BY <1>u, <2>2, <2>3
    <2> DEFINE taken == [mem EXCEPT !.safety = st.site]
               backed == [st EXCEPT !.safety = st.site]
    <2>6. /\ Snapshottable => CutoverFits("run", 3, backed, taken, before, spoilt)
          /\ Snapshottable => CutoverFits("undo", 2, st, taken, before, spoilt)
      BY <1>0, <2>1, <2>2, <2>3, CutoverMoves
    <2>7. \/ Refuses
          \/ Snapshottable /\ (Done(backed, taken) \/ Fails(st, mem) \/ Fails(st, taken))
      BY <1>2 DEF SafetyBackup
    <2> HIDE DEF taken, backed
    <2> QED
      BY <2>1, <2>4, <2>5, <2>6, <2>7
  <1>3. CASE SwapFiles
    <2>1. At("swap-files") \/ Undoing("swap-files")
      BY <1>3 DEF SwapFiles, Undo
    <2>2. /\ op = "cutover" /\ k = 3
          /\ At("swap-files") => mode = "run"
          /\ Undoing("swap-files") => mode = "undo"
      BY <2>1, Located DEF StepPlaces
    <2>3. CutoverFits(mode, 3, st, mem, before, spoilt) /\ spoilt' = spoilt
      BY <2>1, <2>2, BusyFits, OpFitsOf
    <2>4. /\ \A s, m : At("swap-files") /\ Done(s, m) /\ CutoverFits("run", 4, s, m, before, spoilt)
                 => Sound'
          /\ \A s, m : At("swap-files") /\ Fails(s, m) /\ CutoverFits("undo", 3, s, m, before, spoilt)
                 => Sound'
          /\ At("swap-files") /\ Refuses /\ CutoverFits("undo", 3, st, mem, before, spoilt) => Sound'
          /\ \A s, halves : Undo("swap-files", s, halves) /\ CutoverFits("undo", 2, s, mem, before, spoilt)
                => Sound'
          /\ \A s : Unwritten(s) => Sound'
      BY <2>2, <2>3, OutcomesSound, OpFitsOf
    <2>5. At("swap-files") => CutoverFits("undo", 3, st, mem, before, spoilt)
      BY <1>u, <2>2, <2>3
    <2>6. CASE At("swap-files")
      <3>1. /\ CutoverFits("run", 4, NewFiles, mem, before, spoilt)
            /\ \A i \in {"none", "new"} :
                  CutoverFits("undo", 3, [st EXCEPT !.site.index = i, !.site.plugin = "none"],
                              mem, before, spoilt)
        BY <1>0, <2>2, <2>3, <2>6, CutoverMoves
      <3>2. \/ Done(NewFiles, mem) \/ Fails(st, mem)
            \/ \E i \in {"none", "new"} :
                  Fails([st EXCEPT !.site.index = i, !.site.plugin = "none"], mem)
        BY <1>3, <2>6 DEF SwapFiles, Undo, At, Undoing
      <3> QED
        BY <2>4, <2>5, <2>6, <3>1, <3>2
    <2>7. CASE Undoing("swap-files")
      <3>1. /\ mem.safety # NoSite
            /\ CutoverFits("undo", 2, SafetyRestored(mem.safety), mem, before, spoilt)
        BY <1>0, <2>2, <2>3, <2>7, CutoverUndone
      <3>2. Undo("swap-files", SafetyRestored(mem.safety), HalfRestored(mem.safety))
        BY <1>3, <2>7, <3>1 DEF SwapFiles, At, Undoing
      <3> QED
        BY <2>4, <3>1, <3>2
    <2> QED
      BY <2>1, <2>6, <2>7
  <1>4. CASE SwapDatabase
    <2>1. At("swap-database")
      BY <1>4 DEF SwapDatabase
    <2>2. /\ op = "cutover" /\ k = 4
          /\ At("swap-database") => mode = "run"
          /\ Undoing("swap-database") => mode = "undo"
      BY <2>1, Located DEF StepPlaces
    <2>3. CutoverFits(mode, 4, st, mem, before, spoilt) /\ spoilt' = spoilt
      BY <2>1, <2>2, BusyFits, OpFitsOf
    <2>4. /\ \A s, m : At("swap-database") /\ Done(s, m) /\ CutoverFits("run", 5, s, m, before, spoilt)
                 => Sound'
          /\ \A s, m : At("swap-database") /\ Fails(s, m) /\ CutoverFits("undo", 4, s, m, before, spoilt)
                 => Sound'
          /\ At("swap-database") /\ Refuses /\ CutoverFits("undo", 4, st, mem, before, spoilt) => Sound'
          /\ \A s, halves : Undo("swap-database", s, halves) /\ CutoverFits("undo", 3, s, mem, before, spoilt)
                => Sound'
          /\ \A s : Unwritten(s) => Sound'
      BY <2>2, <2>3, OutcomesSound, OpFitsOf
    <2>5. At("swap-database") => CutoverFits("undo", 4, st, mem, before, spoilt)
      BY <1>u, <2>2, <2>3
    <2>6. /\ CutoverFits("run", 5, [st EXCEPT !.site.data = "new"], mem, before, spoilt)
          /\ CutoverFits("undo", 4, [st EXCEPT !.site.data = "mixed"], mem, before, spoilt)
      BY <1>0, <2>1, <2>2, <2>3, CutoverMoves
    <2> QED
      BY <1>4, <2>4, <2>5, <2>6 DEF SwapDatabase
  <1>5. CASE RestartVerify
    <2>1. At("restart-and-verify")
      BY <1>5 DEF RestartVerify
    <2>2. /\ op = "cutover" /\ k = 5
          /\ At("restart-and-verify") => mode = "run"
          /\ Undoing("restart-and-verify") => mode = "undo"
      BY <2>1, Located DEF StepPlaces
    <2>3. CutoverFits(mode, 5, st, mem, before, spoilt) /\ spoilt' = spoilt
      BY <2>1, <2>2, BusyFits, OpFitsOf
    <2>4. /\ \A s, m : At("restart-and-verify") /\ Done(s, m) /\ CutoverFits("run", 6, s, m, before, spoilt)
                 => Sound'
          /\ \A s, m : At("restart-and-verify") /\ Fails(s, m) /\ CutoverFits("undo", 5, s, m, before, spoilt)
                 => Sound'
          /\ At("restart-and-verify") /\ Refuses /\ CutoverFits("undo", 5, st, mem, before, spoilt) => Sound'
          /\ \A s, halves : Undo("restart-and-verify", s, halves) /\ CutoverFits("undo", 4, s, mem, before, spoilt)
                => Sound'
          /\ \A s : Unwritten(s) => Sound'
      BY <2>2, <2>3, OutcomesSound, OpFitsOf
    <2>5. At("restart-and-verify") => CutoverFits("undo", 5, st, mem, before, spoilt)
      BY <1>u, <2>2, <2>3
    <2>6. /\ CutoverFits("run", 6, [st EXCEPT !.ctr = IF @ = "none" THEN @ ELSE "running"], mem, before, spoilt)
      BY <1>0, <2>1, <2>2, <2>3, CutoverMoves
    <2> QED
      BY <1>5, <2>4, <2>5, <2>6 DEF RestartVerify
  <1>6. CASE Finalize
    <2>1. At("finalize")
      BY <1>6 DEF Finalize
    <2>2. /\ op = "cutover" /\ k = 6
          /\ At("finalize") => mode = "run"
          /\ Undoing("finalize") => mode = "undo"
      BY <2>1, Located DEF StepPlaces
    <2>3. CutoverFits(mode, 6, st, mem, before, spoilt) /\ spoilt' = spoilt
      BY <2>1, <2>2, BusyFits, OpFitsOf
    <2>4. /\ \A s, m : At("finalize") /\ Done(s, m) /\ CutoverFits("run", 7, s, m, before, spoilt)
                 => Sound'
          /\ \A s, m : At("finalize") /\ Fails(s, m) /\ CutoverFits("undo", 6, s, m, before, spoilt)
                 => Sound'
          /\ At("finalize") /\ Refuses /\ CutoverFits("undo", 6, st, mem, before, spoilt) => Sound'
          /\ \A s, halves : Undo("finalize", s, halves) /\ CutoverFits("undo", 5, s, mem, before, spoilt)
                => Sound'
          /\ \A s : Unwritten(s) => Sound'
      BY <2>2, <2>3, OutcomesSound, OpFitsOf
    <2>5. At("finalize") => CutoverFits("undo", 6, st, mem, before, spoilt)
      BY <1>u, <2>2, <2>3
    <2> DEFINE cleared == [st EXCEPT !.stage = 0, !.sdb = "none"]
    <2>6. CutoverFits("run", 7, st, mem, before, spoilt)
      BY <2>1, <2>2, <2>3, CutoverTurns
    <2>7. SameHosting(st, cleared) /\ cleared \in State
      BY <1>0, StagingLegal DEF SameHosting, State, Legal
    <2>8. CutoverFits("run", 7, SetMig(cleared, "completed"), mem, before, spoilt)
      <3> HIDE DEF cleared
      <3> QED
        BY <1>m, <2>6, <2>7, CutoverKept
    <2>9. \/ Done(SetMig(cleared, "completed"), mem) \/ Fails(st, mem)
          \/ Unwritten(cleared) \/ Unwritten(SetMig(st, "completed"))
      BY <1>6 DEF Finalize
    <2> HIDE DEF cleared
    <2> QED
      BY <2>1, <2>4, <2>5, <2>8, <2>9
  <1> QED
    BY <1>1, <1>2, <1>3, <1>4, <1>5, <1>6

\* The step of migration.rollback keeps Sound, where it fails half-way too.
LEMMA RollbackSound ==
    ASSUME TypeInv, Sound, ~torn, ~torn', spoilt \in BOOLEAN, spoilt' \in BOOLEAN, spoilt => spoilt',
           RollbackFails /\ st'.site.data = "mixed" => spoilt',
           RestoreSafetyBackup
    PROVE  Sound'
  <1>1. st \in State /\ At("restore-safety-backup")
    BY DEF RestoreSafetyBackup, TypeInv, SitesTypeOK
  <1>2. op = "rollback" /\ k = 1 /\ mode = "run"
    BY <1>1, Located DEF StepPlaces
  <1>3. RollbackFits(st, spoilt)
    BY <1>2, BusyFits, OpFitsOf
  <1>4. /\ \A s, m : Done(s, m) /\ RollbackFits(s, spoilt') => Sound'
        /\ \A s, m : Fails(s, m) /\ RollbackFits(s, spoilt') => Sound'
        /\ \A s : Unwritten(s) => Sound'
    BY <1>1, <1>2, OutcomesSound, OpFitsOf
  <1>5. /\ RollbackFits(Restored(st.safety), spoilt')
        /\ \A h \in HalfRestored(st.safety) : (h.site.data = "mixed" => spoilt') => RollbackFits(h, spoilt')
    BY <1>1, <1>3, RollbackMoves
  <1>6. CASE Done(SetMig(Restored(st.safety), "rolled_back"), mem)
    <2>1. Restored(st.safety) \in State /\ "rolled_back" \in MigrationStatuses
      BY <1>1, RestoredTyped DEF Legal, State, MigrationStatuses
    <2>2. SameHosting(Restored(st.safety), SetMig(Restored(st.safety), "rolled_back"))
      BY <2>1, SetMigHosting
    <2>3. Restored(st.safety).project \in Built
      BY <1>5, <2>1 DEF RollbackFits, Rest, Bare, Built, State, ProjectStatuses
    <2>4. RollbackFits(SetMig(Restored(st.safety), "rolled_back"), spoilt')
      BY <1>5, <2>2, <2>3, HostingKept DEF RollbackFits, SameHosting
    <2> QED
      BY <1>4, <1>6, <2>4
  <1>7. ASSUME NEW h \in HalfRestored(st.safety), Fails(h, mem)
        PROVE  Sound'
    <2>1. ~Dies
      BY DEF Dies
    <2>2. st' = h /\ mode' = "undo"
      BY <1>7, <2>1 DEF Fails
    <2>3. h.site.data = "mixed" => spoilt'
      BY <1>1, <2>2 DEF RollbackFails
    <2> QED
      BY <1>4, <1>5, <1>7, <2>3
  <1> QED
    BY <1>4, <1>6, <1>7 DEF RestoreSafetyBackup

-----------------------------------------------------------------------------
(* Requests and the engine.                                                *)

\* A state that differs in the migration's row only.
LEMMA RowsKept ==
    ASSUME NEW s, NEW t, NEW o, NEW md, NEW i, NEW m, NEW b, NEW sp,
           SameHosting(s, t), t.stage = s.stage, t.sdb = s.sdb, t.mig \notin Later \/ t.mig = s.mig,
           OpFits(o, md, i, s, m, b, sp)
    PROVE  OpFits(o, md, i, t, m, b, sp)
  <1>1. \A j : BuildFits(md, j, s, m) => BuildFits(md, j, t, m)
    BY DEF SameHosting, BuildFits, BuildRuns, BuildUndoes
  <1>2. DeleteFits(md, i, s, sp) => DeleteFits(md, i, t, sp)
    BY HostingKept DEF SameHosting, DeleteFits
  <1>3. UpdateFits(md, i, s, m, b, sp) => UpdateFits(md, i, t, m, b, sp)
    BY DEF SameHosting, UpdateFits
  <1>4. PlanFits(s, b, sp) => PlanFits(t, b, sp)
    BY HostingKept
  <1>5. RunFits(md, i, s, b, sp) => RunFits(md, i, t, b, sp)
    BY <1>4 DEF RunFits, SameHosting
  <1>6. CutoverFits(md, i, s, m, b, sp) => CutoverFits(md, i, t, m, b, sp)
    BY CutoverKept
  <1>7. RollbackFits(s, sp) => RollbackFits(t, sp)
    BY HostingKept DEF SameHosting, RollbackFits
  <1> QED
    BY <1>1, <1>2, <1>3, <1>4, <1>5, <1>6, <1>7 DEF OpFits

\* The requests outside an operation keep Sound.
LEMMA RequestsSound ==
    ASSUME TypeInv, Sound, ~torn, ~torn', spoilt \in BOOLEAN, spoilt' = spoilt,
           CreateProject \/ CreateMigration \/ UploadCheck \/ UploadWrite \/ UploadRecord
    PROVE  Sound'
  <1>1. st \in State
    BY DEF TypeInv, SitesTypeOK
  <1>2. /\ UNCHANGED <<op, k, mode, mem, allBack, before, last, torn>>
        /\ allBack' = allBack /\ mode' = mode /\ op' = op /\ k' = k /\ mem' = mem
        /\ before' = before /\ last' = last
    BY DEF CreateProject, CreateMigration, UploadCheck, UploadWrite, UploadRecord, Serve
  <1>3. CASE CreateProject
    <2>1. st' = [st EXCEPT !.project = "provisioning"] /\ mode = "idle" /\ st.project = "none"
      BY <1>3 DEF CreateProject, Serve
    <2>2. /\ st'.project = "provisioning" /\ st'.mig = st.mig
          /\ st'.site = st.site /\ st'.secret = st.secret
          /\ st'.dbRow = st.dbRow /\ st'.ctr = st.ctr /\ st'.image = st.image
          /\ st'.cfgImage = st.cfgImage /\ st'.app = st.app /\ st'.safety = st.safety
          /\ st'.stage = st.stage /\ st'.sdb = st.sdb
      BY <1>1, <2>1 DEF State
    <2>3. Rest(st, spoilt) /\ UndoneIsRestored /\ DeletedLeavesNothing /\ allBack
      BY <2>1 DEF Sound
    <2>4. Rest(st', spoilt)
      BY <2>1, <2>2, <2>3 DEF Rest, Bare
    <2>5. UndoneIsRestored'
      BY <1>2, <2>2, <2>3 DEF UndoneIsRestored
    <2>6. DeletedLeavesNothing'
      BY <1>2, <2>2, <2>3 DEF DeletedLeavesNothing
    <2> QED
      BY <1>2, <2>1, <2>3, <2>4, <2>5, <2>6 DEF Sound
  <1>4. CASE CreateMigration \/ UploadCheck \/ UploadWrite \/ UploadRecord
    <2>1. /\ SameHosting(st, st') /\ st'.stage = st.stage /\ st'.sdb = st.sdb
          /\ st'.mig \notin Later \/ st'.mig = st.mig
      <3>1. CASE CreateMigration
        BY <1>1, <3>1 DEF CreateMigration, Serve, State, SameHosting, Later
      <3>2. CASE UploadCheck
        BY <3>2 DEF UploadCheck, Serve, SameHosting
      <3>3. CASE UploadWrite
        BY <1>1, <3>3 DEF UploadWrite, Serve, State, SameHosting
      <3>4. CASE UploadRecord
        BY <1>1, <3>4 DEF UploadRecord, Serve, State, SameHosting, Later
      <3> QED
        BY <1>4, <3>1, <3>2, <3>3, <3>4
    <2>2. CASE mode = "idle"
      <3>1. Rest(st, spoilt) /\ UndoneIsRestored /\ DeletedLeavesNothing /\ allBack
        BY <2>2 DEF Sound
      <3>2. Rest(st', spoilt)
        BY <2>1, <3>1, HostingKept
      <3>3. UndoneIsRestored'
        BY <1>2, <2>1, <3>1 DEF UndoneIsRestored, SameHosting
      <3>4. DeletedLeavesNothing'
        BY <1>2, <2>1, <3>1 DEF DeletedLeavesNothing, SameHosting
      <3> QED
        BY <1>2, <2>2, <3>1, <3>2, <3>3, <3>4 DEF Sound
    <2>3. CASE mode # "idle"
      <3>1. OpFits(op, mode, k, st, mem, before, spoilt) /\ allBack
        BY <2>3 DEF Sound
      <3>2. OpFits(op, mode, k, st', mem, before, spoilt)
        BY <2>1, <3>1, RowsKept
      <3> QED
        BY <1>2, <2>3, <3>1, <3>2 DEF Sound
    <2> QED
      BY <2>2, <2>3
  <1> QED
    BY <1>3, <1>4

\* An operation starts from a state at rest.
LEMMA StartFits ==
    ASSUME NEW s \in State, NEW sp \in BOOLEAN, Rest(s, sp)
    PROVE  /\ s.project \in {"provisioning", "failed"} => BuildFits("run", 1, s, NoMemory)
           /\ s.project = "none" => BuildFits("run", 0, s, NoMemory)
           /\ DeleteFits("run", 1, s, sp)
           /\ s.project = "active" => UpdateFits("run", 1, s, NoMemory, s, sp)
           /\ PlanFits(s, s, sp)
           /\ s.mig \in Later => RunFits("run", 1, s, s, sp) /\ CutoverFits("run", 1, s, NoMemory, s, sp)
           /\ s.safety # NoSite => RollbackFits(s, sp)
  <1>1. s.project \in {"provisioning", "failed"} => BuildFits("run", 1, s, NoMemory)
    BY DEF Rest, Bare, BuildFits, BuildRuns, NoMemory
  <1>2. s.project = "none" => BuildFits("run", 0, s, NoMemory)
    BY DEF Rest, Bare, BuildFits, BuildRuns, NoMemory
  <1>3. DeleteFits("run", 1, s, sp)
    BY DEF DeleteFits
  <1>4. s.project = "active" => UpdateFits("run", 1, s, NoMemory, s, sp)
    BY DEF UpdateFits, Rest, Whole
  <1>b. s.mig \in Later => s.project \in Built
    BY DEF Rest, Built, State, ProjectStatuses
  <1>5. PlanFits(s, s, sp) /\ (s.mig \in Later => RunFits("run", 1, s, s, sp))
    BY <1>b DEF PlanFits, RunFits
  <1>6. s.mig \in Later => CutoverFits("run", 1, s, NoMemory, s, sp)
    BY <1>b DEF CutoverFits, Owned
  <1>7. s.safety # NoSite => RollbackFits(s, sp)
    BY DEF RollbackFits
  <1> QED
    BY <1>1, <1>2, <1>3, <1>4, <1>5, <1>6, <1>7

\* An operation that starts keeps Sound.
LEMMA StartSound ==
    ASSUME TypeInv, Sound, ~torn, spoilt \in BOOLEAN, spoilt' = spoilt,
           NEW o \in DOMAIN Steps, Start(o)
    PROVE  Sound'
  <1>1. /\ mode = "idle" /\ st \in State /\ mem = NoMemory /\ Rest(st, spoilt) /\ allBack
    BY DEF Start, TypeInv, SitesTypeOK, Placed, Sound
  <1>2. /\ Valid(o) /\ op' = o /\ k' = 1 /\ mode' = "run" /\ before' = st /\ st' = st
        /\ mem' = NoMemory /\ allBack' = allBack
    BY <1>1 DEF Start
  <1>3. {"planned", "ready_for_cutover"} \subseteq Later
    BY DEF Later, MigrationStatuses
  <1>4. OpFits(o, "run", 1, st, NoMemory, st, spoilt)
    BY <1>1, <1>2, <1>3, StartFits, OpFitsOf
       DEF Valid, ValidProvision, ValidClone, ValidUpdate, ValidRun, ValidCutover, ValidRollback
  <1> QED
    BY <1>1, <1>2, <1>4 DEF Sound

\* A step without an Undo is passed over.
LEMMA SkipSound ==
    ASSUME TypeInv, Sound, ~torn, spoilt \in BOOLEAN, spoilt' \in BOOLEAN, spoilt' = spoilt, SkipUndo
    PROVE  Sound'
  <1>1. /\ mode = "undo" /\ k >= 1 /\ Steps[op][k] \notin HasUndo /\ Undone(st)
        /\ st \in State /\ mem \in Memory /\ before \in State
    BY DEF SkipUndo, TypeInv, SitesTypeOK
  <1>2. op \in DOMAIN Steps /\ Len(Steps[op]) \in 1..12 /\ k \in 1..Len(Steps[op])
    BY <1>1, BusyOp DEF TypeInv, Placed
  <1>3. k \in 1..12
    BY <1>2, WithinTwelve, Zenon
  <1>4. OpFits(op, "undo", k, st, mem, before, spoilt) /\ allBack
    BY <1>1, BusyFits DEF Sound
  <1>5. /\ op = "provision" => k = 6
        /\ op = "clone" => k \in {7, 10, 11, 12}
        /\ op = "update" => k # 3
        /\ op = "run" => k \notin 1..3
        /\ op = "cutover" => k \notin {1, 3}
    BY <1>1, <1>2, SkippedSteps
  <1>6. OpFits(op, "undo", k - 1, st, mem, before, spoilt)
    <2>1. CASE op = "provision"
      BY <1>1, <1>4, <1>5, <2>1, OpFitsOf, BuildBackward
    <2>2. CASE op = "clone"
      <3>1. k - 1 \in {6, 9, 10, 11} /\ BuildFits("undo", k - 1, st, mem)
        BY <1>3, <1>4, <1>5, <2>2, OpFitsOf
      <3>2. BuildFits("undo", (k - 1) - 1, st, mem)
        BY <1>1, <3>1, BuildBackward
      <3> QED
        BY <2>2, <3>2, OpFitsOf
    <2>3. CASE op = "update"
      BY <1>1, <1>3, <1>4, <1>5, <2>3, OpFitsOf, UpdateMoves
    <2>4. CASE op = "run"
      <3>1. RunFits("undo", k, st, before, spoilt) /\ k \notin {2, 3}
        BY <1>3, <1>4, <1>5, <2>4, OpFitsOf
      <3>2. RunFits("undo", k - 1, st, before, spoilt)
        BY <1>3, <3>1 DEF RunFits
      <3> QED
        BY <2>4, <3>2, OpFitsOf
    <2>5. CASE op = "cutover"
      <3>1. CutoverFits("undo", k, st, mem, before, spoilt)
        BY <1>4, <2>5, OpFitsOf
      <3>2. CutoverFits("undo", k - 1, st, mem, before, spoilt)
        BY <1>3, <1>5, <2>5, <3>1, CutoverTurns
      <3> QED
        BY <2>5, <3>2, OpFitsOf
    <2>6. CASE op \in {"delete", "plan", "rollback"}
      BY <1>4, <2>6, OpFitsOf DEF DeleteFits
    <2> QED
      BY <1>2, <2>1, <2>2, <2>3, <2>4, <2>5, <2>6, StepsWritten
  <1> QED
    BY <1>1, <1>4, <1>6 DEF Undone, Sound

\* A cancellation: the steps that were done are undone.
LEMMA CancelSound ==
    ASSUME TypeInv, Sound, ~torn, spoilt \in BOOLEAN, spoilt' = spoilt, Cancel
    PROVE  Sound'
  <1>1. mode = "run" /\ k <= Len(Steps[op]) /\ st \in State /\ mem \in Memory /\ before \in State
    BY DEF Cancel, TypeInv, SitesTypeOK
  <1>2. op \in DOMAIN Steps /\ Len(Steps[op]) \in 1..12 /\ k \in 1..Len(Steps[op])
    BY <1>1, BusyOp DEF TypeInv, Placed
  <1>3. k \in 1..12
    BY <1>2, WithinTwelve, Zenon
  <1>4. OpFits(op, "run", k, st, mem, before, spoilt) /\ allBack
    BY <1>1, BusyFits DEF Sound
  <1>5. OpFits(op, "undo", k - 1, st, mem, before, spoilt)
    <2>1. CASE op = "provision"
      BY <1>1, <1>3, <1>4, <2>1, OpFitsOf, BuildTurns
    <2>2. CASE op = "clone"
      <3>1. BuildFits("run", k - 1, st, mem) /\ k - 1 \in Int
        BY <1>3, <1>4, <2>2, OpFitsOf
      <3>2. BuildFits("undo", (k - 1) - 1, st, mem)
        BY <1>1, <3>1, BuildTurns
      <3> QED
        BY <2>2, <3>2, OpFitsOf
    <2>3. CASE op = "update"
      <3>1. UpdateFits("run", k, st, mem, before, spoilt) /\ k <= 5
        BY <1>2, <1>4, <2>3, OpFitsOf, Lengths
      <3> QED
        BY <1>1, <1>3, <2>3, <3>1, OpFitsOf, UpdateMoves
    <2>4. CASE op = "run"
      <3>1. RunFits("run", k, st, before, spoilt)
        BY <1>4, <2>4, OpFitsOf
      <3>2. RunFits("undo", k - 1, st, before, spoilt)
        BY <1>1, <1>3, <3>1 DEF RunFits
      <3> QED
        BY <2>4, <3>2, OpFitsOf
    <2>5. CASE op = "cutover"
      <3>1. CutoverFits("run", k, st, mem, before, spoilt)
        BY <1>4, <2>5, OpFitsOf
      <3>2. CutoverFits("undo", k - 1, st, mem, before, spoilt)
        BY <1>3, <3>1, CutoverTurns
      <3> QED
        BY <2>5, <3>2, OpFitsOf
    <2>6. CASE op \in {"delete", "plan", "rollback"}
      BY <1>4, <2>6, OpFitsOf DEF DeleteFits
    <2> QED
      BY <1>2, <2>1, <2>2, <2>3, <2>4, <2>5, <2>6, StepsWritten
  <1> QED
    BY <1>1, <1>4, <1>5 DEF Cancel, Sound

\* A run that is over leaves a state at rest.
LEMMA SucceedSound ==
    ASSUME TypeInv, Sound, ~torn, spoilt \in BOOLEAN, spoilt' = spoilt, Succeed
    PROVE  Sound'
  <1>1. /\ mode = "run" /\ k = Len(Steps[op]) + 1 /\ Ends("succeeded")
        /\ st \in State /\ before \in State
    BY DEF Succeed, TypeInv, SitesTypeOK
  <1>2. op \in DOMAIN Steps
    BY <1>1, BusyOp
  <1>3. OpFits(op, "run", k, st, mem, before, spoilt)
    BY <1>1, BusyFits
  <1>4. /\ st' = st /\ mode' = "idle" /\ allBack' /\ last' = [op |-> op, end |-> "succeeded"]
    BY <1>1 DEF Ends
  <1>5. Rest(st, spoilt) /\ (op = "delete" => DeleteFits("run", 6, st, spoilt))
    <2>1. CASE op = "provision"
      <3>1. BuildFits("run", 9, st, mem)
        BY <1>1, <1>3, <2>1, Lengths, OpFitsOf
      <3> QED
        BY <2>1, <3>1 DEF BuildFits, BuildRuns, Rest, Whole, NoSite
    <2>2. CASE op = "clone"
      <3>1. k = 13 /\ k - 1 = 12
        BY <1>1, <2>2, Lengths
      <3>2. BuildFits("run", 12, st, mem)
        BY <1>3, <2>2, <3>1, OpFitsOf
      <3> QED
        BY <2>2, <3>2 DEF BuildFits, BuildRuns, Rest, Whole, NoSite
    <2>3. CASE op = "delete"
      <3>1. DeleteFits("run", 6, st, spoilt)
        BY <1>1, <1>3, <2>3, Lengths, OpFitsOf
      <3> QED
        BY <3>1 DEF DeleteFits
    <2>4. CASE op = "update"
      <3>1. UpdateFits("run", 6, st, mem, before, spoilt)
        BY <1>1, <1>3, <2>4, Lengths, OpFitsOf
      <3> QED
        BY <2>4, <3>1 DEF UpdateFits, Rest, Whole
    <2>5. CASE op = "cutover"
      <3>1. CutoverFits("run", 7, st, mem, before, spoilt)
        BY <1>1, <1>3, <2>5, Lengths, OpFitsOf
      <3>2. /\ st.site.index = "new" /\ st.site.data = "new" /\ st.safety = before.site
            /\ before.site.data # "none" /\ before.dbRow /\ Owned(st, before) /\ Rest(before, spoilt)
            /\ before.project \in Built
        BY <3>1 DEF CutoverFits
      <3> QED
        BY <2>5, <3>2 DEF Rest, Owned, Whole, Built
    <2>6. CASE op \in {"plan", "run", "rollback"}
      BY <1>3, <2>6, OpFitsOf DEF RunFits, PlanFits, RollbackFits
    <2> QED
      BY <1>2, <2>1, <2>2, <2>3, <2>4, <2>5, <2>6, StepsWritten
  <1>6. UndoneIsRestored'
    BY <1>4 DEF UndoneIsRestored
  <1>7. DeletedLeavesNothing'
    BY <1>4, <1>5 DEF DeletedLeavesNothing, DeleteFits
  <1> QED
    BY <1>4, <1>5, <1>6, <1>7 DEF Sound

\* A run that was rolled back: what it leaves is at rest, and what UndoneIsRestored
\* and DeletedLeavesNothing say of it.
LEMMA RolledBackSound ==
    ASSUME TypeInv, Sound, ~torn, spoilt \in BOOLEAN, spoilt' = spoilt, RolledBack
    PROVE  Sound'
  <1>1. /\ mode = "undo" /\ k = 0 /\ st \in State /\ before \in State
        /\ Ends(IF allBack THEN "rolled_back" ELSE "rollback_failed")
    BY DEF RolledBack, TypeInv, SitesTypeOK
  <1>2. op \in DOMAIN Steps
    BY <1>1, BusyOp
  <1>3. OpFits(op, "undo", 0, st, mem, before, spoilt) /\ allBack
    BY <1>1, BusyFits DEF Sound
  <1>4. /\ st' = st /\ mode' = "idle" /\ allBack' /\ last' = [op |-> op, end |-> "rolled_back"]
        /\ before' = before
    BY <1>1, <1>3 DEF Ends
  <1> DEFINE Put ==
          /\ op \in {"cutover", "update"} =>
                /\ st.site.data = before.site.data
                /\ before.site.index # "none" => st.site.index = before.site.index
                /\ st.image = before.image
          /\ op \in {"plan", "run"} => st.site = before.site
          /\ op = "run" => st.stage \in {0, before.stage} /\ st.sdb \in {"none", before.sdb}
  <1>5. Rest(st, spoilt) /\ Put /\ (op = "clone" => Bare(st))
    <2>1. CASE op \in {"provision", "clone"}
      <3>1. BuildFits("undo", 0, st, mem) \/ BuildFits("undo", 0 - 1, st, mem)
        BY <1>3, <2>1, OpFitsOf
      <3>2. Bare(st) /\ st.project # "active" /\ st.mig \notin Later
        BY <1>1, <3>1 DEF State, Site, Contents, BuildFits, BuildUndoes, Bare
      <3>3. Rest(st, spoilt)
        BY <3>2 DEF Rest, Bare, NoSite
      <3> QED
        BY <2>1, <3>2, <3>3
    <2>2. CASE op = "delete"
      BY <1>3, <2>2, OpFitsOf DEF DeleteFits
    <2>3. CASE op = "update"
      <3>1. UpdateFits("undo", 0, st, mem, before, spoilt)
        BY <1>3, <2>3, OpFitsOf
      <3>2. Rest(st, spoilt)
        BY <3>1 DEF UpdateFits, Rest, Whole
      <3> QED
        BY <2>3, <3>1, <3>2 DEF UpdateFits
    <2>4. CASE op = "cutover"
      <3>1. CutoverFits("undo", 0, st, mem, before, spoilt)
        BY <1>3, <2>4, OpFitsOf
      <3>2. /\ before.site.index # "none" => st.site.index = before.site.index
            /\ st.site.data = before.site.data /\ before.project \in Built
            /\ Owned(st, before) /\ Rest(before, spoilt)
            /\ \/ st.safety = before.safety
               \/ st.safety = before.site /\ before.dbRow /\ before.site.data # "none"
            /\ ~before.dbRow => st.site = before.site /\ st.ctr = before.ctr
        BY <3>1 DEF CutoverFits
      <3>3. Rest(st, spoilt)
        <4>1. CASE st.safety = before.safety
          BY <3>2, <4>1 DEF Rest, Owned, Whole, Built
        <4>2. CASE st.safety = before.site /\ before.dbRow /\ before.site.data # "none"
          BY <3>2, <4>2 DEF Rest, Owned, Whole, Built, NoSite
        <4> QED
          BY <3>2, <4>1, <4>2
      <3> QED
        BY <2>4, <3>2, <3>3 DEF Owned
    <2>5. CASE op \in {"plan", "run"}
      BY <1>3, <2>5, OpFitsOf DEF RunFits, PlanFits
    <2>6. CASE op = "rollback"
      BY <1>3, <2>6, OpFitsOf DEF RollbackFits
    <2> QED
      BY <1>2, <2>1, <2>2, <2>3, <2>4, <2>5, <2>6, StepsWritten
  <1>6. UndoneIsRestored'
    BY <1>4, <1>5 DEF UndoneIsRestored
  <1>7. DeletedLeavesNothing'
    BY <1>4, <1>5 DEF DeletedLeavesNothing, Bare
  <1> QED
    BY <1>4, <1>5, <1>6, <1>7 DEF Sound

-----------------------------------------------------------------------------
(* Nothing that is torn is mended, and the invariant.                      *)

\* Nothing that was torn is mended.
LEMMA TornStays ==
    ASSUME SiteStep, torn
    PROVE  torn'
  <1>1. /\ \A s, m : Done(s, m) => torn'
        /\ \A s, m : Fails(s, m) => torn'
        /\ Refuses => torn'
        /\ \A s : Undone(s) => torn'
        /\ \A s : Unwritten(s) \/ Unseen(s) => torn'
        /\ Dies => torn'
        /\ \A n, s, halves : Undo(n, s, halves) => torn'
        /\ \A s : Serve(s) => torn'
    BY DEF Done, Fails, Dies, Refuses, Undone, UndoFails, Undo, Unwritten, Unseen, Serve
  <1>2. CASE CreateProject \/ CreateMigration \/ UploadCheck \/ UploadWrite \/ UploadRecord
    BY <1>1, <1>2 DEF CreateProject, CreateMigration, UploadCheck, UploadWrite, UploadRecord
  <1>3. CASE (\E o \in DOMAIN Steps : Start(o)) \/ Succeed \/ RolledBack \/ Cancel
    BY <1>3 DEF Start, Succeed, RolledBack, Ends, Cancel
  <1>4. CASE SkipUndo \/ SitesCrash
    BY <1>1, <1>4 DEF SkipUndo, SitesCrash
  <1>5. CASE ProvisionStep
    <2>1. ValidateProject \/ PrepareWorkspace \/ StartContainer \/ HealthCheck => torn'
      BY <1>1 DEF ValidateProject, PrepareWorkspace, StartContainer, HealthCheck
    <2>2. RegisterApplication \/ ActivateProject => torn'
      BY <1>1 DEF RegisterApplication, ActivateProject
    <2>3. CreateDatabase => torn'
      BY <1>1 DEF CreateDatabase
    <2>4. CreateContainer => torn'
      BY <1>1 DEF CreateContainer
    <2> QED
      BY <1>5, <2>1, <2>2, <2>3, <2>4 DEF ProvisionStep
  <1>6. CASE CloneStep
    BY <1>1, <1>6 DEF CloneStep, CloneProject, CloneFiles, CloneDatabase, RestartClone
  <1>7. CASE DeleteStep
    BY <1>1, <1>7
       DEF DeleteStep, MarkDeleting, RemoveContainer, DropDatabase, RemoveWorkspace, RemoveRecords
  <1>8. CASE UpdateStep
    <2>1. UpdateBackup \/ CaptureSpec \/ UpdateHealth \/ Record => torn'
      BY <1>1 DEF UpdateBackup, CaptureSpec, UpdateHealth, Record
    <2>2. ReplaceContainer => torn'
      BY <1>1 DEF ReplaceContainer
    <2> QED
      BY <1>8, <2>1, <2>2 DEF UpdateStep
  <1>9. CASE RunStep
    <2>1. Discovery \/ Preflight \/ MarkRunning \/ TransferFiles => torn'
      BY <1>1 DEF Discovery, Preflight, MarkRunning, TransferFiles
    <2>2. CreateStagingDatabase \/ ImportDatabase \/ ValidateRun \/ Ready => torn'
      BY <1>1 DEF CreateStagingDatabase, ImportDatabase, ValidateRun, Ready
    <2> QED
      BY <1>9, <2>1, <2>2 DEF RunStep
  <1>10. CASE CutoverStep
    <2>1. Begin \/ SafetyBackup \/ SwapDatabase \/ RestartVerify => torn'
      BY <1>1 DEF Begin, SafetyBackup, SwapDatabase, RestartVerify
    <2>2. SwapFiles \/ Finalize \/ RestoreSafetyBackup => torn'
      BY <1>1 DEF SwapFiles, Finalize, RestoreSafetyBackup
    <2> QED
      BY <1>10, <2>1, <2>2 DEF CutoverStep
  <1> QED
    BY <1>2, <1>3, <1>4, <1>5, <1>6, <1>7, <1>8, <1>9, <1>10, Zenon DEF SiteStep

\* Every step keeps what each operation has made, place by place.
LEMMA NextSound == TypeInv /\ Sound /\ [SitesNext]_siteVars => Sound'
  <1> SUFFICES ASSUME TypeInv, Sound, [SitesNext]_siteVars PROVE Sound'
    OBVIOUS
  <1>1. CASE UNCHANGED siteVars
    BY <1>1 DEF siteVars, Sound, UndoneIsRestored, DeletedLeavesNothing
  <1>2. CASE torn'
    BY <1>2 DEF Sound
  <1>3. CASE SitesNext /\ ~torn'
    <2>1. SiteStep /\ ~torn
      BY <1>3, TornStays DEF SitesNext
    <2>2. /\ spoilt \in BOOLEAN /\ spoilt' \in BOOLEAN /\ (spoilt => spoilt')
          /\ op # "rollback" => spoilt' = spoilt
      BY <1>3, SpoiltKept
    <2>3. RollbackFails /\ st'.site.data = "mixed" => spoilt'
      BY <1>3 DEF SitesNext
    <2>4. CASE ProvisionStep
      BY <1>3, <2>1, <2>4, ProvisionSound
    <2>5. CASE CloneStep
      BY <1>3, <2>1, <2>5, CloneSound
    <2>6. CASE DeleteStep
      BY <1>3, <2>1, <2>2, <2>6, DeleteSound
    <2>7. CASE UpdateStep
      BY <1>3, <2>1, <2>2, <2>7, UpdateSound
    <2>8. CASE RunStep
      BY <1>3, <2>1, <2>2, <2>8, RunSound
    <2>9. CASE CutoverStep
      BY <1>3, <2>1, <2>2, <2>3, <2>9, CutoverSound, RollbackSound DEF CutoverStep
    <2>10. ASSUME ~RollbackFails PROVE spoilt' = spoilt
      <3>1. spoilt' = (spoilt \/ (RollbackFails /\ st'.site.data = "mixed"))
        BY <1>3, Zenon DEF SitesNext
      <3> QED
        BY <2>2, <2>10, <3>1
    <2>11. CASE CreateProject \/ CreateMigration \/ UploadCheck \/ UploadWrite \/ UploadRecord
      <3>1. mode' = mode
        BY <2>11 DEF CreateProject, CreateMigration, UploadCheck, UploadWrite, UploadRecord, Serve
      <3>2. ~RollbackFails
        BY <3>1 DEF RollbackFails, At
      <3> QED
        BY <1>3, <2>1, <2>2, <2>10, <2>11, <3>2, RequestsSound
    <2>12. ASSUME NEW o \in DOMAIN Steps, Start(o) PROVE Sound'
      <3>1. ~RollbackFails
        BY <2>12 DEF Start, RollbackFails, At
      <3> QED
        BY <2>1, <2>2, <2>10, <2>12, <3>1, StartSound
    <2>13. CASE SkipUndo
      <3>1. ~RollbackFails
        BY <2>13 DEF SkipUndo, RollbackFails, At
      <3> QED
        BY <2>1, <2>2, <2>10, <2>13, <3>1, SkipSound
    <2>14. CASE Succeed \/ RolledBack
      <3>1. mode' = "idle"
        BY <2>14 DEF Succeed, RolledBack, Ends
      <3>2. ~RollbackFails
        BY <3>1 DEF RollbackFails
      <3> QED
        BY <2>1, <2>2, <2>10, <2>14, <3>2, SucceedSound, RolledBackSound
    <2>15. CASE Cancel
      <3>1. spoilt' = spoilt
        <4>1. CASE op # "rollback"
          BY <2>2, <4>1
        <4>2. CASE op = "rollback"
          <5>1. UNCHANGED st /\ mode = "run"
            BY <2>15 DEF Cancel
          <5>2. OpFits(op, mode, k, st, mem, before, spoilt)
            BY <2>1, <5>1, BusyFits
          <5>3. st.site.data = "mixed" => spoilt
            BY <4>2, <5>2, OpFitsOf DEF RollbackFits, Rest
          <5>4. spoilt' = (spoilt \/ (RollbackFails /\ st'.site.data = "mixed"))
            BY <1>3, Zenon DEF SitesNext
          <5> QED
            BY <2>2, <5>1, <5>3, <5>4
        <4> QED
          BY <4>1, <4>2
      <3> QED
        BY <2>1, <2>2, <2>15, <3>1, CancelSound
    <2>16. CASE SitesCrash
      BY <1>3, <2>16 DEF SitesCrash, Dies
    <2> QED
      BY <2>1, <2>4, <2>5, <2>6, <2>7, <2>8, <2>9, <2>11, <2>12, <2>13, <2>14, <2>15, <2>16, Zenon
         DEF SiteStep
  <1> QED
    BY <1>1, <1>2, <1>3

\* Sound holds at the start, when there is no project.
LEMMA InitSound == SitesInit => Sound
  <1> SUFFICES ASSUME SitesInit PROVE Sound
    OBVIOUS
  <1>1. /\ st.project = "none" /\ st.site = NoSite /\ ~st.secret /\ ~st.dbRow /\ st.ctr = "none"
        /\ ~st.app /\ st.safety = NoSite /\ st.mig = "none"
    BY DEF SitesInit
  <1>2. Rest(st, spoilt)
    BY <1>1 DEF Rest, Bare, NoSite, Later
  <1>3. UndoneIsRestored /\ DeletedLeavesNothing
    BY DEF SitesInit, UndoneIsRestored, DeletedLeavesNothing
  <1> QED
    BY <1>2, <1>3 DEF SitesInit, Sound

\* What ActiveIsWhole and the other two read off the invariant.
LEMMA SoundSays ==
    ASSUME TypeInv, Sound
    PROVE  ActiveIsWhole /\ UndoneIsRestored /\ DeletedLeavesNothing
  <1>1. ActiveIsWhole
    <2> SUFFICES ASSUME mode = "idle", st.project = "active", ~torn
                 PROVE  /\ st.site.index # "none" /\ st.site.data # "none"
                        /\ st.site.data = "mixed" => spoilt /\ st.safety.data # "none"
                        /\ st.secret /\ st.dbRow /\ st.app
                        /\ st.ctr = "running" /\ st.image = st.cfgImage
      BY DEF ActiveIsWhole
    <2>1. Rest(st, spoilt)
      BY DEF Sound
    <2> QED
      BY <2>1 DEF Rest, Whole
  <1>2. CASE mode = "idle" /\ ~torn
    BY <1>1, <1>2 DEF Sound
  <1>3. CASE ~(mode = "idle" /\ ~torn)
    BY <1>1, <1>3 DEF UndoneIsRestored, DeletedLeavesNothing
  <1> QED
    BY <1>2, <1>3

\* The inductive invariant.
LEMMA SitesInvariant == SitesSpec => [](TypeInv /\ Sound)
  <1>1. SitesInit => TypeInv /\ Sound
    BY InitTyped, InitSound
  <1>2. (TypeInv /\ Sound) /\ [SitesNext]_siteVars => (TypeInv /\ Sound)'
    BY NextTyped, NextSound
  <1> QED
    BY <1>1, <1>2, PTL DEF SitesSpec

\* An active project with no operation under way is whole: its files, database,
\* password, registration and running container, whatever failed and was undone
\* (the steps and Undos of provisioning.go, wordpress.go and sitemig.go).
THEOREM ActiveIsWholeHolds == SitesSpec => []ActiveIsWhole
  <1>1. TypeInv /\ Sound => ActiveIsWhole
    BY SoundSays
  <1> QED
    BY <1>1, SitesInvariant, PTL

\* An operation whose Undos all ran has put back what it changed: the files, data
\* and image of a cutover or an update, what a migration.run staged (the Undo of
\* every step in wordpress.go and sitemig.go).
THEOREM UndoneIsRestoredHolds == SitesSpec => []UndoneIsRestored
  <1>1. TypeInv /\ Sound => UndoneIsRestored
    BY SoundSays
  <1> QED
    BY <1>1, SitesInvariant, PTL

\* A deletion that succeeded, and a clone that was undone, leave no container
\* running, no files and no registration, and the clone no password, whichever
\* errors the steps dropped (provisioning.go, and the Undos of wordpress.go).
THEOREM DeletedLeavesNothingHolds == SitesSpec => []DeletedLeavesNothing
  <1>1. TypeInv /\ Sound => DeletedLeavesNothing
    BY SoundSays
  <1> QED
    BY <1>1, SitesInvariant, PTL

=============================================================================
