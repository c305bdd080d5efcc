----------------------------- MODULE Migration -----------------------------
(***************************************************************************)
(* Database migrations of a QuayRegistry, from                             *)
(* controllers/quay/quayregistry_controller.go and pkg/kustomize.          *)
(*                                                                         *)
(* An operator release carries one Quay version (QuayVersionCurrent).  As  *)
(* long as status.currentVersion differs from it, Reconcile renders the    *)
(* "upgrade" overlay: quay-app scaled to zero and a Job that migrates the  *)
(* database.  Once everything is applied it records MigrationsInProgress   *)
(* in the ComponentsCreated condition; the following reconciles only look  *)
(* at the Job, and when it has succeeded set status.currentVersion.  Only  *)
(* then is quay-app rendered with replicas again.                          *)
(*                                                                         *)
(* One step is one request to the API server (or one read of the informer  *)
(* cache), because between any two of them the status reconciler, the Job  *)
(* controller, the user or the death of the operator may intervene.        *)
(* QuayRegistry and Secrets are read from the API server (main.go disables *)
(* their cache); Jobs are read from the cache.                             *)
(***************************************************************************)
EXTENDS Integers

CONSTANTS
  MaxVersion,    \* bound: operator releases 1..MaxVersion are installed in turn
  Databases,     \* the databases a DB_URI can point to
  NoDb,          \* the empty DB_URI
  MaxFaults,     \* bound: failures and interventions in a behaviour
  CacheLag,      \* may the informer's copy of the Job be out of date?
  EarlyUpgrade,  \* may the operator be replaced before its migration is done?
  SlowStart,     \* may a reconcile run before a new Job's pod is counted?
  DbMoves        \* may the user point DB_URI to another database?

ASSUME ConstantsAssumption ==
  /\ MaxVersion \in Nat \ {0}
  /\ MaxFaults \in Nat
  /\ NoDb \notin Databases
  /\ CacheLag \in BOOLEAN /\ EarlyUpgrade \in BOOLEAN
  /\ SlowStart \in BOOLEAN /\ DbMoves \in BOOLEAN

VARIABLES
  opVersion,  \* QuayVersionCurrent of the running operator
  userDb,     \* DB_URI in the user's config bundle
  keys,       \* DB_URI in the managed keys Secret
  status,     \* status of the QuayRegistry on the API server
  copy,       \* each writer's in-memory copy of that status
  fresh,      \* does the copy carry the current resourceVersion?
  app,        \* the quay-app Deployment: scaled up, version, database
  job,        \* the quay-app-upgrade Job on the API server
  jobCache,   \* the Job as the informer cache has it
  schema,     \* version each database has been migrated to
  faults,     \* failures and interventions so far
  pc,         \* where Reconcile is
  upgrade,    \* Reconcile: was the upgrade overlay rendered?
  db,         \* Reconcile: the DB_URI in hand
  todo,       \* Reconcile: workloads still to be applied
  deferred,   \* Reconcile: deferWorkloads
  outcome     \* Reconcile: reason checkMigrationStatus is about to report

clusterVars == <<userDb, keys, app, schema>>
jobVars     == <<job, jobCache>>
statusVars  == <<status, copy, fresh>>
localVars   == <<upgrade, db, todo, deferred, outcome>>
vars == <<opVersion, clusterVars, jobVars, statusVars, localVars, faults, pc>>

Versions == 0..MaxVersion               \* 0: status.currentVersion unset
DbUris   == Databases \cup {NoDb}
Reasons  == {"None", "MigrationsInProgress", "MigrationsFailed",
             "MigrationsJobMissing", "ComponentsCreationSuccess"}
Statuses == [currentVersion : Versions, created : Reasons]
Writers  == {"quay", "status"}          \* the two reconcilers
\* "new": no pod counted yet; "down": its pod failed or vanished
Phases   == {"none", "new", "active", "down", "succeeded"}
Jobs     == [phase : Phases, version : Versions, db : DbUris, deleting : BOOLEAN]
NoJob    == [phase |-> "none", version |-> 0, db |-> NoDb, deleting |-> FALSE]

ClusterTypeOK ==
  /\ opVersion \in 1..MaxVersion
  /\ userDb \in Databases /\ keys \in DbUris
  /\ app \in [up : BOOLEAN, version : Versions, db : DbUris]
  /\ schema \in [Databases -> Versions]
  /\ faults \in 0..MaxFaults

StatusTypeOK ==
  /\ status \in Statuses
  /\ copy \in [Writers -> Statuses]
  /\ fresh \in [Writers -> BOOLEAN]

JobTypeOK ==
  /\ job \in Jobs /\ jobCache \in Jobs
  /\ job.phase # "none" => job.db \in Databases

LocalTypeOK ==
  /\ pc \in {"idle", "check", "report", "config", "keys", "apply",
             "delete", "create", "mark"}
  /\ upgrade \in BOOLEAN /\ deferred \in BOOLEAN
  /\ db \in DbUris /\ (pc \in {"keys", "apply", "delete", "create"} => db \in Databases)
  /\ todo \in SUBSET {"app", "job"}
  /\ outcome \in Reasons

TypeOK == ClusterTypeOK /\ StatusTypeOK /\ JobTypeOK /\ LocalTypeOK

Init ==
  /\ opVersion = 1
  /\ userDb \in Databases /\ keys = NoDb
  /\ status = [currentVersion |-> 0, created |-> "None"]
  /\ copy = [w \in Writers |-> status] /\ fresh = [w \in Writers |-> FALSE]
  /\ app = [up |-> FALSE, version |-> 0, db |-> NoDb]
  /\ job = NoJob /\ jobCache = NoJob
  /\ schema = [d \in Databases |-> 0]
  /\ faults = 0
  /\ pc = "idle"
  /\ upgrade = FALSE /\ db = NoDb /\ todo = {} /\ deferred = FALSE
  /\ outcome = "None"

-----------------------------------------------------------------------------
(* Requests and their answers *)

\* Mutant: the conflict check is missing, the last writer wins.
StatusUpdateLastWins(w, s) ==
  /\ status' = s
  /\ copy' = [copy EXCEPT ![w] = s]
  /\ fresh' = [x \in Writers |-> x = w]

\* Status().Update: refused with a conflict unless the copy sent carries the
\* object's current resourceVersion; the answer refreshes the copy.
StatusUpdate(w, s) ==
  IF fresh[w]
    THEN /\ status' = s
         /\ copy' = [copy EXCEPT ![w] = s]
         /\ fresh' = [x \in Writers |-> x = w]
    ELSE UNCHANGED statusVars

\* client.Get of the QuayRegistry.
GetQuay(w) ==
  /\ copy' = [copy EXCEPT ![w] = status]
  /\ fresh' = [fresh EXCEPT ![w] = TRUE]
  /\ UNCHANGED status

\* client.Get of the Job.
SeenJob == IF CacheLag THEN jobCache ELSE job

Return ==
  /\ pc' = "idle"
  /\ upgrade' = FALSE /\ db' = NoDb /\ todo' = {} /\ deferred' = FALSE
  /\ outcome' = "None"

Fault == faults < MaxFaults /\ faults' = faults + 1

-----------------------------------------------------------------------------
(* Reconcile *)

MigrationsRunning(s) == s.created = "MigrationsInProgress"

\* Reconcile up to the dispatch on the conditions.  r.Requeue is ten seconds:
\* without SlowStart the Job controller has counted a new Job's pod by then.
StartReconcile ==
  /\ pc = "idle"
  /\ SlowStart \/ job.phase # "new"
  /\ GetQuay("quay")
  /\ pc' = IF MigrationsRunning(status) THEN "check" ELSE "config"
  /\ UNCHANGED <<opVersion, clusterVars, jobVars, localVars, faults>>

\* Mutant: a missing Job is waited for like a running one.
MigrationOutcomeWaits(j) ==
  CASE j.phase = "none"      -> "MigrationsInProgress"
    [] j.phase = "succeeded" -> "ComponentsCreationSuccess"
    [] OTHER                 -> "MigrationsFailed"

\* What checkMigrationStatus makes of the Job it read; Active == 1 is dealt
\* with before, and everything that is left over counts as failed.
MigrationOutcome(j) ==
  CASE j.phase = "none"      -> "MigrationsJobMissing"
    [] j.phase = "succeeded" -> "ComponentsCreationSuccess"
    [] OTHER                 -> "MigrationsFailed"

CheckMigrationStatus ==
  /\ pc = "check"
  /\ \/ /\ SeenJob.phase = "active"
        /\ Return
     \/ /\ SeenJob.phase # "active"
        /\ outcome' = MigrationOutcome(SeenJob)
        /\ pc' = "report"
        /\ UNCHANGED <<upgrade, db, todo, deferred>>
  /\ UNCHANGED <<opVersion, clusterVars, jobVars, statusVars, faults>>


\* The status checkMigrationStatus writes: success also moves currentVersion.
ReportedStatus ==
  [currentVersion |-> IF outcome = "ComponentsCreationSuccess"
                        THEN opVersion ELSE copy["quay"].currentVersion,
   created |-> outcome]

ReportMigration ==
  /\ pc = "report"
  /\ StatusUpdate("quay", ReportedStatus)
  /\ Return
  /\ UNCHANGED <<opVersion, clusterVars, jobVars, faults>>

\* Mutant: the overlay is only rendered for a first installation.
NeedsUpgradeOverlayInstallOnly ==
  \/ copy["quay"].currentVersion = 0
  \/ userDb # keys

\* Mutant: the overlay is only rendered when the database changes.
NeedsUpgradeOverlayDbOnly == userDb # keys

\* Inflate: must quay be scaled down and the database migrated?
NeedsUpgradeOverlay ==
  \/ copy["quay"].currentVersion # opVersion
  \/ userDb # keys

\* From GetConfigBundleSecret and checkManagedKeys to Inflate; whether managed
\* databases and object storage are initialised is read from the cluster.
Inflate ==
  /\ pc = "config"
  /\ db' = userDb
  /\ upgrade' = NeedsUpgradeOverlay
  /\ \/ /\ deferred' = FALSE
        /\ todo' = IF upgrade' THEN {"app", "job"} ELSE {"app"}
        /\ UNCHANGED faults
     \/ /\ deferred' = TRUE
        /\ todo' = {}
        /\ Fault
  /\ pc' = "keys"
  /\ UNCHANGED <<opVersion, clusterVars, jobVars, statusVars, outcome>>

\* EnsureCreationOrder: Secrets come before Deployments and Jobs.
ApplyManagedKeys ==
  /\ pc = "keys"
  /\ keys' = db
  /\ pc' = "apply"
  /\ UNCHANGED <<opVersion, userDb, app, schema, jobVars, statusVars,
                 localVars, faults>>

ApplyQuayApp ==
  /\ pc = "apply" /\ "app" \in todo
  /\ app' = [up |-> ~upgrade, version |-> opVersion, db |-> db]
  /\ todo' = todo \ {"app"}
  /\ UNCHANGED <<opVersion, userDb, keys, schema, jobVars, statusVars,
                 upgrade, db, deferred, outcome, faults, pc>>

\* Mutant: the exception for the previous version's Job is missing.
SkipsRecreationAlways(j) == j.phase \in {"succeeded", "active"}

\* createOrUpdateObject leaves an existing Job alone.
SkipsRecreation(j) ==
  \/ j.phase = "succeeded" /\ copy["quay"].currentVersion = opVersion
  \/ j.phase = "active"

LookAtJob ==
  /\ pc = "apply" /\ "job" \in todo
  /\ \/ /\ SkipsRecreation(SeenJob)
        /\ todo' = todo \ {"job"}
        /\ UNCHANGED pc
     \/ /\ ~SkipsRecreation(SeenJob)
        /\ pc' = "delete"
        /\ UNCHANGED todo
  /\ UNCHANGED <<opVersion, clusterVars, jobVars, statusVars,
                 upgrade, db, deferred, outcome, faults>>

\* Foreground deletion: the Job stays until its pods are gone.
DeleteJob ==
  /\ pc = "delete"
  /\ job' = [job EXCEPT !.deleting = (job.phase # "none")]
  /\ pc' = "create"
  /\ UNCHANGED <<opVersion, clusterVars, jobCache, statusVars, localVars, faults>>

\* Mutant: the Job is rendered before Inflate has filled in the DB_URI.
NewJobWithoutDb == [phase |-> "new", version |-> opVersion, db |-> NoDb, deleting |-> FALSE]

NewJob == [phase |-> "new", version |-> opVersion, db |-> db, deleting |-> FALSE]

\* AlreadyExists makes Reconcile return and try again later.
CreateJob ==
  /\ pc = "create"
  /\ \/ /\ job.phase = "none"
        /\ job' = NewJob
        /\ todo' = todo \ {"job"}
        /\ pc' = "apply"
        /\ UNCHANGED <<upgrade, db, deferred, outcome>>
     \/ /\ job.phase # "none"
        /\ Return
        /\ UNCHANGED job
  /\ UNCHANGED <<opVersion, clusterVars, jobCache, statusVars, faults>>

\* Mutant: every run of the overlay is awaited, a change of DB_URI included.
AwaitsMigrationOfOverlay == upgrade

\* "if the version differ then it means that the operator was upgraded".
AwaitsMigration == copy["quay"].currentVersion # opVersion

\* RolloutBlocked becomes False, which does not touch the fields modelled here
\* but is a write; then Reconcile returns unless a migration has to be awaited.
FinishRollout ==
  /\ pc = "apply" /\ todo = {}
  /\ StatusUpdate("quay", copy["quay"])
  /\ \/ /\ fresh["quay"] /\ ~deferred /\ AwaitsMigration
        /\ pc' = "mark"
        /\ UNCHANGED localVars
     \/ /\ ~fresh["quay"] \/ deferred \/ ~AwaitsMigration
        /\ Return
  /\ UNCHANGED <<opVersion, clusterVars, jobVars, faults>>

MarkInProgress ==
  /\ pc = "mark"
  /\ StatusUpdate("quay", [copy["quay"] EXCEPT !.created = "MigrationsInProgress"])
  /\ Return
  /\ UNCHANGED <<opVersion, clusterVars, jobVars, faults>>

\* A check or a request failed: RolloutBlocked is written, Reconcile returns.
BlockRollout ==
  /\ pc \in {"config", "keys", "apply", "delete", "create"}
  /\ Fault
  /\ StatusUpdate("quay", copy["quay"])
  /\ Return
  /\ UNCHANGED <<opVersion, clusterVars, jobVars>>

\* A failed request is only logged, or its answer is lost.
RequestFails ==
  /\ pc # "idle"
  /\ Fault
  /\ Return
  /\ UNCHANGED <<opVersion, clusterVars, jobVars, statusVars>>

-----------------------------------------------------------------------------
(* The operator process and the status reconciler *)

\* Both reconcilers lose what they hold; the informers list everything again.
ProcessStarts ==
  /\ fresh' = [w \in Writers |-> FALSE]
  /\ jobCache' = job
  /\ Return
  /\ UNCHANGED <<clusterVars, job, status, copy>>

RestartOperator ==
  /\ Fault
  /\ ProcessStarts
  /\ UNCHANGED opVersion

\* OLM installs the next release.
UpgradeOperator ==
  /\ opVersion < MaxVersion
  /\ EarlyUpgrade \/ status.currentVersion = opVersion
  /\ opVersion' = opVersion + 1
  /\ ProcessStarts
  /\ UNCHANGED faults

\* QuayRegistryStatusReconciler.Reconcile reads the object, evaluates the
\* components and writes the whole status back; the fields modelled here go
\* back as they were read.
StatusReconcilerGets ==
  /\ GetQuay("status")
  /\ UNCHANGED <<opVersion, clusterVars, jobVars, localVars, faults, pc>>

StatusReconcilerWrites ==
  /\ StatusUpdate("status", copy["status"])
  /\ IF pc # "idle" /\ fresh["quay"] /\ fresh["status"]
       THEN Fault              \* Reconcile's next status write will conflict
       ELSE UNCHANGED faults
  /\ UNCHANGED <<opVersion, clusterVars, jobVars, localVars, pc>>

-----------------------------------------------------------------------------
(* Kubernetes and the user *)

CacheSync ==
  /\ CacheLag /\ jobCache # job
  /\ jobCache' = job
  /\ UNCHANGED <<opVersion, clusterVars, job, statusVars, localVars, faults, pc>>

JobChanges ==
  UNCHANGED <<opVersion, userDb, keys, app, jobCache, statusVars, localVars, pc>>

\* The Job controller creates a pod, or replaces one that went down.
JobPodStarts ==
  /\ job.phase \in {"new", "down"} /\ ~job.deleting
  /\ job' = [job EXCEPT !.phase = "active"]
  /\ JobChanges /\ UNCHANGED <<schema, faults>>

JobPodFails ==
  /\ job.phase = "active"
  /\ Fault
  /\ job' = [job EXCEPT !.phase = "down"]
  /\ JobChanges /\ UNCHANGED schema

\* "migrate head" of the Job's image on the Job's database; it cannot run on
\* a schema newer than the image.
JobSucceeds ==
  /\ job.phase = "active" /\ schema[job.db] <= job.version
  /\ schema' = [schema EXCEPT ![job.db] = job.version]
  /\ job' = [job EXCEPT !.phase = "succeeded"]
  /\ JobChanges /\ UNCHANGED faults

JobIsRemoved ==
  /\ job.deleting
  /\ job' = NoJob
  /\ JobChanges /\ UNCHANGED <<schema, faults>>

UserDeletesJob ==
  /\ job.phase # "none" /\ ~job.deleting
  /\ Fault
  /\ job' = [job EXCEPT !.deleting = TRUE]
  /\ JobChanges /\ UNCHANGED schema

UserMovesDatabase ==
  /\ DbMoves
  /\ Fault
  /\ userDb' \in Databases \ {userDb}
  /\ UNCHANGED <<opVersion, keys, app, schema, jobVars, statusVars, localVars, pc>>

-----------------------------------------------------------------------------

Reconcile ==
  \/ StartReconcile \/ CheckMigrationStatus \/ ReportMigration
  \/ Inflate \/ ApplyManagedKeys \/ ApplyQuayApp
  \/ LookAtJob \/ DeleteJob \/ CreateJob
  \/ FinishRollout \/ MarkInProgress

Environment ==
  \/ BlockRollout \/ RequestFails
  \/ RestartOperator \/ UpgradeOperator
  \/ StatusReconcilerGets \/ StatusReconcilerWrites
  \/ CacheSync
  \/ JobPodStarts \/ JobPodFails \/ JobSucceeds \/ JobIsRemoved
  \/ UserDeletesJob \/ UserMovesDatabase

Next == Reconcile \/ Environment

Spec == Init /\ [][Next]_vars
-----------------------------------------------------------------------------
(* Fairness.  Every reconcile returns with a requeue, so its steps are taken;  *)
(* the pod of a Job is started and, unless it fails, ends; a deleted Job goes. *)
(* Failures, interventions and conflicts come to an end after MaxFaults.       *)

Fairness ==
  /\ WF_vars(Reconcile)
  /\ WF_vars(CacheSync)
  /\ WF_vars(JobPodStarts) /\ WF_vars(JobSucceeds) /\ WF_vars(JobIsRemoved)

FairSpec == Spec /\ Fairness

-----------------------------------------------------------------------------
(* Properties *)

\* quay-app is only ever scaled up on a database that has been migrated to the
\* version it runs (Inflate renders replicas only once checkMigrationStatus has
\* seen the migration Job succeed).
AppOnMigratedSchema == app.up => schema[app.db] >= app.version

\* status.currentVersion never claims a version the registry's database has not
\* been migrated to (checkMigrationStatus sets it from the Job's success).
VersionIsMigrated ==
  keys \in Databases => schema[keys] >= status.currentVersion

\* While MigrationsInProgress is recorded quay-app is scaled down: the overlay
\* that scales it down is applied before Reconcile records the reason, and no
\* reconcile applies anything until checkMigrationStatus has replaced it.
AppDownWhileMigrating == MigrationsRunning(status) => ~app.up

\* quay-app never runs a version the registry's status does not record yet.
AppFollowsStatus == app.up => app.version <= status.currentVersion

\* MigrationsInProgress is never recorded on a registry that is up to date,
\* where checkMigrationStatus would bypass the rest of Reconcile.
ProgressMarkHonest == MigrationsRunning(status) => status.currentVersion < opVersion

\* No interleaving of the two reconcilers' whole-status writes ever takes
\* status.currentVersion back: the resourceVersion check refuses stale copies.
VersionMonotonic == [][status'.currentVersion >= status.currentVersion]_vars

\* A migration that has been recorded as in progress is eventually over: the
\* registry does not stay in the branch of Reconcile that only looks at the Job.
MigrationEnds == MigrationsRunning(status) ~> ~MigrationsRunning(status)


\* Every behaviour is one of the abstract registry: quay-app is taken down
\* before a migration is announced, the version moves only at the end of an
\* announced migration, and only the recorded version is ever scaled up.
Promise == INSTANCE Registry WITH
             Releases  <- 1..MaxVersion,
             recorded  <- status.currentVersion,
             serving   <- IF app.up THEN app.version ELSE 0,
             migrating <- MigrationsRunning(status)

ImplementsRegistry == Promise!RegistrySpec
=============================================================================
