-------------------------- MODULE MigrationProofs --------------------------
(***************************************************************************)
(* Proofs about Migration, for every number of releases, databases and     *)
(* faults.                                                                 *)
(*                                                                         *)
(* What holds in every environment follows from StatusInv: a copy with the *)
(* current resourceVersion equals the stored status, and where Reconcile   *)
(* is determines what the status says.  That the database really has been  *)
(* migrated needs ScheduleInv and three assumptions on the environment:    *)
(* the Job read is the stored one, the operator is replaced only once its  *)
(* migration is recorded, and DB_URI does not change.  TLC refutes the     *)
(* conclusion when any of the three is dropped.                            *)
(***************************************************************************)
EXTENDS Migration, TLAPS

Applying == {"keys", "apply", "delete", "create"}

\* Where Reconcile is, what it holds and what the QuayRegistry says.
StatusInv ==
  /\ \A w \in Writers : fresh[w] => copy[w] = status
  /\ pc # "idle" => copy["quay"] = status
  /\ status.currentVersion <= opVersion
  /\ pc \in {"check", "report"} => MigrationsRunning(status)
  /\ pc = "report" => outcome # "MigrationsInProgress"
  /\ pc \in Applying \cup {"config", "mark"} => ~MigrationsRunning(status)
  /\ pc \in Applying /\ status.currentVersion # opVersion => upgrade
  /\ pc \in {"delete", "create"} => "job" \in todo
  /\ "job" \in todo => upgrade
  /\ ProgressMarkHonest
  /\ AppFollowsStatus
  /\ AppDownWhileMigrating
  /\ pc = "mark" => ~app.up /\ status.currentVersion # opVersion
  /\ pc \in Applying /\ upgrade /\ ~deferred /\ "app" \notin todo => ~app.up

\* What the Job and the schema have to do with the status.
JobOfThisRelease == job.phase = "none" \/ job.version = opVersion

ScheduleInv ==
  /\ keys \in {NoDb, userDb}
  /\ job.phase # "none" => job.db = userDb /\ keys = userDb
  /\ job.version <= opVersion
  /\ status.currentVersion # 0 => keys = userDb
  /\ pc \in Applying => db = userDb
  /\ pc \in {"apply", "delete", "create", "mark"} => keys = userDb
  /\ app.up => app.db = userDb
  /\ pc \in Applying /\ upgrade => status.currentVersion # opVersion
  /\ job.phase \notin {"none", "succeeded"} =>
       job.version = opVersion /\ status.currentVersion # opVersion
  /\ job.phase = "succeeded" => schema[userDb] >= job.version
  /\ schema[userDb] >= status.currentVersion
  /\ MigrationsRunning(status) => JobOfThisRelease
  /\ pc = "mark" => JobOfThisRelease
  /\ pc = "apply" /\ upgrade /\ ~deferred /\ "job" \notin todo => JobOfThisRelease
  /\ pc = "keys" /\ upgrade /\ ~deferred => "job" \in todo
  /\ pc = "report" /\ outcome = "ComponentsCreationSuccess" =>
       /\ schema[userDb] >= opVersion /\ keys = userDb
       /\ job.phase \in {"none", "succeeded"}

-----------------------------------------------------------------------------
(* Types *)

LEMMA TypeInit == Init => TypeOK
  <1> SUFFICES ASSUME Init PROVE TypeOK
    OBVIOUS
  <1> USE ConstantsAssumption DEF ConstantsAssumption, Init, Versions, DbUris, Reasons
  <1>1. ClusterTypeOK
    BY DEF ClusterTypeOK
  <1>2. StatusTypeOK
    BY DEF StatusTypeOK, Statuses
  <1>3. JobTypeOK
    BY DEF JobTypeOK, Jobs, NoJob, Phases
  <1>4. LocalTypeOK
    BY DEF LocalTypeOK
  <1> QED
    BY <1>1, <1>2, <1>3, <1>4 DEF TypeOK

\* A status write, refused or not, stays in the types.
LEMMA StatusUpdateType ==
  ASSUME StatusTypeOK, NEW w \in Writers, NEW s \in Statuses, StatusUpdate(w, s)
  PROVE  StatusTypeOK'
  <1>1. CASE fresh[w]
    BY <1>1 DEF StatusTypeOK, StatusUpdate
  <1>2. CASE ~fresh[w]
    BY <1>2 DEF StatusTypeOK, StatusUpdate, statusVars
  <1> QED
    BY <1>1, <1>2

LEMMA GetQuayType ==
  ASSUME StatusTypeOK, NEW w \in Writers, GetQuay(w)
  PROVE  StatusTypeOK'
  BY DEF StatusTypeOK, GetQuay

LEMMA ReturnType == Return => LocalTypeOK'
  BY DEF Return, LocalTypeOK, Reasons, DbUris

LEMMA FaultType == faults \in 0..MaxFaults /\ Fault => faults' \in 0..MaxFaults
  BY ConstantsAssumption DEF ConstantsAssumption, Fault

\* The parts of the type invariant whose variables a step leaves alone.
LEMMA TypeUnchanged ==
  ASSUME TypeOK
  PROVE  /\ UNCHANGED <<opVersion, clusterVars, faults>> => ClusterTypeOK'
         /\ UNCHANGED statusVars => StatusTypeOK'
         /\ UNCHANGED jobVars => JobTypeOK'
         /\ UNCHANGED <<localVars, pc>> => LocalTypeOK'
  <1>1. UNCHANGED <<opVersion, clusterVars, faults>> => ClusterTypeOK'
    BY DEF TypeOK, ClusterTypeOK, clusterVars
  <1>2. UNCHANGED statusVars => StatusTypeOK'
    BY DEF TypeOK, StatusTypeOK, statusVars
  <1>3. UNCHANGED jobVars => JobTypeOK'
    BY DEF TypeOK, JobTypeOK, jobVars
  <1>4. UNCHANGED <<localVars, pc>> => LocalTypeOK'
    BY DEF TypeOK, LocalTypeOK, localVars
  <1> QED
    BY <1>1, <1>2, <1>3, <1>4

LEMMA TypeStep == TypeOK /\ [Next]_vars => TypeOK'
  <1> SUFFICES ASSUME TypeOK, [Next]_vars PROVE TypeOK'
    OBVIOUS
  <1> USE TypeUnchanged
  <1>1. CASE StartReconcile
    <2>1. StatusTypeOK'
      BY <1>1, GetQuayType DEF StartReconcile, TypeOK, Writers
    <2>2. LocalTypeOK'
      BY <1>1 DEF StartReconcile, TypeOK, LocalTypeOK, localVars
    <2>3. ClusterTypeOK' /\ JobTypeOK'
      BY <1>1 DEF StartReconcile
    <2> QED
      BY <2>1, <2>2, <2>3 DEF TypeOK
  <1>2. CASE CheckMigrationStatus
    <2>1. LocalTypeOK'
      BY <1>2, ReturnType DEF CheckMigrationStatus, TypeOK, LocalTypeOK, localVars, MigrationOutcome, Reasons
    <2>2. ClusterTypeOK' /\ StatusTypeOK' /\ JobTypeOK'
      BY <1>2 DEF CheckMigrationStatus
    <2> QED
      BY <2>1, <2>2 DEF TypeOK
  <1>3. CASE ReportMigration
    <2>1. StatusTypeOK'
      BY <1>3, StatusUpdateType DEF ReportMigration, TypeOK, Writers, StatusTypeOK, Statuses, ReportedStatus, ClusterTypeOK, LocalTypeOK, Versions, Reasons
    <2>2. LocalTypeOK'
      BY <1>3, ReturnType DEF ReportMigration
    <2>3. ClusterTypeOK' /\ JobTypeOK'
      BY <1>3 DEF ReportMigration
    <2> QED
      BY <2>1, <2>2, <2>3 DEF TypeOK
  <1>4. CASE Inflate
    <2>1. ClusterTypeOK'
      BY <1>4, ConstantsAssumption, FaultType DEF Inflate, ConstantsAssumption, TypeOK, ClusterTypeOK, clusterVars
    <2>2. LocalTypeOK'
      BY <1>4 DEF Inflate, NeedsUpgradeOverlay, TypeOK, LocalTypeOK, ClusterTypeOK, DbUris
    <2>3. StatusTypeOK' /\ JobTypeOK'
      BY <1>4 DEF Inflate
    <2> QED
      BY <2>1, <2>2, <2>3 DEF TypeOK
  <1>5. CASE ApplyManagedKeys
    <2>1. ClusterTypeOK'
      BY <1>5, ConstantsAssumption DEF ApplyManagedKeys, ConstantsAssumption, TypeOK, ClusterTypeOK, clusterVars, LocalTypeOK
    <2>2. LocalTypeOK'
      BY <1>5 DEF ApplyManagedKeys, TypeOK, LocalTypeOK, localVars
    <2>3. StatusTypeOK' /\ JobTypeOK'
      BY <1>5 DEF ApplyManagedKeys
    <2> QED
      BY <2>1, <2>2, <2>3 DEF TypeOK
  <1>6. CASE ApplyQuayApp
    <2>1. ClusterTypeOK'
      BY <1>6, ConstantsAssumption DEF ApplyQuayApp, ConstantsAssumption, TypeOK, ClusterTypeOK, clusterVars, LocalTypeOK, Versions
    <2>2. LocalTypeOK'
      BY <1>6 DEF ApplyQuayApp, TypeOK, LocalTypeOK, localVars
    <2>3. StatusTypeOK' /\ JobTypeOK'
      BY <1>6 DEF ApplyQuayApp
    <2> QED
      BY <2>1, <2>2, <2>3 DEF TypeOK
  <1>7. CASE LookAtJob
    <2>1. LocalTypeOK'
      BY <1>7 DEF LookAtJob, TypeOK, LocalTypeOK, localVars
    <2>2. ClusterTypeOK' /\ StatusTypeOK' /\ JobTypeOK'
      BY <1>7 DEF LookAtJob
    <2> QED
      BY <2>1, <2>2 DEF TypeOK
  <1>8. CASE DeleteJob
    <2>1. JobTypeOK'
      BY <1>8 DEF DeleteJob, TypeOK, JobTypeOK, jobVars, Jobs, Phases
    <2>2. LocalTypeOK'
      BY <1>8 DEF DeleteJob, TypeOK, LocalTypeOK, localVars
    <2>3. ClusterTypeOK' /\ StatusTypeOK'
      BY <1>8 DEF DeleteJob
    <2> QED
      BY <2>1, <2>2, <2>3 DEF TypeOK
  <1>9. CASE CreateJob
    <2>1. JobTypeOK'
      <3>1. db \in Databases
        BY <1>9 DEF CreateJob, TypeOK, LocalTypeOK
      <3>2. NewJob \in Jobs /\ NewJob.db \in Databases
        BY <3>1, ConstantsAssumption
           DEF ConstantsAssumption, NewJob, Jobs, Phases, Versions, DbUris, TypeOK, ClusterTypeOK
      <3> QED
        BY <1>9, <3>2 DEF CreateJob, TypeOK, JobTypeOK
    <2>2. LocalTypeOK'
      <3>1. CASE Return
        BY <3>1, ReturnType
      <3>2. CASE ~Return
        BY <1>9, <3>2 DEF CreateJob, TypeOK, LocalTypeOK
      <3> QED
        BY <3>1, <3>2
    <2>3. ClusterTypeOK' /\ StatusTypeOK'
      BY <1>9 DEF CreateJob
    <2> QED
      BY <2>1, <2>2, <2>3 DEF TypeOK
  <1>10. CASE FinishRollout
    <2>1. StatusTypeOK'
      BY <1>10, StatusUpdateType DEF FinishRollout, TypeOK, Writers, StatusTypeOK
    <2>2. LocalTypeOK'
      BY <1>10, ReturnType DEF FinishRollout, TypeOK, LocalTypeOK, localVars
    <2>3. ClusterTypeOK' /\ JobTypeOK'
      BY <1>10 DEF FinishRollout
    <2> QED
      BY <2>1, <2>2, <2>3 DEF TypeOK
  <1>11. CASE MarkInProgress
    <2>1. StatusTypeOK'
      BY <1>11, StatusUpdateType DEF MarkInProgress, TypeOK, Writers, StatusTypeOK, Statuses, Reasons
    <2>2. LocalTypeOK'
      BY <1>11, ReturnType DEF MarkInProgress
    <2>3. ClusterTypeOK' /\ JobTypeOK'
      BY <1>11 DEF MarkInProgress
    <2> QED
      BY <2>1, <2>2, <2>3 DEF TypeOK
  <1>12. CASE BlockRollout
    <2>1. ClusterTypeOK'
      BY <1>12, ConstantsAssumption, FaultType DEF BlockRollout, ConstantsAssumption, TypeOK, ClusterTypeOK, clusterVars
    <2>2. StatusTypeOK'
      BY <1>12, StatusUpdateType DEF BlockRollout, TypeOK, Writers, StatusTypeOK
    <2>3. LocalTypeOK'
      BY <1>12, ReturnType DEF BlockRollout
    <2>4. JobTypeOK'
      BY <1>12 DEF BlockRollout
    <2> QED
      BY <2>1, <2>2, <2>3, <2>4 DEF TypeOK
  <1>13. CASE RequestFails
    <2>1. ClusterTypeOK'
      BY <1>13, ConstantsAssumption, FaultType DEF RequestFails, ConstantsAssumption, TypeOK, ClusterTypeOK, clusterVars
    <2>2. LocalTypeOK'
      BY <1>13, ReturnType DEF RequestFails
    <2>3. StatusTypeOK' /\ JobTypeOK'
      BY <1>13 DEF RequestFails
    <2> QED
      BY <2>1, <2>2, <2>3 DEF TypeOK
  <1>14. CASE RestartOperator
    <2>1. ClusterTypeOK'
      BY <1>14, ConstantsAssumption, FaultType DEF RestartOperator, ConstantsAssumption, TypeOK, ClusterTypeOK, clusterVars, ProcessStarts
    <2>2. StatusTypeOK'
      BY <1>14 DEF RestartOperator, TypeOK, StatusTypeOK, ProcessStarts
    <2>3. JobTypeOK'
      BY <1>14 DEF RestartOperator, TypeOK, JobTypeOK, ProcessStarts
    <2>4. LocalTypeOK'
      BY <1>14, ReturnType DEF RestartOperator, ProcessStarts
    <2> QED
      BY <2>1, <2>2, <2>3, <2>4 DEF TypeOK
  <1>15. CASE UpgradeOperator
    <2>1. ClusterTypeOK'
      BY <1>15, ConstantsAssumption DEF UpgradeOperator, ConstantsAssumption, TypeOK, ClusterTypeOK, clusterVars, ProcessStarts
    <2>2. StatusTypeOK'
      BY <1>15 DEF UpgradeOperator, TypeOK, StatusTypeOK, ProcessStarts
    <2>3. JobTypeOK'
      BY <1>15 DEF UpgradeOperator, TypeOK, JobTypeOK, ProcessStarts
    <2>4. LocalTypeOK'
      BY <1>15, ReturnType DEF UpgradeOperator, ProcessStarts
    <2> QED
      BY <2>1, <2>2, <2>3, <2>4 DEF TypeOK
  <1>16. CASE StatusReconcilerGets
    <2>1. StatusTypeOK'
      BY <1>16, GetQuayType DEF StatusReconcilerGets, TypeOK, Writers
    <2>2. ClusterTypeOK' /\ JobTypeOK' /\ LocalTypeOK'
      BY <1>16 DEF StatusReconcilerGets
    <2> QED
      BY <2>1, <2>2 DEF TypeOK
  <1>17. CASE StatusReconcilerWrites
    <2>1. ClusterTypeOK'
      BY <1>17, ConstantsAssumption, FaultType DEF StatusReconcilerWrites, ConstantsAssumption, TypeOK, ClusterTypeOK, clusterVars
    <2>2. StatusTypeOK'
      BY <1>17, StatusUpdateType DEF StatusReconcilerWrites, TypeOK, Writers, StatusTypeOK
    <2>3. JobTypeOK' /\ LocalTypeOK'
      BY <1>17 DEF StatusReconcilerWrites
    <2> QED
      BY <2>1, <2>2, <2>3 DEF TypeOK
  <1>18. CASE CacheSync
    <2>1. JobTypeOK'
      BY <1>18 DEF CacheSync, TypeOK, JobTypeOK, jobVars, Jobs, Phases
    <2>2. ClusterTypeOK' /\ StatusTypeOK' /\ LocalTypeOK'
      BY <1>18 DEF CacheSync
    <2> QED
      BY <2>1, <2>2 DEF TypeOK
  <1>19. CASE JobPodStarts
    <2>1. JobTypeOK'
      BY <1>19 DEF JobPodStarts, TypeOK, JobTypeOK, jobVars, Jobs, Phases, JobChanges
    <2>2. ClusterTypeOK' /\ StatusTypeOK' /\ LocalTypeOK'
      BY <1>19 DEF JobPodStarts, JobChanges, statusVars, localVars, clusterVars
    <2> QED
      BY <2>1, <2>2 DEF TypeOK
  <1>20. CASE JobPodFails
    <2>1. ClusterTypeOK'
      BY <1>20, ConstantsAssumption, FaultType DEF JobPodFails, ConstantsAssumption, TypeOK, ClusterTypeOK, clusterVars, JobChanges
    <2>2. JobTypeOK'
      BY <1>20 DEF JobPodFails, TypeOK, JobTypeOK, jobVars, Jobs, Phases, JobChanges
    <2>3. StatusTypeOK' /\ LocalTypeOK'
      BY <1>20 DEF JobPodFails, JobChanges, statusVars, localVars, clusterVars
    <2> QED
      BY <2>1, <2>2, <2>3 DEF TypeOK
  <1>21. CASE JobSucceeds
    <2>1. ClusterTypeOK'
      BY <1>21, ConstantsAssumption DEF JobSucceeds, ConstantsAssumption, TypeOK, ClusterTypeOK, clusterVars, JobTypeOK, Jobs, JobChanges
    <2>2. JobTypeOK'
      BY <1>21 DEF JobSucceeds, TypeOK, JobTypeOK, jobVars, Jobs, Phases, JobChanges
    <2>3. StatusTypeOK' /\ LocalTypeOK'
      BY <1>21 DEF JobSucceeds, JobChanges, statusVars, localVars, clusterVars
    <2> QED
      BY <2>1, <2>2, <2>3 DEF TypeOK
  <1>22. CASE JobIsRemoved
    <2>1. JobTypeOK'
      BY <1>22, ConstantsAssumption DEF JobIsRemoved, ConstantsAssumption, TypeOK, JobTypeOK, Jobs, Phases, NoJob, Versions, DbUris, JobChanges
    <2>2. ClusterTypeOK' /\ StatusTypeOK' /\ LocalTypeOK'
      BY <1>22 DEF JobIsRemoved, JobChanges, statusVars, localVars, clusterVars
    <2> QED
      BY <2>1, <2>2 DEF TypeOK
  <1>23. CASE UserDeletesJob
    <2>1. ClusterTypeOK'
      BY <1>23, ConstantsAssumption, FaultType DEF UserDeletesJob, ConstantsAssumption, TypeOK, ClusterTypeOK, clusterVars, JobChanges
    <2>2. JobTypeOK'
      BY <1>23 DEF UserDeletesJob, TypeOK, JobTypeOK, jobVars, Jobs, Phases, JobChanges
    <2>3. StatusTypeOK' /\ LocalTypeOK'
      BY <1>23 DEF UserDeletesJob, JobChanges, statusVars, localVars, clusterVars
    <2> QED
      BY <2>1, <2>2, <2>3 DEF TypeOK
  <1>24. CASE UserMovesDatabase
    <2>1. ClusterTypeOK'
      BY <1>24, ConstantsAssumption, FaultType DEF UserMovesDatabase, ConstantsAssumption, TypeOK, ClusterTypeOK, clusterVars
    <2>2. StatusTypeOK' /\ JobTypeOK' /\ LocalTypeOK'
      BY <1>24 DEF UserMovesDatabase, statusVars
    <2> QED
      BY <2>1, <2>2 DEF TypeOK
  <1>25. CASE UNCHANGED vars
    BY <1>25 DEF vars, TypeOK
  <1> QED
    BY <1>1, <1>2, <1>3, <1>4, <1>5, <1>6, <1>7, <1>8, <1>9, <1>10, <1>11, <1>12, <1>13, <1>14, <1>15, <1>16, <1>17, <1>18, <1>19, <1>20, <1>21, <1>22, <1>23, <1>24, <1>25
       DEF Next, Reconcile, Environment

\* Every variable keeps its type, whatever the environment does.
THEOREM TypeCorrect == Spec => []TypeOK
  BY TypeInit, TypeStep, PTL DEF Spec

-----------------------------------------------------------------------------
(* The status and the place where Reconcile is *)

\* A refused write changes nothing, an accepted one leaves every copy that
\* still carries the current resourceVersion equal to what is stored.
LEMMA StatusUpdateCopies ==
  ASSUME StatusTypeOK, NEW w \in Writers, NEW s \in Statuses, StatusUpdate(w, s),
         \A v \in Writers : fresh[v] => copy[v] = status
  PROVE  /\ \A v \in Writers : fresh'[v] => copy'[v] = status'
         /\ fresh[w] => status' = s /\ copy'[w] = s
         /\ ~fresh[w] => status' = status /\ copy'[w] = copy[w]
         /\ \A v \in Writers \ {w} : copy'[v] = copy[v]
  <1>1. CASE fresh[w]
    BY <1>1 DEF StatusTypeOK, StatusUpdate
  <1>2. CASE ~fresh[w]
    BY <1>2 DEF StatusTypeOK, StatusUpdate, statusVars
  <1> QED
    BY <1>1, <1>2

LEMMA StatusInit == Init => StatusInv
  BY DEF Init, StatusInv, Writers, MigrationsRunning, Applying, ProgressMarkHonest,
     AppFollowsStatus, AppDownWhileMigrating

\* Every step of Reconcile, of the status reconciler and of the cluster keeps StatusInv.
LEMMA StatusStep == TypeOK /\ StatusInv /\ [Next]_vars => StatusInv'
  <1> SUFFICES ASSUME TypeOK, StatusInv, [Next]_vars PROVE StatusInv'
    OBVIOUS
  <1> USE DEF StatusInv, Applying, ProgressMarkHonest, AppFollowsStatus,
      AppDownWhileMigrating, MigrationsRunning
  <1>1. CASE StartReconcile
    BY <1>1 DEF StartReconcile, GetQuay, StatusTypeOK, Writers, TypeOK, clusterVars, jobVars, statusVars, localVars
  <1>2. CASE CheckMigrationStatus
    BY <1>2 DEF CheckMigrationStatus, Return, MigrationOutcome, SeenJob, TypeOK, clusterVars, jobVars, statusVars, localVars
  <1>3. CASE ReportMigration
    <2>1. ReportedStatus \in Statuses /\ "quay" \in Writers
      BY DEF ReportedStatus, Statuses, TypeOK, ClusterTypeOK, StatusTypeOK, LocalTypeOK, Versions, Writers
    <2>2. /\ \A v \in Writers : fresh'[v] => copy'[v] = status'
          /\ status' = ReportedStatus \/ status' = status
      BY <1>3, <2>1, StatusUpdateCopies DEF ReportMigration, TypeOK
    <2>3. status.currentVersion <= status'.currentVersion /\ status'.currentVersion <= opVersion
      BY <1>3, <2>2 DEF ReportMigration, ReportedStatus, TypeOK, ClusterTypeOK, StatusTypeOK, Statuses, Versions
    <2>4. ~app.up
      BY <1>3 DEF ReportMigration
    <2>5. MigrationsRunning(status') => status' = status
      <3>1. outcome # "MigrationsInProgress"
        BY <1>3 DEF ReportMigration
      <3> QED
        BY <2>2, <3>1 DEF ReportedStatus
    <2> QED
      BY <1>3, <2>2, <2>3, <2>4, <2>5 DEF ReportMigration, Return, clusterVars
  <1>4. CASE Inflate
    BY <1>4 DEF Inflate, NeedsUpgradeOverlay, TypeOK, ClusterTypeOK, clusterVars, statusVars
  <1>5. CASE ApplyManagedKeys
    BY <1>5 DEF ApplyManagedKeys, TypeOK, clusterVars, jobVars, statusVars, localVars
  <1>6. CASE ApplyQuayApp
    BY <1>6 DEF ApplyQuayApp, TypeOK, clusterVars, jobVars, statusVars, localVars
  <1>7. CASE LookAtJob
    BY <1>7 DEF LookAtJob, TypeOK, clusterVars, jobVars, statusVars, localVars
  <1>8. CASE DeleteJob
    BY <1>8 DEF DeleteJob, TypeOK, clusterVars, jobVars, statusVars, localVars
  <1>9. CASE CreateJob
    BY <1>9 DEF CreateJob, Return, NewJob, NoJob, TypeOK, clusterVars, jobVars, statusVars, localVars
  <1>10. CASE FinishRollout
    <2>1. copy["quay"] \in Statuses /\ "quay" \in Writers /\ copy["quay"] = status
      BY <1>10 DEF FinishRollout, TypeOK, StatusTypeOK, Writers
    <2>2. /\ \A v \in Writers : fresh'[v] => copy'[v] = status'
          /\ status' = status /\ copy'["quay"] = status
      BY <1>10, <2>1, StatusUpdateCopies DEF FinishRollout, TypeOK
    <2> QED
      BY <1>10, <2>1, <2>2 DEF FinishRollout, AwaitsMigration, Return, clusterVars, localVars
  <1>11. CASE MarkInProgress
    <2> DEFINE s == [copy["quay"] EXCEPT !.created = "MigrationsInProgress"]
    <2>1. s \in Statuses /\ "quay" \in Writers /\ s.currentVersion = status.currentVersion
      BY <1>11 DEF MarkInProgress, TypeOK, StatusTypeOK, Statuses, Reasons, Writers
    <2>2. /\ \A v \in Writers : fresh'[v] => copy'[v] = status'
          /\ status' = s \/ status' = status
      BY <1>11, <2>1, StatusUpdateCopies DEF MarkInProgress, TypeOK
    <2>3. ~app.up /\ status.currentVersion < opVersion
      BY <1>11 DEF MarkInProgress, TypeOK, ClusterTypeOK, StatusTypeOK, Statuses, Versions
    <2> HIDE DEF s
    <2> QED
      BY <1>11, <2>1, <2>2, <2>3 DEF MarkInProgress, Return, clusterVars
  <1>12. CASE BlockRollout
    BY <1>12, StatusUpdateCopies DEF BlockRollout, Return, Fault, StatusTypeOK, Writers, TypeOK, clusterVars, jobVars, statusVars, localVars
  <1>13. CASE RequestFails
    BY <1>13 DEF RequestFails, Return, Fault, TypeOK, clusterVars, jobVars, statusVars, localVars
  <1>14. CASE RestartOperator
    BY <1>14 DEF RestartOperator, ProcessStarts, Return, Fault, TypeOK, clusterVars, jobVars, statusVars, localVars
  <1>15. CASE UpgradeOperator
    BY <1>15 DEF UpgradeOperator, ProcessStarts, Return, TypeOK, ClusterTypeOK, StatusTypeOK, Statuses, Versions, clusterVars
  <1>16. CASE StatusReconcilerGets
    BY <1>16 DEF StatusReconcilerGets, GetQuay, StatusTypeOK, Writers, TypeOK, clusterVars, jobVars, statusVars, localVars
  <1>17. CASE StatusReconcilerWrites
    BY <1>17, StatusUpdateCopies DEF StatusReconcilerWrites, Fault, StatusTypeOK, Writers, TypeOK, clusterVars, jobVars, statusVars, localVars
  <1>18. CASE CacheSync
    BY <1>18 DEF CacheSync, TypeOK, clusterVars, jobVars, statusVars, localVars
  <1>19. CASE JobPodStarts
    BY <1>19 DEF JobPodStarts, JobChanges, TypeOK, clusterVars, jobVars, statusVars, localVars
  <1>20. CASE JobPodFails
    BY <1>20 DEF JobPodFails, Fault, JobChanges, TypeOK, clusterVars, jobVars, statusVars, localVars
  <1>21. CASE JobSucceeds
    BY <1>21 DEF JobSucceeds, JobChanges, TypeOK, clusterVars, jobVars, statusVars, localVars
  <1>22. CASE JobIsRemoved
    BY <1>22 DEF JobIsRemoved, JobChanges, NoJob, TypeOK, clusterVars, jobVars, statusVars, localVars
  <1>23. CASE UserDeletesJob
    BY <1>23 DEF UserDeletesJob, Fault, JobChanges, TypeOK, clusterVars, jobVars, statusVars, localVars
  <1>24. CASE UserMovesDatabase
    BY <1>24 DEF UserMovesDatabase, Fault, TypeOK, clusterVars, jobVars, statusVars, localVars
  <1>25. CASE UNCHANGED vars
    BY <1>25 DEF vars, clusterVars, jobVars, statusVars, localVars
  <1> QED
    BY <1>1, <1>2, <1>3, <1>4, <1>5, <1>6, <1>7, <1>8, <1>9, <1>10, <1>11, <1>12, <1>13, <1>14, <1>15, <1>16, <1>17, <1>18, <1>19, <1>20, <1>21, <1>22, <1>23, <1>24, <1>25
       DEF Next, Reconcile, Environment

\* The status reconciler, operator upgrades, a lagging cache and database moves never
\* break what the recorded version, the mark and quay-app have to do with each other.
THEOREM StatusInvariant == Spec => []StatusInv
  BY StatusInit, StatusStep, TypeCorrect, PTL DEF Spec

\* quay-app is scaled down whenever MigrationsInProgress is recorded.
THEOREM DownWhileMigrating == Spec => []AppDownWhileMigrating
  BY StatusInvariant, PTL DEF StatusInv

\* quay-app never runs a version that status.currentVersion does not record.
THEOREM FollowsStatus == Spec => []AppFollowsStatus
  BY StatusInvariant, PTL DEF StatusInv

\* MigrationsInProgress is never recorded on a registry that is up to date.
THEOREM MarkHonest == Spec => []ProgressMarkHonest
  BY StatusInvariant, PTL DEF StatusInv

\* What each write of the status can make of it.
LEMMA StatusEffect ==
  ASSUME TypeOK, StatusInv
  PROVE  /\ FinishRollout \/ BlockRollout \/ StatusReconcilerWrites => status' = status
         /\ MarkInProgress => status' = status \/
              /\ status'.currentVersion = status.currentVersion
              /\ status'.created = "MigrationsInProgress"
         /\ ReportMigration => status' = status \/
              /\ status'.created = outcome
              /\ status'.currentVersion = IF outcome = "ComponentsCreationSuccess"
                                            THEN opVersion ELSE status.currentVersion
  <1>1. ASSUME FinishRollout \/ BlockRollout PROVE status' = status
    <2>1. copy["quay"] = status
      BY <1>1 DEF FinishRollout, BlockRollout, StatusInv
    <2> QED
      BY <1>1, <2>1 DEF FinishRollout, BlockRollout, StatusUpdate, statusVars
  <1>2. ASSUME StatusReconcilerWrites PROVE status' = status
    <2>1. fresh["status"] => copy["status"] = status
      BY DEF StatusInv, Writers
    <2> QED
      BY <1>2, <2>1 DEF StatusReconcilerWrites, StatusUpdate, statusVars
  <1>3. ASSUME MarkInProgress
        PROVE  \/ status' = status
               \/ /\ status'.currentVersion = status.currentVersion
                  /\ status'.created = "MigrationsInProgress"
    <2>1. copy["quay"] = status
      BY <1>3 DEF MarkInProgress, StatusInv
    <2>2. status' = status \/ status' = [status EXCEPT !.created = "MigrationsInProgress"]
      BY <1>3, <2>1 DEF MarkInProgress, StatusUpdate, statusVars
    <2> QED
      BY <2>2 DEF TypeOK, StatusTypeOK, Statuses
  <1>4. ASSUME ReportMigration
        PROVE  \/ status' = status
               \/ /\ status'.created = outcome
                  /\ status'.currentVersion = IF outcome = "ComponentsCreationSuccess"
                                                THEN opVersion ELSE status.currentVersion
    <2>1. copy["quay"] = status
      BY <1>4 DEF ReportMigration, StatusInv
    <2>2. status' = status \/ status' = ReportedStatus
      BY <1>4 DEF ReportMigration, StatusUpdate, statusVars
    <2> QED
      BY <2>1, <2>2 DEF ReportedStatus
  <1> QED
    BY <1>1, <1>2, <1>3, <1>4

\* Only ReportMigration changes status.currentVersion, and it raises it.
LEMMA VersionStep ==
  TypeOK /\ StatusInv /\ [Next]_vars => status'.currentVersion >= status.currentVersion
  <1> SUFFICES ASSUME TypeOK, StatusInv, [Next]_vars
               PROVE  status'.currentVersion >= status.currentVersion
    OBVIOUS
  <1>1. status.currentVersion \in Int /\ opVersion \in Int /\ status.currentVersion <= opVersion
    BY ConstantsAssumption
       DEF ConstantsAssumption, TypeOK, ClusterTypeOK, StatusTypeOK, Statuses, Versions, StatusInv
  <1>2. CASE ReportMigration \/ MarkInProgress
    BY <1>1, <1>2, StatusEffect
  <1>3. CASE status' = status
    BY <1>1, <1>3
  <1>4. ReportMigration \/ MarkInProgress \/ status' = status
    BY StatusEffect
       DEF Next, Reconcile, Environment, vars, statusVars, GetQuay, ProcessStarts, JobChanges,
       StartReconcile, CheckMigrationStatus, Inflate, ApplyManagedKeys, ApplyQuayApp,
       LookAtJob, DeleteJob, CreateJob, RequestFails, RestartOperator, UpgradeOperator,
       StatusReconcilerGets, CacheSync, JobPodStarts, JobPodFails, JobSucceeds,
       JobIsRemoved, UserDeletesJob, UserMovesDatabase
  <1> QED
    BY <1>2, <1>3, <1>4

\* No write of either reconciler takes status.currentVersion back.
THEOREM VersionNeverFalls == Spec => VersionMonotonic
  <1>1. TypeOK /\ StatusInv /\ [Next]_vars =>
          [status'.currentVersion >= status.currentVersion]_vars
    BY VersionStep
  <1> QED
    BY <1>1, TypeCorrect, StatusInvariant, PTL DEF Spec, VersionMonotonic

-----------------------------------------------------------------------------
(* The database has been migrated *)

LEMMA ScheduleInit == Init => ScheduleInv
  BY ConstantsAssumption
     DEF ConstantsAssumption, Init, ScheduleInv, Applying, NoJob, MigrationsRunning, JobOfThisRelease

\* With an up-to-date cache, one operator per migration and a fixed database, every
\* step keeps the Job the one this release has scheduled.
LEMMA ScheduleStep ==
  ASSUME ~CacheLag, ~EarlyUpgrade, ~DbMoves
  PROVE  TypeOK /\ StatusInv /\ ScheduleInv /\ [Next]_vars => ScheduleInv'
  <1> SUFFICES ASSUME TypeOK, StatusInv, ScheduleInv, [Next]_vars PROVE ScheduleInv'
    OBVIOUS
  <1> USE DEF ScheduleInv, Applying, MigrationsRunning, JobOfThisRelease
  <1>0. /\ opVersion \in Nat \ {0} /\ status.currentVersion \in Int /\ job.version \in Int
        /\ userDb \in Databases /\ schema[userDb] \in Int
        /\ pc # "idle" => copy["quay"] = status
        /\ status.currentVersion <= opVersion
    BY ConstantsAssumption DEF ConstantsAssumption, TypeOK, ClusterTypeOK, StatusTypeOK, JobTypeOK,
       Statuses, Jobs, Versions, StatusInv
  <1>1. CASE StartReconcile
    BY <1>0, <1>1 DEF StartReconcile, GetQuay, clusterVars, jobVars, localVars
  <1>2. CASE CheckMigrationStatus
    <2>1. SeenJob = job
      BY DEF SeenJob
    <2>2. CASE Return
      BY <1>2, <2>2 DEF CheckMigrationStatus, Return, clusterVars, jobVars, statusVars
    <2>3. CASE ~Return
      BY <1>0, <1>2, <2>1, <2>3
         DEF CheckMigrationStatus, MigrationOutcome, StatusInv, clusterVars, jobVars, statusVars
    <2> QED
      BY <2>2, <2>3
  <1>3. CASE ReportMigration
    BY <1>0, <1>3, StatusEffect DEF ReportMigration, StatusInv, Return, clusterVars, jobVars
  <1>4. CASE Inflate
    BY <1>0, <1>4 DEF Inflate, NeedsUpgradeOverlay, clusterVars, jobVars, statusVars
  <1>5. CASE ApplyManagedKeys
    BY <1>0, <1>5 DEF ApplyManagedKeys, jobVars, statusVars, localVars
  <1>6. CASE ApplyQuayApp
    BY <1>0, <1>6 DEF ApplyQuayApp, jobVars, statusVars
  <1>7. CASE LookAtJob
    BY <1>0, <1>7 DEF LookAtJob, SkipsRecreation, SeenJob, StatusInv, clusterVars, jobVars, statusVars
  <1>8. CASE DeleteJob
    BY <1>0, <1>8 DEF DeleteJob, TypeOK, JobTypeOK, Jobs, clusterVars, statusVars, localVars
  <1>9. CASE CreateJob
    <2>1. upgrade /\ status.currentVersion # opVersion /\ ~MigrationsRunning(status)
      BY <1>9 DEF CreateJob, StatusInv
    <2>2. CASE job.phase = "none"
      BY <1>0, <1>9, <2>1, <2>2 DEF CreateJob, NewJob, clusterVars, statusVars
    <2>3. CASE job.phase # "none"
      BY <1>9, <2>3 DEF CreateJob, Return, clusterVars, statusVars
    <2> QED
      BY <2>2, <2>3
  <1>10. CASE FinishRollout
    BY <1>0, <1>10, StatusEffect DEF FinishRollout, AwaitsMigration, StatusInv, Return, clusterVars, jobVars, localVars
  <1>11. CASE MarkInProgress
    BY <1>0, <1>11, StatusEffect DEF MarkInProgress, Return, clusterVars, jobVars
  <1>12. CASE BlockRollout
    BY <1>0, <1>12, StatusEffect DEF BlockRollout, Return, clusterVars, jobVars
  <1>13. CASE RequestFails
    BY <1>0, <1>13 DEF RequestFails, Return, clusterVars, jobVars, statusVars
  <1>14. CASE RestartOperator
    BY <1>0, <1>14 DEF RestartOperator, ProcessStarts, Return, clusterVars
  <1>15. CASE UpgradeOperator
    BY <1>0, <1>15 DEF UpgradeOperator, ProcessStarts, Return, clusterVars, StatusInv, ProgressMarkHonest
  <1>16. CASE StatusReconcilerGets
    BY <1>0, <1>16 DEF StatusReconcilerGets, GetQuay, clusterVars, jobVars, localVars
  <1>17. CASE StatusReconcilerWrites
    BY <1>0, <1>17, StatusEffect DEF StatusReconcilerWrites, clusterVars, jobVars, localVars
  <1>18. CASE CacheSync
    BY <1>0, <1>18 DEF CacheSync
  <1>19. CASE JobPodStarts
    BY <1>0, <1>19 DEF JobPodStarts, JobChanges, TypeOK, JobTypeOK, Jobs, statusVars, localVars
  <1>20. CASE JobPodFails
    BY <1>0, <1>20 DEF JobPodFails, JobChanges, TypeOK, JobTypeOK, Jobs, statusVars, localVars
  <1>21. CASE JobSucceeds
    <2>1. schema'[userDb] = job.version /\ schema'[userDb] >= schema[userDb]
      BY <1>0, <1>21 DEF JobSucceeds, TypeOK, ClusterTypeOK
    <2>2. job'.phase = "succeeded" /\ job'.version = job.version /\ job'.db = job.db
      BY <1>21 DEF JobSucceeds, TypeOK, JobTypeOK, Jobs
    <2> QED
      BY <1>0, <1>21, <2>1, <2>2 DEF JobSucceeds, JobChanges, statusVars, localVars
  <1>22. CASE JobIsRemoved
    BY <1>0, <1>22 DEF JobIsRemoved, JobChanges, NoJob, statusVars, localVars
  <1>23. CASE UserDeletesJob
    BY <1>0, <1>23 DEF UserDeletesJob, JobChanges, TypeOK, JobTypeOK, Jobs, statusVars, localVars
  <1>24. CASE UserMovesDatabase
    BY <1>0, <1>24 DEF UserMovesDatabase
  <1>25. CASE UNCHANGED vars
    BY <1>25 DEF vars, clusterVars, jobVars, statusVars, localVars
  <1> QED
    BY <1>1, <1>2, <1>3, <1>4, <1>5, <1>6, <1>7, <1>8, <1>9, <1>10, <1>11, <1>12, <1>13, <1>14, <1>15, <1>16, <1>17, <1>18, <1>19, <1>20, <1>21, <1>22, <1>23, <1>24, <1>25
       DEF Next, Reconcile, Environment

\* status.currentVersion only records versions the database has been migrated to,
\* and quay-app only runs on a database migrated to its version, provided that
\* Reconcile sees the Job as it is, the operator is not replaced during a
\* migration and DB_URI does not change.
THEOREM Migrated ==
  ASSUME ~CacheLag, ~EarlyUpgrade, ~DbMoves
  PROVE  Spec => [](VersionIsMigrated /\ AppOnMigratedSchema)
  <1>1. TypeOK /\ StatusInv /\ ScheduleInv => VersionIsMigrated /\ AppOnMigratedSchema
    <2> SUFFICES ASSUME TypeOK, StatusInv, ScheduleInv
                 PROVE  VersionIsMigrated /\ AppOnMigratedSchema
      OBVIOUS
    <2>1. /\ keys \in Databases => keys = userDb
          /\ app.up => app.db = userDb
          /\ app.up => app.version <= status.currentVersion
          /\ schema[userDb] >= status.currentVersion
      BY ConstantsAssumption DEF ConstantsAssumption, ScheduleInv, StatusInv, AppFollowsStatus
    <2>2. app.version \in Int /\ status.currentVersion \in Int /\ schema[userDb] \in Int
      BY DEF TypeOK, ClusterTypeOK, StatusTypeOK, Statuses, Versions
    <2> QED
      BY <2>1, <2>2 DEF VersionIsMigrated, AppOnMigratedSchema
  <1> QED
    BY <1>1, ScheduleInit, ScheduleStep, TypeCorrect, StatusInvariant, PTL DEF Spec

\* The schema half of Migrated: a running quay-app finds its database migrated
\* to the version it runs.
THEOREM RunsOnMigratedSchema ==
  ASSUME ~CacheLag, ~EarlyUpgrade, ~DbMoves
  PROVE  Spec => []AppOnMigratedSchema
  BY Migrated, PTL

-----------------------------------------------------------------------------
(* Migration implements Registry *)

\* A registry that has never been reconciled is an initial state of Registry.
LEMMA PromiseInit == Init => Promise!RegistryInit
  BY DEF Init, Promise!RegistryInit, MigrationsRunning

\* Steps that leave quay-app and the status alone are stutters.
LEMMA PromiseStutter ==
  ASSUME app' = app, status' = status
  PROVE  UNCHANGED Promise!registryVars
  BY DEF Promise!registryVars, MigrationsRunning

\* Every step of Migration is a step of Registry or leaves what it promises alone.
LEMMA PromiseStep ==
  TypeOK /\ StatusInv /\ [Next]_vars => [Promise!RegistryNext]_(Promise!registryVars)
  <1> SUFFICES ASSUME TypeOK, StatusInv, [Next]_vars
               PROVE  Promise!RegistryNext \/ UNCHANGED Promise!registryVars
    OBVIOUS
  <1>0. /\ opVersion \in 1..MaxVersion /\ status.currentVersion \in Nat
        /\ status.currentVersion <= opVersion
        /\ MigrationsRunning(status) => status.currentVersion < opVersion /\ ~app.up
    BY ConstantsAssumption
       DEF ConstantsAssumption, TypeOK, ClusterTypeOK, StatusTypeOK, Statuses, Versions,
           StatusInv, ProgressMarkHonest, AppDownWhileMigrating
  <1>1. CASE ReportMigration
    <2>1. app' = app /\ MigrationsRunning(status) /\ outcome # "MigrationsInProgress"
      BY <1>1 DEF ReportMigration, StatusInv, clusterVars
    <2>2. CASE status' = status
      BY <2>1, <2>2, PromiseStutter
    <2>3. CASE status' # status /\ outcome = "ComponentsCreationSuccess"
      <3>1. status'.currentVersion = opVersion /\ ~MigrationsRunning(status')
        BY <1>1, <2>3, StatusEffect DEF MigrationsRunning
      <3>2. Promise!Record
        BY <1>0, <2>1, <3>1 DEF Promise!Record
      <3> QED
        BY <3>2 DEF Promise!RegistryNext
    <2>4. CASE status' # status /\ outcome # "ComponentsCreationSuccess"
      <3>1. status'.currentVersion = status.currentVersion /\ ~MigrationsRunning(status')
        BY <1>1, <2>1, <2>4, StatusEffect DEF MigrationsRunning
      <3>2. Promise!Withdraw
        BY <2>1, <3>1 DEF Promise!Withdraw
      <3> QED
        BY <3>2 DEF Promise!RegistryNext
    <2> QED
      BY <2>2, <2>3, <2>4
  <1>2. CASE MarkInProgress
    <2>1. app' = app /\ ~app.up
      BY <1>2 DEF MarkInProgress, StatusInv, clusterVars
    <2>2. CASE status' = status
      BY <2>1, <2>2, PromiseStutter
    <2>3. CASE status' # status
      <3>1. status'.currentVersion = status.currentVersion /\ MigrationsRunning(status')
        BY <1>2, <2>3, StatusEffect DEF MigrationsRunning
      <3>2. Promise!Announce
        BY <2>1, <3>1 DEF Promise!Announce
      <3> QED
        BY <3>2 DEF Promise!RegistryNext
    <2> QED
      BY <2>2, <2>3
  <1>3. CASE ApplyQuayApp
    <2>1. /\ status' = status /\ ~MigrationsRunning(status)
          /\ app' = [up |-> ~upgrade, version |-> opVersion, db |-> db]
          /\ ~upgrade => status.currentVersion = opVersion
      BY <1>3 DEF ApplyQuayApp, StatusInv, Applying, statusVars
    <2>2. CASE upgrade
      <3>1. Promise!Stop
        BY <2>1, <2>2 DEF Promise!Stop, MigrationsRunning
      <3> QED
        BY <3>1 DEF Promise!RegistryNext
    <2>3. CASE ~upgrade
      <3>1. app'.up /\ app'.version = opVersion
        BY <2>1, <2>3
      <3>2. status.currentVersion = opVersion /\ opVersion # 0
        BY <1>0, <2>1, <2>3
      <3>3. Promise!Serve
        BY <2>1, <3>1, <3>2 DEF Promise!Serve, MigrationsRunning
      <3> QED
        BY <3>3 DEF Promise!RegistryNext
    <2> QED
      BY <2>2, <2>3
  <1>4. CASE ~(ReportMigration \/ MarkInProgress \/ ApplyQuayApp)
    <2>1. status' = status
      BY <1>4, StatusEffect
         DEF Next, Reconcile, Environment, vars, statusVars, GetQuay, ProcessStarts, JobChanges,
         StartReconcile, CheckMigrationStatus, Inflate, ApplyManagedKeys,
         LookAtJob, DeleteJob, CreateJob, RequestFails, RestartOperator, UpgradeOperator,
         StatusReconcilerGets, CacheSync, JobPodStarts, JobPodFails, JobSucceeds,
         JobIsRemoved, UserDeletesJob, UserMovesDatabase
    <2>2. app' = app
      BY <1>4
         DEF Next, Reconcile, Environment, vars, clusterVars, ProcessStarts, JobChanges,
         StartReconcile, CheckMigrationStatus, Inflate, ApplyManagedKeys, FinishRollout,
         BlockRollout, LookAtJob, DeleteJob, CreateJob, RequestFails, RestartOperator,
         UpgradeOperator, StatusReconcilerGets, StatusReconcilerWrites, CacheSync,
         JobPodStarts, JobPodFails, JobSucceeds, JobIsRemoved, UserDeletesJob, UserMovesDatabase
    <2> QED
      BY <2>1, <2>2, PromiseStutter
  <1> QED
    BY <1>1, <1>2, <1>3, <1>4

\* The migration protocol implements the abstract registry in every environment:
\* down before a migration is announced, a new version only out of an announced
\* migration, and no version served but the recorded one.
THEOREM RegistryRefined == Spec => ImplementsRegistry
  <1>1. Init => Promise!RegistryInit
    BY PromiseInit
  <1>2. TypeOK /\ StatusInv /\ [Next]_vars => [Promise!RegistryNext]_(Promise!registryVars)
    BY PromiseStep
  <1> QED
    BY <1>1, <1>2, TypeCorrect, StatusInvariant, PTL
       DEF Spec, ImplementsRegistry, Promise!RegistrySpec
=============================================================================
