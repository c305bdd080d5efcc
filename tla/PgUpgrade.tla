----------------------------- MODULE PgUpgrade -----------------------------
(***************************************************************************)
(* The upgrade of the managed PostgreSQL servers of quay and clair, from   *)
(* controllers/quay (features.go, quayregistry_controller.go) and the      *)
(* kustomize components pgupgrade and clairpgupgrade.                      *)
(*                                                                         *)
(* A release of the operator may carry another PostgreSQL image.  Reconcile*)
(* compares it with the deployed one, scales the old server down, waits    *)
(* for its pods, and applies in one pass: the Deployment with the new      *)
(* image, scaled to zero, on a new volume; a Deployment "-old" that serves *)
(* the old volume; and a Job that copies from that server to the new       *)
(* volume.  It then records PostgresUpgradeInProgress; the following       *)
(* reconciles only look at the Jobs, and remove the old server when its    *)
(* Job has succeeded.                                                      *)
(*                                                                         *)
(* One step is one request.  Deployments, pods and Jobs are read from the  *)
(* informer cache, each of them as it was at some earlier moment.          *)
(* Abstracted: pods of other namespaces that the selector finds, one       *)
(* upgrade per behaviour, the Quay version and its own migration Job (see  *)
(* Migration).                                                             *)
(***************************************************************************)
EXTENDS Integers

CONSTANTS
  Managed,       \* the databases the operator manages
  MaxFaults,     \* bound: failures and interventions in a behaviour
  CacheLag,      \* may the cached Deployments, pods and Jobs be out of date?
  Together,      \* may both databases need the upgrade at the same time?
  DeleteBackup   \* is POSTGRES_UPGRADE_DELETE_BACKUP set, and not to "false"?

ASSUME ConstantsAssumption ==
  /\ Managed \subseteq {"quay", "clair"}
  /\ MaxFaults \in Nat
  /\ CacheLag \in BOOLEAN /\ Together \in BOOLEAN /\ DeleteBackup \in BOOLEAN

VARIABLES
  outdated,  \* databases whose image this release changes; never changes itself
  dep,       \* quay-database and clair-postgres: image and whether scaled up
  pod,       \* the image of their pod, "none" without a pod
  running,   \* databases whose pod is in phase Running
  seen,      \* the Deployments in the informer cache: image, availability
  listed,    \* databases whose selector finds a Running pod in the cache
  oldDep,    \* databases whose "-old" Deployment exists
  oldPod,    \* databases whose "-old" Deployment has a Running pod
  service,   \* does the Service clair-postgres-old exist?
  oldVolume, \* databases whose old volume exists
  newVolume, \* what is on the new volume
  job,       \* the upgrade Jobs
  jobSeen,   \* the upgrade Jobs in the informer cache
  deleted,   \* history: databases whose Job was deleted by the user
  overlooked, \* history: databases whose pod the last check did not find
  misread,   \* history: databases whose Deployment or Job was read as it is not
  app,       \* is quay-app scaled up?
  marked,    \* PostgresUpgradeInProgress or PostgresUpgradeFailed recorded?
  faults,    \* failures and interventions so far
  pc,        \* where Reconcile is
  at,        \* Reconcile: the database its loop is at
  needs,     \* Reconcile: NeedsPgUpgrade, NeedsClairPgUpgrade
  deferred,  \* Reconcile: deferWorkloads
  todo       \* Reconcile: objects still to be applied

serverVars  == <<dep, pod, running, seen, listed>>
oldVars     == <<oldDep, oldPod, service>>
volumeVars  == <<oldVolume, newVolume>>
jobVars     == <<job, jobSeen, deleted>>
pastVars    == <<overlooked, misread>>
contextVars == <<at, needs, deferred, todo>>
vars == <<outdated, serverVars, oldVars, volumeVars, jobVars, pastVars, app, marked, faults, pc, contextVars>>

Images  == {"old", "new"}
Kinds   == {"deployment", "old", "job"}
Objects == (Kinds \X Managed) \cup {<<"app", "quay">>, <<"service", "clair">>}

\* "own": initialised by the new server itself, without the data
Contents == {"empty", "copied", "own"}
\* "new": no pod counted yet; "failed": backoffLimit reached
Phases   == {"none", "new", "active", "failed", "succeeded", "deleting"}

TypeOK ==
  /\ outdated \subseteq Managed
  /\ dep \in [Managed -> [image : Images, up : BOOLEAN]]
  /\ pod \in [Managed -> Images \cup {"none"}]
  /\ running \subseteq Managed /\ listed \subseteq Managed
  /\ seen \in [Managed -> [image : Images, ready : BOOLEAN]]
  /\ oldDep \subseteq Managed /\ oldPod \subseteq Managed /\ service \in BOOLEAN
  /\ oldVolume \subseteq Managed /\ newVolume \in [Managed -> Contents]
  /\ job \in [Managed -> Phases]
  /\ jobSeen \in [Managed -> {"none", "active", "succeeded", "other"}]
  /\ deleted \subseteq Managed /\ overlooked \subseteq Managed /\ misread \subseteq Managed
  /\ app \in BOOLEAN /\ marked \in BOOLEAN /\ faults \in 0..MaxFaults
  /\ pc \in {"idle", "needs", "ready", "apply", "mark",
             "jobs", "oldService", "oldClaim", "report"}
  /\ at \in {"quay", "clair"}
  /\ needs \subseteq Managed /\ deferred \in BOOLEAN /\ todo \subseteq Objects

\* The Deployment as the API server has it.
Current(c) == [image |-> dep[c].image, ready |-> c \in running]

\* The servers were installed by an earlier release; a database whose image has
\* not changed has its data on the volume it mounts.
Init ==
  /\ outdated \in SUBSET Managed
  /\ Together \/ \A c, d \in outdated : c = d
  /\ dep = [c \in Managed |-> [image |-> IF c \in outdated THEN "old" ELSE "new",
                               up |-> TRUE]]
  /\ oldVolume = outdated
  /\ newVolume = [c \in Managed |-> IF c \in outdated THEN "empty" ELSE "copied"]
  /\ pod = [c \in Managed |-> dep[c].image]
  /\ running = Managed /\ listed = Managed
  /\ seen = [c \in Managed |-> Current(c)]
  /\ oldDep = {} /\ oldPod = {} /\ service = FALSE
  /\ job = [c \in Managed |-> "none"] /\ jobSeen = job
  /\ deleted = {} /\ overlooked = {} /\ misread = {}
  /\ app = TRUE /\ marked = FALSE /\ faults = 0
  /\ pc = "idle" /\ at = "quay" /\ needs = {} /\ deferred = FALSE /\ todo = {}

-----------------------------------------------------------------------------
(* Reconcile *)

Fault == faults < MaxFaults /\ faults' = faults + 1

Return ==
  /\ pc' = "idle"
  /\ at' = "quay" /\ needs' = {} /\ deferred' = FALSE /\ todo' = {}

Seen(c) == IF CacheLag THEN seen[c] ELSE Current(c)

\* The loops over the databases take quay first; after is where clair leads.
Advance(after) ==
  /\ at' = "clair"
  /\ pc' = IF at = "quay" THEN pc ELSE after

StartReconcile ==
  /\ pc = "idle"
  /\ pc' = IF marked THEN "jobs" ELSE "needs"
  /\ UNCHANGED <<outdated, serverVars, oldVars, volumeVars, jobVars, pastVars, app, marked, faults, contextVars>>

\* The Update is refused when the copy sent is out of date, and that is only
\* logged.
ScaleDown(c) ==
  \/ Seen(c) = Current(c) /\ dep' = [dep EXCEPT ![c].up = FALSE] /\ UNCHANGED faults
  \/ Seen(c) # Current(c) /\ UNCHANGED <<dep, faults>>
  \/ Fault /\ UNCHANGED dep

\* The Running pods that the selector of the Deployment finds: quay-database-old
\* carries the labels of quay-database, clair-postgres-old its own.
RunningPods == running \cup (oldPod \cap {"quay"})

\* Mutant: the pods of the old server are not waited for.
SelectedPodsNone(c) == FALSE

\* Does the cached list hold a pod of the Deployment in phase Running?
SelectedPods(c) == c \in IF CacheLag THEN listed ELSE RunningPods

\* A pod that is there, but Pending or not yet in the cached list.
Unlisted(c) == pod[c] # "none" /\ ~(c \in running /\ (CacheLag => c \in listed))

\* checkNeedsPostgresUpgradeForComponent for one database.  A Get that fails is
\* taken for a Deployment that does not exist.
CheckNeedsUpgrade ==
  /\ pc = "needs"
  /\ \/ /\ at \in Managed => Seen(at).image = "new"
        /\ Advance("ready")
        /\ UNCHANGED <<dep, needs, deferred, todo, faults, pastVars>>
     \/ /\ at \in Managed /\ Seen(at).image = "old"
        /\ Fault
        /\ misread' = misread \cup {at}
        /\ Advance("ready")
        /\ UNCHANGED <<dep, needs, deferred, todo, overlooked>>
     \/ /\ at \in Managed /\ Seen(at).image = "old"
        /\ ScaleDown(at)
        /\ \/ SelectedPods(at) /\ Return /\ UNCHANGED overlooked
           \/ /\ ~SelectedPods(at)
              /\ overlooked' = (overlooked \ {at}) \cup {c \in {at} : Unlisted(c)}
              /\ needs' = needs \cup {at}
              /\ Advance("ready")
              /\ UNCHANGED <<deferred, todo>>
        /\ UNCHANGED misread
  /\ UNCHANGED <<outdated, pod, running, seen, listed, oldVars, volumeVars, jobVars, app, marked>>

\* filterDeferredWorkloads: of the objects modelled here only those labelled
\* postgres and clair-postgres, and the Service, survive a deferral.
Survives(o) == o[1] \in {"deployment", "service"} \/ o = <<"old", "quay">>

\* The objects KustomizationFor selects.
Rendered ==
  {<<"deployment", c>> : c \in Managed} \cup {<<"app", "quay">>}
    \cup ({"old", "job"} \X needs)
    \cup {o \in {<<"service", "clair">>} : "clair" \in needs}

\* checkManagedDatabaseReady, Inflate and the decision to defer workloads.
CheckReady ==
  /\ pc = "ready"
  /\ deferred' = (\E c \in Managed : ~Seen(c).ready)
  /\ todo' = {o \in Rendered : deferred' => Survives(o)}
  /\ pc' = "apply"
  /\ UNCHANGED <<outdated, serverVars, oldVars, volumeVars, jobVars, pastVars, app, marked, faults, at, needs>>

\* EnsureCreationOrder: Deployments and Jobs come last, in no fixed order.
Applies(o) ==
  /\ pc = "apply" /\ o \in todo
  /\ o[1] = "service" \/ <<"service", "clair">> \notin todo

Applied(o) ==
  /\ todo' = todo \ {o}
  /\ UNCHANGED <<pc, at, needs, deferred>>

ApplyService ==
  /\ Applies(<<"service", "clair">>)
  /\ service' = TRUE
  /\ Applied(<<"service", "clair">>)
  /\ UNCHANGED <<outdated, serverVars, oldDep, oldPod, volumeVars, jobVars, pastVars, app, marked, faults>>

\* Mutant: the error of ComponentImageFor leaves the image empty.
RenderedServerNoImage(c) == [image |-> "none", up |-> c \notin needs]

\* Mutant: the patch that scales the new server to zero is missing.
RenderedServerUp(c) == [image |-> "new", up |-> TRUE]

\* The server with the new image, scaled to zero by the upgrade's patch.
RenderedServer(c) == [image |-> "new", up |-> c \notin needs]

ApplyServer(c) ==
  /\ Applies(<<"deployment", c>>)
  /\ dep' = [dep EXCEPT ![c] = RenderedServer(c)]
  /\ Applied(<<"deployment", c>>)
  /\ UNCHANGED <<outdated, pod, running, seen, listed, oldVars, volumeVars, jobVars, pastVars, app, marked, faults>>

ApplyOldServer(c) ==
  /\ Applies(<<"old", c>>)
  /\ oldDep' = oldDep \cup {c}
  /\ Applied(<<"old", c>>)
  /\ UNCHANGED <<outdated, serverVars, oldPod, service, volumeVars, jobVars, pastVars, app, marked, faults>>

\* pgupgrade scales quay-app to zero, clairpgupgrade does not.
ApplyQuayApp ==
  /\ Applies(<<"app", "quay">>)
  /\ app' = ("quay" \notin needs)
  /\ Applied(<<"app", "quay">>)
  /\ UNCHANGED <<outdated, serverVars, oldVars, volumeVars, jobVars, pastVars, marked, faults>>

\* What the code tells apart in a Job: whether it exists, status.active and
\* status.succeeded.
Status(c) == IF job[c] \in {"none", "active", "succeeded"} THEN job[c] ELSE "other"

\* The Job as the cache has it.
Phase(c) ==
  IF c \notin Managed THEN "none" ELSE IF CacheLag THEN jobSeen[c] ELSE Status(c)

\* createOrUpdateObject: a Job that the cache shows active is left alone, and so is
\* one that it shows succeeded unless the registry is still at an older version.
\* Any other is deleted, and created again once it is gone; so is every Job whose
\* Get fails.
ApplyJob(c) ==
  /\ Applies(<<"job", c>>)
  /\ \/ /\ Phase(c) \in {"active", "succeeded"}
        /\ Applied(<<"job", c>>)
        /\ misread' = misread \cup {d \in {c} : job[d] \in {"none", "deleting"}}
        /\ UNCHANGED <<job, faults>>
     \/ /\ \/ Phase(c) # "active" /\ UNCHANGED faults
           \/ Phase(c) = "active" /\ Fault
        /\ \/ job[c] = "none" /\ Applied(<<"job", c>>) /\ job' = [job EXCEPT ![c] = "new"]
           \/ job[c] # "none" /\ Return /\ job' = [job EXCEPT ![c] = "deleting"]
        /\ UNCHANGED misread
  /\ UNCHANGED <<outdated, serverVars, oldVars, volumeVars, jobSeen, deleted, overlooked, app, marked>>

\* RolloutBlocked is written; Reconcile returns unless an upgrade was started
\* and nothing was deferred.
FinishRollout ==
  /\ pc = "apply" /\ todo = {}
  /\ \/ ~deferred /\ needs # {} /\ pc' = "mark" /\ UNCHANGED contextVars
     \/ (deferred \/ needs = {}) /\ Return
  /\ UNCHANGED <<outdated, serverVars, oldVars, volumeVars, jobVars, pastVars, app, marked, faults>>

MarkInProgress ==
  /\ pc = "mark"
  /\ marked' = TRUE
  /\ Return
  /\ UNCHANGED <<outdated, serverVars, oldVars, volumeVars, jobVars, pastVars, app, faults>>

\* A request fails, a status write conflicts or the operator dies: nothing of
\* the pass is remembered.
Interrupt ==
  /\ pc # "idle"
  /\ Fault
  /\ Return
  /\ UNCHANGED <<outdated, serverVars, oldVars, volumeVars, jobVars, pastVars, app, marked>>

-----------------------------------------------------------------------------
(* checkPostgresUpgradeStatus *)

\* Mutant: a Job that is not active counts as done.
UpgradeDoneWhenFailed(c) ==
  Phase(c) \in {"none", "other"} \/ (Phase(c) = "succeeded" /\ c \notin oldDep)

\* A missing Job counts as done, and so does one whose old server is gone.
UpgradeDone(c) == Phase(c) = "none" \/ (Phase(c) = "succeeded" /\ c \notin oldDep)

\* Is the Job other than the cache shows it?
Misread(c) == {d \in {c} \cap Managed : Status(d) # Phase(d)}

\* An active Job is waited for; anything else is recorded as a failure, which
\* keeps the next reconcile in this function.  A failed Get of the old server is
\* taken for its absence, as is a cache that does not show it yet; a failed Delete
\* is logged.
CheckJob ==
  /\ pc = "jobs"
  /\ \/ /\ UpgradeDone(at)
        /\ Advance("report")
        /\ misread' = misread \cup Misread(at)
        /\ UNCHANGED <<oldDep, needs, deferred, todo, faults>>
     \/ /\ Phase(at) = "succeeded" /\ at \in oldDep
        /\ \/ Fault /\ Advance("report") /\ UNCHANGED <<oldDep, needs, deferred, todo>>
           \/ /\ \/ oldDep' = oldDep \ {at} /\ UNCHANGED faults
                 \/ Fault /\ UNCHANGED oldDep
              /\ pc' = "oldService"
              /\ UNCHANGED contextVars
        /\ misread' = misread \cup Misread(at)
     \/ /\ Phase(at) \notin {"none", "succeeded"} /\ ~UpgradeDone(at)
        /\ Return
        /\ UNCHANGED <<oldDep, misread, faults>>
  /\ UNCHANGED <<outdated, serverVars, oldPod, service, volumeVars, jobVars, overlooked, app, marked>>

Continue(after) ==
  /\ at' = "clair"
  /\ pc' = IF at = "quay" THEN "jobs" ELSE after
  /\ UNCHANGED <<needs, deferred, todo>>

\* The Service looked up is clair-postgres-old for both databases.  A failed Get is
\* taken for its absence, a failed Delete is logged.
DeleteOldService ==
  /\ pc = "oldService"
  /\ \/ /\ service
        /\ \/ service' = FALSE /\ UNCHANGED faults
           \/ Fault /\ UNCHANGED service
        /\ pc' = "oldClaim"
        /\ UNCHANGED contextVars
     \/ service /\ Fault /\ Continue("report") /\ UNCHANGED service
     \/ ~service /\ Continue("report") /\ UNCHANGED <<service, faults>>
  /\ UNCHANGED <<outdated, serverVars, oldDep, oldPod, volumeVars, jobVars, pastVars, app, marked>>

\* The claim looked up is quay-database, the old one, or clair-postgres, which
\* no release in question has.  A failed Get or Delete leaves it.
DeleteOldClaim ==
  /\ pc = "oldClaim"
  /\ \/ /\ oldVolume' = IF DeleteBackup THEN oldVolume \ ({at} \cap {"quay"}) ELSE oldVolume
        /\ UNCHANGED faults
     \/ Fault /\ UNCHANGED oldVolume
  /\ Continue("report")
  /\ UNCHANGED <<outdated, serverVars, oldVars, newVolume, jobVars, pastVars, app, marked>>

\* Mutant: the success is not written to the status.
ReportUpgradedInMemory ==
  /\ pc = "report"
  /\ Return
  /\ UNCHANGED <<outdated, serverVars, oldVars, volumeVars, jobVars, pastVars, app, marked, faults>>

ReportUpgraded ==
  /\ pc = "report"
  /\ marked' = FALSE
  /\ Return
  /\ UNCHANGED <<outdated, serverVars, oldVars, volumeVars, jobVars, pastVars, app, faults>>

-----------------------------------------------------------------------------
(* Kubernetes and the user *)

Outside == UNCHANGED <<outdated, pastVars, app, marked, pc, contextVars>>

\* A watch delivers the changes of all objects of a kind in their order: the cache
\* holds them as they were together at some earlier moment.
CacheSync ==
  /\ CacheLag /\ \E c \in Managed : seen[c] # Current(c)
  /\ seen' = [c \in Managed |-> Current(c)]
  /\ Outside /\ UNCHANGED <<dep, pod, running, listed, oldVars, volumeVars, jobVars, faults>>

PodSync ==
  /\ CacheLag /\ listed # RunningPods
  /\ listed' = RunningPods
  /\ Outside /\ UNCHANGED <<dep, pod, running, seen, oldVars, volumeVars, jobVars, faults>>

JobSync ==
  /\ CacheLag /\ \E c \in Managed : jobSeen[c] # Status(c)
  /\ jobSeen' = [c \in Managed |-> Status(c)]
  /\ Outside /\ UNCHANGED <<serverVars, oldVars, volumeVars, job, deleted, faults>>

\* Strategy Recreate: the old pod goes first.
PodStarts(c) ==
  /\ pod[c] = "none" /\ dep[c].up
  /\ pod' = [pod EXCEPT ![c] = dep[c].image]
  /\ Outside /\ UNCHANGED <<dep, running, seen, listed, oldVars, volumeVars, jobVars, faults>>

\* A pod leaves Pending.  A server that finds its volume empty initialises it.
PodRuns(c) ==
  /\ pod[c] # "none" /\ c \notin running
  /\ running' = running \cup {c}
  /\ newVolume' = [newVolume EXCEPT ![c] =
       IF pod[c] = "new" /\ @ = "empty" THEN "own" ELSE @]
  /\ Outside /\ UNCHANGED <<dep, pod, seen, listed, oldVars, oldVolume, jobVars, faults>>

PodStops(c) ==
  /\ pod[c] # "none" /\ (~dep[c].up \/ pod[c] # dep[c].image)
  /\ pod' = [pod EXCEPT ![c] = "none"] /\ running' = running \ {c}
  /\ Outside /\ UNCHANGED <<dep, seen, listed, oldVars, volumeVars, jobVars, faults>>

\* A pod of the old server is evicted, and the one that replaces it is Pending.
PodEvicted(c) ==
  /\ c \in running /\ dep[c].up /\ pod[c] = "old" /\ dep[c].image = "old"
  /\ Fault
  /\ running' = running \ {c}
  /\ Outside /\ UNCHANGED <<dep, pod, seen, listed, oldVars, volumeVars, jobVars>>

OldPodStarts(c) ==
  /\ c \in oldDep \ oldPod /\ c \in oldVolume
  /\ oldPod' = oldPod \cup {c}
  /\ Outside /\ UNCHANGED <<serverVars, oldDep, service, volumeVars, jobVars, faults>>

OldPodStops(c) ==
  /\ c \in oldPod \ oldDep
  /\ oldPod' = oldPod \ {c}
  /\ Outside /\ UNCHANGED <<serverVars, oldDep, service, volumeVars, jobVars, faults>>

JobPodStarts(c) ==
  /\ job[c] = "new"
  /\ job' = [job EXCEPT ![c] = "active"]
  /\ Outside /\ UNCHANGED <<serverVars, oldVars, volumeVars, jobSeen, deleted, faults>>

\* Can the Job reach the server it copies from?
Reachable(c) == c \in oldPod /\ (c = "clair" => service)

\* run-postgresql copies into an empty volume and leaves any other as it is.
JobSucceeds(c) ==
  /\ job[c] = "active"
  /\ newVolume[c] = "empty" => Reachable(c)
  /\ job' = [job EXCEPT ![c] = "succeeded"]
  /\ newVolume' = [newVolume EXCEPT ![c] = IF @ = "empty" THEN "copied" ELSE @]
  /\ Outside /\ UNCHANGED <<serverVars, oldVars, oldVolume, jobSeen, deleted, faults>>

\* backoffLimit is reached.  A copy that fails leaves the volume empty.
JobFails(c) ==
  /\ job[c] = "active" /\ newVolume[c] = "empty"
  /\ Fault
  /\ job' = [job EXCEPT ![c] = "failed"]
  /\ Outside /\ UNCHANGED <<serverVars, oldVars, volumeVars, jobSeen, deleted>>

UserDeletesJob(c) ==
  /\ job[c] \notin {"none", "deleting"}
  /\ Fault
  /\ job' = [job EXCEPT ![c] = "deleting"]
  /\ deleted' = deleted \cup {c}
  /\ Outside /\ UNCHANGED <<serverVars, oldVars, volumeVars, jobSeen>>

JobIsRemoved(c) ==
  /\ job[c] = "deleting"
  /\ job' = [job EXCEPT ![c] = "none"]
  /\ Outside /\ UNCHANGED <<serverVars, oldVars, volumeVars, jobSeen, deleted, faults>>

-----------------------------------------------------------------------------

Reconcile ==
  \/ StartReconcile \/ CheckNeedsUpgrade \/ CheckReady
  \/ ApplyService \/ ApplyQuayApp
  \/ \E c \in Managed : ApplyServer(c) \/ ApplyOldServer(c) \/ ApplyJob(c)
  \/ FinishRollout \/ MarkInProgress
  \/ CheckJob \/ DeleteOldService \/ DeleteOldClaim \/ ReportUpgraded

Kubernetes ==
  \/ CacheSync \/ PodSync \/ JobSync
  \/ \E c \in Managed :
       \/ PodStarts(c) \/ PodRuns(c) \/ PodStops(c) \/ OldPodStarts(c) \/ OldPodStops(c)
       \/ JobPodStarts(c) \/ JobSucceeds(c) \/ JobIsRemoved(c)

Next ==
  \/ Reconcile \/ Kubernetes \/ Interrupt
  \/ \E c \in Managed : PodEvicted(c) \/ JobFails(c) \/ UserDeletesJob(c)

Spec == Init /\ [][Next]_vars

\* Every return requeues; the controllers and the kubelet do their work, in
\* whatever order.
Fairness == WF_vars(Reconcile) /\ WF_vars(Kubernetes)

FairSpec == Spec /\ Fairness

-----------------------------------------------------------------------------
(* Properties *)

\* The old server is down before a second server is started on its volume: the
\* check for an upgrade waits for its pods, and nothing scales it up again.  Only
\* pods that the cache lists as Running are waited for: excepted is a database
\* whose pod was there, Pending or not listed, when the check found none.
OneServerPerVolume == \A c \in oldPod \ overlooked : ~(pod[c] = "old" /\ c \in running)

\* While an upgrade is recorded nothing disturbs its Job: no server runs on the
\* volume it fills, the server it copies from is not removed, and quay-app does
\* not write to the database that is being copied.  Excepted is a database that
\* was taken for one without a server, or whose Job was not what the cache showed.
UpgradeUndisturbed ==
  marked => \A c \in Managed \ misread : job[c] \in {"new", "active"} =>
    /\ ~dep[c].up /\ pod[c] # "new"
    /\ c \in oldDep
    /\ c = "quay" => ~app

\* An upgrade that has been recorded ends with the data on the new volume, unless
\* its Job was deleted under way, or was not what the cache showed of it when it
\* was applied or looked for.
RecordedUpgradeCopies ==
  [][marked /\ ~marked' =>
       \A c \in Managed \ (deleted \cup misread) :
         dep[c].image = "new" => newVolume[c] = "copied"]_vars

\* A server with the new image only ever runs on a volume that holds the data.
NewServerHasData == \A c \in Managed : pod[c] = "new" /\ c \in running => newVolume[c] = "copied"

\* A recorded upgrade does not stay recorded, unless its Job has failed for good.
RecordedUpgradeEnds ==
  marked ~> (~marked \/ \E c \in Managed : job[c] = "failed")
=============================================================================
