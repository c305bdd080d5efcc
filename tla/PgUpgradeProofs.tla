-------------------------- MODULE PgUpgradeProofs --------------------------
(***************************************************************************)
(* Proofs about PgUpgrade, for every number of failures and whatever the   *)
(* cache shows.                                                            *)
(*                                                                         *)
(* ServerInv says what the deployed image, its cached copy and the pods    *)
(* have to do with each other, PassInv what a pass of Reconcile knows of   *)
(* the databases it has looked at: enough for one server per volume.  The  *)
(* rest is about one upgrade at a time (~Together): DataInv says what is on*)
(* the new volume, AppliedInv what a pass has applied when it records the  *)
(* upgrade, MarkInv what stays so while the upgrade is recorded.           *)
(***************************************************************************)
EXTENDS PgUpgrade, TLAPS

\* No server runs on the old volume, and none is going to.
Quiet(c) == pod[c] # "old" /\ (dep[c].image = "old" => ~dep[c].up)

\* No server runs on the new volume, and none is going to.
Idle(c) == pod[c] # "new" /\ (dep[c].image = "new" => ~dep[c].up)

\* An old server that is wanted has its pod; the cache knows of the new image
\* before the new server is scaled up; an old server beside the Job, or one that
\* is about to be applied, is alone on its volume unless its pod was overlooked.
ServerInv ==
  \A c \in Managed :
    /\ dep[c].image = "old" /\ dep[c].up => pod[c] = "old"
    /\ seen[c].image = "new" => dep[c].image = "new"
    /\ Seen(c).image = "old" \/ c \in needs => Idle(c) \/ c \in misread
    /\ c \in oldDep \cup oldPod \cup needs => Quiet(c) \/ c \in overlooked

\* A pass that has looked at a database and does not upgrade it has seen its new
\* image, or could not look; it applies the objects of an upgrade for the others
\* only.
PassInv ==
  /\ pc \in {"ready", "apply", "mark"} =>
       \A c \in Managed \ misread : c \notin needs => Seen(c).image = "new"
  /\ pc = "needs" /\ at = "clair" /\ "quay" \in Managed \ misread /\ "quay" \notin needs =>
       Seen("quay").image = "new"
  /\ \A c \in Managed : <<"old", c>> \in todo => c \in needs
  /\ pc = "idle" => at = "quay" /\ needs = {} /\ todo = {}

UpgradeInv == TypeOK /\ ServerInv /\ PassInv

\* The new volume is not written to before the cache shows the new image, a Job
\* that succeeded has filled it, and a database that this release does not upgrade
\* stays as it was installed.
DataInv ==
  \A c \in Managed :
    /\ Seen(c).image = "old" \/ c \in needs => newVolume[c] # "own" \/ c \in misread
    /\ job[c] = "succeeded" => newVolume[c] # "empty"
    /\ c \notin outdated =>
         /\ dep[c].image = "new" /\ seen[c].image = "new"
         /\ newVolume[c] = "copied"
         /\ job[c] = "none" /\ c \notin oldDep /\ c \notin needs

ChecksJobs == {"jobs", "oldService", "oldClaim", "report"}

\* A pass either looks at Jobs or applies objects; one that reaches the mark has
\* applied the server, scaled to zero, the old server, the Job and the patch of
\* quay-app.
AppliedInv ==
  /\ pc \in ChecksJobs => marked /\ needs = {} /\ todo = {}
  /\ pc \in {"needs", "ready", "apply", "mark"} => ~marked
  /\ pc \in {"needs", "ready"} => todo = {}
  /\ pc = "mark" => todo = {} /\ ~deferred /\ needs # {}
  /\ \A c \in Managed : <<"job", c>> \in todo => c \in needs
  /\ pc \in {"apply", "mark"} /\ ~deferred => \A c \in needs :
       /\ <<"deployment", c>> \notin todo => ~dep[c].up
       /\ <<"old", c>> \notin todo => c \in oldDep
       /\ <<"job", c>> \notin todo => job[c] \notin {"none", "deleting"} \/ c \in deleted \cup misread
       /\ c = "quay" /\ <<"app", "quay">> \notin todo => ~app

JobDone(c) == c \in outdated \ (deleted \cup misread) => job[c] = "succeeded"

\* What holds while an upgrade is recorded, and what the check of the Jobs has
\* found so far.
MarkInv ==
  /\ marked => \A c \in outdated \ misread :
       /\ ~dep[c].up /\ pod[c] # "new" /\ newVolume[c] # "own"
       /\ c = "quay" => ~app
       /\ job[c] \in {"new", "active", "failed"} => c \in oldDep
       /\ c \notin deleted => job[c] \notin {"none", "deleting"}
  /\ pc \in ChecksJobs /\ (at = "clair" \/ pc = "report") => JobDone("quay")
  /\ pc \in {"oldService", "oldClaim"} => JobDone(at)
  /\ pc = "report" => JobDone("clair")

OneAtATime == \A c, d \in outdated : c = d

CopyInv == OneAtATime /\ UpgradeInv /\ DataInv /\ AppliedInv /\ MarkInv

-----------------------------------------------------------------------------
(* Types *)

\* Scaling a database down leaves its image alone.
LEMMA ScaledDown ==
  ASSUME NEW deps \in [Managed -> [image : Images, up : BOOLEAN]], NEW c \in Managed
  PROVE  [deps EXCEPT ![c].up = FALSE] \in [Managed -> [image : Images, up : BOOLEAN]]
  OBVIOUS

LEMMA TypeInit == Init => TypeOK
  <1> SUFFICES ASSUME Init PROVE TypeOK
    OBVIOUS
  <1> USE ConstantsAssumption DEF ConstantsAssumption, Init
  <1>1. dep \in [Managed -> [image : Images, up : BOOLEAN]]
    BY DEF Images
  <1>2. pod \in [Managed -> Images \cup {"none"}]
    BY <1>1
  <1>3. seen \in [Managed -> [image : Images, ready : BOOLEAN]]
    BY <1>1, <1>2 DEF Current, Images
  <1>4. newVolume \in [Managed -> Contents] /\ job \in [Managed -> Phases]
    BY DEF Contents, Phases
  <1>5. outdated \subseteq Managed /\ oldVolume \subseteq Managed /\ faults \in 0..MaxFaults
    OBVIOUS
  <1> QED
    BY <1>1, <1>2, <1>3, <1>4, <1>5 DEF TypeOK

LEMMA TypeStep ==
  TypeOK /\ [Next]_vars => TypeOK'
  <1> SUFFICES ASSUME TypeOK, [Next]_vars PROVE TypeOK'
    OBVIOUS
  <1> USE ConstantsAssumption DEF ConstantsAssumption, TypeOK, Images, Contents, Phases
  <1>1. CASE StartReconcile
    BY <1>1 DEF StartReconcile, serverVars, oldVars, volumeVars, jobVars, pastVars, contextVars
  <1>2. CASE CheckNeedsUpgrade
    <2>1. faults' \in 0..MaxFaults
      BY <1>2 DEF CheckNeedsUpgrade, ScaleDown, Fault
    <2>3. dep' \in [Managed -> [image : Images, up : BOOLEAN]]
      <3>1. CASE dep' = dep
        BY <3>1
      <3>2. CASE at \in Managed /\ dep' = [dep EXCEPT ![at].up = FALSE]
        BY <3>2, ScaledDown
      <3> QED
        BY <1>2, <3>1, <3>2 DEF CheckNeedsUpgrade, ScaleDown
    <2>2. /\ pc' \in {"needs", "ready", "idle"} /\ at' \in {"quay", "clair"}
          /\ needs' \subseteq Managed /\ deferred' \in BOOLEAN /\ todo' \subseteq Objects
      BY <1>2 DEF CheckNeedsUpgrade, Advance, Return
    <2> QED
      BY <1>2, <2>1, <2>2, <2>3 DEF CheckNeedsUpgrade, oldVars, volumeVars, jobVars, pastVars
  <1>3. CASE CheckReady
    <2>1. Rendered \subseteq Objects
      <3>1. {<<"deployment", c>> : c \in Managed} \subseteq Objects
        BY DEF Objects, Kinds
      <3>2. {"old", "job"} \X needs \subseteq Objects
        <4>1. needs \subseteq Managed /\ {"old", "job"} \subseteq Kinds
          BY DEF Kinds
        <4> HIDE DEF TypeOK, ConstantsAssumption
        <4>2. {"old", "job"} \X needs \subseteq Kinds \X Managed
          BY <4>1
        <4> QED
          BY <4>2 DEF Objects
      <3> QED
        BY <3>1, <3>2 DEF Rendered, Objects
    <2>2. todo' \subseteq Objects /\ deferred' \in BOOLEAN
      BY <1>3, <2>1 DEF CheckReady
    <2> QED
      BY <1>3, <2>2 DEF CheckReady, serverVars, oldVars, volumeVars, jobVars, pastVars
  <1>4. CASE ApplyService
    BY <1>4 DEF ApplyService, Applies, Applied, serverVars, volumeVars, jobVars, pastVars
  <1>5. CASE ApplyQuayApp
    BY <1>5 DEF ApplyQuayApp, Applies, Applied, serverVars, oldVars, volumeVars, jobVars, pastVars
  <1>6. ASSUME NEW c \in Managed, ApplyServer(c) PROVE TypeOK'
    BY <1>6 DEF ApplyServer, Applies, Applied, RenderedServer, oldVars, volumeVars, jobVars, pastVars
  <1>7. ASSUME NEW c \in Managed, ApplyOldServer(c) PROVE TypeOK'
    BY <1>7 DEF ApplyOldServer, Applies, Applied, serverVars, volumeVars, pastVars, jobVars, pastVars
  <1>8. ASSUME NEW c \in Managed, ApplyJob(c) PROVE TypeOK'
    <2>1. faults' \in 0..MaxFaults
      BY <1>8 DEF ApplyJob, Fault
    <2> QED
      BY <1>8, <2>1 DEF ApplyJob, Applies, Applied, Return, serverVars, oldVars, volumeVars, pastVars
  <1>9. CASE FinishRollout
    BY <1>9 DEF FinishRollout, Return, serverVars, oldVars, volumeVars, jobVars, pastVars, contextVars
  <1>10. CASE MarkInProgress
    BY <1>10 DEF MarkInProgress, Return, serverVars, oldVars, volumeVars, jobVars, pastVars
  <1>11. CASE CheckJob
    <2>1. faults' \in 0..MaxFaults
      BY <1>11 DEF CheckJob, Fault
    <2> QED
      BY <1>11, <2>1 DEF CheckJob, Misread, Advance, Return, serverVars, volumeVars, jobVars, pastVars, contextVars
  <1>12. CASE DeleteOldService
    <2>1. faults' \in 0..MaxFaults
      BY <1>12 DEF DeleteOldService, Fault
    <2> QED
      BY <1>12, <2>1 DEF DeleteOldService, Continue, serverVars, volumeVars, jobVars, pastVars, contextVars
  <1>13. CASE DeleteOldClaim
    <2>1. faults' \in 0..MaxFaults
      BY <1>13 DEF DeleteOldClaim, Fault
    <2> QED
      BY <1>13, <2>1 DEF DeleteOldClaim, Continue, serverVars, oldVars, jobVars, pastVars
  <1>14. CASE ReportUpgraded
    BY <1>14 DEF ReportUpgraded, Return, serverVars, oldVars, volumeVars, jobVars, pastVars
  <1>15. CASE Interrupt
    <2>1. faults' \in 0..MaxFaults
      BY <1>15 DEF Interrupt, Fault
    <2> QED
      BY <1>15, <2>1 DEF Interrupt, Return, serverVars, oldVars, volumeVars, jobVars, pastVars
  <1>16. CASE CacheSync
    BY <1>16 DEF CacheSync, Outside, Current, oldVars, volumeVars, jobVars, pastVars, contextVars
  <1>17. ASSUME NEW c \in Managed, PodStarts(c) PROVE TypeOK'
    BY <1>17 DEF PodStarts, Outside, oldVars, volumeVars, jobVars, pastVars, contextVars
  <1>18. ASSUME NEW c \in Managed, PodStops(c) PROVE TypeOK'
    BY <1>18 DEF PodStops, Outside, oldVars, volumeVars, jobVars, pastVars, contextVars
  <1>19. ASSUME NEW c \in Managed, OldPodStarts(c) PROVE TypeOK'
    BY <1>19 DEF OldPodStarts, Outside, serverVars, volumeVars, jobVars, pastVars, contextVars
  <1>20. ASSUME NEW c \in Managed, OldPodStops(c) PROVE TypeOK'
    BY <1>20 DEF OldPodStops, Outside, serverVars, volumeVars, jobVars, pastVars, contextVars
  <1>21. ASSUME NEW c \in Managed, JobPodStarts(c) PROVE TypeOK'
    BY <1>21 DEF JobPodStarts, Outside, serverVars, oldVars, volumeVars, pastVars, contextVars
  <1>22. ASSUME NEW c \in Managed, JobSucceeds(c) PROVE TypeOK'
    BY <1>22 DEF JobSucceeds, Outside, serverVars, oldVars, pastVars, contextVars
  <1>23. ASSUME NEW c \in Managed, JobIsRemoved(c) PROVE TypeOK'
    BY <1>23 DEF JobIsRemoved, Outside, serverVars, oldVars, volumeVars, pastVars, contextVars
  <1>24. ASSUME NEW c \in Managed, JobFails(c) PROVE TypeOK'
    BY <1>24 DEF JobFails, Outside, Fault, serverVars, oldVars, volumeVars, pastVars, contextVars
  <1>25. ASSUME NEW c \in Managed, UserDeletesJob(c) PROVE TypeOK'
    BY <1>25 DEF UserDeletesJob, Outside, Fault, serverVars, oldVars, volumeVars, pastVars, contextVars
  <1>27. CASE PodSync
    BY <1>27 DEF PodSync, RunningPods, Outside, oldVars, volumeVars, jobVars, pastVars, contextVars
  <1>28. CASE JobSync
    BY <1>28 DEF JobSync, Status, Outside, serverVars, oldVars, volumeVars, pastVars, contextVars
  <1>29. ASSUME NEW c \in Managed, PodRuns(c) PROVE TypeOK'
    BY <1>29 DEF PodRuns, Outside, oldVars, jobVars, pastVars, contextVars
  <1>30. ASSUME NEW c \in Managed, PodEvicted(c) PROVE TypeOK'
    BY <1>30 DEF PodEvicted, Outside, Fault, oldVars, volumeVars, jobVars, pastVars, contextVars
  <1>26. CASE UNCHANGED vars
    BY <1>26 DEF vars, serverVars, oldVars, volumeVars, jobVars, pastVars, contextVars
  <1> QED
    BY <1>1, <1>2, <1>3, <1>4, <1>5, <1>6, <1>7, <1>8, <1>9, <1>10, <1>11, <1>12, <1>13, <1>14, <1>15, <1>16, <1>17, <1>18, <1>19, <1>20, <1>21, <1>22, <1>23, <1>24, <1>25, <1>26, <1>27, <1>28, <1>29, <1>30 DEF Next, Reconcile, Kubernetes

\* Every variable keeps its type.
THEOREM TypeCorrect == Spec => []TypeOK
  BY TypeInit, TypeStep, PTL DEF Spec

-----------------------------------------------------------------------------
(* Servers and passes *)

LEMMA ServerInit == Init => ServerInv
  <1> SUFFICES ASSUME Init, NEW c \in Managed
               PROVE  /\ dep[c].image = "old" /\ dep[c].up => pod[c] = "old"
                      /\ seen[c].image = "new" => dep[c].image = "new"
                      /\ Seen(c).image = "old" => Idle(c)
                      /\ c \notin oldDep \cup oldPod \cup needs
    BY DEF ServerInv, Init
  <1>1. pod[c] = dep[c].image /\ seen[c].image = dep[c].image /\ Seen(c).image = dep[c].image
    BY DEF Init, Seen, Current
  <1> QED
    BY <1>1 DEF Init, Idle

LEMMA PassInit == Init => PassInv
  BY DEF Init, PassInv

\* Every step keeps what the image, its cached copy and the pods have to do with
\* each other.
LEMMA ServerStep ==
  TypeOK /\ ServerInv /\ PassInv /\ [Next]_vars => ServerInv'
  <1> SUFFICES ASSUME TypeOK, ServerInv, PassInv, [Next]_vars PROVE ServerInv'
    OBVIOUS
  <1> USE DEF TypeOK, ServerInv, Seen, Current, Quiet, Idle
  <1>1. CASE StartReconcile
    BY <1>1 DEF StartReconcile, serverVars, oldVars, volumeVars, jobVars, pastVars, contextVars
  <1>2. CASE CheckNeedsUpgrade
    <2> SUFFICES ASSUME NEW c \in Managed
                 PROVE  /\ dep'[c].image = "old" /\ dep'[c].up => pod[c] = "old"
                        /\ seen[c].image = "new" => dep'[c].image = "new"
                        /\ Seen(c)'.image = "old" \/ c \in needs' => Idle(c)' \/ c \in misread'
                        /\ c \in oldDep \cup oldPod \cup needs' => Quiet(c)' \/ c \in overlooked'
      BY <1>2 DEF CheckNeedsUpgrade, oldVars
    <2>1. dep'[c].image = dep[c].image /\ (dep'[c].up => dep[c].up) /\ pod' = pod
      BY <1>2 DEF CheckNeedsUpgrade, ScaleDown
    <2>2. Seen(c)'.image = Seen(c).image
      BY <1>2, <2>1 DEF CheckNeedsUpgrade
    <2>3. misread \subseteq misread' /\ (c \in needs' \ needs => Seen(c).image = "old")
      BY <1>2 DEF CheckNeedsUpgrade, Return, pastVars
    <2>4. (Idle(c) => Idle(c)') /\ (Quiet(c) => Quiet(c)')
      BY <2>1
    <2>5. CASE c \in needs' \ needs \/ c \in overlooked \ overlooked'
      <3>1. c = at /\ ~SelectedPods(c) /\ (~Unlisted(c) \/ c \in overlooked')
        BY <1>2, <2>5 DEF CheckNeedsUpgrade, Return, pastVars
      <3>2. pod[c] = "none" \/ c \in overlooked'
        BY <3>1 DEF SelectedPods, RunningPods, Unlisted
      <3> QED
        BY <2>1, <2>2, <2>3, <2>4, <3>2
    <2>6. CASE ~(c \in needs' \ needs \/ c \in overlooked \ overlooked')
      BY <2>1, <2>2, <2>3, <2>4, <2>6
    <2> QED
      BY <2>5, <2>6
  <1>3. CASE CheckReady
    BY <1>3 DEF CheckReady, Rendered, Survives, serverVars, oldVars, volumeVars, jobVars, pastVars
  <1>4. CASE ApplyService
    BY <1>4 DEF ApplyService, Applies, Applied, serverVars, volumeVars, jobVars, pastVars
  <1>5. CASE ApplyQuayApp
    BY <1>5 DEF ApplyQuayApp, Applies, Applied, serverVars, oldVars, volumeVars, jobVars, pastVars
  <1>6. ASSUME NEW c \in Managed, ApplyServer(c) PROVE ServerInv'
    <2>1. dep' = [dep EXCEPT ![c] = [image |-> "new", up |-> c \notin needs]]
      BY <1>6 DEF ApplyServer, RenderedServer
    <2>2. UNCHANGED <<pod, seen, running, oldDep, oldPod, needs, overlooked, misread>>
      BY <1>6 DEF ApplyServer, Applied, oldVars, pastVars
    <2>3. c \notin needs \cup misread => Seen(c).image = "new"
      BY <1>6 DEF ApplyServer, Applies, PassInv
    <2>4. \A d \in Managed \ {c} : dep'[d] = dep[d]
      BY <2>1
    <2>5. dep'[c].image = "new" /\ (dep'[c].up <=> c \notin needs)
      BY <2>1
    <2>6. c \notin needs \cup misread => Seen(c)'.image = "new"
      BY <2>2, <2>3, <2>5
    <2>7. ASSUME NEW d \in Managed, d # c
          PROVE  Seen(d)' = Seen(d)
      BY <2>2, <2>4, <2>7
    <2>8. SUFFICES ASSUME NEW d \in Managed
                   PROVE  /\ dep'[d].image = "old" /\ dep'[d].up => pod[d] = "old"
                          /\ seen[d].image = "new" => dep'[d].image = "new"
                          /\ Seen(d)'.image = "old" \/ d \in needs => Idle(d)' \/ d \in misread
                          /\ d \in oldDep \cup oldPod \cup needs => Quiet(d)' \/ d \in overlooked
      BY <2>2
    <2>9. CASE d = c
      <3>1. /\ c \in needs => pod[c] # "new" \/ c \in misread
            /\ c \in oldDep \cup oldPod \cup needs => pod[c] # "old" \/ c \in overlooked
        OBVIOUS
      <3> QED
        BY <2>2, <2>5, <2>6, <2>9, <3>1
    <2>10. CASE d # c
      <3>1. dep'[d] = dep[d] /\ Seen(d)' = Seen(d)
        BY <2>4, <2>7, <2>10
      <3> HIDE DEF Seen, Current
      <3> QED
        BY <2>2, <3>1
    <2> QED
      BY <2>9, <2>10
  <1>7. ASSUME NEW c \in Managed, ApplyOldServer(c) PROVE ServerInv'
    <2>1. c \in needs
      BY <1>7 DEF ApplyOldServer, Applies, PassInv
    <2>2. Quiet(c) \/ c \in overlooked
      BY <2>1
    <2>3. UNCHANGED <<dep, pod, seen, running, oldPod, needs, overlooked, misread>> /\ oldDep' = oldDep \cup {c}
      BY <1>7 DEF ApplyOldServer, Applied, serverVars, pastVars
    <2> QED
      BY <2>2, <2>3
  <1>8. ASSUME NEW c \in Managed, ApplyJob(c) PROVE ServerInv'
    BY <1>8 DEF ApplyJob, Applies, Applied, Return, serverVars, oldVars, volumeVars, pastVars
  <1>9. CASE FinishRollout
    BY <1>9 DEF FinishRollout, Return, serverVars, oldVars, volumeVars, jobVars, pastVars, contextVars
  <1>10. CASE MarkInProgress
    BY <1>10 DEF MarkInProgress, Return, serverVars, oldVars, volumeVars, jobVars, pastVars
  <1>11. CASE CheckJob
    BY <1>11 DEF CheckJob, UpgradeDone, Phase, Advance, Return, serverVars, volumeVars, jobVars, pastVars, contextVars
  <1>12. CASE DeleteOldService
    BY <1>12 DEF DeleteOldService, Continue, serverVars, volumeVars, jobVars, pastVars, contextVars
  <1>13. CASE DeleteOldClaim
    BY <1>13 DEF DeleteOldClaim, Continue, serverVars, oldVars, jobVars, pastVars
  <1>14. CASE ReportUpgraded
    BY <1>14 DEF ReportUpgraded, Return, serverVars, oldVars, volumeVars, jobVars, pastVars
  <1>15. CASE Interrupt
    BY <1>15 DEF Interrupt, Return, Fault, serverVars, oldVars, volumeVars, jobVars, pastVars
  <1>16. CASE CacheSync
    <2>1. UNCHANGED <<dep, pod, running, oldDep, oldPod, needs, overlooked, misread>>
      BY <1>16 DEF CacheSync, Outside, oldVars, pastVars, contextVars
    <2>2. \A d \in Managed : seen'[d].image = dep[d].image
      BY <1>16 DEF CacheSync
    <2>3. ASSUME NEW d \in Managed, Seen(d)'.image = "old" PROVE Seen(d).image = "old"
      BY <2>1, <2>2, <2>3 DEF Images
    <2> QED
      BY <2>1, <2>2, <2>3
  <1>17. ASSUME NEW c \in Managed, PodStarts(c) PROVE ServerInv'
    BY <1>17 DEF PodStarts, Outside, oldVars, volumeVars, jobVars, pastVars, contextVars
  <1>18. ASSUME NEW c \in Managed, PodStops(c) PROVE ServerInv'
    BY <1>18 DEF PodStops, Outside, oldVars, volumeVars, jobVars, pastVars, contextVars
  <1>19. ASSUME NEW c \in Managed, OldPodStarts(c) PROVE ServerInv'
    BY <1>19 DEF OldPodStarts, Outside, serverVars, volumeVars, jobVars, pastVars, contextVars
  <1>20. ASSUME NEW c \in Managed, OldPodStops(c) PROVE ServerInv'
    BY <1>20 DEF OldPodStops, Outside, serverVars, volumeVars, jobVars, pastVars, contextVars
  <1>21. ASSUME NEW c \in Managed, JobPodStarts(c) PROVE ServerInv'
    BY <1>21 DEF JobPodStarts, Outside, serverVars, oldVars, volumeVars, pastVars, contextVars
  <1>22. ASSUME NEW c \in Managed, JobSucceeds(c) PROVE ServerInv'
    BY <1>22 DEF JobSucceeds, Outside, serverVars, oldVars, pastVars, contextVars
  <1>23. ASSUME NEW c \in Managed, JobIsRemoved(c) PROVE ServerInv'
    BY <1>23 DEF JobIsRemoved, Outside, serverVars, oldVars, volumeVars, pastVars, contextVars
  <1>24. ASSUME NEW c \in Managed, JobFails(c) PROVE ServerInv'
    BY <1>24 DEF JobFails, Outside, Fault, serverVars, oldVars, volumeVars, pastVars, contextVars
  <1>25. ASSUME NEW c \in Managed, UserDeletesJob(c) PROVE ServerInv'
    BY <1>25 DEF UserDeletesJob, Outside, Fault, serverVars, oldVars, volumeVars, pastVars, contextVars
  <1>27. CASE PodSync
    BY <1>27 DEF PodSync, RunningPods, Outside, oldVars, volumeVars, jobVars, pastVars, contextVars
  <1>28. CASE JobSync
    BY <1>28 DEF JobSync, Status, Outside, serverVars, oldVars, volumeVars, pastVars, contextVars
  <1>29. ASSUME NEW c \in Managed, PodRuns(c) PROVE ServerInv'
    BY <1>29 DEF PodRuns, Outside, oldVars, jobVars, pastVars, contextVars
  <1>30. ASSUME NEW c \in Managed, PodEvicted(c) PROVE ServerInv'
    BY <1>30 DEF PodEvicted, Outside, Fault, oldVars, volumeVars, jobVars, pastVars, contextVars
  <1>26. CASE UNCHANGED vars
    BY <1>26 DEF vars, serverVars, oldVars, volumeVars, jobVars, pastVars, contextVars
  <1> QED
    BY <1>1, <1>2, <1>3, <1>4, <1>5, <1>6, <1>7, <1>8, <1>9, <1>10, <1>11, <1>12, <1>13, <1>14, <1>15, <1>16, <1>17, <1>18, <1>19, <1>20, <1>21, <1>22, <1>23, <1>24, <1>25, <1>26, <1>27, <1>28, <1>29, <1>30 DEF Next, Reconcile, Kubernetes

\* Every step keeps what the pass knows of the databases it has looked at.
LEMMA PassStep ==
  TypeOK /\ ServerInv /\ PassInv /\ [Next]_vars => PassInv'
  <1> SUFFICES ASSUME TypeOK, ServerInv, PassInv, [Next]_vars PROVE PassInv'
    OBVIOUS
  <1> USE DEF TypeOK, PassInv, Seen, Current
  <1>1. CASE StartReconcile
    BY <1>1 DEF StartReconcile, serverVars, oldVars, volumeVars, jobVars, pastVars, contextVars
  <1>2. CASE CheckNeedsUpgrade
    <2>1. \A c \in Managed : dep'[c].image = dep[c].image
      BY <1>2 DEF CheckNeedsUpgrade, ScaleDown
    <2>2. \A c \in Managed : Seen(c)'.image = Seen(c).image
      BY <1>2, <2>1 DEF CheckNeedsUpgrade
    <2>3. CASE Return
      BY <2>3 DEF Return
    <2>4. CASE Advance("ready") /\ (at \in Managed => at \in needs' \cup misread' \/ Seen(at).image = "new")
      <3>1. needs \subseteq needs' /\ misread \subseteq misread' /\ todo' = todo /\ pc = "needs"
        BY <1>2, <2>4 DEF CheckNeedsUpgrade, Return, Advance, pastVars
      <3>2. CASE at = "quay"
        BY <2>2, <2>4, <3>1, <3>2 DEF Advance
      <3>3. CASE at = "clair"
        <4>1. ASSUME NEW c \in Managed, c \notin needs' \cup misread' PROVE Seen(c).image = "new"
          BY <2>4, <3>1, <3>3, <4>1, ConstantsAssumption DEF ConstantsAssumption
        <4> QED
          BY <2>2, <2>4, <3>1, <3>3, <4>1 DEF Advance
      <3> QED
        BY <3>2, <3>3
    <2> QED
      BY <1>2, <2>3, <2>4 DEF CheckNeedsUpgrade
  <1>3. CASE CheckReady
    BY <1>3 DEF CheckReady, Rendered, Survives, serverVars, oldVars, volumeVars, jobVars, pastVars
  <1>4. CASE ApplyService
    BY <1>4 DEF ApplyService, Applies, Applied, serverVars, volumeVars, jobVars, pastVars
  <1>5. CASE ApplyQuayApp
    BY <1>5 DEF ApplyQuayApp, Applies, Applied, serverVars, oldVars, volumeVars, jobVars, pastVars
  <1>6. ASSUME NEW c \in Managed, ApplyServer(c) PROVE PassInv'
    BY <1>6 DEF ApplyServer, Applies, Applied, RenderedServer, oldVars, volumeVars, jobVars, pastVars
  <1>7. ASSUME NEW c \in Managed, ApplyOldServer(c) PROVE PassInv'
    BY <1>7 DEF ApplyOldServer, Applies, Applied, serverVars, volumeVars, pastVars, jobVars, pastVars
  <1>8. ASSUME NEW c \in Managed, ApplyJob(c) PROVE PassInv'
    BY <1>8 DEF ApplyJob, Applies, Applied, Return, serverVars, oldVars, volumeVars, pastVars
  <1>9. CASE FinishRollout
    BY <1>9 DEF FinishRollout, Return, serverVars, oldVars, volumeVars, jobVars, pastVars, contextVars
  <1>10. CASE MarkInProgress
    BY <1>10 DEF MarkInProgress, Return, serverVars, oldVars, volumeVars, jobVars, pastVars
  <1>11. CASE CheckJob
    BY <1>11 DEF CheckJob, UpgradeDone, Phase, Advance, Return, serverVars, volumeVars, jobVars, pastVars, contextVars
  <1>12. CASE DeleteOldService
    BY <1>12 DEF DeleteOldService, Continue, serverVars, volumeVars, jobVars, pastVars, contextVars
  <1>13. CASE DeleteOldClaim
    BY <1>13 DEF DeleteOldClaim, Continue, serverVars, oldVars, jobVars, pastVars
  <1>14. CASE ReportUpgraded
    BY <1>14 DEF ReportUpgraded, Return, serverVars, oldVars, volumeVars, jobVars, pastVars
  <1>15. CASE Interrupt
    BY <1>15 DEF Interrupt, Return, Fault, serverVars, oldVars, volumeVars, jobVars, pastVars
  <1>16. CASE CacheSync
    <2>1. UNCHANGED <<dep, pod, running, pc, at, needs, todo, misread>>
      BY <1>16 DEF CacheSync, Outside, pastVars, contextVars
    <2>2. \A d \in Managed : seen'[d].image \in {seen[d].image, dep[d].image}
      BY <1>16 DEF CacheSync, Current
    <2>3. ASSUME NEW d \in Managed, Seen(d).image = "new" PROVE Seen(d)'.image = "new"
      BY <2>1, <2>2, <2>3 DEF ServerInv
    <2> QED
      BY <2>1, <2>3
  <1>17. ASSUME NEW c \in Managed, PodStarts(c) PROVE PassInv'
    BY <1>17 DEF PodStarts, Outside, oldVars, volumeVars, jobVars, pastVars, contextVars
  <1>18. ASSUME NEW c \in Managed, PodStops(c) PROVE PassInv'
    BY <1>18 DEF PodStops, Outside, oldVars, volumeVars, jobVars, pastVars, contextVars
  <1>19. ASSUME NEW c \in Managed, OldPodStarts(c) PROVE PassInv'
    BY <1>19 DEF OldPodStarts, Outside, serverVars, volumeVars, jobVars, pastVars, contextVars
  <1>20. ASSUME NEW c \in Managed, OldPodStops(c) PROVE PassInv'
    BY <1>20 DEF OldPodStops, Outside, serverVars, volumeVars, jobVars, pastVars, contextVars
  <1>21. ASSUME NEW c \in Managed, JobPodStarts(c) PROVE PassInv'
    BY <1>21 DEF JobPodStarts, Outside, serverVars, oldVars, volumeVars, pastVars, contextVars
  <1>22. ASSUME NEW c \in Managed, JobSucceeds(c) PROVE PassInv'
    BY <1>22 DEF JobSucceeds, Outside, serverVars, oldVars, pastVars, contextVars
  <1>23. ASSUME NEW c \in Managed, JobIsRemoved(c) PROVE PassInv'
    BY <1>23 DEF JobIsRemoved, Outside, serverVars, oldVars, volumeVars, pastVars, contextVars
  <1>24. ASSUME NEW c \in Managed, JobFails(c) PROVE PassInv'
    BY <1>24 DEF JobFails, Outside, Fault, serverVars, oldVars, volumeVars, pastVars, contextVars
  <1>25. ASSUME NEW c \in Managed, UserDeletesJob(c) PROVE PassInv'
    BY <1>25 DEF UserDeletesJob, Outside, Fault, serverVars, oldVars, volumeVars, pastVars, contextVars
  <1>27. CASE PodSync
    BY <1>27 DEF PodSync, RunningPods, Outside, oldVars, volumeVars, jobVars, pastVars, contextVars
  <1>28. CASE JobSync
    BY <1>28 DEF JobSync, Status, Outside, serverVars, oldVars, volumeVars, pastVars, contextVars
  <1>29. ASSUME NEW c \in Managed, PodRuns(c) PROVE PassInv'
    BY <1>29 DEF PodRuns, Outside, oldVars, jobVars, pastVars, contextVars
  <1>30. ASSUME NEW c \in Managed, PodEvicted(c) PROVE PassInv'
    BY <1>30 DEF PodEvicted, Outside, Fault, oldVars, volumeVars, jobVars, pastVars, contextVars
  <1>26. CASE UNCHANGED vars
    BY <1>26 DEF vars, serverVars, oldVars, volumeVars, jobVars, pastVars, contextVars
  <1> QED
    BY <1>1, <1>2, <1>3, <1>4, <1>5, <1>6, <1>7, <1>8, <1>9, <1>10, <1>11, <1>12, <1>13, <1>14, <1>15, <1>16, <1>17, <1>18, <1>19, <1>20, <1>21, <1>22, <1>23, <1>24, <1>25, <1>26, <1>27, <1>28, <1>29, <1>30 DEF Next, Reconcile, Kubernetes

\* No two servers run on one old volume: the check for an upgrade waits for the
\* pods of the old server before "-old" is applied, even when its request to scale
\* it down was refused or it looked at a cached Deployment.  The one way around it
\* is a pod that was Pending, or not in the cached list, when the check looked.
THEOREM OneServer == Spec => []OneServerPerVolume
  <1>1. Init => UpgradeInv
    BY TypeInit, ServerInit, PassInit DEF UpgradeInv
  <1>2. UpgradeInv /\ [Next]_vars => UpgradeInv'
    BY TypeStep, ServerStep, PassStep DEF UpgradeInv
  <1>3. UpgradeInv => OneServerPerVolume
    BY DEF UpgradeInv, TypeOK, ServerInv, Quiet, OneServerPerVolume
  <1> QED
    BY <1>1, <1>2, <1>3, PTL DEF Spec

-----------------------------------------------------------------------------
(* Data and marks *)

\* This release does not change under way.
LEMMA OutdatedFixed == [Next]_vars => outdated' = outdated
  BY DEF Next, Reconcile, Kubernetes, vars, Outside, StartReconcile, CheckNeedsUpgrade, CheckReady,
         ApplyService, ApplyQuayApp, ApplyServer, ApplyOldServer, ApplyJob, FinishRollout,
         MarkInProgress, CheckJob, DeleteOldService, DeleteOldClaim, ReportUpgraded, Interrupt,
         CacheSync, PodSync, JobSync, PodStarts, PodRuns, PodStops, PodEvicted, OldPodStarts, OldPodStops, JobPodStarts, JobSucceeds,
         JobIsRemoved, JobFails, UserDeletesJob

\* The mark of an upgrade goes only when the end of its Jobs is reported.
LEMMA OnlyReportUnmarks == [Next]_vars /\ marked /\ ~marked' => ReportUpgraded
  BY DEF Next, Reconcile, Kubernetes, vars, Outside, StartReconcile, CheckNeedsUpgrade, CheckReady,
         ApplyService, ApplyQuayApp, ApplyServer, ApplyOldServer, ApplyJob, FinishRollout,
         MarkInProgress, CheckJob, DeleteOldService, DeleteOldClaim, Interrupt,
         CacheSync, PodSync, JobSync, PodStarts, PodRuns, PodStops, PodEvicted, OldPodStarts, OldPodStops, JobPodStarts, JobSucceeds,
         JobIsRemoved, JobFails, UserDeletesJob

LEMMA DataInit == Init => DataInv
  <1> SUFFICES ASSUME Init, NEW c \in Managed
               PROVE  /\ newVolume[c] # "own" /\ job[c] # "succeeded"
                      /\ c \notin outdated =>
                           /\ dep[c].image = "new" /\ seen[c].image = "new"
                           /\ newVolume[c] = "copied"
                           /\ job[c] = "none" /\ c \notin oldDep /\ c \notin needs
    BY DEF DataInv
  <1>1. newVolume[c] \in {"empty", "copied"} /\ (c \notin outdated => newVolume[c] = "copied")
    BY DEF Init
  <1>2. job[c] = "none" /\ seen[c].image = dep[c].image /\ (c \notin outdated => dep[c].image = "new")
    BY DEF Init, Current
  <1> QED
    BY <1>1, <1>2 DEF Init

LEMMA AppliedInit == Init => AppliedInv
  BY DEF Init, AppliedInv, ChecksJobs

LEMMA MarkInit == Init => MarkInv
  BY DEF Init, MarkInv, ChecksJobs

\* Every step keeps the data where the next server will look for it.
LEMMA DataStep ==
  TypeOK /\ ServerInv /\ PassInv /\ AppliedInv /\ DataInv /\ [Next]_vars => DataInv'
  <1> SUFFICES ASSUME TypeOK, ServerInv, PassInv, AppliedInv, DataInv, [Next]_vars PROVE DataInv'
    OBVIOUS
  <1> USE DEF TypeOK, DataInv, Seen, Current
  <1>1. CASE StartReconcile
    BY <1>1 DEF StartReconcile, serverVars, oldVars, volumeVars, jobVars, pastVars, contextVars
  <1>2. CASE CheckNeedsUpgrade
    BY <1>2 DEF CheckNeedsUpgrade, ScaleDown, Advance, Return, Fault, oldVars, volumeVars, jobVars, pastVars
  <1>3. CASE CheckReady
    BY <1>3 DEF CheckReady, Rendered, Survives, serverVars, oldVars, volumeVars, jobVars, pastVars
  <1>4. CASE ApplyService
    BY <1>4 DEF ApplyService, Applies, Applied, serverVars, volumeVars, jobVars, pastVars
  <1>5. CASE ApplyQuayApp
    BY <1>5 DEF ApplyQuayApp, Applies, Applied, serverVars, oldVars, volumeVars, jobVars, pastVars
  <1>6. ASSUME NEW c \in Managed, ApplyServer(c) PROVE DataInv'
    BY <1>6 DEF ApplyServer, Applies, Applied, RenderedServer, oldVars, volumeVars, jobVars, pastVars
  <1>7. ASSUME NEW c \in Managed, ApplyOldServer(c) PROVE DataInv'
    <2>1. c \in outdated
      BY <1>7 DEF ApplyOldServer, Applies, PassInv
    <2> QED
      BY <1>7, <2>1 DEF ApplyOldServer, Applies, Applied, serverVars, volumeVars, jobVars, pastVars
  <1>8. ASSUME NEW c \in Managed, ApplyJob(c) PROVE DataInv'
    <2>1. c \in outdated
      BY <1>8 DEF ApplyJob, Applies, AppliedInv
    <2>2. job' \in {job, [job EXCEPT ![c] = "new"], [job EXCEPT ![c] = "deleting"]}
      BY <1>8 DEF ApplyJob
    <2>3. /\ \A d \in Managed : job'[d] = "succeeded" => job[d] = "succeeded"
          /\ \A d \in Managed \ {c} : job'[d] = job[d]
      BY <2>2
    <2>4. needs' \subseteq needs /\ UNCHANGED <<outdated, dep, pod, running, seen, oldDep, newVolume>> /\ misread \subseteq misread'
      BY <1>8 DEF ApplyJob, Applied, Return, serverVars, oldVars, volumeVars
    <2> QED
      BY <2>1, <2>3, <2>4
  <1>9. CASE FinishRollout
    BY <1>9 DEF FinishRollout, Return, serverVars, oldVars, volumeVars, jobVars, pastVars, contextVars
  <1>10. CASE MarkInProgress
    BY <1>10 DEF MarkInProgress, Return, serverVars, oldVars, volumeVars, jobVars, pastVars
  <1>11. CASE CheckJob
    BY <1>11 DEF CheckJob, UpgradeDone, Phase, Advance, Return, serverVars, volumeVars, jobVars, pastVars, contextVars
  <1>12. CASE DeleteOldService
    BY <1>12 DEF DeleteOldService, Continue, serverVars, volumeVars, jobVars, pastVars, contextVars
  <1>13. CASE DeleteOldClaim
    BY <1>13 DEF DeleteOldClaim, Continue, serverVars, oldVars, jobVars, pastVars
  <1>14. CASE ReportUpgraded
    BY <1>14 DEF ReportUpgraded, Return, serverVars, oldVars, volumeVars, jobVars, pastVars
  <1>15. CASE Interrupt
    BY <1>15 DEF Interrupt, Return, Fault, serverVars, oldVars, volumeVars, jobVars, pastVars
  <1>16. CASE CacheSync
    <2>1. UNCHANGED <<outdated, dep, pod, running, needs, newVolume, job, oldDep, misread>>
      BY <1>16 DEF CacheSync, Outside, oldVars, volumeVars, jobVars, pastVars, contextVars
    <2>2. \A d \in Managed : seen'[d].image \in {seen[d].image, dep[d].image}
      BY <1>16 DEF CacheSync, Current
    <2>3. ASSUME NEW d \in Managed, Seen(d)'.image = "old" PROVE Seen(d).image = "old"
      <3>1. CASE CacheLag
        BY <2>1, <2>2, <2>3, <3>1 DEF ServerInv, Images
      <3>2. CASE ~CacheLag
        BY <2>1, <2>3, <3>2
      <3> QED
        BY <3>1, <3>2
    <2> QED
      BY <2>1, <2>2, <2>3
  <1>17. ASSUME NEW c \in Managed, PodStarts(c) PROVE DataInv'
    BY <1>17 DEF PodStarts, Outside, oldVars, volumeVars, jobVars, pastVars, contextVars
  <1>18. ASSUME NEW c \in Managed, PodStops(c) PROVE DataInv'
    BY <1>18 DEF PodStops, Outside, oldVars, volumeVars, jobVars, pastVars, contextVars
  <1>19. ASSUME NEW c \in Managed, OldPodStarts(c) PROVE DataInv'
    BY <1>19 DEF OldPodStarts, Outside, serverVars, volumeVars, jobVars, pastVars, contextVars
  <1>20. ASSUME NEW c \in Managed, OldPodStops(c) PROVE DataInv'
    BY <1>20 DEF OldPodStops, Outside, serverVars, volumeVars, jobVars, pastVars, contextVars
  <1>21. ASSUME NEW c \in Managed, JobPodStarts(c) PROVE DataInv'
    BY <1>21 DEF JobPodStarts, Outside, serverVars, oldVars, volumeVars, pastVars, contextVars
  <1>22. ASSUME NEW c \in Managed, JobSucceeds(c) PROVE DataInv'
    BY <1>22 DEF JobSucceeds, Outside, serverVars, oldVars, pastVars, contextVars
  <1>23. ASSUME NEW c \in Managed, JobIsRemoved(c) PROVE DataInv'
    BY <1>23 DEF JobIsRemoved, Outside, serverVars, oldVars, volumeVars, pastVars, contextVars
  <1>24. ASSUME NEW c \in Managed, JobFails(c) PROVE DataInv'
    BY <1>24 DEF JobFails, Outside, Fault, serverVars, oldVars, volumeVars, pastVars, contextVars
  <1>25. ASSUME NEW c \in Managed, UserDeletesJob(c) PROVE DataInv'
    BY <1>25 DEF UserDeletesJob, Outside, Fault, serverVars, oldVars, volumeVars, pastVars, contextVars
  <1>27. CASE PodSync
    BY <1>27 DEF PodSync, RunningPods, Outside, oldVars, volumeVars, jobVars, pastVars, contextVars
  <1>28. CASE JobSync
    BY <1>28 DEF JobSync, Status, Outside, serverVars, oldVars, volumeVars, pastVars, contextVars
  <1>29. ASSUME NEW c \in Managed, PodRuns(c) PROVE DataInv'
    <2>1. UNCHANGED <<outdated, dep, seen, needs, job, oldDep, misread>>
      BY <1>29 DEF PodRuns, Outside, oldVars, jobVars, pastVars, contextVars
    <2>2. \A d \in Managed : Seen(d)'.image = Seen(d).image
      BY <2>1
    <2>3. \A d \in Managed : newVolume[d] # "empty" => newVolume'[d] = newVolume[d]
      BY <1>29 DEF PodRuns
    <2>4. ASSUME NEW d \in Managed, newVolume[d] # "own", newVolume'[d] = "own"
          PROVE  d = c /\ pod[c] = "new"
      BY <1>29, <2>4 DEF PodRuns
    <2>5. pod[c] # "new" \/ c \in misread \/ (Seen(c).image # "old" /\ c \notin needs)
      BY DEF ServerInv, Idle
    <2>6. newVolume' \in [Managed -> Contents]
      BY <1>29 DEF PodRuns, Contents
    <2> QED
      BY <2>1, <2>2, <2>3, <2>4, <2>5, <2>6
  <1>30. ASSUME NEW c \in Managed, PodEvicted(c) PROVE DataInv'
    BY <1>30 DEF PodEvicted, Outside, Fault, oldVars, volumeVars, jobVars, pastVars, contextVars
  <1>26. CASE UNCHANGED vars
    BY <1>26 DEF vars, serverVars, oldVars, volumeVars, jobVars, pastVars, contextVars
  <1> QED
    BY <1>1, <1>2, <1>3, <1>4, <1>5, <1>6, <1>7, <1>8, <1>9, <1>10, <1>11, <1>12, <1>13, <1>14, <1>15, <1>16, <1>17, <1>18, <1>19, <1>20, <1>21, <1>22, <1>23, <1>24, <1>25, <1>26, <1>27, <1>28, <1>29, <1>30 DEF Next, Reconcile, Kubernetes

\* Every step keeps what a pass that reaches the mark has applied before.
LEMMA AppliedStep ==
  TypeOK /\ PassInv /\ DataInv /\ AppliedInv /\ [Next]_vars => AppliedInv'
  <1> SUFFICES ASSUME TypeOK, PassInv, DataInv, AppliedInv, [Next]_vars PROVE AppliedInv'
    OBVIOUS
  <1> USE DEF TypeOK, AppliedInv, ChecksJobs
  <1>1. CASE StartReconcile
    BY <1>1 DEF PassInv, StartReconcile, serverVars, oldVars, volumeVars, jobVars, pastVars, contextVars
  <1>2. CASE CheckNeedsUpgrade
    BY <1>2 DEF CheckNeedsUpgrade, ScaleDown, Advance, Return, Fault, oldVars, volumeVars, jobVars, pastVars
  <1>3. CASE CheckReady
    BY <1>3 DEF CheckReady, Rendered, Survives, serverVars, oldVars, volumeVars, jobVars, pastVars
  <1>4. CASE ApplyService
    BY <1>4 DEF ApplyService, Applies, Applied, serverVars, volumeVars, jobVars, pastVars
  <1>5. CASE ApplyQuayApp
    BY <1>5 DEF ApplyQuayApp, Applies, Applied, serverVars, oldVars, volumeVars, jobVars, pastVars
  <1>6. ASSUME NEW c \in Managed, ApplyServer(c) PROVE AppliedInv'
    BY <1>6 DEF ApplyServer, Applies, Applied, RenderedServer, oldVars, volumeVars, jobVars, pastVars
  <1>7. ASSUME NEW c \in Managed, ApplyOldServer(c) PROVE AppliedInv'
    BY <1>7 DEF ApplyOldServer, Applies, Applied, serverVars, volumeVars, pastVars, jobVars, pastVars
  <1>8. ASSUME NEW c \in Managed, ApplyJob(c) PROVE AppliedInv'
    BY <1>8 DEF ApplyJob, Applies, Applied, Return, serverVars, oldVars, volumeVars, pastVars
  <1>9. CASE FinishRollout
    BY <1>9 DEF FinishRollout, Return, serverVars, oldVars, volumeVars, jobVars, pastVars, contextVars
  <1>10. CASE MarkInProgress
    BY <1>10 DEF MarkInProgress, Return, serverVars, oldVars, volumeVars, jobVars, pastVars
  <1>11. CASE CheckJob
    BY <1>11 DEF CheckJob, UpgradeDone, Phase, Advance, Return, serverVars, volumeVars, jobVars, pastVars, contextVars
  <1>12. CASE DeleteOldService
    BY <1>12 DEF DeleteOldService, Continue, serverVars, volumeVars, jobVars, pastVars, contextVars
  <1>13. CASE DeleteOldClaim
    BY <1>13 DEF DeleteOldClaim, Continue, serverVars, oldVars, jobVars, pastVars
  <1>14. CASE ReportUpgraded
    BY <1>14 DEF ReportUpgraded, Return, serverVars, oldVars, volumeVars, jobVars, pastVars
  <1>15. CASE Interrupt
    BY <1>15 DEF Interrupt, Return, Fault, serverVars, oldVars, volumeVars, jobVars, pastVars
  <1>16. CASE CacheSync
    BY <1>16 DEF CacheSync, Outside, Current, oldVars, volumeVars, jobVars, pastVars, contextVars
  <1>17. ASSUME NEW c \in Managed, PodStarts(c) PROVE AppliedInv'
    BY <1>17 DEF PodStarts, Outside, oldVars, volumeVars, jobVars, pastVars, contextVars
  <1>18. ASSUME NEW c \in Managed, PodStops(c) PROVE AppliedInv'
    BY <1>18 DEF PodStops, Outside, oldVars, volumeVars, jobVars, pastVars, contextVars
  <1>19. ASSUME NEW c \in Managed, OldPodStarts(c) PROVE AppliedInv'
    BY <1>19 DEF OldPodStarts, Outside, serverVars, volumeVars, jobVars, pastVars, contextVars
  <1>20. ASSUME NEW c \in Managed, OldPodStops(c) PROVE AppliedInv'
    BY <1>20 DEF OldPodStops, Outside, serverVars, volumeVars, jobVars, pastVars, contextVars
  <1>21. ASSUME NEW c \in Managed, JobPodStarts(c) PROVE AppliedInv'
    BY <1>21 DEF JobPodStarts, Outside, serverVars, oldVars, volumeVars, pastVars, contextVars
  <1>22. ASSUME NEW c \in Managed, JobSucceeds(c) PROVE AppliedInv'
    BY <1>22 DEF JobSucceeds, Outside, serverVars, oldVars, pastVars, contextVars
  <1>23. ASSUME NEW c \in Managed, JobIsRemoved(c) PROVE AppliedInv'
    BY <1>23 DEF JobIsRemoved, Outside, serverVars, oldVars, volumeVars, pastVars, contextVars
  <1>24. ASSUME NEW c \in Managed, JobFails(c) PROVE AppliedInv'
    BY <1>24 DEF JobFails, Outside, Fault, serverVars, oldVars, volumeVars, pastVars, contextVars
  <1>25. ASSUME NEW c \in Managed, UserDeletesJob(c) PROVE AppliedInv'
    BY <1>25 DEF UserDeletesJob, Outside, Fault, serverVars, oldVars, volumeVars, pastVars, contextVars
  <1>27. CASE PodSync
    BY <1>27 DEF PodSync, RunningPods, Outside, oldVars, volumeVars, jobVars, pastVars, contextVars
  <1>28. CASE JobSync
    BY <1>28 DEF JobSync, Status, Outside, serverVars, oldVars, volumeVars, pastVars, contextVars
  <1>29. ASSUME NEW c \in Managed, PodRuns(c) PROVE AppliedInv'
    BY <1>29 DEF PodRuns, Outside, oldVars, jobVars, pastVars, contextVars
  <1>30. ASSUME NEW c \in Managed, PodEvicted(c) PROVE AppliedInv'
    BY <1>30 DEF PodEvicted, Outside, Fault, oldVars, volumeVars, jobVars, pastVars, contextVars
  <1>26. CASE UNCHANGED vars
    BY <1>26 DEF vars, serverVars, oldVars, volumeVars, jobVars, pastVars, contextVars
  <1> QED
    BY <1>1, <1>2, <1>3, <1>4, <1>5, <1>6, <1>7, <1>8, <1>9, <1>10, <1>11, <1>12, <1>13, <1>14, <1>15, <1>16, <1>17, <1>18, <1>19, <1>20, <1>21, <1>22, <1>23, <1>24, <1>25, <1>26, <1>27, <1>28, <1>29, <1>30 DEF Next, Reconcile, Kubernetes

\* With one upgrade at a time, every step keeps what the mark promises.
LEMMA MarkStep ==
  TypeOK /\ OneAtATime /\ ServerInv /\ PassInv /\ DataInv /\ AppliedInv /\ MarkInv /\ [Next]_vars => MarkInv'
  <1> SUFFICES ASSUME TypeOK, OneAtATime, ServerInv, PassInv, DataInv, AppliedInv, MarkInv, [Next]_vars PROVE MarkInv'
    OBVIOUS
  <1> USE DEF TypeOK, MarkInv, ChecksJobs, JobDone
  <1>1. CASE StartReconcile
    BY <1>1 DEF PassInv, StartReconcile, serverVars, oldVars, volumeVars, jobVars, pastVars, contextVars
  <1>2. CASE CheckNeedsUpgrade
    BY <1>2 DEF CheckNeedsUpgrade, ScaleDown, Advance, Return, Fault, oldVars, volumeVars, jobVars, pastVars
  <1>3. CASE CheckReady
    BY <1>3 DEF CheckReady, Rendered, Survives, serverVars, oldVars, volumeVars, jobVars, pastVars
  <1>4. CASE ApplyService
    BY <1>4 DEF ApplyService, Applies, Applied, serverVars, volumeVars, jobVars, pastVars
  <1>5. CASE ApplyQuayApp
    BY <1>5 DEF AppliedInv, ApplyQuayApp, Applies, Applied, serverVars, oldVars, volumeVars, jobVars, pastVars
  <1>6. ASSUME NEW c \in Managed, ApplyServer(c) PROVE MarkInv'
    BY <1>6 DEF AppliedInv, ApplyServer, Applies, Applied, RenderedServer, oldVars, volumeVars, jobVars, pastVars
  <1>7. ASSUME NEW c \in Managed, ApplyOldServer(c) PROVE MarkInv'
    BY <1>7 DEF ApplyOldServer, Applies, Applied, serverVars, volumeVars, pastVars, jobVars, pastVars
  <1>8. ASSUME NEW c \in Managed, ApplyJob(c) PROVE MarkInv'
    BY <1>8 DEF AppliedInv, ApplyJob, Applies, Applied, Return, serverVars, oldVars, volumeVars, pastVars
  <1>9. CASE FinishRollout
    BY <1>9 DEF FinishRollout, Return, serverVars, oldVars, volumeVars, jobVars, pastVars, contextVars
  <1>10. CASE MarkInProgress
    <2>1. PICK c \in needs : TRUE
      BY <1>10 DEF MarkInProgress, AppliedInv
    <2>2. c \in Managed /\ c \in outdated /\ \A d \in outdated : d = c
      BY <2>1 DEF DataInv, OneAtATime
    <2>3. (pod[c] # "new" /\ newVolume[c] # "own") \/ c \in misread
      BY <2>1, <2>2 DEF ServerInv, DataInv, Idle
    <2>4. /\ ~dep[c].up /\ c \in oldDep /\ (c = "quay" => ~app)
          /\ job[c] \notin {"none", "deleting"} \/ c \in deleted \cup misread
      BY <1>10, <2>1 DEF MarkInProgress, AppliedInv
    <2> QED
      BY <1>10, <2>2, <2>3, <2>4 DEF MarkInProgress, Return, serverVars, oldVars, volumeVars, jobVars, pastVars
  <1>11. CASE CheckJob
    <2>1. /\ marked /\ UNCHANGED <<outdated, dep, pod, newVolume, job, deleted, app, marked>>
          /\ misread \subseteq misread'
      BY <1>11 DEF CheckJob, AppliedInv, serverVars, volumeVars, jobVars
    <2>2. Phase(at) = "none" /\ Misread(at) \subseteq misread' =>
            at \notin outdated \ (deleted \cup misread')
      <3> SUFFICES ASSUME Phase(at) = "none", Misread(at) \subseteq misread',
                          at \in outdated \ (deleted \cup misread')
                   PROVE  FALSE
        OBVIOUS
      <3>1. at \in Managed /\ job[at] = "none"
        BY DEF Phase, Misread, Status
      <3> QED
        BY <2>1, <3>1
    <2>3. Phase(at) = "succeeded" /\ Misread(at) \subseteq misread' =>
            (at \in outdated \ misread' => job[at] = "succeeded")
      BY DEF Phase, Misread, Status
    <2>4. CASE /\ Phase(at) \in {"none", "succeeded"} /\ Misread(at) \subseteq misread'
               /\ oldDep' = oldDep /\ Advance("report")
      <3>1. at \in outdated \ (deleted \cup misread') => job[at] = "succeeded"
        BY <2>1, <2>2, <2>3, <2>4
      <3> QED
        BY <1>11, <2>1, <2>4, <3>1 DEF CheckJob, Advance
    <2>5. CASE /\ Phase(at) = "succeeded" /\ Misread(at) \subseteq misread'
               /\ oldDep' \in {oldDep, oldDep \ {at}} /\ pc' = "oldService" /\ at' = at
      <3>1. at \in outdated \ (deleted \cup misread') => job[at] = "succeeded"
        BY <2>1, <2>3, <2>5
      <3> QED
        BY <1>11, <2>1, <2>3, <2>5, <3>1 DEF CheckJob
    <2>6. CASE Return /\ oldDep' = oldDep
      BY <2>1, <2>6 DEF Return
    <2> QED
      BY <1>11, <2>4, <2>5, <2>6 DEF CheckJob, UpgradeDone, contextVars
  <1>12. CASE DeleteOldService
    BY <1>12 DEF DeleteOldService, Continue, serverVars, volumeVars, jobVars, pastVars, contextVars
  <1>13. CASE DeleteOldClaim
    BY <1>13 DEF DeleteOldClaim, Continue, serverVars, oldVars, jobVars, pastVars
  <1>14. CASE ReportUpgraded
    BY <1>14 DEF ReportUpgraded, Return, serverVars, oldVars, volumeVars, jobVars, pastVars
  <1>15. CASE Interrupt
    BY <1>15 DEF Interrupt, Return, Fault, serverVars, oldVars, volumeVars, jobVars, pastVars
  <1>16. CASE CacheSync
    BY <1>16 DEF CacheSync, Outside, Current, oldVars, volumeVars, jobVars, pastVars, contextVars
  <1>17. ASSUME NEW c \in Managed, PodStarts(c) PROVE MarkInv'
    BY <1>17 DEF PodStarts, Outside, oldVars, volumeVars, jobVars, pastVars, contextVars
  <1>18. ASSUME NEW c \in Managed, PodStops(c) PROVE MarkInv'
    BY <1>18 DEF PodStops, Outside, oldVars, volumeVars, jobVars, pastVars, contextVars
  <1>19. ASSUME NEW c \in Managed, OldPodStarts(c) PROVE MarkInv'
    BY <1>19 DEF OldPodStarts, Outside, serverVars, volumeVars, jobVars, pastVars, contextVars
  <1>20. ASSUME NEW c \in Managed, OldPodStops(c) PROVE MarkInv'
    BY <1>20 DEF OldPodStops, Outside, serverVars, volumeVars, jobVars, pastVars, contextVars
  <1>21. ASSUME NEW c \in Managed, JobPodStarts(c) PROVE MarkInv'
    BY <1>21 DEF JobPodStarts, Outside, serverVars, oldVars, volumeVars, pastVars, contextVars
  <1>22. ASSUME NEW c \in Managed, JobSucceeds(c) PROVE MarkInv'
    BY <1>22 DEF JobSucceeds, Outside, serverVars, oldVars, pastVars, contextVars
  <1>23. ASSUME NEW c \in Managed, JobIsRemoved(c) PROVE MarkInv'
    BY <1>23 DEF JobIsRemoved, Outside, serverVars, oldVars, volumeVars, pastVars, contextVars
  <1>24. ASSUME NEW c \in Managed, JobFails(c) PROVE MarkInv'
    BY <1>24 DEF JobFails, Outside, Fault, serverVars, oldVars, volumeVars, pastVars, contextVars
  <1>25. ASSUME NEW c \in Managed, UserDeletesJob(c) PROVE MarkInv'
    BY <1>25 DEF UserDeletesJob, Outside, Fault, serverVars, oldVars, volumeVars, pastVars, contextVars
  <1>27. CASE PodSync
    BY <1>27 DEF PodSync, RunningPods, Outside, oldVars, volumeVars, jobVars, pastVars, contextVars
  <1>28. CASE JobSync
    BY <1>28 DEF JobSync, Status, Outside, serverVars, oldVars, volumeVars, pastVars, contextVars
  <1>29. ASSUME NEW c \in Managed, PodRuns(c) PROVE MarkInv'
    BY <1>29 DEF PodRuns, Outside, oldVars, jobVars, pastVars, contextVars
  <1>30. ASSUME NEW c \in Managed, PodEvicted(c) PROVE MarkInv'
    BY <1>30 DEF PodEvicted, Outside, Fault, oldVars, volumeVars, jobVars, pastVars, contextVars
  <1>26. CASE UNCHANGED vars
    BY <1>26 DEF vars, serverVars, oldVars, volumeVars, jobVars, pastVars, contextVars
  <1> QED
    BY <1>1, <1>2, <1>3, <1>4, <1>5, <1>6, <1>7, <1>8, <1>9, <1>10, <1>11, <1>12, <1>13, <1>14, <1>15, <1>16, <1>17, <1>18, <1>19, <1>20, <1>21, <1>22, <1>23, <1>24, <1>25, <1>26, <1>27, <1>28, <1>29, <1>30 DEF Next, Reconcile, Kubernetes

\* With one database upgraded at a time nothing disturbs a recorded upgrade, and it
\* ends with the data on the new volume.
LEMMA CopyInvariant == ~Together /\ Spec => []CopyInv
  <1> SUFFICES ASSUME ~Together PROVE Spec => []CopyInv
    OBVIOUS
  <1>1. Init => CopyInv
    BY TypeInit, ServerInit, PassInit, DataInit, AppliedInit, MarkInit
    DEF CopyInv, UpgradeInv, OneAtATime, Init
  <1>2. CopyInv /\ [Next]_vars => CopyInv'
    <2> SUFFICES ASSUME CopyInv, [Next]_vars PROVE CopyInv'
      OBVIOUS
    <2>1. outdated' = outdated
      BY OutdatedFixed
    <2> QED
      BY <2>1, TypeStep, ServerStep, PassStep, DataStep, AppliedStep, MarkStep
      DEF CopyInv, UpgradeInv, OneAtATime
  <1> QED
    BY <1>1, <1>2, PTL DEF Spec

\* While an upgrade is recorded nothing disturbs its Job: neither a server on the
\* volume it fills, nor the removal of the server it copies from, nor quay-app;
\* again unless its Deployment or its Job was misread.
THEOREM Undisturbed == ~Together /\ Spec => []UpgradeUndisturbed
  <1>1. CopyInv => UpgradeUndisturbed
    BY DEF CopyInv, UpgradeInv, DataInv, MarkInv, UpgradeUndisturbed
  <1> QED
    BY <1>1, CopyInvariant, PTL

\* The mark of an upgrade goes only when the data is on the new volume, unless
\* its Job was deleted under way, or was another than the cached one the operator
\* looked at when it applied the Job or checked it.
THEOREM UpgradeCopies == ~Together /\ Spec => RecordedUpgradeCopies
  <1>1. CopyInv /\ [Next]_vars =>
          [marked /\ ~marked' =>
             \A c \in Managed \ (deleted \cup misread) : dep[c].image = "new" => newVolume[c] = "copied"]_vars
    <2> SUFFICES ASSUME CopyInv, [Next]_vars, marked, ~marked',
                        NEW c \in Managed \ (deleted \cup misread)
                 PROVE  newVolume[c] = "copied"
      OBVIOUS
    <2>1. ReportUpgraded
      BY OnlyReportUnmarks DEF CopyInv, UpgradeInv
    <2>2. pc = "report"
      BY <2>1 DEF ReportUpgraded
    <2>3. CASE c \in outdated
      BY <2>2, <2>3, ConstantsAssumption
      DEF ConstantsAssumption, CopyInv, UpgradeInv, TypeOK, DataInv, AppliedInv, MarkInv,
          JobDone, ChecksJobs, Contents
    <2>4. CASE c \notin outdated
      BY <2>4 DEF CopyInv, DataInv
    <2> QED
      BY <2>3, <2>4
  <1> QED
    BY <1>1, CopyInvariant, PTL DEF Spec, RecordedUpgradeCopies
=============================================================================
