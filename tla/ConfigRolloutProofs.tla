------------------------ MODULE ConfigRolloutProofs ------------------------
(***************************************************************************)
(* What holds of ConfigRollout for every set of configurations and         *)
(* Deployments, every number of replicas and every surge.                  *)
(***************************************************************************)
EXTENDS ConfigRollout, FiniteSetTheorems, TLAPS

-----------------------------------------------------------------------------
(* The Secret a template mounts *)

\* Types of the variables that decide which Secrets exist.
SecretTypeOK ==
  /\ userConfig \in Configs
  /\ secrets \in SUBSET Configs
  /\ template \in [Workloads -> Templates]
  /\ pc \in {"idle", "secret", "apply", "cleanup"}
  /\ previous \in SUBSET Configs
  /\ todo \in SUBSET Workloads

\* From the list of old Secrets on, the Secret in hand is not on that list; once
\* applied it exists; and unless the workloads are deferred a Deployment that is no
\* longer to be applied mounts it.
PassInv ==
  /\ pc # "idle" => current \in Configs \ previous
  /\ pc \in {"apply", "cleanup"} => current \in secrets
  /\ pc = "secret" /\ ~deferred => todo = Workloads
  /\ pc = "apply" /\ ~deferred => \A w \in Workloads \ todo : template[w] = current
  /\ pc = "cleanup" /\ ~deferred => \A w \in Workloads : template[w] = current

SecretInv == SecretTypeOK /\ PassInv

\* The Secret invariant holds initially: nothing exists yet.
LEMMA SecretInit == Init => SecretInv
BY DEF Init, SecretInv, SecretTypeOK, PassInv, Templates

\* Every step preserves the Secret invariant, in every environment.
LEMMA SecretStep ==
  ASSUME SecretInv, [Next]_vars
  PROVE  SecretInv'
<1> USE DEF SecretInv, SecretTypeOK, PassInv, Templates
<1>1. CASE StartReconcile
  BY <1>1 DEF StartReconcile, RenderedConfig, OldConfigSecrets, clusterVars, depVars
<1>2. CASE ApplySecret
  BY <1>2 DEF ApplySecret, depVars
<1>3. ASSUME NEW w \in Workloads, ApplyDeployment(w)
      PROVE  SecretInv'
  <2>1. /\ pc = "apply" /\ pc' = pc /\ todo' = todo \ {w}
        /\ template' = [template EXCEPT ![w] = current]
    BY <1>3 DEF ApplyDeployment, ChangesTemplate, depVars
  <2>2. UNCHANGED <<userConfig, secrets, current, previous, deferred>>
    BY <1>3 DEF ApplyDeployment
  <2>3. QED
    BY <2>1, <2>2
<1>4. CASE CheckRollout
  <2>1. UNCHANGED <<userConfig, secrets, template>>
    BY <1>4 DEF CheckRollout, clusterVars, depVars
  <2>2. CASE pc' = "cleanup" /\ pc = "apply" /\ todo = {} /\ UNCHANGED <<current, previous, todo, deferred>>
    BY <2>1, <2>2
  <2>3. CASE Return
    BY <2>1, <2>3 DEF Return
  <2>4. QED
    BY <1>4, <2>2, <2>3 DEF CheckRollout
<1>5. CASE DeleteSecret
  <2>1. PICK s \in previous :
          /\ secrets' = secrets \ {s}
          /\ \/ Return
             \/ previous' = previous \ {s} /\ UNCHANGED <<pc, current, todo, deferred>>
    BY <1>5 DEF DeleteSecret
  <2>2. pc = "cleanup" /\ UNCHANGED <<userConfig, template>>
    BY <1>5 DEF DeleteSecret, depVars
  <2>3. QED
    BY <2>1, <2>2 DEF Return
<1>6. CASE RequestFails
  BY <1>6 DEF RequestFails, Return, clusterVars, depVars
<1>7. CASE UserEdits
  BY <1>7 DEF UserEdits, clusterVars, depVars, localVars
<1>8. CASE \/ CacheSync \/ PublishStatus
           \/ \E w \in Workloads : Controller(w)
           \/ \E w \in Workloads, c \in Configs : PodReplaced(w, c)
           \/ UNCHANGED vars
  <2>1. UNCHANGED <<userConfig, secrets, template, localVars>>
    BY <1>8 DEF CacheSync, Controller, PublishStatus, CreatePod, RemoveOldPod,
                PodBecomesReady, PodReplaced, vars, clusterVars, depVars
  <2>2. QED
    BY <2>1 DEF localVars
<1>9. QED
  BY <1>1, <1>2, <1>3, <1>4, <1>5, <1>6, <1>7, <1>8 DEF Next, Reconcile

\* What a step does to the Secret that a template mounts.
SecretKept ==
  \A w \in Workloads :
    template'[w] \in Configs \ secrets' =>
      deferred \/ (template[w] = template'[w] /\ template[w] \notin secrets)

\* Only the deletion of old Secrets takes one away, and the template of a pass that
\* did not defer the workloads mounts the Secret in hand, which is not on the list.
LEMMA SecretKeptStep ==
  ASSUME SecretInv, [Next]_vars
  PROVE  SecretKept
<1> USE DEF SecretInv, SecretTypeOK, PassInv, SecretKept, Templates
<1>1. ASSUME NEW w \in Workloads, ApplyDeployment(w)
      PROVE  SecretKept
  <2>1. /\ pc = "apply" /\ UNCHANGED secrets
        /\ template' = [template EXCEPT ![w] = current]
    BY <1>1 DEF ApplyDeployment, ChangesTemplate, depVars
  <2>2. QED
    BY <2>1
<1>2. CASE DeleteSecret
  <2>1. PICK s \in previous : secrets' = secrets \ {s}
    BY <1>2 DEF DeleteSecret
  <2>2. pc = "cleanup" /\ UNCHANGED template
    BY <1>2 DEF DeleteSecret, depVars
  <2>3. QED
    BY <2>1, <2>2
<1>3. CASE \/ StartReconcile \/ ApplySecret \/ CheckRollout \/ RequestFails
           \/ UserEdits \/ CacheSync \/ PublishStatus \/ UNCHANGED vars
           \/ \E w \in Workloads : Controller(w)
           \/ \E w \in Workloads, c \in Configs : PodReplaced(w, c)
  <2>1. UNCHANGED template /\ secrets \subseteq secrets'
    BY <1>3 DEF StartReconcile, ApplySecret, CheckRollout, RequestFails, UserEdits, CacheSync,
                Controller, PublishStatus, CreatePod, RemoveOldPod, PodBecomesReady,
                PodReplaced, vars, clusterVars, depVars
  <2>2. QED
    BY <2>1
<1>4. QED
  BY <1>1, <1>2, <1>3 DEF Next, Reconcile

\* A Secret that a template mounts is deleted only by a pass that deferred the
\* workloads, whatever is edited and fails in between and whatever the informer
\* cache shows quayAppDeploymentRolledOut.
THEOREM MountedAlwaysKept == Spec => MountedSecretKept
<1>1. Init => SecretInv
  BY SecretInit
<1>2. SecretInv /\ [Next]_vars => SecretInv'
  BY SecretStep
<1>3. SecretInv /\ [Next]_vars => SecretKept
  BY SecretKeptStep
<1>4. [][SecretKept]_vars => MountedSecretKept
  BY PTL DEF SecretKept, MountedSecretKept
<1>5. QED
  BY <1>1, <1>2, <1>3, <1>4, PTL DEF Spec

TemplateInv == SecretInv /\ ~deferred /\ TemplateSecretExists

\* As long as no workload is deferred, the Secret every Deployment's template
\* mounts exists, whatever the informer cache shows quayAppDeploymentRolledOut.
THEOREM TemplateMountable ==
  ASSUME ~Deferral
  PROVE  Spec => []TemplateSecretExists
<1>1. Init => TemplateInv
  BY SecretInit DEF TemplateInv, Init, TemplateSecretExists
<1>2. TemplateInv /\ [Next]_vars => TemplateInv'
  <2>1. SUFFICES ASSUME TemplateInv, [Next]_vars
                 PROVE  TemplateInv'
    OBVIOUS
  <2>2. SecretInv' /\ SecretKept
    BY <2>1, SecretStep, SecretKeptStep DEF TemplateInv
  <2>3. ~deferred'
    BY <2>1 DEF TemplateInv, Next, Reconcile, Controller, StartReconcile, ApplySecret, CheckRollout,
         DeleteSecret, ApplyDeployment, RequestFails, Return, UserEdits, CacheSync, PublishStatus,
         CreatePod, RemoveOldPod, PodBecomesReady, PodReplaced, vars, localVars
  <2>4. TemplateSecretExists'
    BY <2>1, <2>2 DEF TemplateInv, TemplateSecretExists, SecretKept, SecretInv, SecretTypeOK, Templates
  <2>5. QED
    BY <2>2, <2>3, <2>4 DEF TemplateInv
<1>3. TemplateInv => TemplateSecretExists
  BY DEF TemplateInv
<1>4. QED
  BY <1>1, <1>2, <1>3, PTL DEF Spec

-----------------------------------------------------------------------------
(* Cleanup waits for the new pods *)

\* Shape and types of what the rollout check of quay-app reads.
CounterTypeOK ==
  /\ template \in [Workloads -> Templates] /\ current \in Templates
  /\ userConfig \in Configs
  /\ pods \in [Workloads -> [Configs -> PodCounts]]
  /\ observed \in BOOLEAN /\ updated \in Nat
  /\ depCache.observed \in BOOLEAN /\ depCache.updated \in Nat

\* The counters of a copy d of quay-app do not lie about the template in force.
Truthful(d) ==
  template["app"] # NoConfig /\ d.observed => d.updated <= Total("app", template["app"])

\* Pods of one template never exceed the replicas asked for; once the controller
\* has observed the template of quay-app its count of updated pods does not lie;
\* nor does that of an older copy, as long as it is of the same generation.
CountInv ==
  /\ \A w \in Workloads, c \in Configs : Total(w, c) <= Replicas
  /\ Truthful(App)
  /\ synced => depCache.template = template["app"] /\ Truthful(depCache)

CleanupInv == CounterTypeOK /\ CountInv /\ CleanupAfterUpdate

\* Everything the cleanup invariant depends on.
LEMMA CleanupFrame ==
  ASSUME CleanupInv, UNCHANGED <<depVars, pods, cacheVars>>,
         pc' = "cleanup" => pc = "cleanup" /\ UNCHANGED informed,
         userConfig' \in Configs, current' \in Templates
  PROVE  CleanupInv'
BY DEF CleanupInv, CounterTypeOK, CountInv, Truthful, App, CleanupAfterUpdate, Total, depVars, cacheVars

\* The cleanup invariant holds initially: there are no pods.
LEMMA CleanupInit == Init => CleanupInv
BY ConfigRolloutAssumption
   DEF ConfigRolloutAssumption, Init, CleanupInv, CounterTypeOK, CountInv, Truthful, App,
       CleanupAfterUpdate, Total, Templates, PodCounts, NoDeployment

\* A change of the pods of one Deployment and content changes their total and no
\* other total.
LEMMA PodsEffect ==
  ASSUME CounterTypeOK, NEW w \in Workloads, NEW c \in Configs,
         NEW s \in Nat, NEW r \in Nat, SetPods(w, c, s, r)
  PROVE  /\ pods' \in [Workloads -> [Configs -> PodCounts]]
         /\ Total(w, c)' = s + r
         /\ \A x \in Workloads, y \in Configs : x # w \/ y # c => Total(x, y)' = Total(x, y)
<1> DEFINE n == [starting |-> s, ready |-> r]
<1>1. n \in PodCounts /\ n.starting = s /\ n.ready = r
  BY DEF PodCounts
<1>2. pods' = [pods EXCEPT ![w] = [pods[w] EXCEPT ![c] = n]]
  BY DEF SetPods
<1> HIDE DEF n
<1>3. /\ pods' \in [Workloads -> [Configs -> PodCounts]]
      /\ pods'[w][c] = n
      /\ \A x \in Workloads, y \in Configs : x # w \/ y # c => pods'[x][y] = pods[x][y]
  BY <1>1, <1>2 DEF CounterTypeOK
<1>4. QED
  BY <1>1, <1>3 DEF Total

\* Steps that move pods preserve the cleanup invariant if they create no pod
\* beyond the replicas and take none of the pods of the template in force.
LEMMA PodsStep ==
  ASSUME CleanupInv, UNCHANGED <<depVars, cacheVars, userConfig, localVars>>,
         NEW w \in Workloads, NEW c \in Configs, NEW s \in Nat, NEW r \in Nat,
         SetPods(w, c, s, r), s + r <= Replicas,
         c = template[w] => s + r >= Total(w, c)
  PROVE  CleanupInv'
<1> USE DEF CleanupInv
<1>1. /\ pods' \in [Workloads -> [Configs -> PodCounts]]
      /\ Total(w, c)' = s + r
      /\ \A x \in Workloads, y \in Configs : x # w \/ y # c => Total(x, y)' = Total(x, y)
  BY PodsEffect
<1>2. \A x \in Workloads, y \in Configs : Total(x, y) \in Nat /\ Total(x, y)' \in Nat
  BY <1>1 DEF CounterTypeOK, PodCounts, Total
<1>3. \A x \in Workloads : template[x] \in Configs => Total(x, template[x])' >= Total(x, template[x])
  BY <1>1, <1>2 DEF depVars
<1>4. CounterTypeOK' /\ UNCHANGED <<template, App, depCache, synced>>
  BY <1>1 DEF CounterTypeOK, App, depVars, cacheVars, localVars
<1>5. \A x \in Workloads : template[x] # NoConfig => template[x] \in Configs
  BY DEF CounterTypeOK, Templates
<1>6. Replicas \in Nat /\ "app" \in Workloads
  BY ConfigRolloutAssumption DEF ConfigRolloutAssumption
<1>7. \A x \in Workloads, y \in Configs : Total(x, y)' <= Replicas
  BY <1>1 DEF CountInv
<1>8. ASSUME NEW d, d.updated \in Nat, Truthful(d)
      PROVE  template["app"] # NoConfig /\ d.observed => d.updated <= Total("app", template["app"])'
  BY <1>2, <1>3, <1>4, <1>5, <1>6, <1>8 DEF Truthful
<1>9. CountInv'
  <2>1. App.updated \in Nat /\ depCache.updated \in Nat
    BY DEF CounterTypeOK, App
  <2>2. Truthful(App) /\ (synced => Truthful(depCache) /\ depCache.template = template["app"])
    BY DEF CountInv
  <2>3. QED
    BY <1>4, <1>7, <1>8, <2>1, <2>2 DEF CountInv, Truthful
<1>10. CleanupAfterUpdate'
  BY <1>2, <1>3, <1>4, <1>5, <1>6, <1>7 DEF CleanupAfterUpdate, localVars
<1>11. QED
  BY <1>4, <1>9, <1>10

\* Every step preserves the cleanup invariant, in every environment.
LEMMA CleanupStep ==
  ASSUME CleanupInv, [Next]_vars
  PROVE  CleanupInv'
<1>0. Replicas \in Nat /\ "app" \in Workloads /\ NoConfig \notin Configs
  BY ConfigRolloutAssumption DEF ConfigRolloutAssumption
<1>1. CASE \/ StartReconcile \/ ApplySecret \/ DeleteSecret \/ RequestFails
           \/ UserEdits \/ UNCHANGED vars
  <2>1. /\ UNCHANGED <<depVars, pods, cacheVars>>
        /\ pc' = "cleanup" => pc = "cleanup" /\ UNCHANGED informed
    BY <1>1 DEF StartReconcile, ApplySecret, DeleteSecret, RequestFails, UserEdits,
                Return, vars, clusterVars, localVars
  <2>2. userConfig' \in Configs /\ current' \in Templates
    BY <1>1 DEF StartReconcile, ApplySecret, DeleteSecret, RequestFails, UserEdits,
                Return, RenderedConfig, vars, clusterVars, localVars,
                CleanupInv, CounterTypeOK, Templates
  <2>3. QED
    BY <2>1, <2>2, CleanupFrame
<1>2. ASSUME NEW w \in Workloads, ApplyDeployment(w)
      PROVE  CleanupInv'
  <2>1. CASE UNCHANGED <<depVars, synced>>
    BY <1>2, <2>1, CleanupFrame DEF ApplyDeployment, CleanupInv, CounterTypeOK, cacheVars
  <2>2. CASE /\ template' = [template EXCEPT ![w] = current]
             /\ observed' = (observed /\ w # "app") /\ synced' = (synced /\ w # "app")
             /\ UNCHANGED <<updated, available>>
    <3>1. pc' = "apply" /\ UNCHANGED <<userConfig, current, pods, depCache>>
      BY <1>2 DEF ApplyDeployment
    <3>2. CounterTypeOK'
      BY <2>2, <3>1 DEF CleanupInv, CounterTypeOK
    <3>3. w # "app" => template'["app"] = template["app"]
      BY <1>0, <2>2 DEF CleanupInv, CounterTypeOK
    <3>4. CountInv'
      BY <2>2, <3>1, <3>3 DEF CleanupInv, CounterTypeOK, CountInv, Truthful, App, Total
    <3>5. CleanupAfterUpdate'
      BY <3>1 DEF CleanupAfterUpdate
    <3>6. QED
      BY <3>2, <3>4, <3>5 DEF CleanupInv
  <2>3. QED
    BY <1>2, <2>1, <2>2 DEF ApplyDeployment
<1>3. CASE CheckRollout
  <2>1. UNCHANGED <<depVars, pods, cacheVars, userConfig>> /\ current' \in Templates
    BY <1>3 DEF CheckRollout, Return, clusterVars, CleanupInv, CounterTypeOK, Templates
  <2>2. CASE Return
    BY <2>1, <2>2, CleanupFrame DEF Return, CleanupInv, CounterTypeOK
  <2>3. CASE RolledOut(SeenApp) /\ informed' = (CacheLag => synced)
    <3>1. informed' => Truthful(SeenApp) /\ SeenApp.template = template["app"]
      BY <2>3 DEF CleanupInv, CountInv, SeenApp, App
    <3>2. SeenApp.template # NoConfig => SeenApp.observed /\ SeenApp.updated = Replicas
      BY <2>3 DEF RolledOut
    <3>3. template["app"] # NoConfig =>
            /\ template["app"] \in Configs
            /\ Total("app", template["app"]) \in Nat
      BY <1>0 DEF CleanupInv, CounterTypeOK, Templates, PodCounts, Total
    <3>4. informed' /\ template["app"] # NoConfig => Total("app", template["app"]) = Replicas
      BY <1>0, <3>1, <3>2, <3>3 DEF CleanupInv, CountInv, Truthful
    <3>5. CounterTypeOK' /\ CountInv'
      BY <2>1 DEF CleanupInv, CounterTypeOK, CountInv, Truthful, App, Total, depVars, cacheVars
    <3>6. CleanupAfterUpdate'
      BY <2>1, <3>4 DEF CleanupAfterUpdate, Total, depVars
    <3>7. QED
      BY <3>5, <3>6 DEF CleanupInv
  <2>4. QED
    BY <1>3, <2>2, <2>3 DEF CheckRollout
<1>4. CASE PublishStatus
  <2>1. /\ UNCHANGED <<template, pods, pc, informed, current, userConfig, depCache, synced>>
        /\ observed' = TRUE /\ updated' = Total("app", template["app"])
        /\ template["app"] # NoConfig
    BY <1>4 DEF PublishStatus, localVars, cacheVars
  <2>2. Total("app", template["app"]) \in Nat
    BY <1>0, <2>1 DEF CleanupInv, CounterTypeOK, Templates, PodCounts, Total
  <2>3. CounterTypeOK'
    BY <2>1, <2>2 DEF CleanupInv, CounterTypeOK
  <2>4. CountInv'
    BY <2>1, <2>2 DEF CleanupInv, CountInv, Truthful, App, Total
  <2>5. CleanupAfterUpdate'
    BY <2>1 DEF CleanupInv, CleanupAfterUpdate, Total
  <2>6. QED
    BY <2>3, <2>4, <2>5 DEF CleanupInv
<1>8. CASE CacheSync
  <2>1. /\ UNCHANGED <<template, pods, pc, informed, current, userConfig, observed, updated, available>>
        /\ depCache' = App /\ App' = App
    BY <1>8 DEF CacheSync, localVars, clusterVars, depVars, App
  <2>2. CounterTypeOK'
    BY <2>1 DEF CleanupInv, CounterTypeOK, App
  <2>3. App.template = template["app"]
    BY DEF App
  <2>4. CountInv'
    BY <2>1, <2>3 DEF CleanupInv, CountInv, Truthful, Total
  <2>5. CleanupAfterUpdate'
    BY <2>1 DEF CleanupInv, CleanupAfterUpdate, Total
  <2>6. QED
    BY <2>2, <2>4, <2>5 DEF CleanupInv
<1>5. ASSUME NEW w \in Workloads, CreatePod(w)
      PROVE  CleanupInv'
  <2> DEFINE c == template[w]
  <2>1. c \in Configs /\ pods[w][c] \in PodCounts /\ UNCHANGED <<depVars, cacheVars, userConfig, localVars>>
    BY <1>5 DEF CreatePod, CleanupInv, CounterTypeOK, Templates, localVars
  <2>2. /\ pods[w][c].starting + 1 \in Nat /\ pods[w][c].ready \in Nat
        /\ pods[w][c].starting + 1 + pods[w][c].ready <= Replicas
        /\ pods[w][c].starting + 1 + pods[w][c].ready >= Total(w, c)
    BY <1>0, <1>5, <2>1 DEF CreatePod, Total, PodCounts
  <2>3. SetPods(w, c, pods[w][c].starting + 1, pods[w][c].ready)
    BY <1>5 DEF CreatePod
  <2>4. QED
    BY <2>1, <2>2, <2>3, PodsStep
<1>6. ASSUME NEW w \in Workloads, NEW c \in Configs, RemoveOldPod(w, c)
      PROVE  CleanupInv'
  <2>1. pods[w][c] \in PodCounts /\ UNCHANGED <<depVars, cacheVars, userConfig, localVars>> /\ c # template[w]
    BY <1>6 DEF RemoveOldPod, CleanupInv, CounterTypeOK, localVars
  <2>2. pods[w][c].starting + pods[w][c].ready <= Replicas
    BY DEF CleanupInv, CountInv, Total
  <2>3. CASE pods[w][c].starting > 0 /\ SetPods(w, c, pods[w][c].starting - 1, pods[w][c].ready)
    <3>1. /\ pods[w][c].starting - 1 \in Nat /\ pods[w][c].ready \in Nat
          /\ pods[w][c].starting - 1 + pods[w][c].ready <= Replicas
      BY <1>0, <2>1, <2>2, <2>3 DEF PodCounts
    <3>2. QED
      BY <2>1, <2>3, <3>1, PodsStep
  <2>4. CASE pods[w][c].ready > 0 /\ SetPods(w, c, pods[w][c].starting, pods[w][c].ready - 1)
    <3>1. /\ pods[w][c].starting \in Nat /\ pods[w][c].ready - 1 \in Nat
          /\ pods[w][c].starting + (pods[w][c].ready - 1) <= Replicas
      BY <1>0, <2>1, <2>2, <2>4 DEF PodCounts
    <3>2. QED
      BY <2>1, <2>4, <3>1, PodsStep
  <2>5. QED
    BY <1>6, <2>3, <2>4 DEF RemoveOldPod
<1>7. ASSUME NEW w \in Workloads, NEW c \in Configs, PodBecomesReady(w, c) \/ PodReplaced(w, c)
      PROVE  CleanupInv'
  <2>1. pods[w][c] \in PodCounts /\ UNCHANGED <<depVars, cacheVars, userConfig, localVars>>
    BY <1>7 DEF PodBecomesReady, PodReplaced, CleanupInv, CounterTypeOK, localVars
  <2>2. pods[w][c].starting + pods[w][c].ready <= Replicas
    BY DEF CleanupInv, CountInv, Total
  <2>3. PICK s \in Nat, r \in Nat :
          SetPods(w, c, s, r) /\ s + r = pods[w][c].starting + pods[w][c].ready
    <3>1. CASE PodBecomesReady(w, c)
      <4>1. /\ pods[w][c].starting - 1 \in Nat /\ pods[w][c].ready + 1 \in Nat
            /\ pods[w][c].starting - 1 + (pods[w][c].ready + 1) = pods[w][c].starting + pods[w][c].ready
        BY <2>1, <3>1 DEF PodBecomesReady, PodCounts
      <4>2. SetPods(w, c, pods[w][c].starting - 1, pods[w][c].ready + 1)
        BY <3>1 DEF PodBecomesReady
      <4>3. QED
        BY <4>1, <4>2
    <3>2. CASE PodReplaced(w, c)
      <4>1. /\ pods[w][c].starting + 1 \in Nat /\ pods[w][c].ready - 1 \in Nat
            /\ pods[w][c].starting + 1 + (pods[w][c].ready - 1) = pods[w][c].starting + pods[w][c].ready
        BY <2>1, <3>2 DEF PodReplaced, PodCounts
      <4>2. SetPods(w, c, pods[w][c].starting + 1, pods[w][c].ready - 1)
        BY <3>2 DEF PodReplaced
      <4>3. QED
        BY <4>1, <4>2
    <3>3. QED
      BY <1>7, <3>1, <3>2
  <2>4. s + r >= Total(w, c) /\ s + r <= Replicas
    BY <2>1, <2>2, <2>3 DEF Total, PodCounts
  <2>5. QED
    BY <2>1, <2>3, <2>4, PodsStep
<1>9. QED
  BY <1>1, <1>2, <1>3, <1>4, <1>5, <1>6, <1>7, <1>8 DEF Next, Reconcile, Controller

\* Wherever the informer's copy of quay-app has the generation in force, Reconcile
\* deletes old Secrets only after every replica has been created from the template
\* in force, however old the counters of that copy are.
THEOREM CleanupWaits == Spec => []CleanupAfterUpdate
<1>1. Init => CleanupInv
  BY CleanupInit
<1>2. CleanupInv /\ [Next]_vars => CleanupInv'
  BY CleanupStep
<1>3. CleanupInv => CleanupAfterUpdate
  BY DEF CleanupInv
<1>4. QED
  BY <1>1, <1>2, <1>3, PTL DEF Spec

-----------------------------------------------------------------------------
(* Sums of pod counts *)

\* The numbered pods are the pairs of a content and a number up to its count.
LEMMA NumberedPods ==
  ASSUME NEW S, NEW n \in [S -> Nat]
  PROVE  \A p : p \in Numbered(n) <=>
                 \E c \in S, i \in Nat : i \in 1..n[c] /\ p = <<c, i>>
BY DEF Numbered

\* Fewer contents and smaller counts make a smaller sum.
LEMMA SumMonotonic ==
  ASSUME NEW S, NEW T, S \subseteq T, NEW m \in [S -> Nat], NEW n \in [T -> Nat],
         \A c \in S : m[c] <= n[c], IsFiniteSet(Numbered(n))
  PROVE  IsFiniteSet(Numbered(m)) /\ SumOf(m) <= SumOf(n) /\ SumOf(m) \in Nat
<1>1. Numbered(m) \subseteq Numbered(n)
  <2>1. ASSUME NEW p \in Numbered(m)
        PROVE  p \in Numbered(n)
    <3>1. PICK c \in S, i \in Nat : i \in 1..m[c] /\ p = <<c, i>>
      BY NumberedPods
    <3>2. i \in 1..n[c]
      BY <3>1
    <3>3. QED
      BY <3>1, <3>2, NumberedPods
  <2>2. QED
    BY <2>1
<1>2. QED
  BY <1>1, FS_Subset, FS_CardinalityType DEF SumOf

\* One more pod of one content adds one to the sum.
LEMMA SumIncrement ==
  ASSUME NEW S, NEW m \in [S -> Nat], NEW n \in [S -> Nat], NEW c \in S,
         m[c] = n[c] + 1, \A d \in S \ {c} : m[d] = n[d], IsFiniteSet(Numbered(n))
  PROVE  IsFiniteSet(Numbered(m)) /\ SumOf(m) = SumOf(n) + 1
<1> DEFINE q == <<c, n[c] + 1>>
<1>1. q \notin Numbered(n)
  <2>1. SUFFICES ASSUME NEW d \in S, NEW i \in Nat, i \in 1..n[d], q = <<d, i>>
                 PROVE  FALSE
    BY NumberedPods
  <2>2. d = c /\ i = n[c] + 1
    BY <2>1
  <2>3. QED
    BY <2>1, <2>2
<1>2. Numbered(m) = Numbered(n) \cup {q}
  <2>1. ASSUME NEW p \in Numbered(m)
        PROVE  p \in Numbered(n) \cup {q}
    <3>1. PICK d \in S, i \in Nat : i \in 1..m[d] /\ p = <<d, i>>
      BY NumberedPods
    <3>2. CASE d = c /\ i = n[c] + 1
      BY <3>1, <3>2
    <3>3. CASE ~(d = c /\ i = n[c] + 1)
      <4>1. i \in 1..n[d]
        BY <3>1, <3>3
      <4>2. QED
        BY <3>1, <4>1, NumberedPods
    <3>4. QED
      BY <3>2, <3>3
  <2>2. ASSUME NEW p \in Numbered(n)
        PROVE  p \in Numbered(m)
    <3>1. PICK d \in S, i \in Nat : i \in 1..n[d] /\ p = <<d, i>>
      BY NumberedPods
    <3>2. i \in 1..m[d]
      BY <3>1
    <3>3. QED
      BY <3>1, <3>2, NumberedPods
  <2>3. q \in Numbered(m)
    <3>1. n[c] + 1 \in 1..m[c]
      OBVIOUS
    <3>2. QED
      BY <3>1, NumberedPods
  <2>4. QED
    BY <2>1, <2>2, <2>3
<1> HIDE DEF q
<1>3. QED
  BY <1>1, <1>2, FS_AddElement DEF SumOf

\* The pods of one content and those of others add up to no more than all pods.
LEMMA SumSplit ==
  ASSUME NEW T, NEW t \in T, NEW S, S \subseteq T \ {t},
         NEW m \in [S -> Nat], NEW n \in [T -> Nat],
         \A c \in S : m[c] = n[c], IsFiniteSet(Numbered(n))
  PROVE  SumOf(m) + n[t] <= SumOf(n)
<1> DEFINE A == Numbered(m)
           B == {t} \X (1..n[t])
<1>1. IsFiniteSet(A) /\ A \subseteq Numbered(n)
  <2>1. ASSUME NEW p \in A
        PROVE  p \in Numbered(n)
    <3>1. PICK c \in S, i \in Nat : i \in 1..m[c] /\ p = <<c, i>>
      BY NumberedPods
    <3>2. QED
      BY <3>1, NumberedPods
  <2>2. QED
    BY <2>1, FS_Subset
<1>2. B \subseteq Numbered(n)
  BY NumberedPods
<1>3. A \cap B = {}
  <2>1. SUFFICES ASSUME NEW p \in A, p \in B
                 PROVE  FALSE
    OBVIOUS
  <2>2. PICK c \in S, i \in Nat : i \in 1..m[c] /\ p = <<c, i>>
    BY NumberedPods
  <2>3. PICK j \in 1..n[t] : p = <<t, j>>
    BY <2>1
  <2>4. QED
    BY <2>2, <2>3
<1>4. IsFiniteSet(B) /\ Cardinality(B) = n[t]
  <2>1. IsFiniteSet(1..n[t]) /\ Cardinality(1..n[t]) = n[t]
    BY FS_Interval
  <2>2. IsFiniteSet({t}) /\ Cardinality({t}) = 1
    BY FS_Singleton
  <2>3. IsFiniteSet(B) /\ Cardinality(B) = 1 * n[t]
    BY <2>1, <2>2, FS_Product
  <2>4. QED
    BY <2>3
<1> HIDE DEF A, B
<1>5. Cardinality(A \cup B) = Cardinality(A) + Cardinality(B)
  <2>1. Cardinality(A \cup B) = Cardinality(A) + Cardinality(B) - Cardinality(A \cap B)
    BY <1>1, <1>4, FS_Union
  <2>2. Cardinality(A) \in Nat /\ Cardinality(B) \in Nat /\ Cardinality(A \cap B) = 0
    BY <1>1, <1>3, <1>4, FS_CardinalityType, FS_EmptySet
  <2>3. QED
    BY <2>1, <2>2
<1>6. Cardinality(A \cup B) <= Cardinality(Numbered(n))
  BY <1>1, <1>2, FS_Subset
<1>7. QED
  BY <1>4, <1>5, <1>6 DEF SumOf, A

-----------------------------------------------------------------------------
(* Type correctness *)

\* How many pods of a Deployment mount each content.
Counts(w) == [c \in Configs |-> Total(w, c)]

\* A Deployment never has more pods than its replicas and the surge.
SurgeInv ==
  \A w \in Workloads :
    IsFiniteSet(Numbered(Counts(w))) /\ AllPods(w) <= Replicas + MaxSurge

\* A reconcile under way has a Secret in hand.
HandInv == pc # "idle" => current \in Configs

RolloutInv == TypeOK /\ HandInv /\ SurgeInv

\* A Deployment's counts are naturals, and so are their sums.
LEMMA CountsType ==
  ASSUME RolloutInv, NEW w \in Workloads
  PROVE  /\ Counts(w) \in [Configs -> Nat]
         /\ \A c \in Configs : Total(w, c) \in Nat /\ Counts(w)[c] = Total(w, c)
         /\ AllPods(w) = SumOf(Counts(w)) /\ AllPods(w) \in Nat
         /\ ReadyPods(w) \in Nat
<1>1. \A c \in Configs : /\ pods[w][c].starting \in Nat /\ pods[w][c].ready \in Nat
                         /\ Total(w, c) \in Nat /\ pods[w][c].ready <= Total(w, c)
  BY DEF RolloutInv, TypeOK, PodCounts, Total
<1>2. /\ Counts(w) \in [Configs -> Nat]
      /\ \A c \in Configs : Counts(w)[c] = Total(w, c)
      /\ AllPods(w) = SumOf(Counts(w))
  BY <1>1 DEF Counts, AllPods
<1>3. IsFiniteSet(Numbered(Counts(w)))
  BY DEF RolloutInv, SurgeInv
<1>4. AllPods(w) \in Nat
  BY <1>2, <1>3, FS_CardinalityType DEF SumOf
<1>5. ReadyPods(w) \in Nat
  <2> DEFINE r == [c \in Configs |-> pods[w][c].ready]
  <2>1. r \in [Configs -> Nat] /\ \A c \in Configs : r[c] <= Counts(w)[c]
    BY <1>1, <1>2
  <2> HIDE DEF r
  <2>2. SumOf(r) \in Nat
    BY <1>2, <1>3, <2>1, SumMonotonic
  <2>3. QED
    BY <2>2 DEF r, ReadyPods
<1>6. QED
  BY <1>1, <1>2, <1>4, <1>5

\* A change of the pods of one Deployment and content keeps to the surge if it
\* adds no pod, or one pod where there is room for it.
LEMMA SurgeStep ==
  ASSUME RolloutInv, NEW w \in Workloads, NEW c \in Configs, NEW s \in Nat, NEW r \in Nat,
         SetPods(w, c, s, r),
         \/ s + r <= Total(w, c)
         \/ s + r = Total(w, c) + 1 /\ AllPods(w) < Replicas + MaxSurge
  PROVE  pods' \in [Workloads -> [Configs -> PodCounts]] /\ SurgeInv'
<1>0. Replicas \in Nat /\ MaxSurge \in Nat
  BY ConfigRolloutAssumption DEF ConfigRolloutAssumption
<1>1. /\ pods' \in [Workloads -> [Configs -> PodCounts]]
      /\ Total(w, c)' = s + r
      /\ \A x \in Workloads, y \in Configs : x # w \/ y # c => Total(x, y)' = Total(x, y)
  <2>1. CounterTypeOK
    BY DEF RolloutInv, TypeOK, CounterTypeOK, Deployments
  <2>2. QED
    BY <2>1, PodsEffect
<1>2. ASSUME NEW x \in Workloads
      PROVE  /\ IsFiniteSet(Numbered(Counts(x)')) /\ AllPods(x)' <= Replicas + MaxSurge
  <2>1. /\ Counts(x) \in [Configs -> Nat]
        /\ \A y \in Configs : Counts(x)[y] = Total(x, y) /\ Total(x, y) \in Nat
        /\ AllPods(x) = SumOf(Counts(x)) /\ AllPods(x) \in Nat
    BY CountsType
  <2>2. IsFiniteSet(Numbered(Counts(x))) /\ AllPods(x) <= Replicas + MaxSurge
    BY DEF RolloutInv, SurgeInv
  <2>3. /\ Counts(x)' \in [Configs -> Nat] /\ AllPods(x)' = SumOf(Counts(x)')
        /\ \A y \in Configs : Counts(x)'[y] = Total(x, y)'
    BY <1>1, <2>1 DEF Counts, AllPods
  <2>4. CASE x # w \/ s + r <= Total(w, c)
    <3>1. \A y \in Configs : Counts(x)'[y] <= Counts(x)[y]
      BY <1>1, <2>1, <2>3, <2>4
    <3>2. IsFiniteSet(Numbered(Counts(x)')) /\ SumOf(Counts(x)') <= SumOf(Counts(x)) /\ SumOf(Counts(x)') \in Nat
      BY <2>1, <2>2, <2>3, <3>1, SumMonotonic
    <3>3. QED
      BY <1>0, <2>1, <2>2, <2>3, <3>2
  <2>5. CASE x = w /\ s + r = Total(w, c) + 1 /\ AllPods(w) < Replicas + MaxSurge
    <3>1. Counts(x)'[c] = Counts(x)[c] + 1 /\ \A y \in Configs \ {c} : Counts(x)'[y] = Counts(x)[y]
      BY <1>1, <2>1, <2>3, <2>5
    <3>2. IsFiniteSet(Numbered(Counts(x)')) /\ SumOf(Counts(x)') = SumOf(Counts(x)) + 1
      BY <2>1, <2>2, <2>3, <3>1, SumIncrement
    <3>3. QED
      BY <1>0, <2>1, <2>3, <2>5, <3>2
  <2>6. QED
    BY <2>4, <2>5
<1>3. QED
  BY <1>1, <1>2 DEF SurgeInv

\* What the Deployment controller and the kubelet do to pods: one pod of the
\* template in force is created where there is room, and otherwise the pods of no
\* content become more.
LEMMA PodMoves ==
  ASSUME RolloutInv, NEW w \in Workloads,
         \/ CreatePod(w)
         \/ \E c \in Configs : RemoveOldPod(w, c) \/ PodBecomesReady(w, c) \/ PodReplaced(w, c)
  PROVE  \E c \in Configs, s \in Nat, r \in Nat :
           /\ SetPods(w, c, s, r)
           /\ \/ s + r <= Total(w, c)
              \/ /\ c = template[w] /\ s + r = Total(w, c) + 1
                 /\ AllPods(w) < Replicas + MaxSurge
<1>1. CASE CreatePod(w)
  <2> DEFINE c == template[w]
  <2>1. c \in Configs /\ pods[w][c] \in PodCounts
    BY <1>1 DEF CreatePod, RolloutInv, TypeOK, Templates
  <2>2. /\ pods[w][c].starting + 1 \in Nat /\ pods[w][c].ready \in Nat
        /\ (pods[w][c].starting + 1) + pods[w][c].ready = Total(w, c) + 1
    BY <2>1 DEF PodCounts, Total
  <2>3. SetPods(w, c, pods[w][c].starting + 1, pods[w][c].ready) /\ AllPods(w) < Replicas + MaxSurge
    BY <1>1 DEF CreatePod
  <2>4. QED
    BY <2>1, <2>2, <2>3
<1>2. ASSUME NEW c \in Configs, RemoveOldPod(w, c) \/ PodBecomesReady(w, c) \/ PodReplaced(w, c)
      PROVE  \E s \in Nat, r \in Nat : SetPods(w, c, s, r) /\ s + r <= Total(w, c)
  <2> DEFINE s == pods[w][c].starting
             r == pods[w][c].ready
  <2>1. s \in Nat /\ r \in Nat /\ Total(w, c) = s + r
    BY DEF RolloutInv, TypeOK, PodCounts, Total
  <2>2. CASE s > 0 /\ SetPods(w, c, s - 1, r)
    <3>1. s - 1 \in Nat /\ (s - 1) + r <= s + r
      BY <2>1, <2>2
    <3>2. QED
      BY <2>1, <2>2, <3>1
  <2>3. CASE r > 0 /\ SetPods(w, c, s, r - 1)
    <3>1. r - 1 \in Nat /\ s + (r - 1) <= s + r
      BY <2>1, <2>3
    <3>2. QED
      BY <2>1, <2>3, <3>1
  <2>4. CASE s > 0 /\ SetPods(w, c, s - 1, r + 1)
    <3>1. s - 1 \in Nat /\ r + 1 \in Nat /\ (s - 1) + (r + 1) <= s + r
      BY <2>1, <2>4
    <3>2. QED
      BY <2>1, <2>4, <3>1
  <2>5. CASE r > 0 /\ SetPods(w, c, s + 1, r - 1)
    <3>1. s + 1 \in Nat /\ r - 1 \in Nat /\ (s + 1) + (r - 1) <= s + r
      BY <2>1, <2>5
    <3>2. QED
      BY <2>1, <2>5, <3>1
  <2>6. QED
    BY <1>2, <2>2, <2>3, <2>4, <2>5 DEF RemoveOldPod, PodBecomesReady, PodReplaced
<1>3. QED
  BY <1>1, <1>2

\* The type and surge invariants hold initially: there are no pods.
LEMMA RolloutInit == Init => RolloutInv
<1>1. SUFFICES ASSUME Init
               PROVE  RolloutInv
  OBVIOUS
<1>2. TypeOK /\ HandInv
  <2>1. depCache \in Deployments
    BY <1>1 DEF Init, NoDeployment, Deployments, Templates
  <2>2. pods \in [Workloads -> [Configs -> PodCounts]]
    BY <1>1 DEF Init, PodCounts
  <2>3. observed \in BOOLEAN /\ synced \in BOOLEAN /\ deferred \in BOOLEAN /\ informed \in BOOLEAN
    BY <1>1 DEF Init
  <2>4. userConfig \in Configs /\ secrets \in SUBSET Configs /\ template \in [Workloads -> Templates]
    BY <1>1 DEF Init, Templates
  <2>5. updated \in Nat /\ available \in Nat /\ events \in 0..MaxEvents
    BY <1>1, ConfigRolloutAssumption DEF ConfigRolloutAssumption, Init
  <2>6. QED
    BY <1>1, <2>1, <2>2, <2>3, <2>4, <2>5 DEF Init, TypeOK, HandInv, Templates
<1>3. ASSUME NEW w \in Workloads
      PROVE  IsFiniteSet(Numbered(Counts(w))) /\ AllPods(w) = 0
  <2>1. Counts(w) \in [Configs -> Nat] /\ \A c \in Configs : Counts(w)[c] = 0
    BY <1>1 DEF Init, Counts, Total
  <2>2. \A p : p \notin Numbered(Counts(w))
    BY <2>1, NumberedPods
  <2>3. Numbered(Counts(w)) = {}
    BY <2>2
  <2>4. QED
    BY <2>3, FS_EmptySet DEF AllPods, SumOf, Counts
<1>4. QED
  BY <1>2, <1>3, ConfigRolloutAssumption DEF ConfigRolloutAssumption, RolloutInv, SurgeInv

\* Every step preserves them, in every environment.
LEMMA RolloutStep ==
  ASSUME RolloutInv, [Next]_vars
  PROVE  RolloutInv'
<1>0. /\ Replicas \in Nat /\ MaxSurge \in Nat /\ MaxEvents \in Nat
      /\ "app" \in Workloads /\ NoConfig \notin Configs
  BY ConfigRolloutAssumption DEF ConfigRolloutAssumption
<1>1. ASSUME UNCHANGED pods
      PROVE  SurgeInv'
  BY <1>1 DEF RolloutInv, SurgeInv, AllPods, Counts, Total
<1>2. CASE \/ StartReconcile \/ ApplySecret \/ CheckRollout \/ DeleteSecret
           \/ RequestFails \/ UserEdits \/ UNCHANGED vars
  <2> USE DEF RolloutInv, TypeOK, HandInv, clusterVars, depVars, cacheVars, localVars
  <2>1. UNCHANGED <<pods, template, observed, updated, available, depCache, synced>>
    BY <1>2 DEF StartReconcile, ApplySecret, CheckRollout, DeleteSecret, RequestFails,
                UserEdits, vars
  <2>2. userConfig' \in Configs /\ events' \in 0..MaxEvents
    BY <1>0, <1>2 DEF StartReconcile, ApplySecret, CheckRollout, DeleteSecret,
                      RequestFails, UserEdits, Event, vars
  <2>3. CASE StartReconcile
    BY <1>1, <2>1, <2>2, <2>3 DEF StartReconcile, RenderedConfig, OldConfigSecrets, Templates
  <2>4. CASE ApplySecret
    BY <1>1, <2>1, <2>2, <2>4 DEF ApplySecret, Templates
  <2>5. CASE CheckRollout
    BY <1>1, <2>1, <2>2, <2>5 DEF CheckRollout, Return, Templates
  <2>6. CASE DeleteSecret
    BY <1>1, <2>1, <2>2, <2>6 DEF DeleteSecret, Return, Templates
  <2>7. CASE RequestFails
    BY <1>1, <2>1, <2>2, <2>7 DEF RequestFails, Return, Templates
  <2>8. CASE UserEdits \/ UNCHANGED vars
    BY <1>1, <2>1, <2>2, <2>8 DEF UserEdits, vars
  <2>9. QED
    BY <1>2, <2>3, <2>4, <2>5, <2>6, <2>7, <2>8
<1>3. CASE CacheSync
  <2>1. App \in Deployments
    BY <1>0 DEF RolloutInv, TypeOK, HandInv, App, Deployments
  <2>2. QED
    BY <1>1, <1>3, <2>1 DEF CacheSync, RolloutInv, TypeOK, HandInv, clusterVars, depVars, localVars
<1>4. ASSUME NEW w \in Workloads, ApplyDeployment(w)
      PROVE  RolloutInv'
  BY <1>1, <1>4 DEF ApplyDeployment, RolloutInv, TypeOK, HandInv, depVars
<1>5. CASE PublishStatus
  <2>1. template["app"] \in Configs
    BY <1>0, <1>5 DEF PublishStatus, RolloutInv, TypeOK, HandInv, Templates
  <2>2. Total("app", template["app"]) \in Nat /\ ReadyPods("app") \in Nat
    BY <1>0, <2>1, CountsType
  <2>3. QED
    BY <1>1, <1>5, <2>2 DEF PublishStatus, RolloutInv, TypeOK, HandInv, cacheVars, localVars
<1>6. ASSUME NEW w \in Workloads,
             CreatePod(w) \/ \E c \in Configs : RemoveOldPod(w, c) \/ PodBecomesReady(w, c) \/ PodReplaced(w, c)
      PROVE  RolloutInv'
  <2>1. /\ UNCHANGED <<userConfig, secrets, depVars, cacheVars, localVars>>
        /\ events' \in 0..MaxEvents
    BY <1>0, <1>6 DEF CreatePod, RemoveOldPod, PodBecomesReady, PodReplaced, Event, RolloutInv, TypeOK, HandInv
  <2>2. pods' \in [Workloads -> [Configs -> PodCounts]] /\ SurgeInv'
    BY <1>6, PodMoves, SurgeStep
  <2>3. QED
    BY <2>1, <2>2 DEF RolloutInv, TypeOK, HandInv, depVars, cacheVars, localVars
<1>7. QED
  BY <1>2, <1>3, <1>4, <1>5, <1>6 DEF Next, Reconcile, Controller

\* ConfigRollout is type correct, for every set of configurations and Deployments,
\* every number of replicas and every surge, with cache lag and deferral.
THEOREM TypeCorrect == Spec => []TypeOK
<1>1. Init => RolloutInv
  BY RolloutInit
<1>2. RolloutInv /\ [Next]_vars => RolloutInv'
  BY RolloutStep
<1>3. RolloutInv => TypeOK
  BY DEF RolloutInv
<1>4. QED
  BY <1>1, <1>2, <1>3, PTL DEF Spec

-----------------------------------------------------------------------------
(* Pods whose Secret is gone *)

StrandedInv == RolloutInv /\ SecretInv /\ CleanupInv

\* The counts of the pods of quay-app whose Secret is gone.
StrandedCounts == [c \in Configs \ secrets |-> Total("app", c)]

\* The stranded pods are some of the pods of quay-app.
LEMMA StrandedType ==
  ASSUME RolloutInv
  PROVE  /\ StrandedCounts \in [Configs \ secrets -> Nat]
         /\ \A c \in Configs \ secrets : StrandedCounts[c] = Total("app", c)
         /\ Stranded("app") = SumOf(StrandedCounts) /\ Stranded("app") \in Nat
         /\ IsFiniteSet(Numbered(StrandedCounts))
<1>1. /\ Counts("app") \in [Configs -> Nat]
      /\ \A c \in Configs : Total("app", c) \in Nat /\ Counts("app")[c] = Total("app", c)
      /\ IsFiniteSet(Numbered(Counts("app")))
  BY CountsType, ConfigRolloutAssumption DEF ConfigRolloutAssumption, RolloutInv, SurgeInv
<1>2. /\ StrandedCounts \in [Configs \ secrets -> Nat]
      /\ \A c \in Configs \ secrets : StrandedCounts[c] = Total("app", c)
  BY <1>1 DEF StrandedCounts
<1>3. /\ \A c \in Configs \ secrets : StrandedCounts[c] <= Counts("app")[c]
      /\ Configs \ secrets \subseteq Configs
  BY <1>1, <1>2
<1>4. IsFiniteSet(Numbered(StrandedCounts)) /\ SumOf(StrandedCounts) \in Nat
  BY <1>1, <1>2, <1>3, SumMonotonic
<1>5. QED
  BY <1>2, <1>4 DEF Stranded, StrandedCounts

\* No more pods are stranded after a step that deletes no Secret and creates no
\* pod of a content without Secret.
LEMMA StrandedFrame ==
  ASSUME RolloutInv, RolloutInv', secrets \subseteq secrets',
         \A c \in Configs \ secrets : Total("app", c)' <= Total("app", c)
  PROVE  Stranded("app")' <= Stranded("app")
<1> DEFINE m == StrandedCounts'
<1>1. /\ StrandedCounts \in [Configs \ secrets -> Nat]
      /\ \A c \in Configs \ secrets : StrandedCounts[c] = Total("app", c)
      /\ Stranded("app") = SumOf(StrandedCounts) /\ Stranded("app") \in Nat
      /\ IsFiniteSet(Numbered(StrandedCounts))
  BY StrandedType
<1>2. \A c \in Configs : Total("app", c)' \in Nat
  BY ConfigRolloutAssumption DEF ConfigRolloutAssumption, RolloutInv, TypeOK, PodCounts, Total
<1>3. /\ m \in [Configs \ secrets' -> Nat]
      /\ \A c \in Configs \ secrets' : m[c] = Total("app", c)'
      /\ Stranded("app")' = SumOf(m)
  BY <1>2 DEF StrandedCounts, Stranded
<1> HIDE DEF m
<1>4. /\ Configs \ secrets' \subseteq Configs \ secrets
      /\ \A c \in Configs \ secrets' : m[c] <= StrandedCounts[c]
  BY <1>1, <1>3
<1>5. SumOf(m) <= SumOf(StrandedCounts) /\ SumOf(m) \in Nat
  BY <1>1, <1>3, <1>4, SumMonotonic
<1>6. QED
  BY <1>1, <1>3, <1>5

\* A cleanup that was not misled strands no more than the surge: every replica asked
\* for has been created from the template in force, whose Secret stays.
LEMMA StrandedCleanup ==
  ASSUME RolloutInv, RolloutInv', SecretInv, CleanupInv, DeleteSecret, informed, ~deferred
  PROVE  Stranded("app")' <= MaxSurge
<1> DEFINE t == template["app"]
           n == Counts("app")
           m == StrandedCounts'
<1>0. "app" \in Workloads /\ Replicas \in Nat /\ MaxSurge \in Nat /\ NoConfig \notin Configs
  BY ConfigRolloutAssumption DEF ConfigRolloutAssumption
<1>1. t \in Configs /\ t \in secrets' /\ Total("app", t) = Replicas
  <2>1. t = current /\ current \in Configs \ previous /\ current \in secrets /\ pc = "cleanup"
    BY <1>0 DEF DeleteSecret, SecretInv, PassInv
  <2>2. t \in secrets'
    BY <2>1 DEF DeleteSecret
  <2>3. QED
    BY <1>0, <2>1, <2>2 DEF CleanupInv, CleanupAfterUpdate
<1>2. /\ n \in [Configs -> Nat]
      /\ \A c \in Configs : Total("app", c) \in Nat /\ n[c] = Total("app", c)
      /\ AllPods("app") = SumOf(n) /\ AllPods("app") \in Nat
  BY <1>0, CountsType
<1>3. IsFiniteSet(Numbered(n)) /\ AllPods("app") <= Replicas + MaxSurge
  BY <1>0 DEF RolloutInv, SurgeInv
<1>4. /\ m \in [Configs \ secrets' -> Nat]
      /\ \A c \in Configs \ secrets' : m[c] = n[c]
      /\ Stranded("app")' = SumOf(m)
  BY <1>2 DEF DeleteSecret, StrandedCounts, Stranded, Total
<1> HIDE DEF t, n, m
<1>5. Configs \ secrets' \subseteq Configs \ {t} /\ n[t] = Replicas
  BY <1>1, <1>2 DEF t
<1>6. SumOf(m) + n[t] <= SumOf(n)
  BY <1>1, <1>2, <1>3, <1>4, <1>5, SumSplit
<1>7. SumOf(m) \in Nat
  <2>1. Configs \ secrets' \subseteq Configs /\ \A c \in Configs \ secrets' : m[c] <= n[c]
    BY <1>2, <1>4
  <2>2. QED
    BY <1>2, <1>3, <1>4, <2>1, SumMonotonic
<1>8. QED
  BY <1>0, <1>2, <1>3, <1>4, <1>5, <1>6, <1>7

\* What a step does to the number of stranded pods.
FewMoreStranded ==
  \/ Stranded("app")' <= MaxSurge \/ Stranded("app")' <= Stranded("app")
  \/ pc = "cleanup" /\ (~informed \/ deferred)
  \/ template["app"] \notin secrets

\* Secrets are deleted by a cleanup only, and pods created for the template only.
LEMMA StrandedStep ==
  ASSUME StrandedInv, StrandedInv', [Next]_vars
  PROVE  FewMoreStranded
<1>0. "app" \in Workloads
  BY ConfigRolloutAssumption DEF ConfigRolloutAssumption
<1>1. \A c \in Configs : Total("app", c) \in Nat
  BY <1>0, CountsType DEF StrandedInv
<1>2. CASE DeleteSecret
  <2>1. CASE informed /\ ~deferred
    BY <1>2, <2>1, StrandedCleanup DEF StrandedInv, FewMoreStranded
  <2>2. CASE ~informed \/ deferred
    BY <1>2, <2>2 DEF DeleteSecret, FewMoreStranded
  <2>3. QED
    BY <2>1, <2>2
<1>3. CASE \/ StartReconcile \/ ApplySecret \/ CheckRollout \/ RequestFails
           \/ UserEdits \/ CacheSync \/ PublishStatus \/ UNCHANGED vars
           \/ \E w \in Workloads : ApplyDeployment(w)
  <2>1. secrets \subseteq secrets' /\ UNCHANGED pods
    BY <1>3 DEF StartReconcile, ApplySecret, CheckRollout, RequestFails, UserEdits,
                CacheSync, ApplyDeployment, PublishStatus, vars, clusterVars
  <2>2. \A c \in Configs : Total("app", c)' = Total("app", c)
    BY <2>1 DEF Total
  <2>3. Stranded("app")' <= Stranded("app")
    BY <1>1, <2>1, <2>2, StrandedFrame DEF StrandedInv
  <2>4. QED
    BY <2>3 DEF FewMoreStranded
<1>4. ASSUME NEW w \in Workloads,
             \/ CreatePod(w)
             \/ \E c \in Configs : RemoveOldPod(w, c) \/ PodBecomesReady(w, c) \/ PodReplaced(w, c)
      PROVE  FewMoreStranded
  <2>1. UNCHANGED secrets
    BY <1>4 DEF CreatePod, RemoveOldPod, PodBecomesReady, PodReplaced
  <2>2. PICK c \in Configs, s \in Nat, r \in Nat :
          SetPods(w, c, s, r) /\ (s + r <= Total(w, c) \/ c = template[w])
    BY <1>4, PodMoves DEF StrandedInv
  <2>3. /\ Total(w, c)' = s + r
        /\ \A x \in Workloads, y \in Configs : x # w \/ y # c => Total(x, y)' = Total(x, y)
    BY <2>2, PodsEffect DEF StrandedInv, CleanupInv
  <2>4. CASE template["app"] \in secrets
    <3>1. \A y \in Configs \ secrets : Total("app", y)' <= Total("app", y)
      BY <1>0, <1>1, <2>2, <2>3, <2>4
    <3>2. Stranded("app")' <= Stranded("app")
      BY <2>1, <3>1, StrandedFrame DEF StrandedInv
    <3>3. QED
      BY <3>2 DEF FewMoreStranded
  <2>5. QED
    BY <2>4 DEF FewMoreStranded
<1>5. QED
  BY <1>2, <1>3, <1>4 DEF Next, Reconcile, Controller

\* However old the informer's copies are and whatever fails, more pods of quay-app
\* than the surge lose their Secret only to a cleanup whose check saw an older
\* generation, or in consequence of a pass that deferred the workloads.
THEOREM FewStranded == Spec => StrandedBySurge
<1>1. Init => StrandedInv
  BY RolloutInit, SecretInit, CleanupInit DEF StrandedInv
<1>2. StrandedInv /\ [Next]_vars => StrandedInv'
  BY RolloutStep, SecretStep, CleanupStep DEF StrandedInv
<1>3. StrandedInv /\ StrandedInv' /\ [Next]_vars => FewMoreStranded
  BY StrandedStep
<1>4. [][FewMoreStranded]_vars => StrandedBySurge
  BY PTL DEF FewMoreStranded, StrandedBySurge
<1>5. QED
  BY <1>1, <1>2, <1>3, <1>4, PTL DEF Spec
=============================================================================
