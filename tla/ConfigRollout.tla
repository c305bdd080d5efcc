--------------------------- MODULE ConfigRollout ---------------------------
(***************************************************************************)
(* Rendered configuration Secrets and the rollout of the Deployments that  *)
(* mount them, from controllers/quay/quayregistry_controller.go.           *)
(*                                                                         *)
(* Kustomize names the rendered config Secret after a hash of its content, *)
(* so every change of the user's configuration creates a new Secret and    *)
(* changes the pod template of quay-app and quay-mirror.  Reconcile lists  *)
(* the rendered Secrets, applies the new objects, and deletes the old      *)
(* Secrets once the quay-app Deployment, as the informer cache shows it,   *)
(* passes quayAppDeploymentRolledOut.                                      *)
(*                                                                         *)
(* A Secret is identified with the content it is named after.  Pods are    *)
(* counted per Deployment and Secret.  The Deployment controller (not part *)
(* of the repository) is modelled from the fields Reconcile reads, with    *)
(* the RollingUpdate parameters the manifests ask for or default to.       *)
(***************************************************************************)
EXTENDS Integers, FiniteSets

CONSTANTS
  Configs,      \* contents of the rendered configuration
  NoConfig,     \* template of a Deployment that does not exist
  Workloads,    \* Deployments that mount the Secret: "app" and maybe "mirror"
  Replicas,     \* replicas each Deployment asks for
  MaxSurge,     \* rollingUpdate.maxSurge
  MaxUnavailable, \* rollingUpdate.maxUnavailable
  MaxEvents,    \* bound: edits of the user, failures, deferrals
  CacheLag,     \* does the informer's copy of quay-app lag behind?
  Deferral      \* may workloads be deferred (database or storage not ready)?

ASSUME ConfigRolloutAssumption ==
  /\ NoConfig \notin Configs
  /\ "app" \in Workloads
  /\ Replicas \in Nat \ {0} /\ MaxEvents \in Nat
  /\ MaxSurge \in Nat \ {0} /\ MaxUnavailable \in Nat
  /\ CacheLag \in BOOLEAN /\ Deferral \in BOOLEAN

VARIABLES
  userConfig,  \* content the user's config bundle renders to
  secrets,     \* rendered Secrets that exist
  template,    \* spec of each Deployment: the Secret its pods mount
  observed,    \* status of quay-app: observedGeneration is the generation
  updated,     \* status of quay-app: updatedReplicas
  available,   \* status of quay-app: availableReplicas
  depCache,    \* quay-app as the informer cache has it
  synced,      \* history: depCache has the generation in force
  pods,        \* pods per Deployment and Secret: starting and ready
  events,      \* edits, failures and deferrals so far
  pc,          \* where Reconcile is
  current,     \* Reconcile: currentConfigSecretName
  previous,    \* Reconcile: previousSecrets
  todo,        \* Reconcile: Deployments still to be applied
  deferred,    \* Reconcile: filterDeferredWorkloads dropped the Deployments
  informed     \* history: the copy the rollout check saw had the generation in force

depVars     == <<template, observed, updated, available>>
clusterVars == <<secrets, depVars, pods>>
cacheVars   == <<depCache, synced>>
localVars   == <<pc, current, previous, todo, deferred, informed>>
vars == <<userConfig, clusterVars, cacheVars, events, localVars>>

Templates   == Configs \cup {NoConfig}
Deployments == [template : Templates, observed : BOOLEAN, updated : Nat, available : Nat]
PodCounts   == [starting : Nat, ready : Nat]

NoDeployment == [template |-> NoConfig, observed |-> TRUE, updated |-> 0, available |-> 0]

App == [template |-> template["app"], observed |-> observed,
        updated  |-> updated, available |-> available]

\* The sum of the counts n: as many pods as Numbered(n) has, which numbers the
\* pods of each content from one.
Numbered(n) == UNION {{c} \X (1..n[c]) : c \in DOMAIN n}
SumOf(n)    == Cardinality(Numbered(n))

Total(w, c)  == pods[w][c].starting + pods[w][c].ready
AllPods(w)   == SumOf([c \in Configs |-> Total(w, c)])
ReadyPods(w) == SumOf([c \in Configs |-> pods[w][c].ready])

TypeOK ==
  /\ userConfig \in Configs
  /\ secrets \in SUBSET Configs
  /\ template \in [Workloads -> Templates]
  /\ observed \in BOOLEAN /\ updated \in Nat /\ available \in Nat
  /\ depCache \in Deployments /\ synced \in BOOLEAN
  /\ pods \in [Workloads -> [Configs -> PodCounts]]
  /\ events \in 0..MaxEvents
  /\ pc \in {"idle", "secret", "apply", "cleanup"}
  /\ current \in Templates /\ previous \in SUBSET Configs /\ todo \in SUBSET Workloads
  /\ deferred \in BOOLEAN /\ informed \in BOOLEAN

Init ==
  /\ userConfig \in Configs
  /\ secrets = {}
  /\ template = [w \in Workloads |-> NoConfig]
  /\ observed = TRUE /\ updated = 0 /\ available = 0
  /\ depCache = NoDeployment /\ synced = TRUE
  /\ pods = [w \in Workloads |-> [c \in Configs |-> [starting |-> 0, ready |-> 0]]]
  /\ events = 0
  /\ pc = "idle" /\ current = NoConfig /\ previous = {} /\ todo = {}
  /\ deferred = FALSE /\ informed = FALSE

Event == events < MaxEvents /\ events' = events + 1

-----------------------------------------------------------------------------
(* Reconcile *)

\* Mutant: the Secret about to be applied is not kept off the list.
OldConfigSecretsAll(c) == secrets

\* GetOldConfigBundleSecrets without the Secret the objects are rendered with.
OldConfigSecrets(c) == secrets \ {c}

Return ==
  /\ pc' = "idle" /\ current' = NoConfig /\ previous' = {} /\ todo' = {}
  /\ deferred' = FALSE /\ informed' = FALSE

\* Mutant: the objects are rendered before the config bundle has been read.
RenderedConfigEmpty == NoConfig

\* The content, and so the name, of the Secret Inflate renders.
RenderedConfig == userConfig

\* Inflate, the list of old Secrets and filterDeferredWorkloads; quay-app and
\* quay-mirror are not infrastructure components.
StartReconcile ==
  /\ pc = "idle"
  /\ current' = RenderedConfig
  /\ previous' = OldConfigSecrets(RenderedConfig)
  /\ \/ todo' = Workloads /\ deferred' = FALSE /\ UNCHANGED events
     \/ todo' = {} /\ deferred' = TRUE /\ Deferral /\ Event
  /\ pc' = "secret"
  /\ UNCHANGED <<userConfig, clusterVars, cacheVars, informed>>

\* EnsureCreationOrder puts Secrets before Deployments.
ApplySecret ==
  /\ pc = "secret"
  /\ secrets' = secrets \cup {current}
  /\ pc' = "apply"
  /\ UNCHANGED <<userConfig, depVars, pods, cacheVars, events, current, previous, todo, deferred, informed>>

\* Mutant: Deployments are created but not updated.
ChangesTemplateIfNew(w) == template[w] = NoConfig

\* Server-side apply raises the generation only when the template changes.
ChangesTemplate(w) == template[w] # current

ApplyDeployment(w) ==
  /\ pc = "apply" /\ w \in todo
  /\ \/ /\ ChangesTemplate(w)
        /\ template' = [template EXCEPT ![w] = current]
        /\ observed' = (observed /\ w # "app") /\ synced' = (synced /\ w # "app")
        /\ UNCHANGED <<updated, available>>
     \/ ~ChangesTemplate(w) /\ UNCHANGED <<depVars, synced>>
  /\ todo' = todo \ {w}
  /\ UNCHANGED <<userConfig, secrets, pods, depCache, events, pc, current, previous, deferred, informed>>

\* Mutant: the guard on status.observedGeneration is missing.
RolledOutUnobserved(d) ==
  d.template # NoConfig => d.updated = Replicas /\ d.available = Replicas

\* Mutant: the availability of the registry is taken for its rollout.
RolledOutAvailable(d) ==
  d.template # NoConfig => d.observed /\ d.available = Replicas

\* Mutant: off by one, waits for more updated replicas than are asked for.
RolledOutNever(d) ==
  d.template # NoConfig => d.observed /\ d.updated > Replicas

\* quayAppDeploymentRolledOut; a Deployment that does not exist passes.
RolledOut(d) ==
  d.template # NoConfig =>
    /\ d.observed
    /\ d.updated = Replicas /\ d.available = Replicas

\* r.Get of quay-app: the manager's client reads it from the informer cache.
SeenApp == IF CacheLag THEN depCache ELSE App

CheckRollout ==
  /\ pc = "apply" /\ todo = {}
  /\ \/ /\ previous # {} /\ RolledOut(SeenApp)
        /\ pc' = "cleanup" /\ informed' = (CacheLag => synced)
        /\ UNCHANGED <<current, previous, todo, deferred>>
     \/ /\ previous = {} \/ ~RolledOut(SeenApp)
        /\ Return
  /\ UNCHANGED <<userConfig, clusterVars, cacheVars, events>>

\* One Delete of cleanupPreviousSecrets.
DeleteSecret ==
  /\ pc = "cleanup"
  /\ \E s \in previous :
       /\ secrets' = secrets \ {s}
       /\ IF previous = {s}
            THEN Return
            ELSE /\ previous' = previous \ {s}
                 /\ UNCHANGED <<pc, current, todo, deferred, informed>>
  /\ UNCHANGED <<userConfig, depVars, pods, cacheVars, events>>

\* A failed request makes Reconcile return, or ends cleanupPreviousSecrets.
RequestFails ==
  /\ pc # "idle"
  /\ Event
  /\ Return
  /\ UNCHANGED <<userConfig, clusterVars, cacheVars>>

-----------------------------------------------------------------------------
(* Kubernetes and the user *)

UserEdits ==
  /\ Event
  /\ userConfig' \in Configs \ {userConfig}
  /\ UNCHANGED <<clusterVars, cacheVars, localVars>>

CacheSync ==
  /\ CacheLag /\ (~synced \/ depCache # App)
  /\ depCache' = App /\ synced' = TRUE
  /\ UNCHANGED <<userConfig, clusterVars, events, localVars>>

\* The Deployment controller publishes its counters for the template it sees:
\* updatedReplicas of that template, availableReplicas over all templates.
\* Reconcile reads them of quay-app only.
PublishStatus ==
  /\ template["app"] # NoConfig
  /\ observed' = TRUE
  /\ updated' = Total("app", template["app"])
  /\ available' = ReadyPods("app")
  /\ <<observed, updated, available>>' # <<observed, updated, available>>
  /\ UNCHANGED <<userConfig, secrets, template, pods, cacheVars, events, localVars>>

SetPods(w, c, starting, ready) ==
  pods' = [pods EXCEPT ![w][c] = [starting |-> starting, ready |-> ready]]

CreatePod(w) ==
  /\ template[w] # NoConfig
  /\ AllPods(w) < Replicas + MaxSurge /\ Total(w, template[w]) < Replicas
  /\ SetPods(w, template[w], pods[w][template[w]].starting + 1, pods[w][template[w]].ready)
  /\ UNCHANGED <<userConfig, secrets, depVars, cacheVars, events, localVars>>

\* Pods of an old template go when they are not ready or not needed.
RemoveOldPod(w, c) ==
  /\ template[w] \notin {NoConfig, c}
  /\ \/ /\ pods[w][c].starting > 0
        /\ SetPods(w, c, pods[w][c].starting - 1, pods[w][c].ready)
     \/ /\ pods[w][c].ready > 0 /\ ReadyPods(w) > Replicas - MaxUnavailable
        /\ SetPods(w, c, pods[w][c].starting, pods[w][c].ready - 1)
  /\ UNCHANGED <<userConfig, secrets, depVars, cacheVars, events, localVars>>

\* The kubelet can mount the config volume only while the Secret exists.
PodBecomesReady(w, c) ==
  /\ pods[w][c].starting > 0 /\ c \in secrets
  /\ SetPods(w, c, pods[w][c].starting - 1, pods[w][c].ready + 1)
  /\ UNCHANGED <<userConfig, secrets, depVars, cacheVars, events, localVars>>

\* A pod is evicted; its ReplicaSet replaces it.
PodReplaced(w, c) ==
  /\ pods[w][c].ready > 0
  /\ Event
  /\ SetPods(w, c, pods[w][c].starting + 1, pods[w][c].ready - 1)
  /\ UNCHANGED <<userConfig, secrets, depVars, cacheVars, localVars>>

-----------------------------------------------------------------------------

Reconcile ==
  \/ StartReconcile \/ ApplySecret \/ CheckRollout \/ DeleteSecret
  \/ \E w \in Workloads : ApplyDeployment(w)

Controller(w) ==
  \/ CreatePod(w)
  \/ \E c \in Configs : RemoveOldPod(w, c) \/ PodBecomesReady(w, c)

Next ==
  \/ Reconcile \/ RequestFails
  \/ UserEdits \/ CacheSync \/ PublishStatus
  \/ \E w \in Workloads : Controller(w) \/ \E c \in Configs : PodReplaced(w, c)

Spec == Init /\ [][Next]_vars

\* Reconcile is requeued for ever; the controllers do their work.
Fairness ==
  /\ WF_vars(Reconcile) /\ WF_vars(CacheSync) /\ WF_vars(PublishStatus)
  /\ \A w \in Workloads :
       /\ WF_vars(CreatePod(w))
       /\ \A c \in Configs : WF_vars(RemoveOldPod(w, c)) /\ WF_vars(PodBecomesReady(w, c))

FairSpec == Spec /\ Fairness

-----------------------------------------------------------------------------
(* Properties *)

\* The Secret that a Deployment's pod template mounts exists, so every pod the
\* rollout still has to create can start: Reconcile creates it before it changes
\* the template and never has it on the list of Secrets to delete.
TemplateSecretExists ==
  \A w \in Workloads : template[w] \in secrets \cup {NoConfig}

\* A Secret that some template mounts is taken away only by a pass that deferred
\* the workloads: the list of old Secrets, made before the objects are applied,
\* is still right when cleanupPreviousSecrets works through it, whatever was
\* edited in between and whatever the informer cache shows.
MountedSecretKept ==
  [][\A w \in Workloads :
       template'[w] \in Configs \ secrets' =>
         deferred \/ (template[w] = template'[w] /\ template[w] \notin secrets)]_vars

\* "This ensures every running pod has successfully mounted the new secret before
\* we remove the old one" (Reconcile, on the check of quayAppDeploymentRolledOut):
\* when the check lets the deletion of the old Secrets begin every ready pod, of
\* quay-app and of quay-mirror, mounts the new one, at least when the informer has
\* a copy of quay-app (a Deployment that is not found passes on purpose).
CleanupAfterMount ==
  [][pc = "apply" /\ pc' = "cleanup" /\ SeenApp.template # NoConfig =>
       \A w \in Workloads, c \in Configs \ {current} : pods[w][c].ready = 0]_vars

\* Where the informer's copy of quay-app had the generation in force, Reconcile
\* starts deleting old Secrets only when every replica quay-app asks for has been
\* created from the template in force, although the counters it compares are as
\* old as that copy (the purpose of observedGeneration and updatedReplicas in
\* quayAppDeploymentRolledOut).
CleanupAfterUpdate ==
  pc = "cleanup" /\ informed /\ template["app"] # NoConfig =>
    Total("app", template["app"]) = Replicas

\* The pods of a Deployment whose Secret is gone.
Stranded(w) == SumOf([c \in Configs \ secrets |-> Total(w, c)])

\* More pods of quay-app than the surplus pods of a rollout lose their Secret only
\* to a cleanup whose check saw an older generation of quay-app, or in a pass that
\* deferred the workloads, or by pods created for a template whose Secret such a
\* pass had taken before.
StrandedBySurge ==
  [][\/ Stranded("app")' <= MaxSurge \/ Stranded("app")' <= Stranded("app")
     \/ pc = "cleanup" /\ (~informed \/ deferred)
     \/ template["app"] \notin secrets]_vars

\* Old Secrets do not pile up: in the end only the Secret of the user's last
\* configuration is left.
OldSecretsGo == <>[](secrets = {userConfig})

\* In the end every pod of every Deployment is ready with the last configuration.
RolloutCompletes ==
  <>[](\A w \in Workloads : /\ pods[w][userConfig].ready = Replicas
                            /\ AllPods(w) = Replicas)
=============================================================================
