----------------------------- MODULE Finalizer -----------------------------
(***************************************************************************)
(* What registries share and who removes it: the monitoring label of a     *)
(* namespace, set by the reconcile of every registry in it, and the Grafana*)
(* ConfigMap in openshift-config-managed, whose name holds the name of the *)
(* registry but not its namespace (controllers/quay,                       *)
(* quayregistry_controller.go).  The finalizer, added at the end of the    *)
(* first complete reconcile, has them removed with the registry.           *)
(*                                                                         *)
(* One worker reconciles all registries; one step is one request.          *)
(* QuayRegistries are read from the API server, Namespaces and ConfigMaps  *)
(* from the informer cache.  Of a pass only these objects are kept; it may *)
(* stop after them for any of the reasons other modules are about, and     *)
(* stops before them while the registry is blocked: an invalid             *)
(* configuration, an upgrade that does not end, an object that is refused. *)
(***************************************************************************)
EXTENDS Integers

CONSTANTS
  Registries,   \* pairs of a namespace and a name
  Monitored,    \* registries whose monitoring component is managed
  Labelled,     \* namespaces to which the user has given the monitoring label
  NoNamespace,  \* no ConfigMap
  NoRegistry,   \* no registry is being reconciled
  MaxEvents     \* bound: failures and the user's doings in a behaviour

Namespaces == {r[1] : r \in Registries}
Names      == {r[2] : r \in Registries}

ASSUME ConstantsAssumption ==
  /\ \A r \in Registries : r = <<r[1], r[2]>>
  /\ Monitored \subseteq Registries /\ Labelled \subseteq Namespaces
  /\ NoNamespace \notin Namespaces /\ NoRegistry \notin Registries
  /\ MaxEvents \in Nat

VARIABLES
  allNamespaces, \* no WatchNamespace: monitoring is supported; never changes
  live,          \* registries that exist and are not flagged for deletion
  flagged,       \* registries flagged for deletion
  finalizer,     \* registries that carry the finalizer
  blocked,       \* registries whose rollout is blocked
  labels,        \* per namespace: the monitoring and the managed label
  dashboard,     \* per name: the namespace the ConfigMap shows
  labelsSeen,    \* the Namespaces in the informer cache
  dashboardSeen, \* the ConfigMaps in the informer cache
  escaped,       \* history: namespaces and names a cleanup could not reach
  events,        \* failures and the user's doings so far
  pc,            \* where the worker is
  at,            \* the registry it reconciles
  touched,       \* has that registry been changed since it was read?
  copy           \* the labels of its Namespace as read

sharedVars   == <<labels, dashboard>>
cacheVars    == <<labelsSeen, dashboardSeen>>
registryVars == <<live, flagged, finalizer, blocked>>
localVars    == <<pc, at, copy>>
vars == <<allNamespaces, registryVars, sharedVars, cacheVars, escaped, events, localVars, touched>>

Labels   == [monitoring : BOOLEAN, managed : BOOLEAN]
NoLabels == [monitoring |-> FALSE, managed |-> FALSE]

TypeOK ==
  /\ allNamespaces \in BOOLEAN
  /\ live \subseteq Registries /\ flagged \subseteq finalizer
  /\ finalizer \subseteq live \cup flagged /\ live \cap flagged = {}
  /\ blocked \subseteq Registries
  /\ labels \in [Namespaces -> Labels] /\ labelsSeen \in [Namespaces -> Labels]
  /\ dashboard \in [Names -> Namespaces \cup {NoNamespace}]
  /\ dashboardSeen \in [Names -> Namespaces \cup {NoNamespace}]
  /\ escaped \subseteq Namespaces \cup Names
  /\ events \in 0..MaxEvents
  /\ pc \in {"idle", "dashboard", "namespace", "label", "finish",
             "cleanup", "list", "unlabel", "lookup", "drop", "release"}
  /\ at \in Registries \cup {NoRegistry} /\ (at = NoRegistry <=> pc = "idle")
  /\ touched \in BOOLEAN /\ copy \in Labels

\* The registries were created while the operator was not running.
Init ==
  /\ allNamespaces \in BOOLEAN
  /\ live = Registries /\ flagged = {} /\ finalizer = {} /\ blocked = {}
  /\ labels = [n \in Namespaces |-> [NoLabels EXCEPT !.monitoring = (n \in Labelled)]]
  /\ labelsSeen = labels
  /\ dashboard = [a \in Names |-> NoNamespace] /\ dashboardSeen = dashboard
  /\ escaped = {} /\ events = 0
  /\ pc = "idle" /\ at = NoRegistry /\ touched = FALSE /\ copy = NoLabels

-----------------------------------------------------------------------------
(* Reconcile of a registry that is not flagged *)

Event  == events < MaxEvents /\ events' = events + 1
Return == pc' = "idle" /\ at' = NoRegistry /\ touched' = FALSE /\ copy' = NoLabels
GoTo(l) == pc' = l /\ UNCHANGED <<at, touched, copy>>

Ns   == at[1]
Name == at[2]

StartReconcile(r) ==
  /\ pc = "idle"
  /\ \/ r \in live /\ pc' = IF allNamespaces THEN "dashboard" ELSE "finish"
     \/ r \in flagged /\ pc' = IF allNamespaces THEN "cleanup" ELSE "release"
  /\ at' = r
  /\ UNCHANGED <<allNamespaces, registryVars, sharedVars, cacheVars, escaped, events, touched, copy>>

\* The pass of a blocked registry ends before the dashboard, or before the label.
StopBlocked ==
  /\ pc \in {"dashboard", "namespace"} /\ at \in blocked
  /\ Return
  /\ UNCHANGED <<allNamespaces, registryVars, sharedVars, cacheVars, escaped, events>>

\* createOrUpdateObject; the ConfigMap loses its owner reference and shows the
\* namespace of this registry.
ApplyDashboard ==
  /\ pc = "dashboard"
  /\ dashboard' = IF at \in Monitored THEN [dashboard EXCEPT ![Name] = Ns] ELSE dashboard
  /\ GoTo("namespace")
  /\ UNCHANGED <<allNamespaces, registryVars, labels, cacheVars, escaped, events>>

\* patchNamespaceForMonitoring, whether or not monitoring is managed.
GetNamespace ==
  /\ pc = "namespace"
  /\ \/ labelsSeen[Ns].monitoring /\ GoTo("finish")
     \/ /\ ~labelsSeen[Ns].monitoring
        /\ pc' = "label" /\ copy' = labelsSeen[Ns]
        /\ UNCHANGED <<at, touched>>
  /\ UNCHANGED <<allNamespaces, registryVars, sharedVars, cacheVars, escaped, events>>

\* Mutant: only the label of the operator is set.
PatchLabelsManagedOnly ==
  /\ pc = "label"
  /\ labels' = [labels EXCEPT ![Ns].managed = TRUE]
  /\ GoTo("finish")
  /\ UNCHANGED <<allNamespaces, registryVars, dashboard, cacheVars, escaped, events>>

\* A merge patch sends what differs from the copy.
PatchLabels ==
  /\ pc = "label"
  /\ labels' = [labels EXCEPT ![Ns] =
       [monitoring |-> TRUE, managed |-> IF copy.managed THEN @.managed ELSE TRUE]]
  /\ GoTo("finish")
  /\ UNCHANGED <<allNamespaces, registryVars, dashboard, cacheVars, escaped, events>>

\* Mutant: the finalizer is written whatever has become of the registry.
AddFinalizerForced ==
  /\ pc = "finish"
  /\ finalizer' = finalizer \cup {at}
  /\ Return
  /\ UNCHANGED <<allNamespaces, live, flagged, blocked, sharedVars, cacheVars, escaped, events>>

\* The rest of the pass: it ends early, or adds the finalizer unless its copy of
\* the registry is out of date.
AddFinalizer ==
  /\ pc = "finish"
  /\ \/ ~touched /\ finalizer' = finalizer \cup {at}
     \/ UNCHANGED finalizer
  /\ Return
  /\ UNCHANGED <<allNamespaces, live, flagged, blocked, sharedVars, cacheVars, escaped, events>>

-----------------------------------------------------------------------------
(* manageQuayDeletion *)

\* cleanupNamespaceLabels reads the Namespace.
ReadLabels ==
  /\ pc = "cleanup"
  /\ copy' = labelsSeen[Ns]
  /\ escaped' = IF labelsSeen[Ns] # labels[Ns] THEN escaped \cup {Ns} ELSE escaped
  /\ pc' = "list"
  /\ UNCHANGED <<allNamespaces, registryVars, sharedVars, cacheVars, events, at, touched>>

Listed == {r \in live \cup flagged : r[1] = Ns}

\* Mutant: registries that are not flagged for deletion are not counted.
LastInNamespaceFlagged == \A r \in Listed \cap flagged : r = at

\* Mutant: off by one, the registry being deleted is not expected in the list.
LastInNamespaceNone == Listed = {}

\* Exactly one registry is listed.
LastInNamespace == \A r \in Listed : r = at

ListRegistries ==
  /\ pc = "list"
  /\ \/ copy.managed /\ LastInNamespace /\ GoTo("unlabel")
     \/ ~(copy.managed /\ LastInNamespace) /\ GoTo("lookup")
  /\ UNCHANGED <<allNamespaces, registryVars, sharedVars, cacheVars, escaped, events>>

RemoveLabels ==
  /\ pc = "unlabel"
  /\ labels' = [labels EXCEPT ![Ns] =
       [monitoring |-> @.monitoring /\ ~copy.monitoring, managed |-> FALSE]]
  /\ GoTo("lookup")
  /\ UNCHANGED <<allNamespaces, registryVars, dashboard, cacheVars, escaped, events>>

\* cleanupGrafanaConfigMap reads the ConfigMap.
LookUpDashboard ==
  /\ pc = "lookup"
  /\ \/ dashboardSeen[Name] # NoNamespace /\ GoTo("drop") /\ UNCHANGED escaped
     \/ /\ dashboardSeen[Name] = NoNamespace /\ GoTo("release")
        /\ escaped' = IF dashboard[Name] # NoNamespace THEN escaped \cup {Name} ELSE escaped
  /\ UNCHANGED <<allNamespaces, registryVars, sharedVars, cacheVars, events>>

\* Mutant: the worker waits for a ConfigMap that is gone already.
DropDashboardWaits ==
  /\ pc = "drop" /\ dashboard[Name] # NoNamespace
  /\ dashboard' = [dashboard EXCEPT ![Name] = NoNamespace]
  /\ GoTo("release")
  /\ UNCHANGED <<allNamespaces, registryVars, labels, cacheVars, escaped, events>>

\* The Delete of a ConfigMap that is gone already is an error, and retried.
DropDashboard ==
  /\ pc = "drop"
  /\ \/ dashboard[Name] # NoNamespace /\ GoTo("release")
     \/ dashboard[Name] = NoNamespace /\ Return
  /\ dashboard' = [dashboard EXCEPT ![Name] = NoNamespace]
  /\ UNCHANGED <<allNamespaces, registryVars, labels, cacheVars, escaped, events>>

\* Without finalizers the API server removes the object.
RemoveFinalizer ==
  /\ pc = "release"
  /\ finalizer' = finalizer \ {at} /\ flagged' = flagged \ {at}
  /\ Return
  /\ UNCHANGED <<allNamespaces, live, blocked, sharedVars, cacheVars, escaped, events>>

\* A request fails, the registry was written by the other controller, or the
\* operator dies.
Interrupt ==
  /\ pc # "idle"
  /\ Event
  /\ Return
  /\ UNCHANGED <<allNamespaces, registryVars, sharedVars, cacheVars, escaped>>

-----------------------------------------------------------------------------
(* The user and the informers *)

Touches(r) == touched' = (touched \/ r = at)

CreateRegistry(r) ==
  /\ r \notin live \cup flagged
  /\ Event
  /\ live' = live \cup {r}
  /\ Touches(r)
  /\ UNCHANGED <<allNamespaces, flagged, finalizer, blocked, sharedVars, cacheVars, escaped, localVars>>

\* A registry without the finalizer is gone at once.
DeleteRegistry(r) ==
  /\ r \in live
  /\ Event
  /\ live' = live \ {r}
  /\ flagged' = IF r \in finalizer THEN flagged \cup {r} ELSE flagged
  /\ escaped' = IF r \in finalizer THEN escaped ELSE escaped \cup {r[1], r[2]}
  /\ Touches(r)
  /\ UNCHANGED <<allNamespaces, finalizer, blocked, sharedVars, cacheVars, localVars>>

\* The rollout of a registry gets blocked, or is no longer.
ToggleBlocked(r) ==
  /\ Event
  /\ blocked' = (blocked \ {r}) \cup ({r} \ blocked)
  /\ UNCHANGED <<allNamespaces, live, flagged, finalizer, sharedVars, cacheVars, escaped, localVars,
                 touched>>

\* The user sets or removes the monitoring label.
EditLabels(n) ==
  /\ Event
  /\ labels' = [labels EXCEPT ![n].monitoring = ~@]
  /\ UNCHANGED <<allNamespaces, registryVars, dashboard, cacheVars, escaped, localVars, touched>>

SyncNamespace(n) ==
  /\ labelsSeen[n] # labels[n]
  /\ labelsSeen' = [labelsSeen EXCEPT ![n] = labels[n]]
  /\ UNCHANGED <<allNamespaces, registryVars, sharedVars, dashboardSeen, escaped, events, localVars, touched>>

SyncDashboard(a) ==
  /\ dashboardSeen[a] # dashboard[a]
  /\ dashboardSeen' = [dashboardSeen EXCEPT ![a] = dashboard[a]]
  /\ UNCHANGED <<allNamespaces, registryVars, sharedVars, labelsSeen, escaped, events, localVars, touched>>

-----------------------------------------------------------------------------

Continue ==
  \/ StopBlocked \/ ApplyDashboard \/ GetNamespace \/ PatchLabels \/ AddFinalizer
  \/ ReadLabels \/ ListRegistries \/ RemoveLabels
  \/ LookUpDashboard \/ DropDashboard \/ RemoveFinalizer

Next ==
  \/ \E r \in Registries :
       StartReconcile(r) \/ CreateRegistry(r) \/ DeleteRegistry(r) \/ ToggleBlocked(r)
  \/ Continue \/ Interrupt
  \/ \E n \in Namespaces : EditLabels(n) \/ SyncNamespace(n)
  \/ \E a \in Names : SyncDashboard(a)

Spec == Init /\ [][Next]_vars

\* The work queue is first in, first out, and every registry is queued again
\* until it is gone; informers deliver.
Fairness ==
  /\ \A r \in Registries : SF_vars(StartReconcile(r))
  /\ WF_vars(Continue)
  /\ \A n \in Namespaces : WF_vars(SyncNamespace(n))
  /\ \A a \in Names : WF_vars(SyncDashboard(a))

FairSpec == Spec /\ Fairness

-----------------------------------------------------------------------------
(* Properties *)

Present == live \cup flagged

\* Nothing stays behind: a namespace without a registry does not carry the
\* managed label, and no dashboard is left without a registry of its name, unless
\* a registry went before it had the finalizer or a cleanup read an old copy.
NoOrphans ==
  /\ \A n \in Namespaces :
       labels[n].managed => n \in escaped \/ \E r \in Present : r[1] = n
  /\ \A a \in Names :
       dashboard[a] # NoNamespace => a \in escaped \/ \E r \in Present : r[2] = a

\* The deletion of one registry does not take the label away from another that
\* has been reconciled completely.
SharedLabelKept ==
  [][\A n \in Namespaces : labels[n].managed /\ ~labels'[n].managed =>
       \A r \in live \cap finalizer : r[1] # n]_vars

\* A namespace in which a registry stays that is not blocked gets the monitoring
\* label back for good, and as long as a monitored one stays there is a dashboard
\* that shows one of the registries of its name.
MonitoringRestored ==
  \A r \in Registries :
    <>[](allNamespaces /\ r \in live \ blocked) =>
      <>[](/\ labels[r[1]].monitoring
           /\ r \in Monitored => <<dashboard[r[2]], r[2]>> \in live)

\* A registry flagged for deletion goes away.
DeletionCompletes == \A r \in Registries : r \in flagged ~> r \notin flagged
=============================================================================
