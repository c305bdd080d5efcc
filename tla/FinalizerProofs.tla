-------------------------- MODULE FinalizerProofs --------------------------
(***************************************************************************)
(* Proofs about Finalizer, for every set of registries and every number of *)
(* failures, deletions and edits.                                          *)
(*                                                                         *)
(* WorkerInv says what the worker may count on of the registry it has in   *)
(* hand, CleanupInv what the deletion of a registry has removed of what it *)
(* shares, or has seen another registry for, at each point of the pass.    *)
(***************************************************************************)
EXTENDS Finalizer, TLAPS

Setup   == {"dashboard", "namespace", "label", "finish"}
Cleanup == {"cleanup", "list", "unlabel", "lookup", "drop", "release"}

\* A registry in hand is still there, or it went without a cleanup; one that is
\* being deleted waits for the worker.
WorkerInv ==
  /\ pc = "idle" => ~touched
  /\ pc \in Setup => at \in Present \/ {Ns, Name} \subseteq escaped
  /\ pc \in Setup /\ ~touched => at \in live
  /\ pc \in Cleanup => at \in flagged
  /\ ~allNamespaces => pc \in {"idle", "finish", "release"}

\* Another registry, which keeps the label of the namespace.
Shared == \E r \in Present : r[1] = Ns /\ r # at

\* What the deletion has found and removed.
CleanupInv ==
  /\ ~allNamespaces =>
       /\ \A n \in Namespaces : ~labels[n].managed
       /\ \A a \in Names : dashboard[a] = NoNamespace
  /\ pc = "list" => Ns \in escaped \/ copy.managed = labels[Ns].managed
  /\ pc = "unlabel" => \A r \in live \cap finalizer : r[1] # Ns
  /\ pc \in {"lookup", "drop", "release"} => Ns \in escaped \/ ~labels[Ns].managed \/ Shared
  /\ pc = "release" => Name \in escaped \/ dashboard[Name] = NoNamespace

FinalizerInv == TypeOK /\ WorkerInv /\ CleanupInv /\ NoOrphans

-----------------------------------------------------------------------------
(* The operators *)

\* The registry in hand, its namespace and its name.
LEMMA AtType ==
  ASSUME TypeOK, pc # "idle"
  PROVE  at \in Registries /\ Ns \in Namespaces /\ Name \in Names
  BY DEF TypeOK, Ns, Name, Namespaces, Names

\* Failures and doings of the user are counted.
LEMMA EventType ==
  events \in 0..MaxEvents /\ Event => events' \in 0..MaxEvents
  BY ConstantsAssumption DEF ConstantsAssumption, Event

\* A namespace without labels.
LEMMA NoLabelsType == NoLabels \in Labels
  BY DEF NoLabels, Labels

\* A pass that returns leaves nothing to say of it.
LEMMA Returned ==
  ASSUME Return
  PROVE  /\ WorkerInv'
         /\ pc' = "idle" /\ at' = NoRegistry /\ touched' = FALSE /\ copy' \in Labels
         /\ (/\ ~allNamespaces =>
                  /\ \A n \in Namespaces : ~labels[n].managed
                  /\ \A a \in Names : dashboard[a] = NoNamespace)'
              => CleanupInv'
  BY NoLabelsType DEF Return, WorkerInv, CleanupInv, Setup, Cleanup

\* A cluster without registries satisfies FinalizerInv.
LEMMA FinalizerInit == Init => FinalizerInv
  <1> SUFFICES ASSUME Init PROVE FinalizerInv
    OBVIOUS
  <1> USE ConstantsAssumption DEF ConstantsAssumption, Init
  <1>1. labels \in [Namespaces -> Labels] /\ \A n \in Namespaces : ~labels[n].managed
    <2>1. \A b \in BOOLEAN : LET l == [NoLabels EXCEPT !.monitoring = b]
                             IN  l \in Labels /\ ~l.managed
      BY DEF NoLabels, Labels
    <2>2. \A n \in Namespaces : (n \in Labelled) \in BOOLEAN
      OBVIOUS
    <2> QED
      BY <2>1, <2>2
  <1>2. events \in 0..MaxEvents
    OBVIOUS
  <1>3. TypeOK
    BY <1>1, <1>2, NoLabelsType DEF TypeOK
  <1>4. WorkerInv /\ CleanupInv /\ NoOrphans
    BY <1>1 DEF WorkerInv, CleanupInv, NoOrphans, Setup, Cleanup
  <1> QED
    BY <1>3, <1>4 DEF FinalizerInv

-----------------------------------------------------------------------------
(* Reconcile of a registry that is not flagged *)

\* Reconcile takes a registry that exists or is being deleted.
LEMMA StartStep ==
  ASSUME FinalizerInv, NEW r \in Registries, StartReconcile(r)
  PROVE  FinalizerInv'
  <1>1. /\ UNCHANGED <<allNamespaces, live, flagged, finalizer, blocked, labels, dashboard, labelsSeen,
                       dashboardSeen, escaped, events, touched, copy>>
        /\ pc = "idle" /\ at' = r
        /\ \/ r \in live /\ pc' = IF allNamespaces THEN "dashboard" ELSE "finish"
           \/ r \in flagged /\ pc' = IF allNamespaces THEN "cleanup" ELSE "release"
    BY DEF StartReconcile, registryVars, sharedVars, cacheVars
  <1>2. TypeOK'
    BY <1>1, ConstantsAssumption DEF ConstantsAssumption, FinalizerInv, TypeOK
  <1>3. WorkerInv'
    BY <1>1 DEF FinalizerInv, TypeOK, WorkerInv, Setup, Cleanup, Present
  <1>4. r[1] \in Namespaces /\ r[2] \in Names
    BY DEF Namespaces, Names
  <1>5. CleanupInv'
    BY <1>1, <1>4 DEF FinalizerInv, CleanupInv, Ns, Name
  <1>6. NoOrphans'
    BY <1>1 DEF FinalizerInv, NoOrphans, Present
  <1> QED
    BY <1>2, <1>3, <1>5, <1>6 DEF FinalizerInv

\* A dashboard is applied for a registry that is there or has escaped.
LEMMA ApplyDashboardStep == FinalizerInv /\ ApplyDashboard => FinalizerInv'
  <1> SUFFICES ASSUME FinalizerInv, ApplyDashboard PROVE FinalizerInv'
    OBVIOUS
  <1>1. /\ UNCHANGED <<allNamespaces, live, flagged, finalizer, blocked, labels, labelsSeen,
                       dashboardSeen, escaped, events, at, touched, copy>>
        /\ pc = "dashboard" /\ pc' = "namespace"
        /\ dashboard' = dashboard \/ dashboard' = [dashboard EXCEPT ![Name] = Ns]
    BY DEF ApplyDashboard, GoTo, registryVars, cacheVars
  <1>2. at \in Registries /\ Ns \in Namespaces /\ Name \in Names /\ Name = at[2]
    BY <1>1, AtType DEF FinalizerInv, Name
  <1>3. TypeOK'
    BY <1>1, <1>2 DEF FinalizerInv, TypeOK
  <1>4. allNamespaces
    BY <1>1 DEF FinalizerInv, WorkerInv
  <1>5. WorkerInv' /\ CleanupInv'
    BY <1>1, <1>4 DEF FinalizerInv, WorkerInv, CleanupInv, Setup, Cleanup, Present, Ns, Name
  <1>6. at \in Present \/ Name \in escaped
    BY <1>1 DEF FinalizerInv, WorkerInv, Setup
  <1>7. \A a \in Names : dashboard'[a] # NoNamespace => a = Name \/ dashboard[a] # NoNamespace
    BY <1>1, <1>2 DEF FinalizerInv, TypeOK
  <1>8. NoOrphans'
    BY <1>1, <1>2, <1>6, <1>7 DEF FinalizerInv, NoOrphans, Present
  <1> QED
    BY <1>3, <1>5, <1>8 DEF FinalizerInv

\* The namespace is read from the cache and nothing is written.
LEMMA GetNamespaceStep == FinalizerInv /\ GetNamespace => FinalizerInv'
  <1> SUFFICES ASSUME FinalizerInv, GetNamespace PROVE FinalizerInv'
    OBVIOUS
  <1>1. /\ UNCHANGED <<allNamespaces, live, flagged, finalizer, blocked, labels, dashboard, labelsSeen,
                       dashboardSeen, escaped, events, at, touched>>
        /\ pc = "namespace" /\ pc' \in {"finish", "label"}
        /\ copy' = copy \/ copy' = labelsSeen[Ns]
    BY DEF GetNamespace, GoTo, registryVars, sharedVars, cacheVars
  <1>2. copy' \in Labels
    BY <1>1, AtType DEF FinalizerInv, TypeOK
  <1>3. TypeOK'
    BY <1>1, <1>2 DEF FinalizerInv, TypeOK
  <1>4. WorkerInv' /\ CleanupInv' /\ NoOrphans'
    BY <1>1 DEF FinalizerInv, WorkerInv, CleanupInv, NoOrphans, Setup, Cleanup, Present, Ns, Name
  <1> QED
    BY <1>3, <1>4 DEF FinalizerInv

\* The label is set for a registry that is there or has escaped.
LEMMA PatchLabelsStep == FinalizerInv /\ PatchLabels => FinalizerInv'
  <1> SUFFICES ASSUME FinalizerInv, PatchLabels PROVE FinalizerInv'
    OBVIOUS
  <1>1. /\ UNCHANGED <<allNamespaces, live, flagged, finalizer, blocked, dashboard, labelsSeen,
                       dashboardSeen, escaped, events, at, touched, copy>>
        /\ pc = "label" /\ pc' = "finish"
    BY DEF PatchLabels, GoTo, registryVars, cacheVars
  <1>2. at \in Registries /\ Ns \in Namespaces /\ Ns = at[1]
    BY <1>1, AtType DEF FinalizerInv, Ns
  <1>3. PICK m \in BOOLEAN :
          labels' = [labels EXCEPT ![Ns] = [monitoring |-> TRUE, managed |-> m]]
    BY <1>2 DEF PatchLabels, FinalizerInv, TypeOK, Labels
  <1>4. labels' \in [Namespaces -> Labels] /\ \A n \in Namespaces : n # Ns => labels'[n] = labels[n]
    BY <1>2, <1>3 DEF FinalizerInv, TypeOK, Labels
  <1>5. TypeOK'
    BY <1>1, <1>4 DEF FinalizerInv, TypeOK
  <1>6. allNamespaces
    BY <1>1 DEF FinalizerInv, WorkerInv
  <1>7. WorkerInv' /\ CleanupInv'
    BY <1>1, <1>6 DEF FinalizerInv, WorkerInv, CleanupInv, Setup, Cleanup, Present, Ns, Name
  <1>8. at \in Present \/ Ns \in escaped
    BY <1>1 DEF FinalizerInv, WorkerInv, Setup
  <1>9. NoOrphans'
    BY <1>1, <1>2, <1>4, <1>8 DEF FinalizerInv, NoOrphans, Present
  <1> QED
    BY <1>5, <1>7, <1>9 DEF FinalizerInv

\* The finalizer goes to a registry that has not been flagged since it was read.
LEMMA AddFinalizerStep == FinalizerInv /\ AddFinalizer => FinalizerInv'
  <1> SUFFICES ASSUME FinalizerInv, AddFinalizer PROVE FinalizerInv'
    OBVIOUS
  <1>1. /\ UNCHANGED <<allNamespaces, live, flagged, blocked, labels, dashboard, labelsSeen,
                       dashboardSeen, escaped, events>>
        /\ pc = "finish" /\ Return
        /\ finalizer' = finalizer \/ (~touched /\ finalizer' = finalizer \cup {at})
    BY DEF AddFinalizer, sharedVars, cacheVars
  <1>2. ~touched => at \in live
    BY <1>1 DEF FinalizerInv, WorkerInv, Setup
  <1>3. TypeOK'
    BY <1>1, <1>2, Returned DEF FinalizerInv, TypeOK
  <1>4. WorkerInv' /\ CleanupInv'
    BY <1>1, Returned DEF FinalizerInv, CleanupInv
  <1>5. NoOrphans'
    BY <1>1 DEF FinalizerInv, NoOrphans, Present
  <1> QED
    BY <1>3, <1>4, <1>5 DEF FinalizerInv

-----------------------------------------------------------------------------
(* manageQuayDeletion *)

\* A cleanup that reads old labels lets its namespace escape.
LEMMA ReadLabelsStep == FinalizerInv /\ ReadLabels => FinalizerInv'
  <1> SUFFICES ASSUME FinalizerInv, ReadLabels PROVE FinalizerInv'
    OBVIOUS
  <1>1. /\ UNCHANGED <<allNamespaces, live, flagged, finalizer, blocked, labels, dashboard, labelsSeen,
                       dashboardSeen, events, at, touched>>
        /\ pc = "cleanup" /\ pc' = "list" /\ copy' = labelsSeen[Ns]
        /\ escaped' = IF labelsSeen[Ns] # labels[Ns] THEN escaped \cup {Ns} ELSE escaped
    BY DEF ReadLabels, registryVars, sharedVars, cacheVars
  <1>2. Ns \in Namespaces
    BY <1>1, AtType DEF FinalizerInv
  <1>3. TypeOK'
    BY <1>1, <1>2 DEF FinalizerInv, TypeOK
  <1>4. WorkerInv' /\ CleanupInv' /\ NoOrphans'
    BY <1>1 DEF FinalizerInv, WorkerInv, CleanupInv, NoOrphans, Setup, Cleanup, Present, Ns, Name
  <1> QED
    BY <1>3, <1>4 DEF FinalizerInv

\* The label is kept when the list shows another registry of the namespace.
LEMMA ListStep == FinalizerInv /\ ListRegistries => FinalizerInv'
  <1> SUFFICES ASSUME FinalizerInv, ListRegistries PROVE FinalizerInv'
    OBVIOUS
  <1>1. /\ UNCHANGED <<allNamespaces, live, flagged, finalizer, blocked, labels, dashboard, labelsSeen,
                       dashboardSeen, escaped, events, at, touched, copy>>
        /\ pc = "list"
        /\ \/ LastInNamespace /\ pc' = "unlabel"
           \/ ~(copy.managed /\ LastInNamespace) /\ pc' = "lookup"
    BY DEF ListRegistries, GoTo, registryVars, sharedVars, cacheVars
  <1>2. TypeOK' /\ WorkerInv' /\ NoOrphans'
    BY <1>1 DEF FinalizerInv, TypeOK, WorkerInv, NoOrphans, Setup, Cleanup, Present, Ns, Name
  <1>3. LastInNamespace => \A r \in live : r[1] # Ns
    <2>1. at \notin live
      BY <1>1 DEF FinalizerInv, WorkerInv, TypeOK, Cleanup
    <2> QED
      BY <2>1 DEF LastInNamespace, Listed
  <1>4. ~LastInNamespace => Shared
    BY DEF LastInNamespace, Listed, Shared, Present
  <1>5. CleanupInv'
    BY <1>1, <1>3, <1>4 DEF FinalizerInv, CleanupInv, Shared, Present, Ns, Name
  <1> QED
    BY <1>2, <1>5 DEF FinalizerInv

\* The label goes when no registry was listed.
LEMMA RemoveLabelsStep == FinalizerInv /\ RemoveLabels => FinalizerInv'
  <1> SUFFICES ASSUME FinalizerInv, RemoveLabels PROVE FinalizerInv'
    OBVIOUS
  <1>1. /\ UNCHANGED <<allNamespaces, live, flagged, finalizer, blocked, dashboard, labelsSeen,
                       dashboardSeen, escaped, events, at, touched, copy>>
        /\ pc = "unlabel" /\ pc' = "lookup"
    BY DEF RemoveLabels, GoTo, registryVars, cacheVars
  <1>2. Ns \in Namespaces
    BY <1>1, AtType DEF FinalizerInv
  <1>3. PICK m \in BOOLEAN :
          labels' = [labels EXCEPT ![Ns] = [monitoring |-> m, managed |-> FALSE]]
    BY <1>2 DEF RemoveLabels, FinalizerInv, TypeOK, Labels
  <1>4. labels' \in [Namespaces -> Labels]
        /\ \A n \in Namespaces : labels'[n].managed => labels[n].managed /\ n # Ns
    BY <1>2, <1>3 DEF FinalizerInv, TypeOK, Labels
  <1>5. TypeOK'
    BY <1>1, <1>4 DEF FinalizerInv, TypeOK
  <1>6. WorkerInv' /\ NoOrphans'
    BY <1>1, <1>4 DEF FinalizerInv, WorkerInv, NoOrphans, Setup, Cleanup, Present, Ns, Name
  <1>7. CleanupInv'
    BY <1>1, <1>2, <1>4 DEF FinalizerInv, CleanupInv, Ns, Name
  <1> QED
    BY <1>5, <1>6, <1>7 DEF FinalizerInv

\* A dashboard is looked up in the cache.
LEMMA LookUpStep == FinalizerInv /\ LookUpDashboard => FinalizerInv'
  <1> SUFFICES ASSUME FinalizerInv, LookUpDashboard PROVE FinalizerInv'
    OBVIOUS
  <1>1. /\ UNCHANGED <<allNamespaces, live, flagged, finalizer, blocked, labels, dashboard, labelsSeen,
                       dashboardSeen, events, at, touched, copy>>
        /\ pc = "lookup"
        /\ \/ pc' = "drop" /\ escaped' = escaped
           \/ /\ pc' = "release"
              /\ escaped' = IF dashboard[Name] # NoNamespace THEN escaped \cup {Name} ELSE escaped
    BY DEF LookUpDashboard, GoTo, registryVars, sharedVars, cacheVars
  <1>2. Name \in Names
    BY <1>1, AtType DEF FinalizerInv
  <1>3. TypeOK'
    BY <1>1, <1>2 DEF FinalizerInv, TypeOK
  <1>4. escaped \subseteq escaped'
    BY <1>1
  <1>5. WorkerInv' /\ NoOrphans'
    BY <1>1, <1>4 DEF FinalizerInv, WorkerInv, NoOrphans, Setup, Cleanup, Present, Ns, Name
  <1>6. CleanupInv'
    BY <1>1, <1>4 DEF FinalizerInv, CleanupInv, Shared, Present, Ns, Name
  <1> QED
    BY <1>3, <1>5, <1>6 DEF FinalizerInv

\* The dashboard goes, also that of a namesake.
LEMMA DropDashboardStep == FinalizerInv /\ DropDashboard => FinalizerInv'
  <1> SUFFICES ASSUME FinalizerInv, DropDashboard PROVE FinalizerInv'
    OBVIOUS
  <1>1. /\ UNCHANGED <<allNamespaces, live, flagged, finalizer, blocked, labels, labelsSeen,
                       dashboardSeen, escaped, events>>
        /\ pc = "drop" /\ dashboard' = [dashboard EXCEPT ![Name] = NoNamespace]
    BY DEF DropDashboard, registryVars, cacheVars
  <1>2. Name \in Names
    BY <1>1, AtType DEF FinalizerInv
  <1>3. /\ dashboard' \in [Names -> Namespaces \cup {NoNamespace}]
        /\ \A a \in Names : dashboard'[a] = IF a = Name THEN NoNamespace ELSE dashboard[a]
    BY <1>1, <1>2 DEF FinalizerInv, TypeOK
  <1>4. NoOrphans'
    BY <1>1, <1>3 DEF FinalizerInv, NoOrphans, Present
  <1>5. CASE Return
    <2>1. TypeOK'
      BY <1>1, <1>3, <1>5, Returned DEF FinalizerInv, TypeOK
    <2>2. WorkerInv' /\ CleanupInv'
      BY <1>1, <1>3, <1>5, Returned DEF FinalizerInv, CleanupInv
    <2> QED
      BY <1>4, <2>1, <2>2 DEF FinalizerInv
  <1>6. CASE pc' = "release" /\ UNCHANGED <<at, touched, copy>>
    <2>1. TypeOK'
      BY <1>1, <1>3, <1>6 DEF FinalizerInv, TypeOK
    <2>2. WorkerInv'
      BY <1>1, <1>6 DEF FinalizerInv, WorkerInv, Setup, Cleanup
    <2>3. CleanupInv'
      BY <1>1, <1>2, <1>3, <1>6 DEF FinalizerInv, CleanupInv, Shared, Present, Ns, Name
    <2> QED
      BY <1>4, <2>1, <2>2, <2>3 DEF FinalizerInv
  <1> QED
    BY <1>5, <1>6 DEF DropDashboard, GoTo

\* A registry goes when label and dashboard are gone, shared or escaped.
LEMMA RemoveFinalizerStep == FinalizerInv /\ RemoveFinalizer => FinalizerInv'
  <1> SUFFICES ASSUME FinalizerInv, RemoveFinalizer PROVE FinalizerInv'
    OBVIOUS
  <1>1. /\ UNCHANGED <<allNamespaces, live, blocked, labels, dashboard, labelsSeen, dashboardSeen, escaped,
                       events>>
        /\ pc = "release" /\ Return
        /\ finalizer' = finalizer \ {at} /\ flagged' = flagged \ {at}
    BY DEF RemoveFinalizer, sharedVars, cacheVars
  <1>2. at \in flagged /\ at \notin live
    BY <1>1 DEF FinalizerInv, TypeOK, WorkerInv, Cleanup
  <1>3. TypeOK'
    BY <1>1, <1>2, Returned DEF FinalizerInv, TypeOK
  <1>4. WorkerInv' /\ CleanupInv'
    BY <1>1, Returned DEF FinalizerInv, CleanupInv
  <1>5. /\ Ns \in escaped \/ ~labels[Ns].managed \/ Shared
        /\ Name \in escaped \/ dashboard[Name] = NoNamespace
    BY <1>1 DEF FinalizerInv, CleanupInv
  <1>6. Present' = Present \ {at}
    BY <1>1, <1>2 DEF Present
  <1>7. NoOrphans'
    <2>1. ASSUME NEW n \in Namespaces, labels[n].managed, n \notin escaped
          PROVE  \E r \in Present \ {at} : r[1] = n
      <3>1. CASE n = Ns
        BY <1>5, <2>1, <3>1 DEF Shared
      <3>2. CASE n # Ns
        BY <2>1, <3>2 DEF FinalizerInv, NoOrphans, Ns
      <3> QED
        BY <3>1, <3>2
    <2>2. ASSUME NEW a \in Names, dashboard[a] # NoNamespace, a \notin escaped
          PROVE  \E r \in Present \ {at} : r[2] = a
      <3>1. a # Name
        BY <1>5, <2>2
      <3> QED
        BY <2>2, <3>1 DEF FinalizerInv, NoOrphans, Name
    <2> QED
      BY <1>1, <1>6, <2>1, <2>2 DEF NoOrphans
  <1> QED
    BY <1>3, <1>4, <1>7 DEF FinalizerInv

\* A reconcile may end anywhere; the finalizer brings it back.
LEMMA InterruptStep == FinalizerInv /\ (Interrupt \/ StopBlocked) => FinalizerInv'
  <1> SUFFICES ASSUME FinalizerInv, Interrupt \/ StopBlocked PROVE FinalizerInv'
    OBVIOUS
  <1>1. /\ UNCHANGED <<allNamespaces, live, flagged, finalizer, blocked, labels, dashboard, labelsSeen,
                       dashboardSeen, escaped>>
        /\ Return
    BY DEF Interrupt, StopBlocked, registryVars, sharedVars, cacheVars
  <1>2. events' \in 0..MaxEvents
    BY EventType DEF Interrupt, StopBlocked, FinalizerInv, TypeOK
  <1>3. TypeOK'
    BY <1>1, <1>2, Returned DEF FinalizerInv, TypeOK
  <1>4. WorkerInv' /\ CleanupInv'
    BY <1>1, Returned DEF FinalizerInv, CleanupInv
  <1>5. NoOrphans'
    BY <1>1 DEF FinalizerInv, NoOrphans, Present
  <1> QED
    BY <1>3, <1>4, <1>5 DEF FinalizerInv

-----------------------------------------------------------------------------
(* The user and the informers *)

\* A new registry has no finalizer yet, so a cleanup under way may still take the
\* label of its namespace.
LEMMA CreateRegistryStep ==
  ASSUME FinalizerInv, NEW r \in Registries, CreateRegistry(r)
  PROVE  FinalizerInv'
  <1>1. /\ UNCHANGED <<allNamespaces, flagged, finalizer, blocked, labels, dashboard, labelsSeen,
                       dashboardSeen, escaped, pc, at, copy>>
        /\ r \notin live /\ r \notin flagged /\ live' = live \cup {r}
        /\ touched' = (touched \/ r = at)
    BY DEF CreateRegistry, Touches, sharedVars, cacheVars, localVars
  <1>2. events' \in 0..MaxEvents
    BY EventType DEF CreateRegistry, FinalizerInv, TypeOK
  <1>3. touched' \in BOOLEAN
    BY <1>1 DEF FinalizerInv, TypeOK
  <1>4. TypeOK'
    BY <1>1, <1>2, <1>3 DEF FinalizerInv, TypeOK
  <1>5. r \notin finalizer /\ (pc = "idle" => r # at)
    BY <1>1, ConstantsAssumption DEF ConstantsAssumption, FinalizerInv, TypeOK
  <1>6. WorkerInv'
    BY <1>1, <1>5 DEF FinalizerInv, WorkerInv, Present, Ns, Name
  <1>7. CleanupInv'
    BY <1>1, <1>5 DEF FinalizerInv, CleanupInv, Shared, Present, Ns, Name
  <1>8. NoOrphans'
    BY <1>1 DEF FinalizerInv, NoOrphans, Present
  <1> QED
    BY <1>4, <1>6, <1>7, <1>8 DEF FinalizerInv

\* A registry without the finalizer escapes when it is deleted.
LEMMA DeleteRegistryStep ==
  ASSUME FinalizerInv, NEW r \in Registries, DeleteRegistry(r)
  PROVE  FinalizerInv'
  <1>1. /\ UNCHANGED <<allNamespaces, finalizer, blocked, labels, dashboard, labelsSeen, dashboardSeen,
                       pc, at, copy>>
        /\ r \in live /\ live' = live \ {r}
        /\ flagged' = IF r \in finalizer THEN flagged \cup {r} ELSE flagged
        /\ escaped' = IF r \in finalizer THEN escaped ELSE escaped \cup {r[1], r[2]}
        /\ touched' = (touched \/ r = at)
    BY DEF DeleteRegistry, Touches, sharedVars, cacheVars, localVars
  <1>2. events' \in 0..MaxEvents
    BY EventType DEF DeleteRegistry, FinalizerInv, TypeOK
  <1>3. touched' \in BOOLEAN
    BY <1>1 DEF FinalizerInv, TypeOK
  <1>4. r[1] \in Namespaces /\ r[2] \in Names
    BY DEF Namespaces, Names
  <1>5. TypeOK'
    BY <1>1, <1>2, <1>3, <1>4 DEF FinalizerInv, TypeOK
  <1>6. pc = "idle" => r # at
    BY ConstantsAssumption DEF ConstantsAssumption, FinalizerInv, TypeOK
  <1>7. \/ r \in finalizer /\ Present' = Present /\ escaped' = escaped
        \/ Present' = Present \ {r} /\ escaped' = escaped \cup {r[1], r[2]}
    BY <1>1 DEF Present, FinalizerInv, TypeOK
  <1>8. WorkerInv'
    <2>1. pc \in Setup => at \in Present' \/ {Ns, Name} \subseteq escaped'
      BY <1>7 DEF FinalizerInv, WorkerInv, Ns, Name
    <2>2. pc \in Setup /\ ~touched' => at \in live'
      BY <1>1 DEF FinalizerInv, WorkerInv
    <2> QED
      BY <1>1, <1>6, <2>1, <2>2 DEF FinalizerInv, WorkerInv, Ns, Name
  <1>9. CleanupInv'
    <2>1. Shared => Shared' \/ Ns \in escaped'
      BY <1>1, <1>7 DEF Shared, Ns
    <2> QED
      BY <1>1, <1>7, <2>1 DEF FinalizerInv, CleanupInv, Ns, Name
  <1>10. NoOrphans'
    BY <1>1, <1>7 DEF FinalizerInv, NoOrphans
  <1> QED
    BY <1>5, <1>8, <1>9, <1>10 DEF FinalizerInv

\* Steps that touch neither the registries nor the worker.
LEMMA OutsideStep ==
  ASSUME FinalizerInv, TypeOK',
         UNCHANGED <<allNamespaces, live, flagged, finalizer, dashboard, escaped, pc, at, touched,
                     copy>>,
         \A n \in Namespaces : labels'[n].managed = labels[n].managed
  PROVE  FinalizerInv'
  <1>1. WorkerInv' /\ NoOrphans'
    BY DEF FinalizerInv, WorkerInv, NoOrphans, Present, Ns, Name
  <1>2. pc # "idle" => Ns \in Namespaces
    BY AtType DEF FinalizerInv
  <1>3. CleanupInv'
    BY <1>2 DEF FinalizerInv, CleanupInv, Shared, Present, Ns, Name
  <1> QED
    BY <1>1, <1>3 DEF FinalizerInv

\* The user edits the monitoring label and not that of the operator.
LEMMA EditedLabels ==
  ASSUME NEW ls \in [Namespaces -> Labels], NEW n \in Namespaces, NEW b \in BOOLEAN
  PROVE  LET edited == [ls EXCEPT ![n].monitoring = b]
         IN  /\ edited \in [Namespaces -> Labels]
             /\ \A m \in Namespaces : edited[m].managed = ls[m].managed
  BY DEF Labels

\* No part of FinalizerInv depends on the monitoring label.
LEMMA EditLabelsStep ==
  ASSUME FinalizerInv, NEW n \in Namespaces, EditLabels(n)
  PROVE  FinalizerInv'
  <1>1. /\ UNCHANGED <<allNamespaces, live, flagged, finalizer, blocked, dashboard, labelsSeen,
                       dashboardSeen, escaped, pc, at, touched, copy>>
        /\ labels' = [labels EXCEPT ![n].monitoring = ~@]
    BY DEF EditLabels, registryVars, cacheVars, localVars
  <1>2. events' \in 0..MaxEvents
    BY EventType DEF EditLabels, FinalizerInv, TypeOK
  <1>3. PICK b \in BOOLEAN : labels' = [labels EXCEPT ![n].monitoring = b]
    BY <1>1
  <1>4. labels' \in [Namespaces -> Labels]
        /\ \A m \in Namespaces : labels'[m].managed = labels[m].managed
    BY <1>3, EditedLabels DEF FinalizerInv, TypeOK
  <1>5. TypeOK'
    BY <1>1, <1>2, <1>4 DEF FinalizerInv, TypeOK
  <1> QED
    BY <1>1, <1>4, <1>5, OutsideStep

\* Nor does any part depend on which registries are blocked.
LEMMA ToggleBlockedStep ==
  ASSUME FinalizerInv, NEW r \in Registries, ToggleBlocked(r)
  PROVE  FinalizerInv'
  <1>1. /\ UNCHANGED <<allNamespaces, live, flagged, finalizer, labels, dashboard, labelsSeen,
                       dashboardSeen, escaped, pc, at, touched, copy>>
        /\ blocked' = (blocked \ {r}) \cup ({r} \ blocked)
    BY DEF ToggleBlocked, sharedVars, cacheVars, localVars
  <1>2. events' \in 0..MaxEvents
    BY EventType DEF ToggleBlocked, FinalizerInv, TypeOK
  <1>3. TypeOK'
    BY <1>1, <1>2 DEF FinalizerInv, TypeOK
  <1> QED
    BY <1>1, <1>3, OutsideStep

\* The caches catch up; FinalizerInv does not speak of them.
LEMMA SyncStep ==
  ASSUME FinalizerInv,
         \/ \E n \in Namespaces : SyncNamespace(n)
         \/ \E a \in Names : SyncDashboard(a)
         \/ UNCHANGED vars
  PROVE  FinalizerInv'
  <1>1. UNCHANGED <<allNamespaces, live, flagged, finalizer, blocked, labels, dashboard, escaped, events, pc,
                    at, touched, copy>>
    BY DEF SyncNamespace, SyncDashboard, vars, registryVars, sharedVars, localVars
  <1>2. /\ labelsSeen' \in [Namespaces -> Labels]
        /\ dashboardSeen' \in [Names -> Namespaces \cup {NoNamespace}]
    BY DEF SyncNamespace, SyncDashboard, vars, cacheVars, FinalizerInv, TypeOK
  <1>3. TypeOK'
    BY <1>1, <1>2 DEF FinalizerInv, TypeOK
  <1> QED
    BY <1>1, <1>3, OutsideStep

\* Every step keeps FinalizerInv.
LEMMA FinalizerStep == FinalizerInv /\ [Next]_vars => FinalizerInv'
  BY StartStep, ApplyDashboardStep, GetNamespaceStep, PatchLabelsStep, AddFinalizerStep,
     ReadLabelsStep, ListStep, RemoveLabelsStep, LookUpStep, DropDashboardStep,
     RemoveFinalizerStep, InterruptStep, CreateRegistryStep, DeleteRegistryStep, EditLabelsStep,
     ToggleBlockedStep, SyncStep DEF Next, Continue

-----------------------------------------------------------------------------
(* Theorems *)

\* Reconcile and manageQuayDeletion keep FinalizerInv while registries come and go
\* and the informers lag behind.
THEOREM FinalizerInvariant == Spec => []FinalizerInv
  BY FinalizerInit, FinalizerStep, PTL DEF Spec

\* Every variable stays in its type; in particular the finalizer is on registries
\* that exist only, and every registry flagged for deletion has it.
THEOREM TypeCorrect == Spec => []TypeOK
  BY FinalizerInvariant, PTL DEF FinalizerInv

\* cleanupNamespaceLabels and cleanupGrafanaConfigMap leave no label and no
\* dashboard without a registry, whatever else is deleted, created or interrupted
\* meanwhile, but for registries without the finalizer and stale reads.
THEOREM NeverOrphans == Spec => []NoOrphans
  BY FinalizerInvariant, PTL DEF FinalizerInv

\* Only RemoveLabels takes the label away.
LEMMA SharedLabelStep ==
  ASSUME FinalizerInv, [Next]_vars, NEW n \in Namespaces, labels[n].managed, ~labels'[n].managed,
         NEW r \in live \cap finalizer
  PROVE  r[1] # n
  <1>1. CASE RemoveLabels
    <2>1. pc = "unlabel" /\ Ns \in Namespaces
      BY <1>1, AtType DEF RemoveLabels, FinalizerInv
    <2>2. n = Ns
      BY <1>1, <2>1 DEF RemoveLabels, FinalizerInv, TypeOK
    <2> QED
      BY <2>1, <2>2 DEF FinalizerInv, CleanupInv
  <1>2. CASE PatchLabels
    <2>1. Ns \in Namespaces
      BY <1>2, AtType DEF PatchLabels, FinalizerInv
    <2> QED
      BY <1>2, <2>1 DEF PatchLabels, FinalizerInv, TypeOK
  <1>3. CASE \E m \in Namespaces : EditLabels(m)
    <2>1. PICK m \in Namespaces : labels' = [labels EXCEPT ![m].monitoring = ~@]
      BY <1>3 DEF EditLabels
    <2>2. labels'[n].managed = labels[n].managed
      BY <2>1 DEF FinalizerInv, TypeOK, Labels
    <2> QED
      BY <2>2
  <1>4. CASE labels' = labels
    BY <1>4
  <1> QED
    BY <1>1, <1>2, <1>3, <1>4 DEF Next, Continue, StartReconcile, CreateRegistry, DeleteRegistry,
         ApplyDashboard, GetNamespace, AddFinalizer, ReadLabels, ListRegistries, LookUpDashboard,
         DropDashboard, RemoveFinalizer, Interrupt, StopBlocked, ToggleBlocked, SyncNamespace, SyncDashboard, vars, sharedVars

\* RemoveLabels takes the managed label from a namespace only while no registry in
\* it has been reconciled completely, although the list it relies on was read by
\* an earlier request.
THEOREM SharedLabelAlwaysKept == Spec => SharedLabelKept
  <1>1. FinalizerInv /\ [Next]_vars =>
          [\A n \in Namespaces : labels[n].managed /\ ~labels'[n].managed =>
             \A r \in live \cap finalizer : r[1] # n]_vars
    BY SharedLabelStep
  <1> QED
    BY <1>1, FinalizerInvariant, PTL DEF Spec, SharedLabelKept
=============================================================================
