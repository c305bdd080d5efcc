------------------------ MODULE RegistryStatusProofs ------------------------
(***************************************************************************)
(* Proofs about RegistryStatus, for every bound and every set of components*)
(* that change while they are checked.                                     *)
(*                                                                         *)
(* CheckOutcomes is what the checks of pkg/cmpstatus promise Evaluate.     *)
(* FoundInv says what a pass has found of the components it has looked at, *)
(* CopyInv that a copy with the current resourceVersion is the status.     *)
(***************************************************************************)
EXTENDS RegistryStatus, SequenceTheorems, TLAPS

NotReadyYet == [NotReady EXCEPT !.stamped = FALSE]

\* Every condition a check or Evaluate gives to a component.
Outcomes(c) ==
  {Ready, Unmanaged, NotReady}
    \cup (IF c = "mirror" THEN {NotReadyYet} ELSE {})
    \cup (IF c = "monitoring" THEN {Zero} ELSE {})
    \cup (IF c \in {"postgres", "clairpostgres"}
            THEN {Condition("False", "PVCProvisioningFailed"), Condition("False", "PVCPending")}
            ELSE {})

Faulty(c) == found[c].status = "False" /\ found[c].reason = "ComponentNotReady"

\* The components before the stage have been checked, and quay and the mirror were
\* found faulty when something they need was.
FoundInv ==
  /\ \A i \in DOMAIN Order : i < stage => found[Order[i]] \in Outcomes(Order[i])
  /\ stage > 10 /\ Failed # {} => Faulty("quay")
  /\ stage > 11 /\ found["quay"].status # "True" => Faulty("mirror")

\* A copy that may be written back is the status.
CopyInv == fresh => copy = conds

WorldInv == DOMAIN world = Components

StatusInv ==
  TypeOK /\ WorldInv /\ FoundInv /\ CopyInv /\ AvailableMeansAll /\ DependenciesShow

-----------------------------------------------------------------------------
(* The components *)

\* What Order lists, by position: the sequences it is put together from in front of
\* one another.
LEMMA OrderSequence ==
  /\ Len(Order) = 11
  /\ Order[1] = "hpa" /\ Order[2] = "route" /\ Order[3] = "monitoring"
  /\ Order[4] = "postgres" /\ Order[5] = "objectstorage" /\ Order[6] = "clair"
  /\ Order[7] = "clairpostgres" /\ Order[8] = "tls" /\ Order[9] = "redis"
  /\ Order[10] = "quay" /\ Order[11] = "mirror"
  /\ DOMAIN Order = 1..11
  <1> DEFINE names == {"hpa", "route", "monitoring", "postgres", "objectstorage", "clair",
                       "clairpostgres", "tls", "redis", "quay", "mirror"}
             nine == Independent \o Needed
             last == <<"quay", "mirror">>
  <1>1. /\ Independent \in Seq(names) /\ Len(Independent) = 3
        /\ Independent[1] = "hpa" /\ Independent[2] = "route" /\ Independent[3] = "monitoring"
    BY DEF Independent
  <1>2. /\ Needed \in Seq(names) /\ Len(Needed) = 6
        /\ Needed[1] = "postgres" /\ Needed[2] = "objectstorage" /\ Needed[3] = "clair"
        /\ Needed[4] = "clairpostgres" /\ Needed[5] = "tls" /\ Needed[6] = "redis"
    BY DEF Needed
  <1>3. last \in Seq(names) /\ Len(last) = 2 /\ last[1] = "quay" /\ last[2] = "mirror"
    OBVIOUS
  <1> HIDE DEF names, last
  <1>4. /\ nine \in Seq(names) /\ Len(nine) = Len(Independent) + Len(Needed)
        /\ \A i \in 1..(Len(Independent) + Len(Needed)) :
             nine[i] = IF i <= Len(Independent) THEN Independent[i]
                       ELSE Needed[i - Len(Independent)]
    BY <1>1, <1>2, ConcatProperties, Zenon
  <1> HIDE DEF nine
  <1>5. /\ nine \in Seq(names) /\ Len(nine) = 9
        /\ \A i \in 1..9 : nine[i] = IF i <= 3 THEN Independent[i] ELSE Needed[i - 3]
    BY <1>1, <1>2, <1>4
  <1>6. Order = nine \o last
    BY DEF Order, nine, last
  <1>7. /\ Order \in Seq(names) /\ Len(Order) = Len(nine) + Len(last)
        /\ \A i \in 1..(Len(nine) + Len(last)) :
             Order[i] = IF i <= Len(nine) THEN nine[i] ELSE last[i - Len(nine)]
    BY <1>3, <1>5, <1>6, ConcatProperties, Zenon
  <1>8. /\ Order \in Seq(names) /\ Len(Order) = 11
        /\ \A i \in 1..11 : Order[i] = IF i <= 9 THEN nine[i] ELSE last[i - 9]
    BY <1>3, <1>5, <1>7
  <1> QED
    BY <1>1, <1>2, <1>3, <1>5, <1>8

\* The components are those Order lists.
LEMMA ComponentNames ==
  Components = {"hpa", "route", "monitoring", "postgres", "objectstorage", "clair",
                "clairpostgres", "tls", "redis", "quay", "mirror"}
  <1>1. DOMAIN Order = {1, 2, 3, 4, 5, 6, 7, 8, 9, 10, 11}
    BY OrderSequence
  <1> QED
    BY <1>1, OrderSequence DEF Components, Elements

\* What quay needs.
LEMMA NeededNames ==
  Elements(Needed) = {"postgres", "objectstorage", "clair", "clairpostgres", "tls", "redis"}
  <1>1. DOMAIN Needed = {1, 2, 3, 4, 5, 6}
    BY DEF Needed
  <1> QED
    BY <1>1 DEF Needed, Elements

\* A check reports a component ready, unmanaged or not ready; only a database may
\* have another reason and only the condition of monitoring may be missing.
LEMMA CheckOutcomes ==
  ASSUME NEW c \in Components, NEW state, NEW cond \in Check(c, state)
  PROVE  cond \in Outcomes(c)
  <1> USE DEF Outcomes, ReadyIf
  <1>1. CASE c \in {"tls", "quay"}
    <2>1. CASE c = "tls"
      BY <2>1 DEF Check, CheckTLS
    <2>2. CASE c = "quay"
      BY <2>2 DEF Check, CheckQuay, CheckScalable, CheckDeployment
    <2> QED
      BY <1>1, <2>1, <2>2
  <1>2. CASE c \notin {"tls", "quay"} /\ ~state.managed
    BY <1>2 DEF Check
  <1>3. CASE state.managed /\ c \in {"hpa", "redis", "clair", "mirror"}
    BY <1>3 DEF Check, CheckHPA, CheckRedis, CheckClair, CheckMirror, CheckScalable, CheckDeployment
  <1>4. CASE state.managed /\ c \in {"route", "objectstorage"}
    BY <1>4 DEF Check, CheckRoute, CheckObjectStorage, CheckFirst
  <1>5. CASE state.managed /\ c = "monitoring"
    BY <1>5 DEF Check, CheckMonitoring
  <1>6. CASE state.managed /\ c \in {"postgres", "clairpostgres"}
    BY <1>6 DEF Check, CheckPostgres, CheckClairPostgres, CheckDatabase, CheckDeployment
  <1> QED
    BY <1>1, <1>2, <1>3, <1>4, <1>5, <1>6, ComponentNames

\* Every outcome of a check is a condition.
LEMMA OutcomeType ==
  ASSUME NEW c, NEW cond \in Outcomes(c)
  PROVE  cond \in [status : Statuses, reason : Reasons, stamped : BOOLEAN]
  <1>1. /\ Ready \in [status : Statuses, reason : Reasons, stamped : BOOLEAN]
        /\ Unmanaged \in [status : Statuses, reason : Reasons, stamped : BOOLEAN]
    BY DEF Ready, Unmanaged, Condition, Statuses, Reasons
  <1>2. /\ NotReady \in [status : Statuses, reason : Reasons, stamped : BOOLEAN]
        /\ NotReadyYet \in [status : Statuses, reason : Reasons, stamped : BOOLEAN]
    BY DEF NotReady, NotReadyYet, Condition, Statuses, Reasons
  <1>3. Zero \in [status : Statuses, reason : Reasons, stamped : BOOLEAN]
    BY DEF Zero, Statuses, Reasons
  <1>4. \A r \in {"PVCProvisioningFailed", "PVCPending"} :
          Condition("False", r) \in [status : Statuses, reason : Reasons, stamped : BOOLEAN]
    BY DEF Condition, Statuses, Reasons
  <1> QED
    BY <1>1, <1>2, <1>3, <1>4 DEF Outcomes

\* A healthy cluster is a state of the cluster.
LEMMA HealthyType ==
  ASSUME NEW c \in Components
  PROVE  HealthyState(c) \in StatesOf(c)
  <1>1. HealthyObjects(c) \in ObjectsOf(c)
    <2> USE DEF HealthyObjects, ObjectsOf, Owned, DepStates, PVCs, Database, Scalable
    <2>1. CASE c = "hpa"
      BY <2>1
    <2>2. CASE c = "route"
      BY <2>2
    <2>3. CASE c = "monitoring"
      BY <2>3
    <2>4. CASE c \in {"postgres", "clairpostgres"}
      <3>1. HealthyObjects(c) = [dep |-> "available", pvc |-> "bound"] /\ ObjectsOf(c) = Database
        BY <2>4
      <3> QED
        BY <3>1
    <2>5. CASE c = "objectstorage"
      BY <2>5
    <2>6. CASE c \in {"clair", "mirror"}
      <3>1. HealthyObjects(c) = [dep |-> "available", scaledDown |-> FALSE]
            /\ ObjectsOf(c) = Scalable
        BY <2>6
      <3> QED
        BY <3>1
    <2>7. CASE c = "redis"
      BY <2>7
    <2>8. CASE c = "tls"
      BY <2>8
    <2>9. CASE c = "quay"
      BY <2>9
    <2> QED
      BY <2>1, <2>2, <2>3, <2>4, <2>5, <2>6, <2>7, <2>8, <2>9, ComponentNames
  <1> QED
    BY <1>1 DEF HealthyState, StatesOf

-----------------------------------------------------------------------------
(* Invariants *)

ConditionTypes == [status : Statuses, reason : Reasons, since : 0..MaxClock]

\* Before the first check there are zero conditions.
LEMMA NoneFoundType ==
  NoneFound \in [Components -> [status : Statuses, reason : Reasons, stamped : BOOLEAN]]
  BY DEF NoneFound, Zero, Statuses, Reasons

\* A registry without conditions satisfies StatusInv.
LEMMA StatusInit == Init => StatusInv
  <1> SUFFICES ASSUME Init PROVE StatusInv
    OBVIOUS
  <1> USE RegistryStatusAssumption DEF RegistryStatusAssumption
  <1>1. WorldInv /\ \A c \in Components : world[c] \in StatesOf(c)
    BY HealthyType DEF Init, WorldInv
  <1>2. conds \in [Types -> ConditionTypes] /\ copy = conds
    <2>1. NoCond \in ConditionTypes
      BY DEF NoCond, ConditionTypes, Statuses, Reasons
    <2> QED
      BY <2>1 DEF Init
  <1>3. stage = 0 /\ stage \in 0..LastStage
    BY OrderSequence DEF Init, LastStage
  <1>4. TypeOK
    <2>1. clock \in 1..MaxClock /\ changes \in 0..MaxChanges /\ faults \in 0..MaxFaults
      BY DEF Init
    <2>2. found = NoneFound /\ fresh \in BOOLEAN
      BY DEF Init
    <2> QED
      BY <1>1, <1>2, <1>3, <2>1, <2>2, NoneFoundType DEF TypeOK, ConditionTypes
  <1>5. FoundInv /\ CopyInv
    BY <1>2, <1>3, OrderSequence DEF FoundInv, CopyInv
  <1>6. AvailableMeansAll /\ DependenciesShow
    <2>1. \A t \in Types : conds[t].status = ""
      BY DEF Init, NoCond
    <2>2. {"available", "quay", "mirror"} \subseteq Types
      BY ComponentNames DEF Types
    <2> QED
      BY <2>1, <2>2 DEF AvailableMeansAll, DependenciesShow
  <1> QED
    BY <1>1, <1>4, <1>5, <1>6 DEF StatusInv

\* A pass starts with the status as it is.
LEMMA StartPassStep == StatusInv /\ StartPass => StatusInv'
  <1> SUFFICES ASSUME StatusInv, StartPass PROVE StatusInv'
    OBVIOUS
  <1> USE RegistryStatusAssumption DEF RegistryStatusAssumption, StatusInv, StartPass
  <1>1. TypeOK'
    <2>1. clock' \in 1..MaxClock
      BY DEF TypeOK
    <2>2. stage' \in 0..LastStage
      BY OrderSequence DEF LastStage
    <2> QED
      BY <2>1, <2>2 DEF TypeOK
  <1>2. FoundInv'
    BY OrderSequence DEF FoundInv
  <1>3. WorldInv' /\ CopyInv' /\ AvailableMeansAll' /\ DependenciesShow'
    BY DEF WorldInv, CopyInv, AvailableMeansAll, DependenciesShow
  <1> QED
    BY <1>1, <1>2, <1>3

\* A component is looked at once, after those it awaits.
LEMMA OrderOnce ==
  \A i, j \in DOMAIN Order : Order[i] = Order[j] => i = j
  <1>1. DOMAIN Order = {1, 2, 3, 4, 5, 6, 7, 8, 9, 10, 11}
    BY OrderSequence
  <1> QED
    BY <1>1, OrderSequence

\* Evaluate checks what quay needs before quay.
LEMMA NeededFirst ==
  \A i \in DOMAIN Order : Order[i] \in Elements(Needed) => i < 10
  <1>1. DOMAIN Order = {1, 2, 3, 4, 5, 6, 7, 8, 9, 10, 11}
    BY OrderSequence
  <1> QED
    BY <1>1, OrderSequence, NeededNames

\* A check has one of its outcomes, quay and the mirror fail with what they need.
LEMMA CheckComponentStep == StatusInv /\ CheckComponent => StatusInv'
  <1> SUFFICES ASSUME StatusInv, CheckComponent PROVE StatusInv'
    OBVIOUS
  <1> DEFINE c == Order[stage]
  <1>1. /\ UNCHANGED <<world, conds, copy, fresh, clock, changes, faults>>
        /\ stage \in DOMAIN Order /\ stage \in 1..11 /\ stage' = stage + 1
    BY OrderSequence DEF CheckComponent
  <1>2. c \in Components
    BY <1>1 DEF Components, Elements
  <1>3. PICK cond : /\ cond \in (IF Awaits(c) THEN {Awaiting(c)} ELSE Check(c, world[c]))
                    /\ found' = [found EXCEPT ![c] = cond]
    BY DEF CheckComponent
  <1> HIDE DEF c
  <1>4. Awaits(c) => c \in {"quay", "mirror"}
    BY DEF Awaits
  <1>5. Awaits(c) => cond \in {NotReady, NotReadyYet} /\ (c = "quay" => cond = NotReady)
    BY <1>3 DEF Awaiting, NotReady, NotReadyYet, Condition
  <1>6. cond \in Outcomes(c)
    <2>1. CASE Awaits(c)
      BY <1>4, <1>5, <2>1 DEF Outcomes
    <2>2. CASE ~Awaits(c)
      BY <1>2, <1>3, <2>2, CheckOutcomes
    <2> QED
      BY <2>1, <2>2
  <1>7. found \in [Components -> [status : Statuses, reason : Reasons, stamped : BOOLEAN]]
    BY DEF StatusInv, TypeOK
  <1>8. \A d \in Components : found'[d] = IF d = c THEN cond ELSE found[d]
    BY <1>2, <1>3, <1>7
  <1>9. TypeOK'
    <2>1. found' \in [Components -> [status : Statuses, reason : Reasons, stamped : BOOLEAN]]
      BY <1>2, <1>3, <1>6, <1>7, OutcomeType
    <2>2. stage' \in 0..LastStage
      BY <1>1, OrderSequence DEF LastStage
    <2> QED
      BY <1>1, <2>1, <2>2 DEF StatusInv, TypeOK
  <1>10. FoundInv'
    <2>1. ASSUME NEW i \in DOMAIN Order, i < stage'
          PROVE  found'[Order[i]] \in Outcomes(Order[i])
      <3>1. Order[i] \in Components
        BY DEF Components, Elements
      <3>2. CASE i = stage
        BY <1>2, <1>6, <1>8, <3>2 DEF c
      <3>3. CASE i < stage
        <4>1. Order[i] # c
          BY <1>1, <3>3, OrderOnce, OrderSequence DEF c
        <4> QED
          BY <1>8, <3>1, <3>3, <4>1 DEF StatusInv, FoundInv
      <3> QED
        BY <1>1, <2>1, <3>2, <3>3, OrderSequence
    <2>2. ASSUME stage' > 10
          PROVE  Failed' # {} => Faulty("quay")'
      <3>1. stage \in {10, 11}
        BY <1>1, <2>2
      <3>2. \A d \in Elements(Needed) : d # c /\ d \in Components
        BY <3>1, OrderSequence, ComponentNames, NeededNames DEF c
      <3>3. Failed' = Failed
        BY <1>8, <3>2 DEF Failed
      <3>4. CASE stage = 10
        <4>1. c = "quay"
          BY <3>4, OrderSequence DEF c
        <4>2. Failed # {} => cond = NotReady
          BY <1>5, <4>1 DEF Awaits
        <4>3. found'["quay"] = cond
          BY <1>2, <1>8, <4>1
        <4> QED
          BY <3>3, <4>2, <4>3 DEF Faulty, NotReady, Condition
      <3>5. CASE stage = 11
        <4>1. found'["quay"] = found["quay"]
          BY <1>8, <3>5, OrderSequence, ComponentNames DEF c
        <4> QED
          BY <3>3, <3>5, <4>1 DEF StatusInv, FoundInv, Faulty
      <3> QED
        BY <3>1, <3>4, <3>5
    <2>3. ASSUME stage' > 11
          PROVE  found'["quay"].status # "True" => Faulty("mirror")'
      <3>1. c = "mirror"
        BY <1>1, <2>3, OrderSequence DEF c
      <3>2. found'["quay"] = found["quay"] /\ found'["mirror"] = cond
        BY <1>8, <3>1, ComponentNames
      <3>3. found["quay"].status # "True" => cond \in {NotReady, NotReadyYet}
        BY <1>5, <3>1 DEF Awaits
      <3> QED
        BY <3>2, <3>3 DEF Faulty, NotReady, NotReadyYet, Condition
    <2> QED
      BY <2>1, <2>2, <2>3 DEF FoundInv
  <1>11. WorldInv' /\ CopyInv' /\ AvailableMeansAll' /\ DependenciesShow'
    BY <1>1 DEF StatusInv, WorldInv, CopyInv, AvailableMeansAll, DependenciesShow
  <1> QED
    BY <1>9, <1>10, <1>11 DEF StatusInv

\* What a pass that has looked at everything has found of a component.
LEMMA AllFound ==
  ASSUME StatusInv, stage = LastStage
  PROVE  /\ \A c \in Components : found[c] \in Outcomes(c)
         /\ Failed # {} => Faulty("quay")
         /\ found["quay"].status # "True" => Faulty("mirror")
  <1>1. stage = 12
    BY OrderSequence DEF LastStage
  <1>2. ASSUME NEW c \in Components PROVE found[c] \in Outcomes(c)
    <2>1. PICK i \in DOMAIN Order : Order[i] = c
      BY DEF Components, Elements
    <2>2. i < stage
      BY <1>1, OrderSequence
    <2> QED
      BY <2>1, <2>2 DEF StatusInv, FoundInv
  <1> QED
    BY <1>1, <1>2 DEF StatusInv, FoundInv

\* The conditions of one pass are written together.
LEMMA Written ==
  ASSUME StatusInv, stage = LastStage, NEW c \in Components \ {"monitoring"}
  PROVE  /\ NewCondition(c).status = found[c].status
         /\ found[c].status = "True" \/ found[c].reason = "ComponentNotReady"
              \/ c \in {"postgres", "clairpostgres"}
  <1>1. found[c] \in Outcomes(c) /\ c # "available"
    BY AllFound, ComponentNames
  <1>2. found[c] # Zero
    <2>1. found[c].status \in {"True", "False"}
      BY <1>1 DEF Outcomes, Ready, Unmanaged, NotReady, NotReadyYet, Condition
    <2>2. Zero.status = ""
      BY DEF Zero
    <2> QED
      BY <2>1, <2>2
  <1>3. NewCondition(c).status = found[c].status
    BY <1>1, <1>2 DEF NewCondition
  <1>4. found[c].status = "True" \/ found[c].reason = "ComponentNotReady"
          \/ c \in {"postgres", "clairpostgres"}
    BY <1>1 DEF Outcomes, Ready, Unmanaged, NotReady, NotReadyYet, Condition
  <1> QED
    BY <1>3, <1>4

\* What overwriteConditions writes is a condition.
LEMMA NewConditionType ==
  ASSUME StatusInv, NEW t \in Types
  PROVE  NewCondition(t) \in ConditionTypes
  <1>1. /\ copy[t] \in ConditionTypes /\ clock \in 0..MaxClock /\ 0 \in 0..MaxClock
        /\ t \in Components =>
             found[t].status \in Statuses /\ found[t].reason \in Reasons
    BY RegistryStatusAssumption DEF RegistryStatusAssumption, StatusInv, TypeOK, ConditionTypes
  <1>2. \A s, n : n \in 0..MaxClock => Since(copy[t], s, n) \in 0..MaxClock
    BY <1>1 DEF Since, ConditionTypes
  <1>3. CASE t = "available"
    <2>1. Available.status \in Statuses /\ Available.reason \in Reasons
      BY DEF Available, Statuses, Reasons
    <2> QED
      BY <1>1, <1>2, <1>3, <2>1 DEF NewCondition, ConditionTypes
  <1>4. CASE t # "available"
    <2>1. t \in Components
      BY <1>4 DEF Types
    <2>2. Since(copy[t], found[t].status, IF found[t].stamped THEN clock ELSE 0) \in 0..MaxClock
      BY <1>1, <1>2
    <2> QED
      BY <1>1, <1>4, <2>1, <2>2 DEF NewCondition, ConditionTypes
  <1> QED
    BY <1>3, <1>4

\* A status is written only over the one that was read.
LEMMA WriteStatusStep == StatusInv /\ WriteStatus => StatusInv'
  <1> SUFFICES ASSUME StatusInv, WriteStatus PROVE StatusInv'
    OBVIOUS
  <1>1. /\ UNCHANGED <<world, copy, clock, changes, faults>>
        /\ stage = LastStage /\ stage' = 0 /\ found' = NoneFound /\ fresh' = FALSE
    BY DEF WriteStatus, Return
  <1>2. ASSUME fresh
        PROVE  conds' \in [Types -> ConditionTypes] /\ AvailableMeansAll' /\ DependenciesShow'
    <2>1. conds' = [t \in Types |-> NewCondition(t)]
      BY <1>2 DEF WriteStatus
    <2>2. conds' \in [Types -> ConditionTypes]
      BY <2>1, NewConditionType
    <2>3. \A c \in Components \ {"monitoring"} :
            /\ conds'[c].status = found[c].status
            /\ found[c].status = "True" \/ found[c].reason = "ComponentNotReady"
                 \/ c \in {"postgres", "clairpostgres"}
      BY <1>1, <2>1, Written DEF Types
    <2>4. AvailableMeansAll'
      <3> SUFFICES ASSUME conds'["available"].status = "True",
                          NEW c \in Components \ {"monitoring"}
                   PROVE  found[c].status = "True"
        BY <2>3 DEF AvailableMeansAll
      <3>1. ~FaultySeen
        BY <2>1 DEF NewCondition, Available, Types
      <3>2. Failed = {}
        BY <1>1, <3>1, AllFound, ComponentNames DEF Faulty, FaultySeen
      <3> QED
        BY <2>3, <3>1, <3>2, NeededNames DEF FaultySeen, Failed
    <2>5. DependenciesShow'
      <3>1. \A c \in Elements(Needed) \cup {"quay", "mirror"} : conds'[c].status = found[c].status
        BY <2>3, ComponentNames, NeededNames
      <3>2. found["quay"].status = "True" => Failed = {}
        BY <1>1, AllFound DEF Faulty
      <3>3. found["mirror"].status = "True" => found["quay"].status = "True"
        BY <1>1, AllFound DEF Faulty
      <3> QED
        BY <3>1, <3>2, <3>3 DEF DependenciesShow, Failed
    <2> QED
      BY <2>2, <2>4, <2>5
  <1>3. ASSUME ~fresh
        PROVE  conds' \in [Types -> ConditionTypes] /\ AvailableMeansAll' /\ DependenciesShow'
    BY <1>3 DEF WriteStatus, StatusInv, TypeOK, ConditionTypes, AvailableMeansAll, DependenciesShow
  <1>4. WorldInv' /\ CopyInv'
    BY <1>1 DEF StatusInv, WorldInv, CopyInv
  <1>5. TypeOK'
    <2>1. stage' \in 0..LastStage
      BY <1>1, OrderSequence DEF LastStage
    <2> QED
      BY <1>1, <1>2, <1>3, <2>1, NoneFoundType DEF StatusInv, TypeOK, ConditionTypes
  <1>6. FoundInv'
    BY <1>1, OrderSequence DEF FoundInv
  <1> QED
    BY <1>2, <1>3, <1>4, <1>5, <1>6 DEF StatusInv

\* A failed check ends the pass and leaves the status alone.
LEMMA CheckFailsStep == StatusInv /\ CheckFails => StatusInv'
  <1> SUFFICES ASSUME StatusInv, CheckFails PROVE StatusInv'
    OBVIOUS
  <1>1. /\ UNCHANGED <<world, conds, copy, fresh, clock, changes>>
        /\ stage' = 0 /\ found' = NoneFound
    BY DEF CheckFails, Return
  <1>2. faults' \in 0..MaxFaults /\ stage' \in 0..LastStage
    BY <1>1, OrderSequence, RegistryStatusAssumption
      DEF RegistryStatusAssumption, CheckFails, Fault, StatusInv, TypeOK, LastStage
  <1>3. TypeOK'
    BY <1>1, <1>2, NoneFoundType DEF StatusInv, TypeOK
  <1>4. FoundInv'
    BY <1>1, OrderSequence DEF FoundInv
  <1> QED
    BY <1>1, <1>3, <1>4 DEF StatusInv, WorldInv, CopyInv, AvailableMeansAll, DependenciesShow

\* A write of the main reconciler makes the status reconciler's copy stale.
LEMMA MainWritesStep == StatusInv /\ MainWrites => StatusInv'
  <1> SUFFICES ASSUME StatusInv, MainWrites PROVE StatusInv'
    OBVIOUS
  <1>1. UNCHANGED <<world, conds, copy, found, stage, clock, changes>> /\ fresh' = FALSE
    BY DEF MainWrites, localVars
  <1>2. faults' \in 0..MaxFaults
    BY RegistryStatusAssumption DEF RegistryStatusAssumption, MainWrites, Fault, StatusInv, TypeOK
  <1>3. TypeOK'
    BY <1>1, <1>2 DEF StatusInv, TypeOK
  <1>4. FoundInv'
    BY <1>1 DEF StatusInv, FoundInv, Failed, Faulty
  <1> QED
    BY <1>1, <1>3, <1>4 DEF StatusInv, WorldInv, CopyInv, AvailableMeansAll, DependenciesShow

\* The cluster may change between two checks.
LEMMA ClusterStep ==
  StatusInv /\ (WorldChanges \/ ComponentRecovers \/ UNCHANGED vars) => StatusInv'
  <1> SUFFICES ASSUME StatusInv, WorldChanges \/ ComponentRecovers \/ UNCHANGED vars
               PROVE  StatusInv'
    OBVIOUS
  <1>1. UNCHANGED <<conds, fresh, copy, found, stage, clock, faults>>
    BY DEF WorldChanges, ComponentRecovers, vars, localVars
  <1>2. changes' \in 0..MaxChanges
    BY RegistryStatusAssumption DEF RegistryStatusAssumption, WorldChanges, ComponentRecovers, vars,
                                    StatusInv, TypeOK
  <1>3. world' = world \/ \E c \in Components : \E s \in StatesOf(c) :
                            world' = [world EXCEPT ![c] = s]
    BY HealthyType, RegistryStatusAssumption DEF RegistryStatusAssumption, WorldChanges,
                                                 ComponentRecovers, vars
  <1>4. WorldInv' /\ \A c \in Components : world'[c] \in StatesOf(c)
    BY <1>3 DEF StatusInv, WorldInv, TypeOK
  <1>5. TypeOK'
    BY <1>1, <1>2, <1>4 DEF StatusInv, TypeOK
  <1>6. FoundInv'
    BY <1>1 DEF StatusInv, FoundInv, Failed, Faulty
  <1> QED
    BY <1>1, <1>4, <1>5, <1>6 DEF StatusInv, CopyInv, AvailableMeansAll, DependenciesShow

\* Every step keeps StatusInv.
LEMMA StatusStep == StatusInv /\ [Next]_vars => StatusInv'
  BY StartPassStep, CheckComponentStep, WriteStatusStep, CheckFailsStep, MainWritesStep, ClusterStep
    DEF Next, StatusReconcile

-----------------------------------------------------------------------------
(* Theorems *)

\* The status reconciler keeps StatusInv while the cluster changes under its checks
\* and the main reconciler writes the same object.
THEOREM StatusInvariant == Spec => []StatusInv
  BY StatusInit, StatusStep, PTL DEF Spec

\* Evaluate and overwriteConditions keep every variable in its type.
THEOREM TypeCorrect == Spec => []TypeOK
  BY StatusInvariant, PTL DEF StatusInv

\* A status that says all components are healthy has no condition that is not True,
\* although Available is computed from the reason ComponentNotReady alone: a
\* database whose volume is pending has another reason, but then quay has that one.
THEOREM AvailableAlwaysMeansAll == Spec => []AvailableMeansAll
  BY StatusInvariant, PTL DEF StatusInv

\* No status reports quay ready without what it needs, nor the mirror without quay,
\* even when a check and the next see the cluster at different times.
THEOREM DependenciesAlwaysShow == Spec => []DependenciesShow
  BY StatusInvariant, PTL DEF StatusInv

\* A transition time is renewed by a write that changes the status.
LEMMA TransitionStep ==
  ASSUME StatusInv, [Next]_vars, NEW t \in Types, conds'[t].since # conds[t].since
  PROVE  conds'[t].status # conds[t].status
  <1>1. CASE WriteStatus /\ fresh
    <2>1. conds'[t] = NewCondition(t) /\ copy = conds
      BY <1>1 DEF WriteStatus, StatusInv, CopyInv
    <2> QED
      BY <2>1 DEF NewCondition, Since
  <1>2. CASE conds' = conds
    BY <1>2
  <1> QED
    BY <1>1, <1>2 DEF Next, StatusReconcile, StartPass, CheckComponent, WriteStatus, CheckFails,
         MainWrites, WorldChanges, ComponentRecovers, vars

\* LastTransitionTime moves only with the status of its condition, although it is
\* computed from a copy: a copy that is not the stored status is never written.
THEOREM TransitionsAreAlwaysChanges == Spec => TransitionsAreChanges
  <1>1. StatusInv /\ [Next]_vars =>
          [\A t \in Types : conds'[t].since # conds[t].since =>
                              conds'[t].status # conds[t].status]_vars
    BY TransitionStep
  <1> QED
    BY <1>1, StatusInvariant, PTL DEF Spec, TransitionsAreChanges
=============================================================================
