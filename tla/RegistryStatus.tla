--------------------------- MODULE RegistryStatus ---------------------------
(***************************************************************************)
(* The status reconciler: controllers/quay/quayregistry_status_controller  *)
(* and Evaluate of pkg/cmpstatus.                                          *)
(*                                                                         *)
(* Once a minute it reads the QuayRegistry, checks the components one by   *)
(* one while the cluster goes on changing, and writes the conditions it    *)
(* found, with the overall condition Available, over those of the copy it  *)
(* had read.  The main reconciler writes the same status: its write makes  *)
(* the copy stale, and the update is then refused.                         *)
(***************************************************************************)
EXTENDS ComponentChecks, Integers

CONSTANTS
  Varying,     \* components whose objects change
  MaxChanges,  \* bound: changes of the cluster other than recoveries
  MaxFaults,   \* bound: failed reads and conflicting writes
  MaxClock     \* bound: the clock stops there

ASSUME RegistryStatusAssumption ==
  /\ Varying \subseteq Components
  /\ MaxChanges \in Nat /\ MaxFaults \in Nat /\ MaxClock \in Nat \ {0}

VARIABLES
  world,    \* the objects of each component
  conds,    \* conditions in the status of the QuayRegistry
  copy,     \* the conditions the reconciler read
  fresh,    \* does the copy carry the current resourceVersion?
  found,    \* conditions Evaluate has gathered; Zero where it has none
  stage,    \* 0: idle; 1..11: component being checked; 12: writing
  clock,    \* time.Now()
  changes, faults

localVars == <<copy, found, stage>>
vars == <<world, conds, fresh, localVars, clock, changes, faults>>

Types    == Components \cup {"available"}
NoCond   == [status |-> "", reason |-> "", since |-> 0]
Statuses == {"", "True", "False"}
Reasons  == {"", "ComponentReady", "ComponentNotManaged", "ComponentNotReady", "PVCPending",
             "PVCProvisioningFailed", "HealthChecksPassing"}

LastStage == Len(Order) + 1

TypeOK ==
  /\ \A c \in Components : world[c] \in StatesOf(c)
  /\ conds \in [Types -> [status : Statuses, reason : Reasons, since : 0..MaxClock]]
  /\ copy \in [Types -> [status : Statuses, reason : Reasons, since : 0..MaxClock]]
  /\ found \in [Components -> [status : Statuses, reason : Reasons, stamped : BOOLEAN]]
  /\ fresh \in BOOLEAN /\ stage \in 0..LastStage
  /\ clock \in 1..MaxClock /\ changes \in 0..MaxChanges /\ faults \in 0..MaxFaults

NoneFound == [c \in Components |-> Zero]

Init ==
  /\ world = [c \in Components |-> HealthyState(c)]
  /\ conds = [t \in Types |-> NoCond] /\ copy = conds /\ fresh = FALSE
  /\ found = NoneFound /\ stage = 0
  /\ clock = 1 /\ changes = 0 /\ faults = 0

Fault == faults < MaxFaults /\ faults' = faults + 1

Return == stage' = 0 /\ found' = NoneFound

-----------------------------------------------------------------------------
(* Evaluate *)

StartPass ==
  /\ stage = 0
  /\ copy' = conds /\ fresh' = TRUE
  /\ stage' = 1
  /\ clock' = IF clock < MaxClock THEN clock + 1 ELSE clock
  /\ UNCHANGED <<world, conds, found, changes, faults>>

\* Mutant: PVC problems of a database do not count as its failure.
FailedNotReady == {c \in Elements(Needed) : found[c].reason = "ComponentNotReady"}

Failed == {c \in Elements(Needed) : found[c].status # "True"}

\* A fault in a component quay needs is also quay's, and a fault of quay is the
\* mirror's; the condition that awaits quay alone is written without a time.
Awaits(c) == IF c = "quay" THEN Failed # {} ELSE c = "mirror" /\ found["quay"].status # "True"

Awaiting(c) == [NotReady EXCEPT !.stamped = (c = "quay" \/ Failed # {})]

CheckComponent ==
  /\ stage \in 1..Len(Order)
  /\ LET c == Order[stage] IN
       \E cond \in (IF Awaits(c) THEN {Awaiting(c)} ELSE Check(c, world[c])) :
         found' = [found EXCEPT ![c] = cond]
  /\ stage' = stage + 1
  /\ UNCHANGED <<world, conds, copy, fresh, clock, changes, faults>>

\* A Get or a List fails: Evaluate returns the error and nothing is written.
CheckFails ==
  /\ stage \in 1..Len(Order) /\ ~Awaits(Order[stage])
  /\ Fault
  /\ Return
  /\ UNCHANGED <<world, conds, copy, fresh, clock, changes>>

-----------------------------------------------------------------------------
(* overwriteConditions *)

\* Mutant: every update counts as a transition.
SinceAlwaysNow(old, status, time) == time

\* LastTransitionTime moves with the status.
Since(old, status, time) == IF old.status = status THEN old.since ELSE time

\* Mutant: a check that fails for another reason is not seen as faulty.
FaultySeenUnlessNeeded == \E c \in Components \ {"quay", "mirror"} : found[c].reason = "ComponentNotReady"

FaultySeen == \E c \in Components : found[c].reason = "ComponentNotReady"

\* Mutant: a registry with a faulty component has an unknown status.
AvailableUnknown ==
  [status |-> IF FaultySeen THEN "Unknown" ELSE "True",
   reason |-> IF FaultySeen THEN "ComponentNotReady" ELSE "HealthChecksPassing"]

Available ==
  [status |-> IF FaultySeen THEN "False" ELSE "True",
   reason |-> IF FaultySeen THEN "ComponentNotReady" ELSE "HealthChecksPassing"]

NewCondition(t) ==
  IF t = "available"
    THEN [status |-> Available.status, reason |-> Available.reason,
          since  |-> Since(copy[t], Available.status, clock)]
  ELSE IF found[t] = Zero THEN copy[t]
  ELSE [status |-> found[t].status, reason |-> found[t].reason,
        since  |-> Since(copy[t], found[t].status, IF found[t].stamped THEN clock ELSE 0)]

\* Mutant: after a conflict the components are checked again, but the object
\* is not read again.
WriteStatusKeepsCopy ==
  /\ stage = LastStage
  /\ conds' = IF fresh THEN [t \in Types |-> NewCondition(t)] ELSE conds
  /\ stage' = IF fresh THEN 0 ELSE 1
  /\ found' = NoneFound /\ fresh' = FALSE
  /\ UNCHANGED <<world, copy, clock, changes, faults>>

\* A conflict is left to the next pass, which reads the object again.
WriteStatus ==
  /\ stage = LastStage
  /\ conds' = IF fresh THEN [t \in Types |-> NewCondition(t)] ELSE conds
  /\ fresh' = FALSE
  /\ Return
  /\ UNCHANGED <<world, copy, clock, changes, faults>>

-----------------------------------------------------------------------------
(* Everybody else *)

\* The main reconciler writes RolloutBlocked or ComponentsCreated.
MainWrites ==
  /\ fresh
  /\ Fault
  /\ fresh' = FALSE
  /\ UNCHANGED <<world, conds, localVars, clock, changes>>

WorldChanges ==
  /\ changes < MaxChanges /\ changes' = changes + 1
  /\ \E c \in Varying : \E s \in StatesOf(c) \ {world[c]} :
       world' = [world EXCEPT ![c] = s]
  /\ UNCHANGED <<conds, fresh, localVars, clock, faults>>

ComponentRecovers ==
  /\ \E c \in Varying :
       /\ world[c] # HealthyState(c)
       /\ world' = [world EXCEPT ![c] = HealthyState(c)]
  /\ UNCHANGED <<conds, fresh, localVars, clock, changes, faults>>

-----------------------------------------------------------------------------

StatusReconcile == StartPass \/ CheckComponent \/ WriteStatus

Next == StatusReconcile \/ CheckFails \/ MainWrites \/ WorldChanges \/ ComponentRecovers

Spec == Init /\ [][Next]_vars

\* Every pass reschedules the next one; failures and conflicts end.
FairSpec == Spec /\ WF_vars(StatusReconcile)

-----------------------------------------------------------------------------
(* Properties *)

\* "All components reporting as healthy" (Available) is never in the status
\* together with a component's condition that is not True, although the
\* overall condition is computed from the reasons of the conditions only.  The
\* exception is monitoring: its check drops the error of a failed Get.
AvailableMeansAll ==
  conds["available"].status = "True" =>
    \A c \in Components \ {"monitoring"} : conds[c].status = "True"

\* The conditions respect the dependencies Evaluate maps: quay is not reported
\* ready while a component it needs is not, nor the mirror while quay is not.
DependenciesShow ==
  /\ conds["quay"].status = "True" => \A c \in Elements(Needed) : conds[c].status = "True"
  /\ conds["mirror"].status = "True" => conds["quay"].status = "True"

\* LastTransitionTime of a condition changes only with its status.
TransitionsAreChanges ==
  [][\A t \in Types : conds'[t].since # conds[t].since => conds'[t].status # conds[t].status]_vars

WellFor(c) == \A cond \in Check(c, world[c]) : cond.status = "True"
IllFor(c)  == \A cond \in Check(c, world[c]) : cond.status = "False"

\* When the cluster settles the status tells the truth about it.
StatusConverges ==
  /\ <>[](\A c \in Components : WellFor(c)) => <>[](conds["available"].status = "True")
  /\ <>[](\E c \in Components : IllFor(c)) => <>[](conds["available"].status = "False")
=============================================================================
