-------------------------- MODULE ComponentChecks --------------------------
(***************************************************************************)
(* The health checks of pkg/cmpstatus: what each of them reports of the    *)
(* objects of its component.                                               *)
(*                                                                         *)
(* The state of a component is whether it is managed and what its check    *)
(* reads of its objects.                                                   *)
(* A Deployment is abstracted to the first of its flaws that deploy.check  *)
(* and its callers look for.  A condition records whether the check put a  *)
(* time on it.                                                             *)
(***************************************************************************)
EXTENDS Sequences

Independent == <<"hpa", "route", "monitoring">>
Needed      == <<"postgres", "objectstorage", "clair", "clairpostgres", "tls", "redis">>

\* The order in which Evaluate looks at the components.
Order == Independent \o Needed \o <<"quay", "mirror">>

Elements(s) == {s[i] : i \in DOMAIN s}
Components  == Elements(Order)

-----------------------------------------------------------------------------
(* What the checks read *)

DepStates == {"absent", "foreign", "zero", "nocondition", "unavailable", "available"}
PVCs      == {"unused", "absent", "pending", "failed", "bound"}
Owned     == {"absent", "foreign", "owned"}

Scalable == [dep : DepStates, scaledDown : BOOLEAN]
Database == [dep : DepStates, pvc : PVCs]

Autoscalers == {"quay-app", "clair-app", "quay-mirror"}

\* In a list of objects only those the registry owns count.
ObjectsOf(c) ==
  CASE c = "hpa"                           -> [Autoscalers -> Owned]
    [] c = "route"                         -> SUBSET {"noingress", "refused", "admitted"}
    [] c = "monitoring"                    -> [rule : Owned, monitor : Owned \cup {"error"}]
    [] c \in {"postgres", "clairpostgres"} -> Database
    [] c = "objectstorage"                 -> SUBSET {"unbound", "bound"}
    [] c \in {"clair", "mirror"}           -> Scalable
    [] c = "redis"                         -> DepStates
    [] c = "tls"                           -> [bundle : BOOLEAN, cert : BOOLEAN, key : BOOLEAN,
                                               ref : {"none", "valid", "invalid"}]
    [] c = "quay"                          -> [job : {"unfinished", "succeeded"},
                                               dep : DepStates, scaledDown : BOOLEAN]

\* The objects of a component that is managed and well.
HealthyObjects(c) ==
  CASE c = "hpa"                           -> [s \in Autoscalers |-> "owned"]
    [] c = "route"                         -> {"admitted"}
    [] c = "monitoring"                    -> [rule |-> "owned", monitor |-> "owned"]
    [] c \in {"postgres", "clairpostgres"} -> [dep |-> "available", pvc |-> "bound"]
    [] c = "objectstorage"                 -> {"bound"}
    [] c \in {"clair", "mirror"}           -> [dep |-> "available", scaledDown |-> FALSE]
    [] c = "redis"                         -> "available"
    [] c = "tls"                           -> [bundle |-> TRUE, cert |-> FALSE, key |-> FALSE,
                                               ref |-> "none"]
    [] c = "quay"                          -> [job |-> "succeeded", dep |-> "available",
                                               scaledDown |-> FALSE]

StatesOf(c)     == [managed : BOOLEAN, objects : ObjectsOf(c)]
HealthyState(c) == [managed |-> TRUE, objects |-> HealthyObjects(c)]

-----------------------------------------------------------------------------
(* Conditions *)

Condition(status, reason) == [status |-> status, reason |-> reason, stamped |-> TRUE]

Ready     == Condition("True", "ComponentReady")
Unmanaged == Condition("True", "ComponentNotManaged")
NotReady  == Condition("False", "ComponentNotReady")

\* The zero Condition: its empty type makes it vanish from the status.
Zero == [status |-> "", reason |-> "", stamped |-> FALSE]

ReadyIf(p) == IF p THEN Ready ELSE NotReady

-----------------------------------------------------------------------------
(* The checks *)

\* deploy.check, after the Get and the check of the owner.
CheckDeployment(dep) == ReadyIf(dep = "available")

Exists(dep) == dep \notin {"absent", "foreign"}

\* Scaling a component to zero is what the user asked for.
CheckScalable(s) ==
  IF s.scaledDown THEN ReadyIf(s.dep = "zero") ELSE CheckDeployment(s.dep)

CheckDatabase(s) ==
  IF ~Exists(s.dep) THEN NotReady
  ELSE CASE s.pvc = "absent"  -> NotReady
         [] s.pvc = "failed"  -> Condition("False", "PVCProvisioningFailed")
         [] s.pvc = "pending" -> Condition("False", "PVCPending")
         [] OTHER             -> CheckDeployment(s.dep)

CheckPostgres(s)      == CheckDatabase(s)
CheckClairPostgres(s) == CheckDatabase(s)
CheckClair(s)         == CheckScalable(s)
CheckMirror(s)        == CheckScalable(s)
CheckRedis(s)         == CheckDeployment(s)

\* The upgrade Job comes first; a missing one counts as unfinished.
CheckQuay(s) == IF s.job = "unfinished" THEN NotReady ELSE CheckScalable(s)

CheckHPA(s) == ReadyIf(\A n \in DOMAIN s : s[n] = "owned")

\* A failed Get of the ServiceMonitor is reported neither as an error nor as
\* a condition.
CheckMonitoring(s) ==
  IF s.rule = "owned" /\ s.monitor = "error" THEN Zero
  ELSE ReadyIf(s.rule = "owned" /\ s.monitor = "owned")

\* TLS is never reported as unmanaged.
CheckTLS(managed, s) ==
  IF ~s.bundle THEN NotReady
  ELSE IF s.ref # "none" THEN ReadyIf(~s.cert /\ ~s.key /\ s.ref = "valid")
  ELSE IF managed THEN ReadyIf(~s.cert /\ ~s.key)
  ELSE ReadyIf(s.cert /\ s.key)

\* The first object the List returns decides: any of them may be it.
CheckFirst(s, wanted) ==
  IF s = {} THEN {NotReady} ELSE {ReadyIf(x = wanted) : x \in s}

CheckRoute(s)         == CheckFirst(s, "admitted")
CheckObjectStorage(s) == CheckFirst(s, "bound")

\* The conditions the check of a component may return.  The base component
\* quay is not asked whether it is managed.
Check(c, state) ==
  LET s == state.objects IN
  IF c \notin {"tls", "quay"} /\ ~state.managed THEN {Unmanaged}
  ELSE CASE c = "tls"           -> {CheckTLS(state.managed, s)}
         [] c = "quay"          -> {CheckQuay(s)}
         [] c = "hpa"           -> {CheckHPA(s)}
         [] c = "route"         -> CheckRoute(s)
         [] c = "monitoring"    -> {CheckMonitoring(s)}
         [] c = "postgres"      -> {CheckPostgres(s)}
         [] c = "objectstorage" -> CheckObjectStorage(s)
         [] c = "clair"         -> {CheckClair(s)}
         [] c = "clairpostgres" -> {CheckClairPostgres(s)}
         [] c = "redis"         -> {CheckRedis(s)}
         [] c = "mirror"        -> {CheckMirror(s)}
=============================================================================
