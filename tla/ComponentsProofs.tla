-------------------------- MODULE ComponentsProofs --------------------------
(***************************************************************************)
(* Proofs about Components, for every set of components and overrides and  *)
(* every number of edits and failures.                                     *)
(*                                                                         *)
(* A pass works on a registry, a bundle and answers about APIs it has read *)
(* one after the other.  PassInv says what these have to do with each      *)
(* other and with the registry as stored, at each point of the pass;       *)
(* BundleInv counts the bundles that a pass created and lost.              *)
(***************************************************************************)
EXTENDS Components, TLAPS

\* A bundle is lost by a failure or by an edit between its creation and the write
\* of the reference, and then another one is created.
BundleInv ==
  /\ bundles <= faults + edits + 1
  /\ pc = "idle" => ~touched
  /\ pc \in {"bundle", "reference"} => ~bundle
  /\ ~bundle => bundles + (IF touched THEN 1 ELSE 0)
                  <= faults + edits + (IF pc = "reference" THEN 1 ELSE 0)

HasAsked == {"storage", "monitoring", "default", "update", "check"}
HasRead  == HasAsked \cup {"probe", "probing", "dropProbe"}

\* The pass has kept what the user declared.
Faithful(c, s) ==
  \A k \in Kinds \ {"quay"} : s.components[k] # "absent" => c.components[k] = s.components[k]

\* What a pass renders.
Complete(s) ==
  /\ \A k \in Kinds : s.components[k] # "absent"
  /\ \A o \in s.overrides : Managed(s.components, o[1])
  /\ s.components["route"] = "managed" => "route" \in apis

\* What a pass has read and computed, and what it has to do with the registry.
PassInv ==
  /\ supports \subseteq apis
  /\ pc \in HasRead /\ copy.secretRef => "tls" \notin cfg
  /\ pc = "dropProbe" => hostname # "unknown"
  /\ pc \in HasAsked /\ NeedsProbe(copy, cfg) => hostname # "unknown" \/ unprobed
  /\ pc = "check" => Complete(copy)
  /\ pc # "idle" /\ ~touched => Faithful(copy, spec)

ComponentsInv == TypeOK /\ BundleInv /\ PassInv /\ RenderedIsConsistent

-----------------------------------------------------------------------------
(* Types *)

\* The empty copy has the shape of a registry.
LEMMA NoSpecType == NoSpec \in Specs
  BY DEF NoSpec, Specs, Declarations

\* Defaults complete the user's declarations and change none but that of quay.
LEMMA WithDefaultsType ==
  ASSUME NEW c \in [Kinds -> Declarations]
  PROVE  /\ WithDefaults(c) \in [Kinds -> Declarations]
         /\ \A k \in Kinds : WithDefaults(c)[k] # "absent"
         /\ \A k \in Kinds \ {"quay"} : c[k] # "absent" => WithDefaults(c)[k] = c[k]
  <1>1. \A k \in Kinds : WithDefaults(c)[k] =
          IF k = "quay" THEN "managed" ELSE IF c[k] = "absent" THEN DefaultFor(k) ELSE c[k]
    BY DEF WithDefaults
  <1>2. \A k \in Kinds : DefaultFor(k) \in {"managed", "unmanaged"}
    BY DEF DefaultFor
  <1>3. \A k \in Kinds : WithDefaults(c)[k] \in Declarations \ {"absent"}
    BY <1>1, <1>2 DEF Declarations
  <1>4. WithDefaults(c) = [k \in Kinds |-> WithDefaults(c)[k]]
    BY DEF WithDefaults
  <1> QED
    BY <1>1, <1>3, <1>4

\* What EditSpec makes of the registry.
LEMMA EditedType ==
  ASSUME NEW s \in Specs
  PROVE  /\ \A k \in Kinds, m \in {"managed", "unmanaged"} :
              [s EXCEPT !.components[k] = m] \in Specs
         /\ \A o \in OverrideKinds : [s EXCEPT !.overrides = @ \cup {o}] \in Specs
         /\ [s EXCEPT !.secretRef = TRUE] \in Specs
  BY DEF Specs, Declarations

\* Initial states are typed.
LEMMA TypeInit == Init => TypeOK
  <1> SUFFICES ASSUME Init PROVE TypeOK
    OBVIOUS
  <1> USE ConstantsAssumption DEF ConstantsAssumption, Init
  <1>1. spec \in Specs /\ copy \in Specs
    BY NoSpecType
  <1>2. rendered \in [spec : Specs, config : SUBSET Configurable, host : Hosts]
    BY NoSpecType DEF Nothing, Hosts
  <1>3. /\ bundles \in 0..(MaxFaults + MaxEdits + 1)
        /\ edits \in 0..MaxEdits /\ faults \in 0..MaxFaults
    OBVIOUS
  <1>4. /\ bundle \in BOOLEAN /\ readable \in BOOLEAN /\ external \in BOOLEAN /\ fits \in BOOLEAN
        /\ blocked \in BOOLEAN /\ touched \in BOOLEAN /\ valid \in BOOLEAN /\ unprobed \in BOOLEAN
    OBVIOUS
  <1> QED
    BY <1>1, <1>2, <1>3, <1>4 DEF TypeOK, Probes

\* What Return and Block, which end a pass, leave in the operator's memory.
LEMMA ResetType ==
  Reset => copy' \in Specs /\ touched' \in BOOLEAN /\ cfg' \subseteq Configurable
           /\ valid' \in BOOLEAN /\ unprobed' \in BOOLEAN /\ supports' \subseteq APIs
  BY NoSpecType DEF Reset

\* Failures are counted.
LEMMA FaultType ==
  faults \in 0..MaxFaults /\ Fault => faults' \in 0..MaxFaults /\ faults' = faults + 1
  BY ConstantsAssumption DEF ConstantsAssumption, Fault

Places == {"idle", "bundle", "reference", "config", "probe", "probing", "dropProbe",
           "storage", "monitoring", "default", "update", "check"}

\* The variables of the pass, the ones most steps change.
PassType ==
  /\ pc \in Places /\ copy \in Specs /\ touched \in BOOLEAN /\ cfg \subseteq Configurable
  /\ valid \in BOOLEAN /\ unprobed \in BOOLEAN
  /\ supports \subseteq APIs /\ blocked \in BOOLEAN /\ faults \in 0..MaxFaults

Claims    == {"none", "new", "processed"}
HostNames == {"unknown", "empty", "known"}

\* Steps of Reconcile that leave the registry and the bundle alone.
LEMMA PassStepType ==
  ASSUME TypeOK, PassType', UNCHANGED <<userVars, bundles, edits>>,
         claim' \in Claims, probe' \in Probes, hostname' \in HostNames,
         rendered' \in [spec : Specs, config : SUBSET Configurable, host : Hosts]
  PROVE  TypeOK'
  BY DEF TypeOK, PassType, Places, userVars, secretVars, Claims, HostNames

\* The ways to end a pass and to go on with it.
LEMMA EndType ==
  ASSUME PassType, faults' \in 0..MaxFaults,
         Return \/ Block \/ (\E l \in Places : GoTo(l) /\ UNCHANGED blocked)
  PROVE  PassType'
  <1>1. CASE Return \/ Block
    BY <1>1, ResetType DEF PassType, Places, Return, Block
  <1>2. CASE \E l \in Places : GoTo(l) /\ UNCHANGED blocked
    BY <1>2 DEF PassType, GoTo, readVars
  <1> QED
    BY <1>1, <1>2

\* An answer about an API keeps the types.
LEMMA FoundType ==
  ASSUME PassType, apis \subseteq APIs, NEW a, NEW next \in Places, Found(a, next)
  PROVE  PassType'
  BY DEF PassType, Found

\* So does one that is missing.
LEMMA NotFoundType ==
  ASSUME PassType, NEW a, NEW next \in Places, NotFound(a, next)
  PROVE  PassType'
  <1>1. faults' \in 0..MaxFaults
    BY FaultType DEF NotFound, PassType
  <1> QED
    BY <1>1, EndType DEF NotFound, BlockIfManaged

\* Every step stays in the types; BundleInv bounds the bundles.
LEMMA TypeStep == TypeOK /\ BundleInv /\ [Next]_vars => TypeOK'
  <1> SUFFICES ASSUME TypeOK, BundleInv, [Next]_vars PROVE TypeOK'
    OBVIOUS
  <1> USE ConstantsAssumption DEF ConstantsAssumption
  <1> DEFINE Renderings == [spec : Specs, config : SUBSET Configurable, host : Hosts]
  <1>0. /\ probe \in Probes /\ hostname \in HostNames /\ claim \in Claims
        /\ rendered \in Renderings /\ PassType
    BY DEF TypeOK, PassType, Places, HostNames, Claims
  <1>1. CASE StartReconcile
    <2>1. PassType'
      BY <1>1 DEF StartReconcile, TypeOK, PassType, Places, statusVars, boundVars
    <2> QED
      BY <1>0, <1>1, <2>1, PassStepType DEF StartReconcile, probeVars, statusVars, boundVars
  <1>2. CASE CreateBundle
    <2>1. bundles' \in 0..(MaxFaults + MaxEdits + 1)
      BY <1>2 DEF CreateBundle, TypeOK, BundleInv
    <2>2. pc' = "reference" /\ UNCHANGED <<copy, cfg, valid, unprobed, supports, touched>>
      BY <1>2 DEF CreateBundle, GoTo, readVars
    <2> QED
      BY <1>2, <2>1, <2>2 DEF CreateBundle, TypeOK, userVars, secretVars, probeVars, statusVars, boundVars
  <1>3. CASE UpdateBundleReference
    <2>1. bundle' \in BOOLEAN
      BY <1>3 DEF UpdateBundleReference, TypeOK
    <2>2. pc' = "idle" /\ Reset /\ UNCHANGED blocked
      BY <1>3 DEF UpdateBundleReference, Return
    <2> QED
      BY <1>3, <2>1, <2>2, ResetType DEF UpdateBundleReference, TypeOK, secretVars, probeVars, boundVars
  <1>4. CASE GetConfigBundle
    <2>1. PassType'
      <3>1. CASE Block
        BY <1>0, <1>4, <3>1, EndType DEF GetConfigBundle, PassType, boundVars
      <3>2. CASE ~Block
        BY <1>4, <3>2 DEF GetConfigBundle, PassType, TypeOK, Places, boundVars
      <3> QED
        BY <3>1, <3>2
    <2>2. UNCHANGED <<userVars, bundles, claim, probe, hostname, rendered, edits>>
      BY <1>4 DEF GetConfigBundle, probeVars, boundVars
    <2> QED
      BY <1>0, <2>1, <2>2, PassStepType
  <1>5. CASE CreateProbe
    <2>1. faults' \in 0..MaxFaults
      BY <1>5, FaultType DEF CreateProbe, TypeOK
    <2>2. PassType'
      BY <1>0, <1>5, <2>1 DEF CreateProbe, GoTo, PassType, Places, readVars, statusVars
    <2>3. probe' \in Probes
      BY <1>0, <1>5 DEF CreateProbe, Probes
    <2> QED
      BY <1>0, <1>5, <2>2, <2>3, PassStepType DEF CreateProbe, statusVars
  <1>6. CASE GetProbe
    <2>1. hostname' \in HostNames
      BY <1>0, <1>6 DEF GetProbe, Detected, HostNames
    <2>2. PassType'
      BY <1>0, <1>6, EndType DEF GetProbe, PassType, Places, boundVars
    <2> QED
      BY <1>0, <1>6, <2>1, <2>2, PassStepType DEF GetProbe, boundVars
  <1>7. CASE DeleteProbe
    <2>1. faults' \in 0..MaxFaults
      BY <1>7, FaultType DEF DeleteProbe, TypeOK
    <2>2. PassType'
      BY <1>0, <1>7, <2>1 DEF DeleteProbe, GoTo, PassType, Places, readVars, statusVars
    <2>3. probe' \in Probes
      BY <1>0, <1>7 DEF DeleteProbe, Probes
    <2> QED
      BY <1>0, <1>7, <2>2, <2>3, PassStepType DEF DeleteProbe, statusVars
  <1>8. CASE CheckObjectBucketClaims \/ CheckMonitoring
    <2>1. apis \subseteq APIs
      BY DEF TypeOK
    <2>2. PassType'
      <3>1. CASE Found("objectstorage", "monitoring") \/ Found("monitoring", "default")
        BY <1>0, <2>1, <3>1, FoundType DEF Places
      <3>2. CASE NotFound("objectstorage", "monitoring") \/ NotFound("monitoring", "default")
        BY <1>0, <3>2, NotFoundType DEF Places
      <3>3. CASE Block /\ UNCHANGED faults
        BY <1>0, <3>3, EndType DEF PassType
      <3> QED
        BY <1>8, <3>1, <3>2, <3>3 DEF CheckObjectBucketClaims, CheckMonitoring
    <2> QED
      BY <1>0, <1>8, <2>2, PassStepType DEF CheckObjectBucketClaims, CheckMonitoring, probeVars
  <1>9. CASE EnsureDefaults
    <2>1. copy' \in Specs
      <3>1. CASE copy' = [copy EXCEPT !.components = WithDefaults(copy.components)]
        <4>1. WithDefaults(copy.components) \in [Kinds -> Declarations]
          BY WithDefaultsType DEF TypeOK, Specs
        <4> QED
          BY <3>1, <4>1 DEF TypeOK, Specs
      <3> QED
        BY <1>9, <3>1, ResetType DEF EnsureDefaults, Return, Block
    <2>2. /\ pc' \in Places /\ cfg' \subseteq Configurable /\ supports' \subseteq APIs
          /\ valid' \in BOOLEAN /\ unprobed' \in BOOLEAN
      BY <1>0, <1>9, ResetType DEF EnsureDefaults, Return, Block, PassType, Places
    <2>3. touched' \in BOOLEAN /\ blocked' \in BOOLEAN
      BY <1>9 DEF EnsureDefaults, Return, Block, Reset, TypeOK
    <2>4. UNCHANGED <<userVars, bundles, claim, probe, hostname, rendered, edits, faults>>
      BY <1>9 DEF EnsureDefaults, probeVars, boundVars
    <2> QED
      BY <1>0, <2>1, <2>2, <2>3, <2>4, PassStepType DEF PassType
  <1>10. CASE UpdateComponents
    <2>1. spec' \in Specs
      BY <1>10 DEF UpdateComponents, TypeOK
    <2>2. pc' = "idle" /\ Reset /\ UNCHANGED blocked
      BY <1>10 DEF UpdateComponents, Return
    <2> QED
      BY <1>10, <2>1, <2>2, ResetType DEF UpdateComponents, TypeOK, secretVars, probeVars, boundVars
  <1>11. CASE Render
    <2>1. rendered' \in Renderings
      <3>1. Host \in Hosts
        BY DEF Host, Hosts
      <3> QED
        BY <1>0, <1>11, <3>1 DEF Render, TypeOK
    <2>2. pc' = "idle" /\ Reset /\ blocked' \in BOOLEAN
      BY <1>11 DEF Render, Block, TypeOK
    <2>3. UNCHANGED <<userVars, bundles, probe, hostname, edits, faults>>
      BY <1>11 DEF Render, probeVars, boundVars
    <2>4. claim' \in Claims
      BY <1>0, <1>11 DEF Render, AppliedClaim, Claims
    <2> QED
      BY <1>0, <2>1, <2>2, <2>3, <2>4, ResetType, PassStepType DEF PassType, Places
  <1>12. CASE Interrupt
    <2>1. faults' \in 0..MaxFaults
      BY <1>12, FaultType DEF Interrupt, TypeOK
    <2>2. hostname' \in HostNames
      BY <1>0, <1>12 DEF Interrupt, HostNames
    <2>3. PassType'
      BY <1>0, <1>12, <2>1, EndType DEF Interrupt
    <2> QED
      BY <1>0, <1>12, <2>2, <2>3, PassStepType DEF Interrupt
  <1>13. CASE EditSpec
    <2>1. spec' \in Specs
      <3>1. spec \in Specs
        BY DEF TypeOK
      <3>2. CASE \E k \in Kinds, m \in {"managed", "unmanaged"} :
                   spec' = [spec EXCEPT !.components[k] = m]
        <4>1. PICK k \in Kinds, m \in {"managed", "unmanaged"} :
                spec' = [spec EXCEPT !.components[k] = m]
          BY <3>2
        <4>2. [spec EXCEPT !.components[k] = m] \in Specs
          BY <3>1, EditedType
        <4> QED
          BY <4>1, <4>2
      <3>3. CASE \E o \in OverrideKinds : spec' = [spec EXCEPT !.overrides = @ \cup {o}]
        BY <3>1, <3>3, EditedType
      <3>4. CASE spec' = [spec EXCEPT !.secretRef = TRUE]
        BY <3>1, <3>4, EditedType
      <3> QED
        BY <1>13, <3>2, <3>3, <3>4 DEF EditSpec
    <2>2. edits' \in 0..MaxEdits
      BY <1>13 DEF EditSpec, Edit, TypeOK
    <2>3. touched' \in BOOLEAN
      BY <1>13 DEF EditSpec
    <2> QED
      BY <1>13, <2>1, <2>2, <2>3 DEF EditSpec, TypeOK, secretVars, probeVars, statusVars, readVars
  <1>14. CASE EditSecrets
    <2>1. config' \subseteq Configurable
      BY <1>14 DEF EditSecrets, TypeOK
    <2>2. edits' \in 0..MaxEdits
      BY <1>14 DEF EditSecrets, Edit, TypeOK
    <2>3. external' \in BOOLEAN /\ readable' \in BOOLEAN /\ fits' \in BOOLEAN
      BY <1>14 DEF EditSecrets, TypeOK
    <2> QED
      BY <1>14, <2>1, <2>2, <2>3 DEF EditSecrets, TypeOK, probeVars, statusVars, readVars
  <1>15. CASE AdmitProbe \/ ProcessClaim
    <2>1. probe' \in Probes /\ claim' \in Claims
      BY <1>0, <1>15 DEF AdmitProbe, ProcessClaim, Probes, Claims, probeVars
    <2>2. UNCHANGED <<userVars, bundles, hostname, statusVars, boundVars, pc, readVars, touched>>
      BY <1>15 DEF AdmitProbe, ProcessClaim, probeVars
    <2> QED
      BY <2>1, <2>2 DEF TypeOK, Claims, userVars, secretVars, statusVars, boundVars, readVars
  <1>16. CASE UNCHANGED vars
    BY <1>16 DEF vars, TypeOK, userVars, secretVars, probeVars, statusVars, boundVars, readVars
  <1> QED
    BY <1>1, <1>2, <1>3, <1>4, <1>5, <1>6, <1>7, <1>8, <1>9, <1>10, <1>11, <1>12, <1>13, <1>14,
       <1>15, <1>16 DEF Next, Reconcile

-----------------------------------------------------------------------------
(* Bundles *)

\* Every step keeps the count of the bundles.
LEMMA BundleStep == TypeOK /\ BundleInv /\ [Next]_vars => BundleInv'
  <1> SUFFICES ASSUME TypeOK, BundleInv, [Next]_vars PROVE BundleInv'
    OBVIOUS
  <1>0. /\ faults \in Nat /\ edits \in Nat /\ bundles \in Nat
        /\ bundle \in BOOLEAN /\ touched \in BOOLEAN
    BY DEF TypeOK
  <1> USE DEF BundleInv
  <1>1. CASE StartReconcile
    BY <1>0, <1>1 DEF StartReconcile, userVars, boundVars
  <1>2. CASE CreateBundle
    BY <1>0, <1>2 DEF CreateBundle, GoTo, userVars, boundVars
  <1>3. CASE UpdateBundleReference
    <2>1. /\ UNCHANGED <<bundles, edits, faults>> /\ pc = "reference"
          /\ pc' = "idle" /\ touched' = FALSE /\ ~bundle
      BY <1>3 DEF UpdateBundleReference, Return, Reset, boundVars
    <2>2. bundle' \/ touched
      BY <1>0, <1>3 DEF UpdateBundleReference
    <2> QED
      BY <1>0, <2>1, <2>2
  <1>4. ASSUME UNCHANGED <<bundle, bundles, edits>>, pc # "reference",
               faults' = faults \/ faults' = faults + 1,
               pc' \notin {"bundle", "reference"},
               touched' = touched \/ ~touched', pc' = "idle" => ~touched'
        PROVE  BundleInv'
    BY <1>0, <1>4
  <1>5. CASE GetConfigBundle
    BY <1>4, <1>5 DEF GetConfigBundle, Block, Reset, userVars, boundVars
  <1>6. CASE CreateProbe \/ DeleteProbe
    BY <1>4, <1>6 DEF CreateProbe, DeleteProbe, Fault, GoTo, userVars
  <1>7. CASE GetProbe
    BY <1>4, <1>7 DEF GetProbe, GoTo, Return, Block, Reset, userVars, boundVars
  <1>8. CASE CheckObjectBucketClaims \/ CheckMonitoring
    BY <1>4, <1>8 DEF CheckObjectBucketClaims, CheckMonitoring, Found, NotFound, BlockIfManaged,
                      Fault, GoTo, Block, Reset, userVars
  <1>9. CASE EnsureDefaults
    BY <1>4, <1>9 DEF EnsureDefaults, Return, Block, Reset, userVars, boundVars
  <1>10. CASE UpdateComponents
    BY <1>4, <1>10 DEF UpdateComponents, Return, Reset, boundVars
  <1>11. CASE Render
    BY <1>4, <1>11 DEF Render, Block, Reset, userVars, boundVars
  <1>12. CASE Interrupt
    BY <1>0, <1>12 DEF Interrupt, Fault, Return, Block, Reset, userVars
  <1>13. CASE EditSpec
    BY <1>0, <1>13 DEF EditSpec, Edit
  <1>14. CASE EditSecrets
    BY <1>0, <1>14 DEF EditSecrets, Edit
  <1>15. CASE AdmitProbe \/ ProcessClaim \/ UNCHANGED vars
    BY <1>0, <1>15 DEF AdmitProbe, ProcessClaim, vars, userVars, boundVars
  <1> QED
    BY <1>1, <1>2, <1>3, <1>5, <1>6, <1>7, <1>8, <1>9, <1>10, <1>11, <1>12, <1>13, <1>14, <1>15
      DEF Next, Reconcile

-----------------------------------------------------------------------------
(* The pass *)

\* The Route depends on the API of Routes.
LEMMA RouteIsAsked == "route" \in APIs /\ Needs("route") = "route"
  BY ConstantsAssumption DEF ConstantsAssumption, APIs, Needs

\* Without a pass in hand PassInv says little.
LEMMA IdlePass == pc' = "idle" /\ Reset => PassInv'
  BY DEF Reset, PassInv, HasRead, HasAsked

\* What EnsureDefaultComponents makes of a registry is complete, keeps the choices
\* of the user and asks for no host name that was not asked for before.
LEMMA Defaulted ==
  ASSUME TypeOK, PassInv, pc = "default", Unsupported(copy.components) = {},
         NEW s, s = [copy EXCEPT !.components = WithDefaults(copy.components)],
         OverridesValid(WithDefaults(copy.components), copy.overrides)
  PROVE  /\ Complete(s)
         /\ ~touched => Faithful(s, spec)
         /\ NeedsProbe(s, cfg) => NeedsProbe(copy, cfg)
         /\ s.secretRef = copy.secretRef
  <1> DEFINE c == copy.components
             d == WithDefaults(c)
  <1>1. c \in [Kinds -> Declarations] /\ copy \in Specs
    BY DEF TypeOK, Specs
  <1>2. s.components = d /\ s.overrides = copy.overrides /\ s.secretRef = copy.secretRef
    BY <1>1 DEF Specs
  <1>3. /\ \A k \in Kinds : d[k] # "absent"
        /\ \A k \in Kinds \ {"quay"} : c[k] # "absent" => d[k] = c[k]
    BY <1>1, WithDefaultsType
  <1>4. \A o \in s.overrides : Managed(d, o[1])
    BY <1>2 DEF OverridesValid
  <1>5. d["route"] = "managed" => "route" \in apis
    <2> SUFFICES ASSUME d["route"] = "managed" PROVE "route" \in supports
      BY DEF PassInv
    <2>1. "route" \in Kinds
      BY ConstantsAssumption DEF ConstantsAssumption
    <2>2. CASE c["route"] = "absent"
      <3>1. d["route"] = DefaultFor("route")
        BY <2>1, <2>2 DEF WithDefaults
      <3> QED
        BY <3>1, RouteIsAsked DEF DefaultFor
    <2>3. CASE c["route"] # "absent"
      <3>1. Managed(c, "route")
        BY <1>3, <2>1, <2>3 DEF Managed
      <3> QED
        BY <2>1, <3>1, RouteIsAsked DEF Unsupported
    <2> QED
      BY <2>2, <2>3
  <1>6. ~touched => Faithful(s, spec)
    <2> SUFFICES ASSUME ~touched, NEW k \in Kinds \ {"quay"}, spec.components[k] # "absent"
                 PROVE  d[k] = spec.components[k]
      BY <1>2 DEF Faithful
    <2>1. c[k] = spec.components[k]
      BY DEF PassInv, Faithful
    <2> QED
      BY <1>3, <2>1
  <1>7. Unmanaged(c, "route") => Unmanaged(d, "route")
    BY <1>3 DEF Unmanaged
  <1>8. NeedsProbe(s, cfg) => NeedsProbe(copy, cfg)
    BY <1>2, <1>7 DEF NeedsProbe, HasCert
  <1> QED
    BY <1>2, <1>3, <1>4, <1>5, <1>6, <1>8 DEF Complete

\* A step that goes on with what the pass has read.
LEMMA PassContinues ==
  ASSUME TypeOK, PassInv, pc # "idle", pc' # "check",
         UNCHANGED <<apis, spec, copy, cfg, touched>>, supports' \subseteq apis,
         pc' \in HasRead => pc \in HasRead,
         pc' = "dropProbe" => hostname' # "unknown",
         pc' \in HasAsked /\ NeedsProbe(copy, cfg) => hostname' # "unknown" \/ unprobed'
  PROVE  PassInv'
  BY DEF PassInv, NeedsProbe, Faithful

\* A pass never relies on an API that the cluster does not have.
LEMMA AnswerPass ==
  ASSUME TypeOK, PassInv, CheckObjectBucketClaims \/ CheckMonitoring
  PROVE  PassInv'
  <1>1. CASE Block
    BY <1>1, IdlePass DEF Block
  <1>2. CASE ~Block
    <2>1. /\ UNCHANGED <<apis, spec, copy, cfg, touched, hostname, unprobed>>
          /\ pc \in {"storage", "monitoring"} /\ pc' \in {"monitoring", "default"}
      BY <1>2 DEF CheckObjectBucketClaims, CheckMonitoring, Found, NotFound, BlockIfManaged, GoTo,
                  userVars, probeVars, readVars
    <2>2. supports' \subseteq apis
      BY <1>2 DEF CheckObjectBucketClaims, CheckMonitoring, Found, NotFound, BlockIfManaged, GoTo,
                  readVars, PassInv
    <2>3. NeedsProbe(copy, cfg) => hostname' # "unknown" \/ unprobed'
      BY <2>1 DEF PassInv, HasAsked
    <2> QED
      BY <2>1, <2>2, <2>3, PassContinues DEF HasRead, HasAsked
  <1> QED
    BY <1>1, <1>2

\* Every step keeps what the pass has read and computed.
LEMMA PassStep == TypeOK /\ PassInv /\ [Next]_vars => PassInv'
  <1> SUFFICES ASSUME TypeOK, PassInv, [Next]_vars PROVE PassInv'
    OBVIOUS
  <1>1. CASE StartReconcile
    BY <1>1 DEF StartReconcile, PassInv, HasRead, HasAsked, Faithful, userVars
  <1>2. CASE CreateBundle
    <2>1. /\ UNCHANGED <<apis, spec, copy, cfg, touched, supports>>
          /\ pc = "bundle" /\ pc' = "reference"
      BY <1>2 DEF CreateBundle, GoTo, userVars, readVars
    <2> QED
      BY <2>1, PassContinues DEF PassInv, HasRead, HasAsked
  <1>3. CASE UpdateBundleReference \/ UpdateComponents
    BY <1>3, IdlePass DEF UpdateBundleReference, UpdateComponents, Return
  <1>4. CASE GetConfigBundle
    <2>1. CASE Block
      BY <2>1, IdlePass DEF Block
    <2>2. CASE ~Block
      <3>1. /\ UNCHANGED <<apis, spec, copy, touched, hostname, unprobed>>
            /\ pc = "config" /\ cfg' = config /\ supports' = apis \cap {"route"}
            /\ copy.secretRef => "tls" \notin config
            /\ pc' = IF NeedsProbe(copy, config) /\ hostname = "unknown" THEN "probe" ELSE "storage"
        BY <1>4, <2>2 DEF GetConfigBundle, SecretsUsable, userVars, probeVars
      <3>2. NeedsProbe(copy, cfg)' = NeedsProbe(copy, config)
        BY <3>1 DEF NeedsProbe
      <3> QED
        BY <3>1, <3>2 DEF PassInv, HasRead, HasAsked, Faithful
    <2> QED
      BY <2>1, <2>2
  <1>5. CASE CreateProbe
    <2>1. /\ UNCHANGED <<apis, spec, copy, cfg, touched, supports, hostname>> /\ pc = "probe"
          /\ pc' = "probing" \/ (pc' = "storage" /\ unprobed')
      BY <1>5 DEF CreateProbe, GoTo, userVars, readVars
    <2> QED
      BY <2>1, PassContinues DEF PassInv, HasRead, HasAsked
  <1>6. CASE GetProbe
    <2>1. CASE Return \/ Block
      BY <2>1, IdlePass DEF Return, Block
    <2>2. CASE ~(Return \/ Block)
      <3>1. /\ UNCHANGED <<apis, spec, copy, cfg, touched, supports>> /\ pc = "probing"
            /\ pc' = "dropProbe" /\ hostname' # "unknown"
        BY <1>6, <2>2 DEF GetProbe, Detected, GoTo, userVars, readVars
      <3> QED
        BY <3>1, PassContinues DEF PassInv, HasRead, HasAsked
    <2> QED
      BY <2>1, <2>2
  <1>7. CASE DeleteProbe
    <2>1. /\ UNCHANGED <<apis, spec, copy, cfg, touched, supports, hostname>> /\ pc = "dropProbe"
          /\ pc' = "storage"
      BY <1>7 DEF DeleteProbe, GoTo, userVars, readVars
    <2> QED
      BY <2>1, PassContinues DEF PassInv, HasRead, HasAsked
  <1>8. CASE CheckObjectBucketClaims \/ CheckMonitoring
    BY <1>8, AnswerPass
  <1>9. CASE EnsureDefaults
    <2>1. CASE pc' = "idle" /\ Reset
      BY <2>1, IdlePass
    <2>2. CASE ~(pc' = "idle" /\ Reset)
      <3>1. /\ UNCHANGED <<apis, spec, cfg, supports, touched, hostname, unprobed>>
            /\ pc = "default" /\ pc' \in {"check", "update"}
            /\ Unsupported(copy.components) = {}
            /\ OverridesValid(WithDefaults(copy.components), copy.overrides)
            /\ copy' = [copy EXCEPT !.components = WithDefaults(copy.components)]
        BY <1>9, <2>2 DEF EnsureDefaults, Return, Block, userVars, probeVars
      <3>2. /\ Complete(copy') /\ (~touched => Faithful(copy', spec))
            /\ NeedsProbe(copy', cfg) => NeedsProbe(copy, cfg)
            /\ copy'.secretRef = copy.secretRef
        BY <3>1, Defaulted
      <3>3. Complete(copy)' /\ (~touched' => Faithful(copy, spec)')
        BY <3>1, <3>2 DEF Complete, Faithful
      <3>4. NeedsProbe(copy, cfg)' => hostname' # "unknown" \/ unprobed'
        <4>1. NeedsProbe(copy, cfg)' => NeedsProbe(copy, cfg)
          BY <3>1, <3>2 DEF NeedsProbe
        <4> QED
          BY <3>1, <4>1 DEF PassInv, HasAsked
      <3> QED
        BY <3>1, <3>2, <3>3, <3>4 DEF PassInv, HasRead, HasAsked
    <2> QED
      BY <2>1, <2>2
  <1>10. CASE Render
    BY <1>10, IdlePass DEF Render, Block
  <1>11. CASE Interrupt
    BY <1>11, IdlePass DEF Interrupt, Return, Block
  <1>12. CASE EditSpec
    <2>1. /\ UNCHANGED <<apis, copy, cfg, supports, hostname, unprobed, pc>>
          /\ touched' = (pc # "idle")
      BY <1>12 DEF EditSpec, probeVars, readVars
    <2> QED
      BY <2>1 DEF PassInv, NeedsProbe, Complete
  <1>13. CASE EditSecrets \/ AdmitProbe \/ ProcessClaim \/ UNCHANGED vars
    <2>1. UNCHANGED <<apis, spec, copy, cfg, supports, touched, hostname, unprobed, pc>>
      BY <1>13 DEF EditSecrets, AdmitProbe, ProcessClaim, vars, userVars, probeVars, readVars
    <2> QED
      BY <2>1 DEF PassInv, NeedsProbe, Complete, Faithful
  <1> QED
    BY <1>1, <1>2, <1>3, <1>4, <1>5, <1>6, <1>7, <1>8, <1>9, <1>10, <1>11, <1>12, <1>13
      DEF Next, Reconcile

-----------------------------------------------------------------------------
(* What is rendered *)

\* Only Render renders, and only what has passed the checks before.
LEMMA RenderedStep ==
  ASSUME TypeOK, PassInv, RenderedIsConsistent, [Next]_vars
  PROVE  RenderedIsConsistent'
  <1>1. CASE rendered' = [spec |-> copy, config |-> cfg, host |-> Host]
              /\ Render /\ HasNecessaryConfig(copy, cfg)
    <2> DEFINE c == copy.components
               g == cfg \cup (IF copy.secretRef THEN {"tls"} ELSE {})
    <2>1. rendered'.spec = copy /\ rendered'.config = cfg
      BY <1>1
    <2>2. Complete(copy) /\ (copy.secretRef => "tls" \notin cfg)
      BY <1>1 DEF Render, PassInv, HasRead, HasAsked
    <2>3. \A k \in Kinds : c[k] \in {"managed", "unmanaged"}
      BY <2>2 DEF Complete, TypeOK, Specs, Declarations
    <2>4. \A k \in (requiredComponents \cap Kinds) \ {"route", "redis"} :
            c[k] = "managed" => k \notin cfg
      BY <1>1, <2>2 DEF HasNecessaryConfig, Managed, requiredComponents
    <2>5. \A k \in requiredComponents \cap Kinds : c[k] = "unmanaged" => k \in g
      BY <1>1 DEF HasNecessaryConfig, Unmanaged
    <2>6. {"clair", "clairpostgres"} \subseteq Kinds /\ c["clair"] = "managed" =>
            c["clairpostgres"] = "managed" \/ "clairpostgres" \in g
      BY <1>1, <2>3 DEF HasNecessaryConfig, Managed, Unmanaged
    <2> QED
      BY <2>1, <2>2, <2>4, <2>5, <2>6 DEF RenderedIsConsistent, Complete
  <1>2. CASE rendered' = rendered
    BY <1>2 DEF RenderedIsConsistent, Rendered
  <1> QED
    BY <1>1, <1>2 DEF Next, Reconcile, StartReconcile, CreateBundle, UpdateBundleReference,
         GetConfigBundle, CreateProbe, GetProbe, DeleteProbe, CheckObjectBucketClaims,
         CheckMonitoring, EnsureDefaults, UpdateComponents, Render, Interrupt,
         EditSpec, EditSecrets, AdmitProbe, ProcessClaim, vars, statusVars

\* A pass that has asked for a host name has one or knows why there is none.
LEMMA HostAsked == TypeOK /\ PassInv => RenderedHasHost
  <1> SUFFICES ASSUME TypeOK, PassInv, pc = "check", copy.components["route"] = "managed",
                      Host = "none"
               PROVE  unprobed \/ hostname = "empty"
    BY DEF RenderedHasHost
  <1>1. "route" \notin cfg /\ ~(hostname = "known" /\ NeedsProbe(copy, cfg))
    BY DEF Host
  <1>2. NeedsProbe(copy, cfg)
    BY <1>1 DEF PassInv, NeedsProbe, Complete, Unmanaged
  <1>3. hostname # "unknown" \/ unprobed
    BY <1>2 DEF PassInv, HasAsked
  <1> QED
    BY <1>1, <1>2, <1>3 DEF TypeOK

\* A registry before its first reconcile satisfies ComponentsInv.
LEMMA ComponentsInit == Init => ComponentsInv
  <1> SUFFICES ASSUME Init PROVE ComponentsInv
    OBVIOUS
  <1>1. TypeOK
    BY TypeInit
  <1>2. BundleInv
    BY DEF Init, BundleInv
  <1>3. PassInv
    BY DEF Init, PassInv, HasRead, HasAsked
  <1>4. RenderedIsConsistent
    BY DEF Init, RenderedIsConsistent, Rendered
  <1> QED
    BY <1>1, <1>2, <1>3, <1>4 DEF ComponentsInv

\* Every step keeps ComponentsInv.
LEMMA ComponentsStep == ComponentsInv /\ [Next]_vars => ComponentsInv'
  BY TypeStep, BundleStep, PassStep, RenderedStep DEF ComponentsInv

-----------------------------------------------------------------------------
(* Theorems *)

\* The first half of Reconcile keeps ComponentsInv, whatever the user edits between
\* its requests and wherever it fails.
THEOREM ComponentsInvariant == Spec => []ComponentsInv
  BY ComponentsInit, ComponentsStep, PTL DEF Spec

\* Every variable stays in its type; in particular createInitialBundleSecret leaves
\* at most one bundle per failure and per edit, and the one that is used.
THEOREM TypeCorrect == Spec => []TypeOK
  BY ComponentsInvariant, PTL DEF ComponentsInv

\* Whatever set of components there is, what Reconcile hands to Inflate is complete
\* and has every required component from exactly one side.
THEOREM RenderedAlwaysConsistent == Spec => []RenderedIsConsistent
  BY ComponentsInvariant, PTL DEF ComponentsInv

\* fillServerHostname finds a host name for a managed Route, also after failures and
\* restarts, unless the router has none or this very pass could not ask for it.
THEOREM RenderedAlwaysHasHost == Spec => []RenderedHasHost
  BY ComponentsInvariant, HostAsked, PTL DEF ComponentsInv

\* UpdateComponents is refused when the registry has changed since it was read.
LEMMA ChoiceStep ==
  ASSUME ComponentsInv, [Next]_vars, NEW k \in Kinds \ {"quay"},
         spec.components[k] # "absent", edits' = edits
  PROVE  spec'.components[k] = spec.components[k]
  <1>1. CASE UpdateComponents
    <2>1. ~touched => Faithful(copy, spec)
      BY <1>1 DEF UpdateComponents, ComponentsInv, PassInv
    <2> QED
      BY <1>1, <2>1 DEF UpdateComponents, Faithful
  <1>2. CASE spec' = spec
    BY <1>2
  <1>3. CASE EditSpec
    BY <1>3 DEF EditSpec, Edit, ComponentsInv, TypeOK
  <1> QED
    BY <1>1, <1>2, <1>3 DEF Next, Reconcile, StartReconcile, CreateBundle, UpdateBundleReference,
         GetConfigBundle, CreateProbe, GetProbe, DeleteProbe, CheckObjectBucketClaims,
         CheckMonitoring, EnsureDefaults, Render, Interrupt, EditSecrets, AdmitProbe,
         ProcessClaim, vars, userVars

\* EnsureDefaultComponents and the Update that follows change no declaration of the
\* user but that of quay, also one made since the registry was read.
THEOREM UserChoicesAlwaysKept == Spec => UserChoicesKept
  <1>1. ComponentsInv /\ [Next]_vars =>
          [\A k \in Kinds \ {"quay"} :
             spec.components[k] # "absent" /\ edits' = edits =>
               spec'.components[k] = spec.components[k]]_vars
    BY ChoiceStep
  <1> QED
    BY <1>1, ComponentsInvariant, PTL DEF Spec, UserChoicesKept
=============================================================================
