---------------------------- MODULE Components ----------------------------
(***************************************************************************)
(* From the spec the user writes to the components that are rendered: the  *)
(* first half of Reconcile (controllers/quay) with the functions on        *)
(* components of apis/quay/v1 and ContainsComponentConfig of pkg/kustomize.*)
(*                                                                         *)
(* A pass makes sure there is a config bundle, reads it and the external   *)
(* TLS Secret, finds out the host name of the cluster with a probe Route,  *)
(* asks which APIs there are, adds the components the user has not         *)
(* declared, and writes them back.  Only when there is nothing to add is   *)
(* the configuration checked against the components and rendered.  The     *)
(* user may edit anything in between.                                      *)
(*                                                                         *)
(* One step is one request, with the computation that follows it.          *)
(* Abstracted: spec.components is a function, the bundle is the set of     *)
(* components whose fields it has ("route" stands for SERVER_HOSTNAME,     *)
(* "tls" for ssl.cert and ssl.key), the user has one certificate, and the  *)
(* host name of the build manager is left out.                             *)
(***************************************************************************)
EXTENDS Integers

CONSTANTS
  Kinds,         \* the components modelled, of AllComponents
  OverrideKinds, \* overrides the user may try: pairs of a component and a field
  MaxEdits,      \* bound: edits of the user in a behaviour
  MaxFaults      \* bound: failures in a behaviour

AllComponents ==
  {"quay", "postgres", "clair", "redis", "horizontalpodautoscaler", "objectstorage",
   "route", "mirror", "monitoring", "tls", "clairpostgres"}

requiredComponents == {"postgres", "objectstorage", "route", "redis", "tls"}

\* Components ContainsComponentConfig can find fields of.
Configurable == Kinds \ {"quay", "horizontalpodautoscaler", "monitoring"}

\* The API a component needs.
Needs(k) == IF k = "tls" THEN "route" ELSE k
APIs     == {"route", "objectstorage", "monitoring"} \cap {Needs(k) : k \in Kinds}

ASSUME ConstantsAssumption ==
  /\ Kinds \subseteq AllComponents /\ {"quay", "tls", "route"} \subseteq Kinds
  /\ \A o \in OverrideKinds : o = <<o[1], o[2]>> /\ o[1] \in Kinds
  /\ MaxEdits \in Nat /\ MaxFaults \in Nat

VARIABLES
  apis,      \* APIs the cluster has; never changes
  spec,      \* components, overrides, secretRef of the QuayRegistry
  bundle,    \* is spec.configBundleSecret set?
  bundles,   \* base config bundles created by the operator
  config,    \* what the config bundle holds
  readable,  \* does the config bundle exist, with a config.yaml that parses?
  external,  \* does the TLS Secret the user may refer to exist?
  fits,      \* is the certificate of the user valid for the host name?
  claim,     \* the ObjectBucketClaim: "none", "new", or "processed"
  probe,     \* the probe Route as the cache shows it
  hostname,  \* clusterHostname in the memory of the operator
  blocked,   \* the status of the condition RolloutBlocked
  rendered,  \* what the last pass that got there has rendered
  edits, faults,
  pc,        \* where Reconcile is
  copy,      \* Reconcile: the registry as read
  touched,   \* Reconcile: has the registry been written since?
  cfg,       \* Reconcile: cbundle
  valid,     \* Reconcile: is the certificate read valid for the host name?
  unprobed,  \* Reconcile: has the Create of the probe Route failed?
  supports   \* Reconcile: the API checks that passed

secretVars == <<config, readable, external, fits>>
userVars   == <<apis, spec, bundle, secretVars>>
probeVars  == <<probe, hostname>>
statusVars == <<blocked, rendered>>
boundVars  == <<edits, faults>>
readVars   == <<copy, cfg, valid, unprobed, supports>>
vars == <<userVars, bundles, claim, probeVars, statusVars, boundVars, pc, readVars, touched>>

Declarations == {"absent", "managed", "unmanaged"}
Specs  == [components : [Kinds -> Declarations], overrides : SUBSET OverrideKinds, secretRef : BOOLEAN]
NoSpec == [components |-> [k \in Kinds |-> "absent"], overrides |-> {}, secretRef |-> FALSE]
Hosts  == {"none", "given", "cluster"}

\* "new": created, not in the cache yet; "nameless": the router that has admitted
\* it gives no canonical host name.
Probes == {"none", "new", "waiting", "admitted", "nameless"}
Nothing == [spec |-> NoSpec, config |-> {}, host |-> "none"]

TypeOK ==
  /\ apis \subseteq APIs
  /\ spec \in Specs /\ bundle \in BOOLEAN /\ bundles \in 0..(MaxFaults + MaxEdits + 1)
  /\ config \subseteq Configurable
  /\ readable \in BOOLEAN /\ external \in BOOLEAN /\ fits \in BOOLEAN
  /\ claim \in {"none", "new", "processed"}
  /\ probe \in Probes /\ hostname \in {"unknown", "empty", "known"}
  /\ blocked \in BOOLEAN
  /\ rendered \in [spec : Specs, config : SUBSET Configurable, host : Hosts]
  /\ edits \in 0..MaxEdits /\ faults \in 0..MaxFaults
  /\ pc \in {"idle", "bundle", "reference", "config", "probe", "probing", "dropProbe",
             "storage", "monitoring", "default", "update", "check"}
  /\ copy \in Specs /\ touched \in BOOLEAN /\ cfg \subseteq Configurable
  /\ valid \in BOOLEAN /\ unprobed \in BOOLEAN
  /\ supports \subseteq APIs

Init ==
  /\ apis \in SUBSET APIs
  /\ spec = NoSpec /\ bundle = FALSE /\ bundles = 0
  /\ config = {} /\ readable = TRUE /\ external = FALSE /\ fits = TRUE
  /\ claim = "none" /\ probe = "none" /\ hostname = "unknown"
  /\ blocked = FALSE /\ rendered = Nothing
  /\ edits = 0 /\ faults = 0
  /\ pc = "idle" /\ copy = NoSpec /\ touched = FALSE /\ cfg = {}
  /\ valid = TRUE /\ unprobed = FALSE /\ supports = {}

-----------------------------------------------------------------------------
(* The functions on components *)

Managed(c, k)   == k = "quay" \/ (k \in Kinds /\ c[k] = "managed")
Unmanaged(c, k) == k \in Kinds /\ c[k] = "unmanaged"

\* The certificate of the user, from the bundle or from the external Secret.
HasCert(s, g) == "tls" \in g \/ s.secretRef

Unsupported(c) == {k \in Kinds : Needs(k) \in APIs \ supports /\ Managed(c, k)}

DefaultFor(k) ==
  IF /\ Needs(k) \in APIs => Needs(k) \in supports
     /\ k = "tls" => ~HasCert(copy, cfg)
  THEN "managed" ELSE "unmanaged"

\* EnsureDefaultComponents; quay cannot be unmanaged.
WithDefaults(c) ==
  [k \in Kinds |-> IF k = "quay" THEN "managed"
                   ELSE IF c[k] = "absent" THEN DefaultFor(k)
                   ELSE c[k]]

Supports(k, field) ==
  CASE field \in {"volumeSize", "storageClassName"} -> k \in {"postgres", "clair", "clairpostgres"}
    [] field \in {"env", "resources"} ->
         k \in {"quay", "clair", "mirror", "postgres", "redis", "clairpostgres"}
    [] field \in {"replicas", "zeroReplicas", "affinity"} -> k \in {"clair", "mirror", "quay"}
    [] field = "securityContext" -> k \in {"quay", "mirror"}

\* ValidateOverrides; with a managed autoscaler only zero replicas are accepted.
OverridesValid(c, overrides) ==
  \A o \in overrides :
    /\ Managed(c, o[1]) /\ Supports(o[1], o[2])
    /\ o[2] = "replicas" => ~Managed(c, "horizontalpodautoscaler")

\* Mutant: configuration for a managed component is accepted.
HasNecessaryConfigAny(s, g) ==
  \A k \in requiredComponents \cap Kinds : Unmanaged(s.components, k) => k \in g

\* hasNecessaryConfig; of the TLS component a secretRef is enough.
HasNecessaryConfig(s, g) ==
  \A k \in Kinds \ (IF s.secretRef THEN {"tls"} ELSE {}) :
    /\ Managed(s.components, k) /\ k \in g => k \in {"route", "mirror", "redis"}
    /\ Unmanaged(s.components, k) /\ k \notin g =>
         /\ k \notin requiredComponents
         /\ k = "clairpostgres" => ~Managed(s.components, "clair")

-----------------------------------------------------------------------------
(* Reconcile *)

Fault == faults < MaxFaults /\ faults' = faults + 1

GoTo(l) == pc' = l /\ UNCHANGED <<readVars, touched>>

Reset ==
  /\ copy' = NoSpec /\ touched' = FALSE /\ cfg' = {}
  /\ valid' = TRUE /\ unprobed' = FALSE /\ supports' = {}

Return == pc' = "idle" /\ Reset /\ UNCHANGED blocked

\* Mutant: the condition is set on the copy only.
BlockInMemory ==
  /\ pc' = "idle" /\ Reset
  /\ UNCHANGED blocked

\* reconcileWithCondition; the write conflicts when the copy is out of date.
Block ==
  /\ pc' = "idle" /\ Reset
  /\ blocked' = (blocked \/ ~touched)

StartReconcile ==
  /\ pc = "idle"
  /\ copy' = spec
  /\ pc' = IF bundle THEN "config" ELSE "bundle"
  /\ UNCHANGED <<userVars, bundles, claim, probeVars, statusVars, boundVars, touched, cfg, valid, unprobed, supports>>

\* createInitialBundleSecret; the name is generated, so every call creates one.
CreateBundle ==
  /\ pc = "bundle"
  /\ bundles' = bundles + 1
  /\ GoTo("reference")
  /\ UNCHANGED <<userVars, claim, probeVars, statusVars, boundVars>>

\* Mutant: the reference is set on the copy only.
UpdateBundleReferenceInMemory ==
  /\ pc = "reference"
  /\ Return
  /\ UNCHANGED <<userVars, bundles, claim, probeVars, rendered, boundVars>>

UpdateBundleReference ==
  /\ pc = "reference"
  /\ bundle' = (bundle \/ ~touched)
  /\ Return
  /\ UNCHANGED <<apis, spec, secretVars, bundles, claim, probeVars, rendered, boundVars>>

\* routeIsUnmanaged and userProvidedAll.
NeedsProbe(s, g) ==
  /\ "route" \in apis
  /\ ~Unmanaged(s.components, "route")
  /\ ~("route" \in g /\ HasCert(s, g))

\* The bundle and the external TLS Secret, which excludes a certificate in the
\* bundle, can be read.
SecretsUsable(s) == readable /\ (s.secretRef => external /\ "tls" \notin config)

GetConfigBundle ==
  /\ pc = "config"
  /\ \/ ~SecretsUsable(copy) /\ Block
     \/ /\ SecretsUsable(copy)
        /\ cfg' = config /\ valid' = fits
        /\ supports' = apis \cap {"route"}
        /\ pc' = IF NeedsProbe(copy, config) /\ hostname = "unknown" THEN "probe" ELSE "storage"
        /\ UNCHANGED <<copy, touched, unprobed, blocked>>
  /\ UNCHANGED <<userVars, bundles, claim, probeVars, rendered, boundVars>>

\* ensureRouteDiscovery: a failed Create is ignored.
CreateProbe ==
  /\ pc = "probe"
  /\ \/ /\ probe' = IF probe = "none" THEN "new" ELSE probe
        /\ GoTo("probing")
        /\ UNCHANGED faults
     \/ /\ Fault
        /\ pc' = "storage" /\ unprobed' = TRUE
        /\ UNCHANGED <<probe, copy, cfg, valid, supports, touched>>
  /\ UNCHANGED <<userVars, bundles, claim, hostname, statusVars, edits>>

\* The host name without the name of the router, "" when there is none.
Detected == IF probe = "admitted" THEN "known" ELSE "empty"

\* Mutant: an empty ingress status is not waited for.
GetProbeNoWait ==
  /\ pc = "probing"
  /\ hostname' = IF probe \in {"new", "waiting"} THEN hostname ELSE Detected
  /\ GoTo("dropProbe")
  /\ UNCHANGED <<userVars, bundles, claim, probe, statusVars, boundVars>>

\* Without an ingress the pass is tried again in five seconds; a Route that the
\* cache does not show yet is an error.
GetProbe ==
  /\ pc = "probing"
  /\ \/ probe \in {"none", "new"} /\ Block /\ UNCHANGED hostname
     \/ probe = "waiting" /\ Return /\ UNCHANGED hostname
     \/ /\ probe \in {"admitted", "nameless"}
        /\ hostname' = Detected
        /\ GoTo("dropProbe")
        /\ UNCHANGED blocked
  /\ UNCHANGED <<userVars, bundles, claim, probe, rendered, boundVars>>

\* A failed Delete is logged.
DeleteProbe ==
  /\ pc = "dropProbe"
  /\ \/ probe' = "none" /\ UNCHANGED faults
     \/ Fault /\ UNCHANGED probe
  /\ GoTo("storage")
  /\ UNCHANGED <<userVars, bundles, claim, hostname, statusVars, edits>>

\* An error only stops a registry that has declared the component as managed.
BlockIfManaged(k, next) ==
  \/ Managed(copy.components, k) /\ Block
  \/ ~Managed(copy.components, k) /\ GoTo(next) /\ UNCHANGED blocked

Found(a, next) ==
  /\ a \in apis
  /\ supports' = supports \cup {a} /\ pc' = next
  /\ UNCHANGED <<copy, cfg, valid, unprobed, touched, blocked, faults>>

NotFound(a, next) ==
  /\ (a \notin apis /\ UNCHANGED faults) \/ Fault
  /\ BlockIfManaged(a, next)

\* A claim that exists must have got its Secret and its ConfigMap; the API counts
\* as supported before they are looked for.
CheckObjectBucketClaims ==
  /\ pc = "storage"
  /\ \/ /\ claim = "new" => ~Managed(copy.components, "objectstorage")
        /\ Found("objectstorage", "monitoring")
     \/ /\ claim = "new" /\ Managed(copy.components, "objectstorage")
        /\ Block
        /\ UNCHANGED faults
     \/ NotFound("objectstorage", "monitoring")
  /\ UNCHANGED <<userVars, bundles, claim, probeVars, rendered, edits>>

CheckMonitoring ==
  /\ pc = "monitoring"
  /\ Found("monitoring", "default") \/ NotFound("monitoring", "default")
  /\ UNCHANGED <<userVars, bundles, claim, probeVars, rendered, edits>>

\* Mutant: quay is not expected among the declared components.
ComponentsMatchQuayless(c, d) == c = [d EXCEPT !["quay"] = "absent"]

ComponentsMatch(c, d) == c = d

\* EnsureDefaultComponents, whose error is returned without a condition, and
\* ValidateOverrides.
EnsureDefaults ==
  /\ pc = "default"
  /\ LET c == copy.components
         d == WithDefaults(c)
     IN  \/ Unsupported(c) # {} /\ Return
         \/ /\ Unsupported(c) = {} /\ ~OverridesValid(d, copy.overrides)
            /\ Block
         \/ /\ Unsupported(c) = {} /\ OverridesValid(d, copy.overrides)
            /\ copy' = [copy EXCEPT !.components = d]
            /\ pc' = IF ComponentsMatch(c, d) THEN "check" ELSE "update"
            /\ UNCHANGED <<cfg, valid, unprobed, supports, touched, blocked>>
  /\ UNCHANGED <<userVars, bundles, claim, probeVars, rendered, boundVars>>

\* Mutant: the object is written without its resource version.
UpdateComponentsForced ==
  /\ pc = "update"
  /\ spec' = copy
  /\ Return
  /\ UNCHANGED <<apis, bundle, secretVars, bundles, claim, probeVars, rendered, boundVars>>

UpdateComponents ==
  /\ pc = "update"
  /\ spec' = IF touched THEN spec ELSE copy
  /\ Return
  /\ UNCHANGED <<apis, bundle, secretVars, bundles, claim, probeVars, rendered, boundVars>>

\* fillServerHostname
Host == CASE "route" \in cfg -> "given"
          [] "route" \notin cfg /\ hostname = "known" /\ NeedsProbe(copy, cfg) -> "cluster"
          [] OTHER -> "none"

\* Errors of Inflate: a certificate must be valid for the host name, and a managed
\* Clair has to know it.
Inflatable ==
  /\ HasCert(copy, cfg) => valid /\ Host # "none"
  /\ Managed(copy.components, "clair") => Host # "none"

\* The claim is among the objects of a managed object storage.
AppliedClaim ==
  IF claim = "none" /\ Managed(copy.components, "objectstorage") THEN "new" ELSE claim

\* hasNecessaryConfig, Inflate and the rest of the pass, in one step here.
Render ==
  /\ pc = "check"
  /\ \/ /\ ~(HasNecessaryConfig(copy, cfg) /\ Inflatable)
        /\ Block
        /\ UNCHANGED <<rendered, claim>>
     \/ /\ HasNecessaryConfig(copy, cfg) /\ Inflatable
        /\ rendered' = [spec |-> copy, config |-> cfg, host |-> Host]
        /\ claim' = AppliedClaim
        /\ blocked' = (blocked /\ touched)
        /\ pc' = "idle" /\ Reset
  /\ UNCHANGED <<userVars, bundles, probeVars, boundVars>>

\* The operator dies and forgets the host name, or a request fails, which is an
\* error to be shown for the Secrets, the probe Route and the checks in between.
Interrupt ==
  /\ pc # "idle"
  /\ Fault
  /\ \/ hostname' = "unknown" /\ Return
     \/ UNCHANGED hostname /\ (pc \in {"config", "probing", "monitoring"} /\ Block)
     \/ UNCHANGED hostname /\ (pc \notin {"config", "probing", "monitoring"} /\ Return)
  /\ UNCHANGED <<userVars, bundles, claim, probe, rendered, edits>>

-----------------------------------------------------------------------------
(* The user and the router *)

Edit == edits < MaxEdits /\ edits' = edits + 1

EditSpec ==
  /\ Edit
  /\ \/ \E k \in Kinds, m \in {"managed", "unmanaged"} :
          spec' = [spec EXCEPT !.components[k] = m]
     \/ \E o \in OverrideKinds : spec' = [spec EXCEPT !.overrides = @ \cup {o}]
     \/ spec' = [spec EXCEPT !.secretRef = TRUE]
  /\ spec' # spec
  /\ touched' = (pc # "idle")
  /\ UNCHANGED <<apis, bundle, bundles, secretVars, claim, probeVars, statusVars, faults, pc, readVars>>

\* The user edits, deletes or spoils the bundle, or creates or deletes the external
\* Secret.  A new certificate may be one for another host.
EditSecrets ==
  /\ Edit
  /\ \/ /\ bundle /\ readable
        /\ \E k \in Configurable :
             /\ config' = (config \ {k}) \cup ({k} \ config)
             /\ fits' \in IF k = "tls" /\ k \notin config THEN BOOLEAN ELSE {fits}
        /\ UNCHANGED <<readable, external>>
     \/ /\ bundle
        /\ readable' = ~readable
        /\ UNCHANGED <<config, external, fits>>
     \/ /\ external' = ~external
        /\ fits' \in IF external THEN {fits} ELSE BOOLEAN
        /\ UNCHANGED <<config, readable>>
  /\ UNCHANGED <<apis, spec, bundle, bundles, claim, probeVars, statusVars, faults, pc, readVars, touched>>

AdmitProbe ==
  /\ \/ probe = "new" /\ probe' = "waiting"
     \/ probe = "waiting" /\ probe' \in {"admitted", "nameless"}
  /\ UNCHANGED <<userVars, bundles, claim, hostname, statusVars, boundVars, pc, readVars, touched>>

ProcessClaim ==
  /\ claim = "new"
  /\ claim' = "processed"
  /\ UNCHANGED <<userVars, bundles, probeVars, statusVars, boundVars, pc, readVars, touched>>

-----------------------------------------------------------------------------

Reconcile ==
  \/ StartReconcile \/ CreateBundle \/ UpdateBundleReference \/ GetConfigBundle
  \/ CreateProbe \/ GetProbe \/ DeleteProbe
  \/ CheckObjectBucketClaims \/ CheckMonitoring
  \/ EnsureDefaults \/ UpdateComponents \/ Render

Next == Reconcile \/ Interrupt \/ EditSpec \/ EditSecrets \/ AdmitProbe \/ ProcessClaim

Spec == Init /\ [][Next]_vars

\* Every return is followed by another reconcile; a router admits the Route.
FairSpec == Spec /\ WF_vars(Reconcile) /\ WF_vars(AdmitProbe)

-----------------------------------------------------------------------------
(* Properties *)

Rendered == rendered # Nothing

\* What is rendered makes sense as a whole, although the registry, the bundle and
\* the APIs were read at different times: every component is declared, required
\* ones come from the operator or from the configuration but not from both,
\* managed Clair has a database, and overrides apply to what is managed.
RenderedIsConsistent ==
  Rendered =>
    LET c == rendered.spec.components
        g == rendered.config \cup (IF rendered.spec.secretRef THEN {"tls"} ELSE {})
    IN  /\ \A k \in Kinds : c[k] # "absent"
        /\ \A k \in (requiredComponents \cap Kinds) \ {"route", "redis"} :
             c[k] = "managed" => k \notin rendered.config
        /\ \A k \in requiredComponents \cap Kinds : c[k] = "unmanaged" => k \in g
        /\ {"clair", "clairpostgres"} \subseteq Kinds /\ c["clair"] = "managed" =>
             c["clairpostgres"] = "managed" \/ "clairpostgres" \in g
        /\ \A o \in rendered.spec.overrides : Managed(c, o[1])

\* The operator completes what the user has declared and changes none of it, also
\* when the user edits the registry during a pass; only quay is put back.
UserChoicesKept ==
  [][\A k \in Kinds \ {"quay"} :
       spec.components[k] # "absent" /\ edits' = edits =>
         spec'.components[k] = spec.components[k]]_vars

\* A pass that comes to rendering a managed Route has a host name for it, also when
\* the operator was restarted and has forgotten the one it knew.  Excepted are a
\* pass whose Create of the probe Route failed, which is only logged, and a router
\* without a canonical host name.
RenderedHasHost ==
  pc = "check" /\ copy.components["route"] = "managed" /\ Host = "none" =>
    unprobed \/ hostname = "empty"

Current == rendered.spec = spec /\ rendered.config = config

\* In the end every registry is rendered as the user wants it, or shows that its
\* rollout is blocked; one that has declared a Route or TLS as managed where
\* there are no Routes does neither.
Settles ==
  <>[](\/ Current /\ ~blocked
       \/ blocked
       \/ "route" \notin apis /\ {"managed"} \cap {spec.components[k] : k \in {"route", "tls"}} # {})

\* What is blocked for good is really wrong: a registry gets rendered when its
\* declarations, overrides and configuration fit together, its Secrets can be read,
\* its certificate is valid for its host, and the cluster has the APIs, a host name
\* and the bucket it asks for.
ValidIsRendered ==
  <>[](/\ \A k \in Kinds : spec.components[k] # "absent"
       /\ HasNecessaryConfig(spec, config) /\ OverridesValid(spec.components, spec.overrides)
       /\ SecretsUsable(spec)
       /\ HasCert(spec, config) => fits
       /\ "route" \in config \/ hostname # "empty"
       /\ claim # "new"
       /\ \A k \in Kinds : spec.components[k] = "managed" /\ Needs(k) \in APIs => Needs(k) \in apis)
    => <>[](Current /\ ~blocked)
=============================================================================
