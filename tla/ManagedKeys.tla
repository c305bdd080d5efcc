---------------------------- MODULE ManagedKeys ----------------------------
(***************************************************************************)
(* The keys and passwords the operator makes up for a registry with        *)
(* managed databases, from controllers/quay/features.go and pkg/kustomize. *)
(*                                                                         *)
(* Reconcile reads them from the Secret quay-registry-managed-secret-keys, *)
(* Inflate generates those that are missing, and the pass writes them to   *)
(* five Secrets, the managed keys among them, and then to the workloads.   *)
(* Nothing but that Secret remembers them, while the volumes of the        *)
(* databases keep the passwords they were initialised with and the         *)
(* database of Quay what DATABASE_SECRET_KEY has encrypted.                *)
(*                                                                         *)
(* A value is abstracted to where it comes from; all values generated in a *)
(* pass get the number of that pass.  SECRET_KEY is treated the same way   *)
(* as DATABASE_SECRET_KEY and left out.  Secrets are read from the API     *)
(* server, one step is one request.                                        *)
(***************************************************************************)
EXTENDS Integers

CONSTANTS
  MaxFaults,  \* bound: failures in a behaviour
  MaxEdits    \* bound: changes of the config bundle in a behaviour

ASSUME ConstantsAssumption == MaxFaults \in Nat /\ MaxEdits \in Nat

None    == 0    \* the empty string
Legacy  == -1   \* "postgres", the fixed password of Clair's database in earlier releases
Earlier == -2   \* generated by an earlier release
Given   == -3   \* given by the user

Values == -3..(MaxFaults + 1)
Fields == {"DATABASE_SECRET_KEY", "DB_URI", "DB_ROOT_PW", "SECURITY_SCANNER_V4_PSK",
           "CLAIR_DB_PASSWORD"}
Empty  == [f \in Fields |-> None]

Secrets   == {"keys", "config", "postgres", "clairpostgres", "clair"}
Databases == {"quay-database", "clair-postgres"}
Apps      == {"quay-app", "clair-app"}

VARIABLES
  userKey,    \* DATABASE_SECRET_KEY in the config bundle
  secret,     \* the Secrets; one that is missing is Empty
  deprecated, \* the managed keys Secret of releases up to 3.6.4
  deployed,   \* Deployments of databases that exist
  volume,     \* the password each database was initialised with
  app,        \* what the pods of quay-app and clair-app were configured with
  passes,     \* number of the last pass that generated a value
  edits, faults,
  pc,         \* where Reconcile is
  ctx,        \* QuayRegistryContext
  todo        \* objects still to be applied

storeVars   == <<userKey, secret, deprecated>>
runningVars == <<deployed, volume, app>>
boundVars   == <<passes, edits, faults>>
localVars   == <<pc, ctx, todo>>
vars == <<storeVars, runningVars, boundVars, localVars>>

TypeOK ==
  /\ userKey \in {None, Given}
  /\ secret \in [Secrets -> [Fields -> Values]]
  /\ deprecated \in [Fields -> Values]
  /\ deployed \subseteq Databases
  /\ volume \in [Databases -> Values] /\ app \in [Apps -> [Fields -> Values]]
  /\ passes \in 0..(MaxFaults + 1) /\ edits \in 0..MaxEdits /\ faults \in 0..MaxFaults
  /\ pc \in {"idle", "inflate", "apply"}
  /\ ctx \in [Fields -> Values]
  /\ todo \subseteq Secrets \cup Databases \cup Apps

\* The keys earlier releases kept; the password of Clair's database was fixed.
OldKeys == [Empty EXCEPT !["DATABASE_SECRET_KEY"] = Earlier, !["DB_URI"] = Earlier,
                         !["DB_ROOT_PW"] = Earlier, !["SECURITY_SCANNER_V4_PSK"] = Earlier]
OldApp  == [OldKeys EXCEPT !["CLAIR_DB_PASSWORD"] = Legacy]

NewInstall ==
  /\ secret = [s \in Secrets |-> Empty] /\ deprecated = Empty
  /\ deployed = {} /\ volume = [d \in Databases |-> None]
  /\ app = [a \in Apps |-> Empty]

\* The registry comes from a release up to 3.6.4, or from a later one.
Upgraded ==
  /\ \/ deprecated = OldKeys /\ secret = [s \in Secrets |-> Empty]
     \/ deprecated = Empty
        /\ secret = [s \in Secrets |-> IF s = "keys" THEN OldKeys ELSE OldApp]
  /\ deployed = Databases
  /\ volume = [d \in Databases |-> IF d = "quay-database" THEN Earlier ELSE Legacy]
  /\ app = [a \in Apps |-> OldApp]

Init ==
  /\ userKey \in {None, Given}
  /\ NewInstall \/ (Upgraded /\ userKey = None)
  /\ passes = 0 /\ edits = 0 /\ faults = 0
  /\ pc = "idle" /\ ctx = Empty /\ todo = {}

-----------------------------------------------------------------------------
(* Reconcile *)

Return == pc' = "idle" /\ ctx' = Empty /\ todo' = {}

\* Mutant: the keys are not read back.
StoredKeysNone == Empty

\* Mutant: the Secret of earlier releases is not looked for.
StoredKeysNew == secret["keys"]

\* The Secret of earlier releases is read when there is none of the new name.
StoredKeys == IF secret["keys"] = Empty THEN deprecated ELSE secret["keys"]

CheckManagedKeys ==
  /\ pc = "idle"
  /\ ctx' = StoredKeys
  /\ pc' = "inflate"
  /\ UNCHANGED <<storeVars, runningVars, boundVars, todo>>

Kept(value, generated) == IF value = None THEN generated ELSE value

\* A registry that has a root password already was installed by a release that
\* did not generate the password of Clair's database.
ClairPassword(c, fresh) ==
  Kept(c["CLAIR_DB_PASSWORD"], IF c["DB_ROOT_PW"] = None THEN fresh ELSE Legacy)

\* Inflate, FieldGroupFor and KustomizationFor.
Completed(c, fresh) ==
  [f \in Fields |->
     CASE f = "DATABASE_SECRET_KEY" -> Kept(userKey, Kept(c[f], fresh))
       [] f = "CLAIR_DB_PASSWORD"   -> ClairPassword(c, fresh)
       [] OTHER                     -> Kept(c[f], fresh)]

\* The other Deployments are deferred until the databases are available.
Inflate ==
  /\ pc = "inflate"
  /\ ctx' = Completed(ctx, passes + 1)
  /\ passes' = IF \E f \in Fields : ctx'[f] = passes + 1 THEN passes + 1 ELSE passes
  /\ \E ready \in {deployed = Databases /\ \A d \in Databases : volume[d] # None, FALSE} :
       todo' = Secrets \cup Databases \cup (IF ready THEN Apps ELSE {})
  /\ pc' = "apply"
  /\ UNCHANGED <<storeVars, runningVars, edits, faults>>

ApplySecret(s) ==
  /\ pc = "apply" /\ s \in todo
  /\ secret' = [secret EXCEPT ![s] = ctx]
  /\ todo' = todo \ {s}
  /\ UNCHANGED <<userKey, deprecated, runningVars, boundVars, pc, ctx>>

\* Mutant: the objects are applied in any order.
InOrderAny(o) == pc = "apply" /\ o \in todo

\* EnsureCreationOrder: Secrets come before Deployments.
InOrder(o) == pc = "apply" /\ o \in todo /\ todo \cap Secrets = {}

ApplyDatabase(d) ==
  /\ InOrder(d)
  /\ deployed' = deployed \cup {d}
  /\ todo' = todo \ {d}
  /\ UNCHANGED <<storeVars, volume, app, boundVars, pc, ctx>>

\* The name of the config Secret of quay-app has the hash of its content.  The
\* pods of clair-app read theirs when they start.
ApplyApp(a) ==
  /\ InOrder(a)
  /\ app' = [app EXCEPT ![a] =
       CASE a = "quay-app" -> ctx
         [] a = "clair-app" -> IF @ = Empty THEN secret["clair"] ELSE @]
  /\ todo' = todo \ {a}
  /\ UNCHANGED <<storeVars, deployed, volume, boundVars, pc, ctx>>

FinishPass ==
  /\ pc = "apply" /\ todo = {}
  /\ Return
  /\ UNCHANGED <<storeVars, runningVars, boundVars>>

\* A request fails or the operator dies; what was generated is forgotten.
Interrupt ==
  /\ pc # "idle"
  /\ faults < MaxFaults /\ faults' = faults + 1
  /\ Return
  /\ UNCHANGED <<storeVars, runningVars, passes, edits>>

-----------------------------------------------------------------------------
(* Kubernetes and the user *)

Password(d) ==
  IF d = "quay-database" THEN secret["postgres"]["DB_URI"]
                         ELSE secret["clairpostgres"]["CLAIR_DB_PASSWORD"]

\* The first pod of a database initialises its volume.
DatabaseStarts(d) ==
  /\ d \in deployed /\ volume[d] = None
  /\ volume' = [volume EXCEPT ![d] = Password(d)]
  /\ UNCHANGED <<storeVars, deployed, app, boundVars, localVars>>

\* A pod of clair-app is replaced.
ClairRestarts ==
  /\ app["clair-app"] \notin {Empty, secret["clair"]} /\ secret["clair"] # Empty
  /\ app' = [app EXCEPT !["clair-app"] = secret["clair"]]
  /\ UNCHANGED <<storeVars, deployed, volume, boundVars, localVars>>

UserEdits ==
  /\ edits < MaxEdits /\ edits' = edits + 1
  /\ userKey' \in {None, Given} \ {userKey}
  /\ UNCHANGED <<secret, deprecated, runningVars, passes, faults, localVars>>

-----------------------------------------------------------------------------

Reconcile ==
  \/ CheckManagedKeys \/ Inflate \/ FinishPass
  \/ \E s \in Secrets : ApplySecret(s)
  \/ \E d \in Databases : ApplyDatabase(d)
  \/ \E a \in Apps : ApplyApp(a)

Next ==
  \/ Reconcile \/ Interrupt \/ ClairRestarts \/ UserEdits
  \/ \E d \in Databases : DatabaseStarts(d)

Spec == Init /\ [][Next]_vars

-----------------------------------------------------------------------------
(* Properties *)

Configured(a) == app[a] # Empty

\* Quay and Clair can log in to their databases and to each other: they have the
\* passwords the volumes were initialised with, and the same pre-shared key.
CredentialsMatch ==
  /\ Configured("quay-app") => app["quay-app"]["DB_URI"] = volume["quay-database"]
  /\ Configured("clair-app") =>
       app["clair-app"]["CLAIR_DB_PASSWORD"] = volume["clair-postgres"]
  /\ Configured("quay-app") /\ Configured("clair-app") =>
       app["quay-app"]["SECURITY_SCANNER_V4_PSK"] = app["clair-app"]["SECURITY_SCANNER_V4_PSK"]

\* Once Quay has run, the key that encrypts its database only ever changes to the
\* one the user gives, whatever is interrupted and wherever the keys came from.
SecretKeyStable ==
  [][Configured("quay-app") =>
       app'["quay-app"]["DATABASE_SECRET_KEY"] \in
         {Given, app["quay-app"]["DATABASE_SECRET_KEY"]}]_vars
=============================================================================
