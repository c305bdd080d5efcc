------------------------- MODULE ManagedKeysProofs -------------------------
(***************************************************************************)
(* Proofs about ManagedKeys, for every number of failures and edits.       *)
(*                                                                         *)
(* The keys are remembered by one Secret only.  CountInv bounds the passes *)
(* that make up values, StoreInv says that whatever runs agrees with the   *)
(* keys that are remembered, PassInv what the pass in hand has of them and *)
(* KeyInv how the key of Quay's database follows them.                     *)
(***************************************************************************)
EXTENDS ManagedKeys, TLAPS

\* Some managed keys Secret has the keys.
Remembered == secret["keys"] # Empty \/ deprecated # Empty

\* The fields that are generated when the keys Secret does not have them.
Generated == Fields \ {"CLAIR_DB_PASSWORD"}

\* The user may replace DATABASE_SECRET_KEY; the other fields are the operator's.
Passwords == Fields \ {"DATABASE_SECRET_KEY"}

\* What the remembered keys say of a field, given the fixed password that earlier
\* releases did not store.
Final(f) ==
  IF f = "CLAIR_DB_PASSWORD" THEN Kept(StoredKeys[f], Legacy) ELSE StoredKeys[f]

Agrees(c) == \A f \in Passwords : c[f] = Final(f)

\* A pass makes up values while none are remembered, and then fails or stores them.
CountInv ==
  /\ passes <= faults + 1
  /\ ~Remembered /\ pc # "apply" => passes <= faults
  /\ \A f \in Fields : secret["keys"][f] <= passes /\ deprecated[f] <= passes
  /\ pc = "apply" => \A f \in Fields : ctx[f] <= passes

\* Volumes, pods and, once a database is deployed, the Secrets agree with the keys.
StoreInv ==
  /\ Remembered => \A f \in Generated : StoredKeys[f] # None
  /\ deployed # {} => Remembered
  /\ deployed # {} => \A s \in Secrets \ {"keys"} : secret[s] = Empty \/ Agrees(secret[s])
  /\ \A d \in deployed : volume[d] = None => \A s \in Secrets \ {"keys"} : Agrees(secret[s])
  /\ \A d \in Databases : volume[d] # None => d \in deployed
  /\ volume["quay-database"] \in {None, Final("DB_URI")}
  /\ volume["clair-postgres"] \in {None, Final("CLAIR_DB_PASSWORD")}
  /\ \A a \in Apps : Configured(a) =>
       Agrees(app[a]) /\ \A d \in Databases : volume[d] # None

\* The pass in hand has the keys that are remembered, completed once it applies them.
PassInv ==
  /\ pc = "idle" => todo = {}
  /\ pc = "inflate" => ctx = StoredKeys /\ todo = {}
  /\ pc = "apply" =>
       /\ \A f \in Fields : ctx[f] # None
       /\ Remembered => Agrees(ctx)
       /\ \A s \in Secrets \ todo : secret[s] = ctx
       /\ todo \cap Apps # {} => \A d \in Databases : volume[d] # None

\* The key Quay runs with is the one remembered, unless the user has given another.
KeyInv ==
  /\ Configured("quay-app") =>
       StoredKeys["DATABASE_SECRET_KEY"] \in {Given, app["quay-app"]["DATABASE_SECRET_KEY"]}
  /\ pc = "apply" /\ Remembered =>
       ctx["DATABASE_SECRET_KEY"] \in {Given, StoredKeys["DATABASE_SECRET_KEY"]}

KeysInv == TypeOK /\ CountInv /\ StoreInv /\ PassInv /\ KeyInv

-----------------------------------------------------------------------------
(* The operators *)

\* Remembered keys are a value for each field, wherever they are remembered.
LEMMA StoredType == TypeOK => StoredKeys \in [Fields -> Values]
  BY DEF TypeOK, StoredKeys, Secrets

\* A record without a missing value is not Empty.
LEMMA NotEmpty ==
  ASSUME NEW c, \A f \in Fields : c[f] # None
  PROVE  c # Empty
  BY DEF Empty, Fields

\* The values a pass makes up when none are remembered.
LEMMA CompletedForgotten ==
  ASSUME TypeOK, NEW fresh \in Nat \ {0}
  PROVE  \A f \in Fields : Completed(Empty, fresh)[f] \in {fresh, Given}
  BY DEF TypeOK, Completed, ClairPassword, Kept, Empty, Fields, None, Given

\* The keys that are remembered are completed without making up a value.
LEMMA CompletedRemembered ==
  ASSUME NEW c \in [Fields -> Values], NEW fresh, userKey \in {None, Given},
         \A f \in Generated : c[f] # None
  PROVE  \A f \in Fields :
           Completed(c, fresh)[f] =
             CASE f = "DATABASE_SECRET_KEY" -> Kept(userKey, c[f])
               [] f = "CLAIR_DB_PASSWORD"   -> Kept(c[f], Legacy)
               [] OTHER                     -> c[f]
  BY DEF Completed, ClairPassword, Kept, Fields, Generated, None

\* The keys in hand replace those that are remembered without changing a password.
LEMMA FinalKept ==
  ASSUME StoreInv, PassInv, pc = "apply", secret'["keys"] = ctx, Remembered
  PROVE  \A f \in Passwords : Final(f)' = Final(f)
  <1>1. \A f \in Fields : ctx[f] # None
    BY DEF PassInv
  <1>2. StoredKeys' = ctx
    BY <1>1, NotEmpty DEF StoredKeys
  <1>3. \A f \in Passwords : ctx[f] = Final(f)
    BY DEF PassInv, Agrees
  <1> QED
    BY <1>1, <1>2, <1>3 DEF Final, Kept, Passwords

-----------------------------------------------------------------------------
(* Initial states *)

\* A new installation and one left by an earlier release satisfy KeysInv.
LEMMA KeysInit == Init => KeysInv
  <1> SUFFICES ASSUME Init PROVE KeysInv
    OBVIOUS
  <1> USE ConstantsAssumption DEF ConstantsAssumption
  <1>1. Empty \in [Fields -> Values] /\ OldKeys \in [Fields -> Values]
        /\ OldApp \in [Fields -> Values]
    BY DEF Empty, OldKeys, OldApp, Values, None, Legacy, Earlier, Fields
  <1>2. TypeOK
    BY <1>1 DEF Init, NewInstall, Upgraded, TypeOK, Values, None, Legacy, Earlier, Secrets,
                Databases, Apps
  <1>3. CASE NewInstall
    <2>1. ~Remembered /\ StoredKeys = Empty
      BY <1>3 DEF NewInstall, Remembered, StoredKeys, Secrets
    <2>2. CountInv
      BY <1>3, <2>1 DEF Init, NewInstall, CountInv, Empty, None, Secrets
    <2>3. StoreInv
      BY <1>3, <2>1 DEF NewInstall, StoreInv, Configured, Databases, Apps, None
    <2>4. PassInv /\ KeyInv
      BY <1>3, <2>1 DEF Init, NewInstall, PassInv, KeyInv, Configured, Apps
    <2> QED
      BY <1>2, <2>2, <2>3, <2>4 DEF KeysInv
  <1>4. CASE Upgraded
    <2>1. OldKeys # Empty /\ OldApp # Empty
      BY DEF OldKeys, OldApp, Empty, Fields, None, Earlier
    <2>2. Remembered /\ StoredKeys = OldKeys
      BY <1>4, <2>1 DEF Upgraded, Remembered, StoredKeys, Secrets
    <2>3. CountInv
      BY <1>4, <2>2 DEF Init, Upgraded, CountInv, Empty, OldKeys, None, Earlier, Secrets, Fields
    <2>4. Agrees(OldApp) /\ Final("DB_URI") = Earlier /\ Final("CLAIR_DB_PASSWORD") = Legacy
      BY <2>2 DEF Agrees, Final, Passwords, Kept, OldApp, OldKeys, Empty, Fields, None, Earlier,
                  Legacy
    <2>5. \A f \in Generated : StoredKeys[f] # None
      BY <2>2 DEF Generated, OldKeys, Empty, Fields, None, Earlier
    <2>6. StoreInv
      BY <1>4, <2>2, <2>4, <2>5 DEF Upgraded, StoreInv, Databases, Apps, Secrets, None, Earlier,
                                    Legacy
    <2>7. app["quay-app"]["DATABASE_SECRET_KEY"] = StoredKeys["DATABASE_SECRET_KEY"]
      BY <1>4, <2>2 DEF Upgraded, OldApp, OldKeys, Empty, Fields, Apps
    <2>8. PassInv /\ KeyInv
      BY <2>7 DEF Init, PassInv, KeyInv
    <2> QED
      BY <1>2, <2>3, <2>6, <2>8 DEF KeysInv
  <1> QED
    BY <1>3, <1>4 DEF Init

-----------------------------------------------------------------------------
(* Steps *)

\* A step that leaves the Secrets alone leaves what is remembered alone.
LEMMA KeysUnchanged ==
  ASSUME UNCHANGED <<secret, deprecated>>
  PROVE  /\ StoredKeys' = StoredKeys /\ Remembered' = Remembered
         /\ \A f \in Fields : Final(f)' = Final(f)
  BY DEF StoredKeys, Remembered, Final

\* Reading the keys gives the pass what is remembered.
LEMMA CheckManagedKeysStep == KeysInv /\ CheckManagedKeys => KeysInv'
  <1> SUFFICES ASSUME KeysInv, CheckManagedKeys PROVE KeysInv'
    OBVIOUS
  <1> USE DEF KeysInv, CheckManagedKeys, storeVars, runningVars, boundVars
  <1>1. TypeOK'
    BY StoredType DEF TypeOK
  <1>2. CountInv'
    BY DEF CountInv, Remembered
  <1>3. StoreInv'
    BY DEF StoreInv, Remembered, StoredKeys, Agrees, Final, Configured
  <1>4. PassInv' /\ KeyInv'
    BY DEF PassInv, KeyInv, StoredKeys, Remembered, Configured
  <1> QED
    BY <1>1, <1>2, <1>3, <1>4

\* Inflate makes up what is not remembered and changes nothing that is.
LEMMA InflateStep == KeysInv /\ Inflate => KeysInv'
  <1> SUFFICES ASSUME KeysInv, Inflate PROVE KeysInv'
    OBVIOUS
  <1> USE ConstantsAssumption DEF ConstantsAssumption
  <1>1. UNCHANGED <<userKey, secret, deprecated, deployed, volume, app, edits, faults>>
        /\ pc = "inflate" /\ pc' = "apply" /\ ctx' = Completed(ctx, passes + 1)
    BY DEF Inflate, storeVars, runningVars
  <1>2. StoredKeys' = StoredKeys /\ Remembered' = Remembered
        /\ \A f \in Fields : Final(f)' = Final(f)
    BY <1>1, KeysUnchanged
  <1>3. ctx = StoredKeys /\ ctx \in [Fields -> Values] /\ userKey \in {None, Given}
        /\ passes \in 0..(MaxFaults + 1) /\ faults \in 0..MaxFaults
    BY <1>1, StoredType DEF KeysInv, PassInv, TypeOK
  <1>4. ctx' = [f \in Fields |-> ctx'[f]]
    BY <1>1 DEF Completed
  <1>5. todo' \subseteq Secrets \cup Databases \cup Apps /\ Secrets \subseteq todo'
    BY DEF Inflate
  <1>6. todo' \cap Apps # {} => \A d \in Databases : volume'[d] # None
    BY <1>1 DEF Inflate, Secrets, Databases, Apps
  <1>7. /\ \A f \in Fields : ctx'[f] \in Values /\ ctx'[f] # None /\ ctx'[f] <= passes'
        /\ passes' \in 0..(MaxFaults + 1) /\ passes <= passes' /\ passes' <= faults + 1
        /\ Remembered => Agrees(ctx)'
        /\ Remembered => ctx'["DATABASE_SECRET_KEY"] \in {Given, StoredKeys["DATABASE_SECRET_KEY"]}
    <2>1. CASE Remembered
      <3>1. \A f \in Generated : ctx[f] # None
        BY <1>3, <2>1 DEF KeysInv, StoreInv
      <3>2. \A f \in Fields : ctx'[f] = CASE f = "DATABASE_SECRET_KEY" -> Kept(userKey, ctx[f])
                                          [] f = "CLAIR_DB_PASSWORD"   -> Kept(ctx[f], Legacy)
                                          [] OTHER                     -> ctx[f]
        BY <1>1, <1>3, <3>1, CompletedRemembered
      <3>3. \A f \in Fields : ctx[f] <= passes
        BY <1>3 DEF KeysInv, CountInv, StoredKeys
      <3>4. \A f \in Fields : ctx'[f] \in Values /\ ctx'[f] # None /\ ctx'[f] <= passes
        <4> SUFFICES ASSUME NEW f \in Fields
                     PROVE  ctx'[f] \in Values /\ ctx'[f] # None /\ ctx'[f] <= passes
          OBVIOUS
        <4>1. CASE f = "DATABASE_SECRET_KEY"
          <5>1. ctx'[f] = Kept(userKey, ctx[f])
            BY <3>2, <4>1
          <5> QED
            BY <1>3, <3>1, <3>3, <4>1, <5>1 DEF Kept, Given, None, Values, Generated, Fields
        <4>2. CASE f = "CLAIR_DB_PASSWORD"
          <5>1. ctx'[f] = Kept(ctx[f], Legacy)
            BY <3>2, <4>2
          <5> QED
            BY <1>3, <3>3, <5>1 DEF Kept, Legacy, None, Values
        <4>3. CASE f \notin {"DATABASE_SECRET_KEY", "CLAIR_DB_PASSWORD"}
          <5>1. ctx'[f] = ctx[f]
            BY <3>2, <4>3
          <5> QED
            BY <1>3, <3>1, <3>3, <4>3, <5>1 DEF Generated
        <4> QED
          BY <4>1, <4>2, <4>3
      <3>5. passes' = passes
        BY <1>3, <3>4 DEF Inflate, Values
      <3>6. passes <= faults + 1
        BY DEF KeysInv, CountInv
      <3>7. \A f \in Passwords : ctx'[f] = Final(f)
        <4> SUFFICES ASSUME NEW f \in Passwords PROVE ctx'[f] = Final(f)
          OBVIOUS
        <4>1. f \in Fields /\ f # "DATABASE_SECRET_KEY"
          BY DEF Passwords
        <4>2. ctx'[f] = IF f = "CLAIR_DB_PASSWORD" THEN Kept(ctx[f], Legacy) ELSE ctx[f]
          BY <3>2, <4>1
        <4> QED
          BY <1>3, <4>2 DEF Final
      <3>8. Agrees(ctx)'
        BY <1>2, <3>7 DEF Agrees, Passwords
      <3>9. ctx'["DATABASE_SECRET_KEY"] = Kept(userKey, ctx["DATABASE_SECRET_KEY"])
        BY <3>2 DEF Fields
      <3> QED
        BY <1>3, <3>4, <3>5, <3>6, <3>8, <3>9 DEF Kept
    <2>2. CASE ~Remembered
      <3>1. ctx = Empty
        BY <1>3, <2>2 DEF Remembered, StoredKeys
      <3>2. \A f \in Fields : ctx'[f] \in {passes + 1, Given}
        BY <1>1, <1>3, <3>1, CompletedForgotten DEF KeysInv
      <3>3. passes <= faults
        BY <1>1, <2>2 DEF KeysInv, CountInv
      <3>4. passes' = passes \/ passes' = passes + 1
        BY DEF Inflate
      <3>5. \A f \in Fields : ctx'[f] = passes + 1 => passes' = passes + 1
        BY DEF Inflate
      <3> QED
        BY <1>3, <2>2, <3>2, <3>3, <3>4, <3>5 DEF Values, None, Given
    <2> QED
      BY <2>1, <2>2
  <1>8. TypeOK'
    BY <1>1, <1>4, <1>5, <1>7 DEF KeysInv, TypeOK
  <1>9. CountInv'
    <2>1. \A f \in Fields : secret["keys"][f] <= passes' /\ deprecated[f] <= passes'
      BY <1>3, <1>7 DEF KeysInv, CountInv, TypeOK, Values, Secrets
    <2> QED
      BY <1>1, <1>2, <1>7, <2>1 DEF CountInv
  <1>10. StoreInv'
    BY <1>1, <1>2 DEF KeysInv, StoreInv, Agrees, Passwords, Configured, Generated, Fields
  <1>11. PassInv'
    BY <1>1, <1>2, <1>5, <1>6, <1>7 DEF PassInv
  <1>12. KeyInv'
    BY <1>1, <1>2, <1>7 DEF KeysInv, KeyInv, Configured
  <1> QED
    BY <1>8, <1>9, <1>10, <1>11, <1>12 DEF KeysInv

\* A Secret is replaced by one that agrees with the keys, or no database uses it yet.
LEMMA ApplySecretStep ==
  ASSUME KeysInv, NEW s \in Secrets, ApplySecret(s)
  PROVE  KeysInv'
  <1>1. /\ UNCHANGED <<userKey, deprecated, deployed, volume, app, passes, edits, faults, pc, ctx>>
        /\ pc = "apply" /\ s \in todo /\ todo' = todo \ {s}
        /\ secret' = [secret EXCEPT ![s] = ctx]
    BY DEF ApplySecret, runningVars, boundVars
  <1>2. /\ secret \in [Secrets -> [Fields -> Values]] /\ ctx \in [Fields -> Values]
        /\ \A f \in Fields : ctx[f] # None
    BY <1>1 DEF KeysInv, TypeOK, PassInv
  <1>3. \A t \in Secrets : secret'[t] = IF t = s THEN ctx ELSE secret[t]
    BY <1>1, <1>2
  <1>4. TypeOK'
    BY <1>1, <1>2 DEF KeysInv, TypeOK
  <1>5. CASE s = "keys"
    <2>1. StoredKeys' = ctx /\ Remembered'
      BY <1>2, <1>3, <1>5, NotEmpty DEF StoredKeys, Remembered, Secrets
    <2>2. Agrees(ctx)'
      BY <1>1, <1>2, <2>1 DEF Agrees, Final, Kept, Passwords
    <2>3. CountInv'
      BY <1>1, <1>3, <1>5, <2>1 DEF KeysInv, CountInv, Secrets
    <2>4. PassInv'
      BY <1>1, <1>2, <1>3, <2>2 DEF KeysInv, PassInv
    <2>5. CASE Remembered
      <3>1. \A f \in Passwords : Final(f)' = Final(f)
        BY <1>1, <1>3, <1>5, <2>5, FinalKept DEF KeysInv, Secrets
      <3>2. \A f \in Generated : StoredKeys'[f] # None
        BY <1>2, <2>1 DEF Generated
      <3>3. \A t \in Secrets \ {"keys"} : secret'[t] = secret[t]
        BY <1>3, <1>5
      <3>4. Final("DB_URI")' = Final("DB_URI")
            /\ Final("CLAIR_DB_PASSWORD")' = Final("CLAIR_DB_PASSWORD")
        BY <3>1 DEF Passwords, Fields
      <3>5. StoreInv'
        BY <1>1, <2>1, <3>1, <3>2, <3>3, <3>4 DEF KeysInv, StoreInv, Agrees, Configured
      <3>6. KeyInv'
        BY <1>1, <2>1, <2>5 DEF KeysInv, KeyInv, Configured
      <3> QED
        BY <1>4, <2>3, <2>4, <3>5, <3>6 DEF KeysInv
    <2>6. CASE ~Remembered
      <3>1. deployed = {} /\ \A d \in Databases : volume[d] = None
        BY <2>6 DEF KeysInv, StoreInv
      <3>2. \A a \in Apps : ~Configured(a)
        BY <3>1 DEF KeysInv, StoreInv, Databases
      <3>3. StoreInv'
        BY <1>1, <1>2, <2>1, <3>1, <3>2 DEF StoreInv, Configured, Generated, Databases
      <3>4. KeyInv'
        BY <1>1, <2>1, <3>2 DEF KeyInv, Configured, Apps
      <3> QED
        BY <1>4, <2>3, <2>4, <3>3, <3>4 DEF KeysInv
    <2> QED
      BY <2>5, <2>6
  <1>6. CASE s # "keys"
    <2>1. secret'["keys"] = secret["keys"]
      BY <1>3, <1>6 DEF Secrets
    <2>2. /\ StoredKeys' = StoredKeys /\ Remembered' = Remembered
          /\ \A f \in Fields : Final(f)' = Final(f)
      BY <1>1, <2>1 DEF StoredKeys, Remembered, Final
    <2>3. Remembered => Agrees(ctx)
      BY <1>1 DEF KeysInv, PassInv
    <2>4. CountInv'
      BY <1>1, <2>1, <2>2 DEF KeysInv, CountInv
    <2>5. StoreInv'
      BY <1>1, <1>3, <2>2, <2>3 DEF KeysInv, StoreInv, Agrees, Passwords, Configured,
                                         Generated, Fields
    <2>6. PassInv'
      BY <1>1, <1>2, <1>3, <2>2, <2>3 DEF KeysInv, PassInv, Agrees, Passwords
    <2>7. KeyInv'
      BY <1>1, <2>2 DEF KeysInv, KeyInv, Configured
    <2> QED
      BY <1>4, <2>4, <2>5, <2>6, <2>7 DEF KeysInv
  <1> QED
    BY <1>5, <1>6

\* Deployments are applied after all Secrets have the keys in hand.
LEMMA AllApplied ==
  ASSUME KeysInv, NEW o, InOrder(o)
  PROVE  /\ pc = "apply" /\ o \in todo /\ Remembered /\ StoredKeys = ctx
         /\ \A s \in Secrets : secret[s] = ctx /\ Agrees(secret[s])
         /\ \A f \in Fields : ctx[f] # None
  <1>1. pc = "apply" /\ o \in todo /\ \A f \in Fields : ctx[f] # None
    BY DEF InOrder, KeysInv, PassInv
  <1>2. \A s \in Secrets : secret[s] = ctx
    BY <1>1 DEF InOrder, KeysInv, PassInv
  <1>3. Remembered /\ StoredKeys = ctx
    BY <1>1, <1>2, NotEmpty DEF Remembered, StoredKeys, Secrets
  <1>4. Agrees(ctx)
    BY <1>1, <1>3 DEF KeysInv, PassInv
  <1> QED
    BY <1>1, <1>2, <1>3, <1>4

\* A database is deployed when all Secrets have been applied, so they agree.
LEMMA ApplyDatabaseStep ==
  ASSUME KeysInv, NEW d \in Databases, ApplyDatabase(d)
  PROVE  KeysInv'
  <1>1. /\ UNCHANGED <<userKey, secret, deprecated, volume, app, passes, edits, faults, pc, ctx>>
        /\ InOrder(d) /\ deployed' = deployed \cup {d} /\ todo' = todo \ {d}
    BY DEF ApplyDatabase, storeVars, boundVars
  <1>2. /\ Remembered /\ \A s \in Secrets : secret[s] = ctx /\ Agrees(secret[s])
    BY <1>1, AllApplied
  <1>3. /\ StoredKeys' = StoredKeys /\ Remembered' = Remembered
        /\ \A f \in Fields : Final(f)' = Final(f)
    BY <1>1, KeysUnchanged
  <1>4. TypeOK'
    BY <1>1 DEF KeysInv, TypeOK
  <1>5. CountInv'
    BY <1>1, <1>3 DEF KeysInv, CountInv
  <1>6. StoreInv'
    BY <1>1, <1>2, <1>3 DEF KeysInv, StoreInv, Agrees, Passwords, Configured, Generated, Fields
  <1>7. PassInv' /\ KeyInv'
    BY <1>1, <1>2, <1>3 DEF KeysInv, PassInv, KeyInv, Agrees, Passwords, Configured, InOrder
  <1> QED
    BY <1>4, <1>5, <1>6, <1>7 DEF KeysInv

\* Quay and Clair are deployed when their databases have been initialised.
LEMMA ApplyAppStep ==
  ASSUME KeysInv, NEW a \in Apps, ApplyApp(a)
  PROVE  KeysInv'
  <1>1. /\ UNCHANGED <<userKey, secret, deprecated, deployed, volume, passes, edits, faults,
                       pc, ctx>>
        /\ InOrder(a) /\ todo' = todo \ {a}
    BY DEF ApplyApp, storeVars, boundVars
  <1>2. /\ Remembered /\ StoredKeys = ctx /\ pc = "apply" /\ a \in todo
        /\ \A s \in Secrets : secret[s] = ctx /\ Agrees(secret[s])
    BY <1>1, AllApplied
  <1>3. /\ StoredKeys' = StoredKeys /\ Remembered' = Remembered
        /\ \A f \in Fields : Final(f)' = Final(f)
    BY <1>1, KeysUnchanged
  <1>4. /\ app \in [Apps -> [Fields -> Values]] /\ ctx \in [Fields -> Values]
        /\ secret \in [Secrets -> [Fields -> Values]]
    BY DEF KeysInv, TypeOK
  <1>5. /\ app' \in [Apps -> [Fields -> Values]]
        /\ \A b \in Apps : app'[b] = app[b] \/ app'[b] = ctx
        /\ app'["quay-app"] = app["quay-app"] \/ app'["quay-app"] = ctx
    <2>1. CASE a = "quay-app"
      BY <1>4, <2>1 DEF ApplyApp, Apps
    <2>2. CASE a = "clair-app"
      <3>1. secret["clair"] = ctx
        BY <1>2 DEF Secrets
      <3>2. app' = [app EXCEPT !["clair-app"] = IF app["clair-app"] = Empty THEN ctx
                                                   ELSE app["clair-app"]]
        BY <2>2, <3>1 DEF ApplyApp
      <3> QED
        BY <1>4, <3>2 DEF Apps
    <2> QED
      BY <2>1, <2>2 DEF Apps
  <1>6. TypeOK'
    BY <1>1, <1>5 DEF KeysInv, TypeOK
  <1>7. CountInv'
    BY <1>1, <1>3 DEF KeysInv, CountInv
  <1>8. \A d \in Databases : volume[d] # None
    BY <1>2 DEF KeysInv, PassInv
  <1>9. Agrees(ctx)
    BY <1>2 DEF Secrets
  <1>10. StoreInv'
    <2>1. \A b \in Apps : Configured(b)' => Agrees(app[b])'
      BY <1>3, <1>5, <1>9 DEF KeysInv, StoreInv, Agrees, Passwords, Configured
    <2> QED
      BY <1>1, <1>3, <1>8, <2>1 DEF KeysInv, StoreInv, Agrees, Passwords, Generated, Fields
  <1>11. PassInv'
    BY <1>1, <1>2, <1>3, <1>8 DEF KeysInv, PassInv, Agrees, Passwords, InOrder
  <1>12. KeyInv'
    BY <1>1, <1>2, <1>3, <1>5 DEF KeysInv, KeyInv, Configured
  <1> QED
    BY <1>6, <1>7, <1>10, <1>11, <1>12 DEF KeysInv

\* A pass may end anywhere: what it has not stored it has given to nobody.
LEMMA ReturnStep == KeysInv /\ (FinishPass \/ Interrupt) => KeysInv'
  <1> SUFFICES ASSUME KeysInv, FinishPass \/ Interrupt PROVE KeysInv'
    OBVIOUS
  <1> USE ConstantsAssumption DEF ConstantsAssumption
  <1>1. /\ UNCHANGED <<userKey, secret, deprecated, deployed, volume, app, passes, edits>>
        /\ pc' = "idle" /\ ctx' = Empty /\ todo' = {}
    BY DEF FinishPass, Interrupt, Return, storeVars, runningVars, boundVars
  <1>2. /\ StoredKeys' = StoredKeys /\ Remembered' = Remembered
        /\ \A f \in Fields : Final(f)' = Final(f)
    BY <1>1, KeysUnchanged
  <1>3. faults' \in 0..MaxFaults /\ faults <= faults'
    BY DEF KeysInv, TypeOK, FinishPass, Interrupt, boundVars
  <1>4. Empty \in [Fields -> Values]
    BY DEF Empty, Values, None
  <1>5. TypeOK'
    BY <1>1, <1>3, <1>4 DEF KeysInv, TypeOK
  <1>6. CountInv'
    <2>1. CASE FinishPass
      <3>1. \A f \in Fields : secret["keys"][f] # None
        BY <2>1 DEF FinishPass, KeysInv, PassInv, Secrets
      <3>2. Remembered
        BY <3>1, NotEmpty DEF Remembered
      <3> QED
        BY <1>1, <1>2, <2>1, <3>2 DEF KeysInv, CountInv, FinishPass, boundVars
    <2>2. CASE Interrupt
      BY <1>1, <2>2 DEF KeysInv, CountInv, Interrupt, TypeOK
    <2> QED
      BY <2>1, <2>2
  <1>7. StoreInv'
    BY <1>1, <1>2 DEF KeysInv, StoreInv, Agrees, Passwords, Configured, Generated, Fields
  <1>8. PassInv' /\ KeyInv'
    BY <1>1, <1>2 DEF KeysInv, PassInv, KeyInv, Configured
  <1> QED
    BY <1>5, <1>6, <1>7, <1>8 DEF KeysInv

\* A new volume gets the password that all Secrets agree on.
LEMMA DatabaseStartsStep ==
  ASSUME KeysInv, NEW d \in Databases, DatabaseStarts(d)
  PROVE  KeysInv'
  <1>1. /\ UNCHANGED <<userKey, secret, deprecated, deployed, app, passes, edits, faults,
                       pc, ctx, todo>>
        /\ d \in deployed /\ volume[d] = None /\ volume' = [volume EXCEPT ![d] = Password(d)]
    BY DEF DatabaseStarts, storeVars, boundVars, localVars
  <1>2. /\ StoredKeys' = StoredKeys /\ Remembered' = Remembered
        /\ \A f \in Fields : Final(f)' = Final(f)
    BY <1>1, KeysUnchanged
  <1>3. volume \in [Databases -> Values] /\ secret \in [Secrets -> [Fields -> Values]]
    BY DEF KeysInv, TypeOK
  <1>4. Password(d) = IF d = "quay-database" THEN Final("DB_URI") ELSE Final("CLAIR_DB_PASSWORD")
    BY <1>1 DEF KeysInv, StoreInv, Agrees, Password, Passwords, Fields, Secrets
  <1>5. Password(d) \in Values
    BY <1>3 DEF Password, Secrets, Fields
  <1>6. \A e \in Databases : volume'[e] = IF e = d THEN Password(d) ELSE volume[e]
    BY <1>1, <1>3
  <1>7. TypeOK'
    BY <1>1, <1>3, <1>5 DEF KeysInv, TypeOK
  <1>8. CountInv'
    BY <1>1, <1>2 DEF KeysInv, CountInv
  <1>9. \A a \in Apps : ~Configured(a)
    BY <1>1 DEF KeysInv, StoreInv
  <1>10. StoreInv'
    <2>1. /\ volume'["quay-database"] \in {None, Final("DB_URI")}
          /\ volume'["clair-postgres"] \in {None, Final("CLAIR_DB_PASSWORD")}
      BY <1>4, <1>6 DEF KeysInv, StoreInv, Databases
    <2>2. Final("DB_URI")' = Final("DB_URI")
          /\ Final("CLAIR_DB_PASSWORD")' = Final("CLAIR_DB_PASSWORD")
      BY <1>2 DEF Fields
    <2>3. \A s \in Secrets \ {"keys"} : Agrees(secret[s])'
      BY <1>1, <1>2 DEF KeysInv, StoreInv, Agrees, Passwords
    <2> QED
      BY <1>1, <1>2, <1>6, <1>9, <2>1, <2>2, <2>3 DEF KeysInv, StoreInv, Configured
  <1>11. PassInv'
    BY <1>1, <1>2, <1>6 DEF KeysInv, PassInv, Agrees, Passwords
  <1>12. KeyInv'
    BY <1>1, <1>2 DEF KeysInv, KeyInv, Configured
  <1> QED
    BY <1>7, <1>8, <1>10, <1>11, <1>12 DEF KeysInv

\* A restarted Clair reads a Secret that agrees with the keys.
LEMMA ClairRestartsStep == KeysInv /\ ClairRestarts => KeysInv'
  <1> SUFFICES ASSUME KeysInv, ClairRestarts PROVE KeysInv'
    OBVIOUS
  <1>1. /\ UNCHANGED <<userKey, secret, deprecated, deployed, volume, passes, edits, faults,
                       pc, ctx, todo>>
        /\ app' = [app EXCEPT !["clair-app"] = secret["clair"]]
        /\ Configured("clair-app") /\ secret["clair"] # Empty
    BY DEF ClairRestarts, Configured, storeVars, boundVars, localVars
  <1>2. /\ StoredKeys' = StoredKeys /\ Remembered' = Remembered
        /\ \A f \in Fields : Final(f)' = Final(f)
    BY <1>1, KeysUnchanged
  <1>3. app \in [Apps -> [Fields -> Values]] /\ secret \in [Secrets -> [Fields -> Values]]
    BY DEF KeysInv, TypeOK
  <1>4. /\ app' \in [Apps -> [Fields -> Values]]
        /\ app'["quay-app"] = app["quay-app"] /\ app'["clair-app"] = secret["clair"]
    BY <1>1, <1>3 DEF Apps, Secrets
  <1>5. Agrees(secret["clair"]) /\ \A d \in Databases : volume[d] # None
    BY <1>1 DEF KeysInv, StoreInv, Apps, Secrets, Databases
  <1>6. TypeOK' /\ CountInv'
    BY <1>1, <1>2, <1>4 DEF KeysInv, TypeOK, CountInv
  <1>7. StoreInv'
    <2>1. \A a \in Apps : Configured(a)' => Agrees(app[a])'
      BY <1>2, <1>4, <1>5 DEF KeysInv, StoreInv, Agrees, Passwords, Configured, Apps
    <2> QED
      BY <1>1, <1>2, <1>5, <2>1 DEF KeysInv, StoreInv, Agrees, Passwords, Generated, Fields
  <1>8. PassInv' /\ KeyInv'
    BY <1>1, <1>2, <1>4 DEF KeysInv, PassInv, KeyInv, Agrees, Passwords, Configured
  <1> QED
    BY <1>6, <1>7, <1>8 DEF KeysInv

\* The user's key is taken up by the next pass only.
LEMMA UserEditsStep == KeysInv /\ (UserEdits \/ UNCHANGED vars) => KeysInv'
  <1> SUFFICES ASSUME KeysInv, UserEdits \/ UNCHANGED vars PROVE KeysInv'
    OBVIOUS
  <1>1. /\ UNCHANGED <<secret, deprecated, deployed, volume, app, passes, faults, pc, ctx, todo>>
        /\ userKey' \in {None, Given} /\ edits' \in 0..MaxEdits
    BY ConstantsAssumption DEF ConstantsAssumption, UserEdits, vars, storeVars, runningVars,
                               boundVars, localVars, KeysInv, TypeOK
  <1>2. /\ StoredKeys' = StoredKeys /\ Remembered' = Remembered
        /\ \A f \in Fields : Final(f)' = Final(f)
    BY <1>1, KeysUnchanged
  <1>3. TypeOK' /\ CountInv'
    BY <1>1, <1>2 DEF KeysInv, TypeOK, CountInv
  <1>4. StoreInv' /\ PassInv' /\ KeyInv'
    BY <1>1, <1>2 DEF KeysInv, StoreInv, PassInv, KeyInv, Agrees, Passwords, Configured, Generated,
                      Fields
  <1> QED
    BY <1>3, <1>4 DEF KeysInv

\* Every step keeps KeysInv.
LEMMA KeysStep == KeysInv /\ [Next]_vars => KeysInv'
  BY CheckManagedKeysStep, InflateStep, ApplySecretStep, ApplyDatabaseStep, ApplyAppStep,
     ReturnStep, DatabaseStartsStep, ClairRestartsStep, UserEditsStep DEF Next, Reconcile

-----------------------------------------------------------------------------
(* Theorems *)

\* Whatever Reconcile, the databases and the user do, and wherever it is
\* interrupted, KeysInv holds: all that runs agrees with the remembered keys.
THEOREM KeysInvariant == Spec => []KeysInv
  BY KeysInit, KeysStep, PTL DEF Spec

\* Every variable stays in its type; in particular Inflate makes up values in one
\* pass more than are interrupted, at most.
THEOREM TypeCorrect == Spec => []TypeOK
  BY KeysInvariant, PTL DEF KeysInv

\* The Secrets that Reconcile writes one by one, in passes that may be interrupted
\* between any two of them, never give Quay or Clair a password other than the one
\* their volumes were initialised with, nor two pre-shared keys.
THEOREM CredentialsAlwaysMatch == Spec => []CredentialsMatch
  <1>1. KeysInv => CredentialsMatch
    <2> SUFFICES ASSUME KeysInv PROVE CredentialsMatch
      OBVIOUS
    <2>1. Configured("quay-app") =>
            /\ app["quay-app"]["DB_URI"] = volume["quay-database"]
            /\ app["quay-app"]["SECURITY_SCANNER_V4_PSK"] = Final("SECURITY_SCANNER_V4_PSK")
      BY DEF KeysInv, StoreInv, Agrees, Passwords, Fields, Apps, Databases
    <2>2. Configured("clair-app") =>
            /\ app["clair-app"]["CLAIR_DB_PASSWORD"] = volume["clair-postgres"]
            /\ app["clair-app"]["SECURITY_SCANNER_V4_PSK"] = Final("SECURITY_SCANNER_V4_PSK")
      BY DEF KeysInv, StoreInv, Agrees, Passwords, Fields, Apps, Databases
    <2> QED
      BY <2>1, <2>2 DEF CredentialsMatch
  <1> QED
    BY <1>1, KeysInvariant, PTL

\* Only the application of quay-app changes the key Quay runs with, to the pass's.
LEMMA SecretKeyStep ==
  ASSUME KeysInv, [Next]_vars, Configured("quay-app")
  PROVE  app'["quay-app"]["DATABASE_SECRET_KEY"] \in
           {Given, app["quay-app"]["DATABASE_SECRET_KEY"]}
  <1>1. CASE \E a \in Apps : ApplyApp(a)
    <2>1. PICK a \in Apps : ApplyApp(a)
      BY <1>1
    <2>2. StoredKeys = ctx
      BY <2>1, AllApplied DEF ApplyApp
    <2>3. app'["quay-app"] = app["quay-app"] \/ app'["quay-app"] = ctx
      BY <2>1 DEF ApplyApp, Apps, KeysInv, TypeOK
    <2> QED
      BY <2>2, <2>3 DEF KeysInv, KeyInv
  <1>2. CASE app'["quay-app"] = app["quay-app"]
    BY <1>2
  <1>3. CASE ClairRestarts
    BY <1>3 DEF ClairRestarts, KeysInv, TypeOK, Apps
  <1> QED
    BY <1>1, <1>2, <1>3 DEF Next, Reconcile, CheckManagedKeys, Inflate, ApplySecret, ApplyDatabase,
         FinishPass, Interrupt, DatabaseStarts, UserEdits, vars, runningVars

\* No step, and so no sequence of interrupted passes, upgrades and edits, gives a
\* running Quay another DATABASE_SECRET_KEY than its own or the user's.
THEOREM SecretKeyAlwaysStable == Spec => SecretKeyStable
  <1>1. KeysInv /\ [Next]_vars =>
          [Configured("quay-app") =>
             app'["quay-app"]["DATABASE_SECRET_KEY"] \in
               {Given, app["quay-app"]["DATABASE_SECRET_KEY"]}]_vars
    BY SecretKeyStep
  <1> QED
    BY <1>1, KeysInvariant, PTL DEF Spec, SecretKeyStable
=============================================================================
