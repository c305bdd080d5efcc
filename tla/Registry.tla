------------------------------ MODULE Registry ------------------------------
(***************************************************************************)
(* What a QuayRegistry promises its users across releases of the operator, *)
(* with nothing of how the reconcilers bring it about: the version the     *)
(* status records never falls, a version is served only once it is the one *)
(* recorded, and nothing is served while a migration is announced.         *)
(***************************************************************************)
EXTENDS Integers

CONSTANT Releases       \* the versions the releases of the operator carry

VARIABLES
  recorded,    \* the version the status shows; 0 before the first migration
  serving,     \* the version quay-app serves; 0 when it is scaled down
  migrating    \* is a migration announced in the status?

registryVars == <<recorded, serving, migrating>>

RegistryInit == recorded = 0 /\ serving = 0 /\ migrating = FALSE

\* A migration is announced only for a registry that is down.
Announce ==
  /\ serving = 0
  /\ migrating' = TRUE
  /\ UNCHANGED <<recorded, serving>>

\* An announced migration is done: a later version is recorded.
Record ==
  /\ migrating
  /\ recorded' \in {v \in Releases : v > recorded}
  /\ migrating' = FALSE
  /\ UNCHANGED serving

\* An announced migration failed or got lost, and will be announced again.
Withdraw ==
  /\ migrating
  /\ migrating' = FALSE
  /\ UNCHANGED <<recorded, serving>>

\* The recorded version is served, and only while no migration is announced.
Serve ==
  /\ ~migrating
  /\ recorded # 0 /\ serving' = recorded
  /\ UNCHANGED <<recorded, migrating>>

\* quay-app is scaled down, for a migration or for a database that moved.
Stop ==
  /\ ~migrating
  /\ serving' = 0
  /\ UNCHANGED <<recorded, migrating>>

RegistryNext == Announce \/ Record \/ Withdraw \/ Serve \/ Stop

RegistrySpec == RegistryInit /\ [][RegistryNext]_registryVars
=============================================================================
