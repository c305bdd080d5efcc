-------------------------- MODULE MCRegistryStatus --------------------------
(* Instances of RegistryStatus for TLC; the configurations give the constants. *)
EXTENDS RegistryStatus, TLC
=============================================================================
