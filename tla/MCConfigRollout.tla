-------------------------- MODULE MCConfigRollout --------------------------
(* Instances of ConfigRollout for TLC; the configurations give the constants. *)
EXTENDS ConfigRollout
=============================================================================
