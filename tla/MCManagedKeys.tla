--------------------------- MODULE MCManagedKeys ---------------------------
(* Instance of ManagedKeys for TLC; the configuration gives the constants. *)
EXTENDS ManagedKeys
=============================================================================
