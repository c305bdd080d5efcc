---------------------------- MODULE MCPgUpgrade ----------------------------
(* Instances of PgUpgrade for TLC; the configurations give the constants.    *)
EXTENDS PgUpgrade, TLC
=============================================================================
