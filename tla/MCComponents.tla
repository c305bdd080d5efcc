--------------------------- MODULE MCComponents ---------------------------
(* Instances of Components for TLC; the configurations give the constants. *)
EXTENDS Components

\* An override that is never accepted while the autoscaler is managed, one that
\* depends on another component, and one that is not supported.
Tried == {<<"quay", "replicas">>, <<"clairpostgres", "volumeSize">>, <<"route", "env">>}
=============================================================================
