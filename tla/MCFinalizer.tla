---------------------------- MODULE MCFinalizer ----------------------------
(* Instances of Finalizer for TLC; the configurations give the constants. *)
EXTENDS Finalizer

\* Two registries in one namespace, and one of the same name in another.
Three == {<<"n1", "a">>, <<"n1", "b">>, <<"n2", "a">>}

\* Only the registries that share a dashboard are monitored.
SameName == {<<"n1", "a">>, <<"n2", "a">>}
=============================================================================
