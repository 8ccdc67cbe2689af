-------------------------- MODULE MCNetworkUpdate --------------------------
(***************************************************************************)
(* Two address books that differ in one node, and a client that starts     *)
(* with two nodes of neither, so that one may be closed before the other   *)
(* throws; two updates at the same time, which leaves room for a second    *)
(* chain once the first update is over.                                    *)
(***************************************************************************)
EXTENDS NetworkUpdate

TwoBooks == {<<"n1", "n2">>, <<"n2", "n3">>}
OneNetwork == {{"n0", "n4"}}
==============================================================================
