---------------------------- MODULE MCTransaction ----------------------------
(***************************************************************************)
(* Small instances of Transaction: two nodes, an operator and one or two   *)
(* more keys, clients that sign at once or on demand.                      *)
(***************************************************************************)
EXTENDS Transaction

AtOnce == [operator |-> "op", signOnDemand |-> FALSE]
OnDemand == [operator |-> "op", signOnDemand |-> TRUE]
NoOperator == [operator |-> NoKey, signOnDemand |-> TRUE]

AllClients == {AtOnce, OnDemand, NoOperator}

BothNodes == {<<"n1", "n2">>}
OneOrTwo == {<<"n1", "n2">>, <<"n2">>}

\* An application that awaits its calls, and whose client signs at once, may
\* also freeze without it.
AwaitedUse(freezers, executors, keys) ==
    [freezeWith |-> freezers, execute |-> executors, keys |-> keys,
     nodes |-> ExplicitNodes, attempts |-> 2, executions |-> {"e1"},
     awaits |-> TRUE, readds |-> TRUE]
AtOnceUse(keys) == AwaitedUse({AtOnce, NoClient}, {AtOnce}, keys)
OnDemandUse == AwaitedUse({OnDemand}, {OnDemand}, {"op", "k1"})

\* An application that does not await them, with two execute() at a time.
ConcurrentUse ==
    [freezeWith |-> {AtOnce}, execute |-> {AtOnce}, keys |-> {"op", "k1"},
     nodes |-> {}, attempts |-> 1, executions |-> {"e1", "e2"},
     awaits |-> FALSE, readds |-> FALSE]

AllUses == {AtOnceUse(SignKey), OnDemandUse, ConcurrentUse}
OnlyAtOnce == {AtOnceUse({"op", "k1"})}
==============================================================================
