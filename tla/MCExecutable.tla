---------------------------- MODULE MCExecutable ----------------------------
(***************************************************************************)
(* Small instances of Executable: two accounts with a node each (and a     *)
(* spare object for an account that is removed and configured anew), a     *)
(* request that names its nodes and has a gRPC deadline, and one that      *)
(* takes any node and has none.                                            *)
(***************************************************************************)
EXTENDS Executable, TLC

Plain(host) == [host |-> host, port |-> 50211]

PoolNode == {"a1", "a3", "b2"}
PoolKeyOf == ("a1" :> "a") @@ ("a3" :> "a") @@ ("b2" :> "b")
PoolAddrOf ==
    ("a1" :> Plain("h1")) @@ ("a3" :> Plain("h1")) @@ ("b2" :> Plain("h2"))
PoolNetworks ==
    {(Plain("h1") :> "a") @@ (Plain("h2") :> "b"), Plain("h2") :> "b"}

OneLocked == [r \in {"r1", "r2"} |-> IF r = "r1" THEN <<"a", "b">> ELSE <<>>]
OneDeadline == [r \in {"r1", "r2"} |-> IF r = "r1" THEN 1 ELSE Null]
==============================================================================
