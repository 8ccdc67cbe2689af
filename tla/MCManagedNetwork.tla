-------------------------- MODULE MCManagedNetwork --------------------------
(***************************************************************************)
(* Small instances of ManagedNetwork.  An object is a string: the account  *)
(* it belongs to and its host, and "t" for the objects on the TLS port.    *)
(***************************************************************************)
EXTENDS ManagedNetwork, TLC

Plain(host) == [host |-> host, port |-> 50211]
Tls(host) == [host |-> host, port |-> 50212]

\* An account with two hosts, or the second host alone, for another account;
\* and the clones on the other port.
SharedNode == {"a1", "a2", "b2", "a1t", "a2t", "b2t"}
SharedKeyOf == [n \in SharedNode |-> IF n \in {"b2", "b2t"} THEN "b" ELSE "a"]
SharedAddrOf ==
    ("a1" :> Plain("h1")) @@ ("a1t" :> Tls("h1")) @@
    ("a2" :> Plain("h2")) @@ ("a2t" :> Tls("h2")) @@
    ("b2" :> Plain("h2")) @@ ("b2t" :> Tls("h2"))
SharedNetworks ==
    {(Plain("h1") :> "a") @@ (Plain("h2") :> "a"), Plain("h2") :> "b"}

\* An account with two hosts, for the arithmetic of the backoffs: the head of
\* its list is removed while the tail stays.
PairNode == {"a1", "a2"}
PairKeyOf == [n \in PairNode |-> "a"]
PairAddrOf == ("a1" :> Plain("h1")) @@ ("a2" :> Plain("h2"))
PairNetworks ==
    {(Plain("h1") :> "a") @@ (Plain("h2") :> "a"), Plain("h2") :> "a"}
==============================================================================
