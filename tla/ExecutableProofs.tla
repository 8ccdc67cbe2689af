-------------------------- MODULE ExecutableProofs --------------------------
(***************************************************************************)
(* Proofs about the node pool, for every pool of nodes and every network   *)
(* an application can configure, and about the retry loop, for any number  *)
(* of requests, any lists of nodes and any settings: the loop implements   *)
(* the use of the node pool that ManagedNetwork specifies, so that the     *)
(* theorems about the pool hold of it, it keeps the promise of execute(),  *)
(* and its late failures do no harm to a new network.                      *)
(***************************************************************************)
EXTENDS Executable, FiniteSetTheorems, TLAPS

-----------------------------------------------------------------------------
(* The node pool *)

(* The variables a getNode() call changes through its sweep. *)
LEMMA ReadmitType ==
    ASSUME TypeOK, ReadmitNodes
    PROVE  healthyNodes' \subseteq Node /\ unhealthyNodesCount' \in Int
<1>1. Readmitted \subseteq Node
  BY DEF TypeOK, Readmitted
<1>2. Cardinality(Readmitted) \in Nat
  BY <1>1, NodeAssumption, FS_Subset, FS_CardinalityType
<1> QED
  BY <1>1, <1>2 DEF TypeOK, ReadmitNodes

LEMMA HeadsType ==
    ASSUME NEW members \in SUBSET Node, NEW f \in Heads(members)
    PROVE  f \in [Key -> Node \cup {NoNode}]
  BY DEF Heads

(* Every step keeps the types of the variables. *)
LEMMA TypeStep == TypeOK /\ [Next]_vars => TypeOK'
<1> SUFFICES ASSUME TypeOK, [Next]_vars PROVE TypeOK'
  OBVIOUS
<1> USE NodeAssumption, KeyAssumption, BackoffAssumption, BoundAssumption
<1>1. ASSUME NEW n \in Node, GetNode(n) PROVE TypeOK'
  BY <1>1, ReadmitType DEF GetNode, TypeOK, Outcomes, settings, objectVars
<1>2. CASE GetNodeThrows
  BY <1>2, ReadmitType DEF GetNodeThrows, TypeOK, Outcomes, settings, objectVars
<1>3. ASSUME NEW k \in Key, NEW n \in Node, GetNodeByKey(k, n) PROVE TypeOK'
  BY <1>3, ReadmitType DEF GetNodeByKey, TypeOK, Outcomes, settings, objectVars
<1>4. CASE GetNodeByKeyThrows
  BY <1>4, ReadmitType DEF GetNodeByKeyThrows, TypeOK, Outcomes, settings, objectVars
<1>5. CASE GetNumberOfMostHealthyNodes
  BY <1>5, ReadmitType DEF GetNumberOfMostHealthyNodes, TypeOK, settings, objectVars
<1>6. ASSUME NEW n \in Node, IncreaseBackoff(n) PROVE TypeOK'
  <2>1. currentBackoff'[n] \in Nat
    BY <1>6 DEF IncreaseBackoff, TypeOK, Smaller
  <2> QED
    BY <1>6, <2>1 DEF IncreaseBackoff, TypeOK, Smaller, settings
<1>7. ASSUME NEW n \in Node, DecreaseBackoff(n) PROVE TypeOK'
  <2>1. Larger(currentBackoff[n] \div 2, nodeMinBackoff[n]) \in Nat
    BY DEF TypeOK, Larger
  <2> QED
    BY <1>7, <2>1 DEF DecreaseBackoff, TypeOK, settings
<1>8. ASSUME NEW net \in Networks, SetNetwork(net) PROVE TypeOK'
  <2> DEFINE kept == nodes \ NodesToRemove(net)
             entries == NewEntries(net, kept)
  <2>1. PICK make \in [entries -> Free] :
            /\ nodes' = kept \cup {make[a] : a \in entries}
            /\ Construct({make[a] : a \in entries})
            /\ healthyNodes' = HealthyOf(nodes')
            /\ network' = healthyNodes'
            /\ first' \in Heads(healthyNodes')
    BY <1>8 DEF SetNetwork
  <2>2. nodes' \subseteq Node /\ healthyNodes' \subseteq Node
    <3>1. {make[a] : a \in entries} \subseteq Node
      BY DEF Free
    <3>2. nodes' \subseteq Node
      BY <2>1, <3>1 DEF TypeOK
    <3> QED
      BY <2>1, <3>2 DEF HealthyOf
  <2>3. first' \in [Key -> Node \cup {NoNode}]
    BY <2>1, <2>2, HeadsType
  <2>4. /\ readmitIn' \in [Node -> Nat] /\ currentBackoff' \in [Node -> Nat]
        /\ nodeMinBackoff' \in [Node -> Nat] /\ nodeMaxBackoff' \in [Node -> Nat]
    BY <2>1 DEF Construct, TypeOK, Larger
  <2> QED
    BY <1>8, <2>1, <2>2, <2>3, <2>4 DEF SetNetwork, TypeOK, Outcomes, settings
<1>9. ASSUME NEW net \in Networks, SetNetworkThrows(net) PROVE TypeOK'
  BY <1>9 DEF SetNetworkThrows, RemoveFromNetwork, TypeOK, Outcomes, settings, objectVars
<1>10. ASSUME NEW secure \in BOOLEAN, SetTransportSecurity(secure) PROVE TypeOK'
  <2>1. PICK clone \in [nodes -> Free] :
          LET original == [c \in {clone[n] : n \in nodes} |->
                             CHOOSE n \in nodes : clone[n] = c]
          IN /\ nodes' = DOMAIN original
             /\ healthyNodes' = nodes'
             /\ network' = nodes'
             /\ first' \in Heads(nodes')
             /\ readmitIn' = [c \in Node |-> IF c \in nodes'
                    THEN readmitIn[original[c]] ELSE readmitIn[c]]
             /\ currentBackoff' = [c \in Node |-> IF c \in nodes'
                    THEN currentBackoff[original[c]] ELSE currentBackoff[c]]
             /\ nodeMinBackoff' = [c \in Node |-> IF c \in nodes'
                    THEN nodeMinBackoff[original[c]] ELSE nodeMinBackoff[c]]
             /\ nodeMaxBackoff' = [c \in Node |-> IF c \in nodes'
                    THEN nodeMinBackoff[original[c]] ELSE nodeMaxBackoff[c]]
    BY <1>10 DEF SetTransportSecurity
  <2> DEFINE original == [c \in {clone[n] : n \in nodes} |->
                             CHOOSE n \in nodes : clone[n] = c]
  <2>2. nodes' = {clone[n] : n \in nodes} /\ nodes' \subseteq Node
    BY <2>1 DEF Free
  <2>3. \A c \in nodes' : original[c] \in nodes
    BY <2>2
  <2>4. first' \in [Key -> Node \cup {NoNode}]
    BY <2>1, <2>2, HeadsType
  <2> HIDE DEF original
  <2>5. /\ readmitIn' \in [Node -> Nat] /\ currentBackoff' \in [Node -> Nat]
        /\ nodeMinBackoff' \in [Node -> Nat] /\ nodeMaxBackoff' \in [Node -> Nat]
    <3>1. \A c \in nodes' : original[c] \in Node
      BY <2>3 DEF TypeOK
    <3> QED
      BY <2>1, <3>1 DEF TypeOK, original
  <2> QED
    BY <1>10, <2>1, <2>2, <2>4, <2>5 DEF SetTransportSecurity, TypeOK, Outcomes
<1>11. ASSUME NEW v \in MinValues, SetMinBackoff(v) PROVE TypeOK'
  BY <1>11 DEF SetMinBackoff, TypeOK, Larger
<1>12. ASSUME NEW v \in MaxValues, SetMaxBackoff(v) PROVE TypeOK'
  BY <1>12 DEF SetMaxBackoff, TypeOK, Larger, settings
<1>13. ASSUME NEW v \in Periods, SetNodeMinReadmitPeriod(v) PROVE TypeOK'
  BY <1>13 DEF SetNodeMinReadmitPeriod, TypeOK, settings, objectVars
<1>14. CASE Close
  BY <1>14 DEF Close, TypeOK, Outcomes, settings, objectVars
<1>15. CASE Tick
  BY <1>15 DEF Tick, Elapse, TypeOK, Larger, settings
<1>16. CASE UNCHANGED vars
  BY <1>16 DEF vars, TypeOK, settings, objectVars
<1> QED
  BY <1>1, <1>2, <1>3, <1>4, <1>5, <1>6, <1>7, <1>8, <1>9, <1>10, <1>11, <1>12,
     <1>13, <1>14, <1>15, <1>16 DEF Next, RequestStep, ConfigureStep

LEMMA TypeInit == Init => TypeOK
<1> SUFFICES ASSUME Init PROVE TypeOK
  OBVIOUS
<1> USE BackoffAssumption DEF Init
<1>1. first \in [Key -> Node \cup {NoNode}]
  OBVIOUS
<1>2. /\ readmitIn \in [Node -> Nat] /\ currentBackoff \in [Node -> Nat]
      /\ nodeMinBackoff \in [Node -> Nat] /\ nodeMaxBackoff \in [Node -> Nat]
  OBVIOUS
<1>3. thrown \in Outcomes /\ transportSecurity \in BOOLEAN
  BY DEF Outcomes
<1> QED
  BY <1>1, <1>2, <1>3 DEF TypeOK

(* The variables keep their types in every behaviour of the node pool. *)
THEOREM TypeCorrect == Spec => []TypeOK
  BY TypeInit, TypeStep, PTL DEF Spec
------------------------------------------------------------------------------
(* A map built by Heads has, for each key, one of the nodes with that key. *)
LEMMA HeadsCorrect ==
    ASSUME NEW members \in SUBSET Node, NEW f \in Heads(members), NEW k \in Key
    PROVE  IF {n \in members : KeyOf[n] = k} = {}
           THEN f[k] = NoNode
           ELSE f[k] \in {n \in members : KeyOf[n] = k}
  BY DEF Heads

LEMMA MapStep == TypeOK /\ MapWithinNodes /\ [Next]_vars => MapWithinNodes'
<1> SUFFICES ASSUME TypeOK, MapWithinNodes, [Next]_vars PROVE MapWithinNodes'
  OBVIOUS
<1> USE NodeAssumption, KeyAssumption
<1>1. CASE UNCHANGED <<nodes, network, first>>
  BY <1>1 DEF MapWithinNodes, ListOf
<1>2. ASSUME NEW net \in Networks, SetNetwork(net) PROVE MapWithinNodes'
  <2>1. /\ network' \subseteq nodes'
        /\ first' \in Heads(network')
    BY <1>2 DEF SetNetwork, HealthyOf
  <2>2. network' \subseteq Node
    BY <1>2, TypeStep DEF Next, ConfigureStep, TypeOK
  <2> QED
    BY <2>1, <2>2, HeadsCorrect DEF MapWithinNodes, ListOf
<1>3. ASSUME NEW net \in Networks, SetNetworkThrows(net) PROVE MapWithinNodes'
  <2>1. PICK gone \in SUBSET nodes : RemoveFromNetwork(gone) /\ nodes' = nodes \ gone
    BY <1>3 DEF SetNetworkThrows, NodesToRemove
  <2>2. network' = network \ gone
    BY <2>1 DEF RemoveFromNetwork
  <2>3. network' \subseteq nodes'
    BY <2>1, <2>2 DEF MapWithinNodes
  <2>4. ASSUME NEW k \in Key
        PROVE  IF ListOf(k)' = {} THEN first'[k] = NoNode ELSE first'[k] \in ListOf(k)'
    <3>1. \/ first[k] \notin gone /\ first'[k] = first[k]
          \/ first[k] \in gone /\ first'[k] \in network' /\ KeyOf[first'[k]] = k
          \/ first[k] \in gone /\ ListOf(k) \subseteq gone /\ first'[k] = NoNode
      BY <2>1 DEF RemoveFromNetwork
    <3>2. ListOf(k)' = ListOf(k) \ gone
      BY <2>2 DEF ListOf
    <3>3. IF ListOf(k) = {} THEN first[k] = NoNode ELSE first[k] \in ListOf(k)
      BY DEF MapWithinNodes
    <3>4. CASE first[k] \notin gone /\ first'[k] = first[k]
      BY <3>2, <3>3, <3>4
    <3>5. CASE first'[k] \in network' /\ KeyOf[first'[k]] = k
      <4>1. first'[k] \in ListOf(k)'
        BY <3>5 DEF ListOf
      <4> QED
        BY <4>1
    <3>6. CASE ListOf(k) \subseteq gone /\ first'[k] = NoNode
      BY <3>2, <3>6
    <3> QED
      BY <3>1, <3>4, <3>5, <3>6
  <2> QED
    BY <2>3, <2>4 DEF MapWithinNodes
<1>4. ASSUME NEW secure \in BOOLEAN, SetTransportSecurity(secure) PROVE MapWithinNodes'
  <2>1. network' = nodes' /\ first' \in Heads(network')
    BY <1>4 DEF SetTransportSecurity
  <2>2. network' \subseteq Node
    BY <1>4, TypeStep DEF Next, ConfigureStep, TypeOK
  <2> QED
    BY <2>1, <2>2, HeadsCorrect DEF MapWithinNodes, ListOf
<1>5. CASE Close
  BY <1>5 DEF Close, MapWithinNodes, ListOf
<1> QED
  BY <1>1, <1>2, <1>3, <1>4, <1>5
  DEF Next, RequestStep, ConfigureStep, GetNode, GetNodeThrows, GetNodeByKey,
      GetNodeByKeyThrows, GetNumberOfMostHealthyNodes, IncreaseBackoff,
      DecreaseBackoff, SetMinBackoff, SetMaxBackoff, SetNodeMinReadmitPeriod,
      Tick, Elapse, vars

(* getNode(key) never returns a node that was removed from the network,     *)
(* whatever the order of new networks (also those that throw half way),    *)
(* clones and close().                                                     *)
THEOREM MapCorrect == Spec => []MapWithinNodes
<1>1. Init => MapWithinNodes
  BY DEF Init, MapWithinNodes, ListOf
<1> QED
  BY <1>1, MapStep, TypeCorrect, PTL DEF Spec
------------------------------------------------------------------------------
(* Subsets of the pool are finite. *)
LEMMA SubsetCount ==
    ASSUME NEW T \in SUBSET Node, NEW S \in SUBSET T
    PROVE  /\ IsFiniteSet(S) /\ IsFiniteSet(T)
           /\ Cardinality(S) \in Nat /\ Cardinality(T) \in Nat
           /\ Cardinality(S) <= Cardinality(T)
  BY NodeAssumption, FS_Subset, FS_CardinalityType

(* A step that adds no troubled node and leaves the count alone. *)
LEMMA CoversSubset ==
    ASSUME TypeOK, UnhealthyCountCovers, Troubled' \subseteq Troubled,
           unhealthyNodesCount' = unhealthyNodesCount
    PROVE  UnhealthyCountCovers'
<1>1. Troubled \subseteq Node
  BY DEF Troubled, TypeOK
<1>2. /\ Cardinality(Troubled') \in Nat /\ Cardinality(Troubled) \in Nat
      /\ Cardinality(Troubled') <= Cardinality(Troubled)
  BY <1>1, SubsetCount
<1> QED
  BY <1>2 DEF UnhealthyCountCovers, TypeOK

(* A sweep takes exactly the readmitted nodes out of trouble. *)
LEMMA CoversReadmit ==
    ASSUME TypeOK, UnhealthyCountCovers, ReadmitNodes, UNCHANGED <<nodes, readmitIn>>
    PROVE  UnhealthyCountCovers'
<1>1. Readmitted \subseteq Troubled /\ Troubled \subseteq Node
  BY DEF Readmitted, Troubled, TypeOK
<1>2. Troubled' = Troubled \ Readmitted
  BY DEF Readmitted, Troubled, ReadmitNodes, TypeOK
<1>3. /\ IsFiniteSet(Troubled) /\ Cardinality(Troubled) \in Nat
      /\ Cardinality(Readmitted) \in Nat
  BY <1>1, SubsetCount
<1>4. Cardinality(Troubled') = Cardinality(Troubled) - Cardinality(Readmitted)
  <2>1. Troubled \cap Readmitted = Readmitted
    BY <1>1
  <2>2. Cardinality(Troubled \ Readmitted) =
            Cardinality(Troubled) - Cardinality(Troubled \cap Readmitted)
    BY <1>3, FS_Difference, Zenon
  <2> QED
    BY <1>2, <2>1, <2>2
<1> QED
  BY <1>3, <1>4 DEF UnhealthyCountCovers, ReadmitNodes, TypeOK

LEMMA CoversStep == TypeOK /\ UnhealthyCountCovers /\ [Next]_vars => UnhealthyCountCovers'
<1> SUFFICES ASSUME TypeOK, UnhealthyCountCovers, [Next]_vars
             PROVE  UnhealthyCountCovers'
  OBVIOUS
<1> USE NodeAssumption
<1>1. CASE ReadmitNodes /\ UNCHANGED <<nodes, readmitIn>>
  BY <1>1, CoversReadmit
<1>2. CASE UNCHANGED <<nodes, healthyNodes, readmitIn, unhealthyNodesCount>>
  <2>1. Troubled' \subseteq Troubled
    BY <1>2 DEF Troubled
  <2> QED
    BY <1>2, <2>1, CoversSubset
<1>3. ASSUME NEW n \in Node, IncreaseBackoff(n) PROVE UnhealthyCountCovers'
  <2>1. CASE n \notin healthyNodes
    <3>1. Troubled' \subseteq Troubled
      BY <1>3, <2>1 DEF IncreaseBackoff, Troubled, TypeOK
    <3>2. unhealthyNodesCount' = unhealthyNodesCount
      BY <1>3, <2>1 DEF IncreaseBackoff, TypeOK
    <3> QED
      BY <3>1, <3>2, CoversSubset
  <2>2. CASE n \in healthyNodes
    <3>1. Troubled' \subseteq Troubled \cup {n} /\ Troubled \cup {n} \subseteq Node
      BY <1>3 DEF IncreaseBackoff, Troubled, TypeOK
    <3>2. unhealthyNodesCount' = unhealthyNodesCount + 1
      BY <1>3, <2>2 DEF IncreaseBackoff
    <3>3. IsFiniteSet(Troubled) /\ Cardinality(Troubled) \in Nat
      BY <3>1, SubsetCount
    <3>4. Cardinality(Troubled \cup {n}) <= Cardinality(Troubled) + 1
      <4>1. Cardinality(Troubled \cup {n}) =
               IF n \in Troubled THEN Cardinality(Troubled) ELSE Cardinality(Troubled) + 1
        BY <3>3, FS_AddElement, Zenon
      <4> QED
        BY <3>3, <4>1
    <3>5. /\ Cardinality(Troubled') \in Nat /\ Cardinality(Troubled \cup {n}) \in Nat
          /\ Cardinality(Troubled') <= Cardinality(Troubled \cup {n})
      BY <3>1, SubsetCount
    <3> QED
      BY <3>2, <3>3, <3>4, <3>5 DEF UnhealthyCountCovers, TypeOK
  <2> QED
    BY <2>1, <2>2
<1>4. ASSUME NEW net \in Networks, SetNetwork(net) PROVE UnhealthyCountCovers'
  <2> DEFINE kept == nodes \ NodesToRemove(net)
             entries == NewEntries(net, kept)
  <2>1. PICK make \in [entries -> Free] :
            /\ nodes' = kept \cup {make[a] : a \in entries}
            /\ Construct({make[a] : a \in entries})
            /\ healthyNodes' = HealthyOf(nodes')
    BY <1>4 DEF SetNetwork
  <2> DEFINE new == {make[a] : a \in entries}
  <2>2. new \subseteq Node
    BY DEF Free
  <2> HIDE DEF new, kept
  <2>3. nodes' = kept \cup new /\ kept \subseteq nodes
    BY <2>1 DEF new, kept
  <2>4. readmitIn' = [n \in Node |-> IF n \in new THEN 0 ELSE readmitIn[n]]
    BY <2>1 DEF Construct, new
  <2>5. Troubled' \subseteq Troubled
    BY <2>1, <2>2, <2>3, <2>4 DEF Troubled, HealthyOf, TypeOK
  <2> QED
    BY <1>4, <2>5, CoversSubset DEF SetNetwork
<1>5. ASSUME NEW net \in Networks, SetNetworkThrows(net) PROVE UnhealthyCountCovers'
  <2>1. nodes' \subseteq nodes /\ UNCHANGED <<healthyNodes, readmitIn, unhealthyNodesCount>>
    BY <1>5 DEF SetNetworkThrows, objectVars
  <2>2. Troubled' \subseteq Troubled
    BY <2>1 DEF Troubled
  <2> QED
    BY <2>1, <2>2, CoversSubset
<1>6. ASSUME NEW secure \in BOOLEAN, SetTransportSecurity(secure) PROVE UnhealthyCountCovers'
  <2>1. PICK clone \in [nodes -> Free] :
          LET original == [c \in {clone[n] : n \in nodes} |->
                             CHOOSE n \in nodes : clone[n] = c]
          IN /\ nodes' = DOMAIN original
             /\ healthyNodes' = nodes'
             /\ readmitIn' = [c \in Node |-> IF c \in nodes'
                    THEN readmitIn[original[c]] ELSE readmitIn[c]]
    BY <1>6 DEF SetTransportSecurity
  <2> DEFINE original == [c \in {clone[n] : n \in nodes} |->
                             CHOOSE n \in nodes : clone[n] = c]
  <2>2. nodes' = {clone[n] : n \in nodes} /\ nodes' \subseteq Node
    BY <2>1 DEF Free
  <2>3. \A c \in nodes' : original[c] \in nodes /\ clone[original[c]] = c
    BY <2>2
  <2>4. Troubled' = {c \in nodes' : readmitIn[original[c]] > 0}
    BY <2>1, <2>2 DEF Troubled
  <2> HIDE DEF original
  <2> DEFINE back == [c \in Troubled' |-> original[c]]
  <2>5. back \in [Troubled' -> Troubled]
    BY <2>3, <2>4 DEF Troubled
  <2>6. \A c, d \in Troubled' : back[c] = back[d] => c = d
    BY <2>3, <2>4
  <2>7. back \in Injection(Troubled', Troubled)
    <3>1. IsInjective(back)
      BY <2>6 DEF IsInjective
    <3> QED
      BY <2>5, <3>1 DEF Injection
  <2>8. Troubled \subseteq Node
    BY DEF Troubled, TypeOK
  <2>9. IsFiniteSet(Troubled) /\ Cardinality(Troubled) \in Nat
    BY <2>8, SubsetCount
  <2>10. IsFiniteSet(Troubled') /\ Cardinality(Troubled') <= Cardinality(Troubled)
    BY <2>7, <2>9, FS_Injection
  <2>11. Cardinality(Troubled') \in Nat
    BY <2>10, FS_CardinalityType
  <2>12. unhealthyNodesCount' = unhealthyNodesCount
    BY <1>6 DEF SetTransportSecurity
  <2> QED
    BY <2>9, <2>10, <2>11, <2>12 DEF UnhealthyCountCovers, TypeOK
<1>7. CASE Close
  <2>1. Troubled' \subseteq Troubled /\ unhealthyNodesCount' = unhealthyNodesCount
    BY <1>7 DEF Close, Troubled
  <2> QED
    BY <2>1, CoversSubset
<1>8. CASE Tick
  <2>1. Troubled' \subseteq Troubled
    BY <1>8 DEF Tick, Elapse, Troubled, Larger, TypeOK
  <2> QED
    BY <1>8, <2>1, CoversSubset DEF Tick, Elapse
<1> QED
  BY <1>1, <1>2, <1>3, <1>4, <1>5, <1>6, <1>7, <1>8
  DEF Next, RequestStep, ConfigureStep, GetNode, GetNodeThrows, GetNodeByKey,
      GetNodeByKeyThrows, GetNumberOfMostHealthyNodes, DecreaseBackoff,
      SetMinBackoff, SetMaxBackoff, SetNodeMinReadmitPeriod, vars, objectVars

(* _unhealthyNodesCount covers every node that is off the healthy list (or  *)
(* back on it only because it was cloned), after any history of failures,  *)
(* readmissions and new networks.                                          *)
THEOREM CountCorrect == Spec => []UnhealthyCountCovers
<1>1. Init => UnhealthyCountCovers
  <2> SUFFICES ASSUME Init PROVE UnhealthyCountCovers
    OBVIOUS
  <2>1. Troubled = {}
    BY DEF Init, Troubled
  <2> QED
    BY <2>1, FS_EmptySet DEF Init, UnhealthyCountCovers
<1> QED
  BY <1>1, CoversStep, TypeCorrect, PTL DEF Spec
------------------------------------------------------------------------------
LEMMA BackoffStep ==
    TypeOK /\ BackoffAboveMinimum /\ [Next]_vars => BackoffAboveMinimum'
<1> SUFFICES ASSUME TypeOK, BackoffAboveMinimum, [Next]_vars, NEW n \in nodes',
                    nodeMaxBackoff'[n] > nodeMinBackoff'[n]
             PROVE  currentBackoff'[n] >= nodeMinBackoff'[n]
  BY DEF BackoffAboveMinimum
<1> USE BackoffAssumption DEF TypeOK
<1>1. CASE nodes' \subseteq nodes /\ UNCHANGED <<currentBackoff, nodeMinBackoff, nodeMaxBackoff>>
  BY <1>1 DEF BackoffAboveMinimum
<1>2. ASSUME NEW m \in Node, IncreaseBackoff(m)
      PROVE  currentBackoff'[n] >= nodeMinBackoff'[n]
  BY <1>2 DEF IncreaseBackoff, BackoffAboveMinimum, Smaller
<1>3. ASSUME NEW m \in Node, DecreaseBackoff(m)
      PROVE  currentBackoff'[n] >= nodeMinBackoff'[n]
  BY <1>3 DEF DecreaseBackoff, BackoffAboveMinimum, Larger
<1>4. ASSUME NEW net \in Networks, SetNetwork(net)
      PROVE  currentBackoff'[n] >= nodeMinBackoff'[n]
  <2> DEFINE kept == nodes \ NodesToRemove(net)
             entries == NewEntries(net, kept)
  <2>1. PICK make \in [entries -> Free] :
            /\ nodes' = kept \cup {make[a] : a \in entries}
            /\ Construct({make[a] : a \in entries})
    BY <1>4 DEF SetNetwork
  <2> DEFINE new == {make[a] : a \in entries}
  <2>2. nodes' \subseteq nodes \cup new /\ Construct(new) /\ n \in Node
    BY <2>1 DEF Free
  <2> HIDE DEF new
  <2>3. CASE n \in new
    BY <2>2, <2>3 DEF Construct, Larger
  <2>4. CASE n \notin new
    BY <2>2, <2>4 DEF Construct, BackoffAboveMinimum
  <2> QED
    BY <2>3, <2>4
<1>5. ASSUME NEW secure \in BOOLEAN, SetTransportSecurity(secure) PROVE FALSE
  <2>1. n \in Node /\ nodeMaxBackoff'[n] \in Nat
    BY <1>5, TypeStep DEF Next, ConfigureStep
  <2>2. nodeMaxBackoff'[n] = nodeMinBackoff'[n]
    BY <1>5, <2>1 DEF SetTransportSecurity
  <2> QED
    BY <2>1, <2>2
<1>6. ASSUME NEW v \in MinValues, SetMinBackoff(v)
      PROVE  currentBackoff'[n] >= nodeMinBackoff'[n]
  BY <1>6 DEF SetMinBackoff, Larger
<1>7. ASSUME NEW v \in MaxValues, SetMaxBackoff(v)
      PROVE  currentBackoff'[n] >= nodeMinBackoff'[n]
  BY <1>7 DEF SetMaxBackoff, Larger
<1>8. ASSUME NEW net \in Networks, SetNetworkThrows(net)
      PROVE  currentBackoff'[n] >= nodeMinBackoff'[n]
  <2>1. nodes' \subseteq nodes
    BY <1>8 DEF SetNetworkThrows
  <2> QED
    BY <1>1, <1>8, <2>1 DEF SetNetworkThrows, objectVars
<1> QED
  BY <1>1, <1>2, <1>3, <1>4, <1>5, <1>6, <1>7, <1>8
  DEF Next, RequestStep, ConfigureStep, GetNode, GetNodeThrows, GetNodeByKey,
      GetNodeByKeyThrows, GetNumberOfMostHealthyNodes, SetNodeMinReadmitPeriod, Close,
      Tick, Elapse, vars, objectVars

(* No order of failures, answers, setters, new networks and clones brings   *)
(* the backoff of a node below its minimum, unless the range of backoffs   *)
(* it was given is empty or a single value.                                *)
THEOREM BackoffCorrect == Spec => []BackoffAboveMinimum
<1>1. Init => BackoffAboveMinimum
  BY DEF Init, BackoffAboveMinimum
<1> QED
  BY <1>1, BackoffStep, TypeCorrect, PTL DEF Spec
------------------------------------------------------------------------------
(* A node is only put (back) on the healthy list when its readmit time is   *)
(* over, or as a clone.                                                    *)
THEOREM ReadmissionCorrect == Spec => NoEarlyReadmission
<1> DEFINE Late == \A n \in healthyNodes' \ healthyNodes :
                      readmitIn'[n] = 0 \/ transportSecurity' # transportSecurity
<1>1. TypeOK /\ [Next]_vars => [Late]_vars
  <2> SUFFICES ASSUME TypeOK, Next PROVE Late
    OBVIOUS
  <2>1. CASE healthyNodes' \subseteq healthyNodes
    BY <2>1
  <2>2. CASE ReadmitNodes /\ UNCHANGED readmitIn
    BY <2>2 DEF ReadmitNodes, Readmitted
  <2>3. ASSUME NEW net \in Networks, SetNetwork(net) PROVE Late
    BY <2>3 DEF SetNetwork, HealthyOf
  <2>4. ASSUME NEW secure \in BOOLEAN, SetTransportSecurity(secure) PROVE Late
    BY <2>4 DEF SetTransportSecurity
  <2> QED
    BY <2>1, <2>2, <2>3, <2>4
    DEF Next, RequestStep, ConfigureStep, GetNode, GetNodeThrows, GetNodeByKey,
        GetNodeByKeyThrows, GetNumberOfMostHealthyNodes, IncreaseBackoff, DecreaseBackoff,
        SetNetworkThrows, SetMinBackoff, SetMaxBackoff, SetNodeMinReadmitPeriod, Close,
        Tick, Elapse, objectVars
<1> QED
  BY <1>1, TypeCorrect, PTL DEF Spec, NoEarlyReadmission

-----------------------------------------------------------------------------
(* The retry loop *)


(* The types the arguments need.  waitIn is left out: its type rests on a   *)
(* power of two, of which the provers know nothing.                        *)
LoopTyped ==
    /\ TypeOK
    /\ pc \in [Request -> Places]
    /\ attempt \in [Request -> Nat] /\ calls \in [Request -> Nat]
    /\ index \in [Request -> Nat \ {0}]
    /\ \A r \in Request : Locked(r) => index[r] <= Len(NodeAccountIds[r])
    /\ node \in [Request -> Node \cup {NoNode}]
    /\ outcome \in [Request -> Results]
    /\ running \in Request \cup {NoRequest}

(* A request holds a node from getNode() until the call is over. *)
HoldsNode == \A r \in Request : pc[r] \in {"making", "calling"} => node[r] \in Node

LEMMA AdvanceType ==
    ASSUME LoopTyped, NEW r \in Request
    PROVE  /\ Advance(r) \in Nat \ {0}
           /\ Locked(r) => Advance(r) <= Len(NodeAccountIds[r])
<1>1. NodeAccountIds[r] \in Seq(Key)
  BY RequestAssumption
<1>2. index[r] \in Nat
  BY DEF LoopTyped
<1>3. CASE Locked(r)
  <2>1. Len(NodeAccountIds[r]) \in Nat \ {0}
    BY <1>1, <1>3 DEF Locked
  <2>2. index[r] % Len(NodeAccountIds[r]) \in 0..(Len(NodeAccountIds[r]) - 1)
    BY <1>2, <2>1
  <2> QED
    BY <1>3, <2>1, <2>2 DEF Advance
<1>4. CASE ~ Locked(r)
  BY <1>4 DEF Advance
<1> QED
  BY <1>3, <1>4

(* The name a request with a list looks up is one of the list. *)
LEMMA ListedKey ==
    ASSUME LoopTyped, NEW r \in Request, Locked(r)
    PROVE  NodeAccountIds[r][index[r]] \in Key
<1>1. NodeAccountIds[r] \in Seq(Key)
  BY RequestAssumption
<1>2. index[r] \in 1..Len(NodeAccountIds[r])
  BY <1>1 DEF LoopTyped
<1> QED
  BY <1>1, <1>2
------------------------------------------------------------------------------
(* Every step of the loop is a step of the network, or leaves it alone. *)
LEMMA RequestUsesNetwork ==
    ASSUME LoopTyped, HoldsNode, NEW r \in Request, RequestAction(r)
    PROVE  [Next]_vars
<1> USE DEF RequestAction
<1>1. CASE UNCHANGED vars
  BY <1>1
<1>2. CASE Attempt(r)
  <2>1. PICK n \in Node :
          IF Locked(r) THEN GetNodeByKey(NodeAccountIds[r][index[r]], n) ELSE GetNode(n)
    BY <1>2 DEF Attempt
  <2> QED
    BY <2>1, ListedKey DEF Next, RequestStep
<1>3. CASE AttemptThrows(r)
  BY <1>3 DEF AttemptThrows, Next, RequestStep
<1>4. CASE CallFails(r)
  BY <1>4 DEF CallFails, HoldsNode, Next, RequestStep
<1>5. CASE Answered(r) \/ AnsweredRetry(r)
  BY <1>5 DEF Answered, AnsweredRetry, HoldsNode, Next, RequestStep
<1> QED
  BY <1>1, <1>2, <1>3, <1>4, <1>5
  DEF Execute, BeforeExecuted, RequestFails, GiveUp, SkipUnhealthy, Send, CallErrs,
      DeadlineExceeded, DelayOver

LEMMA StepUsesNetwork ==
    LoopTyped /\ HoldsNode /\ [ExecNext]_execVars => [Next]_vars
<1> SUFFICES ASSUME LoopTyped, HoldsNode, [ExecNext]_execVars PROVE [Next]_vars
  OBVIOUS
<1>1. CASE \E r \in Request : RequestAction(r)
  BY <1>1, RequestUsesNetwork
<1>2. CASE Configure
  BY <1>2 DEF Configure, Next
<1>3. CASE ExecTick
  <2>1. Elapse
    BY <1>3 DEF ExecTick
  <2>2. CASE readmitSweepIn > 0 \/ \E n \in Node : readmitIn[n] > 0
    BY <2>1, <2>2 DEF Tick, Next
  <2>3. CASE ~ (readmitSweepIn > 0 \/ \E n \in Node : readmitIn[n] > 0)
    <3>1. readmitSweepIn = 0 /\ readmitIn = [n \in Node |-> 0]
      BY <2>3 DEF LoopTyped, TypeOK
    <3>2. readmitSweepIn' = readmitSweepIn /\ readmitIn' = readmitIn
      BY <2>1, <3>1 DEF Elapse, Larger
    <3> QED
      BY <2>1, <3>2 DEF Elapse, vars, objectVars
  <2> QED
    BY <2>2, <2>3
<1>4. CASE UNCHANGED execVars
  BY <1>4 DEF execVars
<1> QED
  BY <1>1, <1>2, <1>3, <1>4 DEF ExecNext
------------------------------------------------------------------------------
LEMMA LoopInit == ExecInit => LoopTyped /\ HoldsNode
<1> SUFFICES ASSUME ExecInit PROVE LoopTyped /\ HoldsNode
  OBVIOUS
<1>1. TypeOK
  BY TypeInit DEF ExecInit
<1>2. \A r \in Request : Locked(r) => 1 <= Len(NodeAccountIds[r])
  BY RequestAssumption DEF Locked
<1> QED
  BY <1>1, <1>2 DEF ExecInit, LoopTyped, HoldsNode, Places, Results

LEMMA RequestTyped ==
    ASSUME LoopTyped, HoldsNode, NEW r \in Request, RequestAction(r), TypeOK'
    PROVE  LoopTyped'
<1> USE RequestAssumption DEF LoopTyped, Places, Results
<1>1. ASSUME NEW result \in Results, Settle(r, result) PROVE LoopTyped'
  BY <1>1 DEF Settle, Locked
<1>2. CASE RequestFails(r) \/ GiveUp(r) \/ AttemptThrows(r) \/ CallErrs(r)
           \/ DeadlineExceeded(r) \/ Answered(r)
  BY <1>1, <1>2 DEF RequestFails, GiveUp, AttemptThrows, CallErrs, DeadlineExceeded, Answered
<1>3. CASE Execute(r) \/ BeforeExecuted(r)
  BY <1>3 DEF Execute, BeforeExecuted, Locked
<1>4. CASE Attempt(r)
  BY <1>4 DEF Attempt, Locked
<1>5. CASE SkipUnhealthy(r) \/ Send(r)
  <2>1. /\ index' \in [Request -> Nat \ {0}]
        /\ \A q \in Request : Locked(q) => index'[q] <= Len(NodeAccountIds[q])
    <3>1. index' = [index EXCEPT ![r] = Advance(r)]
      BY <1>5 DEF SkipUnhealthy, Send
    <3>2. Advance(r) \in Nat \ {0} /\ (Locked(r) => Advance(r) <= Len(NodeAccountIds[r]))
      BY AdvanceType
    <3> QED
      BY <3>1, <3>2
  <2>2. CASE SkipUnhealthy(r)
    BY <2>1, <2>2 DEF SkipUnhealthy
  <2>3. CASE Send(r)
    BY <2>1, <2>3 DEF Send
  <2> QED
    BY <1>5, <2>2, <2>3
<1>6. CASE CallFails(r) \/ AnsweredRetry(r) \/ DelayOver(r)
  <2>1. CASE CallFails(r)
    BY <2>1 DEF CallFails
  <2>2. CASE AnsweredRetry(r)
    BY <2>2 DEF AnsweredRetry
  <2>3. CASE DelayOver(r)
    BY <2>3 DEF DelayOver
  <2> QED
    BY <1>6, <2>1, <2>2, <2>3
<1> QED
  BY <1>2, <1>3, <1>4, <1>5, <1>6 DEF RequestAction

LEMMA RequestHolds ==
    ASSUME LoopTyped, HoldsNode, NEW r \in Request, RequestAction(r)
    PROVE  HoldsNode'
<1> USE DEF LoopTyped, HoldsNode
<1>1. ASSUME NEW result, Settle(r, result) PROVE HoldsNode'
  BY <1>1 DEF Settle
<1>2. CASE RequestFails(r) \/ GiveUp(r) \/ AttemptThrows(r) \/ CallErrs(r)
           \/ DeadlineExceeded(r) \/ Answered(r)
  BY <1>1, <1>2 DEF RequestFails, GiveUp, AttemptThrows, CallErrs, DeadlineExceeded, Answered
<1>3. CASE Attempt(r)
  BY <1>3 DEF Attempt
<1> QED
  BY <1>2, <1>3
  DEF RequestAction, Execute, BeforeExecuted, SkipUnhealthy, Send, CallFails,
      AnsweredRetry, DelayOver

LEMMA LoopStep ==
    LoopTyped /\ HoldsNode /\ [ExecNext]_execVars => LoopTyped' /\ HoldsNode'
<1> SUFFICES ASSUME LoopTyped, HoldsNode, [ExecNext]_execVars
             PROVE  LoopTyped' /\ HoldsNode'
  OBVIOUS
<1>1. TypeOK'
  BY StepUsesNetwork, TypeStep DEF LoopTyped
<1>2. CASE \E r \in Request : RequestAction(r)
  BY <1>1, <1>2, RequestTyped, RequestHolds
<1>3. CASE UNCHANGED <<pc, attempt, index, node, calls, outcome, running>>
  BY <1>1, <1>3 DEF LoopTyped, HoldsNode, Locked
<1> QED
  BY <1>2, <1>3 DEF ExecNext, Configure, ExecTick, execVars, requestVars

LEMMA LoopCorrect == ExecSpec => [](LoopTyped /\ HoldsNode)
  BY LoopInit, LoopStep, PTL DEF ExecSpec

(* Any number of requests that run at the same time, with awaits between    *)
(* choosing a node and using it, use the node pool as ManagedNetwork says: *)
(* the retry loop implements its specification.                            *)
THEOREM LoopUsesNetwork == ExecSpec => UsesNetwork
<1>1. ExecInit => Init
  BY DEF ExecInit
<1> QED
  BY <1>1, StepUsesNetwork, LoopCorrect, PTL DEF ExecSpec, Spec, UsesNetwork

(* What holds of the node pool holds under concurrent requests. *)
THEOREM LoopKeepsMap == ExecSpec => [](MapWithinNodes /\ UnhealthyCountCovers)
  BY LoopUsesNetwork, MapCorrect, CountCorrect, PTL DEF UsesNetwork
------------------------------------------------------------------------------
(* A request that has not called in its attempt has called less often than  *)
(* it has attempts, and it only gets to a call while it has attempts left. *)
CallCount ==
    \A r \in Request :
        /\ pc[r] # "settled" => calls[r] <= attempt[r] /\ outcome[r] = "none"
        /\ pc[r] \in {"idle", "before", "loop", "making"} => calls[r] < attempt[r]
        /\ pc[r] \in {"making", "calling", "delay"} => attempt[r] <= MaxAttempts

(* Whose code is at work is at the head of the loop. *)
TurnAtLoop == \A r \in Request : running = r => pc[r] = "loop"

LEMMA MaxAttemptsType == MaxAttempts \in Nat
  BY LimitAssumption DEF MaxAttempts

LEMMA TurnStep ==
    LoopTyped /\ TurnAtLoop /\ [ExecNext]_execVars => TurnAtLoop'
<1> SUFFICES ASSUME LoopTyped, TurnAtLoop, [ExecNext]_execVars PROVE TurnAtLoop'
  OBVIOUS
<1> USE RequestAssumption DEF LoopTyped, TurnAtLoop
<1>1. ASSUME NEW r \in Request, RequestAction(r) PROVE TurnAtLoop'
  BY <1>1
  DEF RequestAction, Execute, BeforeExecuted, RequestFails, GiveUp, Attempt, AttemptThrows,
      SkipUnhealthy, Send, CallFails, CallErrs, DeadlineExceeded, Answered, AnsweredRetry,
      DelayOver, Settle, Idle
<1> QED
  BY <1>1 DEF ExecNext, Configure, ExecTick, execVars, requestVars

LEMMA CallCountStep ==
    LoopTyped /\ TurnAtLoop /\ CallCount /\ [ExecNext]_execVars => CallCount'
<1> SUFFICES ASSUME LoopTyped, TurnAtLoop, CallCount, [ExecNext]_execVars PROVE CallCount'
  OBVIOUS
<1> USE RequestAssumption, MaxAttemptsType DEF LoopTyped, CallCount
<1>1. ASSUME NEW r \in Request, RequestAction(r) PROVE CallCount'
  <2>1. CASE RequestFails(r) \/ GiveUp(r) \/ AttemptThrows(r)
    BY <1>1, <2>1 DEF RequestFails, GiveUp, AttemptThrows, Settle
  <2>2. CASE CallErrs(r) \/ DeadlineExceeded(r) \/ Answered(r)
    BY <1>1, <2>2 DEF CallErrs, DeadlineExceeded, Answered, Settle
  <2>3. CASE Execute(r) \/ BeforeExecuted(r)
    BY <1>1, <2>3 DEF Execute, BeforeExecuted
  <2>4. CASE Attempt(r)
    BY <1>1, <2>4 DEF Attempt, MayAttempt, Turn, TurnAtLoop
  <2>5. CASE SkipUnhealthy(r)
    BY <1>1, <2>5 DEF SkipUnhealthy
  <2>6. CASE Send(r)
    BY <1>1, <2>6 DEF Send
  <2>7. CASE CallFails(r)
    BY <2>7 DEF CallFails
  <2>8. CASE AnsweredRetry(r)
    BY <2>8 DEF AnsweredRetry
  <2>9. CASE DelayOver(r)
    BY <2>9 DEF DelayOver
  <2> QED
    BY <1>1, <2>1, <2>2, <2>3, <2>4, <2>5, <2>6, <2>7, <2>8, <2>9, Zenon DEF RequestAction
<1> QED
  BY <1>1 DEF ExecNext, Configure, ExecTick, execVars, requestVars

------------------------------------------------------------------------------
(* What one request does, its caller sees as a step of Promises or as none. *)
LEMMA RequestSeen ==
    ASSUME LoopTyped, TurnAtLoop, CallCount, NEW r \in Request, RequestAction(r)
    PROVE  [Promised!PromiseNext]_Promised!promiseVars
<1> USE DEF LoopTyped, StateSeen, Places
<1>1. ASSUME Promised!Begin(r) \/ Promised!Call(r) \/ Promised!CallEnds(r)
      PROVE  Promised!PromiseNext
  BY <1>1 DEF Promised!PromiseNext
<1>2. ASSUME NEW value \in Answers, Settle(r, value), pc[r] = "calling"
      PROVE  Promised!PromiseNext
  <2>1. Promised!Settled(r, value)
    BY <1>2 DEF Settle, Promised!Settled
  <2> QED
    BY <2>1 DEF Promised!PromiseNext
<1>3. ASSUME NEW value \in Results \ (Answers \cup {"none"}), Settle(r, value),
             pc[r] \in {"before", "loop", "making"}
      PROVE  Promised!PromiseNext
  <2>1. Promised!Settled(r, value)
    BY <1>3 DEF Settle, Promised!Settled
  <2> QED
    BY <2>1 DEF Promised!PromiseNext
<1>4. CASE RequestFails(r)
  BY <1>3, <1>4 DEF RequestFails, Results, Answers
<1>5. CASE GiveUp(r) \/ AttemptThrows(r)
  BY <1>3, <1>5 DEF GiveUp, AttemptThrows, MayAttempt, Turn, TurnAtLoop, Results, Answers
<1>6. CASE CallErrs(r) \/ DeadlineExceeded(r) \/ Answered(r)
  BY <1>2, <1>6 DEF CallErrs, DeadlineExceeded, Answered, Answers
<1>7. CASE Execute(r)
  <2>1. Promised!Begin(r)
    BY <1>7 DEF Execute, Promised!Begin
  <2> QED
    BY <1>1, <2>1
<1>8. CASE Send(r)
  <2>1. calls[r] < MaxAttempts
    BY <1>8, MaxAttemptsType DEF Send, CallCount
  <2>2. Promised!Call(r)
    BY <1>8, <2>1 DEF Send, Promised!Call
  <2> QED
    BY <1>1, <2>2
<1>9. CASE CallFails(r)
  <2>1. Promised!CallEnds(r)
    BY <1>9 DEF CallFails, Promised!CallEnds
  <2> QED
    BY <1>1, <2>1
<1>10. CASE AnsweredRetry(r)
  <2>1. Promised!CallEnds(r)
    BY <1>10 DEF AnsweredRetry, Promised!CallEnds
  <2> QED
    BY <1>1, <2>1
<1>11. CASE BeforeExecuted(r)
  BY <1>11 DEF BeforeExecuted, Promised!promiseVars
<1>12. CASE Attempt(r)
  BY <1>12 DEF Attempt, MayAttempt, Turn, TurnAtLoop, Promised!promiseVars
<1>13. CASE SkipUnhealthy(r)
  BY <1>13 DEF SkipUnhealthy, Promised!promiseVars
<1>14. CASE DelayOver(r)
  BY <1>14 DEF DelayOver, Promised!promiseVars
<1> QED
  BY <1>4, <1>5, <1>6, <1>7, <1>8, <1>9, <1>10, <1>11, <1>12, <1>13, <1>14, Zenon
  DEF RequestAction

(* Whatever its requests do to each other through the node pool, and however *)
(* the network is reconfigured under them, the retry loop implements          *)
(* Promises: every execute() makes its calls one at a time and within its     *)
(* limit, and settles once, with a result of the call that is under way or    *)
(* with one of its own.                                                       *)
THEOREM LoopKeepsPromise == ExecSpec => KeepsPromise
<1>1. ExecInit => Promised!PromiseInit
  BY DEF ExecInit, Promised!PromiseInit, StateSeen
<1>2. ExecInit => TurnAtLoop /\ CallCount
  BY RequestAssumption DEF ExecInit, TurnAtLoop, CallCount
<1>3. LoopTyped /\ TurnAtLoop /\ CallCount /\ [ExecNext]_execVars
      => [Promised!PromiseNext]_Promised!promiseVars
  <2> SUFFICES ASSUME LoopTyped, TurnAtLoop, CallCount, [ExecNext]_execVars
               PROVE  [Promised!PromiseNext]_Promised!promiseVars
    OBVIOUS
  <2>1. CASE \E r \in Request : RequestAction(r)
    BY <2>1, RequestSeen
  <2>2. CASE UNCHANGED requestVars
    BY <2>2 DEF requestVars, Promised!promiseVars, StateSeen
  <2>3. CASE ExecTick
    BY <2>3 DEF ExecTick, Promised!promiseVars, StateSeen
  <2> QED
    BY <2>1, <2>2, <2>3 DEF ExecNext, Configure, execVars
<1> QED
  BY <1>1, <1>2, <1>3, LoopCorrect, TurnStep, CallCountStep, PTL
  DEF ExecSpec, KeepsPromise, Promised!PromiseSpec
------------------------------------------------------------------------------
(* A call that ends on a node object which the network has replaced or      *)
(* removed in the meantime leaves the nodes of the network, and what is    *)
(* known of them, as they are.                                             *)
THEOREM StaleHarmless == ExecSpec => StaleCallHarmless
<1> DEFINE Harmless ==
      \A r \in Request :
          pc[r] = "calling" /\ pc'[r] # "calling" /\ node[r] \notin nodes
          => PoolSeen' = PoolSeen
<1>1. LoopTyped /\ TurnAtLoop /\ [ExecNext]_execVars => Harmless
  <2> SUFFICES ASSUME LoopTyped, TurnAtLoop, [ExecNext]_execVars,
                      NEW q \in Request, pc[q] = "calling", pc'[q] # "calling",
                      node[q] \notin nodes
               PROVE  PoolSeen' = PoolSeen
    OBVIOUS
  <2> USE DEF LoopTyped
  <2>1. ASSUME NEW r \in Request, RequestAction(r), r # q PROVE FALSE
    BY <2>1
    DEF RequestAction, Execute, BeforeExecuted, RequestFails, GiveUp, Attempt, AttemptThrows,
        SkipUnhealthy, Send, CallFails, CallErrs, DeadlineExceeded, Answered, AnsweredRetry,
        DelayOver, Settle
  <2>2. CASE RequestAction(q)
    <3>1. UNCHANGED vars \/ IncreaseBackoff(node[q]) \/ DecreaseBackoff(node[q])
      <4>1. running # q
        BY DEF TurnAtLoop
      <4>2. CASE RequestFails(q) \/ CallErrs(q) \/ DeadlineExceeded(q) \/ Execute(q)
                 \/ BeforeExecuted(q) \/ SkipUnhealthy(q) \/ Send(q) \/ DelayOver(q)
        BY <4>2
        DEF RequestFails, CallErrs, DeadlineExceeded, Execute, BeforeExecuted, SkipUnhealthy,
            Send, DelayOver
      <4>3. CASE GiveUp(q) \/ Attempt(q) \/ AttemptThrows(q)
        BY <4>1, <4>3 DEF GiveUp, Attempt, AttemptThrows, MayAttempt, Turn
      <4>4. CASE CallFails(q) \/ Answered(q) \/ AnsweredRetry(q)
        BY <4>4 DEF CallFails, Answered, AnsweredRetry
      <4> QED
        BY <2>2, <4>2, <4>3, <4>4 DEF RequestAction
    <3>2. nodes' = nodes /\ network' = network /\ first' = first
      BY <3>1 DEF IncreaseBackoff, DecreaseBackoff, vars
    <3>3. nodes \cap healthyNodes' = nodes \cap healthyNodes
      BY <3>1 DEF IncreaseBackoff, DecreaseBackoff, vars
    <3>4. \A n \in nodes : readmitIn'[n] = readmitIn[n] /\ currentBackoff'[n] = currentBackoff[n]
      BY <3>1 DEF IncreaseBackoff, DecreaseBackoff, vars, objectVars, TypeOK
    <3> QED
      BY <3>2, <3>3, <3>4 DEF PoolSeen
  <2>3. CASE UNCHANGED pc
    BY <2>3
  <2> QED
    BY <2>1, <2>2, <2>3 DEF ExecNext, Configure, ExecTick, requestVars, execVars
<1>2. ExecInit => TurnAtLoop
  BY RequestAssumption DEF ExecInit, TurnAtLoop
<1> QED
  BY <1>1, <1>2, LoopCorrect, TurnStep, PTL DEF ExecSpec, StaleCallHarmless
------------------------------------------------------------------------------
(* Nothing in the SDK keeps an application from setting a backoff of zero;  *)
(* a node that fails is then readmitted at once.                           *)
PositiveBackoffs ==
    DefaultMin > 0 /\ DefaultMax > 0 /\ 0 \notin MinValues /\ 0 \notin MaxValues

(* Every backoff, limit and setting is above zero, of the nodes that were   *)
(* removed as well: a late failure may report them.                        *)
AboveZero ==
    /\ minBackoff > 0
    /\ \A n \in Node :
          currentBackoff[n] > 0 /\ nodeMinBackoff[n] > 0 /\ nodeMaxBackoff[n] > 0

LEMMA AboveZeroStep ==
    TypeOK /\ PositiveBackoffs /\ AboveZero /\ [Next]_vars => AboveZero'
<1> SUFFICES ASSUME TypeOK, PositiveBackoffs, AboveZero, [Next]_vars PROVE AboveZero'
  OBVIOUS
<1> USE BackoffAssumption DEF TypeOK, AboveZero
<1>1. CASE UNCHANGED <<minBackoff, currentBackoff, nodeMinBackoff, nodeMaxBackoff>>
  BY <1>1
<1>2. ASSUME NEW m \in Node, IncreaseBackoff(m) PROVE AboveZero'
  BY <1>2 DEF IncreaseBackoff, Smaller, settings
<1>3. ASSUME NEW m \in Node, DecreaseBackoff(m) PROVE AboveZero'
  BY <1>3 DEF DecreaseBackoff, Larger, settings
<1>4. ASSUME NEW net \in Networks, SetNetwork(net) PROVE AboveZero'
  <2>1. PICK new : Construct(new)
    BY <1>4 DEF SetNetwork
  <2>2. minBackoff' = minBackoff
    BY <1>4 DEF SetNetwork, settings
  <2> QED
    BY <2>1, <2>2 DEF Construct, Larger, PositiveBackoffs
<1>5. ASSUME NEW secure \in BOOLEAN, SetTransportSecurity(secure) PROVE AboveZero'
  <2>1. PICK clone \in [nodes -> Free] :
          LET original == [c \in {clone[n] : n \in nodes} |->
                              CHOOSE n \in nodes : clone[n] = c]
          IN /\ nodes' = DOMAIN original
             /\ currentBackoff' = [c \in Node |-> IF c \in nodes'
                    THEN currentBackoff[original[c]] ELSE currentBackoff[c]]
             /\ nodeMinBackoff' = [c \in Node |-> IF c \in nodes'
                    THEN nodeMinBackoff[original[c]] ELSE nodeMinBackoff[c]]
             /\ nodeMaxBackoff' = [c \in Node |-> IF c \in nodes'
                    THEN nodeMinBackoff[original[c]] ELSE nodeMaxBackoff[c]]
    BY <1>5 DEF SetTransportSecurity
  <2> DEFINE from(c) == CHOOSE n \in nodes : clone[n] = c
  <2>2. \A c \in nodes' : from(c) \in Node
    BY <2>1
  <2>3. /\ currentBackoff' = [c \in Node |-> IF c \in nodes'
               THEN currentBackoff[from(c)] ELSE currentBackoff[c]]
        /\ nodeMinBackoff' = [c \in Node |-> IF c \in nodes'
               THEN nodeMinBackoff[from(c)] ELSE nodeMinBackoff[c]]
        /\ nodeMaxBackoff' = [c \in Node |-> IF c \in nodes'
               THEN nodeMinBackoff[from(c)] ELSE nodeMaxBackoff[c]]
    BY <2>1
  <2>4. minBackoff' = minBackoff
    BY <1>5 DEF SetTransportSecurity
  <2> HIDE DEF from
  <2> QED
    BY <2>2, <2>3, <2>4
<1>6. ASSUME NEW v \in MinValues, SetMinBackoff(v) PROVE AboveZero'
  BY <1>6 DEF SetMinBackoff, Larger, PositiveBackoffs
<1>7. ASSUME NEW v \in MaxValues, SetMaxBackoff(v) PROVE AboveZero'
  BY <1>7 DEF SetMaxBackoff, Larger, PositiveBackoffs, settings
<1>8. ASSUME NEW net \in Networks, SetNetworkThrows(net) PROVE AboveZero'
  BY <1>1, <1>8 DEF SetNetworkThrows, objectVars, settings
<1> QED
  BY <1>1, <1>2, <1>3, <1>4, <1>5, <1>6, <1>7, <1>8
  DEF Next, RequestStep, ConfigureStep, GetNode, GetNodeThrows, GetNodeByKey,
      GetNodeByKeyThrows, GetNumberOfMostHealthyNodes, SetNodeMinReadmitPeriod, Close,
      Tick, Elapse, vars, objectVars, settings

(* A request remembers the node that failed until it has chosen another    *)
(* one; at the head of the loop it has the turn, and that node is off the  *)
(* healthy list for a time that is not over.                               *)
Remembered ==
    /\ failed \in [Request -> Node \cup {NoNode}]
    /\ \A r \in Request :
          /\ failed[r] # NoNode => pc[r] \in {"loop", "making", "calling"}
          /\ pc[r] = "loop" => running = r
          /\ pc[r] = "loop" /\ failed[r] # NoNode =>
                failed[r] \notin healthyNodes /\ readmitIn[failed[r]] > 0

LEMMA RememberedStep ==
    ASSUME LoopTyped, HoldsNode, TurnAtLoop, AboveZero, Remembered, FailedNodeAvoided,
           [ExecNext]_execVars
    PROVE  Remembered' /\ FailedNodeAvoided'
<1> USE RequestAssumption, NodeAssumption DEF LoopTyped, Remembered, FailedNodeAvoided, Idle, Locked
<1>1. ASSUME NEW r \in Request, RequestAction(r) PROVE Remembered' /\ FailedNodeAvoided'
  <2>1. ASSUME NEW result, Settle(r, result), Idle \/ Turn(r)
        PROVE  Remembered' /\ FailedNodeAvoided'
    BY <2>1 DEF Settle, Turn, TurnAtLoop
  <2>2. CASE RequestFails(r) \/ GiveUp(r) \/ AttemptThrows(r)
    BY <2>1, <2>2 DEF RequestFails, GiveUp, AttemptThrows, MayAttempt
  <2>3. CASE CallErrs(r) \/ DeadlineExceeded(r) \/ Answered(r)
    BY <2>1, <2>3 DEF CallErrs, DeadlineExceeded, Answered
  <2>4. CASE Execute(r) \/ BeforeExecuted(r)
    BY <2>4 DEF Execute, BeforeExecuted, vars, objectVars
  <2>5. CASE Attempt(r)
    <3>1. PICK n \in Node :
            /\ ~ Locked(r) => GetNode(n)
            /\ node' = [node EXCEPT ![r] = n]
      BY <2>5 DEF Attempt
    <3>2. /\ running = r /\ pc[r] = "loop" /\ pc' = [pc EXCEPT ![r] = "making"]
          /\ running' = NoRequest /\ failed' = failed
      BY <2>5 DEF Attempt, MayAttempt, Turn, TurnAtLoop
    <3>3. ASSUME ~ Locked(r) PROVE n # failed[r]
      <4>1. GetNode(n)
        BY <3>1, <3>3
      <4>2. n \in healthyNodes \/ readmitIn[n] = 0
        BY <4>1 DEF GetNode, ReadmitNodes, Readmitted
      <4> QED
        BY <3>2, <4>2
    <3>4. Remembered'
      BY <3>2
    <3>5. FailedNodeAvoided'
      BY <3>1, <3>2, <3>3
    <3> QED
      BY <3>4, <3>5
  <2>6. CASE SkipUnhealthy(r)
    BY <2>6 DEF SkipUnhealthy, vars, objectVars
  <2>7. CASE Send(r)
    BY <2>7 DEF Send, vars, objectVars
  <2>8. CASE CallFails(r)
    <3>1. /\ node[r] \in Node /\ IncreaseBackoff(node[r])
          /\ pc' = [pc EXCEPT ![r] = "loop"] /\ failed' = [failed EXCEPT ![r] = node[r]]
          /\ node' = [node EXCEPT ![r] = NoNode] /\ running = NoRequest /\ running' = r
      BY <2>8 DEF CallFails, HoldsNode
    <3>2. node[r] \notin healthyNodes' /\ readmitIn'[node[r]] > 0
      BY <3>1 DEF IncreaseBackoff, Smaller, AboveZero, TypeOK
    <3> QED
      BY <3>1, <3>2
  <2>9. CASE AnsweredRetry(r)
    BY <2>9 DEF AnsweredRetry, DecreaseBackoff
  <2>10. CASE DelayOver(r)
    BY <2>10 DEF DelayOver, vars, objectVars
  <2> QED
    BY <1>1, <2>2, <2>3, <2>4, <2>5, <2>6, <2>7, <2>8, <2>9, <2>10, Zenon DEF RequestAction
<1>2. CASE Idle /\ UNCHANGED <<pc, node, failed, running>>
  BY <1>2
<1>3. CASE UNCHANGED execVars
  BY <1>3 DEF execVars, requestVars, vars, objectVars
<1> QED
  BY <1>1, <1>2, <1>3 DEF ExecNext, Configure, ExecTick, requestVars

(* A request without a list of nodes never retries on the node whose call   *)
(* has just failed, whatever other requests and the application do to the  *)
(* pool, as long as no backoff is set to zero.                             *)
THEOREM FailedAvoided == ExecSpec => [](PositiveBackoffs => FailedNodeAvoided)
<1> DEFINE Avoids == PositiveBackoffs => AboveZero /\ Remembered /\ FailedNodeAvoided
<1>1. ExecInit => TurnAtLoop /\ Avoids
  <2> SUFFICES ASSUME ExecInit PROVE TurnAtLoop /\ Avoids
    OBVIOUS
  <2>1. TurnAtLoop
    BY RequestAssumption DEF ExecInit, TurnAtLoop
  <2>2. PositiveBackoffs => AboveZero
    BY DEF ExecInit, Init, PositiveBackoffs, AboveZero
  <2>3. Remembered /\ FailedNodeAvoided
    BY DEF ExecInit, Remembered, FailedNodeAvoided
  <2> QED
    BY <2>1, <2>2, <2>3
<1>2. LoopTyped /\ HoldsNode /\ TurnAtLoop /\ Avoids /\ [ExecNext]_execVars => Avoids'
  <2> SUFFICES ASSUME LoopTyped, HoldsNode, TurnAtLoop, Avoids, [ExecNext]_execVars,
                      PositiveBackoffs
               PROVE  (AboveZero /\ Remembered /\ FailedNodeAvoided)'
    BY DEF PositiveBackoffs
  <2>1. AboveZero'
    BY StepUsesNetwork, AboveZeroStep DEF LoopTyped
  <2> QED
    BY <2>1, RememberedStep
<1>3. Avoids => (PositiveBackoffs => FailedNodeAvoided)
  OBVIOUS
<1> HIDE DEF Avoids
<1> QED
  BY <1>1, <1>2, <1>3, LoopCorrect, TurnStep, PTL DEF ExecSpec
==============================================================================
