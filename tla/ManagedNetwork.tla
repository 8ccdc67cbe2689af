--------------------------- MODULE ManagedNetwork ---------------------------
(***************************************************************************)
(* The pool of nodes a client sends its requests to: ManagedNode,          *)
(* ManagedNetwork and its subclass Network.  A node that answers with a    *)
(* bad gRPC status is taken off the healthy list for its current backoff   *)
(* and is put back by the sweep getNode() starts with.                     *)
(*                                                                         *)
(* Time is kept relative: readmitIn[n] is _readmitTime - Date.now() cut    *)
(* off at 0, readmitSweepIn the same for _earliestReadmitTime, so that the *)
(* model needs no clock and its behaviours no end.  The order of _nodes    *)
(* and _healthyNodes is the one util.shuffle or Math.random gave them, so  *)
(* both are sets; of the lists in the map _network the code reads the      *)
(* first element only: network is the set of nodes in the map, first the   *)
(* head of each list.                                                      *)
(***************************************************************************)
EXTENDS Integers, FiniteSets

CONSTANTS
    Node,          \* ManagedNode objects; unreferenced ones are reused
    Key,           \* what getKey() returns: account IDs, or addresses
    NoNode,        \* "no such node": a key that is not in _network
    KeyOf,         \* KeyOf[n]: the key of object n
    AddrOf,        \* AddrOf[n]: its address, a record [host, port]
    Networks,      \* the arguments of setNetwork: functions address -> key
    DefaultMin,    \* 8000 ms, the initial _minBackoff
    DefaultMax,    \* one hour, the initial _maxBackoff
    MinValues,     \* arguments of setMinBackoff()
    MaxValues,     \* arguments of setMaxBackoff()
    Periods,       \* arguments of setNodeMinReadmitPeriod()
    CountBound     \* bound on _unhealthyNodesCount

ASSUME NodeAssumption == IsFiniteSet(Node) /\ NoNode \notin Node
ASSUME KeyAssumption == KeyOf \in [Node -> Key]
ASSUME NetworksAssumption == \A net \in Networks : net \in [DOMAIN net -> Key]
ASSUME BackoffAssumption ==
    /\ DefaultMin \in Nat /\ DefaultMax \in Nat
    /\ MinValues \subseteq Nat /\ MaxValues \subseteq Nat /\ Periods \subseteq Nat
ASSUME BoundAssumption == CountBound \in Nat

VARIABLES
    nodes,                \* _nodes
    healthyNodes,         \* _healthyNodes
    network,              \* the nodes that are in some list of _network
    first,                \* first[k]: _network.get(k)[0]
    unhealthyNodesCount,  \* _unhealthyNodesCount
    readmitSweepIn,       \* _earliestReadmitTime, relative
    minBackoff,           \* _minBackoff of the network
    transportSecurity,    \* _transportSecurity
    readmitIn,            \* node._readmitTime, relative
    currentBackoff,       \* node._currentBackoff
    nodeMinBackoff,       \* node._minBackoff
    nodeMaxBackoff,       \* node._maxBackoff
    thrown                \* what the last call threw, "none" if it returned

objectVars == <<readmitIn, currentBackoff, nodeMinBackoff, nodeMaxBackoff>>
settings == <<minBackoff, transportSecurity>>
vars == <<nodes, healthyNodes, network, first, unhealthyNodesCount,
          readmitSweepIn, settings, objectVars, thrown>>

Outcomes == {"none", "NoHealthyNode", "UndefinedNode", "NotInNetwork"}

(* A list of the map _network, as the set of its elements. *)
ListOf(k) == {n \in network : KeyOf[n] = k}

(* The objects the network does not refer to: a constructor may return any *)
(* of them.                                                                *)
Free == Node \ (nodes \cup healthyNodes \cup network)

Smaller(a, b) == IF a <= b THEN a ELSE b
Larger(a, b) == IF a <= b THEN b ELSE a
------------------------------------------------------------------------------
(* The constructor. *)
Init ==
    /\ nodes = {} /\ healthyNodes = {} /\ network = {}
    /\ first = [k \in Key |-> NoNode]
    /\ unhealthyNodesCount = 0
    /\ readmitSweepIn = DefaultMin
    /\ minBackoff = DefaultMin
    /\ transportSecurity = FALSE
    /\ readmitIn = [n \in Node |-> 0]
    /\ currentBackoff = [n \in Node |-> DefaultMin]
    /\ nodeMinBackoff = [n \in Node |-> DefaultMin]
    /\ nodeMaxBackoff = [n \in Node |-> DefaultMax]
    /\ thrown = "none"
------------------------------------------------------------------------------
(***************************************************************************)
(* _readmitNodes.  A sweep leaves _earliestReadmitTime at or below         *)
(* _nodeMaxReadmitPeriod, a period, where getNode() compares it with the   *)
(* time since 1970: it stays in the past, which is readmitSweepIn = 0,     *)
(* until setNodeMinReadmitPeriod sets it again.                            *)
(***************************************************************************)
(* Mutant: the sweep forgets to look at the readmit time. *)
Readmitted_Early == IF readmitSweepIn = 0 THEN nodes \ healthyNodes ELSE {}

(* Mutant: no sweep is made when there is no healthy node left. *)
Readmitted_NotWhenEmpty ==
    IF readmitSweepIn = 0 /\ healthyNodes # {}
    THEN {n \in nodes \ healthyNodes : readmitIn[n] = 0}
    ELSE {}

Readmitted ==
    IF readmitSweepIn = 0
    THEN {n \in nodes \ healthyNodes : readmitIn[n] = 0}
    ELSE {}

ReadmitNodes ==
    /\ healthyNodes' = healthyNodes \cup Readmitted
    /\ unhealthyNodesCount' = unhealthyNodesCount - Cardinality(Readmitted)

(* getNode() returns n *)
GetNode(n) ==
    /\ ReadmitNodes
    /\ n \in healthyNodes'
    /\ thrown' = "none"
    /\ UNCHANGED <<nodes, network, first, readmitSweepIn, settings, objectVars>>

(* getNode() throws *)
GetNodeThrows ==
    /\ ReadmitNodes
    /\ healthyNodes' = {}
    /\ thrown' = "NoHealthyNode"
    /\ UNCHANGED <<nodes, network, first, readmitSweepIn, settings, objectVars>>

(* getNode(key) returns n, which for an unknown key is the head of a random *)
(* list of the map.                                                        *)
GetNodeByKey(key, n) ==
    /\ ReadmitNodes
    /\ n \in Node
    /\ IF first[key] # NoNode
       THEN n = first[key]
       ELSE \E k \in Key : n = first[k]
    /\ thrown' = "none"
    /\ UNCHANGED <<nodes, network, first, readmitSweepIn, settings, objectVars>>

(* getNode(key) reads element 0 of a list that does not exist. *)
GetNodeByKeyThrows ==
    /\ ReadmitNodes
    /\ \A k \in Key : first[k] = NoNode
    /\ thrown' = "UndefinedNode"
    /\ UNCHANGED <<nodes, network, first, readmitSweepIn, settings, objectVars>>

(* _getNumberOfMostHealthyNodes: every round of its loop calls getNode().   *)
(* Which nodes it collects is left out.                                    *)
GetNumberOfMostHealthyNodes ==
    /\ healthyNodes # {}
    /\ ReadmitNodes
    /\ UNCHANGED <<nodes, network, first, readmitSweepIn, settings, objectVars,
                   thrown>>

(* Mutant: the readmit time is that of the failure before. *)
IncreaseBackoff_Past(n) ==
    /\ unhealthyNodesCount < CountBound
    /\ currentBackoff' = [currentBackoff EXCEPT
           ![n] = Smaller(2 * currentBackoff[n], nodeMaxBackoff[n])]
    /\ readmitIn' = [readmitIn EXCEPT ![n] = @ - currentBackoff[n]]
    /\ healthyNodes' = healthyNodes \ {n}
    /\ unhealthyNodesCount' =
           unhealthyNodesCount + (IF n \in healthyNodes THEN 1 ELSE 0)
    /\ UNCHANGED <<nodes, network, first, readmitSweepIn, settings,
                   nodeMinBackoff, nodeMaxBackoff, thrown>>

(* Mutant: the count is not incremented with the removal. *)
IncreaseBackoff_NoCount(n) ==
    /\ currentBackoff' = [currentBackoff EXCEPT
           ![n] = Smaller(2 * currentBackoff[n], nodeMaxBackoff[n])]
    /\ readmitIn' = [readmitIn EXCEPT ![n] = currentBackoff'[n]]
    /\ healthyNodes' = healthyNodes \ {n}
    /\ UNCHANGED <<nodes, network, first, unhealthyNodesCount, readmitSweepIn,
                   settings, nodeMinBackoff, nodeMaxBackoff, thrown>>

(* Mutant: nodes are compared by their account. *)
IncreaseBackoff_ByKey(n) ==
    /\ unhealthyNodesCount < CountBound
    /\ currentBackoff' = [currentBackoff EXCEPT
           ![n] = Smaller(2 * currentBackoff[n], nodeMaxBackoff[n])]
    /\ readmitIn' = [readmitIn EXCEPT ![n] = currentBackoff'[n]]
    /\ healthyNodes' = {m \in healthyNodes : KeyOf[m] # KeyOf[n]}
    /\ unhealthyNodesCount' =
           unhealthyNodesCount + Cardinality(healthyNodes \ healthyNodes')
    /\ UNCHANGED <<nodes, network, first, readmitSweepIn, settings,
                   nodeMinBackoff, nodeMaxBackoff, thrown>>

(* increaseBackoff(node): a call failed; the request may hold a node that   *)
(* has been removed or cloned in the meantime.                             *)
IncreaseBackoff(n) ==
    /\ unhealthyNodesCount < CountBound
    /\ currentBackoff' = [currentBackoff EXCEPT
           ![n] = Smaller(2 * currentBackoff[n], nodeMaxBackoff[n])]
    /\ readmitIn' = [readmitIn EXCEPT ![n] = currentBackoff'[n]]
    /\ healthyNodes' = healthyNodes \ {n}
    /\ unhealthyNodesCount' =
           unhealthyNodesCount + (IF n \in healthyNodes THEN 1 ELSE 0)
    /\ UNCHANGED <<nodes, network, first, readmitSweepIn, settings,
                   nodeMinBackoff, nodeMaxBackoff, thrown>>

(* decreaseBackoff(node): a call was answered *)
DecreaseBackoff(n) ==
    /\ currentBackoff' = [currentBackoff EXCEPT
           ![n] = Larger(currentBackoff[n] \div 2, nodeMinBackoff[n])]
    /\ UNCHANGED <<nodes, healthyNodes, network, first, unhealthyNodesCount,
                   readmitSweepIn, settings, readmitIn, nodeMinBackoff,
                   nodeMaxBackoff, thrown>>
------------------------------------------------------------------------------
(* Network._getNodesToRemove *)
NodesToRemove(net) ==
    {n \in nodes : ~ (/\ AddrOf[n] \in DOMAIN net
                      /\ net[AddrOf[n]] = KeyOf[n])}

(* _removeNodeFromNetwork, for all the nodes in gone: the list of a key    *)
(* loses its head to any of the elements it keeps.                         *)
RemoveFromNetwork(gone) ==
    /\ network' = network \ gone
    /\ \E f \in [Key -> network' \cup {NoNode}] :
         /\ \A k \in Key :
               \/ first[k] \notin gone /\ f[k] = first[k]
               \/ first[k] \in gone /\ f[k] \in network' /\ KeyOf[f[k]] = k
               \/ first[k] \in gone /\ ListOf(k) \subseteq gone /\ f[k] = NoNode
         /\ first' = f

(* The entries of the new network that need an object. *)
NewEntries(net, kept) ==
    {a \in DOMAIN net : ~ (/\ \E n \in kept : KeyOf[n] = net[a]
                           /\ \E n \in kept : AddrOf[n] = a)}

(* The map _setNetwork builds: the healthy nodes, in shuffled order. *)
Heads(members) ==
    {f \in [Key -> members \cup {NoNode}] :
        \A k \in Key :
            IF \E n \in members : KeyOf[n] = k
            THEN f[k] \in members /\ KeyOf[f[k]] = k
            ELSE f[k] = NoNode}

(* A constructed node, its backoff raised to the network's minimum. *)
Construct(new) ==
    /\ readmitIn' = [n \in Node |-> IF n \in new THEN 0 ELSE readmitIn[n]]
    /\ currentBackoff' = [n \in Node |-> IF n \in new
           THEN Larger(DefaultMin, minBackoff) ELSE currentBackoff[n]]
    /\ nodeMinBackoff' = [n \in Node |-> IF n \in new
           THEN minBackoff ELSE nodeMinBackoff[n]]
    /\ nodeMaxBackoff' = [n \in Node |-> IF n \in new
           THEN DefaultMax ELSE nodeMaxBackoff[n]]

(* _closeNode fails on a node whose key is not in the map (any more). *)
Closable(n, gone) == ListOf(KeyOf[n]) \ gone # {}

(* The nodes of the new list that are healthy: isHealthy(). *)
HealthyOf(members) == {n \in members : readmitIn'[n] = 0}

(* setNetwork(net), _setNetwork: every node to remove could be closed, a   *)
(* node that is in no list before the last one that shares its key.        *)
SetNetwork(net) ==
    LET remove == NodesToRemove(net)
        kept == nodes \ remove
        entries == NewEntries(net, kept)
    IN /\ \A n \in remove : Closable(n, {})
       /\ \E make \in [entries -> Free] :
            /\ \A a \in entries :
                  /\ AddrOf[make[a]] = a /\ KeyOf[make[a]] = net[a]
                  /\ \A b \in entries : make[a] = make[b] => a = b
            /\ nodes' = kept \cup {make[a] : a \in entries}
            /\ Construct({make[a] : a \in entries})
            /\ healthyNodes' = HealthyOf(nodes')
            /\ network' = healthyNodes'
            /\ first' \in Heads(healthyNodes')
       /\ thrown' = "none"
       /\ UNCHANGED <<unhealthyNodesCount, readmitSweepIn, settings>>

(* _setNetwork when _closeNode throws: the nodes in gone were closed and   *)
(* taken off before it, b is closed but stays, the rest is never reached.  *)
SetNetworkThrows(net) ==
    LET remove == NodesToRemove(net)
    IN \E b \in remove : \E gone \in SUBSET (remove \ {b}) :
         /\ \A n \in gone : Closable(n, {})
         /\ ~ Closable(b, gone)
         /\ RemoveFromNetwork(gone)
         /\ nodes' = nodes \ gone
         /\ thrown' = "NotInNetwork"
         /\ UNCHANGED <<healthyNodes, unhealthyNodesCount, readmitSweepIn,
                        settings, objectVars>>

(* toSecure() and toInsecure() of an address: only the two consensus ports  *)
(* are exchanged, any other port stays.                                    *)
Switch(addr, secure) ==
    IF secure
    THEN [addr EXCEPT !.port = IF addr.port = 50211 THEN 50212 ELSE @]
    ELSE [addr EXCEPT !.port = IF addr.port = 50212 THEN 50211 ELSE @]

(* setTransportSecurity: every node is replaced by a clone.  A clone takes *)
(* its maximum backoff from the minimum of the node it copies.             *)
SetTransportSecurity(secure) ==
    /\ transportSecurity # secure
    /\ \E clone \in [nodes -> Free] :
         LET original == [c \in {clone[n] : n \in nodes} |->
                             CHOOSE n \in nodes : clone[n] = c]
         IN /\ \A n \in nodes :
                  /\ KeyOf[clone[n]] = KeyOf[n]
                  /\ AddrOf[clone[n]] = Switch(AddrOf[n], secure)
                  /\ \A m \in nodes : clone[m] = clone[n] => m = n
            /\ nodes' = DOMAIN original
            /\ healthyNodes' = nodes'
            /\ network' = nodes'
            /\ first' \in Heads(nodes')
            /\ readmitIn' = [c \in Node |-> IF c \in nodes'
                   THEN readmitIn[original[c]] ELSE readmitIn[c]]
            /\ currentBackoff' = [c \in Node |-> IF c \in nodes'
                   THEN currentBackoff[original[c]] ELSE currentBackoff[c]]
            /\ nodeMinBackoff' = [c \in Node |-> IF c \in nodes'
                   THEN nodeMinBackoff[original[c]] ELSE nodeMinBackoff[c]]
            /\ nodeMaxBackoff' = [c \in Node |-> IF c \in nodes'
                   THEN nodeMinBackoff[original[c]] ELSE nodeMaxBackoff[c]]
    /\ transportSecurity' = secure
    /\ thrown' = "none"
    /\ UNCHANGED <<unhealthyNodesCount, readmitSweepIn, minBackoff>>

(* Mutant: the nodes' current backoff is not raised. *)
SetMinBackoff_NotRaised(v) ==
    /\ minBackoff' = v
    /\ nodeMinBackoff' = [n \in Node |-> IF n \in nodes THEN v ELSE nodeMinBackoff[n]]
    /\ UNCHANGED <<nodes, healthyNodes, network, first, unhealthyNodesCount,
                   readmitSweepIn, transportSecurity, readmitIn, currentBackoff,
                   nodeMaxBackoff, thrown>>

(* setMinBackoff, of the network and of each of its nodes *)
SetMinBackoff(v) ==
    /\ minBackoff' = v
    /\ nodeMinBackoff' = [n \in Node |-> IF n \in nodes THEN v ELSE nodeMinBackoff[n]]
    /\ currentBackoff' = [n \in Node |-> IF n \in nodes
           THEN Larger(currentBackoff[n], v) ELSE currentBackoff[n]]
    /\ UNCHANGED <<nodes, healthyNodes, network, first, unhealthyNodesCount,
                   readmitSweepIn, transportSecurity, readmitIn, nodeMaxBackoff,
                   thrown>>

(* setMaxBackoff: a node below the new maximum is raised to it, one above   *)
(* it is left there; nodes constructed later never see the value.          *)
SetMaxBackoff(v) ==
    /\ nodeMaxBackoff' = [n \in Node |-> IF n \in nodes THEN v ELSE nodeMaxBackoff[n]]
    /\ currentBackoff' = [n \in Node |-> IF n \in nodes
           THEN Larger(currentBackoff[n], v) ELSE currentBackoff[n]]
    /\ UNCHANGED <<nodes, healthyNodes, network, first, unhealthyNodesCount,
                   readmitSweepIn, settings, readmitIn, nodeMinBackoff,
                   thrown>>

(* setNodeMinReadmitPeriod *)
SetNodeMinReadmitPeriod(v) ==
    /\ readmitSweepIn' = v
    /\ UNCHANGED <<nodes, healthyNodes, network, first, unhealthyNodesCount,
                   settings, objectVars, thrown>>

(* Mutant: the map is not cleared. *)
Close_KeepsMap ==
    /\ nodes' = {}
    /\ thrown' = "none"
    /\ UNCHANGED <<healthyNodes, network, first, unhealthyNodesCount,
                   readmitSweepIn, settings, objectVars>>

(* close(): the healthy list is not cleared. *)
Close ==
    /\ nodes' = {} /\ network' = {}
    /\ first' = [k \in Key |-> NoNode]
    /\ thrown' = "none"
    /\ UNCHANGED <<healthyNodes, unhealthyNodesCount, readmitSweepIn, settings,
                   objectVars>>

(* Date.now() moves one unit closer to every point of time stored. *)
Elapse ==
    /\ readmitSweepIn' = Larger(readmitSweepIn - 1, 0)
    /\ readmitIn' = [n \in Node |-> Larger(readmitIn[n] - 1, 0)]
    /\ UNCHANGED <<nodes, healthyNodes, network, first, unhealthyNodesCount,
                   settings, currentBackoff, nodeMinBackoff, nodeMaxBackoff, thrown>>

(* Time passes. *)
Tick ==
    /\ readmitSweepIn > 0 \/ \E n \in Node : readmitIn[n] > 0
    /\ Elapse
------------------------------------------------------------------------------
(* What requests do with the network, and what the application does to it. *)
RequestStep ==
    \/ \E n \in Node : GetNode(n)
    \/ GetNodeThrows
    \/ \E k \in Key, n \in Node : GetNodeByKey(k, n)
    \/ GetNodeByKeyThrows
    \/ GetNumberOfMostHealthyNodes
    \/ \E n \in Node : IncreaseBackoff(n)
    \/ \E n \in Node : DecreaseBackoff(n)

ConfigureStep ==
    \/ \E net \in Networks : SetNetwork(net)
    \/ \E net \in Networks : SetNetworkThrows(net)
    \/ \E secure \in BOOLEAN : SetTransportSecurity(secure)
    \/ \E v \in MinValues : SetMinBackoff(v)
    \/ \E v \in MaxValues : SetMaxBackoff(v)
    \/ \E v \in Periods : SetNodeMinReadmitPeriod(v)
    \/ Close

Next == RequestStep \/ ConfigureStep \/ Tick

Spec == Init /\ [][Next]_vars

(* Time passes, and the application goes on making requests. *)
Fairness == WF_vars(Tick) /\ WF_vars(\E n \in Node : GetNode(n))

FairSpec == Spec /\ Fairness
------------------------------------------------------------------------------
TypeOK ==
    /\ nodes \subseteq Node /\ healthyNodes \subseteq Node /\ network \subseteq Node
    /\ first \in [Key -> Node \cup {NoNode}]
    /\ unhealthyNodesCount \in Int
    /\ readmitSweepIn \in Nat /\ minBackoff \in Nat
    /\ transportSecurity \in BOOLEAN
    /\ readmitIn \in [Node -> Nat] /\ currentBackoff \in [Node -> Nat]
    /\ nodeMinBackoff \in [Node -> Nat] /\ nodeMaxBackoff \in [Node -> Nat]
    /\ thrown \in Outcomes

(* getNode(key) hands out nodes of the current network only: the map holds *)
(* no node that was removed, closed or replaced by a clone, and the head   *)
(* of a list is one of the nodes with that key.                            *)
MapWithinNodes ==
    /\ network \subseteq nodes
    /\ \A k \in Key :
          IF ListOf(k) = {} THEN first[k] = NoNode ELSE first[k] \in ListOf(k)

(* The nodes that are off the healthy list or should be. *)
Troubled == {n \in nodes : n \notin healthyNodes \/ readmitIn[n] > 0}

(* _unhealthyNodesCount never counts too few: through readmissions, late    *)
(* failures of nodes already removed, new networks and clones, it covers   *)
(* every node that is off the healthy list.  In particular it never        *)
(* becomes negative.                                                       *)
UnhealthyCountCovers == unhealthyNodesCount >= Cardinality(Troubled)

(* A failing node is kept out for its minimum backoff at least, unless its  *)
(* range of backoffs is empty or a single value (as it is for a clone):    *)
(* no order of failures, answers and setters brings it below.              *)
BackoffAboveMinimum ==
    \A n \in nodes :
        nodeMaxBackoff[n] > nodeMinBackoff[n] => currentBackoff[n] >= nodeMinBackoff[n]

(* A node comes back to the healthy list when its readmit time is over, or  *)
(* as the clone setTransportSecurity makes of it, and in no other way.     *)
NoEarlyReadmission ==
    [][\A n \in healthyNodes' \ healthyNodes :
          readmitIn'[n] = 0 \/ transportSecurity' # transportSecurity]_vars

(* A backed-off node that is left alone is eventually healthy again, unless *)
(* it is removed from the network.                                         *)
LeftAlone(n) == <>[][~ IncreaseBackoff(n)]_vars
EventuallyReadmitted ==
    \A n \in Node :
        LeftAlone(n) => (n \in nodes ~> n \in healthyNodes \/ n \notin nodes)

(* "Remove nodes that are not in the new network" (ManagedNetwork.js:309):  *)
(* setNetwork never stops half way.                                        *)
SetNetworkCompletes == thrown # "NotInNetwork"
==============================================================================
