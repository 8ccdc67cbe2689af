-------------------------- MODULE TransactionProofs --------------------------
(***************************************************************************)
(* Proofs about a transaction, for any nodes, keys and clients, any number *)
(* of executions and any order of calls: what is sent is what was frozen,  *)
(* to the node in its body, with the signatures that were promised, and a  *)
(* retry goes to another node.                                             *)
(*                                                                         *)
(* The lists of nodes, IDs, signed and built transactions have an index    *)
(* and a lock each; the argument is that from the first signature on the   *)
(* nodes and the IDs are locked, and that until then every change of them  *)
(* drops what was made from them.                                          *)
(***************************************************************************)
EXTENDS Transaction, TLAPS

------------------------------------------------------------------------------
(* The operations of List.js. *)

(* Locking a List under a condition leaves its elements and its index. *)
LEMMA ListLockedIf ==
    ASSUME NEW S, NEW l \in ListType(S), NEW b \in BOOLEAN
    PROVE  /\ LockedIf(b, l) \in ListType(S)
           /\ LockedIf(b, l).locked <=> l.locked \/ b
           /\ LockedIf(b, l).list = l.list /\ LockedIf(b, l).index = l.index
  BY DEF ListType, LockedIf

(* setList() replaces the elements, begins again at the first and leaves   *)
(* the lock.                                                               *)
LEMMA ListSet ==
    ASSUME NEW S, NEW l \in ListType(S), NEW s \in Seq(S)
    PROVE  /\ SetList(l, s) \in ListType(S)
           /\ SetList(l, s).list = s /\ SetList(l, s).index = 1
           /\ SetList(l, s).locked = l.locked
<1> DEFINE m == [l EXCEPT !.list = s]
<1>1. m \in ListType(S) /\ m.list = s /\ m.locked = l.locked
  BY DEF ListType
<1>2. SetList(l, s) = [m EXCEPT !.index = 1]
  BY Zenon DEF SetList
<1> HIDE DEF m
<1> QED
  BY <1>1, <1>2 DEF ListType

(* setLocked() leaves the elements and the index. *)
LEMMA ListOps ==
    ASSUME NEW S, NEW l \in ListType(S)
    PROVE  /\ l.list \in Seq(S) /\ l.locked \in BOOLEAN /\ l.index \in Nat \ {0}
           /\ SetLocked(l) \in ListType(S) /\ SetLocked(l).locked
           /\ SetLocked(l).list = l.list /\ SetLocked(l).index = l.index
  BY DEF ListType, SetLocked

(* clear() empties a List and leaves its lock. *)
LEMMA ListClear ==
    ASSUME NEW S, NEW l \in ListType(S)
    PROVE  /\ Clear(l) \in ListType(S) /\ Clear(l).list = <<>>
           /\ Clear(l).locked = l.locked
<1> DEFINE e == <<>>
<1>1. Clear(l) = SetList(l, e)
  BY Zenon DEF Clear, SetList
<1>2. e \in Seq(S) /\ e = <<>>
  OBVIOUS
<1> HIDE DEF e
<1>3. /\ SetList(l, e) \in ListType(S) /\ SetList(l, e).list = e
      /\ SetList(l, e).locked = l.locked
  BY <1>2, ListSet
<1> QED
  BY <1>1, <1>2, <1>3, Zenon

(* advance() keeps the index among the positions of the List. *)
LEMMA ListAdvanced ==
    ASSUME NEW S, NEW l \in ListType(S)
    PROVE  /\ Advanced(l) \in ListType(S)
           /\ Advanced(l).list = l.list /\ Advanced(l).locked = l.locked
           /\ ~ IsEmpty(l) => /\ Advanced(l).index = (l.index % Len(l.list)) + 1
                              /\ Advanced(l).index \in DOMAIN l.list
<1>1. l.list \in Seq(S) /\ l.index \in Nat
  BY DEF ListType
<1>2. CASE IsEmpty(l)
  BY <1>2 DEF Advanced, ListType
<1>3. CASE ~ IsEmpty(l)
  <2>1. Len(l.list) \in Nat \ {0}
    BY <1>1, <1>3 DEF IsEmpty
  <2>2. (l.index % Len(l.list)) + 1 \in 1..Len(l.list)
    BY <1>1, <2>1
  <2> QED
    BY <1>1, <1>3, <2>1, <2>2 DEF Advanced, ListType
<1> QED
  BY <1>2, <1>3

(* set(0, x) leaves a List that is not empty. *)
LEMMA ListSetAt ==
    ASSUME NEW S, NEW l \in ListType(S), NEW x \in S
    PROVE  /\ SetAt(l, 1, x) \in ListType(S)
           /\ SetAt(l, 1, x).list # <<>> /\ SetAt(l, 1, x).list[1] = x
           /\ SetAt(l, 1, x).locked = l.locked
<1>1. l.list \in Seq(S)
  BY DEF ListType
<1>2. CASE Len(l.list) = 0
  BY <1>1, <1>2 DEF SetAt, ListType
<1>3. CASE Len(l.list) # 0
  BY <1>1, <1>3 DEF SetAt, ListType
<1> QED
  BY <1>2, <1>3
------------------------------------------------------------------------------

------------------------------------------------------------------------------
(* The inductive invariants. *)

(* The clients the application works with. *)
Clients == (uses.freezeWith \cup uses.execute) \ {NoClient}

(* Every one of them signs at once and has an operator. *)
AtOnceOnly == \A c \in Clients : ~ c.signOnDemand /\ c.operator # NoKey

(* Every one of them signs on demand, the application awaits its calls,    *)
(* and it never freezes without a client, neither itself nor by adding the *)
(* signature of a key that is known.                                       *)
OnDemandOnly ==
    /\ uses.awaits /\ ~ uses.readds /\ NoClient \notin uses.freezeWith
    /\ \A c \in Clients : c.signOnDemand

(* What the theorems suppose of the application. A client that signs at    *)
(* once and has no operator leaves the list of nodes unlocked, and         *)
(* Executable.js:583 then replaces it by the one node it picks: the        *)
(* transaction that was frozen for another node is sent to it. An          *)
(* application that mixes the two kinds of clients, or that signs on       *)
(* demand and does not await toBytesAsync(), can lock a list of signed     *)
(* transactions that is still empty.                                       *)
Orderly == AtOnceOnly \/ OnDemandOnly

(* The types of the state, part by part. *)
SettingsTyped ==
    /\ uses \in Uses /\ memo \in Memos
    /\ signOnDemand \in BOOLEAN /\ operatorAccountId \in BOOLEAN
    /\ operator \in SignKey \cup {NoKey} /\ lastId \in 0..MaxId
ListsTyped ==
    /\ transactionIds \in ListType(0..MaxId)
    /\ nodeAccountIds \in ListType(NodeId)
    /\ signedTransactions \in ListType(Tx)
    /\ transactions \in ListType(Tx \cup {NoTx})
SigningTyped ==
    /\ signerPublicKeys \in SUBSET SignKey /\ publicKeys \in SUBSET SignKey
    /\ completed \in SUBSET SignKey
    /\ signing \in [SignKey -> Nat]
LoopTyped ==
    /\ building \in [at : {"idle", "build"}, left : Nat, node : NodeId \cup {NoTx}]
    /\ pc \in [Execution -> Places]
    /\ signer \in [Execution -> SignKey \cup {NoKey}]
    /\ nodeId \in [Execution -> NodeId \cup {NoTx}]
    /\ request \in [Execution -> Tx \cup {NoTx}]
    /\ attempt \in [Execution -> Nat] /\ executes \in Nat

(* The type invariant of the proofs. *)
TxTyped == SettingsTyped /\ ListsTyped /\ SigningTyped /\ LoopTyped

(* The two lists that a signature locks. *)
BothLocked == nodeAccountIds.locked /\ transactionIds.locked

(* The index of the nodes points at a node; what was frozen has nodes and  *)
(* an ID; a toBytesAsync() under way has both too.                         *)
InRange ==
    /\ ~ IsEmpty(nodeAccountIds) => nodeAccountIds.index \in DOMAIN nodeAccountIds.list
    /\ ~ IsEmpty(signedTransactions) => ~ IsEmpty(nodeAccountIds) /\ ~ IsEmpty(transactionIds)
    /\ building.left > 0 =>
           building.at = "build" /\ ~ IsEmpty(nodeAccountIds) /\ ~ IsEmpty(transactionIds)

(* When the lists are locked. With clients that sign at once: from the     *)
(* first signature, so from the first execute(). With clients that sign on *)
(* demand: from the time there is something signed.                        *)
Locks ==
    /\ AtOnceOnly =>
          /\ ~ signOnDemand /\ building.left = 0
          /\ \/ signerPublicKeys # {} \/ ~ IsEmpty(transactions)
             \/ signedTransactions.locked \/ building.at # "idle"
             => BothLocked
          /\ \A e \in Execution : pc[e] # "idle" => signerPublicKeys # {}
    /\ OnDemandOnly =>
          /\ ~ IsEmpty(signedTransactions) => BothLocked
          /\ building.left > 0 => signOnDemand

(* Nothing is built before there is something signed. *)
Backed ==
    ~ IsEmpty(transactions) \/ building.left > 0 => ~ IsEmpty(signedTransactions)

(* The signed transactions are those of the first positions of the list of *)
(* nodes, of one ID and of the memo as it is now.                          *)
Aligned ==
    \A i \in DOMAIN signedTransactions.list :
        /\ i \in DOMAIN nodeAccountIds.list
        /\ signedTransactions.list[i].node = nodeAccountIds.list[i]
        /\ signedTransactions.list[i].id = transactionIds.list[1]
        /\ signedTransactions.list[i].memo = memo

(* What was built has the memo as it is now, and unless it is signed on    *)
(* demand the node and the ID of the signed transaction at its position.   *)
Built ==
    \A i \in DOMAIN transactions.list :
        /\ transactions.list[i] # NoTx => transactions.list[i].memo = memo
        /\ ~ signOnDemand =>
              /\ i \in DOMAIN signedTransactions.list
              /\ transactions.list[i] # NoTx =>
                    /\ transactions.list[i].node = signedTransactions.list[i].node
                    /\ transactions.list[i].id = signedTransactions.list[i].id

(* A request in flight is for the node of its attempt, with the memo as it *)
(* is now.                                                                 *)
Requests ==
    \A e \in Execution : InFlight(e) =>
        /\ request[e] \in Tx
        /\ request[e].node = nodeId[e] /\ request[e].memo = memo
        /\ AtOnceOnly => ~ IsEmpty(signedTransactions)

(* What an application that awaits its calls keeps apart: a signer at work *)
(* sees nothing built and no execution but the one that waits for it,      *)
(* there is one execution at a time, and an execution that waits for its   *)
(* signer makes its first attempt.                                         *)
Exclusive ==
    /\ \A k \in SignKey : signing[k] > 0 =>
          /\ ~ signOnDemand /\ IsEmpty(transactions) /\ ~ IsEmpty(signedTransactions)
          /\ \A e \in Execution : pc[e] = "idle" \/ (pc[e] = "before" /\ signer[e] = k)
          /\ building.at = "idle"
    /\ \A e, d \in Execution : pc[e] # "idle" /\ pc[d] # "idle" => e = d
    /\ \A e \in Execution : pc[e] = "onDemand" => signOnDemand
    /\ \A e \in Execution : pc[e] = "before" => attempt[e] = 1

(* A signature that was promised is held: among the keys to sign with on   *)
(* demand, and otherwise in every signed transaction and in everything     *)
(* built from one.                                                         *)
Held ==
    /\ signOnDemand => completed \subseteq publicKeys
    /\ OnDemandOnly /\ ~ signOnDemand =>
          \/ completed \subseteq publicKeys
          \/ ~ IsEmpty(nodeAccountIds) /\ (~ IsEmpty(transactionIds) \/ operatorAccountId)
    /\ ~ signOnDemand =>
          /\ \A i \in DOMAIN signedTransactions.list :
                completed \subseteq signedTransactions.list[i].sigs
          /\ \A i \in DOMAIN transactions.list : transactions.list[i] # NoTx =>
                completed \subseteq transactions.list[i].sigs

(* A signer at work has signed the transactions before the one it signs    *)
(* now; a request carries every signature promised so far.                 *)
Carried ==
    /\ \A k \in SignKey : \A i \in DOMAIN signedTransactions.list :
          i < signing[k] => k \in signedTransactions.list[i].sigs
    /\ \A e \in Execution : pc[e] \in {"making", "calling"} =>
          completed \subseteq request[e].sigs

(* The request of the execution was sent and not given up. *)
Sent(e) == pc[e] = "calling" \/ (pc[e] = "loop" /\ attempt[e] > 1)

(* The index of the nodes stands at the node of an attempt while its       *)
(* request is made, and one further once it is sent.                       *)
Positions ==
    ~ signOnDemand =>
       \A e \in Execution :
         /\ pc[e] = "making" =>
               ~ IsEmpty(nodeAccountIds) /\ nodeId[e] = Current(nodeAccountIds)
         /\ Sent(e) =>
               \E p \in DOMAIN nodeAccountIds.list :
                  /\ nodeId[e] = nodeAccountIds.list[p]
                  /\ nodeAccountIds.index = (p % Len(nodeAccountIds.list)) + 1

(* The inductive invariant of an application that awaits its calls. *)
Awaited == Exclusive /\ Held /\ Carried /\ Positions

------------------------------------------------------------------------------
(* What each action does. *)

(* A step that leaves the nodes: their list, their index and their lock. *)
NodesKept ==
    /\ nodeAccountIds'.list = nodeAccountIds.list
    /\ nodeAccountIds'.index = nodeAccountIds.index
    /\ nodeAccountIds.locked => nodeAccountIds'.locked

(* A step that leaves the IDs and their lock. *)
IdsKept ==
    /\ transactionIds'.list = transactionIds.list
    /\ transactionIds.locked => transactionIds'.locked

(* A step that at most adds signatures to what is signed. *)
SignedKept ==
    /\ DOMAIN signedTransactions'.list = DOMAIN signedTransactions.list
    /\ \A i \in DOMAIN signedTransactions.list :
          /\ signedTransactions'.list[i].node = signedTransactions.list[i].node
          /\ signedTransactions'.list[i].id = signedTransactions.list[i].id
          /\ signedTransactions'.list[i].memo = signedTransactions.list[i].memo
          /\ signedTransactions.list[i].sigs \subseteq signedTransactions'.list[i].sigs

(* A step that leaves what is built or drops all of it. *)
BuiltKept == transactions'.list = transactions.list \/ transactions'.list = <<>>

(* A function of the positions of a sequence is a sequence as long. *)
LEMMA MappedSeq ==
    ASSUME NEW S, NEW T, NEW s \in Seq(S), NEW f, f = [i \in DOMAIN s |-> f[i]],
           \A i \in DOMAIN s : f[i] \in T
    PROVE  f \in Seq(T) /\ DOMAIN f = DOMAIN s /\ Len(f) = Len(s)
<1>1. DOMAIN s = 1..Len(s) /\ Len(s) \in Nat
  OBVIOUS
<1>2. f \in [1..Len(s) -> T]
  BY <1>1
<1>3. f \in Seq(T)
  BY <1>1, <1>2
<1> QED
  BY <1>1, <1>2, <1>3

(* A sequence that is not empty has a first element. *)
LEMMA NonEmptySeq ==
    ASSUME NEW S, NEW s \in Seq(S), s # <<>>
    PROVE  s[1] \in S /\ 1 \in DOMAIN s /\ Len(s) \in Nat \ {0} /\ DOMAIN s = 1..Len(s)
  OBVIOUS

(* A function on 1..n is a sequence. *)
LEMMA FunctionSeq ==
    ASSUME NEW T, NEW n \in Nat, NEW f \in [1..n -> T]
    PROVE  f \in Seq(T) /\ Len(f) = n
  OBVIOUS

(* A sequence of one value; it is empty when its length would be negative. *)
LEMMA ConstantSeq ==
    ASSUME NEW T, NEW m \in Int, NEW x \in T, NEW f, f = [j \in 1..m |-> x]
    PROVE  /\ f \in Seq(T) /\ Len(f) = IF m > 0 THEN m ELSE 0
           /\ \A j \in DOMAIN f : f[j] = x
<1>1. PICK n \in Nat : 1..m = 1..n /\ n = IF m > 0 THEN m ELSE 0
  OBVIOUS
<1>2. f \in [1..n -> T] /\ DOMAIN f = 1..n /\ \A j \in 1..n : f[j] = x
  BY <1>1
<1>3. f \in Seq(T) /\ Len(f) = n
  BY <1>2, FunctionSeq
<1> QED
  BY <1>1, <1>2, <1>3

(* A new transaction, and one read from bytes, is of its type. *)
LEMMA TypedInit == TxInit => TxTyped /\ InRange
<1> SUFFICES ASSUME TxInit PROVE TxTyped /\ InRange
  OBVIOUS
<1>1. uses \in Uses /\ uses.keys \subseteq SignKey /\ memo \in Memos
  BY ClientConstants DEF TxInit, UseType
<1>0. 0 \in 0..MaxId
  BY BoundConstants
<1>2. /\ signOnDemand \in BOOLEAN /\ operatorAccountId \in BOOLEAN
      /\ operator \in SignKey \cup {NoKey} /\ lastId \in 0..MaxId
      /\ publicKeys \in SUBSET SignKey /\ signing \in [SignKey -> Nat]
  BY <1>0 DEF TxInit
<1>6. /\ building \in [at : {"idle", "build"}, left : Nat, node : NodeId \cup {NoTx}]
      /\ pc \in [Execution -> Places]
      /\ signer \in [Execution -> SignKey \cup {NoKey}]
      /\ nodeId \in [Execution -> NodeId \cup {NoTx}]
      /\ request \in [Execution -> Tx \cup {NoTx}]
      /\ attempt \in [Execution -> Nat] /\ executes \in Nat
      /\ building.left = 0
  BY DEF TxInit, Places
<1>3. \A S : NewList \in ListType(S) /\ NewList.list = <<>>
  BY DEF NewList, ListType
<1>4. CASE FreshLists
  BY <1>1, <1>2, <1>3, <1>4, <1>6 DEF TxInit, FreshLists, TxTyped, SettingsTyped, ListsTyped,
     SigningTyped, LoopTyped, InRange, IsEmpty
<1>5. CASE FromBytes
  <2>1. PICK nodes \in ClientNodes, keys \in SUBSET uses.keys :
          LET list == [i \in DOMAIN nodes |-> Body(nodes[i], ExplicitId, keys)]
          IN /\ transactionIds = SetLocked(SetList(NewList, <<ExplicitId>>))
             /\ nodeAccountIds = SetLocked(SetList(NewList, nodes))
             /\ signedTransactions = SetLocked(SetList(NewList, list))
             /\ transactions = SetList(NewList, list)
             /\ signerPublicKeys = keys
    BY <1>5 DEF FromBytes
  <2> DEFINE list == [i \in DOMAIN nodes |-> Body(nodes[i], ExplicitId, keys)]
             firstId == <<ExplicitId>>
  <2>2. nodes \in Seq(NodeId) /\ nodes # <<>> /\ 1 \in DOMAIN nodes
    BY NodeConstants
  <2>3. ExplicitId \in 0..MaxId /\ firstId \in Seq(0..MaxId) /\ firstId # <<>>
    BY BoundConstants
  <2>4. \A i \in DOMAIN nodes : list[i] \in Tx
    BY <1>1, <2>2, <2>3 DEF Body, Tx
  <2>5. list \in Seq(Tx) /\ list \in Seq(Tx \cup {NoTx})
    BY <2>2, <2>4
  <2> HIDE DEF list, firstId
  <2>6. /\ transactionIds \in ListType(0..MaxId) /\ transactionIds.list = firstId
        /\ nodeAccountIds \in ListType(NodeId) /\ nodeAccountIds.list = nodes
        /\ nodeAccountIds.index = 1
        /\ signedTransactions \in ListType(Tx)
        /\ transactions \in ListType(Tx \cup {NoTx})
    <3>1. /\ SetList(NewList, firstId) \in ListType(0..MaxId)
          /\ SetList(NewList, firstId).list = firstId
      BY <1>3, <2>3, ListSet
    <3>2. /\ SetList(NewList, nodes) \in ListType(NodeId)
          /\ SetList(NewList, nodes).list = nodes /\ SetList(NewList, nodes).index = 1
      BY <1>3, <2>2, ListSet
    <3>3. /\ SetList(NewList, list) \in ListType(Tx)
          /\ SetList(NewList, list) \in ListType(Tx \cup {NoTx})
      BY <1>3, <2>5, ListSet
    <3>4. /\ transactionIds = SetLocked(SetList(NewList, firstId))
          /\ nodeAccountIds = SetLocked(SetList(NewList, nodes))
          /\ signedTransactions = SetLocked(SetList(NewList, list))
          /\ transactions = SetList(NewList, list)
      BY <2>1 DEF list, firstId
    <3>5. transactionIds \in ListType(0..MaxId) /\ transactionIds.list = firstId
      BY <3>1, <3>4, ListOps
    <3>6. /\ nodeAccountIds \in ListType(NodeId) /\ nodeAccountIds.list = nodes
          /\ nodeAccountIds.index = 1
      BY <3>2, <3>4, ListOps
    <3>7. signedTransactions \in ListType(Tx)
      BY <3>3, <3>4, ListOps
    <3> QED
      BY <3>3, <3>4, <3>5, <3>6, <3>7
  <2> QED
    <3>1. /\ signerPublicKeys \in SUBSET SignKey /\ completed \in SUBSET SignKey
      BY <1>1, <2>1 DEF TxInit
    <3>2. TxTyped
      BY <1>1, <1>2, <1>6, <2>6, <3>1 DEF TxTyped, SettingsTyped, ListsTyped,
         SigningTyped, LoopTyped
    <3>3. transactionIds.list # <<>>
      BY <2>3, <2>6
    <3> QED
      BY <1>6, <2>2, <2>6, <3>2, <3>3 DEF InRange, IsEmpty
<1> QED
  BY <1>4, <1>5 DEF TxInit

(* What freezeWith() leaves, for every client: nodes that were set stay,   *)
(* IDs that are locked stay, and what it builds has a body for every node  *)
(* with the first ID.                                                      *)
LEMMA FreezeTyped ==
    ASSUME TxTyped, NEW c \in Client \cup {NoClient}, NEW lock \in BOOLEAN,
           NEW keys \in SUBSET SignKey, Freeze(c, lock, keys)
    PROVE  /\ signOnDemand' \in BOOLEAN /\ operatorAccountId' \in BOOLEAN
           /\ operator' \in SignKey \cup {NoKey}
           /\ nodeAccountIds' \in ListType(NodeId) /\ ~ IsEmpty(nodeAccountIds')
           /\ nodeAccountIds'.locked <=> nodeAccountIds.locked \/ lock
           /\ ~ IsEmpty(nodeAccountIds) =>
                 /\ nodeAccountIds'.list = nodeAccountIds.list
                 /\ nodeAccountIds'.index = nodeAccountIds.index
           /\ IsEmpty(nodeAccountIds) => nodeAccountIds'.index = 1
           /\ transactionIds' \in ListType(0..MaxId) /\ lastId' \in 0..MaxId
           /\ transactionIds'.locked <=> transactionIds.locked \/ lock
           /\ transactionIds.locked => transactionIds'.list = transactionIds.list
           /\ ~ IsEmpty(transactionIds) => ~ IsEmpty(transactionIds')
           /\ signedTransactions' \in ListType(Tx)
           /\ signedTransactions'.locked <=> signedTransactions.locked \/ keys # {}
           /\ Builds =>
                 /\ ~ IsEmpty(transactionIds')
                 /\ signedTransactions'.list =
                        [i \in DOMAIN nodeAccountIds'.list |->
                            Body(nodeAccountIds'.list[i], transactionIds'.list[1], keys)]
           /\ ~ Builds => signedTransactions'.list = signedTransactions.list
<1>1. /\ signOnDemand' \in BOOLEAN /\ operatorAccountId' \in BOOLEAN
      /\ operator' \in SignKey \cup {NoKey}
  BY ClientConstants DEF Freeze, FreezeSettings, TxTyped, SettingsTyped
<1>2. /\ nodeAccountIds' \in ListType(NodeId) /\ ~ IsEmpty(nodeAccountIds')
      /\ nodeAccountIds'.locked <=> nodeAccountIds.locked \/ lock
      /\ ~ IsEmpty(nodeAccountIds) =>
            /\ nodeAccountIds'.list = nodeAccountIds.list
            /\ nodeAccountIds'.index = nodeAccountIds.index
      /\ IsEmpty(nodeAccountIds) => nodeAccountIds'.index = 1
  <2>1. nodeAccountIds \in ListType(NodeId)
    BY DEF TxTyped, ListsTyped
  <2>2. CASE ~ IsEmpty(nodeAccountIds) /\ nodeAccountIds' = LockedIf(lock, nodeAccountIds)
    BY <2>1, <2>2, ListLockedIf DEF IsEmpty
  <2>3. ASSUME IsEmpty(nodeAccountIds), NEW nodes \in ClientNodes,
               nodeAccountIds' = LockedIf(lock, SetList(nodeAccountIds, nodes))
        PROVE  /\ nodeAccountIds' \in ListType(NodeId) /\ nodeAccountIds'.list # <<>>
               /\ nodeAccountIds'.locked <=> nodeAccountIds.locked \/ lock
               /\ nodeAccountIds'.index = 1
    <3>1. nodes \in Seq(NodeId) /\ nodes # <<>>
      BY NodeConstants
    <3>2. /\ SetList(nodeAccountIds, nodes) \in ListType(NodeId)
          /\ SetList(nodeAccountIds, nodes).list = nodes
          /\ SetList(nodeAccountIds, nodes).index = 1
          /\ SetList(nodeAccountIds, nodes).locked = nodeAccountIds.locked
      BY <2>1, <3>1, ListSet
    <3> QED
      BY <2>3, <3>1, <3>2, ListLockedIf
  <2> QED
    BY <2>2, <2>3 DEF Freeze, PickNodes, IsEmpty
<1>3. /\ transactionIds' \in ListType(0..MaxId) /\ lastId' \in 0..MaxId
      /\ transactionIds'.locked <=> transactionIds.locked \/ lock
      /\ transactionIds.locked => transactionIds'.list = transactionIds.list
      /\ ~ IsEmpty(transactionIds) => ~ IsEmpty(transactionIds')
  <2>1. transactionIds \in ListType(0..MaxId) /\ lastId \in 0..MaxId /\ MaxId \in Nat
    BY BoundConstants DEF TxTyped, ListsTyped, SettingsTyped
  <2>2. CASE transactionIds' = LockedIf(lock, transactionIds) /\ UNCHANGED lastId
    BY <2>1, <2>2, ListLockedIf DEF IsEmpty
  <2>3. CASE /\ ~ transactionIds.locked /\ lastId < MaxId /\ lastId' = lastId + 1
             /\ transactionIds' = LockedIf(lock, SetAt(transactionIds, 1, lastId + 1))
    <3>1. lastId + 1 \in 0..MaxId
      BY <2>1, <2>3
    <3>2. /\ SetAt(transactionIds, 1, lastId + 1) \in ListType(0..MaxId)
          /\ SetAt(transactionIds, 1, lastId + 1).list # <<>>
          /\ SetAt(transactionIds, 1, lastId + 1).locked = transactionIds.locked
      BY <2>1, <3>1, ListSetAt
    <3> QED
      BY <2>3, <3>1, <3>2, ListLockedIf DEF IsEmpty
  <2> QED
    BY <2>2, <2>3 DEF Freeze, BuildNewTransactionIdList
<1>4. /\ signedTransactions' \in ListType(Tx)
      /\ signedTransactions'.locked <=> signedTransactions.locked \/ keys # {}
      /\ Builds =>
            /\ ~ IsEmpty(transactionIds')
            /\ signedTransactions'.list =
                   [i \in DOMAIN nodeAccountIds'.list |->
                       Body(nodeAccountIds'.list[i], transactionIds'.list[1], keys)]
      /\ ~ Builds => signedTransactions'.list = signedTransactions.list
  <2>1. signedTransactions \in ListType(Tx) /\ (keys # {}) \in BOOLEAN
    BY DEF TxTyped, ListsTyped
  <2>2. CASE Builds
    <3> DEFINE list == [i \in DOMAIN nodeAccountIds'.list |->
                           Body(nodeAccountIds'.list[i], transactionIds'.list[1], keys)]
    <3>1. ~ IsEmpty(transactionIds')
      BY <2>2 DEF Freeze
    <3>2. transactionIds'.list[1] \in 0..MaxId
      <4>1. transactionIds'.list \in Seq(0..MaxId) /\ transactionIds'.list # <<>>
        BY <1>3, <3>1, ListOps DEF IsEmpty
      <4> QED
        BY <4>1, NonEmptySeq
    <3>3. nodeAccountIds'.list \in Seq(NodeId)
      BY <1>2, ListOps
    <3>4. \A i \in DOMAIN nodeAccountIds'.list : list[i] \in Tx
      BY <3>2, <3>3 DEF Body, Tx, TxTyped, SettingsTyped
    <3>5. list \in Seq(Tx)
      <4>1. list = [i \in DOMAIN nodeAccountIds'.list |-> list[i]]
        OBVIOUS
      <4> HIDE DEF list
      <4> QED
        BY <3>3, <3>4, <4>1, MappedSeq
    <3>6. signedTransactions' = LockedIf(keys # {}, SetList(signedTransactions, list))
      BY <2>2 DEF Freeze, BuildSignedTransactions
    <3> HIDE DEF list
    <3>7. /\ SetList(signedTransactions, list) \in ListType(Tx)
          /\ SetList(signedTransactions, list).list = list
          /\ SetList(signedTransactions, list).locked = signedTransactions.locked
      BY <2>1, <3>5, ListSet
    <3> QED
      BY <2>1, <2>2, <3>1, <3>6, <3>7, ListLockedIf DEF list
  <2>3. CASE ~ Builds
    <3>1. signedTransactions' = LockedIf(keys # {}, signedTransactions)
      BY <2>3 DEF Freeze, BuildSignedTransactions
    <3> QED
      BY <2>1, <2>3, <3>1, ListLockedIf
  <2> QED
    BY <2>2, <2>3
<1> QED
  BY <1>1, <1>2, <1>3, <1>4

(* The types of what the application does. *)
LEMMA UsesTyped ==
    ASSUME TxTyped
    PROVE  /\ uses.keys \subseteq SignKey /\ uses.executions \subseteq Execution
           /\ uses.freezeWith \subseteq Client \cup {NoClient}
           /\ uses.execute \subseteq Client /\ uses.nodes \subseteq ExplicitNodes
           /\ uses.awaits \in BOOLEAN
  BY ClientConstants DEF TxTyped, SettingsTyped, UseType

(* _buildAllTransactions() keeps what was built and takes the rest from    *)
(* what is signed.                                                         *)
LEMMA BuiltAllEffect ==
    ASSUME ListsTyped, DOMAIN transactions.list \subseteq DOMAIN signedTransactions.list
    PROVE  /\ BuiltAll \in Seq(Tx \cup {NoTx})
           /\ DOMAIN BuiltAll = DOMAIN signedTransactions.list
           /\ \A i \in DOMAIN BuiltAll :
                 \/ /\ i \in DOMAIN transactions.list /\ transactions.list[i] # NoTx
                    /\ BuiltAll[i] = transactions.list[i]
                 \/ BuiltAll[i] = signedTransactions.list[i]
<1> DEFINE S == signedTransactions.list
           B == transactions.list
<1>1. S \in Seq(Tx) /\ B \in Seq(Tx \cup {NoTx})
  BY ListOps DEF ListsTyped
<1>2. DOMAIN S \cup DOMAIN B = DOMAIN S
  OBVIOUS
<1>3. BuiltAll = [i \in DOMAIN S |-> IF i \in DOMAIN B /\ B[i] # NoTx THEN B[i] ELSE S[i]]
  BY <1>2, Zenon DEF BuiltAll
<1> HIDE DEF S, B
<1>4. /\ BuiltAll = [i \in DOMAIN S |-> BuiltAll[i]] /\ DOMAIN BuiltAll = DOMAIN S
      /\ \A i \in DOMAIN S : \/ i \in DOMAIN B /\ B[i] # NoTx /\ BuiltAll[i] = B[i]
                             \/ BuiltAll[i] = S[i]
  BY <1>3
<1>5. \A i \in DOMAIN S : BuiltAll[i] \in Tx \cup {NoTx}
  BY <1>1, <1>4
<1>6. BuiltAll \in Seq(Tx \cup {NoTx})
  BY <1>1, <1>4, <1>5, MappedSeq
<1> QED
  BY <1>4, <1>6, Zenon DEF S, B

(* _buildTransaction(i) builds the transaction at its index and leaves     *)
(* holes at most before it.                                                *)
LEMMA AttemptEffect ==
    ASSUME ListsTyped, NEW i \in Nat \ {0}, i <= Len(signedTransactions.list),
           NEW t, t = SetIfAbsent(Padded(i), i, signedTransactions.list[i], NoTx)
    PROVE  /\ t \in ListType(Tx \cup {NoTx}) /\ t.locked = transactions.locked
           /\ i \in DOMAIN t.list /\ i \in DOMAIN signedTransactions.list
           /\ \A j \in DOMAIN t.list :
                 \/ /\ j # i /\ t.list[j] = NoTx
                    /\ j \in DOMAIN signedTransactions.list \cup DOMAIN transactions.list
                 \/ /\ j \in DOMAIN transactions.list /\ t.list[j] = transactions.list[j]
                    /\ t.list[j] # NoTx
                 \/ j = i /\ t.list[j] = signedTransactions.list[i]
<1> DEFINE T == Tx \cup {NoTx}
           m == i - 1 - Len(transactions.list)
           pad == [j \in 1..m |-> NoTx]
           x == signedTransactions.list[i]
           p == transactions.list \o pad
<1>1. /\ signedTransactions.list \in Seq(Tx) /\ transactions.list \in Seq(T)
      /\ transactions \in ListType(T)
  BY ListOps DEF ListsTyped
<1>2. i \in DOMAIN signedTransactions.list /\ x \in Tx /\ x \in T
  BY <1>1
<1>3. m \in Int
  BY <1>1
<1>4. /\ pad \in Seq(T) /\ Len(pad) = IF m > 0 THEN m ELSE 0
      /\ \A j \in DOMAIN pad : pad[j] = NoTx
  <2>1. NoTx \in T
    OBVIOUS
  <2> HIDE DEF T, m
  <2> QED
    BY <1>3, <2>1, ConstantSeq
<1> HIDE DEF pad
<1>5. /\ p \in Seq(T) /\ Len(p) = Len(transactions.list) + Len(pad)
      /\ \A j \in DOMAIN p : \/ j \in DOMAIN transactions.list /\ p[j] = transactions.list[j]
                             \/ p[j] = NoTx /\ j \in DOMAIN signedTransactions.list
      /\ i <= Len(p) + 1
  <2> HIDE DEF T, m
  <2>1. pad \in Seq(T) /\ Len(pad) \in Nat /\ DOMAIN pad = 1..Len(pad)
    BY <1>4
  <2>2. p \in Seq(T) /\ Len(p) = Len(transactions.list) + Len(pad)
    BY <1>1, <2>1
  <2>3. /\ Len(transactions.list) \in Nat
        /\ DOMAIN transactions.list = 1..Len(transactions.list)
    BY <1>1
  <2>4. \A j \in DOMAIN p :
           \/ j \in DOMAIN transactions.list /\ p[j] = transactions.list[j]
           \/ p[j] = NoTx /\ j \in DOMAIN signedTransactions.list
    <3>1. \A j \in DOMAIN p : \/ j \in DOMAIN transactions.list /\ p[j] = transactions.list[j]
                              \/ p[j] = NoTx
      BY <1>1, <1>4, <2>1, <2>3
    <3>2. Len(pad) > 0 => Len(p) = i - 1
      <4>1. Len(pad) > 0 => Len(pad) = m
        BY <1>3, <1>4
      <4> HIDE DEF p
      <4> QED
        BY <2>1, <2>2, <2>3, <4>1 DEF m
    <3>3. \A j \in DOMAIN p : j \notin DOMAIN transactions.list =>
             j \in DOMAIN signedTransactions.list
      <4> HIDE DEF p
      <4>1. DOMAIN p = 1..Len(p) /\ DOMAIN signedTransactions.list = 1..Len(signedTransactions.list)
            /\ Len(p) \in Nat /\ Len(signedTransactions.list) \in Nat
        BY <1>1, <2>2
      <4> QED
        BY <2>1, <2>2, <2>3, <3>2, <4>1
    <3> HIDE DEF p
    <3>4. \A j \in DOMAIN p : j \in DOMAIN transactions.list =>
             \/ p[j] = transactions.list[j]
             \/ p[j] = NoTx /\ j \in DOMAIN signedTransactions.list
      BY <1>1, <2>3 DEF p
    <3> QED
      BY <3>1, <3>3, <3>4, Zenon
  <2>5. i <= Len(p) + 1
    <3>1. m <= Len(pad)
      BY <1>3, <1>4, <2>1
    <3> HIDE DEF p
    <3> QED
      BY <2>1, <2>2, <2>3, <3>1 DEF m
  <2> QED
    BY <2>2, <2>4, <2>5
<1> HIDE DEF p, x, T
<1>6. /\ Padded(i) \in ListType(T) /\ Padded(i).list = p
      /\ Padded(i).locked = transactions.locked
  BY <1>1, <1>5 DEF Padded, ListType, p, pad
<1>7. CASE i = Len(p) + 1
  <2>1. t = [Padded(i) EXCEPT !.list = Append(p, x)]
    BY <1>6, <1>7 DEF SetIfAbsent, SetAt, x
  <2>2. /\ Append(p, x) \in Seq(T) /\ Len(Append(p, x)) = i /\ Append(p, x)[i] = x
        /\ \A j \in 1..Len(p) : Append(p, x)[j] = p[j]
    BY <1>2, <1>5, <1>7
  <2>3. t \in ListType(T) /\ t.list = Append(p, x) /\ t.locked = transactions.locked
    BY <1>6, <2>1, <2>2 DEF ListType
  <2>4. DOMAIN t.list = 1..i /\ Len(p) \in Nat /\ DOMAIN p = 1..Len(p)
    BY <1>5, <1>7, <2>2, <2>3
  <2>5. t.list[i] = x /\ \A j \in 1..Len(p) : t.list[j] = p[j]
    BY <2>2, <2>3
  <2>6. \A j \in DOMAIN t.list : \/ j \in DOMAIN p /\ t.list[j] = p[j]
                                 \/ j = i /\ t.list[j] = x
    BY <1>7, <2>4, <2>5
  <2>7. i \notin DOMAIN p
    BY <1>7, <2>4
  <2> QED
    BY <1>2, <1>5, <2>3, <2>4, <2>6, <2>7 DEF T, x
<1>8. CASE i # Len(p) + 1 /\ p[i] = NoTx
  <2>1. t = [Padded(i) EXCEPT !.list = [p EXCEPT ![i] = x]]
    BY <1>6, <1>8 DEF SetIfAbsent, SetAt, x
  <2>2. i \in DOMAIN p /\ [p EXCEPT ![i] = x] \in Seq(T)
    BY <1>2, <1>5, <1>8
  <2>3. t \in ListType(T) /\ t.list = [p EXCEPT ![i] = x] /\ t.locked = transactions.locked
    BY <1>6, <2>1, <2>2 DEF ListType
  <2> QED
    BY <1>2, <1>5, <1>8, <2>2, <2>3 DEF T, x
<1>9. CASE i # Len(p) + 1 /\ p[i] # NoTx
  <2>1. t = Padded(i)
    BY <1>6, <1>9 DEF SetIfAbsent
  <2>2. i \in DOMAIN p
    BY <1>5, <1>9
  <2> QED
    BY <1>2, <1>5, <1>6, <1>9, <2>1, <2>2 DEF T
<1> QED
  BY <1>7, <1>8, <1>9

(* One answer of a signer adds its signature to one transaction. *)
LEMMA SignEffect ==
    ASSUME TxTyped, NEW k \in SignKey, Sign(k), UNCHANGED uses
    PROVE  /\ TxTyped' /\ SignedKept
           /\ signedTransactions'.locked = signedTransactions.locked
           /\ \A i \in DOMAIN signedTransactions.list :
                 i = signing[k] => k \in signedTransactions'.list[i].sigs
<1> DEFINE p == signing[k]
           S == signedTransactions.list
           T == [S EXCEPT ![p].sigs = @ \cup {k}]
<1>1. S \in Seq(Tx) /\ signedTransactions \in ListType(Tx) /\ p \in Nat
  BY ListOps DEF TxTyped, ListsTyped, SigningTyped
<1>2. signedTransactions' = [signedTransactions EXCEPT !.list = T]
  BY DEF Sign
<1>3. /\ T = [i \in DOMAIN S |-> T[i]]
      /\ \A i \in DOMAIN S : T[i] = IF i = p THEN [S[i] EXCEPT !.sigs = @ \cup {k}] ELSE S[i]
  OBVIOUS
<1>4. \A i \in DOMAIN S : S[i] \in Tx
  BY <1>1
<1> HIDE DEF T, S
<1>5. \A i \in DOMAIN S :
         /\ T[i] \in Tx /\ T[i].node = S[i].node /\ T[i].id = S[i].id
         /\ T[i].memo = S[i].memo /\ S[i].sigs \subseteq T[i].sigs
         /\ i = p => k \in T[i].sigs
  BY <1>3, <1>4 DEF Tx
<1>6. T \in Seq(Tx) /\ DOMAIN T = DOMAIN S
  BY <1>1, <1>3, <1>5, MappedSeq
<1>7. /\ signedTransactions' \in ListType(Tx) /\ signedTransactions'.list = T
      /\ signedTransactions'.locked = signedTransactions.locked
  BY <1>1, <1>2, <1>6 DEF ListType
<1>8. SigningTyped'
  BY <1>1 DEF Sign, TxTyped, SigningTyped
<1>9. TxTyped'
  BY <1>7, <1>8 DEF Sign, TxTyped, SettingsTyped, ListsTyped, LoopTyped, settingVars,
     idVars, loopVars
<1> QED
  BY <1>5, <1>6, <1>7, <1>9 DEF SignedKept, S

(* freezeWith() is a Freeze that locks nothing and signs nothing. *)
LEMMA FreezeWithEffect ==
    ASSUME TxTyped, NEW c \in Client \cup {NoClient}, FreezeWith(c), UNCHANGED uses
    PROVE  TxTyped' /\ Freeze(c, FALSE, {})
<1>1. Freeze(c, FALSE, {}) /\ {} \in SUBSET SignKey /\ FALSE \in BOOLEAN
  BY DEF FreezeWith
<1>2. SettingsTyped' /\ ListsTyped'
  BY <1>1, FreezeTyped DEF FreezeWith, TxTyped, SettingsTyped, ListsTyped
<1>3. SigningTyped' /\ LoopTyped'
  BY DEF FreezeWith, TxTyped, SigningTyped, LoopTyped, loopVars
<1> QED
  BY <1>1, <1>2, <1>3 DEF TxTyped

(* A freezeWith() that throws may have picked nodes, and nothing else. *)
LEMMA FreezeWithThrowsEffect ==
    ASSUME TxTyped, NEW c \in Client \cup {NoClient}, FreezeWithThrows(c), UNCHANGED uses
    PROVE  /\ TxTyped'
           /\ \/ NodesKept
              \/ /\ IsEmpty(nodeAccountIds) /\ ~ IsEmpty(nodeAccountIds')
                 /\ nodeAccountIds'.index = 1
           /\ nodeAccountIds'.locked <=> nodeAccountIds.locked
<1>1. nodeAccountIds \in ListType(NodeId) /\ FALSE \in BOOLEAN
  BY DEF TxTyped, ListsTyped
<1>2. /\ nodeAccountIds' \in ListType(NodeId)
      /\ \/ NodesKept
         \/ /\ IsEmpty(nodeAccountIds) /\ ~ IsEmpty(nodeAccountIds')
            /\ nodeAccountIds'.index = 1
      /\ nodeAccountIds'.locked <=> nodeAccountIds.locked
  <2>1. CASE UNCHANGED nodeAccountIds
    BY <1>1, <2>1 DEF NodesKept
  <2>2. CASE ~ IsEmpty(nodeAccountIds) /\ nodeAccountIds' = LockedIf(FALSE, nodeAccountIds)
    BY <1>1, <2>2, ListLockedIf, ListOps DEF NodesKept
  <2>3. ASSUME IsEmpty(nodeAccountIds), NEW nodes \in ClientNodes,
               nodeAccountIds' = LockedIf(FALSE, SetList(nodeAccountIds, nodes))
        PROVE  /\ nodeAccountIds' \in ListType(NodeId) /\ ~ IsEmpty(nodeAccountIds')
               /\ nodeAccountIds'.index = 1
               /\ nodeAccountIds'.locked <=> nodeAccountIds.locked
    <3>1. nodes \in Seq(NodeId) /\ nodes # <<>>
      BY NodeConstants
    <3>2. /\ SetList(nodeAccountIds, nodes) \in ListType(NodeId)
          /\ SetList(nodeAccountIds, nodes).list = nodes
          /\ SetList(nodeAccountIds, nodes).index = 1
          /\ SetList(nodeAccountIds, nodes).locked = nodeAccountIds.locked
      BY <1>1, <3>1, ListSet
    <3> QED
      BY <2>3, <3>1, <3>2, ListLockedIf DEF IsEmpty
  <2> QED
    BY <2>1, <2>2, <2>3 DEF FreezeWithThrows, PickNodes
<1>3. /\ signOnDemand' \in BOOLEAN /\ operatorAccountId' \in BOOLEAN
      /\ operator' \in SignKey \cup {NoKey}
  BY ClientConstants DEF FreezeWithThrows, FreezeSettings, TxTyped, SettingsTyped
<1>4. TxTyped'
  BY <1>2, <1>3 DEF FreezeWithThrows, TxTyped, SettingsTyped, ListsTyped, SigningTyped,
     LoopTyped, idVars, signVars, loopVars
<1> QED
  BY <1>2, <1>4

(* A signature more leaves the body of a transaction. *)
LEMMA SignedTx ==
    ASSUME NEW tx \in Tx, NEW k \in SignKey, NEW ty, ty = [tx EXCEPT !.sigs = @ \cup {k}]
    PROVE  /\ ty \in Tx /\ ty.node = tx.node /\ ty.id = tx.id /\ ty.memo = tx.memo
           /\ tx.sigs \subseteq ty.sigs /\ k \in ty.sigs
  BY DEF Tx

(* addSignature() of a new key drops what was built and locks both lists;  *)
(* it freezes first, with the signature, what was not frozen, and else signs every    *)
(* transaction.                                                            *)
LEMMA AddNewSignatureEffect ==
    ASSUME TxTyped, NEW k \in SignKey, AddNewSignature(k), UNCHANGED uses
    PROVE  /\ TxTyped' /\ transactions'.list = <<>>
           /\ \/ IsEmpty(signedTransactions) /\ Freeze(NoClient, TRUE, {k})
              \/ /\ ~ IsEmpty(signedTransactions) /\ UNCHANGED settingVars
                 /\ NodesKept /\ IdsKept /\ SignedKept /\ BothLocked'
                 /\ \A i \in DOMAIN signedTransactions.list :
                       k \in signedTransactions'.list[i].sigs
<1>1. /\ transactionIds \in ListType(0..MaxId) /\ nodeAccountIds \in ListType(NodeId)
      /\ signedTransactions \in ListType(Tx) /\ transactions \in ListType(Tx \cup {NoTx})
  BY DEF TxTyped, ListsTyped
<1>2. transactions' \in ListType(Tx \cup {NoTx}) /\ transactions'.list = <<>>
  BY <1>1, ListClear DEF AddNewSignature
<1>3. SigningTyped' /\ LoopTyped'
  <2>1. completed' \in SUBSET SignKey
    BY DEF AddNewSignature, TxTyped, SigningTyped
  <2> QED
    BY <2>1 DEF AddNewSignature, TxTyped, SigningTyped, LoopTyped, loopVars
<1>4. CASE IsEmpty(signedTransactions)
  <2>1. Freeze(NoClient, TRUE, {k}) /\ UNCHANGED memo
    BY <1>4 DEF AddNewSignature
  <2>2. NoClient \in Client \cup {NoClient} /\ TRUE \in BOOLEAN /\ {k} \in SUBSET SignKey
    OBVIOUS
  <2>3. SettingsTyped' /\ ListsTyped'
    BY <1>2, <2>1, <2>2, FreezeTyped DEF TxTyped, SettingsTyped, ListsTyped
  <2> QED
    BY <1>2, <1>3, <1>4, <2>1, <2>3 DEF TxTyped
<1>5. CASE ~ IsEmpty(signedTransactions)
  <2> DEFINE S == signedTransactions.list
             T == SignedBy(k)
             L == [signedTransactions EXCEPT !.list = T]
  <2>1. /\ nodeAccountIds' = SetLocked(nodeAccountIds)
        /\ transactionIds' = SetLocked(transactionIds)
        /\ signedTransactions' = SetLocked(L)
        /\ UNCHANGED <<settingVars, lastId>>
    BY <1>5, Zenon DEF AddNewSignature
  <2>2. S \in Seq(Tx)
    BY <1>1, ListOps
  <2>3. T = [i \in DOMAIN S |-> T[i]]
    BY DEF SignedBy
  <2>4. \A i \in DOMAIN S :
           /\ T[i] \in Tx /\ T[i].node = S[i].node /\ T[i].id = S[i].id
           /\ T[i].memo = S[i].memo /\ S[i].sigs \subseteq T[i].sigs /\ k \in T[i].sigs
    <3> SUFFICES ASSUME NEW i \in DOMAIN S
                 PROVE  /\ T[i] \in Tx /\ T[i].node = S[i].node /\ T[i].id = S[i].id
                        /\ T[i].memo = S[i].memo
                        /\ S[i].sigs \subseteq T[i].sigs /\ k \in T[i].sigs
      OBVIOUS
    <3>1. S[i] \in Tx
      BY <2>2
    <3>2. T[i] = [S[i] EXCEPT !.sigs = @ \cup {k}]
      BY DEF SignedBy
    <3> HIDE DEF T, S
    <3> QED
      BY <3>1, <3>2, SignedTx
  <2> HIDE DEF T, S
  <2>5. T \in Seq(Tx) /\ DOMAIN T = DOMAIN S
    BY <2>2, <2>3, <2>4, MappedSeq
  <2>6. L \in ListType(Tx) /\ L.list = T
    BY <1>1, <2>5 DEF ListType
  <2> HIDE DEF L
  <2>7. signedTransactions' \in ListType(Tx) /\ signedTransactions'.list = T
    BY <2>1, <2>6, ListOps
  <2>8. /\ nodeAccountIds' \in ListType(NodeId) /\ NodesKept /\ nodeAccountIds'.locked
        /\ transactionIds' \in ListType(0..MaxId) /\ IdsKept /\ transactionIds'.locked
    BY <1>1, <2>1, ListOps DEF NodesKept, IdsKept
  <2>9. SettingsTyped' /\ ListsTyped'
    BY <1>2, <2>1, <2>7, <2>8 DEF TxTyped, SettingsTyped, ListsTyped, settingVars
  <2>10. SignedKept /\ \A i \in DOMAIN S : k \in signedTransactions'.list[i].sigs
    BY <2>4, <2>5, <2>7 DEF SignedKept, S
  <2> QED
    BY <1>2, <1>3, <1>5, <2>1, <2>8, <2>9, <2>10 DEF TxTyped, BothLocked, S
<1> QED
  BY <1>4, <1>5

(* toBytes() locks both lists and builds everything. *)
LEMMA ToBytesEffect ==
    ASSUME TxTyped, Built, ToBytes, UNCHANGED uses
    PROVE  /\ TxTyped' /\ NodesKept /\ IdsKept /\ BothLocked'
           /\ transactions'.list = BuiltAll
           /\ DOMAIN transactions.list \subseteq DOMAIN signedTransactions.list
<1>1. /\ transactionIds \in ListType(0..MaxId) /\ nodeAccountIds \in ListType(NodeId)
      /\ transactions \in ListType(Tx \cup {NoTx})
  BY DEF TxTyped, ListsTyped
<1>2. DOMAIN transactions.list \subseteq DOMAIN signedTransactions.list
  BY DEF ToBytes, Built
<1>3. BuiltAll \in Seq(Tx \cup {NoTx})
  BY <1>2, BuiltAllEffect DEF TxTyped
<1>4. transactions' \in ListType(Tx \cup {NoTx}) /\ transactions'.list = BuiltAll
  <2>1. transactions' = [transactions EXCEPT !.list = BuiltAll]
    BY DEF ToBytes
  <2> QED
    BY <1>1, <1>3, <2>1 DEF ListType
<1>5. /\ nodeAccountIds' \in ListType(NodeId) /\ NodesKept
      /\ transactionIds' \in ListType(0..MaxId) /\ IdsKept /\ BothLocked'
  BY <1>1, ListOps DEF ToBytes, NodesKept, IdsKept, BothLocked
<1>6. TxTyped'
  BY <1>4, <1>5 DEF ToBytes, TxTyped, SettingsTyped, ListsTyped, SigningTyped, LoopTyped,
     settingVars, signVars, loopVars
<1> QED
  BY <1>2, <1>4, <1>5, <1>6

(* toBytesAsync() locks both lists; at once, it builds everything, and on  *)
(* demand it starts with the bodies it signs.                              *)
LEMMA ToBytesAsyncEffect ==
    ASSUME TxTyped, InRange, Built, ToBytesAsync, UNCHANGED uses
    PROVE  /\ TxTyped' /\ IdsKept /\ BothLocked'
           /\ nodeAccountIds'.list = nodeAccountIds.list
           /\ \/ nodeAccountIds'.index = nodeAccountIds.index
              \/ nodeAccountIds'.index \in DOMAIN nodeAccountIds.list
           /\ \/ /\ ~ signOnDemand /\ transactions'.list = BuiltAll
                 /\ DOMAIN transactions.list \subseteq DOMAIN signedTransactions.list
                 /\ building'.left = 0 /\ UNCHANGED signedTransactions
              \/ /\ signOnDemand /\ UNCHANGED transactions
                 /\ building'.left > 0 =>
                       ~ IsEmpty(signedTransactions') /\ building'.at = "build"
                 /\ \/ UNCHANGED signedTransactions
                    \/ /\ signedTransactions'.list =
                              [i \in DOMAIN nodeAccountIds.list |->
                                 Body(nodeAccountIds.list[i], transactionIds.list[1], {})]
                       /\ nodeAccountIds.list # <<>> => transactionIds.list # <<>>
<1>1. /\ transactionIds \in ListType(0..MaxId) /\ nodeAccountIds \in ListType(NodeId)
      /\ signedTransactions \in ListType(Tx) /\ transactions \in ListType(Tx \cup {NoTx})
      /\ nodeAccountIds.list \in Seq(NodeId) /\ transactionIds.list \in Seq(0..MaxId)
  BY ListOps DEF TxTyped, ListsTyped
<1>2. transactionIds' \in ListType(0..MaxId) /\ IdsKept /\ transactionIds'.locked
  BY <1>1, ListOps DEF ToBytesAsync, IdsKept
<1>3. SettingsTyped' /\ SigningTyped'
  BY DEF ToBytesAsync, TxTyped, SettingsTyped, SigningTyped, settingVars, signVars
<1>4. /\ UNCHANGED loopVars
      /\ building' \in [at : {"idle", "build"}, left : Nat, node : NodeId \cup {NoTx}]
      => LoopTyped'
  BY DEF TxTyped, LoopTyped, loopVars
<1>5. UNCHANGED loopVars
  BY DEF ToBytesAsync
<1>6. CASE /\ ~ signOnDemand
           /\ transactions' = [transactions EXCEPT !.list = BuiltAll]
           /\ nodeAccountIds' = SetLocked(nodeAccountIds)
           /\ building' = [at |-> "build", left |-> 0, node |-> NoTx]
           /\ UNCHANGED signedTransactions
  <2>1. DOMAIN transactions.list \subseteq DOMAIN signedTransactions.list
    BY <1>6 DEF Built
  <2>2. BuiltAll \in Seq(Tx \cup {NoTx})
    BY <2>1, BuiltAllEffect DEF TxTyped
  <2>3. transactions' \in ListType(Tx \cup {NoTx}) /\ transactions'.list = BuiltAll
    BY <1>1, <1>6, <2>2 DEF ListType
  <2>4. /\ nodeAccountIds' \in ListType(NodeId) /\ nodeAccountIds'.locked
        /\ nodeAccountIds'.list = nodeAccountIds.list
        /\ nodeAccountIds'.index = nodeAccountIds.index
    BY <1>1, <1>6, ListOps
  <2>5. LoopTyped'
    BY <1>4, <1>5, <1>6
  <2>6. ListsTyped'
    BY <1>1, <1>2, <1>6, <2>3, <2>4 DEF ListsTyped
  <2> QED
    BY <1>2, <1>3, <1>6, <2>1, <2>3, <2>4, <2>5, <2>6 DEF TxTyped, BothLocked
<1>7. CASE /\ signOnDemand /\ NoIdToBuildWith
           /\ nodeAccountIds' = SetLocked(nodeAccountIds)
           /\ UNCHANGED <<building, signedTransactions, transactions>>
           /\ building.at = "idle"
  <2>1. /\ nodeAccountIds' \in ListType(NodeId) /\ nodeAccountIds'.locked
        /\ nodeAccountIds'.list = nodeAccountIds.list
        /\ nodeAccountIds'.index = nodeAccountIds.index
    BY <1>1, <1>7, ListOps
  <2>2. LoopTyped'
    BY <1>5, <1>7 DEF TxTyped, LoopTyped, loopVars
  <2>3. ListsTyped'
    BY <1>1, <1>2, <1>7, <2>1 DEF ListsTyped
  <2>4. ~ building'.left > 0
    BY <1>7 DEF InRange
  <2> QED
    BY <1>2, <1>3, <1>7, <2>1, <2>2, <2>3, <2>4 DEF TxTyped, BothLocked
<1>8. CASE /\ signOnDemand /\ ~ NoIdToBuildWith /\ UNCHANGED transactions
           /\ signedTransactions' =
                 IF signedTransactions.locked
                 THEN signedTransactions
                 ELSE SetList(signedTransactions,
                              [i \in DOMAIN nodeAccountIds.list |->
                                  Body(nodeAccountIds.list[i], transactionIds.list[1], {})])
           /\ IF transactions.locked \/ IsEmpty(signedTransactions')
              THEN /\ building' = [at |-> "build", left |-> 0, node |-> NoTx]
                   /\ nodeAccountIds' = SetLocked(nodeAccountIds)
              ELSE /\ building' = [at |-> "build", left |-> Len(signedTransactions'.list),
                                   node |-> Current(nodeAccountIds)]
                   /\ nodeAccountIds' = SetLocked(Advanced(nodeAccountIds))
  <2> DEFINE list == [i \in DOMAIN nodeAccountIds.list |->
                         Body(nodeAccountIds.list[i], transactionIds.list[1], {})]
  <2>1. /\ signedTransactions' \in ListType(Tx)
        /\ ~ IsEmpty(signedTransactions') => ~ IsEmpty(nodeAccountIds)
        /\ \/ UNCHANGED signedTransactions
           \/ /\ signedTransactions'.list = list
              /\ nodeAccountIds.list # <<>> => transactionIds.list # <<>>
    <3>1. CASE signedTransactions.locked
      BY <1>1, <1>8, <3>1 DEF InRange
    <3>2. CASE ~ signedTransactions.locked
      <4>1. nodeAccountIds.list # <<>> => transactionIds.list # <<>>
        BY <1>8, <3>2 DEF NoIdToBuildWith, IsEmpty
      <4>2. \A i \in DOMAIN nodeAccountIds.list : list[i] \in Tx
        <5> SUFFICES ASSUME NEW i \in DOMAIN nodeAccountIds.list PROVE list[i] \in Tx
          OBVIOUS
        <5>1. nodeAccountIds.list # <<>> /\ nodeAccountIds.list[i] \in NodeId
          BY <1>1
        <5>2. transactionIds.list[1] \in 0..MaxId
          BY <1>1, <4>1, <5>1, NonEmptySeq
        <5> QED
          BY <5>1, <5>2 DEF Body, Tx, TxTyped, SettingsTyped
      <4>3. list = [i \in DOMAIN nodeAccountIds.list |-> list[i]]
        OBVIOUS
      <4>4. signedTransactions' = SetList(signedTransactions, list)
        BY <1>8, <3>2
      <4> HIDE DEF list
      <4>5. list \in Seq(Tx) /\ DOMAIN list = DOMAIN nodeAccountIds.list
        BY <1>1, <4>2, <4>3, MappedSeq
      <4>6. signedTransactions' \in ListType(Tx) /\ signedTransactions'.list = list
        BY <1>1, <4>4, <4>5, ListSet
      <4>7. list # <<>> => nodeAccountIds.list # <<>>
        BY <1>1, <4>5
      <4> QED
        BY <4>1, <4>6, <4>7 DEF IsEmpty
    <3> QED
      BY <3>1, <3>2
  <2> HIDE DEF list
  <2>2. /\ nodeAccountIds' \in ListType(NodeId) /\ nodeAccountIds'.locked
        /\ nodeAccountIds'.list = nodeAccountIds.list
        /\ \/ nodeAccountIds'.index = nodeAccountIds.index
           \/ nodeAccountIds'.index \in DOMAIN nodeAccountIds.list
        /\ building' \in [at : {"idle", "build"}, left : Nat, node : NodeId \cup {NoTx}]
        /\ building'.left > 0 => ~ IsEmpty(signedTransactions') /\ building'.at = "build"
    <3>1. CASE transactions.locked \/ IsEmpty(signedTransactions')
      <4>1. /\ building' = [at |-> "build", left |-> 0, node |-> NoTx]
            /\ nodeAccountIds' = SetLocked(nodeAccountIds)
        BY <1>8, <3>1
      <4>2. /\ nodeAccountIds' \in ListType(NodeId) /\ nodeAccountIds'.locked
            /\ nodeAccountIds'.list = nodeAccountIds.list
            /\ nodeAccountIds'.index = nodeAccountIds.index
        BY <1>1, <4>1, ListOps
      <4> QED
        BY <4>1, <4>2
    <3>2. CASE ~ (transactions.locked \/ IsEmpty(signedTransactions'))
      <4>1. ~ IsEmpty(nodeAccountIds)
        BY <2>1, <3>2
      <4>2. Current(nodeAccountIds) \in NodeId
        BY <1>1, <4>1 DEF InRange, Current
      <4>3. Len(signedTransactions'.list) \in Nat
        BY <2>1, ListOps
      <4>4. /\ Advanced(nodeAccountIds) \in ListType(NodeId)
            /\ Advanced(nodeAccountIds).list = nodeAccountIds.list
            /\ Advanced(nodeAccountIds).index \in DOMAIN nodeAccountIds.list
        BY <1>1, <4>1, ListAdvanced
      <4>5. /\ nodeAccountIds' = SetLocked(Advanced(nodeAccountIds))
            /\ building' = [at |-> "build", left |-> Len(signedTransactions'.list),
                            node |-> Current(nodeAccountIds)]
        BY <1>8, <3>2
      <4>6. /\ nodeAccountIds' \in ListType(NodeId) /\ nodeAccountIds'.locked
            /\ nodeAccountIds'.list = nodeAccountIds.list
            /\ nodeAccountIds'.index \in DOMAIN nodeAccountIds.list
        BY <4>4, <4>5, ListOps
      <4> QED
        BY <3>2, <4>2, <4>3, <4>5, <4>6
    <3> QED
      BY <3>1, <3>2
  <2>3. LoopTyped'
    BY <1>4, <1>5, <2>2
  <2>4. ListsTyped'
    BY <1>1, <1>2, <1>8, <2>1, <2>2 DEF ListsTyped
  <2> QED
    BY <1>2, <1>3, <1>8, <2>1, <2>2, <2>3, <2>4 DEF TxTyped, BothLocked, list
<1> QED
  BY <1>6, <1>7, <1>8 DEF ToBytesAsync

(* The setters and getters keep the types and leave what they do not set. *)
LEMMA SettersTyped ==
    ASSUME TxTyped, UNCHANGED uses
    PROVE  /\ \A m \in Memos : SetField(m) => TxTyped'
           /\ SetTransactionId =>
                 TxTyped' /\ NodesKept /\ ~ IsEmpty(transactionIds')
           /\ \A nodes \in uses.nodes : SetNodeAccountIds(nodes) =>
                 /\ TxTyped' /\ ~ IsEmpty(nodeAccountIds') /\ nodeAccountIds'.index = 1
                 /\ nodeAccountIds.locked => nodeAccountIds'.locked
           /\ GetTransactionId => TxTyped' /\ IdsKept
           /\ GetNodeAccountIds => TxTyped' /\ NodesKept
<1>1. transactionIds \in ListType(0..MaxId) /\ nodeAccountIds \in ListType(NodeId)
  BY DEF TxTyped, ListsTyped
<1>2. ASSUME NEW m \in Memos, SetField(m) PROVE TxTyped'
  BY <1>2 DEF SetField, TxTyped, SettingsTyped, ListsTyped, SigningTyped, LoopTyped,
     idVars, signVars, loopVars
<1>3. ASSUME SetTransactionId
      PROVE  TxTyped' /\ NodesKept /\ ~ IsEmpty(transactionIds')
  <2> DEFINE id == <<ExplicitId>>
  <2>1. id \in Seq(0..MaxId) /\ id # <<>>
    BY BoundConstants
  <2>2. transactionIds' = SetLocked(SetList(transactionIds, id))
    BY <1>3 DEF SetTransactionId
  <2> HIDE DEF id
  <2>3. transactionIds' \in ListType(0..MaxId) /\ transactionIds'.list = id
    <3>1. SetList(transactionIds, id) \in ListType(0..MaxId)
          /\ SetList(transactionIds, id).list = id
      BY <1>1, <2>1, ListSet
    <3> QED
      BY <2>2, <3>1, ListOps
  <2>4. TxTyped'
    BY <1>3, <2>3 DEF SetTransactionId, TxTyped, SettingsTyped, ListsTyped, SigningTyped,
       LoopTyped, settingVars, signVars, loopVars
  <2> QED
    BY <1>3, <2>1, <2>3, <2>4 DEF SetTransactionId, NodesKept, IsEmpty
<1>4. ASSUME NEW nodes \in uses.nodes, SetNodeAccountIds(nodes)
      PROVE  /\ TxTyped' /\ ~ IsEmpty(nodeAccountIds') /\ nodeAccountIds'.index = 1
             /\ nodeAccountIds.locked => nodeAccountIds'.locked
  <2>1. nodes \in Seq(NodeId) /\ nodes # <<>>
    BY UsesTyped, NodeConstants
  <2>2. nodeAccountIds' = SetLocked(SetList(nodeAccountIds, nodes))
    BY <1>4 DEF SetNodeAccountIds
  <2>3. /\ SetList(nodeAccountIds, nodes) \in ListType(NodeId)
        /\ SetList(nodeAccountIds, nodes).list = nodes
        /\ SetList(nodeAccountIds, nodes).index = 1
    BY <1>1, <2>1, ListSet
  <2>4. /\ nodeAccountIds' \in ListType(NodeId) /\ nodeAccountIds'.list = nodes
        /\ nodeAccountIds'.index = 1 /\ nodeAccountIds'.locked
    BY <2>2, <2>3, ListOps
  <2>5. TxTyped'
    BY <1>4, <2>4 DEF SetNodeAccountIds, TxTyped, SettingsTyped, ListsTyped, SigningTyped,
       LoopTyped, settingVars, idVars, signVars, loopVars
  <2> QED
    BY <2>1, <2>4, <2>5 DEF IsEmpty
<1>5. ASSUME GetTransactionId PROVE TxTyped' /\ IdsKept
  <2>1. transactionIds' \in ListType(0..MaxId) /\ IdsKept
    BY <1>1, <1>5, ListOps DEF GetTransactionId, IdsKept
  <2> QED
    BY <1>5, <2>1 DEF GetTransactionId, TxTyped, SettingsTyped, ListsTyped, SigningTyped,
       LoopTyped, settingVars, signVars, loopVars
<1>6. ASSUME GetNodeAccountIds PROVE TxTyped' /\ NodesKept
  <2>1. nodeAccountIds' \in ListType(NodeId) /\ NodesKept
    BY <1>1, <1>6, ListOps DEF GetNodeAccountIds, NodesKept
  <2> QED
    BY <1>6, <2>1 DEF GetNodeAccountIds, TxTyped, SettingsTyped, ListsTyped, SigningTyped,
       LoopTyped, settingVars, idVars, signVars, loopVars
<1> QED
  BY <1>2, <1>3, <1>4, <1>5, <1>6

(* signWith() drops what was built, and locks both lists unless it signs   *)
(* on demand.                                                              *)
LEMMA SignWithEffect ==
    ASSUME TxTyped, NEW k \in SignKey, SignWith(k), UNCHANGED uses
    PROVE  /\ TxTyped' /\ NodesKept /\ IdsKept /\ transactions'.list = <<>>
           /\ ~ signOnDemand => BothLocked'
<1>1. /\ transactionIds \in ListType(0..MaxId) /\ nodeAccountIds \in ListType(NodeId)
      /\ transactions \in ListType(Tx \cup {NoTx}) /\ (~ signOnDemand) \in BOOLEAN
  BY DEF TxTyped, ListsTyped, SettingsTyped
<1>2. transactions' \in ListType(Tx \cup {NoTx}) /\ transactions'.list = <<>>
  BY <1>1, ListClear DEF SignWith, BeginSign
<1>3. /\ transactionIds' = LockedIf(~ signOnDemand, transactionIds)
      /\ nodeAccountIds' = LockedIf(~ signOnDemand, nodeAccountIds)
  BY DEF SignWith
<1>4. /\ transactionIds' \in ListType(0..MaxId) /\ IdsKept
      /\ ~ signOnDemand => transactionIds'.locked
  BY <1>1, <1>3, ListLockedIf DEF IdsKept
<1>5. /\ nodeAccountIds' \in ListType(NodeId) /\ NodesKept
      /\ ~ signOnDemand => nodeAccountIds'.locked
  BY <1>1, <1>3, ListLockedIf DEF NodesKept
<1>6. SigningTyped'
  BY DEF SignWith, BeginSign, TxTyped, SigningTyped
<1>7. SettingsTyped' /\ ListsTyped' /\ LoopTyped'
  BY <1>2, <1>4, <1>5 DEF SignWith, TxTyped, SettingsTyped, ListsTyped, LoopTyped,
     settingVars, loopVars
<1> QED
  BY <1>2, <1>4, <1>5, <1>6, <1>7 DEF TxTyped, BothLocked

(* A signer that fails keeps the types. *)
LEMMA SignerFailsEffect ==
    ASSUME TxTyped, NEW k \in SignKey, SignerFails(k), UNCHANGED uses
    PROVE  TxTyped'
<1>1. /\ signing' \in [SignKey -> Nat] /\ pc' \in [Execution -> Places]
  BY DEF SignerFails, TxTyped, SigningTyped, LoopTyped, Places
<1> QED
  BY <1>1 DEF SignerFails, TxTyped, SettingsTyped, ListsTyped, SigningTyped, LoopTyped,
     settingVars, idVars

(* A toBytesAsync() that ends leaves the lists. *)
LEMMA BuildEndsEffect ==
    ASSUME TxTyped, UNCHANGED uses, BuildFails \/ BuildEnds
    PROVE  /\ TxTyped' /\ signedTransactions'.list = signedTransactions.list
           /\ transactions'.list = transactions.list
           /\ building'.left = 0 /\ building'.at = "idle"
<1>1. /\ signedTransactions \in ListType(Tx) /\ transactions \in ListType(Tx \cup {NoTx})
      /\ building \in [at : {"idle", "build"}, left : Nat, node : NodeId \cup {NoTx}]
  BY DEF TxTyped, ListsTyped, LoopTyped
<1>2. /\ signedTransactions' \in ListType(Tx) /\ transactions' \in ListType(Tx \cup {NoTx})
      /\ signedTransactions'.list = signedTransactions.list
      /\ transactions'.list = transactions.list
  BY <1>1, ListOps DEF BuildFails, BuildEnds
<1>3. /\ building' \in [at : {"idle", "build"}, left : Nat, node : NodeId \cup {NoTx}]
      /\ building'.left = 0 /\ building'.at = "idle"
  BY <1>1 DEF BuildFails, BuildEnds
<1>4. UNCHANGED <<settingVars, idVars, nodeAccountIds, signVars, loopVars>>
  BY DEF BuildFails, BuildEnds
<1> QED
  BY <1>2, <1>3, <1>4 DEF TxTyped, SettingsTyped, ListsTyped, SigningTyped, LoopTyped,
     settingVars, idVars, signVars, loopVars

(* The end of an execution keeps the types. *)
LEMMA EndsTyped ==
    ASSUME LoopTyped, NEW e \in Execution, Ends(e)
    PROVE  /\ pc' \in [Execution -> Places]
           /\ signer' \in [Execution -> SignKey \cup {NoKey}]
           /\ nodeId' \in [Execution -> NodeId \cup {NoTx}]
           /\ request' \in [Execution -> Tx \cup {NoTx}]
           /\ attempt' \in [Execution -> Nat]
  BY DEF Ends, LoopTyped, Places

(* The steps of an execution that leave the lists keep the types and the   *)
(* IDs.                                                                    *)
LEMMA LoopEffect ==
    ASSUME TxTyped, NEW e \in Execution, UNCHANGED uses,
           BeforeExecuted(e) \/ ExecuteFails(e) \/ Retried(e) \/ Answered(e)
    PROVE  TxTyped' /\ IdsKept
<1>1. CASE BeforeExecuted(e)
  BY <1>1 DEF BeforeExecuted, TxTyped, SettingsTyped, ListsTyped, SigningTyped, LoopTyped,
     settingVars, idVars, signVars, Places, IdsKept
<1>2. CASE ExecuteFails(e)
  BY <1>2, EndsTyped DEF ExecuteFails, TxTyped, SettingsTyped, ListsTyped, SigningTyped,
     LoopTyped, settingVars, idVars, signVars, IdsKept
<1>3. CASE Retried(e)
  BY <1>3 DEF Retried, TxTyped, SettingsTyped, ListsTyped, SigningTyped, LoopTyped,
     settingVars, idVars, signVars, Places, IdsKept
<1>4. CASE Answered(e)
  <2>1. transactionIds' \in ListType(0..MaxId) /\ IdsKept
    BY <1>4, ListOps DEF Answered, TxTyped, ListsTyped, IdsKept
  <2> QED
    BY <1>4, <2>1, EndsTyped DEF Answered, TxTyped, SettingsTyped, ListsTyped, SigningTyped,
       LoopTyped, settingVars, signVars
<1> QED
  BY <1>1, <1>2, <1>3, <1>4

(* A request that was made moves the nodes on by one and keeps its body;   *)
(* on demand it is signed now, by every key to sign with.                  *)
LEMMA MadeEffect ==
    ASSUME TxTyped, InRange, Requests, NEW e \in Execution, Made(e), UNCHANGED uses
    PROVE  /\ TxTyped' /\ nodeAccountIds' = Advanced(nodeAccountIds)
           /\ nodeAccountIds'.list = nodeAccountIds.list
           /\ nodeAccountIds'.locked = nodeAccountIds.locked
           /\ ~ IsEmpty(nodeAccountIds) => nodeAccountIds'.index \in DOMAIN nodeAccountIds.list
           /\ request'[e].node = request[e].node /\ request'[e].memo = request[e].memo
           /\ request'[e] \in Tx
           /\ request'[e].sigs = IF pc[e] = "onDemand" THEN publicKeys ELSE request[e].sigs
           /\ \A d \in Execution \ {e} : request'[d] = request[d] /\ pc'[d] = pc[d]
           /\ pc'[e] = "calling"
<1>1. /\ nodeAccountIds \in ListType(NodeId) /\ nodeAccountIds' = Advanced(nodeAccountIds)
      /\ request \in [Execution -> Tx \cup {NoTx}] /\ pc \in [Execution -> Places]
      /\ publicKeys \in SUBSET SignKey
  BY DEF Made, TxTyped, ListsTyped, LoopTyped, SigningTyped
<1>2. /\ nodeAccountIds' \in ListType(NodeId)
      /\ nodeAccountIds'.list = nodeAccountIds.list
      /\ nodeAccountIds'.locked = nodeAccountIds.locked
      /\ ~ IsEmpty(nodeAccountIds) => nodeAccountIds'.index \in DOMAIN nodeAccountIds.list
  BY <1>1, ListAdvanced
<1>3. request[e] \in Tx
  BY DEF Made, Requests, InFlight
<1> DEFINE r == [request[e] EXCEPT !.sigs =
                    IF pc[e] = "onDemand" THEN publicKeys ELSE request[e].sigs]
<1>4. /\ r \in Tx /\ r.node = request[e].node /\ r.memo = request[e].memo
      /\ r.sigs = IF pc[e] = "onDemand" THEN publicKeys ELSE request[e].sigs
  BY <1>1, <1>3 DEF Tx
<1>5. request' = [request EXCEPT ![e] = r]
  BY <1>1 DEF Made
<1> HIDE DEF r
<1>6. /\ request' \in [Execution -> Tx \cup {NoTx}] /\ request'[e] = r
      /\ \A d \in Execution \ {e} : request'[d] = request[d]
  BY <1>1, <1>4, <1>5
<1>7. /\ pc' \in [Execution -> Places] /\ pc'[e] = "calling"
      /\ \A d \in Execution \ {e} : pc'[d] = pc[d]
  BY <1>1 DEF Made, Places
<1>8. TxTyped'
  BY <1>2, <1>6, <1>7 DEF Made, TxTyped, SettingsTyped, ListsTyped, SigningTyped, LoopTyped,
     settingVars, idVars, signVars
<1> QED
  BY <1>1, <1>2, <1>4, <1>6, <1>7, <1>8

(* A transaction that toBytesAsync() builds on demand has the memo as it   *)
(* is now.                                                                 *)
LEMMA BuildNextEffect ==
    ASSUME TxTyped, InRange, BuildNext, UNCHANGED uses
    PROVE  /\ TxTyped'
           /\ nodeAccountIds'.list = nodeAccountIds.list
           /\ nodeAccountIds'.locked = nodeAccountIds.locked
           /\ \/ nodeAccountIds'.index = nodeAccountIds.index
              \/ nodeAccountIds'.index \in DOMAIN nodeAccountIds.list
           /\ building'.at = building.at
           /\ \A i \in DOMAIN transactions'.list :
                 \/ i \in DOMAIN transactions.list
                    /\ transactions'.list[i] = transactions.list[i]
                 \/ transactions'.list[i].memo = memo
<1>1. /\ nodeAccountIds \in ListType(NodeId) /\ transactions \in ListType(Tx \cup {NoTx})
      /\ building \in [at : {"idle", "build"}, left : Nat, node : NodeId \cup {NoTx}]
      /\ transactions.list \in Seq(Tx \cup {NoTx})
      /\ transactionIds.list \in Seq(0..MaxId)
  BY ListOps DEF TxTyped, ListsTyped, LoopTyped
<1>2. ~ IsEmpty(nodeAccountIds) /\ ~ IsEmpty(transactionIds) /\ building.left > 0
  BY DEF BuildNext, InRange
<1> DEFINE tx == Body(building.node, transactionIds.list[1], publicKeys)
<1>3. tx \in Tx /\ tx.memo = memo
  <2>1. transactionIds.list[1] \in 0..MaxId
    BY <1>1, <1>2, NonEmptySeq DEF IsEmpty
  <2> QED
    BY <1>1, <2>1 DEF Body, Tx, TxTyped, SettingsTyped, SigningTyped
<1>4. transactions' = [transactions EXCEPT !.list = Append(@, tx)]
  BY DEF BuildNext, Push
<1> HIDE DEF tx
<1>5. /\ transactions' \in ListType(Tx \cup {NoTx})
      /\ transactions'.list = Append(transactions.list, tx)
  <2> DEFINE T == Tx \cup {NoTx}
  <2>1. transactions.list \in Seq(T) /\ transactions \in ListType(T) /\ tx \in T
    BY <1>1, <1>3
  <2> HIDE DEF T
  <2>2. Append(transactions.list, tx) \in Seq(T)
    BY <2>1
  <2>3. transactions' \in ListType(T) /\ transactions'.list = Append(transactions.list, tx)
    BY <1>4, <2>1, <2>2 DEF ListType
  <2> QED
    BY <2>3 DEF T
<1>6. /\ Advanced(nodeAccountIds) \in ListType(NodeId)
      /\ Advanced(nodeAccountIds).list = nodeAccountIds.list
      /\ Advanced(nodeAccountIds).locked = nodeAccountIds.locked
      /\ Advanced(nodeAccountIds).index \in DOMAIN nodeAccountIds.list
  BY <1>1, <1>2, ListAdvanced
<1>7. Current(nodeAccountIds) \in NodeId
  <2>1. nodeAccountIds.list \in Seq(NodeId) /\ nodeAccountIds.index \in DOMAIN nodeAccountIds.list
    BY <1>1, <1>2, ListOps DEF InRange
  <2> QED
    BY <2>1 DEF Current
<1>8. /\ nodeAccountIds' \in ListType(NodeId)
      /\ nodeAccountIds'.list = nodeAccountIds.list
      /\ nodeAccountIds'.locked = nodeAccountIds.locked
      /\ \/ nodeAccountIds'.index = nodeAccountIds.index
         \/ nodeAccountIds'.index \in DOMAIN nodeAccountIds.list
  BY <1>1, <1>6 DEF BuildNext
<1>9. /\ building' \in [at : {"idle", "build"}, left : Nat, node : NodeId \cup {NoTx}]
      /\ building'.at = building.at
  <2>1. CASE building.left > 1
    <3>1. building' = [building EXCEPT !.left = @ - 1, !.node = Current(nodeAccountIds)]
      BY <2>1 DEF BuildNext
    <3> DEFINE b == [building EXCEPT !.left = @ - 1]
    <3>2. /\ b \in [at : {"idle", "build"}, left : Nat, node : NodeId \cup {NoTx}]
          /\ b.at = building.at
      BY <1>1, <2>1
    <3>3. building' = [b EXCEPT !.node = Current(nodeAccountIds)]
      BY <3>1, Zenon
    <3> HIDE DEF b
    <3> QED
      BY <1>7, <3>2, <3>3
  <2>2. CASE ~ building.left > 1
    <3>1. building' = [building EXCEPT !.left = 0, !.node = NoTx]
      BY <2>2 DEF BuildNext
    <3> DEFINE b == [building EXCEPT !.left = 0]
    <3>2. /\ b \in [at : {"idle", "build"}, left : Nat, node : NodeId \cup {NoTx}]
          /\ b.at = building.at
      BY <1>1
    <3>3. building' = [b EXCEPT !.node = NoTx]
      BY <3>1, Zenon
    <3> HIDE DEF b
    <3> QED
      BY <3>2, <3>3
  <2> QED
    BY <2>1, <2>2
<1>10. TxTyped'
  BY <1>5, <1>8, <1>9 DEF BuildNext, TxTyped, SettingsTyped, ListsTyped, SigningTyped,
     LoopTyped, settingVars, idVars, signVars, loopVars
<1>11. \A i \in DOMAIN transactions'.list :
         \/ i \in DOMAIN transactions.list /\ transactions'.list[i] = transactions.list[i]
         \/ transactions'.list[i].memo = memo
  BY <1>1, <1>3, <1>5
<1> QED
  BY <1>8, <1>9, <1>10, <1>11

(* A new ID replaces an expired one only where the IDs are not locked. *)
LEMMA RetriedExpiredEffect ==
    ASSUME TxTyped, NEW e \in Execution, RetriedExpired(e), UNCHANGED uses
    PROVE  /\ TxTyped' /\ (transactionIds.locked => IdsKept)
           /\ ~ IsEmpty(transactionIds) => ~ IsEmpty(transactionIds')
<1>1. /\ transactionIds \in ListType(0..MaxId) /\ lastId \in 0..MaxId /\ MaxId \in Nat
      /\ FALSE \in BOOLEAN
  BY BoundConstants DEF TxTyped, ListsTyped, SettingsTyped
<1>2. /\ transactionIds' \in ListType(0..MaxId) /\ lastId' \in 0..MaxId
      /\ transactionIds.locked => IdsKept
      /\ ~ IsEmpty(transactionIds) => ~ IsEmpty(transactionIds')
  <2>1. CASE transactionIds' = LockedIf(FALSE, transactionIds) /\ UNCHANGED lastId
    BY <1>1, <2>1, ListLockedIf DEF IsEmpty, IdsKept
  <2>2. CASE /\ ~ transactionIds.locked /\ lastId < MaxId /\ lastId' = lastId + 1
             /\ transactionIds' = LockedIf(FALSE, SetAt(transactionIds, 1, lastId + 1))
    <3>1. lastId + 1 \in 0..MaxId
      BY <1>1, <2>2
    <3> DEFINE ids == SetAt(transactionIds, 1, lastId + 1)
    <3>2. ids \in ListType(0..MaxId) /\ ~ IsEmpty(ids)
      BY <1>1, <3>1, ListSetAt DEF IsEmpty
    <3>3. transactionIds' = LockedIf(FALSE, ids)
      BY <2>2
    <3> HIDE DEF ids
    <3>4. /\ LockedIf(FALSE, ids) \in ListType(0..MaxId)
          /\ LockedIf(FALSE, ids).list = ids.list
      BY <1>1, <3>2, ListLockedIf
    <3>5. transactionIds' \in ListType(0..MaxId) /\ ~ IsEmpty(transactionIds')
      BY <3>2, <3>3, <3>4 DEF IsEmpty
    <3> QED
      BY <2>2, <3>1, <3>5
  <2> QED
    BY <2>1, <2>2 DEF RetriedExpired, BuildNewTransactionIdList
<1>3. LoopTyped'
  BY DEF RetriedExpired, TxTyped, LoopTyped, Places
<1> QED
  BY <1>2, <1>3 DEF RetriedExpired, TxTyped, SettingsTyped, ListsTyped, SigningTyped,
     settingVars, signVars

(* execute() signs with the operator, unless it has signed already. *)
Signs == operator' # NoKey /\ operator' \notin signerPublicKeys

(* The keys that have signed before execute(), once the transaction is     *)
(* frozen.                                                                 *)
Done == IF IsFrozen THEN completed ELSE {}

(* execute() freezes what is not frozen, with the locks of the signature   *)
(* it starts; then it waits for the operator to sign, or has its key among *)
(* those to sign with on demand, or signs nothing.                         *)
LEMMA ExecuteEffect ==
    ASSUME TxTyped, NEW e \in Execution, NEW c \in Client, Execute(e, c), UNCHANGED uses
    PROVE  /\ TxTyped'
           /\ \/ /\ IsFrozen /\ NodesKept /\ IdsKept
                 /\ UNCHANGED <<signOnDemand, signedTransactions>>
                 /\ operator' = IF operator = NoKey THEN c.operator ELSE operator
                 /\ operatorAccountId => operatorAccountId'
              \/ ~ IsFrozen /\ Freeze(c, Signs /\ ~ signOnDemand', {})
           /\ \/ /\ Signs /\ ~ signOnDemand' /\ BothLocked' /\ transactions'.list = <<>>
                 /\ signerPublicKeys' = signerPublicKeys \cup {operator'}
                 /\ signing' = [signing EXCEPT ![operator'] = 1]
                 /\ completed' = Done /\ UNCHANGED publicKeys
                 /\ pc' = [pc EXCEPT ![e] = "before"]
                 /\ signer' = [signer EXCEPT ![e] = operator']
              \/ /\ Signs /\ signOnDemand' /\ transactions'.list = <<>>
                 /\ signerPublicKeys' = signerPublicKeys \cup {operator'}
                 /\ completed' = Done \cup {operator'}
                 /\ publicKeys' = publicKeys \cup {operator'}
                 /\ UNCHANGED signing /\ pc' = [pc EXCEPT ![e] = "loop"]
              \/ /\ ~ Signs /\ completed' = Done
                 /\ UNCHANGED <<transactions, signerPublicKeys, publicKeys, signing>>
                 /\ pc' = [pc EXCEPT ![e] = "loop"]
<1> DEFINE lock == Signs /\ ~ signOnDemand'
<1>1. /\ transactionIds \in ListType(0..MaxId) /\ nodeAccountIds \in ListType(NodeId)
      /\ signedTransactions \in ListType(Tx) /\ transactions \in ListType(Tx \cup {NoTx})
      /\ lock \in BOOLEAN /\ {} \in SUBSET SignKey /\ c \in Client \cup {NoClient}
      /\ c.operator \in SignKey \cup {NoKey}
  BY ClientConstants DEF TxTyped, ListsTyped
<1>2. /\ UNCHANGED memo /\ UNCHANGED <<nodeId, request, expired, building>>
      /\ pc' = [pc EXCEPT ![e] = IF lock THEN "before" ELSE "loop"]
      /\ signer' = [signer EXCEPT ![e] = IF lock THEN operator' ELSE NoKey]
      /\ attempt' = [attempt EXCEPT ![e] = 1] /\ executes' = executes + 1
  BY DEF Execute, Signs
<1>3. /\ \/ /\ IsFrozen /\ NodesKept /\ IdsKept
            /\ UNCHANGED <<signOnDemand, signedTransactions>>
            /\ operator' = IF operator = NoKey THEN c.operator ELSE operator
            /\ operatorAccountId => operatorAccountId'
         \/ ~ IsFrozen /\ Freeze(c, lock, {})
      /\ nodeAccountIds' \in ListType(NodeId) /\ transactionIds' \in ListType(0..MaxId)
      /\ signedTransactions' \in ListType(Tx)
      /\ SettingsTyped'
      /\ lock => BothLocked'
  <2>1. CASE IsFrozen
    <3>1. /\ operator' = IF operator = NoKey THEN c.operator ELSE operator
          /\ operatorAccountId' = (operatorAccountId \/ c.operator # NoKey)
          /\ UNCHANGED <<signOnDemand, lastId, signedTransactions>>
          /\ transactionIds' = LockedIf(lock, transactionIds)
          /\ nodeAccountIds' = LockedIf(lock, nodeAccountIds)
      BY <2>1 DEF Execute, Signs
    <3> HIDE DEF lock
    <3>2. /\ nodeAccountIds' \in ListType(NodeId) /\ NodesKept
          /\ lock => nodeAccountIds'.locked
      BY <1>1, <3>1, ListLockedIf DEF NodesKept
    <3>3. /\ transactionIds' \in ListType(0..MaxId) /\ IdsKept
          /\ lock => transactionIds'.locked
      BY <1>1, <3>1, ListLockedIf DEF IdsKept
    <3>4. SettingsTyped'
      BY <1>1, <1>2, <3>1 DEF TxTyped, SettingsTyped
    <3>5. operatorAccountId => operatorAccountId'
      BY <3>1, Zenon
    <3> QED
      BY <1>1, <2>1, <3>1, <3>2, <3>3, <3>4, <3>5, Zenon DEF BothLocked
  <2>2. CASE ~ IsFrozen
    <3>1. Freeze(c, lock, {})
      BY <2>2 DEF Execute, Signs
    <3> HIDE DEF lock
    <3>2. /\ signOnDemand' \in BOOLEAN /\ operatorAccountId' \in BOOLEAN
          /\ operator' \in SignKey \cup {NoKey}
          /\ nodeAccountIds' \in ListType(NodeId)
          /\ nodeAccountIds'.locked <=> nodeAccountIds.locked \/ lock
          /\ transactionIds' \in ListType(0..MaxId) /\ lastId' \in 0..MaxId
          /\ transactionIds'.locked <=> transactionIds.locked \/ lock
          /\ signedTransactions' \in ListType(Tx)
      BY <1>1, <3>1, FreezeTyped
    <3> QED
      BY <1>2, <2>2, <3>1, <3>2 DEF BothLocked, TxTyped, SettingsTyped
  <2> QED
    BY <2>1, <2>2
<1>4. /\ operator' \in SignKey \cup {NoKey} /\ signOnDemand' \in BOOLEAN
      /\ Signs => operator' \in SignKey
  BY <1>3 DEF SettingsTyped, Signs
<1>5. Done \in SUBSET SignKey
  BY DEF Done, TxTyped, SigningTyped
<1>6. LoopTyped'
  BY <1>2, <1>4 DEF TxTyped, LoopTyped, Places
<1>7. CASE Signs
  <2>1. BeginSign(operator', Done)
    BY <1>7 DEF Execute, Signs, Done
  <2>2. transactions' \in ListType(Tx \cup {NoTx}) /\ transactions'.list = <<>>
    BY <1>1, <2>1, ListClear DEF BeginSign
  <2>3. /\ signerPublicKeys' = signerPublicKeys \cup {operator'}
        /\ \/ /\ signOnDemand' /\ publicKeys' = publicKeys \cup {operator'}
              /\ completed' = Done \cup {operator'} /\ UNCHANGED signing
           \/ /\ ~ signOnDemand' /\ signing' = [signing EXCEPT ![operator'] = 1]
              /\ completed' = Done /\ UNCHANGED publicKeys
    BY <2>1 DEF BeginSign
  <2>4. SigningTyped'
    BY <1>4, <1>5, <1>7, <2>3 DEF TxTyped, SigningTyped
  <2>5. TxTyped'
    BY <1>3, <1>6, <2>2, <2>4 DEF TxTyped, ListsTyped
  <2>6. CASE signOnDemand'
    <3>1. pc' = [pc EXCEPT ![e] = "loop"]
      BY <1>2, <2>6
    <3> QED
      BY <1>3, <1>7, <2>2, <2>3, <2>5, <2>6, <3>1, Zenon
  <2>7. CASE ~ signOnDemand'
    <3>1. /\ pc' = [pc EXCEPT ![e] = "before"] /\ signer' = [signer EXCEPT ![e] = operator']
          /\ BothLocked'
      BY <1>2, <1>3, <1>7, <2>7
    <3> QED
      BY <1>3, <1>7, <2>2, <2>3, <2>5, <2>7, <3>1, Zenon
  <2> QED
    BY <2>6, <2>7
<1>8. CASE ~ Signs
  <2>1. /\ completed' = Done
        /\ UNCHANGED <<transactions, signerPublicKeys, publicKeys, signing>>
    BY <1>8 DEF Execute, Signs, Done
  <2>2. pc' = [pc EXCEPT ![e] = "loop"]
    BY <1>2, <1>8
  <2>3. TxTyped'
    BY <1>3, <1>5, <1>6, <2>1 DEF TxTyped, ListsTyped, SigningTyped
  <2> QED
    BY <1>3, <1>8, <2>1, <2>2, <2>3, Zenon
<1> QED
  BY <1>7, <1>8

(* The node of an attempt is the current one of the list, which is         *)
(* replaced only where it is not locked.                                   *)
LEMMA AttemptNodesTyped ==
    ASSUME TxTyped, InRange, NEW n \in NodeId \cup {NoTx}, Chosen(n)
    PROVE  /\ AttemptNodes(n) \in ListType(NodeId)
           /\ AttemptNodes(n).locked = nodeAccountIds.locked
           /\ nodeAccountIds.locked => AttemptNodes(n) = nodeAccountIds
           /\ ~ nodeAccountIds.locked => AttemptNodes(n).list # <<>>
           /\ ~ IsEmpty(AttemptNodes(n)) =>
                 /\ AttemptNodes(n).index \in DOMAIN AttemptNodes(n).list
                 /\ n = Current(AttemptNodes(n))
<1>1. nodeAccountIds \in ListType(NodeId)
  BY DEF TxTyped, ListsTyped
<1>2. CASE nodeAccountIds.locked
  <2>1. AttemptNodes(n) = nodeAccountIds
    BY <1>2 DEF AttemptNodes
  <2> QED
    BY <1>1, <1>2, <2>1 DEF InRange, Chosen, CurrentOr
<1>3. CASE ~ nodeAccountIds.locked
  <2> DEFINE s == <<n>>
  <2>1. n \in NodeId
    BY <1>3 DEF Chosen
  <2>2. s \in Seq(NodeId) /\ s # <<>> /\ 1 \in DOMAIN s
    BY <2>1
  <2>3. AttemptNodes(n) = SetList(nodeAccountIds, s)
    BY <1>3 DEF AttemptNodes
  <2> HIDE DEF s
  <2>4. /\ AttemptNodes(n) \in ListType(NodeId) /\ AttemptNodes(n).list = s
        /\ AttemptNodes(n).index = 1
        /\ AttemptNodes(n).locked = nodeAccountIds.locked
    BY <1>1, <2>2, <2>3, ListSet
  <2>5. ~ IsEmpty(AttemptNodes(n))
    BY <2>2, <2>4 DEF IsEmpty
  <2>6. n = Current(AttemptNodes(n))
    BY <2>5 DEF Chosen, CurrentOr
  <2> QED
    BY <1>3, <2>2, <2>4, <2>6
<1> QED
  BY <1>2, <1>3

(* An attempt that throws may have replaced the nodes, where they are not  *)
(* locked.                                                                 *)
LEMMA AttemptThrowsEffect ==
    ASSUME TxTyped, InRange, NEW e \in Execution, AttemptThrows(e), UNCHANGED uses
    PROVE  /\ TxTyped' /\ nodeAccountIds'.locked = nodeAccountIds.locked
           /\ nodeAccountIds.locked => UNCHANGED nodeAccountIds
           /\ ~ nodeAccountIds.locked => ~ IsEmpty(nodeAccountIds')
           /\ ~ IsEmpty(nodeAccountIds') => nodeAccountIds'.index \in DOMAIN nodeAccountIds'.list
<1>1. PICK n \in NodeId \cup {NoTx} : Chosen(n) /\ nodeAccountIds' = AttemptNodes(n)
  BY DEF AttemptThrows
<1>2. /\ nodeAccountIds' \in ListType(NodeId)
      /\ nodeAccountIds'.locked = nodeAccountIds.locked
      /\ nodeAccountIds.locked => UNCHANGED nodeAccountIds
      /\ ~ nodeAccountIds.locked => ~ IsEmpty(nodeAccountIds')
      /\ ~ IsEmpty(nodeAccountIds') => nodeAccountIds'.index \in DOMAIN nodeAccountIds'.list
  BY <1>1, AttemptNodesTyped DEF IsEmpty
<1>3. LoopTyped'
  BY EndsTyped DEF AttemptThrows, TxTyped, LoopTyped
<1>4. TxTyped'
  BY <1>2, <1>3 DEF AttemptThrows, TxTyped, SettingsTyped, ListsTyped, SigningTyped,
     settingVars, idVars, signVars
<1> QED
  BY <1>2, <1>4

(* An attempt of what is signed at once has its nodes locked, and takes    *)
(* the transaction at the index of its node; on demand it makes the body   *)
(* for its node now.                                                       *)
LEMMA AttemptStep ==
    ASSUME TxTyped, InRange, NEW e \in Execution, Attempt(e), UNCHANGED uses,
           ~ signOnDemand /\ ~ IsEmpty(signedTransactions) => nodeAccountIds.locked
    PROVE  /\ TxTyped' /\ nodeAccountIds'.locked = nodeAccountIds.locked
           /\ nodeAccountIds.locked => nodeAccountIds'.list = nodeAccountIds.list
           /\ ~ nodeAccountIds.locked => signOnDemand /\ ~ IsEmpty(nodeAccountIds')
           /\ ~ IsEmpty(nodeAccountIds') => nodeAccountIds'.index \in DOMAIN nodeAccountIds'.list
           /\ \A d \in Execution \ {e} :
                 pc'[d] = pc[d] /\ request'[d] = request[d] /\ nodeId'[d] = nodeId[d]
           /\ request'[e] \in Tx
           /\ \/ /\ signOnDemand /\ UNCHANGED transactions /\ pc'[e] = "onDemand"
                 /\ request'[e].node = nodeId'[e] /\ request'[e].memo = memo
              \/ /\ ~ signOnDemand /\ UNCHANGED nodeAccountIds /\ pc'[e] = "making"
                 /\ nodeAccountIds.locked /\ ~ IsEmpty(nodeAccountIds)
                 /\ nodeId'[e] = Current(nodeAccountIds)
                 /\ nodeAccountIds.index \in DOMAIN signedTransactions.list
                 /\ nodeAccountIds.index \in DOMAIN transactions'.list
                 /\ request'[e] = transactions'.list[nodeAccountIds.index]
                 /\ \A j \in DOMAIN transactions'.list :
                      \/ /\ j # nodeAccountIds.index /\ transactions'.list[j] = NoTx
                         /\ j \in DOMAIN signedTransactions.list \cup DOMAIN transactions.list
                      \/ /\ j \in DOMAIN transactions.list
                         /\ transactions'.list[j] = transactions.list[j]
                         /\ transactions'.list[j] # NoTx
                      \/ /\ j = nodeAccountIds.index
                         /\ transactions'.list[j] = signedTransactions.list[j]
<1>1. PICK n \in NodeId \cup {NoTx} :
        /\ Chosen(n) /\ CanMake(AttemptNodes(n).index)
        /\ nodeId' = [nodeId EXCEPT ![e] = n]
        /\ \/ /\ signOnDemand
              /\ request' = [request EXCEPT ![e] = Body(n, transactionIds.list[1], {})]
              /\ nodeAccountIds' = Advanced(AttemptNodes(n))
              /\ pc' = [pc EXCEPT ![e] = "onDemand"]
              /\ UNCHANGED transactions
           \/ /\ ~ signOnDemand
              /\ transactions' = SetIfAbsent(Padded(AttemptNodes(n).index),
                     AttemptNodes(n).index, signedTransactions.list[AttemptNodes(n).index], NoTx)
              /\ request' = [request EXCEPT ![e] = transactions'.list[AttemptNodes(n).index]]
              /\ nodeAccountIds' = AttemptNodes(n)
              /\ pc' = [pc EXCEPT ![e] = "making"]
  BY Zenon DEF Attempt
<1>2. /\ AttemptNodes(n) \in ListType(NodeId)
      /\ AttemptNodes(n).locked = nodeAccountIds.locked
      /\ nodeAccountIds.locked => AttemptNodes(n) = nodeAccountIds
      /\ ~ nodeAccountIds.locked => AttemptNodes(n).list # <<>>
      /\ ~ IsEmpty(AttemptNodes(n)) =>
            /\ AttemptNodes(n).index \in DOMAIN AttemptNodes(n).list
            /\ n = Current(AttemptNodes(n))
  BY <1>1, AttemptNodesTyped
<1>3. /\ nodeId \in [Execution -> NodeId \cup {NoTx}] /\ pc \in [Execution -> Places]
      /\ request \in [Execution -> Tx \cup {NoTx}]
      /\ ListsTyped /\ memo \in Memos /\ signedTransactions.list \in Seq(Tx)
      /\ transactions.list \in Seq(Tx \cup {NoTx}) /\ transactionIds.list \in Seq(0..MaxId)
  BY ListOps DEF TxTyped, LoopTyped, ListsTyped, SettingsTyped
<1>4. /\ UNCHANGED <<settingVars, idVars, signedTransactions, signVars, building, signer,
                     attempt, executes, expired>>
  BY DEF Attempt
<1>5. CASE signOnDemand
  <2> DEFINE r == Body(n, transactionIds.list[1], {})
  <2>1. /\ request' = [request EXCEPT ![e] = r] /\ nodeAccountIds' = Advanced(AttemptNodes(n))
        /\ pc' = [pc EXCEPT ![e] = "onDemand"] /\ UNCHANGED transactions
    BY <1>1, <1>5
  <2>2. r \in Tx /\ r.node = n /\ r.memo = memo
    <3>1. transactionIds.list[1] \in 0..MaxId
      BY <1>1, <1>3, NonEmptySeq DEF CanMake, IsEmpty
    <3> QED
      BY <1>3, <3>1 DEF Body, Tx
  <2> HIDE DEF r
  <2>3. /\ nodeAccountIds' \in ListType(NodeId)
        /\ nodeAccountIds'.list = AttemptNodes(n).list
        /\ nodeAccountIds'.locked = nodeAccountIds.locked
        /\ ~ IsEmpty(nodeAccountIds') => nodeAccountIds'.index \in DOMAIN nodeAccountIds'.list
    BY <1>2, <2>1, ListAdvanced DEF IsEmpty
  <2>4. /\ request' \in [Execution -> Tx \cup {NoTx}] /\ request'[e] = r
        /\ pc' \in [Execution -> Places] /\ pc'[e] = "onDemand"
        /\ nodeId' \in [Execution -> NodeId \cup {NoTx}] /\ nodeId'[e] = n
        /\ \A d \in Execution \ {e} :
              pc'[d] = pc[d] /\ request'[d] = request[d] /\ nodeId'[d] = nodeId[d]
    BY <1>1, <1>3, <2>1, <2>2 DEF Places
  <2>5. TxTyped'
    BY <1>4, <2>1, <2>3, <2>4 DEF TxTyped, SettingsTyped, ListsTyped, SigningTyped,
       LoopTyped, settingVars, idVars, signVars
  <2> QED
    BY <1>2, <1>5, <2>1, <2>2, <2>3, <2>4, <2>5 DEF IsEmpty
<1>6. CASE ~ signOnDemand
  <2> DEFINE i == nodeAccountIds.index
  <2>1. CanMake(AttemptNodes(n).index) /\ AttemptNodes(n).index \in Nat \ {0}
    BY <1>1, <1>2, ListOps
  <2>2. AttemptNodes(n).index <= Len(signedTransactions.list)
    BY <1>6, <2>1 DEF CanMake
  <2>3. ~ IsEmpty(signedTransactions)
    BY <1>3, <2>1, <2>2 DEF IsEmpty
  <2>4. nodeAccountIds.locked /\ AttemptNodes(n) = nodeAccountIds /\ ~ IsEmpty(nodeAccountIds)
    BY <1>2, <1>6, <2>3 DEF InRange
  <2>5. /\ transactions' = SetIfAbsent(Padded(i), i, signedTransactions.list[i], NoTx)
        /\ request' = [request EXCEPT ![e] = transactions'.list[i]]
        /\ nodeAccountIds' = nodeAccountIds
        /\ pc' = [pc EXCEPT ![e] = "making"]
    BY <1>1, <1>6, <2>4
  <2>6. i \in Nat \ {0} /\ i <= Len(signedTransactions.list)
    BY <2>1, <2>2, <2>4
  <2> HIDE DEF i
  <2>7. /\ transactions' \in ListType(Tx \cup {NoTx})
        /\ i \in DOMAIN transactions'.list /\ i \in DOMAIN signedTransactions.list
        /\ \A j \in DOMAIN transactions'.list :
              \/ /\ j # i /\ transactions'.list[j] = NoTx
                 /\ j \in DOMAIN signedTransactions.list \cup DOMAIN transactions.list
              \/ /\ j \in DOMAIN transactions.list
                 /\ transactions'.list[j] = transactions.list[j]
                 /\ transactions'.list[j] # NoTx
              \/ j = i /\ transactions'.list[j] = signedTransactions.list[i]
    <3>1. PICK j, t : /\ j = i /\ t = transactions'
                      /\ j \in Nat \ {0} /\ j <= Len(signedTransactions.list)
                      /\ t = SetIfAbsent(Padded(j), j, signedTransactions.list[j], NoTx)
      BY <2>5, <2>6, Zenon
    <3>2. ListsTyped
      BY DEF TxTyped
    <3>3. /\ t \in ListType(Tx \cup {NoTx})
          /\ j \in DOMAIN t.list /\ j \in DOMAIN signedTransactions.list
      BY <3>1, <3>2, AttemptEffect
    <3>4. ASSUME NEW h \in DOMAIN t.list
          PROVE  \/ /\ h # j /\ t.list[h] = NoTx
                    /\ h \in DOMAIN signedTransactions.list \cup DOMAIN transactions.list
                 \/ /\ h \in DOMAIN transactions.list /\ t.list[h] = transactions.list[h]
                    /\ t.list[h] # NoTx
                 \/ h = j /\ t.list[h] = signedTransactions.list[j]
      BY <3>1, <3>2, AttemptEffect
    <3> QED
      BY <3>1, <3>3, <3>4, Zenon
  <2>8. transactions'.list[i] \in Tx
    BY <1>3, <2>7
  <2>9. /\ request' \in [Execution -> Tx \cup {NoTx}] /\ request'[e] = transactions'.list[i]
        /\ pc' \in [Execution -> Places] /\ pc'[e] = "making"
        /\ nodeId' \in [Execution -> NodeId \cup {NoTx}] /\ nodeId'[e] = n
        /\ \A d \in Execution \ {e} :
              pc'[d] = pc[d] /\ request'[d] = request[d] /\ nodeId'[d] = nodeId[d]
    BY <1>1, <1>3, <2>5, <2>8 DEF Places
  <2>10. TxTyped'
    BY <1>4, <2>5, <2>7, <2>9 DEF TxTyped, SettingsTyped, ListsTyped, SigningTyped,
       LoopTyped, settingVars, idVars, signVars
  <2>11. n = Current(nodeAccountIds) /\ nodeAccountIds.index \in DOMAIN nodeAccountIds.list
    BY <1>2, <2>4
  <2> QED
    <3>1. \A j \in DOMAIN transactions'.list :
             \/ /\ j # i /\ transactions'.list[j] = NoTx
                /\ j \in DOMAIN signedTransactions.list \cup DOMAIN transactions.list
             \/ /\ j \in DOMAIN transactions.list
                /\ transactions'.list[j] = transactions.list[j]
                /\ transactions'.list[j] # NoTx
             \/ j = i /\ transactions'.list[j] = signedTransactions.list[j]
      BY <2>7
    <3>2. /\ nodeAccountIds'.locked = nodeAccountIds.locked
          /\ nodeAccountIds'.list = nodeAccountIds.list
          /\ ~ IsEmpty(nodeAccountIds') =>
                nodeAccountIds'.index \in DOMAIN nodeAccountIds'.list
      BY <2>5, <2>11
    <3> QED
      BY <1>6, <2>4, <2>5, <2>7, <2>8, <2>9, <2>10, <2>11, <3>1, <3>2, Zenon DEF i
<1> QED
  BY <1>5, <1>6

------------------------------------------------------------------------------
(* The lists stay in line. *)

(* The inductive invariant of the lists. *)
ListsInv == InRange /\ Locks /\ Aligned /\ Built

(* What the application is does not change. *)
LEMMA OrderlyKept ==
    ASSUME UNCHANGED uses
    PROVE  /\ AtOnceOnly' = AtOnceOnly /\ OnDemandOnly' = OnDemandOnly /\ Orderly' = Orderly
           /\ Clients' = Clients
  BY DEF Clients, AtOnceOnly, OnDemandOnly, Orderly

(* A step that leaves the index of the nodes, or has it point at another   *)
(* node.                                                                   *)
IndexKept ==
    \/ nodeAccountIds'.index = nodeAccountIds.index
    \/ nodeAccountIds'.index \in DOMAIN nodeAccountIds.list

(* Signatures alone leave what is signed in line with the nodes. *)
LEMMA AlignedFrame ==
    ASSUME Aligned, UNCHANGED memo, SignedKept, IdsKept,
           nodeAccountIds'.list = nodeAccountIds.list
    PROVE  Aligned'
  BY DEF Aligned, SignedKept, IdsKept

(* Nor do they disturb what was built. *)
LEMMA BuiltFrame ==
    ASSUME Built, UNCHANGED <<memo, signOnDemand>>, SignedKept, BuiltKept
    PROVE  Built'
<1>1. CASE transactions'.list = <<>>
  BY <1>1 DEF Built
<1>2. CASE transactions'.list = transactions.list
  BY <1>2 DEF Built, SignedKept
<1> QED
  BY <1>1, <1>2 DEF BuiltKept

(* A step that only adds signatures leaves the list empty or not. *)
LEMMA EmptyKept ==
    ASSUME TxTyped, TxTyped', SignedKept
    PROVE  IsEmpty(signedTransactions') <=> IsEmpty(signedTransactions)
<1>1. signedTransactions.list \in Seq(Tx) /\ signedTransactions'.list \in Seq(Tx)
  BY ListOps DEF TxTyped, ListsTyped
<1> QED
  BY <1>1 DEF SignedKept, IsEmpty

(* The invariant of the lists survives every step that leaves nodes, IDs   *)
(* and bodies.                                                             *)
LEMMA ListsFrame ==
    ASSUME TxTyped, TxTyped', ListsInv, UNCHANGED <<uses, memo, signOnDemand>>,
           nodeAccountIds'.list = nodeAccountIds.list, IndexKept,
           nodeAccountIds.locked => nodeAccountIds'.locked,
           IdsKept, SignedKept, BuiltKept,
           signedTransactions'.locked => signedTransactions.locked \/ building.at # "idle",
           building'.left > 0 => building.left > 0 /\ building'.at = "build",
           building'.at # "idle" => building.at # "idle",
           AtOnceOnly /\ signerPublicKeys' # {} => signerPublicKeys # {} \/ BothLocked',
           signerPublicKeys \subseteq signerPublicKeys',
           AtOnceOnly =>
               \A e \in Execution : pc'[e] # "idle" => pc[e] # "idle" \/ signerPublicKeys' # {}
    PROVE  ListsInv'
<1>1. /\ IsEmpty(nodeAccountIds') <=> IsEmpty(nodeAccountIds)
      /\ IsEmpty(transactionIds') <=> IsEmpty(transactionIds)
      /\ IsEmpty(signedTransactions') <=> IsEmpty(signedTransactions)
      /\ ~ IsEmpty(transactions') => ~ IsEmpty(transactions)
      /\ BothLocked => BothLocked'
  BY EmptyKept DEF IdsKept, BuiltKept, BothLocked, IsEmpty
<1>2. /\ AtOnceOnly' = AtOnceOnly /\ OnDemandOnly' = OnDemandOnly
  BY OrderlyKept
<1>3. InRange'
  BY <1>1 DEF ListsInv, InRange, IndexKept
<1>4. ASSUME AtOnceOnly
      PROVE  /\ ~ signOnDemand' /\ building'.left = 0
             /\ \/ signerPublicKeys' # {} \/ ~ IsEmpty(transactions')
                \/ signedTransactions'.locked \/ building'.at # "idle"
                => BothLocked'
             /\ \A e \in Execution : pc'[e] # "idle" => signerPublicKeys' # {}
  <2>1. /\ ~ signOnDemand /\ building.left = 0
        /\ \/ signerPublicKeys # {} \/ ~ IsEmpty(transactions)
           \/ signedTransactions.locked \/ building.at # "idle"
           => BothLocked
        /\ \A e \in Execution : pc[e] # "idle" => signerPublicKeys # {}
    BY <1>4 DEF ListsInv, Locks
  <2>2. building'.left \in Nat
    BY DEF TxTyped, LoopTyped
  <2>3. building'.left = 0 /\ ~ signOnDemand'
    BY <2>1, <2>2
  <2>4. \/ signerPublicKeys' # {} \/ ~ IsEmpty(transactions')
        \/ signedTransactions'.locked \/ building'.at # "idle"
        => BothLocked'
    BY <1>1, <1>4, <2>1
  <2>5. \A e \in Execution : pc'[e] # "idle" => signerPublicKeys' # {}
    BY <1>4, <2>1
  <2> QED
    BY <2>3, <2>4, <2>5
<1>5. ASSUME OnDemandOnly
      PROVE  /\ ~ IsEmpty(signedTransactions') => BothLocked'
             /\ building'.left > 0 => signOnDemand'
  BY <1>1, <1>5 DEF ListsInv, Locks
<1>6. Locks'
  BY <1>2, <1>4, <1>5 DEF Locks
<1>7. Aligned' /\ Built'
  BY AlignedFrame, BuiltFrame DEF ListsInv
<1> QED
  BY <1>3, <1>6, <1>7 DEF ListsInv

(* The getters, the signers, the steps of an execution between its         *)
(* attempts and the end of toBytesAsync() are such steps.                  *)
LEMMA KeptStep ==
    ASSUME TxTyped, Orderly, ListsInv, Requests, UNCHANGED uses,
           \/ GetTransactionId \/ GetNodeAccountIds \/ BuildFails \/ BuildEnds
           \/ \E k \in uses.keys : SignWith(k) \/ Sign(k) \/ SignerFails(k)
           \/ \E e \in uses.executions : \/ BeforeExecuted(e) \/ ExecuteFails(e) \/ Retried(e)
                                         \/ Answered(e) \/ Made(e)
    PROVE  TxTyped' /\ ListsInv'
<1>1. uses.keys \subseteq SignKey /\ uses.executions \subseteq Execution
  BY UsesTyped
<1>2. CASE GetTransactionId
  <2>1. TxTyped' /\ IdsKept
    BY <1>2, SettersTyped
  <2>2. /\ UNCHANGED <<settingVars, nodeAccountIds, signedTransactions, transactions,
                       signVars, building, loopVars>>
    BY <1>2 DEF GetTransactionId
  <2>3. SignedKept /\ BuiltKept /\ IndexKept
    BY <2>2 DEF SignedKept, BuiltKept, IndexKept
  <2> QED
    BY <2>1, <2>2, <2>3, ListsFrame DEF settingVars, signVars, loopVars, ListsInv, InRange
<1>3. CASE GetNodeAccountIds
  <2>1. TxTyped' /\ NodesKept
    BY <1>3, SettersTyped
  <2>2. UNCHANGED <<settingVars, idVars, signedTransactions, transactions, signVars,
                    building, loopVars>>
    BY <1>3 DEF GetNodeAccountIds
  <2>3. SignedKept /\ BuiltKept /\ IndexKept /\ IdsKept
    BY <2>1, <2>2 DEF SignedKept, BuiltKept, IndexKept, NodesKept, IdsKept, idVars
  <2> QED
    BY <2>1, <2>2, <2>3, ListsFrame DEF settingVars, signVars, loopVars, NodesKept,
       ListsInv, InRange
<1>4. CASE BuildFails \/ BuildEnds
  <2>1. /\ TxTyped' /\ signedTransactions'.list = signedTransactions.list
        /\ transactions'.list = transactions.list
        /\ building'.left = 0 /\ building'.at = "idle"
    BY <1>4, BuildEndsEffect
  <2>2. /\ UNCHANGED <<settingVars, idVars, nodeAccountIds, signVars, loopVars>>
        /\ signedTransactions'.locked => signedTransactions.locked \/ building.at # "idle"
    BY <1>4 DEF BuildFails, BuildEnds
  <2>3. SignedKept /\ BuiltKept /\ IndexKept /\ IdsKept
    BY <2>1, <2>2 DEF SignedKept, BuiltKept, IndexKept, IdsKept, idVars
  <2> QED
    BY <2>1, <2>2, <2>3, ListsFrame DEF settingVars, signVars, loopVars
<1>5. ASSUME NEW k \in uses.keys, SignWith(k) PROVE TxTyped' /\ ListsInv'
  <2>1. /\ TxTyped' /\ NodesKept /\ IdsKept /\ transactions'.list = <<>>
        /\ ~ signOnDemand => BothLocked'
    BY <1>1, <1>5, SignWithEffect
  <2>2. /\ UNCHANGED <<settingVars, signedTransactions, building, loopVars>>
        /\ signerPublicKeys' = signerPublicKeys \cup {k}
    BY <1>5 DEF SignWith, BeginSign
  <2>3. SignedKept /\ BuiltKept /\ IndexKept
    BY <2>1, <2>2 DEF SignedKept, BuiltKept, IndexKept, NodesKept
  <2>4. AtOnceOnly => BothLocked'
    BY <2>1 DEF ListsInv, Locks
  <2> QED
    BY <2>1, <2>2, <2>3, <2>4, ListsFrame DEF settingVars, loopVars, NodesKept,
       ListsInv, InRange
<1>6. ASSUME NEW k \in uses.keys, Sign(k) PROVE TxTyped' /\ ListsInv'
  <2>1. /\ TxTyped' /\ SignedKept
        /\ signedTransactions'.locked = signedTransactions.locked
    BY <1>1, <1>6, SignEffect
  <2>2. UNCHANGED <<settingVars, idVars, nodeAccountIds, transactions, signerPublicKeys,
                    building, loopVars>>
    BY <1>6 DEF Sign
  <2>3. IdsKept /\ BuiltKept /\ IndexKept
    BY <2>2 DEF IdsKept, BuiltKept, IndexKept, idVars
  <2> QED
    BY <2>1, <2>2, <2>3, ListsFrame DEF settingVars, loopVars, ListsInv, InRange
<1>7. ASSUME NEW k \in uses.keys, SignerFails(k) PROVE TxTyped' /\ ListsInv'
  <2>1. TxTyped'
    BY <1>1, <1>7, SignerFailsEffect
  <2>2. /\ UNCHANGED <<settingVars, idVars, nodeAccountIds, signedTransactions, transactions,
                       signerPublicKeys, building>>
        /\ \A e \in Execution : pc'[e] # "idle" => pc[e] # "idle"
    BY <1>7 DEF SignerFails
  <2>3. IdsKept /\ BuiltKept /\ IndexKept /\ SignedKept
    BY <2>2 DEF IdsKept, BuiltKept, IndexKept, SignedKept, idVars
  <2> QED
    BY <2>1, <2>2, <2>3, ListsFrame DEF settingVars, ListsInv, InRange
<1>8. ASSUME NEW e \in uses.executions,
             BeforeExecuted(e) \/ ExecuteFails(e) \/ Retried(e) \/ Answered(e)
      PROVE  TxTyped' /\ ListsInv'
  <2>1. TxTyped' /\ IdsKept
    BY <1>1, <1>8, LoopEffect
  <2>2. /\ UNCHANGED <<settingVars, nodeAccountIds, signedTransactions, transactions,
                       signerPublicKeys, building>>
    BY <1>8 DEF BeforeExecuted, ExecuteFails, Retried, Answered, signVars
  <2>3. \A d \in Execution : pc'[d] # "idle" => pc[d] # "idle"
    BY <1>8 DEF BeforeExecuted, ExecuteFails, Retried, Answered, Ends, TxTyped, LoopTyped
  <2>4. BuiltKept /\ IndexKept /\ SignedKept
    BY <2>2 DEF BuiltKept, IndexKept, SignedKept
  <2> QED
    BY <2>1, <2>2, <2>3, <2>4, ListsFrame DEF settingVars, ListsInv, InRange
<1>9. ASSUME NEW e \in uses.executions, Made(e) PROVE TxTyped' /\ ListsInv'
  <2>0. e \in Execution /\ InRange
    BY <1>1 DEF ListsInv
  <2>1. /\ TxTyped' /\ nodeAccountIds' = Advanced(nodeAccountIds)
        /\ nodeAccountIds'.list = nodeAccountIds.list
        /\ nodeAccountIds'.locked = nodeAccountIds.locked
        /\ ~ IsEmpty(nodeAccountIds) => nodeAccountIds'.index \in DOMAIN nodeAccountIds.list
    BY <1>9, <2>0, MadeEffect
  <2>2. UNCHANGED <<settingVars, idVars, signedTransactions, transactions,
                    signerPublicKeys, building>>
    BY <1>9 DEF Made, signVars
  <2>3. \A d \in Execution : pc'[d] # "idle" => pc[d] # "idle"
    BY <1>9 DEF Made, TxTyped, LoopTyped
  <2>4. IdsKept /\ BuiltKept /\ SignedKept
    BY <2>2 DEF IdsKept, BuiltKept, SignedKept, idVars
  <2>5. IndexKept
    <3>1. CASE IsEmpty(nodeAccountIds)
      BY <2>1, <3>1 DEF Advanced, IndexKept
    <3>2. CASE ~ IsEmpty(nodeAccountIds)
      BY <2>1, <3>2 DEF IndexKept
    <3> QED
      BY <3>1, <3>2
  <2> QED
    BY <2>1, <2>2, <2>3, <2>4, <2>5, ListsFrame DEF settingVars, ListsInv, InRange
<1> QED
  BY <1>2, <1>3, <1>4, <1>5, <1>6, <1>7, <1>8, <1>9

(* A setter changes a list only while it is not locked and nothing is      *)
(* frozen.                                                                 *)
LEMMA SettersStep ==
    ASSUME TxTyped, Orderly, ListsInv, UNCHANGED uses,
           \/ \E m \in Memos : SetField(m)
           \/ SetTransactionId
           \/ \E nodes \in uses.nodes : SetNodeAccountIds(nodes)
    PROVE  TxTyped' /\ ListsInv'
<1> DEFINE Effect ==
           /\ ~ IsFrozen /\ TxTyped'
           /\ UNCHANGED <<signOnDemand, signedTransactions, transactions, signVars, building, pc>>
           /\ nodeAccountIds.locked => nodeAccountIds'.locked
           /\ transactionIds.locked => transactionIds'.locked
           /\ \/ NodesKept
              \/ ~ IsEmpty(nodeAccountIds') /\ nodeAccountIds'.index = 1
           /\ building.left > 0 => ~ IsEmpty(transactionIds')
<1>1. Effect
  <2>1. ASSUME NEW m \in Memos, SetField(m) PROVE Effect
    <3>1. TxTyped'
      BY <2>1, SettersTyped
    <3> QED
      BY <2>1, <3>1 DEF SetField, idVars, loopVars, NodesKept, ListsInv, InRange
  <2>2. ASSUME SetTransactionId PROVE Effect
    <3>1. TxTyped' /\ NodesKept
      BY <2>2, SettersTyped
    <3>2. AtOnceOnly => building.left = 0
      BY DEF ListsInv, Locks
    <3>3. OnDemandOnly => ~ building.left > 0
      BY <2>2 DEF ListsInv, Locks, SetTransactionId, IsFrozen
    <3> QED
      BY <2>2, <3>1, <3>2, <3>3 DEF SetTransactionId, settingVars, loopVars, NodesKept, Orderly
  <2>3. ASSUME NEW nodes \in uses.nodes, SetNodeAccountIds(nodes) PROVE Effect
    <3>1. /\ TxTyped' /\ ~ IsEmpty(nodeAccountIds') /\ nodeAccountIds'.index = 1
          /\ nodeAccountIds.locked => nodeAccountIds'.locked
      BY <2>3, SettersTyped
    <3> QED
      BY <2>3, <3>1 DEF SetNodeAccountIds, settingVars, idVars, loopVars, ListsInv, InRange
  <2> QED
    BY <2>1, <2>2, <2>3
<1>2. signedTransactions'.list = <<>> /\ transactions'.list = <<>>
  BY <1>1 DEF IsFrozen, IsEmpty
<1>3. Aligned' /\ Built'
  BY <1>2 DEF Aligned, Built
<1>4. nodeAccountIds'.list \in Seq(NodeId)
  BY <1>1, ListOps DEF TxTyped, ListsTyped
<1>5. InRange'
  <2>1. ~ IsEmpty(nodeAccountIds') => nodeAccountIds'.index \in DOMAIN nodeAccountIds'.list
    BY <1>1, <1>4, NonEmptySeq DEF NodesKept, IsEmpty, ListsInv, InRange
  <2>2. building'.left > 0 =>
          building'.at = "build" /\ ~ IsEmpty(nodeAccountIds') /\ ~ IsEmpty(transactionIds')
    BY <1>1 DEF NodesKept, IsEmpty, ListsInv, InRange
  <2> QED
    BY <1>2, <2>1, <2>2 DEF InRange, IsEmpty
<1>6. BothLocked => BothLocked'
  BY <1>1 DEF BothLocked
<1>7. Locks'
  BY <1>1, <1>2, <1>6, OrderlyKept DEF ListsInv, Locks, IsEmpty, signVars
<1> QED
  BY <1>1, <1>3, <1>5, <1>7 DEF ListsInv

(* Freezing puts what is signed in line with the nodes. *)
LEMMA FreezeLists ==
    ASSUME TxTyped, TxTyped', Orderly, ListsInv, UNCHANGED <<uses, memo>>,
           NEW c \in Client \cup {NoClient}, NEW lock \in BOOLEAN,
           NEW keys \in SUBSET SignKey, Freeze(c, lock, keys),
           AtOnceOnly => ~ signOnDemand',
           OnDemandOnly => signOnDemand' \/ (lock /\ IsEmpty(signedTransactions)),
           BuiltKept, ~ signOnDemand' /\ OnDemandOnly => transactions'.list = <<>>,
           UNCHANGED building
    PROVE  InRange' /\ Aligned' /\ Built'
<1>1. /\ ~ IsEmpty(nodeAccountIds')
      /\ ~ IsEmpty(nodeAccountIds) =>
            /\ nodeAccountIds'.list = nodeAccountIds.list
            /\ nodeAccountIds'.index = nodeAccountIds.index
      /\ IsEmpty(nodeAccountIds) => nodeAccountIds'.index = 1
      /\ transactionIds.locked => transactionIds'.list = transactionIds.list
      /\ ~ IsEmpty(transactionIds) => ~ IsEmpty(transactionIds')
      /\ Builds =>
            /\ ~ IsEmpty(transactionIds')
            /\ signedTransactions'.list =
                   [i \in DOMAIN nodeAccountIds'.list |->
                       Body(nodeAccountIds'.list[i], transactionIds'.list[1], keys)]
      /\ ~ Builds => signedTransactions'.list = signedTransactions.list
  BY FreezeTyped
<1>2. /\ nodeAccountIds.list \in Seq(NodeId) /\ nodeAccountIds'.list \in Seq(NodeId)
      /\ signedTransactions.list \in Seq(Tx) /\ transactions.list \in Seq(Tx \cup {NoTx})
      /\ signedTransactions'.list \in Seq(Tx)
  BY ListOps DEF TxTyped, ListsTyped
<1>3. InRange'
  <2>1. nodeAccountIds'.index \in DOMAIN nodeAccountIds'.list
    BY <1>1, <1>2, NonEmptySeq DEF ListsInv, InRange, IsEmpty
  <2>2. ~ IsEmpty(signedTransactions') => ~ IsEmpty(transactionIds')
    <3>1. CASE Builds
      BY <1>1, <3>1
    <3>2. CASE ~ Builds
      BY <1>1, <3>2 DEF ListsInv, InRange, IsEmpty
    <3> QED
      BY <3>1, <3>2
  <2> QED
    BY <1>1, <2>1, <2>2 DEF ListsInv, InRange
<1>4. ~ IsEmpty(transactions) /\ AtOnceOnly => transactionIds.locked
  BY DEF ListsInv, Locks, BothLocked
<1>5. ~ Builds /\ ~ IsEmpty(signedTransactions) => transactionIds.locked
  BY DEF ListsInv, Locks, BothLocked, Builds, Orderly
<1>6. Aligned'
  <2>1. CASE Builds
    BY <1>1, <2>1 DEF Aligned, Body
  <2>2. CASE ~ Builds
    <3> SUFFICES ASSUME NEW i \in DOMAIN signedTransactions'.list
                 PROVE  /\ i \in DOMAIN nodeAccountIds'.list
                        /\ signedTransactions'.list[i].node = nodeAccountIds'.list[i]
                        /\ signedTransactions'.list[i].id = transactionIds'.list[1]
                        /\ signedTransactions'.list[i].memo = memo'
      BY Zenon DEF Aligned
    <3>1. signedTransactions'.list = signedTransactions.list /\ ~ IsEmpty(signedTransactions)
      BY <1>1, <1>2, <2>2 DEF IsEmpty
    <3>2. /\ nodeAccountIds'.list = nodeAccountIds.list
          /\ transactionIds'.list = transactionIds.list
      BY <1>1, <1>5, <2>2, <3>1 DEF ListsInv, InRange
    <3> QED
      BY <3>1, <3>2 DEF ListsInv, Aligned
  <2> QED
    BY <2>1, <2>2
<1>7. Built'
  <2>1. CASE transactions'.list = <<>>
    BY <2>1 DEF Built
  <2>2. CASE transactions'.list = transactions.list /\ signOnDemand'
    BY <2>2 DEF Built, ListsInv
  <2>3. CASE /\ transactions'.list = transactions.list /\ transactions'.list # <<>>
             /\ ~ signOnDemand'
    <3>1. AtOnceOnly /\ ~ signOnDemand /\ transactionIds.locked
      BY <1>4, <2>3 DEF Orderly, ListsInv, Locks, IsEmpty
    <3> SUFFICES ASSUME NEW i \in DOMAIN transactions.list
                 PROVE  /\ i \in DOMAIN signedTransactions'.list
                        /\ transactions.list[i] # NoTx =>
                              /\ transactions.list[i].memo = memo
                              /\ transactions.list[i].node = signedTransactions'.list[i].node
                              /\ transactions.list[i].id = signedTransactions'.list[i].id
      BY <2>3 DEF Built
    <3>2. /\ i \in DOMAIN signedTransactions.list
          /\ transactions.list[i] # NoTx =>
                /\ transactions.list[i].memo = memo
                /\ transactions.list[i].node = signedTransactions.list[i].node
                /\ transactions.list[i].id = signedTransactions.list[i].id
      BY <3>1 DEF ListsInv, Built
    <3>3. /\ i \in DOMAIN nodeAccountIds.list
          /\ signedTransactions.list[i].node = nodeAccountIds.list[i]
          /\ signedTransactions.list[i].id = transactionIds.list[1]
      BY <3>2 DEF ListsInv, Aligned
    <3>4. /\ nodeAccountIds'.list = nodeAccountIds.list
          /\ transactionIds'.list = transactionIds.list
      BY <1>1, <1>2, <3>1, <3>3 DEF IsEmpty
    <3>5. CASE Builds
      <4>1. /\ i \in DOMAIN signedTransactions'.list
            /\ signedTransactions'.list[i].node = nodeAccountIds.list[i]
            /\ signedTransactions'.list[i].id = transactionIds.list[1]
        BY <1>1, <3>3, <3>4, <3>5 DEF Body
      <4> QED
        BY <3>2, <3>3, <4>1
    <3>6. CASE ~ Builds
      BY <1>1, <3>2, <3>6
    <3> QED
      BY <3>5, <3>6
  <2> QED
    BY <2>1, <2>2, <2>3 DEF BuiltKept
<1> QED
  BY <1>3, <1>6, <1>7

(* What is known of one client of an orderly application. *)
LEMMA ClientKinds ==
    ASSUME NEW c \in uses.freezeWith \cup uses.execute
    PROVE  /\ AtOnceOnly => c = NoClient \/ (~ c.signOnDemand /\ c.operator # NoKey)
           /\ OnDemandOnly /\ c # NoClient => c.signOnDemand
           /\ OnDemandOnly /\ c \in uses.freezeWith => c # NoClient
  BY DEF AtOnceOnly, OnDemandOnly, Clients

(* A client, or none, that an orderly application freezes with: addSignature() *)
(* freezes without one.                                                    *)
Freezer(c) == c \in uses.freezeWith \/ (c = NoClient /\ ~ OnDemandOnly)

(* freezeWith() keeps the invariant of the lists. *)
LEMMA FreezeWithStep ==
    ASSUME TxTyped, Orderly, ListsInv, UNCHANGED uses, NEW c, Freezer(c), FreezeWith(c)
    PROVE  TxTyped' /\ ListsInv'
<1>1. c \in Client \cup {NoClient} /\ FALSE \in BOOLEAN /\ {} \in SUBSET SignKey
  BY UsesTyped DEF Freezer
<1>2. TxTyped' /\ Freeze(c, FALSE, {})
  BY <1>1, FreezeWithEffect
<1>3. /\ UNCHANGED <<memo, transactions, signerPublicKeys, building, loopVars>>
      /\ signOnDemand' = (c # NoClient /\ c.signOnDemand)
  BY <1>2 DEF FreezeWith, Freeze, FreezeSettings
<1>4. (AtOnceOnly => ~ signOnDemand') /\ (OnDemandOnly => signOnDemand')
  BY <1>3, ClientKinds DEF Freezer
<1>5. BuiltKept
  BY <1>3 DEF BuiltKept
<1>6. InRange' /\ Aligned' /\ Built'
  BY <1>1, <1>2, <1>3, <1>4, <1>5, FreezeLists
<1>7. /\ nodeAccountIds'.locked <=> nodeAccountIds.locked
      /\ transactionIds'.locked <=> transactionIds.locked
      /\ signedTransactions'.locked <=> signedTransactions.locked
      /\ ~ Builds => signedTransactions'.list = signedTransactions.list
  BY <1>1, <1>2, FreezeTyped
<1>8. Locks'
  <2>1. BothLocked' <=> BothLocked
    BY <1>7 DEF BothLocked
  <2>2. AtOnceOnly => /\ ~ signOnDemand' /\ building'.left = 0
                      /\ \/ signerPublicKeys' # {} \/ ~ IsEmpty(transactions')
                         \/ signedTransactions'.locked \/ building'.at # "idle"
                         => BothLocked'
                      /\ \A e \in Execution : pc'[e] # "idle" => signerPublicKeys' # {}
    BY <1>3, <1>4, <1>7, <2>1 DEF ListsInv, Locks, loopVars
  <2>3. OnDemandOnly => /\ ~ IsEmpty(signedTransactions') => BothLocked'
                        /\ building'.left > 0 => signOnDemand'
    BY <1>4, <1>7, <2>1 DEF ListsInv, Locks, IsEmpty, Builds
  <2> QED
    BY <2>2, <2>3, OrderlyKept DEF Locks
<1> QED
  BY <1>2, <1>6, <1>8 DEF ListsInv

(* So does one that throws, also without a client when nothing is signed. *)
LEMMA FreezeWithThrowsStep ==
    ASSUME TxTyped, Orderly, ListsInv, Backed, UNCHANGED uses, NEW c,
           Freezer(c) \/ (c = NoClient /\ IsEmpty(signedTransactions)),
           FreezeWithThrows(c)
    PROVE  TxTyped' /\ ListsInv'
<1>1. c \in Client \cup {NoClient}
  BY UsesTyped DEF Freezer
<1>2. /\ TxTyped'
      /\ \/ NodesKept
         \/ /\ IsEmpty(nodeAccountIds) /\ ~ IsEmpty(nodeAccountIds')
            /\ nodeAccountIds'.index = 1
      /\ nodeAccountIds'.locked <=> nodeAccountIds.locked
  BY <1>1, FreezeWithThrowsEffect
<1>3. /\ UNCHANGED <<memo, idVars, signedTransactions, transactions, signVars, building,
                     loopVars>>
      /\ signOnDemand' = (c # NoClient /\ c.signOnDemand)
  BY DEF FreezeWithThrows, FreezeSettings
<1>4. /\ AtOnceOnly => ~ signOnDemand'
      /\ OnDemandOnly => signOnDemand' \/ (IsEmpty(transactions) /\ ~ building.left > 0)
  BY <1>3, ClientKinds DEF Freezer, Backed
<1>5. nodeAccountIds'.list \in Seq(NodeId) /\ signedTransactions.list \in Seq(Tx)
  BY <1>2, ListOps DEF TxTyped, ListsTyped
<1>6. InRange'
  <2>1. ~ IsEmpty(nodeAccountIds') => nodeAccountIds'.index \in DOMAIN nodeAccountIds'.list
    BY <1>2, <1>5, NonEmptySeq DEF NodesKept, IsEmpty, ListsInv, InRange
  <2> QED
    BY <1>2, <1>3, <2>1 DEF ListsInv, InRange, NodesKept, IsEmpty, idVars
<1>7. Aligned'
  <2>1. ~ IsEmpty(signedTransactions) => nodeAccountIds'.list = nodeAccountIds.list
    BY <1>2 DEF NodesKept, ListsInv, InRange
  <2>2. \A i \in DOMAIN signedTransactions.list : ~ IsEmpty(signedTransactions)
    BY <1>5 DEF IsEmpty
  <2> QED
    BY <1>3, <2>1, <2>2 DEF ListsInv, Aligned, idVars
<1>8. Built'
  <2>1. CASE ~ signOnDemand \/ signOnDemand'
    BY <1>3, <2>1 DEF ListsInv, Built
  <2>2. CASE IsEmpty(transactions)
    BY <1>3, <2>2 DEF Built, IsEmpty
  <2> QED
    BY <1>4, <2>1, <2>2 DEF ListsInv, Locks, Orderly
<1>9. Locks'
  <2>1. BothLocked' <=> BothLocked
    BY <1>2, <1>3 DEF BothLocked, idVars
  <2> QED
    BY <1>3, <1>4, <2>1, OrderlyKept DEF ListsInv, Locks, signVars, loopVars
<1> QED
  BY <1>2, <1>6, <1>7, <1>8, <1>9 DEF ListsInv

(* addSignature() of a new key keeps the invariant of the lists. *)
LEMMA AddNewSignatureStep ==
    ASSUME TxTyped, Orderly, ListsInv, UNCHANGED uses, NEW k \in uses.keys, AddNewSignature(k)
    PROVE  TxTyped' /\ ListsInv'
<1>1. k \in SignKey
  BY UsesTyped
<1>2. /\ TxTyped' /\ transactions'.list = <<>>
      /\ \/ IsEmpty(signedTransactions) /\ Freeze(NoClient, TRUE, {k})
         \/ /\ ~ IsEmpty(signedTransactions) /\ UNCHANGED settingVars
            /\ NodesKept /\ IdsKept /\ SignedKept /\ BothLocked'
  BY <1>1, AddNewSignatureEffect
<1>3. /\ UNCHANGED <<memo, publicKeys, signing, building, loopVars>>
      /\ signerPublicKeys' = signerPublicKeys \cup {k} /\ MayCall
  BY DEF AddNewSignature, settingVars
<1>4. CASE IsEmpty(signedTransactions) /\ Freeze(NoClient, TRUE, {k})
  <2>1. NoClient \in Client \cup {NoClient} /\ TRUE \in BOOLEAN /\ {k} \in SUBSET SignKey
    BY <1>1
  <2>2. ~ signOnDemand'
    BY <1>4 DEF Freeze, FreezeSettings
  <2>3. BuiltKept
    BY <1>2 DEF BuiltKept
  <2>4. InRange' /\ Aligned' /\ Built'
    BY <1>2, <1>3, <1>4, <2>1, <2>2, <2>3, FreezeLists
  <2>5. BothLocked'
    <3>1. /\ nodeAccountIds'.locked <=> nodeAccountIds.locked \/ TRUE
          /\ transactionIds'.locked <=> transactionIds.locked \/ TRUE
      BY <1>4, <2>1, FreezeTyped
    <3> QED
      BY <3>1 DEF BothLocked
  <2>6. OnDemandOnly => ~ building.left > 0
    BY <1>3 DEF OnDemandOnly, MayCall, Quiet, ListsInv, InRange
  <2>7. Locks'
    BY <1>1, <1>3, <2>2, <2>5, <2>6, OrderlyKept DEF ListsInv, Locks, loopVars
  <2> QED
    BY <1>2, <2>4, <2>7 DEF ListsInv
<1>5. CASE /\ ~ IsEmpty(signedTransactions) /\ UNCHANGED settingVars
           /\ NodesKept /\ IdsKept /\ SignedKept /\ BothLocked'
  <2>1. BuiltKept /\ IndexKept
    BY <1>2, <1>5 DEF BuiltKept, IndexKept, NodesKept
  <2>2. InRange' /\ Aligned' /\ Built'
    <3>1. Aligned' /\ Built'
      BY <1>5, <2>1, AlignedFrame, BuiltFrame DEF ListsInv, NodesKept, settingVars
    <3>2. InRange'
      BY <1>2, <1>3, <1>5, EmptyKept DEF ListsInv, InRange, NodesKept, IdsKept, IsEmpty
    <3> QED
      BY <3>1, <3>2
  <2>3. Locks'
    BY <1>1, <1>3, <1>5, OrderlyKept DEF ListsInv, Locks, loopVars, settingVars
  <2> QED
    BY <1>2, <2>2, <2>3 DEF ListsInv
<1> QED
  BY <1>2, <1>4, <1>5

(* addSignature() signs with a new key; or it only freezes what has nothing *)
(* signed, and that may throw.                                             *)
LEMMA AddSignatureCases ==
    ASSUME NEW k, AddSignature(k)
    PROVE  \/ AddNewSignature(k)
           \/ IsEmpty(signedTransactions) /\ FreezeWithThrows(NoClient)
           \/ IsEmpty(signedTransactions) /\ FreezeWith(NoClient) /\ Freezer(NoClient)
  BY DEF AddSignature, Freezer, OnDemandOnly

(* addSignature() keeps the invariant of the lists. *)
LEMMA AddSignatureStep ==
    ASSUME TxTyped, Orderly, ListsInv, Backed, UNCHANGED uses,
           NEW k \in uses.keys, AddSignature(k)
    PROVE  TxTyped' /\ ListsInv'
<1>1. CASE AddNewSignature(k)
  BY <1>1, AddNewSignatureStep
<1>2. CASE IsEmpty(signedTransactions) /\ FreezeWithThrows(NoClient)
  BY <1>2, FreezeWithThrowsStep
<1>3. CASE FreezeWith(NoClient) /\ Freezer(NoClient)
  BY <1>3, FreezeWithStep
<1> QED
  BY <1>1, <1>2, <1>3, AddSignatureCases

(* Building everything keeps to what is signed. *)
LEMMA BuiltAllBuilt ==
    ASSUME TxTyped, Built, Aligned, ~ signOnDemand,
           UNCHANGED <<memo, signOnDemand, signedTransactions>>,
           DOMAIN transactions.list \subseteq DOMAIN signedTransactions.list,
           transactions'.list = BuiltAll
    PROVE  Built'
<1>1. /\ DOMAIN transactions'.list = DOMAIN signedTransactions.list
      /\ \A i \in DOMAIN transactions'.list :
            \/ /\ i \in DOMAIN transactions.list /\ transactions.list[i] # NoTx
               /\ transactions'.list[i] = transactions.list[i]
            \/ transactions'.list[i] = signedTransactions.list[i]
  <2>1. /\ DOMAIN BuiltAll = DOMAIN signedTransactions.list
        /\ \A i \in DOMAIN BuiltAll :
              \/ /\ i \in DOMAIN transactions.list /\ transactions.list[i] # NoTx
                 /\ BuiltAll[i] = transactions.list[i]
              \/ BuiltAll[i] = signedTransactions.list[i]
    BY BuiltAllEffect DEF TxTyped
  <2> QED
    BY <2>1, Zenon
<1> QED
  BY <1>1 DEF Built, Aligned

(* toBytes() keeps the invariant of the lists. *)
LEMMA ToBytesStep ==
    ASSUME TxTyped, Orderly, ListsInv, UNCHANGED uses, ToBytes
    PROVE  TxTyped' /\ ListsInv'
<1>1. /\ TxTyped' /\ NodesKept /\ IdsKept /\ BothLocked' /\ transactions'.list = BuiltAll
      /\ DOMAIN transactions.list \subseteq DOMAIN signedTransactions.list
  BY ToBytesEffect DEF ListsInv
<1>2. /\ UNCHANGED <<settingVars, signedTransactions, signVars, building, loopVars>>
      /\ ~ signOnDemand
  BY DEF ToBytes
<1>3. SignedKept
  BY <1>2 DEF SignedKept
<1>4. Aligned' /\ Built'
  <2>1. Built'
    BY <1>1, <1>2, BuiltAllBuilt DEF ListsInv, settingVars
  <2> QED
    BY <1>1, <1>2, <1>3, <2>1, AlignedFrame DEF ListsInv, NodesKept, settingVars
<1>5. InRange'
  BY <1>1, <1>2 DEF ListsInv, InRange, NodesKept, IdsKept, IsEmpty
<1>6. Locks'
  BY <1>1, <1>2, OrderlyKept DEF ListsInv, Locks, signVars, loopVars, settingVars
<1> QED
  BY <1>1, <1>4, <1>5, <1>6 DEF ListsInv

(* toBytesAsync() keeps the invariant of the lists. *)
LEMMA ToBytesAsyncStep ==
    ASSUME TxTyped, Orderly, ListsInv, UNCHANGED uses, ToBytesAsync
    PROVE  TxTyped' /\ ListsInv'
<1> DEFINE list == [i \in DOMAIN nodeAccountIds.list |->
                       Body(nodeAccountIds.list[i], transactionIds.list[1], {})]
<1>1. /\ TxTyped' /\ IdsKept /\ BothLocked'
      /\ nodeAccountIds'.list = nodeAccountIds.list
      /\ \/ nodeAccountIds'.index = nodeAccountIds.index
         \/ nodeAccountIds'.index \in DOMAIN nodeAccountIds.list
      /\ \/ /\ ~ signOnDemand /\ transactions'.list = BuiltAll
            /\ DOMAIN transactions.list \subseteq DOMAIN signedTransactions.list
            /\ building'.left = 0 /\ UNCHANGED signedTransactions
         \/ /\ signOnDemand /\ UNCHANGED transactions
            /\ building'.left > 0 =>
                  ~ IsEmpty(signedTransactions') /\ building'.at = "build"
            /\ \/ UNCHANGED signedTransactions
               \/ /\ signedTransactions'.list = list
                  /\ nodeAccountIds.list # <<>> => transactionIds.list # <<>>
  BY ToBytesAsyncEffect DEF ListsInv
<1>2. UNCHANGED <<settingVars, signVars, loopVars>>
  BY DEF ToBytesAsync
<1>3. nodeAccountIds.list \in Seq(NodeId)
  BY ListOps DEF TxTyped, ListsTyped
<1>4. CASE UNCHANGED signedTransactions
  <2>1. SignedKept
    BY <1>4 DEF SignedKept
  <2>2. Aligned'
    BY <1>1, <1>2, <2>1, AlignedFrame DEF ListsInv, settingVars
  <2>3. InRange'
    BY <1>1, <1>4 DEF ListsInv, InRange, IdsKept, IsEmpty
  <2>4. Built'
    <3>1. CASE ~ signOnDemand
      BY <1>1, <1>2, <1>4, <3>1, BuiltAllBuilt DEF ListsInv, settingVars
    <3>2. CASE signOnDemand
      BY <1>1, <1>2, <1>4, <3>2 DEF ListsInv, Built, settingVars
    <3> QED
      BY <3>1, <3>2
  <2> QED
    BY <2>2, <2>3, <2>4, <1>1, <1>2, OrderlyKept DEF ListsInv, Locks, signVars, loopVars,
       settingVars
<1>5. CASE /\ signOnDemand /\ UNCHANGED transactions
           /\ building'.left > 0 => ~ IsEmpty(signedTransactions') /\ building'.at = "build"
           /\ signedTransactions'.list = list
           /\ nodeAccountIds.list # <<>> => transactionIds.list # <<>>
  <2>1. Aligned'
    BY <1>1, <1>2, <1>5 DEF Aligned, Body, IdsKept, settingVars
  <2>2. list # <<>> => nodeAccountIds.list # <<>>
    BY <1>3
  <2>3. InRange'
    BY <1>1, <1>5, <2>2 DEF ListsInv, InRange, IdsKept, IsEmpty
  <2>4. Built'
    BY <1>2, <1>5 DEF ListsInv, Built, settingVars
  <2>5. ~ AtOnceOnly
    BY <1>5 DEF ListsInv, Locks
  <2> QED
    BY <2>1, <2>3, <2>4, <2>5, <1>1, <1>2, <1>5, OrderlyKept DEF ListsInv, Locks, settingVars
<1> QED
  BY <1>1, <1>4, <1>5

(* Each of its steps does too. *)
LEMMA BuildNextStep ==
    ASSUME TxTyped, Orderly, ListsInv, UNCHANGED uses, BuildNext
    PROVE  TxTyped' /\ ListsInv'
<1>1. /\ TxTyped' /\ nodeAccountIds'.list = nodeAccountIds.list
      /\ nodeAccountIds'.locked = nodeAccountIds.locked
      /\ \/ nodeAccountIds'.index = nodeAccountIds.index
         \/ nodeAccountIds'.index \in DOMAIN nodeAccountIds.list
      /\ building'.at = building.at
      /\ \A i \in DOMAIN transactions'.list :
            \/ i \in DOMAIN transactions.list
               /\ transactions'.list[i] = transactions.list[i]
            \/ transactions'.list[i].memo = memo
  BY BuildNextEffect DEF ListsInv
<1>2. UNCHANGED <<settingVars, idVars, signedTransactions>> /\ building.left > 0
  BY DEF BuildNext
<1>3. ~ AtOnceOnly /\ OnDemandOnly /\ signOnDemand
  BY <1>2 DEF ListsInv, Locks, Orderly
<1>4. InRange'
  BY <1>1, <1>2 DEF ListsInv, InRange, IsEmpty, idVars
<1>5. Aligned'
  BY <1>1, <1>2 DEF ListsInv, Aligned, idVars, settingVars
<1>6. Built'
  BY <1>1, <1>2, <1>3 DEF ListsInv, Built, settingVars
<1>7. Locks'
  BY <1>1, <1>2, <1>3, OrderlyKept DEF ListsInv, Locks, BothLocked, idVars, settingVars
<1> QED
  BY <1>1, <1>4, <1>5, <1>6, <1>7 DEF ListsInv

(* execute() keeps the invariant of the lists. *)
LEMMA ExecuteStep ==
    ASSUME TxTyped, Orderly, ListsInv, UNCHANGED uses, NEW e \in uses.executions,
           NEW c \in uses.execute, Execute(e, c)
    PROVE  TxTyped' /\ ListsInv'
<1>1. e \in Execution /\ c \in Client /\ c # NoClient /\ c \in Client \cup {NoClient}
  BY UsesTyped, ClientConstants
<1>2. /\ TxTyped'
      /\ \/ /\ IsFrozen /\ NodesKept /\ IdsKept
            /\ UNCHANGED <<signOnDemand, signedTransactions>>
            /\ operator' = IF operator = NoKey THEN c.operator ELSE operator
         \/ ~ IsFrozen /\ Freeze(c, Signs /\ ~ signOnDemand', {})
  BY <1>1, ExecuteEffect
<1>3. /\ signerPublicKeys' = signerPublicKeys \cup {operator'} \/ UNCHANGED signerPublicKeys
      /\ Signs => operator' \in signerPublicKeys'
      /\ ~ Signs => UNCHANGED signerPublicKeys
      /\ Signs /\ ~ signOnDemand' => BothLocked'
      /\ transactions'.list = <<>> \/ UNCHANGED transactions
  BY <1>1, ExecuteEffect
<1>4. UNCHANGED <<memo, building>>
  BY DEF Execute
<1>5. \A d \in Execution \ {e} : pc'[d] = pc[d]
  BY DEF Execute, TxTyped, LoopTyped
<1>6. BuiltKept
  BY <1>3 DEF BuiltKept
<1>7. signerPublicKeys \subseteq signerPublicKeys'
  BY <1>3
<1>8. operator' # NoKey => signerPublicKeys' # {}
  BY <1>3 DEF Signs
<1>9. /\ AtOnceOnly => ~ c.signOnDemand /\ c.operator # NoKey
      /\ OnDemandOnly => c.signOnDemand
  BY <1>1, ClientKinds
<1>10. CASE /\ IsFrozen /\ NodesKept /\ IdsKept
            /\ UNCHANGED <<signOnDemand, signedTransactions>>
            /\ operator' = IF operator = NoKey THEN c.operator ELSE operator
  <2>1. SignedKept /\ IndexKept
    BY <1>10 DEF SignedKept, IndexKept, NodesKept
  <2>2. AtOnceOnly => operator' # NoKey /\ ~ signOnDemand'
    BY <1>9, <1>10 DEF ListsInv, Locks
  <2>3. AtOnceOnly /\ signerPublicKeys' # {} => signerPublicKeys # {} \/ BothLocked'
    BY <1>3, <2>2
  <2>4. building'.left > 0 => building.left > 0 /\ building'.at = "build"
    BY <1>4 DEF ListsInv, InRange
  <2> QED
    BY <1>2, <1>4, <1>5, <1>6, <1>7, <1>8, <1>10, <2>1, <2>2, <2>3, <2>4, ListsFrame
       DEF NodesKept
<1>11. CASE ~ IsFrozen /\ Freeze(c, Signs /\ ~ signOnDemand', {})
  <2>1. (Signs /\ ~ signOnDemand') \in BOOLEAN /\ {} \in SUBSET SignKey
    OBVIOUS
  <2>2. (signOnDemand' <=> c.signOnDemand) /\ operator' = c.operator
    BY <1>1, <1>11 DEF Freeze, FreezeSettings
  <2>3. (AtOnceOnly => ~ signOnDemand') /\ (OnDemandOnly => signOnDemand')
    BY <1>9, <2>2
  <2>4. InRange' /\ Aligned' /\ Built'
    BY <1>1, <1>2, <1>4, <1>6, <1>11, <2>1, <2>3, FreezeLists
  <2>5. /\ nodeAccountIds'.locked <=> nodeAccountIds.locked \/ (Signs /\ ~ signOnDemand')
        /\ transactionIds'.locked <=> transactionIds.locked \/ (Signs /\ ~ signOnDemand')
        /\ signedTransactions'.locked <=> signedTransactions.locked \/ {} # {}
        /\ ~ Builds => signedTransactions'.list = signedTransactions.list
    BY <1>1, <1>11, <2>1, FreezeTyped
  <2>6. BothLocked => BothLocked'
    BY <2>5 DEF BothLocked
  <2>7. AtOnceOnly => /\ ~ signOnDemand' /\ building'.left = 0
                      /\ \/ signerPublicKeys' # {} \/ ~ IsEmpty(transactions')
                         \/ signedTransactions'.locked \/ building'.at # "idle"
                         => BothLocked'
                      /\ \A d \in Execution : pc'[d] # "idle" => signerPublicKeys' # {}
    <3> SUFFICES ASSUME AtOnceOnly
                 PROVE  /\ ~ signOnDemand' /\ building'.left = 0 /\ BothLocked'
                        /\ signerPublicKeys' # {}
      OBVIOUS
    <3>1. ~ signOnDemand' /\ signerPublicKeys' # {}
      BY <1>8, <1>9, <2>2
    <3>2. CASE Signs
      BY <1>3, <1>4, <3>1, <3>2 DEF ListsInv, Locks
    <3>3. CASE ~ Signs
      BY <1>3, <1>4, <2>6, <3>1, <3>3 DEF ListsInv, Locks
    <3> QED
      BY <3>2, <3>3
  <2>8. OnDemandOnly => /\ ~ IsEmpty(signedTransactions') => BothLocked'
                        /\ building'.left > 0 => signOnDemand'
    BY <2>3, <2>5, <2>6 DEF ListsInv, Locks, IsEmpty, Builds
  <2>9. Locks'
    BY <2>7, <2>8, OrderlyKept DEF Locks
  <2> QED
    BY <1>2, <2>4, <2>9 DEF ListsInv
<1> QED
  BY <1>2, <1>10, <1>11

(* An attempt keeps the invariant of the lists, because what is signed at  *)
(* once has its nodes locked.                                              *)
LEMMA AttemptLists ==
    ASSUME TxTyped, Orderly, ListsInv, UNCHANGED uses, NEW e \in uses.executions,
           Attempt(e) \/ AttemptThrows(e)
    PROVE  /\ ~ signOnDemand /\ ~ IsEmpty(signedTransactions) => nodeAccountIds.locked
           /\ TxTyped' /\ ListsInv'
<1>1. e \in Execution /\ pc[e] = "loop" /\ InRange
  BY UsesTyped DEF Attempt, AttemptThrows, ListsInv
<1>2. /\ ~ nodeAccountIds.locked => OnDemandOnly /\ ~ AtOnceOnly /\ IsEmpty(signedTransactions)
  BY <1>1 DEF ListsInv, Locks, Orderly, BothLocked
<1>3. /\ UNCHANGED <<memo, signOnDemand, transactionIds, signedTransactions, building,
                     signerPublicKeys>>
      /\ \A d \in Execution : pc'[d] # "idle" => pc[d] # "idle"
  BY <1>1 DEF Attempt, AttemptThrows, Ends, settingVars, idVars, signVars, TxTyped, LoopTyped
<1>4. /\ TxTyped' /\ nodeAccountIds'.locked = nodeAccountIds.locked
      /\ nodeAccountIds.locked => nodeAccountIds'.list = nodeAccountIds.list
      /\ ~ nodeAccountIds.locked => ~ IsEmpty(nodeAccountIds')
      /\ ~ IsEmpty(nodeAccountIds') => nodeAccountIds'.index \in DOMAIN nodeAccountIds'.list
  <2>1. CASE Attempt(e)
    BY <1>1, <1>2, <2>1, AttemptStep
  <2>2. CASE AttemptThrows(e)
    BY <1>1, <2>2, AttemptThrowsEffect
  <2> QED
    BY <2>1, <2>2
<1>5. signedTransactions.list \in Seq(Tx)
  BY ListOps DEF TxTyped, ListsTyped
<1>6. InRange'
  BY <1>2, <1>3, <1>4 DEF ListsInv, InRange, IsEmpty
<1>7. Aligned'
  <2>1. \A i \in DOMAIN signedTransactions.list : nodeAccountIds'.list = nodeAccountIds.list
    BY <1>2, <1>4, <1>5 DEF IsEmpty
  <2> QED
    BY <1>3, <2>1 DEF ListsInv, Aligned
<1>8. Built'
  <2>1. CASE UNCHANGED transactions
    BY <1>3, <2>1 DEF ListsInv, Built
  <2>2. CASE /\ Attempt(e) /\ ~ signOnDemand
    <3>1. /\ nodeAccountIds.index \in DOMAIN signedTransactions.list
          /\ \A j \in DOMAIN transactions'.list :
               \/ /\ j # nodeAccountIds.index /\ transactions'.list[j] = NoTx
                  /\ j \in DOMAIN signedTransactions.list \cup DOMAIN transactions.list
               \/ /\ j \in DOMAIN transactions.list
                  /\ transactions'.list[j] = transactions.list[j]
                  /\ transactions'.list[j] # NoTx
               \/ /\ j = nodeAccountIds.index
                  /\ transactions'.list[j] = signedTransactions.list[j]
      BY <1>1, <1>2, <2>2, AttemptStep
    <3> QED
      BY <1>3, <2>2, <3>1 DEF ListsInv, Built, Aligned
  <2> QED
    BY <2>1, <2>2 DEF Attempt, AttemptThrows
<1>9. Locks'
  <2>1. BothLocked' <=> BothLocked
    BY <1>3, <1>4 DEF BothLocked
  <2>2. AtOnceOnly => BothLocked
    BY <1>1 DEF ListsInv, Locks
  <2> QED
    BY <1>3, <2>1, <2>2, OrderlyKept DEF ListsInv, Locks
<1> QED
  BY <1>2, <1>4, <1>6, <1>7, <1>8, <1>9 DEF ListsInv

(* A new ID after an expired one keeps the invariant of the lists. *)
LEMMA RetriedExpiredStep ==
    ASSUME TxTyped, Orderly, ListsInv, UNCHANGED uses, NEW e \in uses.executions,
           RetriedExpired(e)
    PROVE  TxTyped' /\ ListsInv'
<1>1. e \in Execution /\ pc[e] = "calling"
  BY UsesTyped DEF RetriedExpired
<1>2. /\ TxTyped' /\ (transactionIds.locked => IdsKept)
      /\ ~ IsEmpty(transactionIds) => ~ IsEmpty(transactionIds')
  BY <1>1, RetriedExpiredEffect
<1>3. UNCHANGED <<settingVars, nodeAccountIds, signedTransactions, transactions, signVars,
                  building>>
  BY DEF RetriedExpired
<1>4. \A d \in Execution : pc'[d] # "idle" => pc[d] # "idle"
  BY <1>1 DEF RetriedExpired, TxTyped, LoopTyped
<1>5. CASE transactionIds.locked
  <2>1. SignedKept /\ BuiltKept /\ IndexKept
    BY <1>3 DEF SignedKept, BuiltKept, IndexKept
  <2> QED
    BY <1>2, <1>3, <1>4, <1>5, <2>1, ListsFrame DEF settingVars, signVars, ListsInv, InRange
<1>6. CASE ~ transactionIds.locked
  <2>1. OnDemandOnly /\ ~ AtOnceOnly /\ IsEmpty(signedTransactions)
    BY <1>1, <1>6 DEF ListsInv, Locks, Orderly, BothLocked
  <2>2. InRange'
    BY <1>2, <1>3 DEF ListsInv, InRange
  <2>3. Aligned'
    BY <1>3, <2>1 DEF Aligned, IsEmpty
  <2>4. Built'
    BY <1>3 DEF ListsInv, Built, settingVars
  <2>5. Locks'
    BY <1>3, <2>1, OrderlyKept DEF ListsInv, Locks, settingVars, signVars
  <2> QED
    BY <1>2, <2>2, <2>3, <2>4, <2>5 DEF ListsInv
<1> QED
  BY <1>5, <1>6

(* The lists of a transaction read from bytes hold what was read. *)
LEMMA NewListSet ==
    ASSUME NEW S, NEW s \in Seq(S)
    PROVE  /\ SetList(NewList, s).list = s
           /\ SetLocked(SetList(NewList, s)).list = s /\ SetLocked(SetList(NewList, s)).locked
<1>1. NewList \in ListType(S)
  BY DEF NewList, ListType
<1>2. SetList(NewList, s) \in ListType(S) /\ SetList(NewList, s).list = s
  BY <1>1, ListSet
<1> QED
  BY <1>2, ListOps

(* The invariant holds at first. *)
LEMMA ListsInit == TxInit => ListsInv /\ Requests /\ Backed
<1> SUFFICES ASSUME TxInit PROVE ListsInv /\ Requests /\ Backed
  OBVIOUS
<1>1. TxTyped /\ InRange
  BY TypedInit
<1>2. /\ ~ signOnDemand /\ building.left = 0 /\ building.at = "idle"
      /\ \A e \in Execution : pc[e] = "idle"
  BY DEF TxInit
<1>3. Requests
  BY <1>2 DEF Requests, InFlight
<1>4. CASE FreshLists
  <2>1. /\ signedTransactions.list = <<>> /\ transactions.list = <<>>
        /\ signerPublicKeys = {} /\ ~ signedTransactions.locked
    BY <1>4 DEF FreshLists, NewList
  <2>2. Aligned /\ Built
    BY <2>1 DEF Aligned, Built
  <2>3. Locks
    BY <1>2, <2>1 DEF Locks, IsEmpty
  <2> QED
    BY <1>1, <1>2, <1>3, <2>1, <2>2, <2>3 DEF ListsInv, Backed, IsEmpty
<1>5. CASE FromBytes
  <2>1. PICK nodes \in ClientNodes, keys \in SUBSET uses.keys :
          LET list == [i \in DOMAIN nodes |-> Body(nodes[i], ExplicitId, keys)]
          IN /\ transactionIds = SetLocked(SetList(NewList, <<ExplicitId>>))
             /\ nodeAccountIds = SetLocked(SetList(NewList, nodes))
             /\ signedTransactions = SetLocked(SetList(NewList, list))
             /\ transactions = SetList(NewList, list)
             /\ signerPublicKeys = keys
    BY <1>5 DEF FromBytes
  <2> DEFINE list == [i \in DOMAIN nodes |-> Body(nodes[i], ExplicitId, keys)]
             firstId == <<ExplicitId>>
  <2>2. nodes \in Seq(NodeId)
    BY NodeConstants
  <2>3. list \in Seq(Tx) /\ firstId \in Seq(0..MaxId)
    <3>1. ExplicitId \in 0..MaxId /\ keys \subseteq SignKey /\ memo \in Memos
      BY <1>1, UsesTyped, BoundConstants DEF TxTyped, SettingsTyped
    <3>2. \A i \in DOMAIN nodes : list[i] \in Tx
      BY <2>2, <3>1 DEF Body, Tx
    <3> QED
      BY <2>2, <3>1, <3>2
  <2>4. /\ transactionIds.list = firstId /\ nodeAccountIds.list = nodes
        /\ signedTransactions.list = list /\ transactions.list = list
        /\ transactionIds.locked /\ nodeAccountIds.locked
    <3>1. /\ transactionIds = SetLocked(SetList(NewList, firstId))
          /\ nodeAccountIds = SetLocked(SetList(NewList, nodes))
          /\ signedTransactions = SetLocked(SetList(NewList, list))
          /\ transactions = SetList(NewList, list)
      BY <2>1
    <3> HIDE DEF list, firstId
    <3> QED
      BY <2>2, <2>3, <3>1, NewListSet
  <2>5. firstId[1] = ExplicitId
    OBVIOUS
  <2>6. /\ DOMAIN list = DOMAIN nodes
        /\ \A i \in DOMAIN list : /\ list[i].node = nodes[i] /\ list[i].id = ExplicitId
                                  /\ list[i].memo = memo
    BY DEF Body
  <2> HIDE DEF list, firstId
  <2>7. Aligned
    BY <2>4, <2>5, <2>6 DEF Aligned
  <2>8. Built
    BY <2>4, <2>6 DEF Built
  <2>9. Locks
    BY <1>2, <2>4 DEF Locks, BothLocked
  <2> QED
    BY <1>1, <1>2, <1>3, <2>4, <2>7, <2>8, <2>9 DEF ListsInv, Backed, IsEmpty
<1> QED
  BY <1>4, <1>5 DEF TxInit

(* Every step keeps the invariant of the lists. *)
LEMMA ListsStep ==
    ASSUME TxTyped, Orderly, ListsInv, Requests, Backed, TxNext
    PROVE  TxTyped' /\ ListsInv'
<1>1. UNCHANGED uses
  BY DEF TxNext
<1>2. CASE Setters
  <2>1. ASSUME NEW c \in uses.freezeWith PROVE Freezer(c)
    BY DEF Freezer
  <2> QED
    BY <1>1, <1>2, <2>1, KeptStep, SettersStep, FreezeWithStep, FreezeWithThrowsStep
    DEF Setters
<1>3. CASE Signing
  BY <1>1, <1>3, KeptStep, AddSignatureStep DEF Signing
<1>4. CASE Serializing
  BY <1>1, <1>4, KeptStep, ToBytesStep, ToBytesAsyncStep, BuildNextStep DEF Serializing
<1>5. CASE Executing
  BY <1>1, <1>5, KeptStep, ExecuteStep, AttemptLists, RetriedExpiredStep DEF Executing
<1> QED
  BY <1>2, <1>3, <1>4, <1>5 DEF TxNext

(* A step that changes nothing keeps the invariants. *)
LEMMA StutterKept ==
    ASSUME UNCHANGED txVars
    PROVE  /\ TxTyped => TxTyped'
           /\ ListsInv => ListsInv'
           /\ Requests => Requests'
           /\ Backed => Backed'
           /\ UNCHANGED uses
  BY DEF Backed, IsEmpty, txVars, settingVars, idVars, signVars, loopVars, TxTyped, SettingsTyped, ListsTyped,
     SigningTyped, LoopTyped, ListsInv, InRange, Locks, Aligned, Built, Requests, BothLocked,
     AtOnceOnly, OnDemandOnly, Clients, InFlight

(* A step that starts no request keeps the invariant of the requests. *)
LEMMA RequestsFrame ==
    ASSUME Requests, UNCHANGED <<uses, memo>>,
           AtOnceOnly /\ ~ IsEmpty(signedTransactions) => ~ IsEmpty(signedTransactions'),
           \A e \in Execution : InFlight(e)' =>
               InFlight(e) /\ request'[e] = request[e] /\ nodeId'[e] = nodeId[e]
    PROVE  Requests'
  BY OrderlyKept DEF Requests

(* What was frozen to be signed at once stays frozen. *)
LEMMA SignedStays ==
    ASSUME TxTyped, TxTyped', Orderly, ListsInv, TxNext, ~ IsEmpty(signedTransactions)
    PROVE  ~ IsEmpty(signedTransactions')
<1>1. UNCHANGED uses
  BY DEF TxNext
<1>2. /\ uses.keys \subseteq SignKey /\ uses.freezeWith \subseteq Client \cup {NoClient}
      /\ uses.executions \subseteq Execution /\ uses.execute \subseteq Client
  BY UsesTyped
<1>3. ASSUME NEW c \in Client \cup {NoClient}, NEW lock \in BOOLEAN,
             NEW keys \in SUBSET SignKey, Freeze(c, lock, keys)
      PROVE  ~ IsEmpty(signedTransactions')
  <2>1. /\ ~ IsEmpty(nodeAccountIds') /\ nodeAccountIds' \in ListType(NodeId)
        /\ Builds => signedTransactions'.list =
               [i \in DOMAIN nodeAccountIds'.list |->
                   Body(nodeAccountIds'.list[i], transactionIds'.list[1], keys)]
        /\ ~ Builds => signedTransactions'.list = signedTransactions.list
    BY <1>3, FreezeTyped
  <2>2. nodeAccountIds'.list \in Seq(NodeId) /\ 1 \in DOMAIN nodeAccountIds'.list
    BY <2>1, ListOps, NonEmptySeq DEF IsEmpty
  <2>3. CASE Builds
    BY <2>1, <2>2, <2>3 DEF IsEmpty
  <2>4. CASE ~ Builds
    BY <2>1, <2>4 DEF IsEmpty
  <2> QED
    BY <2>3, <2>4
<1>4. CASE Setters
  <2>1. ASSUME NEW c \in uses.freezeWith, FreezeWith(c) PROVE ~ IsEmpty(signedTransactions')
    BY <1>1, <1>2, <1>3, <2>1, FreezeWithEffect
  <2>2. ASSUME NEW m \in Memos, SetField(m) PROVE ~ IsEmpty(signedTransactions')
    BY <2>2 DEF SetField
  <2>3. ASSUME NEW nodes \in uses.nodes, SetNodeAccountIds(nodes)
        PROVE  ~ IsEmpty(signedTransactions')
    BY <2>3 DEF SetNodeAccountIds
  <2>4. ASSUME NEW c \in uses.freezeWith, FreezeWithThrows(c)
        PROVE  ~ IsEmpty(signedTransactions')
    BY <2>4 DEF FreezeWithThrows
  <2>5. CASE SetTransactionId \/ GetTransactionId \/ GetNodeAccountIds
    BY <2>5 DEF SetTransactionId, GetTransactionId, GetNodeAccountIds
  <2> QED
    BY <1>4, <2>1, <2>2, <2>3, <2>4, <2>5 DEF Setters
<1>5. CASE Signing
  <2>1. ASSUME NEW k \in uses.keys, SignWith(k) PROVE ~ IsEmpty(signedTransactions')
    BY <2>1 DEF SignWith
  <2>2. ASSUME NEW k \in uses.keys, Sign(k) PROVE ~ IsEmpty(signedTransactions')
    BY <1>1, <1>2, <2>2, SignEffect, EmptyKept
  <2>3. ASSUME NEW k \in uses.keys, SignerFails(k) PROVE ~ IsEmpty(signedTransactions')
    BY <2>3 DEF SignerFails
  <2>4. ASSUME NEW k \in uses.keys, AddSignature(k) PROVE ~ IsEmpty(signedTransactions')
    <3>1. SignedKept
      BY <1>1, <1>2, <2>4, AddSignatureCases, AddNewSignatureEffect
    <3> QED
      BY <3>1, EmptyKept
  <2> QED
    BY <1>5, <2>1, <2>2, <2>3, <2>4 DEF Signing
<1>6. CASE Serializing
  <2>1. CASE ToBytes \/ BuildNext
    BY <2>1 DEF ToBytes, BuildNext
  <2>2. CASE BuildFails \/ BuildEnds
    BY <1>1, <2>2, BuildEndsEffect DEF IsEmpty
  <2>3. CASE ToBytesAsync
    <3>1. \/ UNCHANGED signedTransactions
          \/ signedTransactions'.list =
                [i \in DOMAIN nodeAccountIds.list |->
                    Body(nodeAccountIds.list[i], transactionIds.list[1], {})]
      BY <1>1, <2>3, ToBytesAsyncEffect DEF ListsInv
    <3>2. nodeAccountIds.list \in Seq(NodeId) /\ nodeAccountIds.list # <<>>
      BY ListOps DEF TxTyped, ListsTyped, ListsInv, InRange, IsEmpty
    <3>3. 1 \in DOMAIN nodeAccountIds.list
      BY <3>2, NonEmptySeq
    <3> QED
      BY <3>1, <3>3 DEF IsEmpty
  <2> QED
    BY <1>6, <2>1, <2>2, <2>3 DEF Serializing
<1>7. CASE Executing
  <2>1. PICK e \in uses.executions :
          \/ \E c \in uses.execute : Execute(e, c)
          \/ BeforeExecuted(e)
          \/ Attempt(e) \/ AttemptThrows(e) \/ Made(e)
          \/ ExecuteFails(e) \/ Retried(e) \/ RetriedExpired(e) \/ Answered(e)
    BY <1>7 DEF Executing
  <2>2. ASSUME NEW c \in uses.execute, Execute(e, c) PROVE ~ IsEmpty(signedTransactions')
    <3>1. IsFrozen
      BY DEF IsFrozen
    <3> QED
      BY <2>2, <3>1 DEF Execute
  <2> QED
    BY <2>1, <2>2 DEF BeforeExecuted, Attempt, AttemptThrows, Made, ExecuteFails, Retried,
       RetriedExpired, Answered
<1> QED
  BY <1>4, <1>5, <1>6, <1>7 DEF TxNext

(* Nothing is built yet when nothing is signed, and no step but one that    *)
(* signs builds anything.                                                  *)
LEMMA BackedStep ==
    ASSUME TxTyped, TxTyped', Orderly, ListsInv, Backed, TxNext
    PROVE  Backed'
<1>1. CASE ~ IsEmpty(signedTransactions)
  BY <1>1, SignedStays DEF Backed
<1>2. CASE IsEmpty(signedTransactions)
  <2>1. /\ IsEmpty(transactions) /\ ~ building.left > 0
        /\ UNCHANGED uses /\ uses.executions \subseteq Execution
        /\ transactions \in ListType(Tx \cup {NoTx})
    BY <1>2, UsesTyped DEF Backed, TxNext, TxTyped, ListsTyped
  <2>2. ASSUME UNCHANGED transactions \/ transactions' = Clear(transactions),
               UNCHANGED building
        PROVE  Backed'
    BY <2>1, <2>2, ListClear DEF Backed, IsEmpty
  <2>3. CASE Setters
    BY <2>2, <2>3 DEF Setters, SetField, SetTransactionId, SetNodeAccountIds,
       GetTransactionId, GetNodeAccountIds, FreezeWith, FreezeWithThrows
  <2>4. CASE Signing
    <3>1. PICK k \in uses.keys : SignWith(k) \/ Sign(k) \/ SignerFails(k) \/ AddSignature(k)
      BY <2>4 DEF Signing
    <3>2. CASE SignWith(k) \/ Sign(k) \/ SignerFails(k)
      BY <2>2, <3>2 DEF SignWith, BeginSign, Sign, SignerFails
    <3>3. CASE AddSignature(k)
      BY <2>2, <3>3 DEF AddSignature, AddNewSignature, FreezeWith, FreezeWithThrows
    <3> QED
      BY <3>1, <3>2, <3>3
  <2>5. CASE Serializing
    <3>1. CASE ToBytes
      BY <1>2, <2>1, <3>1 DEF ToBytes, IsFrozen
    <3>2. CASE ToBytesAsync
      <4>1. \/ transactions'.list = BuiltAll /\ building'.left = 0
            \/ /\ UNCHANGED transactions
               /\ building'.left > 0 => ~ IsEmpty(signedTransactions')
        BY <2>1, <3>2, ToBytesAsyncEffect DEF ListsInv
      <4>2. DOMAIN BuiltAll = {}
        BY <1>2, <2>1 DEF BuiltAll, IsEmpty
      <4>3. transactions'.list \in Seq(Tx \cup {NoTx})
        BY ListOps DEF TxTyped, ListsTyped
      <4>4. transactions'.list = BuiltAll => transactions'.list = <<>>
        BY <4>2, <4>3
      <4> QED
        BY <2>1, <4>1, <4>4 DEF Backed, IsEmpty
    <3>3. CASE BuildNext
      BY <2>1, <3>3 DEF BuildNext
    <3>4. CASE BuildFails
      BY <2>1, <3>4 DEF BuildFails, Backed
    <3>5. CASE BuildEnds
      BY <2>1, <3>5, ListOps DEF BuildEnds, Backed, IsEmpty
    <3> QED
      BY <2>5, <3>1, <3>2, <3>3, <3>4, <3>5 DEF Serializing
  <2>6. CASE Executing
    <3>1. PICK e \in uses.executions :
            \/ \E c \in uses.execute : Execute(e, c)
            \/ BeforeExecuted(e)
            \/ Attempt(e) \/ AttemptThrows(e) \/ Made(e)
            \/ ExecuteFails(e) \/ Retried(e) \/ RetriedExpired(e) \/ Answered(e)
      BY <2>6 DEF Executing
    <3>2. CASE \E c \in uses.execute : Execute(e, c)
      BY <2>2, <3>2 DEF Execute, BeginSign
    <3>3. CASE Attempt(e)
      <4>1. UNCHANGED transactions
            \/ nodeAccountIds.index \in DOMAIN signedTransactions.list
        BY <1>2, <2>1, <3>3, AttemptStep DEF ListsInv
      <4> QED
        BY <1>2, <2>2, <3>3, <4>1 DEF Attempt, IsEmpty
    <3> QED
      BY <2>2, <3>1, <3>2, <3>3 DEF BeforeExecuted, AttemptThrows, Made, ExecuteFails,
         Retried, RetriedExpired, Answered
  <2> QED
    BY <2>3, <2>4, <2>5, <2>6 DEF TxNext
<1> QED
  BY <1>1, <1>2

(* Every step keeps the invariant of the requests. *)
LEMMA RequestsStep ==
    ASSUME TxTyped, TxTyped', Orderly, ListsInv, Requests, TxNext
    PROVE  Requests'
<1>1. UNCHANGED uses /\ uses.executions \subseteq Execution /\ uses.keys \subseteq SignKey
  BY UsesTyped DEF TxNext
<1>2. AtOnceOnly /\ ~ IsEmpty(signedTransactions) => ~ IsEmpty(signedTransactions')
  BY SignedStays
<1>3. ASSUME UNCHANGED <<memo, pc, request, nodeId>> PROVE Requests'
  BY <1>1, <1>2, <1>3, RequestsFrame DEF InFlight
<1>4. CASE Setters
  <2>1. ASSUME NEW m \in Memos, SetField(m) PROVE Requests'
    <3>1. \A e \in Execution : ~ InFlight(e)
      <4> SUFFICES ASSUME NEW e \in Execution, InFlight(e) PROVE FALSE
        OBVIOUS
      <4>1. CASE AtOnceOnly
        BY <2>1, <4>1 DEF Requests, SetField, IsFrozen
      <4>2. CASE OnDemandOnly
        BY <2>1, <4>2 DEF OnDemandOnly, SetField, MayCall, Quiet, InFlight
      <4> QED
        BY <4>1, <4>2 DEF Orderly
    <3>2. UNCHANGED pc
      BY <2>1 DEF SetField, loopVars
    <3> QED
      BY <3>1, <3>2 DEF Requests, InFlight
  <2>2. ASSUME NEW nodes \in uses.nodes, SetNodeAccountIds(nodes) PROVE Requests'
    BY <1>3, <2>2 DEF SetNodeAccountIds, settingVars, loopVars
  <2>3. ASSUME NEW c \in uses.freezeWith, FreezeWith(c) \/ FreezeWithThrows(c) PROVE Requests'
    BY <1>3, <2>3 DEF FreezeWith, FreezeWithThrows, loopVars
  <2>4. CASE SetTransactionId \/ GetTransactionId \/ GetNodeAccountIds
    BY <1>3, <2>4 DEF SetTransactionId, GetTransactionId, GetNodeAccountIds, settingVars,
       loopVars
  <2> QED
    BY <1>4, <2>1, <2>2, <2>3, <2>4 DEF Setters
<1>5. CASE Signing
  <2>1. ASSUME NEW k \in uses.keys, SignWith(k) \/ Sign(k) \/ AddSignature(k) PROVE Requests'
    BY <1>3, <2>1 DEF SignWith, Sign, AddSignature, AddNewSignature, FreezeWith,
       FreezeWithThrows, settingVars, loopVars
  <2>2. ASSUME NEW k \in uses.keys, SignerFails(k) PROVE Requests'
    <3>1. \A e \in Execution : InFlight(e)' => InFlight(e)
      BY <2>2 DEF SignerFails, InFlight
    <3>2. UNCHANGED <<memo, request, nodeId>>
      BY <2>2 DEF SignerFails, settingVars
    <3> QED
      BY <1>1, <1>2, <3>1, <3>2, RequestsFrame
  <2> QED
    BY <1>5, <2>1, <2>2 DEF Signing
<1>6. CASE Serializing
  BY <1>3, <1>6 DEF Serializing, ToBytes, ToBytesAsync, BuildNext, BuildFails, BuildEnds,
     settingVars, loopVars
<1>7. CASE Executing
  <2>1. PICK e \in uses.executions :
          \/ \E c \in uses.execute : Execute(e, c)
          \/ BeforeExecuted(e)
          \/ Attempt(e) \/ AttemptThrows(e) \/ Made(e)
          \/ ExecuteFails(e) \/ Retried(e) \/ RetriedExpired(e) \/ Answered(e)
    BY <1>7 DEF Executing
  <2>2. /\ UNCHANGED memo /\ e \in Execution
        /\ pc \in [Execution -> Places] /\ request \in [Execution -> Tx \cup {NoTx}]
        /\ nodeId \in [Execution -> NodeId \cup {NoTx}]
    BY <1>1, <2>1 DEF Execute, BeforeExecuted, Attempt, AttemptThrows, Made, ExecuteFails,
       Retried, RetriedExpired, Answered, settingVars, TxTyped, LoopTyped
  <2>3. CASE (\E c \in uses.execute : Execute(e, c)) \/ BeforeExecuted(e)
    <3>1. UNCHANGED <<request, nodeId>> /\ \A d \in Execution : InFlight(d)' => InFlight(d)
      BY <2>2, <2>3 DEF Execute, BeforeExecuted, InFlight
    <3> QED
      BY <1>1, <1>2, <2>2, <3>1, RequestsFrame
  <2>4. CASE AttemptThrows(e) \/ ExecuteFails(e) \/ Answered(e)
    <3>1. Ends(e)
      BY <2>4 DEF AttemptThrows, ExecuteFails, Answered
    <3>2. \A d \in Execution : InFlight(d)' =>
             InFlight(d) /\ request'[d] = request[d] /\ nodeId'[d] = nodeId[d]
      BY <2>2, <3>1 DEF Ends, InFlight
    <3> QED
      BY <1>1, <1>2, <2>2, <3>2, RequestsFrame
  <2>5. CASE Retried(e) \/ RetriedExpired(e)
    <3>1. UNCHANGED <<request, nodeId>> /\ \A d \in Execution : InFlight(d)' => InFlight(d)
      BY <2>2, <2>5 DEF Retried, RetriedExpired, InFlight
    <3> QED
      BY <1>1, <1>2, <2>2, <3>1, RequestsFrame
  <2>6. CASE Made(e)
    <3>1. /\ request'[e].node = request[e].node /\ request'[e].memo = request[e].memo
          /\ request'[e] \in Tx
          /\ \A d \in Execution \ {e} : request'[d] = request[d] /\ pc'[d] = pc[d]
      BY <1>1, <2>2, <2>6, MadeEffect DEF ListsInv
    <3>2. UNCHANGED nodeId /\ InFlight(e)
      BY <2>6 DEF Made, InFlight
    <3> QED
      BY <1>1, <1>2, <2>2, <3>1, <3>2, OrderlyKept DEF Requests, InFlight
  <2>7. CASE Attempt(e)
    <3>1. ~ signOnDemand /\ ~ IsEmpty(signedTransactions) => nodeAccountIds.locked
      BY <1>1, <2>1, <2>7, AttemptLists
    <3>2. /\ \A d \in Execution \ {e} :
                pc'[d] = pc[d] /\ request'[d] = request[d] /\ nodeId'[d] = nodeId[d]
          /\ request'[e] \in Tx
          /\ \/ /\ signOnDemand
                /\ request'[e].node = nodeId'[e] /\ request'[e].memo = memo
             \/ /\ ~ signOnDemand
                /\ nodeId'[e] = Current(nodeAccountIds)
                /\ nodeAccountIds.index \in DOMAIN signedTransactions.list
                /\ \/ /\ nodeAccountIds.index \in DOMAIN transactions.list
                      /\ request'[e] = transactions.list[nodeAccountIds.index]
                      /\ request'[e] # NoTx
                   \/ request'[e] = signedTransactions.list[nodeAccountIds.index]
      BY <1>1, <2>2, <2>7, <3>1, AttemptStep DEF ListsInv
    <3>4. UNCHANGED <<signOnDemand, signedTransactions>>
      BY <2>7 DEF Attempt, settingVars
    <3>5. /\ request'[e].node = nodeId'[e] /\ request'[e].memo = memo
          /\ AtOnceOnly => ~ IsEmpty(signedTransactions')
      <4>1. CASE signOnDemand
        BY <3>2, <4>1 DEF ListsInv, Locks
      <4>2. CASE ~ signOnDemand
        <5>1. nodeAccountIds.index \in DOMAIN signedTransactions.list
          BY <3>2, <4>2
        <5>2. /\ request'[e].node = signedTransactions.list[nodeAccountIds.index].node
              /\ request'[e].memo = memo
          BY <3>2, <4>2, <5>1 DEF ListsInv, Built, Aligned
        <5>3. nodeId'[e] = signedTransactions.list[nodeAccountIds.index].node
          BY <3>2, <4>2, <5>1 DEF ListsInv, Aligned, Current
        <5>4. ~ IsEmpty(signedTransactions')
          BY <3>4, <5>1 DEF IsEmpty
        <5> QED
          BY <5>2, <5>3, <5>4
      <4> QED
        BY <4>1, <4>2
    <3> QED
      BY <1>1, <2>2, <3>2, <3>5, OrderlyKept DEF Requests, InFlight
  <2> QED
    BY <2>1, <2>3, <2>4, <2>5, <2>6, <2>7
<1> QED
  BY <1>4, <1>5, <1>6, <1>7 DEF TxNext

(* The inductive invariant of every orderly application. *)
SendsInv == Orderly => TxTyped /\ ListsInv /\ Requests /\ Backed

(* The lists of nodes, IDs, signed and built transactions stay in line,    *)
(* through setters, freezes, signatures, serializations and the attempts   *)
(* of any number of executions.                                            *)
THEOREM TxSendsInv == TxSpec => []SendsInv
<1>1. TxInit => SendsInv
  BY TypedInit, ListsInit DEF SendsInv
<1>2. SendsInv /\ [TxNext]_txVars => SendsInv'
  <2> SUFFICES ASSUME SendsInv, [TxNext]_txVars, Orderly'
               PROVE  TxTyped' /\ ListsInv' /\ Requests' /\ Backed'
    BY DEF SendsInv
  <2>1. CASE TxNext
    <3>1. Orderly
      BY <2>1, OrderlyKept DEF TxNext
    <3>2. TxTyped /\ ListsInv /\ Requests /\ Backed
      BY <3>1 DEF SendsInv
    <3>3. TxTyped' /\ ListsInv'
      BY <2>1, <3>1, <3>2, ListsStep
    <3> QED
      BY <2>1, <3>1, <3>2, <3>3, RequestsStep, BackedStep
  <2>2. CASE UNCHANGED txVars
    <3>1. Orderly
      BY <2>2, StutterKept, OrderlyKept
    <3> QED
      BY <2>2, <3>1, StutterKept DEF SendsInv
  <2> QED
    BY <2>1, <2>2
<1> QED
  BY <1>1, <1>2, PTL DEF TxSpec

(* A request in flight has the body that was frozen, and the node it is    *)
(* sent to in that body: Transaction.js and Executable.js take the two     *)
(* from different lists.                                                   *)
THEOREM TxRequestsAgree == TxSpec => [](Orderly => RequestsAgree)
<1>1. SendsInv => (Orderly => RequestsAgree)
  <2> SUFFICES ASSUME SendsInv, Orderly PROVE RequestsAgree
    OBVIOUS
  <2>1. Aligned /\ Built /\ Requests
    BY DEF SendsInv, ListsInv
  <2> QED
    BY <2>1 DEF RequestsAgree, BodiesAgree, SentToItsNode, Elements, Aligned, Built, Requests
<1> QED
  BY <1>1, TxSendsInv, PTL

(* What _buildTransaction() has built belongs to the signed transaction at *)
(* its position.                                                           *)
THEOREM TxBuiltFromSigned == TxSpec => [](Orderly => BuiltFromSigned)
<1>1. SendsInv => (Orderly => BuiltFromSigned)
  BY DEF SendsInv, ListsInv, Built, BuiltFromSigned
<1> QED
  BY <1>1, TxSendsInv, PTL

------------------------------------------------------------------------------
(* What awaiting the calls gives. *)

(* The invariant of an application that awaits its calls holds at first. *)
LEMMA AwaitedInit == TxInit => Awaited
<1> SUFFICES ASSUME TxInit PROVE Awaited
  OBVIOUS
<1>1. /\ ~ signOnDemand /\ \A e \in Execution : pc[e] = "idle"
      /\ \A k \in SignKey : signing[k] = 0
      /\ completed = signerPublicKeys
  BY DEF TxInit
<1>2. TxTyped
  BY TypedInit
<1>3. signedTransactions.list \in Seq(Tx)
  BY <1>2, ListOps DEF TxTyped, ListsTyped
<1>4. Exclusive /\ Carried /\ Positions
  BY <1>1, <1>3 DEF Exclusive, Carried, Positions, Sent
<1>5. Held
  <2>1. CASE FreshLists
    <3>1. signedTransactions.list = <<>> /\ transactions.list = <<>> /\ signerPublicKeys = {}
      BY <2>1 DEF FreshLists, NewList
    <3> QED
      BY <1>1, <3>1 DEF Held
  <2>2. CASE FromBytes
    <3>1. PICK nodes \in ClientNodes, keys \in SUBSET uses.keys :
            LET list == [i \in DOMAIN nodes |-> Body(nodes[i], ExplicitId, keys)]
            IN /\ transactionIds = SetLocked(SetList(NewList, <<ExplicitId>>))
               /\ nodeAccountIds = SetLocked(SetList(NewList, nodes))
               /\ signedTransactions = SetLocked(SetList(NewList, list))
               /\ transactions = SetList(NewList, list)
               /\ signerPublicKeys = keys
      BY <2>2 DEF FromBytes
    <3> DEFINE list == [i \in DOMAIN nodes |-> Body(nodes[i], ExplicitId, keys)]
               firstId == <<ExplicitId>>
    <3>2. nodes \in Seq(NodeId) /\ nodes # <<>>
      BY NodeConstants
    <3>3. firstId \in Seq(0..MaxId) /\ firstId # <<>>
      BY BoundConstants
    <3>4. \A i \in DOMAIN nodes : list[i] \in Tx /\ list[i].sigs = keys
      <4>1. ExplicitId \in 0..MaxId /\ keys \subseteq SignKey /\ memo \in Memos
        BY <1>2, UsesTyped, BoundConstants DEF TxTyped, SettingsTyped
      <4> QED
        BY <3>2, <4>1 DEF Body, Tx
    <3>5. list \in Seq(Tx) /\ DOMAIN list = DOMAIN nodes
      BY <3>2, <3>4
    <3>6. /\ transactionIds = SetLocked(SetList(NewList, firstId))
          /\ nodeAccountIds = SetLocked(SetList(NewList, nodes))
          /\ signedTransactions = SetLocked(SetList(NewList, list))
          /\ transactions = SetList(NewList, list)
          /\ completed = keys
      BY <1>1, <3>1
    <3> HIDE DEF list, firstId
    <3>7. /\ transactionIds.list = firstId /\ nodeAccountIds.list = nodes
          /\ signedTransactions.list = list /\ transactions.list = list
      BY <3>2, <3>3, <3>5, <3>6, NewListSet
    <3> QED
      BY <1>1, <3>2, <3>3, <3>4, <3>5, <3>6, <3>7 DEF Held, IsEmpty
  <2> QED
    BY <2>1, <2>2 DEF TxInit
<1> QED
  BY <1>4, <1>5 DEF Awaited

(* It is about the signatures alone while no call is under way. *)
LEMMA QuietStep ==
    ASSUME TxTyped', Quiet, UNCHANGED pc, \A k \in SignKey : signing'[k] = 0, Held'
    PROVE  Awaited'
<1>1. signedTransactions'.list \in Seq(Tx)
  BY ListOps DEF TxTyped, ListsTyped
<1>2. \A e \in Execution : pc'[e] = "idle"
  BY DEF Quiet
<1>3. Exclusive' /\ Carried' /\ Positions'
  BY <1>1, <1>2 DEF Exclusive, Carried, Positions, Sent
<1> QED
  BY <1>3 DEF Awaited

(* Steps that only add signatures leave the promised ones held. *)
LEMMA HeldFrame ==
    ASSUME Held, UNCHANGED <<uses, signOnDemand, publicKeys, completed>>,
           ~ IsEmpty(nodeAccountIds) => ~ IsEmpty(nodeAccountIds'),
           ~ IsEmpty(transactionIds) => ~ IsEmpty(transactionIds'),
           operatorAccountId => operatorAccountId',
           SignedKept, BuiltKept
    PROVE  Held'
<1>1. \A i \in DOMAIN transactions'.list :
        i \in DOMAIN transactions.list /\ transactions'.list[i] = transactions.list[i]
  BY DEF BuiltKept
<1> QED
  BY <1>1, OrderlyKept DEF Held, SignedKept

(* The setters, the getters, freezing and serializing keep what awaiting   *)
(* gives.                                                                  *)
LEMMA CallsAwaited ==
    ASSUME TxTyped, TxTyped', Orderly, ListsInv, Awaited, uses.awaits, UNCHANGED uses,
           \/ \E m \in Memos : SetField(m)
           \/ SetTransactionId
           \/ \E nodes \in uses.nodes : SetNodeAccountIds(nodes)
           \/ GetTransactionId \/ GetNodeAccountIds
           \/ \E c \in uses.freezeWith : FreezeWith(c) \/ FreezeWithThrows(c)
           \/ ToBytes \/ ToBytesAsync
    PROVE  Awaited'
<1>1. Quiet /\ Held
  BY DEF SetField, SetTransactionId, SetNodeAccountIds, GetTransactionId, GetNodeAccountIds,
     FreezeWith, FreezeWithThrows, ToBytes, ToBytesAsync, MayCall, Awaited
<1>2. UNCHANGED pc
  BY DEF SetField, SetTransactionId, SetNodeAccountIds, GetTransactionId, GetNodeAccountIds,
     FreezeWith, FreezeWithThrows, ToBytes, ToBytesAsync, loopVars
<1>3. \A k \in SignKey : signing'[k] = 0
  BY <1>1 DEF SetField, SetTransactionId, SetNodeAccountIds, GetTransactionId,
     GetNodeAccountIds, FreezeWith, FreezeWithThrows, ToBytes, ToBytesAsync, signVars, Quiet
<1>4. Held'
  <2>1. CASE \/ \E m \in Memos : SetField(m)
             \/ SetTransactionId
             \/ \E nodes \in uses.nodes : SetNodeAccountIds(nodes)
             \/ GetTransactionId \/ GetNodeAccountIds
    <3>1. /\ UNCHANGED <<signOnDemand, publicKeys, completed, operatorAccountId,
                         signedTransactions, transactions>>
      BY <2>1 DEF SetField, SetTransactionId, SetNodeAccountIds, GetTransactionId,
         GetNodeAccountIds, settingVars, signVars
    <3>2. /\ ~ IsEmpty(nodeAccountIds) => ~ IsEmpty(nodeAccountIds')
          /\ ~ IsEmpty(transactionIds) => ~ IsEmpty(transactionIds')
      <4>1. ASSUME NEW m \in Memos, SetField(m)
            PROVE  UNCHANGED <<nodeAccountIds, transactionIds>>
        BY <4>1 DEF SetField, idVars
      <4>2. CASE SetTransactionId
        BY <4>2, SettersTyped DEF NodesKept, IsEmpty
      <4>3. ASSUME NEW nodes \in uses.nodes, SetNodeAccountIds(nodes)
            PROVE  ~ IsEmpty(nodeAccountIds') /\ UNCHANGED transactionIds
        BY <4>3, SettersTyped DEF SetNodeAccountIds, idVars
      <4>4. CASE GetTransactionId
        BY <4>4, SettersTyped DEF GetTransactionId, IdsKept, IsEmpty
      <4>5. CASE GetNodeAccountIds
        BY <4>5, SettersTyped DEF GetNodeAccountIds, NodesKept, IsEmpty, idVars
      <4> QED
        BY <2>1, <4>1, <4>2, <4>3, <4>4, <4>5
    <3>3. SignedKept /\ BuiltKept
      BY <3>1 DEF SignedKept, BuiltKept
    <3> QED
      BY <1>1, <3>1, <3>2, <3>3, HeldFrame
  <2>2. ASSUME NEW c \in uses.freezeWith, FreezeWith(c) PROVE Held'
    <3>1. completed' = {}
      BY <2>2 DEF FreezeWith
    <3> QED
      BY <3>1 DEF Held
  <2>3. ASSUME NEW c \in uses.freezeWith, FreezeWithThrows(c) PROVE Held'
    <3>1. /\ UNCHANGED <<transactionIds, signedTransactions, transactions, publicKeys,
                         completed>>
          /\ signOnDemand' = (c # NoClient /\ c.signOnDemand)
          /\ operatorAccountId => operatorAccountId'
      BY <2>3 DEF FreezeWithThrows, FreezeSettings, idVars, signVars
    <3>2. CASE OnDemandOnly
      <4>1. c # NoClient /\ c.signOnDemand /\ signOnDemand'
        BY <3>1, <3>2, ClientKinds
      <4>2. ~ signOnDemand => completed \subseteq publicKeys
        <5> SUFFICES ASSUME ~ signOnDemand, ~ completed \subseteq publicKeys PROVE FALSE
          OBVIOUS
        <5>1. ~ IsEmpty(nodeAccountIds) /\ (~ IsEmpty(transactionIds) \/ operatorAccountId)
          BY <1>1, <3>2 DEF Held
        <5> QED
          BY <2>3, <3>1, <4>1, <5>1 DEF FreezeWithThrows, Builds
      <4> QED
        BY <1>1, <3>1, <4>1, <4>2 DEF Held
    <3>3. CASE ~ OnDemandOnly
      <4>1. AtOnceOnly /\ ~ signOnDemand /\ ~ signOnDemand'
        BY <3>1, <3>3, ClientKinds DEF Orderly, ListsInv, Locks
      <4> QED
        BY <1>1, <3>1, <3>3, <4>1, OrderlyKept DEF Held
    <3> QED
      BY <3>2, <3>3
  <2>4. ASSUME ~ signOnDemand, transactions'.list = BuiltAll,
               UNCHANGED <<signOnDemand, operatorAccountId, publicKeys, completed,
                           signedTransactions>>,
               nodeAccountIds'.list = nodeAccountIds.list,
               transactionIds'.list = transactionIds.list
        PROVE  Held'
    <3>1. DOMAIN transactions.list \subseteq DOMAIN signedTransactions.list
      BY <2>4 DEF ListsInv, Built
    <3>2. \A i \in DOMAIN BuiltAll :
             \/ /\ i \in DOMAIN transactions.list /\ transactions.list[i] # NoTx
                /\ BuiltAll[i] = transactions.list[i]
             \/ i \in DOMAIN signedTransactions.list /\ BuiltAll[i] = signedTransactions.list[i]
      BY <3>1, BuiltAllEffect DEF TxTyped
    <3>3. \A i \in DOMAIN transactions'.list :
             \/ /\ i \in DOMAIN transactions.list /\ transactions.list[i] # NoTx
                /\ transactions'.list[i] = transactions.list[i]
             \/ /\ i \in DOMAIN signedTransactions.list
                /\ transactions'.list[i] = signedTransactions.list[i]
      BY <2>4, <3>2, Zenon
    <3> QED
      BY <1>1, <2>4, <3>3, OrderlyKept DEF Held, IsEmpty
  <2>5. CASE ToBytes
    <3>1. NodesKept /\ IdsKept /\ transactions'.list = BuiltAll
      BY <2>5, ToBytesEffect DEF ListsInv
    <3> QED
      BY <2>4, <2>5, <3>1 DEF ToBytes, NodesKept, IdsKept, settingVars, signVars
  <2>6. CASE ToBytesAsync
    <3>1. UNCHANGED <<signOnDemand, operatorAccountId, publicKeys, completed>>
      BY <2>6 DEF ToBytesAsync, settingVars, signVars
    <3>2. CASE signOnDemand
      BY <1>1, <3>1, <3>2 DEF Held
    <3>3. CASE ~ signOnDemand
      <4>1. /\ IdsKept /\ nodeAccountIds'.list = nodeAccountIds.list
            /\ transactions'.list = BuiltAll /\ UNCHANGED signedTransactions
        BY <2>6, <3>3, ToBytesAsyncEffect DEF ListsInv
      <4> QED
        BY <2>4, <3>1, <3>3, <4>1 DEF IdsKept
    <3> QED
      BY <3>2, <3>3
  <2> QED
    BY <2>1, <2>2, <2>3, <2>5, <2>6
<1> QED
  BY <1>1, <1>2, <1>3, <1>4, QuietStep

(* What is frozen, and not signed on demand, has signed transactions. *)
LEMMA FrozenSigned ==
    ASSUME TxTyped, ListsInv, IsFrozen, ~ signOnDemand
    PROVE  ~ IsEmpty(signedTransactions)
<1>1. transactions.list \in Seq(Tx \cup {NoTx}) /\ signedTransactions.list \in Seq(Tx)
  BY ListOps DEF TxTyped, ListsTyped
<1>2. CASE ~ IsEmpty(transactions)
  <2>1. 1 \in DOMAIN transactions.list
    BY <1>1, <1>2, NonEmptySeq DEF IsEmpty
  <2>2. 1 \in DOMAIN signedTransactions.list
    BY <2>1 DEF ListsInv, Built
  <2> QED
    BY <1>1, <2>2 DEF IsEmpty
<1> QED
  BY <1>2 DEF IsFrozen

(* So does the start of a signer. *)
LEMMA BeginSignAwaited ==
    ASSUME TxTyped', Quiet, NEW k \in SignKey,
           signing \in [SignKey -> Nat], signing' = [signing EXCEPT ![k] = 1],
           ~ signOnDemand', IsEmpty(transactions'), ~ IsEmpty(signedTransactions'),
           building'.at = "idle",
           \A e \in Execution : \/ pc'[e] = "idle"
                                \/ pc'[e] = "before" /\ signer'[e] = k /\ attempt'[e] = 1,
           \A e, d \in Execution : pc'[e] # "idle" /\ pc'[d] # "idle" => e = d,
           Held'
    PROVE  Awaited'
<1>1. signedTransactions'.list \in Seq(Tx)
  BY ListOps DEF TxTyped, ListsTyped
<1>2. \A h \in SignKey : signing'[h] = IF h = k THEN 1 ELSE 0
  BY DEF Quiet
<1>3. Exclusive'
  BY <1>2 DEF Exclusive
<1>4. Carried'
  <2>1. \A i \in DOMAIN signedTransactions'.list : i \in Nat /\ i >= 1
    BY <1>1
  <2>2. \A h \in SignKey : \A i \in DOMAIN signedTransactions'.list : ~ i < signing'[h]
    BY <1>2, <2>1
  <2> QED
    BY <2>2 DEF Carried
<1>5. Positions'
  BY DEF Positions, Sent
<1> QED
  BY <1>3, <1>4, <1>5 DEF Awaited

(* signWith() keeps what awaiting gives. *)
LEMMA SignWithAwaited ==
    ASSUME TxTyped, TxTyped', Orderly, ListsInv, Awaited, uses.awaits, UNCHANGED uses,
           NEW k \in uses.keys, SignWith(k)
    PROVE  Awaited'
<1>1. Quiet /\ Held /\ k \in SignKey /\ IsFrozen
  BY UsesTyped DEF SignWith, MayCall, Awaited
<1>2. /\ NodesKept /\ IdsKept /\ transactions'.list = <<>>
  BY <1>1, SignWithEffect
<1>3. UNCHANGED <<settingVars, signedTransactions, building, loopVars>>
  BY DEF SignWith
<1>4. SignedKept /\ BuiltKept
  BY <1>2, <1>3 DEF SignedKept, BuiltKept
<1>5. CASE signOnDemand
  <2>1. /\ publicKeys' = publicKeys \cup {k} /\ completed' = completed \cup {k}
        /\ UNCHANGED signing
    BY <1>3, <1>5 DEF SignWith, BeginSign, settingVars
  <2>2. Held'
    BY <1>1, <1>3, <1>5, <2>1 DEF Held, settingVars
  <2>3. UNCHANGED pc /\ \A h \in SignKey : signing'[h] = 0
    BY <1>1, <1>3, <2>1 DEF loopVars, Quiet
  <2> QED
    BY <1>1, <2>2, <2>3, QuietStep
<1>6. CASE ~ signOnDemand
  <2>1. /\ signing' = [signing EXCEPT ![k] = 1] /\ UNCHANGED <<completed, publicKeys>>
    BY <1>3, <1>6 DEF SignWith, BeginSign, settingVars
  <2>2. Held'
    BY <1>1, <1>2, <1>3, <1>4, <2>1, HeldFrame DEF settingVars, NodesKept, IdsKept, IsEmpty
  <2>3. ~ IsEmpty(signedTransactions')
    BY <1>1, <1>3, <1>6, FrozenSigned
  <2>4. /\ signing \in [SignKey -> Nat] /\ ~ signOnDemand' /\ IsEmpty(transactions')
        /\ building'.at = "idle" /\ \A e \in Execution : pc'[e] = "idle"
    BY <1>1, <1>2, <1>3, <1>6 DEF TxTyped, SigningTyped, settingVars, loopVars, Quiet, IsEmpty
  <2> QED
    BY <1>1, <2>1, <2>2, <2>3, <2>4, BeginSignAwaited
<1> QED
  BY <1>5, <1>6

(* addSignature() of a new key keeps what awaiting gives. *)
LEMMA AddNewSignatureAwaited ==
    ASSUME TxTyped, TxTyped', Orderly, ListsInv, Awaited, uses.awaits, UNCHANGED uses,
           NEW k \in uses.keys, AddNewSignature(k)
    PROVE  Awaited'
<1>1. Quiet /\ Held /\ k \in SignKey
  BY UsesTyped DEF AddNewSignature, MayCall, Awaited
<1>2. UNCHANGED <<publicKeys, signing, pc>>
  BY DEF AddNewSignature, loopVars
<1>3. transactions'.list = <<>>
  BY <1>1, AddNewSignatureEffect
<1>4. Held'
  <2>1. CASE IsEmpty(signedTransactions)
    <3>1. Freeze(NoClient, TRUE, {k}) /\ completed' = {k}
      BY <2>1 DEF AddNewSignature
    <3>2. NoClient \in Client \cup {NoClient} /\ TRUE \in BOOLEAN /\ {k} \in SUBSET SignKey
      BY <1>1
    <3>3. /\ ~ IsEmpty(nodeAccountIds')
          /\ ~ IsEmpty(transactionIds) => ~ IsEmpty(transactionIds')
          /\ Builds => signedTransactions'.list =
                [i \in DOMAIN nodeAccountIds'.list |->
                    Body(nodeAccountIds'.list[i], transactionIds'.list[1], {k})]
          /\ ~ Builds => signedTransactions'.list = signedTransactions.list
      BY <3>1, <3>2, FreezeTyped
    <3>4. ~ signOnDemand' /\ (operatorAccountId' \/ ~ IsEmpty(transactionIds'))
      BY <3>1, <3>3 DEF Freeze, FreezeSettings
    <3>5. \A i \in DOMAIN signedTransactions'.list : {k} \subseteq signedTransactions'.list[i].sigs
      <4>1. CASE Builds
        BY <3>3, <4>1 DEF Body
      <4>2. CASE ~ Builds
        BY <2>1, <3>3, <4>2 DEF IsEmpty
      <4> QED
        BY <4>1, <4>2
    <3> QED
      BY <1>3, <3>1, <3>3, <3>4, <3>5 DEF Held
  <2>2. CASE ~ IsEmpty(signedTransactions)
    <3>1. /\ completed' = IF signOnDemand THEN completed ELSE completed \cup {k}
          /\ UNCHANGED settingVars
      BY <2>2 DEF AddNewSignature
    <3>2. /\ NodesKept /\ IdsKept /\ SignedKept
          /\ \A i \in DOMAIN signedTransactions.list :
                k \in signedTransactions'.list[i].sigs
      BY <1>1, <2>2, AddNewSignatureEffect
    <3>3. ~ IsEmpty(nodeAccountIds') /\ ~ IsEmpty(transactionIds')
      BY <2>2, <3>2 DEF ListsInv, InRange, NodesKept, IdsKept, IsEmpty
    <3>4. signOnDemand' => completed' \subseteq publicKeys'
      BY <1>1, <1>2, <3>1 DEF Held, settingVars
    <3>5. ~ signOnDemand' => \A i \in DOMAIN signedTransactions'.list :
             completed' \subseteq signedTransactions'.list[i].sigs
      BY <1>1, <3>1, <3>2 DEF Held, SignedKept, settingVars
    <3> QED
      BY <1>3, <3>3, <3>4, <3>5 DEF Held
  <2> QED
    BY <2>1, <2>2
<1>5. \A h \in SignKey : signing'[h] = 0
  BY <1>1, <1>2 DEF Quiet
<1> QED
  BY <1>1, <1>2, <1>4, <1>5, QuietStep

(* addSignature() keeps what awaiting gives: where it only freezes, nothing *)
(* has been signed or built.                                               *)
LEMMA AddSignatureAwaited ==
    ASSUME TxTyped, TxTyped', Orderly, ListsInv, Backed, Awaited, uses.awaits, UNCHANGED uses,
           NEW k \in uses.keys, AddSignature(k)
    PROVE  Awaited'
<1>1. CASE AddNewSignature(k)
  BY <1>1, AddNewSignatureAwaited
<1>2. CASE FreezeWith(NoClient)
  <2>1. Quiet /\ UNCHANGED pc /\ completed' = {}
    BY <1>2 DEF FreezeWith, MayCall, loopVars
  <2>2. \A h \in SignKey : signing'[h] = 0
    BY <1>2, <2>1 DEF FreezeWith, Quiet
  <2>3. Held'
    BY <2>1 DEF Held
  <2> QED
    BY <2>1, <2>2, <2>3, QuietStep
<1>3. CASE IsEmpty(signedTransactions) /\ FreezeWithThrows(NoClient)
  <2>1. Quiet /\ Held /\ NoClient \in Client \cup {NoClient}
    BY <1>3 DEF FreezeWithThrows, MayCall, Awaited
  <2>2. /\ UNCHANGED <<transactionIds, signedTransactions, transactions, publicKeys,
                       completed, pc, signing>>
        /\ ~ signOnDemand'
        /\ operatorAccountId => operatorAccountId'
    BY <1>3 DEF FreezeWithThrows, FreezeSettings, idVars, signVars, loopVars
  <2>3. ~ IsEmpty(nodeAccountIds) => ~ IsEmpty(nodeAccountIds')
    BY <1>3, <2>1, FreezeWithThrowsEffect DEF NodesKept, IsEmpty
  <2>4. signedTransactions.list = <<>> /\ transactions.list = <<>>
    BY <1>3 DEF Backed, IsEmpty
  <2>5. Held'
    BY <2>1, <2>2, <2>3, <2>4, OrderlyKept DEF Held, IsEmpty
  <2>6. \A h \in SignKey : signing'[h] = 0
    BY <2>1, <2>2 DEF Quiet
  <2> QED
    BY <2>1, <2>2, <2>5, <2>6, QuietStep
<1> QED
  BY <1>1, <1>2, <1>3, AddSignatureCases

(* execute() keeps what awaiting gives: it drops what was built before a   *)
(* new signature.                                                          *)
LEMMA ExecuteAwaited ==
    ASSUME TxTyped, TxTyped', Orderly, ListsInv, Awaited, uses.awaits, UNCHANGED uses,
           NEW e \in uses.executions, NEW c \in uses.execute, Execute(e, c)
    PROVE  Awaited'
<1>1. Quiet /\ Held /\ e \in Execution /\ c \in Client
  BY UsesTyped DEF Execute, MayCall, Awaited
<1>2. /\ \/ /\ IsFrozen /\ NodesKept /\ IdsKept
            /\ UNCHANGED <<signOnDemand, signedTransactions>>
            /\ operatorAccountId => operatorAccountId'
         \/ ~ IsFrozen
      /\ \/ /\ Signs /\ ~ signOnDemand' /\ transactions'.list = <<>>
            /\ signing' = [signing EXCEPT ![operator'] = 1]
            /\ completed' = Done /\ UNCHANGED publicKeys
            /\ pc' = [pc EXCEPT ![e] = "before"]
            /\ signer' = [signer EXCEPT ![e] = operator']
         \/ /\ Signs /\ signOnDemand'
            /\ completed' = Done \cup {operator'}
            /\ publicKeys' = publicKeys \cup {operator'}
            /\ UNCHANGED signing /\ pc' = [pc EXCEPT ![e] = "loop"]
         \/ /\ ~ Signs /\ completed' = Done
            /\ UNCHANGED <<transactions, publicKeys, signing>>
            /\ pc' = [pc EXCEPT ![e] = "loop"]
  BY <1>1, ExecuteEffect
<1>3. /\ attempt' = [attempt EXCEPT ![e] = 1] /\ UNCHANGED building
      /\ Signs => signOnDemand' \/ ~ IsEmpty(signedTransactions')
  BY DEF Execute, Signs
<1>4. /\ pc \in [Execution -> Places] /\ signer \in [Execution -> SignKey \cup {NoKey}]
      /\ attempt \in [Execution -> Nat] /\ signing \in [SignKey -> Nat]
      /\ signedTransactions'.list \in Seq(Tx)
      /\ Signs => operator' \in SignKey
  BY ListOps DEF TxTyped, LoopTyped, SigningTyped, SettingsTyped, ListsTyped, Signs
<1>5. \A d \in Execution : d # e => pc'[d] = "idle"
  BY <1>1, <1>2, <1>4 DEF Quiet
<1>6. \A d, f \in Execution : pc'[d] # "idle" /\ pc'[f] # "idle" => d = f
  BY <1>5
<1>7. ASSUME completed' = Done, UNCHANGED publicKeys,
             transactions'.list = <<>> \/ UNCHANGED transactions
      PROVE  Held'
  <2>1. CASE IsFrozen
    <3>1. SignedKept /\ BuiltKept
      BY <1>2, <1>7, <2>1 DEF SignedKept, BuiltKept
    <3>2. completed' = completed
      BY <1>7, <2>1 DEF Done
    <3> QED
      BY <1>1, <1>2, <1>7, <2>1, <3>1, <3>2, HeldFrame DEF NodesKept, IdsKept, IsEmpty
  <2>2. CASE ~ IsFrozen
    BY <1>7, <2>2 DEF Done, Held
  <2> QED
    BY <2>1, <2>2
<1>8. CASE /\ Signs /\ ~ signOnDemand' /\ transactions'.list = <<>>
           /\ signing' = [signing EXCEPT ![operator'] = 1]
           /\ completed' = Done /\ UNCHANGED publicKeys
           /\ pc' = [pc EXCEPT ![e] = "before"]
           /\ signer' = [signer EXCEPT ![e] = operator']
  <2>1. PICK k \in SignKey : k = operator'
    BY <1>4, <1>8
  <2>2. Held'
    BY <1>7, <1>8
  <2>3. /\ ~ IsEmpty(signedTransactions') /\ IsEmpty(transactions')
        /\ building'.at = "idle" /\ signing' = [signing EXCEPT ![k] = 1]
    BY <1>1, <1>3, <1>8, <2>1 DEF Quiet, IsEmpty
  <2>4. \A d \in Execution : \/ pc'[d] = "idle"
                             \/ pc'[d] = "before" /\ signer'[d] = k /\ attempt'[d] = 1
    BY <1>1, <1>3, <1>4, <1>5, <1>8, <2>1
  <2> QED
    BY <1>1, <1>4, <1>6, <1>8, <2>2, <2>3, <2>4, BeginSignAwaited
<1>9. ASSUME pc' = [pc EXCEPT ![e] = "loop"], UNCHANGED signing, Held' PROVE Awaited'
  <2>1. /\ pc'[e] = "loop" /\ attempt'[e] = 1 /\ \A k \in SignKey : signing'[k] = 0
    BY <1>1, <1>3, <1>4, <1>9 DEF Quiet
  <2>2. Exclusive'
    BY <1>5, <1>6, <2>1 DEF Exclusive
  <2>3. Carried'
    <3>1. \A i \in DOMAIN signedTransactions'.list : i \in Nat
      BY <1>4
    <3> QED
      BY <1>5, <2>1, <3>1 DEF Carried
  <2>4. Positions'
    BY <1>5, <2>1 DEF Positions, Sent
  <2> QED
    BY <1>9, <2>2, <2>3, <2>4 DEF Awaited
<1>10. CASE /\ Signs /\ signOnDemand'
            /\ completed' = Done \cup {operator'}
            /\ publicKeys' = publicKeys \cup {operator'}
            /\ UNCHANGED signing /\ pc' = [pc EXCEPT ![e] = "loop"]
  <2>1. Done \subseteq publicKeys
    BY <1>1, <1>2, <1>10 DEF Done, Held
  <2>2. Held'
    BY <1>10, <2>1 DEF Held
  <2> QED
    BY <1>9, <1>10, <2>2
<1>11. CASE /\ ~ Signs /\ completed' = Done
            /\ UNCHANGED <<transactions, publicKeys, signing>>
            /\ pc' = [pc EXCEPT ![e] = "loop"]
  BY <1>7, <1>9, <1>11
<1> QED
  BY <1>2, <1>8, <1>10, <1>11

(* An answer of a signer keeps what awaiting gives; the last one fulfils   *)
(* its promise.                                                            *)
LEMMA SignAwaited ==
    ASSUME TxTyped, TxTyped', ListsInv, Awaited, UNCHANGED uses, NEW k \in SignKey, Sign(k)
    PROVE  Awaited'
<1>1. /\ ~ signOnDemand /\ IsEmpty(transactions) /\ ~ IsEmpty(signedTransactions)
      /\ \A e \in Execution : pc[e] = "idle" \/ (pc[e] = "before" /\ signer[e] = k)
      /\ building.at = "idle" /\ signing[k] > 0
  BY DEF Sign, Awaited, Exclusive
<1>2. /\ SignedKept
      /\ \A i \in DOMAIN signedTransactions.list :
            i = signing[k] => k \in signedTransactions'.list[i].sigs
  BY SignEffect
<1>3. /\ UNCHANGED <<settingVars, idVars, nodeAccountIds, transactions, publicKeys,
                     building, loopVars>>
      /\ \/ /\ signing[k] < Len(signedTransactions.list)
            /\ signing' = [signing EXCEPT ![k] = @ + 1] /\ UNCHANGED completed
         \/ /\ ~ signing[k] < Len(signedTransactions.list)
            /\ signing' = [signing EXCEPT ![k] = 0] /\ completed' = completed \cup {k}
  BY DEF Sign
<1>4. /\ signing \in [SignKey -> Nat] /\ signedTransactions.list \in Seq(Tx)
      /\ signedTransactions'.list \in Seq(Tx)
      /\ \A i \in DOMAIN signedTransactions.list :
            i \in Nat /\ i <= Len(signedTransactions.list)
  <2>1. /\ signing \in [SignKey -> Nat] /\ signedTransactions.list \in Seq(Tx)
        /\ signedTransactions'.list \in Seq(Tx)
    BY ListOps DEF TxTyped, SigningTyped, ListsTyped
  <2> QED
    BY <2>1
<1>5. ~ IsEmpty(signedTransactions')
  BY <1>1, <1>2, EmptyKept
<1>6. Exclusive'
  <2>1. \A h \in SignKey : signing'[h] > 0 => signing[h] > 0
    BY <1>1, <1>3, <1>4
  <2> QED
    BY <1>3, <1>5, <2>1 DEF Awaited, Exclusive, settingVars, loopVars
<1>7. \A i \in DOMAIN signedTransactions.list :
         i < signing[k] \/ i = signing[k] => k \in signedTransactions'.list[i].sigs
  BY <1>2 DEF Awaited, Carried, SignedKept
<1>8. Held'
  <2>1. ~ IsEmpty(nodeAccountIds') /\ ~ IsEmpty(transactionIds')
    BY <1>1, <1>3 DEF ListsInv, InRange, idVars
  <2>2. \A i \in DOMAIN signedTransactions'.list :
           completed' \subseteq signedTransactions'.list[i].sigs
    <3>1. \A i \in DOMAIN signedTransactions'.list :
             /\ i \in DOMAIN signedTransactions.list
             /\ completed \subseteq signedTransactions'.list[i].sigs
      BY <1>1, <1>2 DEF Awaited, Held, SignedKept
    <3>2. ~ signing[k] < Len(signedTransactions.list) =>
             \A i \in DOMAIN signedTransactions.list : k \in signedTransactions'.list[i].sigs
      <4>1. Len(signedTransactions.list) \in Nat /\ signing[k] \in Nat
        BY <1>4
      <4>2. ~ signing[k] < Len(signedTransactions.list) =>
               \A i \in DOMAIN signedTransactions.list : i < signing[k] \/ i = signing[k]
        BY <1>4, <4>1
      <4> QED
        BY <1>7, <4>2
    <3> QED
      BY <1>3, <3>1, <3>2
  <2> QED
    BY <1>1, <1>3, <2>1, <2>2 DEF Held, IsEmpty, settingVars
<1>9. Carried'
  <2>1. ASSUME NEW h \in SignKey, NEW i \in DOMAIN signedTransactions'.list, i < signing'[h]
        PROVE  h \in signedTransactions'.list[i].sigs
    <3>1. i \in DOMAIN signedTransactions.list /\ i \in Nat
      BY <1>2, <1>4 DEF SignedKept
    <3>2. CASE h = k
      <4>1. i < signing[k] \/ i = signing[k]
        BY <1>3, <1>4, <2>1, <3>1, <3>2
      <4> QED
        BY <1>7, <3>1, <3>2, <4>1
    <3>3. CASE h # k
      <4>1. i < signing[h]
        BY <1>3, <1>4, <2>1, <3>3
      <4> QED
        BY <1>2, <3>1, <4>1 DEF Awaited, Carried, SignedKept
    <3> QED
      BY <3>2, <3>3
  <2>2. \A e \in Execution : pc'[e] \notin {"making", "calling"}
    BY <1>1, <1>3 DEF loopVars
  <2> QED
    BY <2>1, <2>2 DEF Carried
<1>10. Positions'
  BY <1>1, <1>3 DEF Positions, Sent, loopVars
<1> QED
  BY <1>6, <1>8, <1>9, <1>10 DEF Awaited

(* A signer that fails keeps what awaiting gives. *)
LEMMA SignerFailsAwaited ==
    ASSUME TxTyped, TxTyped', Awaited, UNCHANGED uses, NEW k \in SignKey, SignerFails(k)
    PROVE  Awaited'
<1>1. /\ \A e \in Execution : pc[e] = "idle" \/ (pc[e] = "before" /\ signer[e] = k)
      /\ signing[k] > 0
  BY DEF SignerFails, Awaited, Exclusive
<1>2. /\ UNCHANGED <<settingVars, idVars, nodeAccountIds, signedTransactions, transactions,
                     publicKeys, completed, building, signer, attempt>>
      /\ \A e \in Execution : pc'[e] = "idle"
      /\ \A h \in SignKey : signing'[h] > 0 => signing'[h] = signing[h] /\ h # k
      /\ \A h \in SignKey : signing'[h] = signing[h] \/ signing'[h] = 0
  BY <1>1 DEF SignerFails, TxTyped, SigningTyped
<1>3. Held'
  BY <1>2, OrderlyKept DEF Awaited, Held, settingVars, idVars
<1>4. Exclusive'
  BY <1>2 DEF Awaited, Exclusive, settingVars
<1>5. Carried'
  <2>1. signedTransactions.list \in Seq(Tx)
    BY ListOps DEF TxTyped, ListsTyped
  <2>2. \A i \in DOMAIN signedTransactions.list : i \in Nat
    BY <2>1
  <2> QED
    BY <1>2, <2>2 DEF Awaited, Carried
<1>6. Positions'
  BY <1>2 DEF Positions, Sent
<1> QED
  BY <1>3, <1>4, <1>5, <1>6 DEF Awaited

(* So do the steps of toBytesAsync(). *)
LEMMA BuildingAwaited ==
    ASSUME TxTyped, TxTyped', Orderly, ListsInv, Awaited, UNCHANGED uses,
           BuildNext \/ BuildFails \/ BuildEnds
    PROVE  Awaited'
<1>1. UNCHANGED <<settingVars, idVars, signVars, loopVars>> /\ building.at = "build"
  BY DEF BuildNext, BuildFails, BuildEnds, ListsInv, InRange
<1>2. \A k \in SignKey : signing[k] = 0
  <2>1. signing \in [SignKey -> Nat] /\ \A k \in SignKey : ~ signing[k] > 0
    BY <1>1 DEF Awaited, Exclusive, TxTyped, SigningTyped
  <2> QED
    BY <2>1
<1>3. signedTransactions'.list = signedTransactions.list
  <2>1. CASE BuildNext
    BY <2>1 DEF BuildNext
  <2>2. CASE BuildFails \/ BuildEnds
    BY <2>2, BuildEndsEffect
  <2> QED
    BY <2>1, <2>2
<1>4. Exclusive' /\ Carried'
  BY <1>1, <1>2, <1>3 DEF Awaited, Exclusive, Carried, settingVars, signVars, loopVars
<1>5. CASE BuildNext
  <2>1. signOnDemand
    BY <1>5 DEF BuildNext, ListsInv, Locks, Orderly
  <2>2. Held' /\ Positions'
    BY <1>1, <2>1 DEF Awaited, Held, Positions, settingVars, signVars
  <2> QED
    BY <1>4, <2>2 DEF Awaited
<1>6. CASE BuildFails \/ BuildEnds
  <2>1. transactions'.list = transactions.list /\ UNCHANGED nodeAccountIds
    BY <1>6, BuildEndsEffect DEF BuildFails, BuildEnds
  <2>2. SignedKept /\ BuiltKept
    BY <1>3, <2>1 DEF SignedKept, BuiltKept
  <2>3. Held'
    BY <1>1, <2>1, <2>2, HeldFrame DEF Awaited, settingVars, signVars, idVars
  <2>4. Positions'
    BY <1>1, <2>1 DEF Awaited, Positions, Sent, settingVars, loopVars
  <2> QED
    BY <1>4, <2>3, <2>4 DEF Awaited
<1> QED
  BY <1>5, <1>6

(* No signer is at work beside an execution that is past its own. *)
LEMMA NoSigning ==
    ASSUME TxTyped, Awaited, NEW e \in Execution,
           pc[e] \notin {"idle", "before"} \/ (pc[e] = "before" /\ signing[signer[e]] = 0)
    PROVE  /\ \A k \in SignKey : signing[k] = 0
           /\ \A d \in Execution \ {e} : pc[d] = "idle"
<1>1. signing \in [SignKey -> Nat]
  BY DEF TxTyped, SigningTyped
<1>2. \A k \in SignKey : ~ signing[k] > 0
  BY <1>1 DEF Awaited, Exclusive
<1>3. \A d \in Execution \ {e} : pc[d] = "idle"
  BY DEF Awaited, Exclusive
<1> QED
  BY <1>1, <1>2, <1>3

(* The steps of an execution between its attempts keep what awaiting       *)
(* gives.                                                                  *)
LEMMA LoopAwaited ==
    ASSUME TxTyped, TxTyped', Awaited, UNCHANGED uses, NEW e \in Execution,
           \/ BeforeExecuted(e) \/ ExecuteFails(e) \/ Retried(e) \/ RetriedExpired(e)
           \/ Answered(e)
    PROVE  Awaited'
<1>1. /\ UNCHANGED <<settingVars, nodeAccountIds, signedTransactions, transactions, signVars,
                     building>>
      /\ pc \in [Execution -> Places] /\ request \in [Execution -> Tx \cup {NoTx}]
      /\ nodeId \in [Execution -> NodeId \cup {NoTx}] /\ attempt \in [Execution -> Nat]
  BY DEF BeforeExecuted, ExecuteFails, Retried, RetriedExpired, Answered, TxTyped, LoopTyped
<1>2. /\ \A k \in SignKey : signing[k] = 0
      /\ \A d \in Execution \ {e} : pc[d] = "idle"
  BY NoSigning DEF BeforeExecuted, ExecuteFails, Retried, RetriedExpired, Answered
<1>3. \A d \in Execution \ {e} : pc'[d] = "idle"
  BY <1>1, <1>2 DEF BeforeExecuted, ExecuteFails, Retried, RetriedExpired, Answered, Ends
<1>4. SignedKept /\ BuiltKept /\ (~ IsEmpty(transactionIds) => ~ IsEmpty(transactionIds'))
  <2>1. SignedKept /\ BuiltKept
    BY <1>1 DEF SignedKept, BuiltKept
  <2>2. ~ IsEmpty(transactionIds) => ~ IsEmpty(transactionIds')
    BY LoopEffect, RetriedExpiredEffect DEF IdsKept, IsEmpty
  <2> QED
    BY <2>1, <2>2
<1>5. Held'
  BY <1>1, <1>4, HeldFrame DEF Awaited, settingVars, signVars
<1>6. \/ pc'[e] = "idle"
      \/ pc'[e] = "loop" /\ attempt'[e] = 1
      \/ /\ pc'[e] = "loop" /\ pc[e] = "calling" /\ nodeId'[e] = nodeId[e]
  <2>1. CASE BeforeExecuted(e)
    BY <1>1, <2>1 DEF BeforeExecuted, Awaited, Exclusive
  <2>2. CASE Retried(e) \/ RetriedExpired(e)
    BY <1>1, <2>2 DEF Retried, RetriedExpired
  <2>3. CASE ExecuteFails(e) \/ Answered(e)
    BY <1>1, <2>3 DEF ExecuteFails, Answered, Ends
  <2> QED
    BY <2>1, <2>2, <2>3
<1>7. Exclusive'
  BY <1>1, <1>2, <1>3, <1>6 DEF Exclusive, signVars
<1>8. Carried'
  <2>1. \A k \in SignKey : signing'[k] = signing[k]
    BY <1>1 DEF signVars
  <2> QED
    BY <1>1, <1>3, <1>6, <2>1 DEF Awaited, Carried
<1>9. Positions'
  BY <1>1, <1>3, <1>6 DEF Awaited, Positions, Sent, settingVars
<1> QED
  BY <1>5, <1>7, <1>8, <1>9 DEF Awaited

(* So does an attempt that throws. *)
LEMMA AttemptThrowsAwaited ==
    ASSUME TxTyped, TxTyped', ListsInv, Awaited, UNCHANGED uses, NEW e \in Execution,
           AttemptThrows(e)
    PROVE  Awaited'
<1>1. /\ UNCHANGED <<settingVars, idVars, signedTransactions, transactions, signVars, building>>
      /\ pc \in [Execution -> Places] /\ pc[e] = "loop" /\ Ends(e)
  BY DEF AttemptThrows, TxTyped, LoopTyped
<1>2. /\ \A k \in SignKey : signing[k] = 0
      /\ \A d \in Execution \ {e} : pc[d] = "idle"
  BY <1>1, NoSigning
<1>3. \A d \in Execution : pc'[d] = "idle"
  BY <1>1, <1>2 DEF Ends
<1>4. SignedKept /\ BuiltKept /\ (~ IsEmpty(nodeAccountIds) => ~ IsEmpty(nodeAccountIds'))
  <2>1. ~ IsEmpty(nodeAccountIds) => ~ IsEmpty(nodeAccountIds')
    BY AttemptThrowsEffect DEF ListsInv
  <2> QED
    BY <1>1, <2>1 DEF SignedKept, BuiltKept
<1>5. Held'
  BY <1>1, <1>4, HeldFrame DEF Awaited, settingVars, signVars, idVars
<1>6. Exclusive' /\ Carried' /\ Positions'
  BY <1>1, <1>2, <1>3 DEF Exclusive, Awaited, Carried, Positions, Sent, signVars
<1> QED
  BY <1>5, <1>6 DEF Awaited

(* A request that was made moves the nodes on, once. *)
LEMMA MadeAwaited ==
    ASSUME TxTyped, TxTyped', ListsInv, Requests, Awaited, UNCHANGED uses, NEW e \in Execution,
           Made(e)
    PROVE  Awaited'
<1>1. /\ UNCHANGED <<settingVars, idVars, signedTransactions, transactions, signVars, building,
                     nodeId>>
      /\ pc[e] \in {"making", "onDemand"}
  BY DEF Made
<1>2. /\ \A k \in SignKey : signing[k] = 0
      /\ \A d \in Execution \ {e} : pc[d] = "idle"
  BY <1>1, NoSigning
<1>3. /\ nodeAccountIds' = Advanced(nodeAccountIds)
      /\ nodeAccountIds'.list = nodeAccountIds.list
      /\ request'[e].sigs = IF pc[e] = "onDemand" THEN publicKeys ELSE request[e].sigs
      /\ \A d \in Execution \ {e} : pc'[d] = pc[d]
      /\ pc'[e] = "calling"
  BY MadeEffect DEF ListsInv
<1>4. Held'
  BY <1>1, <1>3, OrderlyKept DEF Awaited, Held, settingVars, signVars, idVars, IsEmpty
<1>5. Exclusive'
  BY <1>1, <1>2, <1>3 DEF Exclusive, signVars
<1>6. Carried'
  <2>1. completed' \subseteq request'[e].sigs
    <3>1. CASE pc[e] = "onDemand"
      BY <1>1, <1>3, <3>1 DEF Awaited, Exclusive, Held, signVars
    <3>2. CASE pc[e] = "making"
      BY <1>1, <1>3, <3>2 DEF Awaited, Carried, signVars
    <3> QED
      BY <1>1, <3>1, <3>2
  <2>2. \A d \in Execution : pc'[d] \in {"making", "calling"} =>
           completed' \subseteq request'[d].sigs
    BY <1>2, <1>3, <2>1
  <2>3. UNCHANGED <<signing, signedTransactions>>
    BY <1>1 DEF signVars
  <2> QED
    BY <2>2, <2>3 DEF Awaited, Carried
<1>7. Positions'
  <2> SUFFICES ASSUME ~ signOnDemand
               PROVE  \E p \in DOMAIN nodeAccountIds'.list :
                         /\ nodeId'[e] = nodeAccountIds'.list[p]
                         /\ nodeAccountIds'.index = (p % Len(nodeAccountIds'.list)) + 1
    BY <1>1, <1>2, <1>3 DEF Positions, Sent, settingVars
  <2>1. ~ IsEmpty(nodeAccountIds) /\ nodeId[e] = Current(nodeAccountIds)
    BY <1>1 DEF Awaited, Exclusive, Positions
  <2>2. nodeAccountIds.index \in DOMAIN nodeAccountIds.list
    BY <2>1 DEF ListsInv, InRange
  <2>3. nodeAccountIds'.index = (nodeAccountIds.index % Len(nodeAccountIds.list)) + 1
    BY <1>3, <2>1, ListAdvanced DEF TxTyped, ListsTyped
  <2> QED
    BY <1>1, <1>3, <2>1, <2>2, <2>3 DEF Current
<1> QED
  BY <1>4, <1>5, <1>6, <1>7 DEF Awaited

(* An attempt takes a transaction with every signature promised so far. *)
LEMMA AttemptAwaited ==
    ASSUME TxTyped, TxTyped', Orderly, ListsInv, Awaited, UNCHANGED uses,
           NEW e \in uses.executions, Attempt(e)
    PROVE  Awaited'
<1>0. e \in Execution
  BY UsesTyped
<1>1. /\ UNCHANGED <<settingVars, idVars, signedTransactions, signVars, building, attempt>>
      /\ pc[e] = "loop"
  BY DEF Attempt
<1>2. /\ \A k \in SignKey : signing[k] = 0
      /\ \A d \in Execution \ {e} : pc[d] = "idle"
  BY <1>0, <1>1, NoSigning
<1>3. ~ signOnDemand /\ ~ IsEmpty(signedTransactions) => nodeAccountIds.locked
  BY AttemptLists
<1>4. /\ \A d \in Execution \ {e} : pc'[d] = pc[d]
      /\ \/ signOnDemand /\ UNCHANGED transactions /\ pc'[e] = "onDemand"
         \/ /\ ~ signOnDemand /\ UNCHANGED nodeAccountIds /\ pc'[e] = "making"
            /\ ~ IsEmpty(nodeAccountIds) /\ nodeId'[e] = Current(nodeAccountIds)
            /\ nodeAccountIds.index \in DOMAIN signedTransactions.list
            /\ nodeAccountIds.index \in DOMAIN transactions'.list
            /\ request'[e] = transactions'.list[nodeAccountIds.index]
            /\ \A j \in DOMAIN transactions'.list :
                 \/ j # nodeAccountIds.index /\ transactions'.list[j] = NoTx
                 \/ /\ j \in DOMAIN transactions.list
                    /\ transactions'.list[j] = transactions.list[j]
                    /\ transactions'.list[j] # NoTx
                 \/ /\ j = nodeAccountIds.index
                    /\ transactions'.list[j] = signedTransactions.list[j]
  BY <1>0, <1>3, AttemptStep DEF ListsInv
<1>5. Exclusive'
  BY <1>1, <1>2, <1>4 DEF Exclusive, signVars, settingVars
<1>6. UNCHANGED <<signing, completed, publicKeys, signOnDemand>>
  BY <1>1 DEF signVars, settingVars
<1>7. CASE signOnDemand
  <2>1. Held' /\ Positions'
    BY <1>6, <1>7 DEF Awaited, Held, Positions
  <2>2. Carried'
    BY <1>1, <1>2, <1>4, <1>6, <1>7 DEF Awaited, Carried
  <2> QED
    BY <1>5, <2>1, <2>2 DEF Awaited
<1>8. CASE ~ signOnDemand
  <2>1. /\ \A j \in DOMAIN transactions'.list :
              \/ j # nodeAccountIds.index /\ transactions'.list[j] = NoTx
              \/ completed \subseteq transactions'.list[j].sigs
        /\ completed \subseteq request'[e].sigs
    BY <1>4, <1>8 DEF Awaited, Held
  <2>2. Held'
    BY <1>1, <1>4, <1>6, <1>8, <2>1, OrderlyKept DEF Awaited, Held, settingVars, idVars
  <2>3. Carried'
    BY <1>1, <1>2, <1>4, <1>6, <2>1 DEF Awaited, Carried
  <2>4. Positions'
    BY <1>2, <1>4, <1>8 DEF Positions, Sent
  <2> QED
    BY <1>5, <2>2, <2>3, <2>4 DEF Awaited
<1> QED
  BY <1>7, <1>8

(* Every step keeps what awaiting gives. *)
LEMMA AwaitedStep ==
    ASSUME TxTyped, TxTyped', Orderly, ListsInv, Requests, Backed, Awaited, uses.awaits, TxNext
    PROVE  Awaited'
<1>1. UNCHANGED uses /\ uses.executions \subseteq Execution /\ uses.keys \subseteq SignKey
  BY UsesTyped DEF TxNext
<1>2. CASE Setters
  BY <1>1, <1>2, CallsAwaited DEF Setters
<1>3. CASE Signing
  BY <1>1, <1>3, SignWithAwaited, SignAwaited, SignerFailsAwaited, AddSignatureAwaited
     DEF Signing
<1>4. CASE Serializing
  BY <1>1, <1>4, CallsAwaited, BuildingAwaited DEF Serializing
<1>5. CASE Executing
  BY <1>1, <1>5, ExecuteAwaited, LoopAwaited, AttemptAwaited, AttemptThrowsAwaited,
     MadeAwaited DEF Executing
<1> QED
  BY <1>2, <1>3, <1>4, <1>5 DEF TxNext

(* The invariant of an orderly application that awaits its calls. *)
AwaitedInv == Orderly /\ uses.awaits => Awaited

(* A signature that was promised stays held, whatever is called next, and  *)
(* the index of the nodes stays one past the node that was last tried.     *)
THEOREM TxAwaitedInv == TxSpec => []AwaitedInv
<1>1. TxInit => AwaitedInv
  BY AwaitedInit DEF AwaitedInv
<1>2. SendsInv /\ SendsInv' /\ AwaitedInv /\ [TxNext]_txVars => AwaitedInv'
  <2> SUFFICES ASSUME SendsInv, SendsInv', AwaitedInv, [TxNext]_txVars, Orderly', uses'.awaits
               PROVE  Awaited'
    BY DEF AwaitedInv
  <2>1. CASE TxNext
    <3>1. Orderly /\ uses.awaits
      BY <2>1, OrderlyKept DEF TxNext
    <3>2. TxTyped /\ ListsInv /\ Requests /\ Backed /\ Awaited /\ TxTyped'
      BY <3>1 DEF SendsInv, AwaitedInv
    <3> QED
      BY <2>1, <3>1, <3>2, AwaitedStep
  <2>2. CASE UNCHANGED txVars
    <3>1. Orderly /\ uses.awaits
      BY <2>2, StutterKept, OrderlyKept
    <3>2. Awaited
      BY <3>1 DEF AwaitedInv
    <3> QED
      BY <2>2, <3>2 DEF txVars, settingVars, idVars, signVars, loopVars, Awaited, Exclusive,
         Held, Carried, Positions, Sent, OnDemandOnly, Clients
  <2> QED
    BY <2>1, <2>2
<1> QED
  BY <1>1, <1>2, TxSendsInv, PTL DEF TxSpec

(* The transaction that is sent carries the signature of every key whose   *)
(* signWith() has resolved or that addSignature() was given, since it was  *)
(* frozen.                                                                 *)
THEOREM TxSignaturesSent == TxSpec => [](Orderly => SignaturesSent)
<1>1. AwaitedInv => (Orderly => SignaturesSent)
  BY DEF AwaitedInv, Awaited, Carried, SignaturesSent
<1> QED
  BY <1>1, TxAwaitedInv, PTL
------------------------------------------------------------------------------

------------------------------------------------------------------------------
(* A retry goes to another node. *)

(* No value comes twice in a sequence. *)
Distinct(s) == \A i, j \in DOMAIN s : s[i] = s[j] => i = j

(* No account comes twice in a list of nodes that the client or the        *)
(* application gives. So it is in a network with one address per account;  *)
(* where an account has several, _getNumberOfMostHealthyNodes() may take   *)
(* it once per address (ManagedNetwork.js:248), and a retry may go to the  *)
(* same account.                                                           *)
DistinctNodes == \A s \in ClientNodes \cup ExplicitNodes : Distinct(s)

(* The list of the transaction has none either. *)
NodesDiffer == Distinct(nodeAccountIds.list)

(* The nodes of a freeze are those of the client, or stay. *)
LEMMA PickedNodes ==
    ASSUME TxTyped, NEW c, NEW lock \in BOOLEAN, PickNodes(c, lock)
    PROVE  nodeAccountIds'.list = nodeAccountIds.list \/ nodeAccountIds'.list \in ClientNodes
<1>1. nodeAccountIds \in ListType(NodeId)
  BY DEF TxTyped, ListsTyped
<1>2. CASE nodeAccountIds' = LockedIf(lock, nodeAccountIds)
  BY <1>1, <1>2, ListLockedIf
<1>3. ASSUME NEW nodes \in ClientNodes,
             nodeAccountIds' = LockedIf(lock, SetList(nodeAccountIds, nodes))
      PROVE  nodeAccountIds'.list = nodes
  <2>1. nodes \in Seq(NodeId)
    BY NodeConstants
  <2>2. /\ SetList(nodeAccountIds, nodes) \in ListType(NodeId)
        /\ SetList(nodeAccountIds, nodes).list = nodes
    BY <1>1, <2>1, ListSet
  <2> QED
    BY <1>3, <2>2, ListLockedIf
<1> QED
  BY <1>2, <1>3 DEF PickNodes

(* Every step leaves the nodes of the list distinct. *)
LEMMA NodesDifferStep ==
    ASSUME TxTyped, TxTyped', Orderly, ListsInv, Requests, DistinctNodes, NodesDiffer, TxNext
    PROVE  NodesDiffer'
<1>1. /\ UNCHANGED uses /\ uses.executions \subseteq Execution /\ uses.keys \subseteq SignKey
      /\ uses.execute \subseteq Client /\ uses.nodes \subseteq ExplicitNodes
      /\ uses.freezeWith \subseteq Client \cup {NoClient}
      /\ nodeAccountIds \in ListType(NodeId)
  BY UsesTyped DEF TxNext, TxTyped, ListsTyped
<1>2. ASSUME \/ nodeAccountIds'.list = nodeAccountIds.list
             \/ nodeAccountIds'.list \in ClientNodes \cup ExplicitNodes
      PROVE  NodesDiffer'
  BY <1>2 DEF NodesDiffer, DistinctNodes
<1>3. CASE Setters
  <2>1. ASSUME NEW nodes \in uses.nodes, SetNodeAccountIds(nodes) PROVE NodesDiffer'
    <3>1. nodes \in Seq(NodeId) /\ nodeAccountIds' = SetLocked(SetList(nodeAccountIds, nodes))
      BY <1>1, <2>1, NodeConstants DEF SetNodeAccountIds
    <3>2. /\ SetList(nodeAccountIds, nodes) \in ListType(NodeId)
          /\ SetList(nodeAccountIds, nodes).list = nodes
      BY <1>1, <3>1, ListSet
    <3>3. nodeAccountIds'.list = nodes
      BY <3>1, <3>2, ListOps
    <3> QED
      BY <1>1, <1>2, <3>3
  <2>2. ASSUME NEW c \in uses.freezeWith, FreezeWith(c) \/ FreezeWithThrows(c)
        PROVE  NodesDiffer'
    <3>1. FALSE \in BOOLEAN /\ (PickNodes(c, FALSE) \/ UNCHANGED nodeAccountIds)
      BY <2>2 DEF FreezeWith, FreezeWithThrows, Freeze
    <3> QED
      BY <1>2, <3>1, PickedNodes
  <2>3. ASSUME NEW m \in Memos, SetField(m) PROVE NodesDiffer'
    BY <1>2, <2>3 DEF SetField
  <2>4. CASE SetTransactionId \/ GetTransactionId
    BY <1>2, <2>4 DEF SetTransactionId, GetTransactionId
  <2>5. CASE GetNodeAccountIds
    BY <1>1, <1>2, <2>5, SettersTyped DEF NodesKept
  <2> QED
    BY <1>3, <2>1, <2>2, <2>3, <2>4, <2>5 DEF Setters
<1>4. CASE Signing
  <2>1. ASSUME NEW k \in uses.keys, SignWith(k) PROVE NodesDiffer'
    BY <1>1, <1>2, <2>1, SignWithEffect DEF NodesKept
  <2>2. ASSUME NEW k \in uses.keys, Sign(k) \/ SignerFails(k) PROVE NodesDiffer'
    BY <1>2, <2>2 DEF Sign, SignerFails
  <2>3. ASSUME NEW k \in uses.keys, AddSignature(k) PROVE NodesDiffer'
    <3>1. CASE AddNewSignature(k)
      <4>1. TRUE \in BOOLEAN /\ (NodesKept \/ PickNodes(NoClient, TRUE))
        BY <1>1, <2>3, <3>1, AddNewSignatureEffect DEF Freeze
      <4> QED
        BY <1>2, <4>1, PickedNodes DEF NodesKept
    <3>2. CASE FreezeWith(NoClient) \/ FreezeWithThrows(NoClient)
      <4>1. FALSE \in BOOLEAN /\ (PickNodes(NoClient, FALSE) \/ UNCHANGED nodeAccountIds)
        BY <3>2 DEF FreezeWith, FreezeWithThrows, Freeze
      <4> QED
        BY <1>2, <4>1, PickedNodes
    <3> QED
      BY <2>3, <3>1, <3>2, AddSignatureCases
  <2> QED
    BY <1>4, <2>1, <2>2, <2>3 DEF Signing
<1>5. CASE Serializing
  <2>1. CASE ToBytes
    BY <1>1, <1>2, <2>1, ToBytesEffect DEF NodesKept, ListsInv
  <2>2. CASE ToBytesAsync
    BY <1>1, <1>2, <2>2, ToBytesAsyncEffect DEF ListsInv
  <2>3. CASE BuildNext
    BY <1>1, <1>2, <2>3, BuildNextEffect DEF ListsInv
  <2>4. CASE BuildFails \/ BuildEnds
    BY <1>2, <2>4 DEF BuildFails, BuildEnds
  <2> QED
    BY <1>5, <2>1, <2>2, <2>3, <2>4 DEF Serializing
<1>6. CASE Executing
  <2>1. PICK e \in uses.executions :
          \/ \E c \in uses.execute : Execute(e, c)
          \/ BeforeExecuted(e)
          \/ Attempt(e) \/ AttemptThrows(e) \/ Made(e)
          \/ ExecuteFails(e) \/ Retried(e) \/ RetriedExpired(e) \/ Answered(e)
    BY <1>6 DEF Executing
  <2>2. ASSUME NEW c \in uses.execute, Execute(e, c) PROVE NodesDiffer'
    <3>1. /\ (Signs /\ ~ signOnDemand') \in BOOLEAN
          /\ NodesKept \/ PickNodes(c, Signs /\ ~ signOnDemand')
      BY <1>1, <2>2, ExecuteEffect DEF Freeze
    <3> QED
      BY <1>2, <3>1, PickedNodes DEF NodesKept
  <2>3. ASSUME NEW n \in NodeId \cup {NoTx}, nodeAccountIds'.list = AttemptNodes(n).list
        PROVE  NodesDiffer'
    <3>1. CASE nodeAccountIds.locked
      BY <1>2, <2>3, <3>1 DEF AttemptNodes
    <3>2. CASE ~ nodeAccountIds.locked
      <4> DEFINE s == <<n>>
      <4>1. Distinct(s)
        BY DEF Distinct
      <4>2. AttemptNodes(n).list = s
        BY <1>1, <3>2, Zenon DEF AttemptNodes, SetList, ListType
      <4> HIDE DEF s
      <4> QED
        BY <2>3, <4>1, <4>2 DEF NodesDiffer
    <3> QED
      BY <3>1, <3>2
  <2>4. CASE Attempt(e)
    <3>1. PICK n \in NodeId \cup {NoTx} :
            /\ Chosen(n)
            /\ nodeAccountIds' = Advanced(AttemptNodes(n)) \/ nodeAccountIds' = AttemptNodes(n)
      BY <2>4, Zenon DEF Attempt
    <3>2. AttemptNodes(n) \in ListType(NodeId)
      BY <3>1, AttemptNodesTyped DEF ListsInv
    <3>3. nodeAccountIds'.list = AttemptNodes(n).list
      BY <3>1, <3>2, ListAdvanced
    <3> QED
      BY <2>3, <3>3
  <2>5. CASE AttemptThrows(e)
    BY <2>3, <2>5 DEF AttemptThrows
  <2>6. CASE Made(e)
    BY <1>1, <1>2, <2>1, <2>6, MadeEffect DEF ListsInv
  <2>7. CASE \/ BeforeExecuted(e) \/ ExecuteFails(e) \/ Retried(e) \/ RetriedExpired(e)
             \/ Answered(e)
    BY <1>2, <2>7 DEF BeforeExecuted, ExecuteFails, Retried, RetriedExpired, Answered
  <2> QED
    BY <2>1, <2>2, <2>4, <2>5, <2>6, <2>7
<1> QED
  BY <1>3, <1>4, <1>5, <1>6 DEF TxNext

(* In a list of more than one, the next position is another one. *)
LEMMA NextPosition ==
  ASSUME NEW n \in Nat, n > 1, NEW p \in 1..n
  PROVE  (p % n) + 1 \in 1..n /\ (p % n) + 1 # p
<1>1. CASE p = n
  <2>1. n % n = 0
    OBVIOUS
  <2> QED
    BY <1>1, <2>1
<1>2. CASE p < n
  BY <1>2
<1> QED
  BY <1>1, <1>2

(* The invariant of the nodes. *)
NodesInv == Orderly => NodesDiffer

(* "When retrying a transaction after a network error or retry-able status *)
(* response, we try a different transaction and thus a different node."    *)
(* (Transaction.js:80), for any number of nodes above one.                 *)
THEOREM TxRetriedElsewhere ==
    ASSUME DistinctNodes
    PROVE  TxSpec /\ Orderly => RetriedElsewhere
<1> DEFINE A == \A e \in Execution :
                  /\ uses.awaits /\ pc[e] = "loop" /\ InFlight(e)' /\ attempt[e] > 1
                  /\ nodeAccountIds.locked /\ Len(nodeAccountIds.list) > 1
                  /\ ~ signOnDemand
                  => nodeId'[e] # nodeId[e]
<1>1. TxInit => NodesInv
  <2> SUFFICES ASSUME TxInit PROVE NodesDiffer
    BY DEF NodesInv
  <2>1. CASE FreshLists
    BY <2>1 DEF FreshLists, NewList, NodesDiffer, Distinct
  <2>2. CASE FromBytes
    <3>1. PICK nodes \in ClientNodes : nodeAccountIds = SetLocked(SetList(NewList, nodes))
      BY <2>2 DEF FromBytes
    <3>2. nodes \in Seq(NodeId)
      BY NodeConstants
    <3>3. nodeAccountIds.list = nodes
      BY <3>1, <3>2, NewListSet
    <3> QED
      BY <3>3 DEF NodesDiffer, DistinctNodes
  <2> QED
    BY <2>1, <2>2 DEF TxInit
<1>2. SendsInv /\ SendsInv' /\ NodesInv /\ [TxNext]_txVars => NodesInv'
  <2> SUFFICES ASSUME SendsInv, SendsInv', NodesInv, [TxNext]_txVars, Orderly'
               PROVE  NodesDiffer'
    BY DEF NodesInv
  <2>1. CASE TxNext
    <3>1. Orderly
      BY <2>1, OrderlyKept DEF TxNext
    <3> QED
      BY <2>1, <3>1, NodesDifferStep DEF SendsInv, NodesInv
  <2>2. CASE UNCHANGED txVars
    <3>1. Orderly /\ UNCHANGED nodeAccountIds
      BY <2>2, StutterKept, OrderlyKept DEF txVars
    <3> QED
      BY <3>1 DEF NodesInv, NodesDiffer
  <2> QED
    BY <2>1, <2>2
<1>3. SendsInv /\ AwaitedInv /\ NodesInv /\ Orderly /\ [TxNext]_txVars => [A]_txVars
  <2> SUFFICES ASSUME SendsInv, AwaitedInv, NodesInv, Orderly, TxNext,
                      NEW e \in Execution,
                      uses.awaits, pc[e] = "loop", InFlight(e)', attempt[e] > 1,
                      nodeAccountIds.locked, Len(nodeAccountIds.list) > 1, ~ signOnDemand
               PROVE  nodeId'[e] # nodeId[e]
    BY Zenon
  <2>1. TxTyped /\ ListsInv /\ Awaited /\ NodesDiffer /\ UNCHANGED uses
    BY DEF SendsInv, AwaitedInv, NodesInv, TxNext
  <2>2. e \in uses.executions /\ Attempt(e)
    <3>1. CASE Setters \/ Serializing
      BY <3>1 DEF Setters, Serializing, SetField, SetTransactionId, SetNodeAccountIds,
         GetTransactionId, GetNodeAccountIds, FreezeWith, FreezeWithThrows, ToBytes,
         ToBytesAsync, BuildNext, BuildFails, BuildEnds, loopVars, InFlight
    <3>2. CASE Signing
      BY <3>2 DEF Signing, SignWith, Sign, SignerFails, AddSignature, AddNewSignature,
         FreezeWith, FreezeWithThrows, loopVars, InFlight
    <3>3. CASE Executing
      <4>1. PICK d \in uses.executions :
              \/ \E c \in uses.execute : Execute(d, c)
              \/ BeforeExecuted(d)
              \/ Attempt(d) \/ AttemptThrows(d) \/ Made(d)
              \/ ExecuteFails(d) \/ Retried(d) \/ RetriedExpired(d) \/ Answered(d)
        BY <3>3 DEF Executing
      <4>2. d \in Execution /\ pc \in [Execution -> Places]
        BY <2>1, UsesTyped DEF TxTyped, LoopTyped
      <4>3. d = e
        BY <4>1, <4>2 DEF Execute, BeforeExecuted, Attempt, AttemptThrows, Made, ExecuteFails,
           Retried, RetriedExpired, Answered, Ends, InFlight
      <4> QED
        BY <4>1, <4>2, <4>3 DEF Execute, BeforeExecuted, AttemptThrows, Made, ExecuteFails,
           Retried, RetriedExpired, Answered, Ends, InFlight
    <3> QED
      BY <3>1, <3>2, <3>3 DEF TxNext
  <2>3. nodeId'[e] = Current(nodeAccountIds)
    <3>1. ~ signOnDemand /\ ~ IsEmpty(signedTransactions) => nodeAccountIds.locked
      BY <2>1, <2>2, AttemptLists
    <3> QED
      BY <2>1, <2>2, <3>1, AttemptStep DEF ListsInv
  <2>4. PICK p \in DOMAIN nodeAccountIds.list :
          /\ nodeId[e] = nodeAccountIds.list[p]
          /\ nodeAccountIds.index = (p % Len(nodeAccountIds.list)) + 1
    BY <2>1 DEF Awaited, Positions, Sent
  <2>5. /\ nodeAccountIds.list \in Seq(NodeId)
        /\ DOMAIN nodeAccountIds.list = 1..Len(nodeAccountIds.list)
        /\ Len(nodeAccountIds.list) \in Nat
    BY <2>1, ListOps DEF TxTyped, ListsTyped
  <2>6. /\ (p % Len(nodeAccountIds.list)) + 1 \in DOMAIN nodeAccountIds.list
        /\ (p % Len(nodeAccountIds.list)) + 1 # p
    <3>1. PICK n \in Nat : n = Len(nodeAccountIds.list) /\ n > 1
      BY <2>5
    <3>2. p \in 1..n
      BY <2>5, <3>1
    <3>3. (p % n) + 1 \in 1..n /\ (p % n) + 1 # p
      BY <3>1, <3>2, NextPosition
    <3> QED
      BY <2>5, <3>1, <3>3
  <2> QED
    BY <2>1, <2>3, <2>4, <2>6 DEF NodesDiffer, Distinct, Current
<1>4. TxSpec => []NodesInv
  BY <1>1, <1>2, TxSendsInv, PTL DEF TxSpec
<1>5. TxSpec /\ []Orderly => [][A]_txVars
  <2> HIDE DEF A
  <2> QED
    BY <1>3, <1>4, TxSendsInv, TxAwaitedInv, PTL DEF TxSpec
<1>6. TxSpec /\ Orderly => []Orderly
  <2>1. Orderly /\ [TxNext]_txVars => Orderly'
    <3> SUFFICES ASSUME Orderly, [TxNext]_txVars PROVE Orderly'
      OBVIOUS
    <3>1. UNCHANGED uses
      BY StutterKept DEF TxNext
    <3> QED
      BY <3>1, OrderlyKept
  <2> QED
    BY <2>1, PTL DEF TxSpec
<1> QED
  BY <1>5, <1>6, PTL DEF RetriedElsewhere
==============================================================================
