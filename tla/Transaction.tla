----------------------------- MODULE Transaction -----------------------------
(***************************************************************************)
(* One Transaction object: freezing, signing (at once, or on demand while  *)
(* a request is made), the lists of built protobuf transactions, the       *)
(* serialisation, and the hooks of the retry loop.  A protobuf transaction *)
(* is a record: the node and the transaction ID of its body, one field     *)
(* that stands for everything a setter sets, and the keys that signed it.  *)
(*                                                                         *)
(* A signer is asynchronous: the application, a serialisation or another   *)
(* execute() may run between two of its signatures.  Of the retry loop     *)
(* only what a transaction sees is kept, module Executable has the rest.   *)
(***************************************************************************)
EXTENDS List, FiniteSets

CONSTANTS
    NodeId,          \* node account IDs
    SignKey,         \* public keys
    NoKey,           \* no operator
    Memos,           \* values of the fields of the body
    Client,          \* clients: records [operator, signOnDemand]
    NoClient,        \* freeze() is freezeWith(null)
    Uses,            \* applications, see UseType
    ClientNodes,     \* what getNodeAccountIdsForExecute() may return
    ExplicitNodes,   \* arguments of setNodeAccountIds()
    ExplicitId,      \* argument of setTransactionId(), 0 in the model
    Regenerate,      \* the request's regenerateTransactionId, or the client's
    MaxId,           \* bound: transaction IDs generated
    MaxExecutes,     \* bound: calls of execute()
    MaxBuilt,        \* bound: length of _transactions
    Execution,       \* execute() calls at the same time
    NoTx             \* null

(* How an application uses the object: the clients that it freezes and       *)
(* executes with, the keys that sign, the nodes it sets, the maximum of     *)
(* attempts, the execute() calls at the same time, whether it awaits a call *)
(* before it makes the next, and whether it may call addSignature() again   *)
(* for a key that is known.                                                 *)
UseType == [freezeWith : SUBSET (Client \cup {NoClient}), execute : SUBSET Client,
            keys : SUBSET SignKey, nodes : SUBSET ExplicitNodes, attempts : Nat,
            executions : SUBSET Execution, awaits : BOOLEAN, readds : BOOLEAN]

ASSUME KeyConstants == NoKey \notin SignKey
ASSUME ClientConstants ==
    /\ Client \subseteq [operator : SignKey \cup {NoKey}, signOnDemand : BOOLEAN]
    /\ NoClient \notin Client
    /\ Uses \subseteq UseType
ASSUME NodeConstants ==
    /\ ClientNodes \subseteq Seq(NodeId) \ {<<>>}
    /\ ExplicitNodes \subseteq Seq(NodeId) \ {<<>>}
ASSUME BoundConstants ==
    /\ {MaxId, MaxExecutes, MaxBuilt} \subseteq Nat
    /\ Regenerate \in BOOLEAN
    /\ ExplicitId \in {0}

VARIABLES
    uses,                \* the application, which does not change
    memo,                \* the fields of the body
    signOnDemand,        \* _signOnDemand
    operator,            \* _operator, by its key
    operatorAccountId,   \* is _operatorAccountId set?
    transactionIds,      \* _transactionIds, of one element at most
    nodeAccountIds,      \* _nodeAccountIds
    signedTransactions,  \* _signedTransactions
    transactions,        \* _transactions, what was built from them
    signerPublicKeys,    \* _signerPublicKeys
    publicKeys,          \* _publicKeys that have a signer
    lastId,              \* transaction IDs generated so far
    signing,             \* signing[k]: position of the loop of signWith, or 0
    building,            \* the loop of _buildAllTransactionsAsync
    pc,                  \* pc[e]: where execute() is
    signer,              \* signer[e]: the operator _beforeExecute() waits for
    nodeId,              \* nodeAccountId of the retry loop
    request,             \* request of the retry loop
    attempt,             \* attempt of the retry loop
    executes,            \* calls of execute()
    completed,           \* keys whose signWith() resolved since the last freeze
    expired              \* IDs answered with TRANSACTION_EXPIRED

settingVars == <<memo, signOnDemand, operator, operatorAccountId>>
idVars == <<transactionIds, lastId>>
signVars == <<signerPublicKeys, publicKeys, signing, completed>>
loopVars == <<pc, signer, nodeId, request, attempt, executes, expired>>
txVars == <<uses, settingVars, idVars, nodeAccountIds, signedTransactions, transactions,
            signVars, building, loopVars>>

Tx == [node : NodeId \cup {NoTx}, id : 0..MaxId, memo : Memos, sigs : SUBSET SignKey]
Places == {"idle", "before", "loop", "making", "onDemand", "calling"}

(* No call of the application is under way. *)
Quiet ==
    /\ \A k \in SignKey : signing[k] = 0
    /\ \A e \in Execution : pc[e] = "idle"
    /\ building.at = "idle"
MayCall == uses.awaits => Quiet

(* Mutant: only what is built counts. *)
IsFrozen_OnlyBuilt == signOnDemand \/ ~ IsEmpty(transactions)

(* _isFrozen *)
IsFrozen ==
    \/ signOnDemand
    \/ ~ IsEmpty(signedTransactions)
    \/ ~ IsEmpty(transactions)

(* _makeSignedTransaction, _makeTransactionBody *)
Body(n, id, keys) == [node |-> n, id |-> id, memo |-> memo, sigs |-> keys]
------------------------------------------------------------------------------
(* A new object, or one fromBytes() returns: signed by any of the keys, its *)
(* lists of IDs and of signed transactions locked.                         *)
FreshLists ==
    /\ transactionIds = NewList
    /\ nodeAccountIds = NewList
    /\ signedTransactions = NewList
    /\ transactions = NewList
    /\ signerPublicKeys = {}

FromBytes ==
    \E nodes \in ClientNodes, keys \in SUBSET uses.keys :
        LET list == [i \in DOMAIN nodes |-> Body(nodes[i], ExplicitId, keys)]
        IN /\ transactionIds = SetLocked(SetList(NewList, <<ExplicitId>>))
           /\ nodeAccountIds = SetLocked(SetList(NewList, nodes))
           /\ signedTransactions = SetLocked(SetList(NewList, list))
           /\ transactions = SetList(NewList, list)
           /\ signerPublicKeys = keys

TxInit ==
    /\ uses \in Uses
    /\ memo \in Memos
    /\ FreshLists \/ FromBytes
    /\ signOnDemand = FALSE /\ operator = NoKey /\ operatorAccountId = FALSE
    /\ publicKeys = {} /\ lastId = 0
    /\ signing = [k \in SignKey |-> 0]
    /\ building = [at |-> "idle", left |-> 0, node |-> NoTx]
    /\ pc = [e \in Execution |-> "idle"]
    /\ signer = [e \in Execution |-> NoKey]
    /\ nodeId = [e \in Execution |-> NoTx]
    /\ request = [e \in Execution |-> NoTx]
    /\ attempt = [e \in Execution |-> 1]
    /\ executes = 0
    /\ completed = signerPublicKeys
    /\ expired = {}
------------------------------------------------------------------------------
(* The setters of the fields, behind _requireNotFrozen *)
SetField(m) ==
    /\ MayCall /\ ~ IsFrozen
    /\ memo' = m
    /\ UNCHANGED <<signOnDemand, operator, operatorAccountId, idVars, nodeAccountIds,
                   signedTransactions, transactions, signVars, building, loopVars>>

SetTransactionId ==
    /\ MayCall /\ ~ IsFrozen /\ ~ transactionIds.locked
    /\ transactionIds' = SetLocked(SetList(transactionIds, <<ExplicitId>>))
    /\ UNCHANGED <<settingVars, lastId, nodeAccountIds, signedTransactions,
                   transactions, signVars, building, loopVars>>

SetNodeAccountIds(nodes) ==
    /\ MayCall /\ ~ IsFrozen /\ ~ nodeAccountIds.locked
    /\ nodeAccountIds' = SetLocked(SetList(nodeAccountIds, nodes))
    /\ UNCHANGED <<settingVars, idVars, signedTransactions, transactions, signVars,
                   building, loopVars>>

(* The getters transactionId and nodeAccountIds lock what they return. *)
GetTransactionId ==
    /\ MayCall /\ ~ IsEmpty(transactionIds)
    /\ transactionIds' = SetLocked(transactionIds)
    /\ UNCHANGED <<settingVars, lastId, nodeAccountIds, signedTransactions,
                   transactions, signVars, building, loopVars>>

GetNodeAccountIds ==
    /\ MayCall /\ ~ IsEmpty(nodeAccountIds)
    /\ nodeAccountIds' = SetLocked(nodeAccountIds)
    /\ UNCHANGED <<settingVars, idVars, signedTransactions, transactions, signVars,
                   building, loopVars>>
------------------------------------------------------------------------------
(***************************************************************************)
(* freezeWith.  "lock" is TRUE when the signWith() or addSignature() that  *)
(* follows in the same turn locks the lists, "keys" are the signatures     *)
(* of addSignature(), if it is the caller.                                 *)
(***************************************************************************)
FreezeSettings(c) ==
    /\ signOnDemand' = (c # NoClient /\ c.signOnDemand)
    /\ operator' = IF c = NoClient THEN NoKey ELSE c.operator
    /\ operatorAccountId' =
           (operatorAccountId \/ (c # NoClient /\ c.operator # NoKey))

(* _setNodeAccountIds *)
PickNodes(c, lock) ==
    \/ /\ ~ IsEmpty(nodeAccountIds)
       /\ nodeAccountIds' = LockedIf(lock, nodeAccountIds)
    \/ /\ IsEmpty(nodeAccountIds)
       /\ c # NoClient /\ ~ nodeAccountIds.locked
       /\ \E nodes \in ClientNodes :
             nodeAccountIds' = LockedIf(lock, SetList(nodeAccountIds, nodes))

(* Mutant: the lock of the list is ignored. *)
BuildNewTransactionIdList_IgnoresLock(lock) ==
    IF operatorAccountId' /\ lastId < MaxId
    THEN /\ lastId' = lastId + 1
         /\ transactionIds' = LockedIf(lock, SetAt(transactionIds, 1, lastId + 1))
    ELSE transactionIds' = LockedIf(lock, transactionIds) /\ UNCHANGED lastId

(* _buildNewTransactionIdList *)
BuildNewTransactionIdList(lock) ==
    \/ /\ transactionIds.locked \/ ~ operatorAccountId'
       /\ transactionIds' = LockedIf(lock, transactionIds)
       /\ UNCHANGED lastId
    \/ /\ ~ transactionIds.locked /\ operatorAccountId'
       /\ lastId < MaxId
       /\ lastId' = lastId + 1
       /\ transactionIds' = LockedIf(lock, SetAt(transactionIds, 1, lastId + 1))

(* Does freezeWith() build the signed transactions? *)
Builds == ~ signOnDemand' /\ ~ signedTransactions.locked

(* _buildSignedTransactions; addSignature() also locks the list. *)
BuildSignedTransactions(keys) ==
    signedTransactions' = LockedIf(keys # {},
        IF Builds
        THEN SetList(signedTransactions,
                     [i \in DOMAIN nodeAccountIds'.list |->
                         Body(nodeAccountIds'.list[i], transactionIds'.list[1], keys)])
        ELSE signedTransactions)

Freeze(c, lock, keys) ==
    /\ FreezeSettings(c)
    /\ PickNodes(c, lock)
    /\ operatorAccountId' \/ ~ IsEmpty(transactionIds)
    /\ BuildNewTransactionIdList(lock)
    /\ Builds => ~ IsEmpty(transactionIds')
    /\ BuildSignedTransactions(keys)

(* freezeWith(c): signatures that are still being made go into the list     *)
(* that was replaced.                                                      *)
FreezeWith(c) ==
    /\ MayCall
    /\ Freeze(c, FALSE, {})
    /\ signing' = [k \in SignKey |-> IF Builds THEN 0 ELSE signing[k]]
    /\ completed' = {}
    /\ UNCHANGED <<memo, transactions, signerPublicKeys, publicKeys, building, loopVars>>

(* freezeWith(c) throws, called by the application or by execute(): without *)
(* nodes, without a transaction ID, or at the ID of a list that was locked *)
(* when it was empty.                                                      *)
FreezeWithThrows(c) ==
    /\ MayCall
    /\ FreezeSettings(c)
    /\ \/ /\ IsEmpty(nodeAccountIds)
          /\ c = NoClient \/ nodeAccountIds.locked
          /\ UNCHANGED nodeAccountIds
       \/ /\ PickNodes(c, FALSE)
          /\ IsEmpty(transactionIds)
          /\ ~ operatorAccountId' \/ (transactionIds.locked /\ Builds)
    /\ UNCHANGED <<memo, idVars, signedTransactions, transactions, signVars,
                   building, loopVars>>
------------------------------------------------------------------------------
(* Mutant: what is built is kept. *)
BeginSign_KeepsBuilt(k, done) ==
    /\ signerPublicKeys' = signerPublicKeys \cup {k}
    /\ signing' = [signing EXCEPT ![k] = 1]
    /\ completed' = done
    /\ UNCHANGED <<publicKeys, transactions>>

(* signWith(), from the check of the key to its first await or its return; *)
(* "done" are the keys that have signed so far.                            *)
BeginSign(k, done) ==
    /\ transactions' = Clear(transactions)
    /\ signerPublicKeys' = signerPublicKeys \cup {k}
    /\ IF signOnDemand'
       THEN /\ publicKeys' = publicKeys \cup {k}
            /\ completed' = done \cup {k}
            /\ UNCHANGED signing
       ELSE /\ signing' = [signing EXCEPT ![k] = 1]
            /\ completed' = done
            /\ UNCHANGED publicKeys

(* signWith(), sign(), signWithOperator() of a frozen transaction; a key    *)
(* that is known already is ignored.                                       *)
SignWith(k) ==
    /\ MayCall /\ IsFrozen
    /\ k \notin signerPublicKeys
    /\ UNCHANGED <<settingVars, lastId, signedTransactions, building, loopVars>>
    /\ BeginSign(k, completed)
    /\ transactionIds' = LockedIf(~ signOnDemand, transactionIds)
    /\ nodeAccountIds' = LockedIf(~ signOnDemand, nodeAccountIds)

(* The signer returns the signature of one transaction. *)
Sign(k) ==
    /\ signing[k] > 0
    /\ signedTransactions' =
           [signedTransactions EXCEPT !.list[signing[k]].sigs = @ \cup {k}]
    /\ IF signing[k] < Len(signedTransactions.list)
       THEN signing' = [signing EXCEPT ![k] = @ + 1] /\ UNCHANGED completed
       ELSE signing' = [signing EXCEPT ![k] = 0] /\ completed' = completed \cup {k}
    /\ UNCHANGED <<settingVars, idVars, nodeAccountIds, transactions, signerPublicKeys,
                   publicKeys, building, loopVars>>

(* The signer rejects, and with it signWith() and the execute() it is for. *)
SignerFails(k) ==
    /\ signing[k] > 0
    /\ signing' = [signing EXCEPT ![k] = 0]
    /\ pc' = [e \in Execution |->
                 IF pc[e] = "before" /\ signer[e] = k THEN "idle" ELSE pc[e]]
    /\ UNCHANGED <<settingVars, idVars, nodeAccountIds, signedTransactions, transactions,
                   signerPublicKeys, publicKeys, completed, building, signer, nodeId,
                   request, attempt, executes, expired>>

(* The signed transactions, each with the signature of k added *)
SignedBy(k) ==
    [i \in DOMAIN signedTransactions.list |->
        [signedTransactions.list[i] EXCEPT !.sigs = @ \cup {k}]]

(* addSignature() of a key that is not known: a transaction without signed   *)
(* transactions is frozen first, also one that signs on demand.            *)
AddNewSignature(k) ==
    /\ MayCall
    /\ k \notin signerPublicKeys
    /\ IF IsEmpty(signedTransactions)
       THEN /\ Freeze(NoClient, TRUE, {k})
            /\ completed' = {k}
            /\ UNCHANGED memo
       ELSE /\ nodeAccountIds' = SetLocked(nodeAccountIds)
            /\ transactionIds' = SetLocked(transactionIds)
            /\ signedTransactions' =
                   SetLocked([signedTransactions EXCEPT !.list = SignedBy(k)])
            /\ completed' = IF signOnDemand THEN completed ELSE completed \cup {k}
            /\ UNCHANGED <<settingVars, lastId>>
    /\ transactions' = Clear(transactions)
    /\ signerPublicKeys' = signerPublicKeys \cup {k}
    /\ UNCHANGED <<publicKeys, signing, building, loopVars>>

(* addSignature() freezes before it looks the key up: the freeze may throw,  *)
(* and is all that happens for a key that is known.                        *)
AddSignature(k) ==
    /\ Len(nodeAccountIds.list) = 1
    /\ \/ AddNewSignature(k)
       \/ IsEmpty(signedTransactions) /\ FreezeWithThrows(NoClient)
       \/ /\ uses.readds /\ k \in signerPublicKeys
          /\ IsEmpty(signedTransactions) /\ FreezeWith(NoClient)
------------------------------------------------------------------------------
(* The list _buildAllTransactions() leaves: what is built is kept. *)
BuiltAll ==
    [i \in DOMAIN signedTransactions.list \cup DOMAIN transactions.list |->
        IF i \in DOMAIN transactions.list /\ transactions.list[i] # NoTx
        THEN transactions.list[i]
        ELSE signedTransactions.list[i]]

(* toBytes(), getSignatures() *)
ToBytes ==
    /\ MayCall /\ IsFrozen /\ ~ signOnDemand
    /\ transactionIds' = SetLocked(transactionIds)
    /\ nodeAccountIds' = SetLocked(nodeAccountIds)
    /\ transactions' = [transactions EXCEPT !.list = BuiltAll]
    /\ UNCHANGED <<settingVars, lastId, signedTransactions, signVars, building,
                   loopVars>>

(* _buildSignedTransactions reads the current ID of an empty list. *)
NoIdToBuildWith ==
    IsEmpty(transactionIds) /\ ~ IsEmpty(nodeAccountIds) /\ ~ signedTransactions.locked

(* toBytesAsync(), getSignaturesAsync(), getTransactionHash(), up to the    *)
(* first await; the first two do not ask whether the transaction is frozen. *)
(* On demand, the loop takes the next node and awaits its signatures.      *)
ToBytesAsync ==
    /\ MayCall
    /\ building.at = "idle"
    /\ transactionIds' = SetLocked(transactionIds)
    /\ \/ /\ ~ signOnDemand
          /\ transactions' = [transactions EXCEPT !.list = BuiltAll]
          /\ nodeAccountIds' = SetLocked(nodeAccountIds)
          /\ building' = [at |-> "build", left |-> 0, node |-> NoTx]
          /\ UNCHANGED signedTransactions
       \/ /\ signOnDemand
          /\ ~ NoIdToBuildWith
          /\ signedTransactions' =
                 IF signedTransactions.locked
                 THEN signedTransactions
                 ELSE SetList(signedTransactions,
                              [i \in DOMAIN nodeAccountIds.list |->
                                  Body(nodeAccountIds.list[i], transactionIds.list[1], {})])
          /\ IF transactions.locked \/ IsEmpty(signedTransactions')
             THEN /\ building' = [at |-> "build", left |-> 0, node |-> NoTx]
                  /\ nodeAccountIds' = SetLocked(nodeAccountIds)
             ELSE /\ building' = [at |-> "build", left |-> Len(signedTransactions'.list),
                                  node |-> Current(nodeAccountIds)]
                  /\ nodeAccountIds' = SetLocked(Advanced(nodeAccountIds))
          /\ UNCHANGED transactions
       \/ /\ signOnDemand /\ NoIdToBuildWith
          /\ nodeAccountIds' = SetLocked(nodeAccountIds)
          /\ UNCHANGED <<building, signedTransactions, transactions>>
    /\ UNCHANGED <<settingVars, lastId, signVars, loopVars>>

(* The signatures of one transaction are there: it is pushed, and the loop  *)
(* takes the next node.                                                    *)
BuildNext ==
    /\ building.left > 0
    /\ ~ transactions.locked /\ Len(transactions.list) < MaxBuilt
    /\ transactions' =
           Push(transactions, Body(building.node, transactionIds.list[1], publicKeys))
    /\ IF building.left > 1
       THEN /\ building' = [building EXCEPT !.left = @ - 1, !.node = Current(nodeAccountIds)]
            /\ nodeAccountIds' = Advanced(nodeAccountIds)
       ELSE /\ building' = [building EXCEPT !.left = 0, !.node = NoTx]
            /\ UNCHANGED nodeAccountIds
    /\ UNCHANGED <<settingVars, idVars, signedTransactions, signVars, loopVars>>

(* A signer rejects, and with it the serialisation. *)
BuildFails ==
    /\ building.left > 0
    /\ building' = [at |-> "idle", left |-> 0, node |-> NoTx]
    /\ UNCHANGED <<settingVars, idVars, nodeAccountIds, signedTransactions, transactions,
                   signVars, loopVars>>

(* After the await: the lists are locked and encoded. *)
BuildEnds ==
    /\ building.at = "build" /\ building.left = 0
    /\ transactions' = SetLocked(transactions)
    /\ signedTransactions' = SetLocked(signedTransactions)
    /\ building' = [building EXCEPT !.at = "idle"]
    /\ UNCHANGED <<settingVars, idVars, nodeAccountIds, signVars, loopVars>>
------------------------------------------------------------------------------
(* execute() up to the await of signWith(): _beforeExecute freezes if it    *)
(* has to, and signs with the operator.                                    *)
Execute(e, c) ==
    LET signs == operator' # NoKey /\ operator' \notin signerPublicKeys
        lock == signs /\ ~ signOnDemand'
    IN /\ MayCall /\ pc[e] = "idle" /\ executes < MaxExecutes
       /\ UNCHANGED memo
       /\ IF IsFrozen
          THEN /\ operator' = IF operator = NoKey THEN c.operator ELSE operator
               /\ operatorAccountId' = (operatorAccountId \/ c.operator # NoKey)
               /\ UNCHANGED <<signOnDemand, lastId, signedTransactions>>
               /\ transactionIds' = LockedIf(lock, transactionIds)
               /\ nodeAccountIds' = LockedIf(lock, nodeAccountIds)
          ELSE Freeze(c, lock, {})
       /\ IF signs
          THEN /\ signOnDemand' \/ ~ IsEmpty(signedTransactions')
               /\ BeginSign(operator', IF IsFrozen THEN completed ELSE {})
          ELSE /\ completed' = IF IsFrozen THEN completed ELSE {}
               /\ UNCHANGED <<transactions, signerPublicKeys, publicKeys, signing>>
       /\ pc' = [pc EXCEPT ![e] = IF lock THEN "before" ELSE "loop"]
       /\ signer' = [signer EXCEPT ![e] = IF lock THEN operator' ELSE NoKey]
       /\ attempt' = [attempt EXCEPT ![e] = 1]
       /\ executes' = executes + 1
       /\ UNCHANGED <<nodeId, request, expired, building>>

(* execute() settles. *)
Ends(e) ==
    /\ pc' = [pc EXCEPT ![e] = "idle"]
    /\ nodeId' = [nodeId EXCEPT ![e] = NoTx]
    /\ request' = [request EXCEPT ![e] = NoTx]
    /\ signer' = [signer EXCEPT ![e] = NoKey]
    /\ attempt' = [attempt EXCEPT ![e] = 1]

(* The operator has signed. *)
BeforeExecuted(e) ==
    /\ pc[e] = "before" /\ signing[signer[e]] = 0
    /\ pc' = [pc EXCEPT ![e] = "loop"]
    /\ signer' = [signer EXCEPT ![e] = NoKey]
    /\ UNCHANGED <<settingVars, idVars, nodeAccountIds, signedTransactions, transactions,
                   signVars, building, nodeId, request, attempt, executes,
                   expired>>

(* The head of the retry loop *)
HasAttempts(e) == attempt[e] <= uses.attempts

(* The list of nodes of this attempt: without a lock, the node the network  *)
(* returned.                                                               *)
AttemptNodes(n) ==
    IF nodeAccountIds.locked THEN nodeAccountIds ELSE SetList(nodeAccountIds, <<n>>)

(* _buildTransaction fills the list with nulls up to the index. *)
Padded(i) ==
    [transactions EXCEPT !.list =
        @ \o [j \in 1..(i - 1 - Len(@)) |-> NoTx]]

(* The request of this index can be made: there is an ID, and without       *)
(* signing on demand a signed transaction and a list that can be filled.   *)
CanMake(i) ==
    /\ ~ IsEmpty(transactionIds)
    /\ \/ signOnDemand
       \/ /\ i <= Len(signedTransactions.list)
          /\ i <= Len(transactions.list) + 1 \/ ~ transactions.locked

(* The node of the attempt; an empty list that is locked has none, and the  *)
(* network returns any.                                                    *)
Chosen(n) ==
    /\ n = CurrentOr(AttemptNodes(n), NoTx)
    /\ n = NoTx => nodeAccountIds.locked

(* An attempt, up to the await of _makeRequestAsync() *)
Attempt(e) ==
    /\ pc[e] = "loop" /\ HasAttempts(e)
    /\ \E n \in NodeId \cup {NoTx} :
         LET nodes == AttemptNodes(n)
             i == nodes.index
         IN /\ Chosen(n) /\ CanMake(i)
            /\ nodeId' = [nodeId EXCEPT ![e] = n]
            /\ IF signOnDemand
               THEN /\ request' = [request EXCEPT ![e] = Body(n, transactionIds.list[1], {})]
                    /\ nodeAccountIds' = Advanced(nodes)
                    /\ pc' = [pc EXCEPT ![e] = "onDemand"]
                    /\ UNCHANGED transactions
               ELSE /\ transactions' =
                           SetIfAbsent(Padded(i), i, signedTransactions.list[i], NoTx)
                    /\ request' = [request EXCEPT ![e] = transactions'.list[i]]
                    /\ nodeAccountIds' = nodes
                    /\ pc' = [pc EXCEPT ![e] = "making"]
    /\ UNCHANGED <<settingVars, idVars, signedTransactions, signVars, building, signer,
                   attempt, executes, expired>>

(* The request cannot be made. *)
AttemptThrows(e) ==
    /\ pc[e] = "loop" /\ HasAttempts(e)
    /\ \E n \in NodeId \cup {NoTx} :
         /\ Chosen(n) /\ ~ CanMake(AttemptNodes(n).index)
         /\ nodeAccountIds' = AttemptNodes(n)
    /\ Ends(e)
    /\ UNCHANGED <<settingVars, idVars, signedTransactions, transactions, signVars,
                   building, executes, expired>>

(* Mutant: the list of nodes is not moved on. *)
Made_Stays(e) ==
    /\ pc[e] \in {"making", "onDemand"}
    /\ request' = [request EXCEPT ![e].sigs = IF pc[e] = "onDemand" THEN publicKeys ELSE @]
    /\ pc' = [pc EXCEPT ![e] = "calling"]
    /\ UNCHANGED <<settingVars, idVars, nodeAccountIds, signedTransactions, transactions,
                   signVars, building, signer, nodeId, attempt, executes, expired>>

(* The request is made, on demand with the signatures of all the keys known *)
(* by now, and sent; _advanceRequest() moves the list on.                  *)
Made(e) ==
    /\ pc[e] \in {"making", "onDemand"}
    /\ request' = [request EXCEPT ![e].sigs = IF pc[e] = "onDemand" THEN publicKeys ELSE @]
    /\ nodeAccountIds' = Advanced(nodeAccountIds)
    /\ pc' = [pc EXCEPT ![e] = "calling"]
    /\ UNCHANGED <<settingVars, idVars, signedTransactions, transactions, signVars,
                   building, signer, nodeId, attempt, executes, expired>>

(* A signer rejects, the call fails with an error that is not retried, or   *)
(* the attempts are used up.                                               *)
ExecuteFails(e) ==
    /\ \/ pc[e] \in {"onDemand", "calling"}
       \/ pc[e] = "loop" /\ ~ HasAttempts(e)
    /\ Ends(e)
    /\ UNCHANGED <<settingVars, idVars, nodeAccountIds, signedTransactions, transactions,
                   signVars, building, executes, expired>>

(* The call fails, or is answered with a status like BUSY: the next attempt *)
Retried(e) ==
    /\ pc[e] = "calling"
    /\ pc' = [pc EXCEPT ![e] = "loop"]
    /\ attempt' = [attempt EXCEPT ![e] = @ + 1]
    /\ UNCHANGED <<settingVars, idVars, nodeAccountIds, signedTransactions, transactions,
                   signVars, building, signer, nodeId, request, executes, expired>>

(* TRANSACTION_EXPIRED: a new transaction ID, and the next attempt *)
RetriedExpired(e) ==
    /\ pc[e] = "calling" /\ Regenerate
    /\ expired' = expired \cup {request[e].id}
    /\ UNCHANGED settingVars
    /\ BuildNewTransactionIdList(FALSE)
    /\ pc' = [pc EXCEPT ![e] = "loop"]
    /\ attempt' = [attempt EXCEPT ![e] = @ + 1]
    /\ UNCHANGED <<nodeAccountIds, signedTransactions, transactions, signVars,
                   building, signer, nodeId, request, executes>>

(* Any other status: _mapResponse, or _mapStatusError.  Both read the        *)
(* transaction ID, which locks it.                                         *)
Answered(e) ==
    /\ pc[e] = "calling"
    /\ Ends(e)
    /\ transactionIds' = SetLocked(transactionIds)
    /\ UNCHANGED <<settingVars, lastId, nodeAccountIds, signedTransactions, transactions,
                   signVars, building, executes, expired>>
------------------------------------------------------------------------------
Setters ==
    \/ \E m \in Memos : SetField(m)
    \/ SetTransactionId
    \/ \E nodes \in uses.nodes : SetNodeAccountIds(nodes)
    \/ GetTransactionId \/ GetNodeAccountIds
    \/ \E c \in uses.freezeWith : FreezeWith(c) \/ FreezeWithThrows(c)

Signing ==
    \E k \in uses.keys : SignWith(k) \/ Sign(k) \/ SignerFails(k) \/ AddSignature(k)

Serializing == ToBytes \/ ToBytesAsync \/ BuildNext \/ BuildFails \/ BuildEnds

Executing ==
    \E e \in uses.executions :
        \/ \E c \in uses.execute : Execute(e, c)
        \/ BeforeExecuted(e)
        \/ Attempt(e) \/ AttemptThrows(e) \/ Made(e)
        \/ ExecuteFails(e) \/ Retried(e) \/ RetriedExpired(e) \/ Answered(e)

TxNext == (Setters \/ Signing \/ Serializing \/ Executing) /\ UNCHANGED uses

TxSpec == TxInit /\ [][TxNext]_txVars
------------------------------------------------------------------------------

(* The request of an attempt under way. *)
InFlight(e) == pc[e] \in {"making", "onDemand", "calling"}

(* What was frozen is what is sent: the body of every transaction that is   *)
(* signed, built or under way has the fields the object has now.           *)
BodiesAgree ==
    /\ \A tx \in Elements(signedTransactions) : tx.memo = memo
    /\ \A tx \in Elements(transactions) \ {NoTx} : tx.memo = memo
    /\ \A e \in Execution : InFlight(e) => request[e].memo = memo

(* A transaction that had keys to sign with on demand was frozen without a  *)
(* client by addSignature(): it signs at once now, with its nodes unlocked. *)
FrozenForKnownKey ==
    uses.readds /\ publicKeys # {} /\ ~ signOnDemand /\ ~ nodeAccountIds.locked

(* The transaction that is sent to a node names that node in its body,      *)
(* although node and transaction come from two lists with an index each;    *)
(* it may not when addSignature() froze it for a key that was known.       *)
SentToItsNode ==
    \A e \in Execution :
        InFlight(e) => request[e].node = nodeId[e] \/ FrozenForKnownKey

(* The transaction that is sent carries the signature of every key whose    *)
(* signWith() has resolved, and without signing on demand of every key of  *)
(* addSignature(), since the transaction was frozen; so it is when the      *)
(* application awaits its calls: a signWith() beside an execute() can      *)
(* resolve after the request was built.                                    *)
SignaturesSent ==
    uses.awaits =>
        \A e \in Execution : pc[e] = "calling" => completed \subseteq request[e].sigs

(* What is built belongs to what is signed: position by position, a         *)
(* transaction that was built has the node and the ID of the signed one it *)
(* was built from, through new IDs, new lists of nodes and another freeze. *)
BuiltFromSigned ==
    ~ signOnDemand =>
        \A i \in DOMAIN transactions.list :
            LET tx == transactions.list[i]
            IN tx # NoTx =>
                  /\ i \in DOMAIN signedTransactions.list
                  /\ tx.node = signedTransactions.list[i].node
                  /\ tx.id = signedTransactions.list[i].id

(* "Determine if we should regenerate transaction IDs when we receive       *)
(* TRANSACITON_EXPIRED" (Transaction.js:188): an ID the SDK generated is   *)
(* not sent again after it has expired.                                    *)
ExpiredNotResent ==
    \A e \in Execution : InFlight(e) => request[e].id \notin expired \ {ExplicitId}

(* "this public key has already signed this transaction"                   *)
(* (Transaction.js:652), when signWith() returns at once                   *)
KnownKeysHaveSigned ==
    \A k \in signerPublicKeys :
        signing[k] = 0 /\ ~ signOnDemand =>
            \A tx \in Elements(signedTransactions) : k \in tx.sigs

(* "When retrying a transaction after a network error or retry-able status  *)
(* response, we try a different transaction and thus a different node."    *)
(* (Transaction.js:80): so it is for one that is signed at once.  On       *)
(* demand the list moves on twice per attempt, and two nodes are one; an    *)
(* execute() at the same time moves it on as well.                         *)
RetriedElsewhere ==
    [][\A e \in Execution :
          /\ uses.awaits /\ pc[e] = "loop" /\ InFlight(e)' /\ attempt[e] > 1
          /\ nodeAccountIds.locked /\ Len(nodeAccountIds.list) > 1
          /\ ~ signOnDemand
          => nodeId'[e] # nodeId[e]]_txVars

(* What is sent to a node is what was frozen, with that node in its body.   *)
RequestsAgree == BodiesAgree /\ SentToItsNode
==============================================================================
