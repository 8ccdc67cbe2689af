-------------------------------- MODULE MCRequests --------------------------------
(***************************************************************************)
(* Ten components in one run: a behaviour is about one transaction of an   *)
(* entity, one transfer, one set of allowances, one answer, one contract   *)
(* call, one query, the payments of a query, the outcome of a transaction, *)
(* a transaction in chunks or a flow, and leaves the variables of the      *)
(* others alone.                                                           *)
(***************************************************************************)
EXTENDS EntityTransactions, Transfers, Allowances, Answers, ContractAbi,
        Queries, QueryPayments, TransactionResponses, ChunkedTransactions, Flows

VARIABLE subject     \* the part that a behaviour is about

\* An initial state of every part; it does not matter which.
EntityFixed == EntityInit /\ cls = "Prng"
TransferFixed == TransferInit
AllowanceFixed == AllowanceInit /\ kind = "approve"
AnswerFixed == AnswerInit /\ answer = "TokenInfo"
AbiFixed == AbiInit
QueryFixed == QueryInit /\ queryClass = "AccountInfo"
PayFixed ==
  PayInit /\ ~paid /\ ~operated /\ IsEmpty(payNodes) /\ payId = 0 /\ fee = Null
  /\ maximum = 4
ResponseFixed == ResponseInit /\ goal = "getReceipt"
ChunkFixed == ChunkInit /\ chunkKind = "file" /\ length = 2 /\ size = 2
FlowFixed == FlowInit /\ flow = CHOOSE f \in Flow : TRUE

Init ==
  \/ /\ subject = "entity" /\ EntityInit
     /\ TransferFixed /\ AllowanceFixed /\ AnswerFixed /\ AbiFixed
     /\ QueryFixed /\ PayFixed /\ ResponseFixed /\ ChunkFixed /\ FlowFixed
  \/ /\ subject = "transfer" /\ TransferInit
     /\ EntityFixed /\ AllowanceFixed /\ AnswerFixed /\ AbiFixed
     /\ QueryFixed /\ PayFixed /\ ResponseFixed /\ ChunkFixed /\ FlowFixed
  \/ /\ subject = "allowance" /\ AllowanceInit
     /\ EntityFixed /\ TransferFixed /\ AnswerFixed /\ AbiFixed
     /\ QueryFixed /\ PayFixed /\ ResponseFixed /\ ChunkFixed /\ FlowFixed
  \/ /\ subject = "answer" /\ AnswerInit
     /\ EntityFixed /\ TransferFixed /\ AllowanceFixed /\ AbiFixed
     /\ QueryFixed /\ PayFixed /\ ResponseFixed /\ ChunkFixed /\ FlowFixed
  \/ /\ subject = "abi" /\ AbiInit
     /\ EntityFixed /\ TransferFixed /\ AllowanceFixed /\ AnswerFixed
     /\ QueryFixed /\ PayFixed /\ ResponseFixed /\ ChunkFixed /\ FlowFixed
  \/ /\ subject = "query" /\ QueryInit
     /\ EntityFixed /\ TransferFixed /\ AllowanceFixed /\ AnswerFixed
     /\ AbiFixed /\ PayFixed /\ ResponseFixed /\ ChunkFixed /\ FlowFixed
  \/ /\ subject = "payment" /\ PayInit
     /\ EntityFixed /\ TransferFixed /\ AllowanceFixed /\ AnswerFixed
     /\ AbiFixed /\ QueryFixed /\ ResponseFixed /\ ChunkFixed /\ FlowFixed
  \/ /\ subject = "response" /\ ResponseInit
     /\ EntityFixed /\ TransferFixed /\ AllowanceFixed /\ AnswerFixed
     /\ AbiFixed /\ QueryFixed /\ PayFixed /\ ChunkFixed /\ FlowFixed
  \/ /\ subject = "chunks" /\ ChunkInit
     /\ EntityFixed /\ TransferFixed /\ AllowanceFixed /\ AnswerFixed
     /\ AbiFixed /\ QueryFixed /\ PayFixed /\ ResponseFixed /\ FlowFixed
  \/ /\ subject = "flow" /\ FlowInit
     /\ EntityFixed /\ TransferFixed /\ AllowanceFixed /\ AnswerFixed
     /\ AbiFixed /\ QueryFixed /\ PayFixed /\ ResponseFixed /\ ChunkFixed

Next ==
  \/ /\ subject = "entity" /\ EntityNext
     /\ UNCHANGED <<subject, transferVars, allowanceVars, answerVars,
                    abiVars, queryVars, payVars, responseVars, chunkVars,
                    flowVars>>
  \/ /\ subject = "transfer" /\ TransferNext
     /\ UNCHANGED <<subject, entityVars, allowanceVars, answerVars, abiVars,
                    queryVars, payVars, responseVars, chunkVars, flowVars>>
  \/ /\ subject = "allowance" /\ AllowanceNext
     /\ UNCHANGED <<subject, entityVars, transferVars, answerVars, abiVars,
                    queryVars, payVars, responseVars, chunkVars, flowVars>>
  \/ /\ subject = "answer" /\ AnswerNext
     /\ UNCHANGED <<subject, entityVars, transferVars, allowanceVars,
                    abiVars, queryVars, payVars, responseVars, chunkVars,
                    flowVars>>
  \/ /\ subject = "abi" /\ AbiNext
     /\ UNCHANGED <<subject, entityVars, transferVars, allowanceVars,
                    answerVars, queryVars, payVars, responseVars, chunkVars,
                    flowVars>>
  \/ /\ subject = "query" /\ QueryNext
     /\ UNCHANGED <<subject, entityVars, transferVars, allowanceVars,
                    answerVars, abiVars, payVars, responseVars, chunkVars,
                    flowVars>>
  \/ /\ subject = "payment" /\ PayNext
     /\ UNCHANGED <<subject, entityVars, transferVars, allowanceVars,
                    answerVars, abiVars, queryVars, responseVars, chunkVars,
                    flowVars>>
  \/ /\ subject = "response" /\ ResponseNext
     /\ UNCHANGED <<subject, entityVars, transferVars, allowanceVars,
                    answerVars, abiVars, queryVars, payVars, chunkVars,
                    flowVars>>
  \/ /\ subject = "chunks" /\ ChunkNext
     /\ UNCHANGED <<subject, entityVars, transferVars, allowanceVars,
                    answerVars, abiVars, queryVars, payVars, responseVars,
                    flowVars>>
  \/ /\ subject = "flow" /\ FlowNext
     /\ UNCHANGED <<subject, entityVars, transferVars, allowanceVars,
                    answerVars, abiVars, queryVars, payVars, responseVars,
                    chunkVars>>

mcVars ==
  <<subject, entityVars, transferVars, allowanceVars, answerVars, abiVars,
    queryVars, payVars, responseVars, chunkVars, flowVars>>

Spec == Init /\ [][Next]_mcVars

\* ---- Values of the constants

TransferCalls ==
  {[op |-> "token", token |-> t[1], account |-> t[2], amount |-> 1,
    approved |-> FALSE] : t \in {<<1, 1>>, <<1, 2>>, <<3, 1>>}}
  \cup {[op |-> "decimals", token |-> 1, account |-> d[1], amount |-> 1,
         decimals |-> d[2]] : d \in {<<1, 2>>, <<1, 3>>, <<2, 2>>}}
  \cup {[op |-> "nft", token |-> n[1], serial |-> n[2], sender |-> a,
         receiver |-> 3 - a, approved |-> FALSE] :
           n \in {<<1, 1>>, <<1, 2>>, <<2, 1>>}, a \in {1, 2}}
  \cup [op : {"u2u"}, account : {1}, amount : {1}, approved : {FALSE}]
ApprovalCalls ==
  {[op |-> "nft", token |-> 1, serial |-> 1], [op |-> "u2u", account |-> 1],
   [op |-> "token", token |-> 1, account |-> 1]}

AllowanceCalls ==
  [op : {"serial"}, token : {1}, serial : {1, 2}, owner : {1, 2},
   spender : {3, 4}, delegating : {Null, 5}]
  \cup [op : {"serial"}, token : {2}, serial : {1}, owner : {1},
        spender : {3}, delegating : {Null}]
  \cup [op : {"all"}, token : {1}, owner : {1}, spender : {3, 4},
        all : BOOLEAN]
  \cup [op : {"u2u"}, owner : {1}, spender : {3}, amount : {1}]
  \cup [op : {"token"}, token : {1}, owner : {1}, spender : {3}, amount : {1}]

Value(x, ok) == [n |-> x, fits |-> ok]
Data(i, l) == [id |-> i, len |-> l]
Arg(t, a, vs) == [ty |-> t, array |-> a, values |-> vs]
AbiArguments ==
  {Arg("int", FALSE, <<Value(1, TRUE)>>),
   Arg("uint", FALSE, <<Value(2, FALSE)>>),
   Arg("int24", FALSE, <<Value(3, TRUE)>>),
   Arg("int24", TRUE, <<Value(3, TRUE)>>),
   Arg("address", FALSE, <<Value(4, FALSE)>>),
   Arg("bytes32", TRUE, <<Value(5, TRUE), Value(6, TRUE)>>),
   Arg("int", TRUE, <<>>),
   Arg("function", FALSE, <<Value(7, TRUE)>>),
   Arg("bytes", FALSE, <<Data(1, 0)>>),
   Arg("string", FALSE, <<Data(2, 32)>>),
   Arg("bytes", FALSE, <<Data(3, 33)>>),
   Arg("string", TRUE, <<Data(4, 1), Data(5, 40), Data(6, 0)>>),
   Arg("bytes", TRUE, <<Data(7, 64)>>)}

NodeLists == {<<1, 2>>, <<1, 2, 3>>}
SomeFees == {Null, 5}
===================================================================================
