---------------------------- MODULE EntityQueries ----------------------------
(***************************************************************************)
(* The classes of queries, in parts: XNew(p), the constructor; XSet(f, v), *)
(* what the setter of f writes, and where; XChecked, the IDs that          *)
(* _validateChecksums() looks at; XRequest(q), the message of              *)
(* _onMakeRequest() without its header; XFrom(r), the properties that      *)
(* _fromProtobuf() hands to the constructor; XExchange, the call of        *)
(* _execute(), the members of the request and of the response that it and  *)
(* _mapResponseHeader() use, and the class that _mapResponse() decodes.    *)
(* No setter of a query is guarded. Wire explains the values.              *)
(***************************************************************************)
EXTENDS Wire

\* ---- AccountBalanceQuery
AccountBalanceQueryNew(p) ==
  Constructed([accountId |-> Null, contractId |-> Null], p)
AccountBalanceQuerySet(f, v) == [field |-> f, value |-> v]
AccountBalanceQueryChecked == {"accountId", "contractId"}
AccountBalanceQueryRequest(q) ==
  [accountID |-> Id(q.accountId), contractID |-> Id(q.contractId)]
AccountBalanceQueryFrom(r) ==
  [accountId |-> r.accountID, contractId |-> r.contractID]
AccountBalanceQueryExchange ==
  [rpc |-> "crypto.cryptoGetBalance", request |-> "cryptogetAccountBalance",
   header |-> "cryptogetAccountBalance", answer |-> "AccountBalance"]

\* ---- AccountInfoQuery
AccountInfoQueryNew(p) == Constructed([accountId |-> Null], p)
AccountInfoQuerySet(f, v) == [field |-> f, value |-> v]
AccountInfoQueryChecked == {"accountId"}
AccountInfoQueryRequest(q) == [accountID |-> Id(q.accountId)]
AccountInfoQueryFrom(r) == [accountId |-> r.accountID]
AccountInfoQueryExchange ==
  [rpc |-> "crypto.getAccountInfo", request |-> "cryptoGetInfo",
   header |-> "cryptoGetInfo", answer |-> "AccountInfo"]

\* ---- AccountRecordsQuery
AccountRecordsQueryNew(p) == Constructed([accountId |-> Null], p)
AccountRecordsQuerySet(f, v) == [field |-> f, value |-> v]
AccountRecordsQueryChecked == {"accountId"}
AccountRecordsQueryRequest(q) == [accountID |-> Id(q.accountId)]
AccountRecordsQueryFrom(r) == [accountId |-> r.accountID]
AccountRecordsQueryExchange ==
  [rpc |-> "crypto.getAccountRecords", request |-> "cryptoGetAccountRecords",
   header |-> "cryptoGetAccountRecords", answer |-> "TransactionRecord"]

\* ---- AccountStakersQuery
AccountStakersQueryNew(p) == Constructed([accountId |-> Null], p)
AccountStakersQuerySet(f, v) == [field |-> f, value |-> v]
AccountStakersQueryChecked == {"accountId"}
AccountStakersQueryRequest(q) == [accountID |-> Id(q.accountId)]
AccountStakersQueryFrom(r) == [accountId |-> r.accountID]
AccountStakersQueryExchange ==
  [rpc |-> "crypto.getStakersByAccountID",
   request |-> "cryptoGetProxyStakers", header |-> "cryptoGetProxyStakers",
   answer |-> "ProxyStaker"]

\* ---- LiveHashQuery
LiveHashQueryNew(p) == Constructed([accountId |-> Null, hash |-> Null], p)
LiveHashQuerySet(f, v) == [field |-> f, value |-> v]
LiveHashQueryChecked == {"accountId"}
LiveHashQueryRequest(q) ==
  [accountID |-> Id(q.accountId), hash |-> Scalar(q.hash)]
LiveHashQueryFrom(r) == [accountId |-> r.accountID, hash |-> r.hash]
LiveHashQueryExchange ==
  [rpc |-> "crypto.getLiveHash", request |-> "cryptoGetLiveHash",
   header |-> "cryptoGetLiveHash", answer |-> "LiveHash"]

\* ---- ContractByteCodeQuery
ContractByteCodeQueryNew(p) == Constructed([contractId |-> Null], p)
ContractByteCodeQuerySet(f, v) == [field |-> f, value |-> v]
ContractByteCodeQueryChecked == {"contractId"}
ContractByteCodeQueryRequest(q) == [contractID |-> Id(q.contractId)]
ContractByteCodeQueryFrom(r) == [contractId |-> r.contractID]
ContractByteCodeQueryExchange ==
  [rpc |-> "smartContract.contractGetBytecode",
   request |-> "contractGetBytecode",
   header |-> "contractGetBytecodeResponse", answer |-> "bytes"]

\* ---- ContractCallQuery
ContractCallQueryNew(p) ==
  Constructed([contractId |-> Null, gas |-> Null, functionParameters |-> Null,
               maxResultSize |-> Null, senderAccountId |-> Null], p)
ContractCallQuerySet(f, v) == [field |-> f, value |-> v]
ContractCallQueryChecked == {"contractId"}
ContractCallQueryRequest(q) ==
  [contractID |-> Id(q.contractId), gas |-> Scalar(q.gas),
   maxResultSize |-> Scalar(q.maxResultSize),
   functionParameters |-> Scalar(q.functionParameters),
   senderId |-> Id(q.senderAccountId)]
ContractCallQueryFrom(r) ==
  [contractId |-> r.contractID, gas |-> r.gas,
   functionParameters |-> r.functionParameters,
   maxResultSize |-> r.maxResultSize]
ContractCallQueryExchange ==
  [rpc |-> "smartContract.contractCallLocalMethod",
   request |-> "contractCallLocal", header |-> "contractCallLocal",
   answer |-> "ContractFunctionResult"]

\* ---- ContractInfoQuery
ContractInfoQueryNew(p) == Constructed([contractId |-> Null], p)
ContractInfoQuerySet(f, v) == [field |-> f, value |-> v]
ContractInfoQueryChecked == {"contractId"}
ContractInfoQueryRequest(q) == [contractID |-> Id(q.contractId)]
ContractInfoQueryFrom(r) == [contractId |-> r.contractID]
ContractInfoQueryExchange ==
  [rpc |-> "smartContract.getContractInfo", request |-> "contractGetInfo",
   header |-> "contractGetInfo", answer |-> "ContractInfo"]

\* ---- FileContentsQuery
FileContentsQueryNew(p) == Constructed([fileId |-> Null], p)
FileContentsQuerySet(f, v) == [field |-> f, value |-> v]
FileContentsQueryChecked == {"fileId"}
FileContentsQueryRequest(q) == [fileID |-> Id(q.fileId)]
FileContentsQueryFrom(r) == [fileId |-> r.fileID]
FileContentsQueryExchange ==
  [rpc |-> "file.getFileContent", request |-> "fileGetContents",
   header |-> "fileGetContents", answer |-> "bytes"]

\* ---- FileInfoQuery
FileInfoQueryNew(p) == Constructed([fileId |-> Null], p)
FileInfoQuerySet(f, v) == [field |-> f, value |-> v]
FileInfoQueryChecked == {"fileId"}
FileInfoQueryRequest(q) == [fileID |-> Id(q.fileId)]
FileInfoQueryFrom(r) == [fileId |-> r.fileID]
FileInfoQueryExchange ==
  [rpc |-> "file.getFileInfo", request |-> "fileGetInfo",
   header |-> "fileGetInfo", answer |-> "FileInfo"]

\* ---- NetworkVersionInfoQuery
NetworkVersionInfoQueryNew(p) == Constructed([f \in {} |-> Null], p)
NetworkVersionInfoQueryRequest(q) == q
NetworkVersionInfoQueryFrom(r) == r
NetworkVersionInfoQueryExchange ==
  [rpc |-> "network.getVersionInfo", request |-> "networkGetVersionInfo",
   header |-> "networkGetVersionInfo", answer |-> "NetworkVersionInfo"]

\* ---- ScheduleInfoQuery
ScheduleInfoQueryNew(p) == Constructed([scheduleId |-> Null], p)
ScheduleInfoQuerySet(f, v) == [field |-> f, value |-> v]
ScheduleInfoQueryChecked == {"scheduleId"}
ScheduleInfoQueryRequest(q) == [scheduleID |-> Id(q.scheduleId)]
ScheduleInfoQueryFrom(r) == [scheduleId |-> r.scheduleID]
ScheduleInfoQueryExchange ==
  [rpc |-> "schedule.getScheduleInfo", request |-> "scheduleGetInfo",
   header |-> "scheduleGetInfo", answer |-> "ScheduleInfo"]

\* ---- TokenInfoQuery
TokenInfoQueryNew(p) == Constructed([tokenId |-> Null], p)
TokenInfoQuerySet(f, v) == [field |-> f, value |-> v]
TokenInfoQueryChecked == {"tokenId"}
TokenInfoQueryRequest(q) == [token |-> Id(q.tokenId)]
TokenInfoQueryFrom(r) == [tokenId |-> r.token]
TokenInfoQueryExchange ==
  [rpc |-> "token.getTokenInfo", request |-> "tokenGetInfo",
   header |-> "tokenGetInfo", answer |-> "TokenInfo"]

\* ---- TokenNftInfoQuery
TokenNftInfoQueryNew(p) ==
  Constructed([nftId |-> Null, accountId |-> Null, tokenId |-> Null,
               start |-> Null, end |-> Null], p)
\* The setters copy an ID through its protobuf form.
TokenNftInfoQuerySet(f, v) ==
  [field |-> f, value |-> IF f \in {"start", "end"} THEN v ELSE Id(v)]
TokenNftInfoQueryRequest(q) == [nftID |-> q.nftId]
TokenNftInfoQueryFrom(r) == [nftId |-> r.nftID]
TokenNftInfoQueryExchange ==
  [rpc |-> "token.getTokenNftInfo", request |-> "tokenGetNftInfo",
   header |-> "tokenGetNftInfo", answer |-> "TokenNftInfo"]

\* ---- TopicInfoQuery
TopicInfoQueryNew(p) == Constructed([topicId |-> Null], p)
TopicInfoQuerySet(f, v) == [field |-> f, value |-> v]
TopicInfoQueryChecked == {"topicId"}
TopicInfoQueryRequest(q) == [topicID |-> Id(q.topicId)]
TopicInfoQueryFrom(r) == [topicId |-> r.topicID]
TopicInfoQueryExchange ==
  [rpc |-> "consensus.getTopicInfo", request |-> "consensusGetTopicInfo",
   header |-> "consensusGetTopicInfo", answer |-> "TopicInfo"]

\* ---- TransactionReceiptQuery
TransactionReceiptQueryNew(p) ==
  Constructed([transactionId |-> Null, includeChildren |-> Null,
               includeDuplicates |-> Null, validateStatus |-> 1], p)
TransactionReceiptQuerySet(f, v) == [field |-> f, value |-> v]
TransactionReceiptQueryChecked == {"transactionId"}
\* Mutant: child receipts are not asked for.
TransactionReceiptQueryRequest_NoChildren(q) ==
  [transactionID |-> Id(q.transactionId),
   includeDuplicates |-> Scalar(q.includeDuplicates),
   includeChildReceipts |-> 0]

TransactionReceiptQueryRequest(q) ==
  [transactionID |-> Id(q.transactionId),
   includeDuplicates |-> Scalar(q.includeDuplicates),
   includeChildReceipts |-> Scalar(q.includeChildren)]
TransactionReceiptQueryFrom(r) ==
  [transactionId |-> r.transactionID,
   includeDuplicates |-> r.includeDuplicates,
   includeChildren |-> r.includeChildReceipts]
TransactionReceiptQueryExchange ==
  [rpc |-> "crypto.getTransactionReceipts",
   request |-> "transactionGetReceipt", header |-> "transactionGetReceipt",
   answer |-> "TransactionReceipt"]

\* ---- TransactionRecordQuery
TransactionRecordQueryNew(p) ==
  [Constructed([transactionId |-> Null, includeChildren |-> Null,
                includeDuplicates |-> Null, duplicates |-> Null,
                validateReceiptStatus |-> 1], p)
     EXCEPT !.duplicates = IF "includeDuplicates" \in DOMAIN p
                           THEN p.includeDuplicates ELSE Null,
            !.includeDuplicates = Null]
\* setIncludeDuplicates() writes a field that nothing reads.
TransactionRecordQuerySet(f, v) ==
  [field |-> IF f = "includeDuplicates" THEN "duplicates" ELSE f, value |-> v]
TransactionRecordQueryChecked == {"transactionId"}
TransactionRecordQueryRequest(q) ==
  [transactionID |-> Id(q.transactionId),
   includeChildRecords |-> Scalar(q.includeChildren),
   includeDuplicates |-> Scalar(q.includeDuplicates)]
TransactionRecordQueryFrom(r) ==
  [transactionId |-> r.transactionID,
   includeChildren |-> r.includeChildRecords,
   includeDuplicates |-> r.includeDuplicates]
TransactionRecordQueryExchange ==
  [rpc |-> "crypto.getTxRecordByTxID", request |-> "transactionGetRecord",
   header |-> "transactionGetRecord", answer |-> "TransactionRecord"]

=============================================================================
