--------------------------- MODULE NetworkAnswers ---------------------------
(***************************************************************************)
(* The objects that describe the network and the outcome of transactions   *)
(* in the answers of nodes: rates, fees, address books, the results of     *)
(* contracts, receipts and records. The parts of a class are those of      *)
(* EntityAnswers.                                                          *)
(***************************************************************************)
EXTENDS Wire, FiniteSets

\* ---- ExchangeRate
\* A missing expiration time becomes the epoch.
ExchangeRateMessage ==
  Message({"u2uEquiv", "centEquiv"}, {}, {})
  ++ [expirationTime |-> Times \cup {Null}]
ExchangeRateNew(p) == Copied({"u2us", "cents", "expirationTime"}, p)
ExchangeRateDecode(m) ==
  [u2us |-> m.u2uEquiv, cents |-> m.centEquiv,
   expirationTime |-> Scalar(Seconds(m.expirationTime))]
ExchangeRateEncode(o) ==
  [u2uEquiv |-> Scalar(o.u2us), centEquiv |-> Scalar(o.cents),
   expirationTime |-> o.expirationTime]

\* ---- ExchangeRates
ExchangeRatesMessage ==
  Message({}, {}, {"currentRate", "nextRate"})
ExchangeRatesNew(p) == Copied({"currentRate", "nextRate"}, p)
ExchangeRatesDecode(m) ==
  [currentRate |-> m.currentRate, nextRate |-> m.nextRate]
ExchangeRatesEncode(o) ==
  [currentRate |-> o.currentRate, nextRate |-> o.nextRate]

\* ---- FeeComponents
FeeComponentsMessage ==
  Message({"min", "max", "constant", "bpt", "vpt", "rbh", "sbh", "gas", "tv",
           "bpr", "sbpr"},
          {},
          {})
FeeComponentsNew(p) ==
  Copied({"min", "max", "constant", "transactionBandwidthByte",
          "transactionVerification", "transactionRamByteHour",
          "transactionStorageByteHour", "contractTransactionGas",
          "transferVolumeU2U", "responseMemoryByte", "responseDiskByte"}, p)
FeeComponentsDecode(m) ==
  [min |-> m.min, max |-> m.max, constant |-> m.constant,
   transactionBandwidthByte |-> m.bpt, transactionVerification |-> m.vpt,
   transactionRamByteHour |-> m.rbh, transactionStorageByteHour |-> m.sbh,
   contractTransactionGas |-> m.gas, transferVolumeU2U |-> m.tv,
   responseMemoryByte |-> m.bpr, responseDiskByte |-> m.sbpr]
FeeComponentsEncode(o) ==
  [min |-> Scalar(o.min), max |-> Scalar(o.max),
   constant |-> Scalar(o.constant),
   bpt |-> Scalar(o.transactionBandwidthByte),
   vpt |-> Scalar(o.transactionVerification),
   rbh |-> Scalar(o.transactionRamByteHour),
   sbh |-> Scalar(o.transactionStorageByteHour),
   gas |-> Scalar(o.contractTransactionGas),
   tv |-> Scalar(o.transferVolumeU2U), bpr |-> Scalar(o.responseMemoryByte),
   sbpr |-> Scalar(o.responseDiskByte)]

\* ---- FeeData
FeeDataMessage ==
  Message({"subType"}, {"nodedata", "networkdata", "servicedata"}, {})
FeeDataNew(p) ==
  Copied({"nodedata", "networkdata", "servicedata", "feeDataType"}, p)
FeeDataDecode(m) ==
  [nodedata |-> m.nodedata, networkdata |-> m.networkdata,
   servicedata |-> m.servicedata, feeDataType |-> m.subType]
FeeDataEncode(o) ==
  [nodedata |-> o.nodedata, networkdata |-> o.networkdata,
   servicedata |-> o.servicedata, subType |-> Scalar(o.feeDataType)]

\* ---- TransactionFeeSchedule
TransactionFeeScheduleMessage ==
  Message({"hederaFunctionality", "fees"}, {"feeData"}, {})
TransactionFeeScheduleNew(p) ==
  Copied({"hederaFunctionality", "feeData", "fees"}, p)
TransactionFeeScheduleDecode(m) ==
  [hederaFunctionality |-> m.hederaFunctionality, feeData |-> m.feeData,
   fees |-> m.fees]
TransactionFeeScheduleEncode(o) ==
  [hederaFunctionality |-> Scalar(o.hederaFunctionality),
   feeData |-> o.feeData, fees |-> Scalar(o.fees)]

\* ---- FeeSchedule
FeeScheduleMessage ==
  Message({"transactionFeeSchedule"}, {}, {})
  ++ [expiryTime |-> Times \cup {Null}]
FeeScheduleNew(p) == Copied({"transactionFeeSchedule", "expirationTime"}, p)
FeeScheduleDecode(m) ==
  [transactionFeeSchedule |-> m.transactionFeeSchedule,
   expirationTime |-> Seconds(m.expiryTime)]
FeeScheduleEncode(o) ==
  [transactionFeeSchedule |-> Scalar(o.transactionFeeSchedule),
   expiryTime |-> o.expirationTime]

\* ---- FeeSchedules
FeeSchedulesMessage ==
  Message({}, {"currentFeeSchedule", "nextFeeSchedule"}, {})
FeeSchedulesNew(p) ==
  [current |-> p.currentFeeSchedule, next |-> p.nextFeeSchedule]
FeeSchedulesDecode(m) ==
  [currentFeeSchedule |-> m.currentFeeSchedule,
   nextFeeSchedule |-> m.nextFeeSchedule]
FeeSchedulesEncode(o) ==
  [currentFeeSchedule |-> o.current, nextFeeSchedule |-> o.next]

\* ---- NetworkVersionInfo
NetworkVersionInfoMessage ==
  Message({}, {}, {"hapiProtoVersion", "hederaServicesVersion"})
NetworkVersionInfoNew(p) == Copied({"protobufVersion", "servicesVesion"}, p)
NetworkVersionInfoDecode(m) ==
  [protobufVersion |-> m.hapiProtoVersion,
   servicesVesion |-> m.hederaServicesVersion]
NetworkVersionInfoEncode(o) ==
  [hapiProtoVersion |-> o.protobufVersion,
   hederaServicesVersion |-> o.servicesVesion]

\* ---- SemanticVersion
SemanticVersionMessage ==
  Message({"major", "minor", "patch"}, {}, {})
SemanticVersionNew(p) == Copied({"major", "minor", "patch"}, p)
SemanticVersionDecode(m) ==
  [major |-> m.major, minor |-> m.minor, patch |-> m.patch]
SemanticVersionEncode(o) ==
  [major |-> Scalar(o.major), minor |-> Scalar(o.minor),
   patch |-> Scalar(o.patch)]

\* ---- Endpoint
EndpointMessage ==
  Message({"ipAddressV4", "port"}, {}, {})
EndpointNew(p) == Constructed([address |-> Null, port |-> Null], p)
EndpointDecode(m) == [address |-> m.ipAddressV4, port |-> m.port]
EndpointEncode(o) ==
  [ipAddressV4 |-> Scalar(o.address), port |-> Scalar(o.port)]

\* ---- NodeAddress
NodeAddressMessage ==
  Message({"RSA_PubKey", "nodeId", "nodeCertHash", "serviceEndpoint",
           "description", "stake"},
          {"nodeAccountId"},
          {})
NodeAddressNew(p) ==
  Constructed([publicKey |-> Null, nodeId |-> Null, accountId |-> Null,
               certHash |-> Null, addresses |-> 0, description |-> Null,
               stake |-> Null], p)
NodeAddressDecode(m) ==
  [publicKey |-> m.RSA_PubKey, nodeId |-> m.nodeId,
   accountId |-> m.nodeAccountId, certHash |-> m.nodeCertHash,
   addresses |-> m.serviceEndpoint, description |-> m.description,
   stake |-> m.stake]
NodeAddressEncode(o) ==
  [RSA_PubKey |-> Scalar(o.publicKey), nodeId |-> Scalar(o.nodeId),
   nodeAccountId |-> o.accountId, nodeCertHash |-> Scalar(o.certHash),
   serviceEndpoint |-> Scalar(o.addresses),
   description |-> Scalar(o.description), stake |-> Scalar(o.stake)]

\* ---- ContractLogInfo
ContractLogInfoMessage ==
  Message({"bloom", "topic", "data"}, {}, {"contractID"})
ContractLogInfoNew(p) == Copied({"contractId", "bloom", "topics", "data"}, p)
ContractLogInfoDecode(m) ==
  [contractId |-> m.contractID, bloom |-> m.bloom, topics |-> m.topic,
   data |-> m.data]
ContractLogInfoEncode(o) ==
  [contractID |-> o.contractId, bloom |-> Scalar(o.bloom),
   topic |-> Scalar(o.topics), data |-> Scalar(o.data)]

\* ---- StorageChange
StorageChangeMessage ==
  Message({"slot", "valueRead"}, {}, {})
  ++ [valueWritten |-> {Null, 0, 1}]
StorageChangeNew(p) == Copied({"slot", "valueRead", "valueWritten"}, p)
StorageChangeDecode(m) ==
  [slot |-> m.slot, valueRead |-> m.valueRead,
   valueWritten |-> m.valueWritten]
StorageChangeEncode(o) ==
  [slot |-> Scalar(o.slot), valueRead |-> Scalar(o.valueRead),
   valueWritten |-> o.valueWritten]

\* ---- ContractStateChange
ContractStateChangeMessage ==
  Message({"storageChanges"}, {}, {"contractId"})
ContractStateChangeNew(p) == Copied({"contractId", "storageChanges"}, p)
ContractStateChangeDecode(m) ==
  [contractId |-> m.contractId, storageChanges |-> m.storageChanges]
ContractStateChangeEncode(o) ==
  [contractId |-> o.contractId, storageChanges |-> Scalar(o.storageChanges)]

\* ---- ContractFunctionResult
\* Gas and amount are -1 when the message has none, or zero.
ContractFunctionResultMessage ==
  Message({"contractCallResult", "errorMessage", "bloom", "gasUsed",
           "logInfo", "createdContractIDs", "gas", "amount",
           "functionParameters"},
          {"contractID", "senderId"},
          {})
  ++ [evmAddress |-> {Null, 0, 1}]
ContractFunctionResultNew(p) ==
  Copied({"contractId", "bytes", "errorMessage", "bloom", "gasUsed", "logs",
          "createdContractIds", "evmAddress", "stateChanges", "gas", "amount",
          "functionParameters", "senderAccountId"}, p)
ContractFunctionResultDecode(m) ==
  [bytes |-> m.contractCallResult, contractId |-> m.contractID,
   errorMessage |-> m.errorMessage, bloom |-> m.bloom, gasUsed |-> m.gasUsed,
   logs |-> m.logInfo, createdContractIds |-> m.createdContractIDs,
   evmAddress |-> m.evmAddress, stateChanges |-> 0,
   gas |-> IF m.gas = 0 THEN -1 ELSE m.gas,
   amount |-> IF m.amount = 0 THEN -1 ELSE m.amount,
   functionParameters |-> m.functionParameters,
   senderAccountId |-> m.senderId]
ContractFunctionResultEncode(o) ==
  [contractID |-> o.contractId, contractCallResult |-> Scalar(o.bytes),
   errorMessage |-> Scalar(o.errorMessage), bloom |-> Scalar(o.bloom),
   gasUsed |-> Scalar(o.gasUsed), logInfo |-> Scalar(o.logs),
   createdContractIDs |-> Scalar(o.createdContractIds),
   evmAddress |-> o.evmAddress, gas |-> Scalar(o.gas),
   amount |-> Scalar(o.amount),
   functionParameters |-> Scalar(o.functionParameters),
   senderId |-> o.senderAccountId]

\* ---- TopicMessageChunk
TopicMessageChunkMessage ==
  Message({"message", "runningHash", "sequenceNumber"}, {}, {})
  ++ [consensusTimestamp |-> Times]
TopicMessageChunkNew(p) ==
  Copied({"consensusTimestamp", "contents", "runningHash", "sequenceNumber"}, p)
TopicMessageChunkDecode(m) ==
  [consensusTimestamp |-> Seconds(m.consensusTimestamp),
   contents |-> m.message, runningHash |-> m.runningHash,
   sequenceNumber |-> m.sequenceNumber]
TopicMessageChunkEncode(o) ==
  [consensusTimestamp |-> o.consensusTimestamp,
   message |-> Scalar(o.contents), runningHash |-> Scalar(o.runningHash),
   sequenceNumber |-> Scalar(o.sequenceNumber)]

\* ---- TransactionReceipt
\* Of the two exchange rates only the current one is kept; a receipt without any
\* is encoded with an empty set of rates.
TransactionReceiptMessage ==
  Message({"status", "topicSequenceNumber", "topicRunningHash",
           "serialNumbers", "newTotalSupply",
           "duplicateTransactionReceipts", "childTransactionReceipts"},
          {"accountID", "fileID", "contractID", "topicID", "tokenID",
           "scheduleID", "scheduledTransactionID"},
          {})
  ++ [exchangeRate |-> {Null, 1, WithNext}]
TransactionReceiptNew(p) ==
  Copied({"status", "accountId", "fileId", "contractId", "topicId", "tokenId",
          "scheduleId", "exchangeRate", "topicSequenceNumber",
          "topicRunningHash", "totalSupply", "scheduledTransactionId",
          "serials", "duplicates", "children"}, p)
TransactionReceiptDecode(m) ==
  [status |-> m.status, accountId |-> m.accountID, fileId |-> m.fileID,
   contractId |-> m.contractID, topicId |-> m.topicID, tokenId |-> m.tokenID,
   scheduleId |-> m.scheduleID,
   exchangeRate |-> IF m.exchangeRate = WithNext THEN 1 ELSE m.exchangeRate,
   topicSequenceNumber |-> m.topicSequenceNumber,
   topicRunningHash |-> m.topicRunningHash, totalSupply |-> m.newTotalSupply,
   scheduledTransactionId |-> m.scheduledTransactionID,
   serials |-> m.serialNumbers, children |-> m.childTransactionReceipts,
   duplicates |-> m.duplicateTransactionReceipts]
TransactionReceiptEncode(o) ==
  [duplicateTransactionReceipts |-> o.duplicates,
   childTransactionReceipts |-> o.children, status |-> Scalar(o.status),
   accountID |-> o.accountId, fileID |-> o.fileId,
   contractID |-> o.contractId, topicID |-> o.topicId, tokenID |-> o.tokenId,
   scheduleID |-> o.scheduleId,
   topicRunningHash |-> Scalar(o.topicRunningHash),
   topicSequenceNumber |-> Scalar(o.topicSequenceNumber),
   exchangeRate |-> IF o.exchangeRate = Null THEN NoRate ELSE o.exchangeRate,
   scheduledTransactionID |-> o.scheduledTransactionId,
   serialNumbers |-> Scalar(o.serials),
   newTotalSupply |-> Scalar(o.totalSupply)]

\* ---- TransactionRecord
\* The lists of token transfers, as their readers see them: how many transfers
\* of each fungible token, and how many of each token's NFTs. The readers add
\* them up: over how many lists a token's transfers are spread makes no
\* difference to them.
RecordToken == {1, 2}
Groups == [fungible : [RecordToken -> {0, 1}], nfts : [RecordToken -> {0, 1}]]
NoGroups == [fungible |-> [t \in RecordToken |-> 0],
             nfts |-> [t \in RecordToken |-> 0]]

\* The tokens of which there are transfers.
Moved(transfers) == {t \in RecordToken : transfers[t] # 0}

TransactionRecordMessage ==
  Message({"transactionHash", "memo", "transactionFee", "assessedCustomFees",
           "automaticTokenAssociations", "ethereumHash", "paidStakingRewards",
           "evmAddress", "duplicateTransactionRecords",
           "childTransactionRecords"},
          {"scheduleRef", "contractCallResult", "contractCreateResult"},
          {"receipt", "transactionID"})
  ++ [consensusTimestamp |-> Times,
      parentConsensusTimestamp |-> Times \cup {Null},
      transferList |-> {Null, 0, 1}, tokenTransferLists |-> Groups,
      alias |-> {0, 1, Composite}, prngBytes |-> {Null, 0, 1},
      prngNumber |-> {Null, 0, 1}]
TransactionRecordNew(p) ==
  Copied({"receipt", "transactionHash", "consensusTimestamp", "transactionId",
          "transactionMemo", "transactionFee", "transfers",
          "contractFunctionResult", "createResult", "tokenTransfers",
          "tokenTransfersList", "scheduleRef", "assessedCustomFees",
          "nftTransfers", "automaticTokenAssociations",
          "parentConsensusTimestamp", "aliasKey", "duplicates", "children",
          "U2UAllowanceAdjustments", "tokenAllowanceAdjustments",
          "nftAllowanceAdjustments", "ethereumHash", "paidStakingRewards",
          "prngBytes", "prngNumber", "evmAddress"}, p)
\* TokenTransferMap._fromProtobuf() and TokenNftTransferMap._fromProtobuf(): what
\* a loop over the map of a token visits. That is every transfer that was read:
\* the accounts of the fungible transfers are different objects and so different
\* keys, and NFTs are pushed to a list.
TokenTransferMap(lists) == lists.fungible
TokenNftTransferMap(lists) == lists.nfts
TransactionRecordDecode(m) ==
  [receipt |-> m.receipt, transactionHash |-> m.transactionHash,
   consensusTimestamp |-> Seconds(m.consensusTimestamp),
   transactionId |-> m.transactionID, transactionMemo |-> m.memo,
   transactionFee |-> m.transactionFee, transfers |-> Scalar(m.transferList),
   contractFunctionResult |-> IF m.contractCallResult # Null
                              THEN m.contractCallResult
                              ELSE m.contractCreateResult,
   createResult |-> m.contractCallResult = Null,
   tokenTransfers |-> TokenTransferMap(m.tokenTransferLists),
   tokenTransfersList |-> TokenTransferMap(m.tokenTransferLists),
   scheduleRef |-> m.scheduleRef,
   assessedCustomFees |-> m.assessedCustomFees,
   nftTransfers |-> TokenNftTransferMap(m.tokenTransferLists),
   automaticTokenAssociations |-> m.automaticTokenAssociations,
   parentConsensusTimestamp |-> Seconds(m.parentConsensusTimestamp),
   aliasKey |-> IF m.alias = 1 THEN 1 ELSE Null,
   duplicates |-> m.duplicateTransactionRecords,
   children |-> m.childTransactionRecords, U2UAllowanceAdjustments |-> 0,
   tokenAllowanceAdjustments |-> 0, nftAllowanceAdjustments |-> 0,
   ethereumHash |-> m.ethereumHash,
   paidStakingRewards |-> m.paidStakingRewards, prngBytes |-> m.prngBytes,
   prngNumber |-> m.prngNumber, evmAddress |-> m.evmAddress]
\* The two loops of _toProtobuf(): for every fungible token and every token with
\* NFTs, the transfers of the one and of the other. The numbers of the IDs are
\* compared as objects and never the same.
TokenTransferLists(ts, ns) ==
  [fungible |-> [t \in RecordToken |-> Cardinality(Moved(ns)) * ts[t]],
   nfts |-> [t \in RecordToken |-> Cardinality(Moved(ts)) * ns[t]]]
TransactionRecordEncode(o) ==
  [receipt |-> o.receipt, transactionHash |-> Scalar(o.transactionHash),
   consensusTimestamp |-> o.consensusTimestamp,
   transactionID |-> o.transactionId, memo |-> Scalar(o.transactionMemo),
   transactionFee |-> Scalar(o.transactionFee),
   contractCallResult |-> IF o.createResult THEN Null
                          ELSE o.contractFunctionResult,
   contractCreateResult |-> IF o.createResult THEN o.contractFunctionResult
                            ELSE Null,
   transferList |-> o.transfers,
   tokenTransferLists |-> TokenTransferLists(o.tokenTransfers, o.nftTransfers),
   scheduleRef |-> o.scheduleRef,
   assessedCustomFees |-> Scalar(o.assessedCustomFees),
   automaticTokenAssociations |-> Scalar(o.automaticTokenAssociations),
   parentConsensusTimestamp |-> o.parentConsensusTimestamp,
   alias |-> Scalar(o.aliasKey), ethereumHash |-> Scalar(o.ethereumHash),
   paidStakingRewards |-> Scalar(o.paidStakingRewards),
   prngBytes |-> o.prngBytes, prngNumber |-> o.prngNumber,
   evmAddress |-> Scalar(o.evmAddress),
   duplicateTransactionRecords |-> Scalar(o.duplicates),
   childTransactionRecords |-> Scalar(o.children)]

=============================================================================
