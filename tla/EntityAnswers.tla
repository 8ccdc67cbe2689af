--------------------------- MODULE EntityAnswers ---------------------------
(***************************************************************************)
(* The objects that describe accounts, contracts, tokens, files, topics    *)
(* and schedules in the answers of nodes. Each class X has the same parts: *)
(* XMessage, the values that the fields of its message can have, as a node *)
(* sends them; XNew(p), the constructor, which keeps those properties of p *)
(* that it knows; XDecode(m), the properties that _fromProtobuf() reads    *)
(* from the message m; XEncode(o), the message that toBytes() writes, or,  *)
(* where there is no toBytes(), _toProtobuf(). A message inside a message  *)
(* is opaque: it is converted by its own class.                            *)
(***************************************************************************)
EXTENDS Wire

\* ---- AccountInfo
\* A proxy account is kept only if none of its three numbers is zero, an alias
\* only if it is a single public key; a missing renewal period becomes zero.
AccountInfoMessage ==
  Message({"contractAccountID", "deleted", "proxyReceived", "balance",
           "generateSendRecordThreshold", "generateReceiveRecordThreshold",
           "receiverSigRequired", "liveHashes", "tokenRelationships", "memo",
           "ownedNfts", "maxAutomaticTokenAssociations", "ledgerId",
           "ethereumNonce"},
          {"autoRenewPeriod", "stakingInfo"},
          {"accountID", "key"})
  ++ [expirationTime |-> Times, proxyAccountID |-> {Null, 1, Sharded},
      alias |-> {0, 1, Composite}]
AccountInfoNew(p) ==
  Copied({"accountId", "contractAccountId", "isDeleted", "proxyAccountId",
          "proxyReceived", "key", "balance", "sendRecordThreshold",
          "receiveRecordThreshold", "isReceiverSignatureRequired",
          "expirationTime", "autoRenewPeriod", "liveHashes",
          "tokenRelationships", "accountMemo", "ownedNfts",
          "maxAutomaticTokenAssociations", "aliasKey", "ledgerId",
          "U2UAllowances", "tokenAllowances", "nftAllowances",
          "ethereumNonce", "stakingInfo"}, p)
AccountInfoDecode(m) ==
  [accountId |-> m.accountID, contractAccountId |-> m.contractAccountID,
   isDeleted |-> m.deleted, key |-> m.key, balance |-> m.balance,
   sendRecordThreshold |-> m.generateSendRecordThreshold,
   receiveRecordThreshold |-> m.generateReceiveRecordThreshold,
   isReceiverSignatureRequired |-> m.receiverSigRequired,
   expirationTime |-> Seconds(m.expirationTime),
   autoRenewPeriod |-> Scalar(m.autoRenewPeriod),
   proxyAccountId |-> IF m.proxyAccountID = Sharded THEN Sharded ELSE Null,
   proxyReceived |-> m.proxyReceived, liveHashes |-> m.liveHashes,
   tokenRelationships |-> m.tokenRelationships, accountMemo |-> m.memo,
   ownedNfts |-> m.ownedNfts,
   maxAutomaticTokenAssociations |-> m.maxAutomaticTokenAssociations,
   aliasKey |-> IF m.alias = 1 THEN 1 ELSE Null, ledgerId |-> m.ledgerId,
   U2UAllowances |-> 0, tokenAllowances |-> 0, nftAllowances |-> 0,
   ethereumNonce |-> m.ethereumNonce, stakingInfo |-> m.stakingInfo]
AccountInfoEncode(o) ==
  [accountID |-> o.accountId,
   contractAccountID |-> Scalar(o.contractAccountId),
   deleted |-> Scalar(o.isDeleted), proxyAccountID |-> o.proxyAccountId,
   proxyReceived |-> Scalar(o.proxyReceived), key |-> o.key,
   balance |-> Scalar(o.balance),
   generateSendRecordThreshold |-> Scalar(o.sendRecordThreshold),
   generateReceiveRecordThreshold |-> Scalar(o.receiveRecordThreshold),
   receiverSigRequired |-> Scalar(o.isReceiverSignatureRequired),
   expirationTime |-> o.expirationTime, autoRenewPeriod |-> o.autoRenewPeriod,
   liveHashes |-> Scalar(o.liveHashes),
   tokenRelationships |-> Scalar(o.tokenRelationships),
   memo |-> Scalar(o.accountMemo), ownedNfts |-> Scalar(o.ownedNfts),
   maxAutomaticTokenAssociations |-> Scalar(o.maxAutomaticTokenAssociations),
   alias |-> Scalar(o.aliasKey), ledgerId |-> Scalar(o.ledgerId),
   ethereumNonce |-> Scalar(o.ethereumNonce), stakingInfo |-> o.stakingInfo]

\* ---- AccountBalance
AccountBalanceMessage ==
  Message({"balance", "tokenBalances"}, {}, {})
AccountBalanceNew(p) == Copied({"u2us", "tokens", "tokenDecimals"}, p)
AccountBalanceDecode(m) ==
  [u2us |-> m.balance, tokens |-> m.tokenBalances,
   tokenDecimals |-> m.tokenBalances]
AccountBalanceEncode(o) ==
  [balance |-> Scalar(o.u2us), tokenBalances |-> Scalar(o.tokens)]

\* ---- StakingInfo
StakingInfoMessage ==
  Message({"declineReward", "pendingReward", "stakedToMe"},
          {"stakedAccountId"},
          {})
  ++ [stakePeriodStart |-> Times \cup {Null}, stakedNodeId |-> {Null, 0, 1}]
StakingInfoNew(p) ==
  Copied({"declineStakingReward", "stakePeriodStart", "pendingReward",
          "stakedToMe", "stakedAccountId", "stakedNodeId"}, p)

StakingInfoDecode(m) ==
  [declineStakingReward |-> m.declineReward,
   stakePeriodStart |-> Seconds(m.stakePeriodStart),
   pendingReward |-> m.pendingReward, stakedToMe |-> m.stakedToMe,
   stakedAccountId |-> m.stakedAccountId, stakedNodeId |-> m.stakedNodeId]
StakingInfoEncode(o) ==
  [declineReward |-> Scalar(o.declineStakingReward),
   stakePeriodStart |-> o.stakePeriodStart,
   pendingReward |-> Scalar(o.pendingReward),
   stakedToMe |-> Scalar(o.stakedToMe), stakedAccountId |-> o.stakedAccountId,
   stakedNodeId |-> o.stakedNodeId]

\* ---- TokenRelationship
TokenRelationshipMessage ==
  Message({"symbol", "balance", "automaticAssociation"}, {}, {"tokenId"})
  ++ [kycStatus |-> {0, 1, 2}, freezeStatus |-> {0, 1, 2}]
TokenRelationshipNew(p) ==
  Copied({"tokenId", "symbol", "balance", "isKycGranted", "isFrozen",
          "automaticAssociation"}, p)
TokenRelationshipDecode(m) ==
  [tokenId |-> m.tokenId, symbol |-> m.symbol, balance |-> m.balance,
   isKycGranted |-> ThreeWay(m.kycStatus),
   isFrozen |-> ThreeWay(m.freezeStatus),
   automaticAssociation |-> m.automaticAssociation]
TokenRelationshipEncode(o) ==
  [tokenId |-> o.tokenId, symbol |-> Scalar(o.symbol),
   balance |-> Scalar(o.balance), kycStatus |-> Status(o.isKycGranted),
   freezeStatus |-> Status(o.isFrozen),
   automaticAssociation |-> Scalar(o.automaticAssociation)]

\* ---- LiveHash
\* A missing list of keys becomes an empty one.
LiveHashMessage ==
  Message({"hash"}, {"keys"}, {"accountId", "duration"})
LiveHashNew(p) == Copied({"accountId", "hash", "keys", "duration"}, p)
LiveHashDecode(m) ==
  [accountId |-> m.accountId, hash |-> m.hash, keys |-> Scalar(m.keys),
   duration |-> m.duration]
LiveHashEncode(o) ==
  [accountId |-> o.accountId, hash |-> Scalar(o.hash), keys |-> o.keys,
   duration |-> o.duration]

\* ---- ProxyStaker
ProxyStakerMessage ==
  Message({"amount"}, {}, {"accountID"})
ProxyStakerNew(p) == Copied({"accountId", "amount"}, p)
ProxyStakerDecode(m) == [accountId |-> m.accountID, amount |-> m.amount]
ProxyStakerEncode(o) ==
  [accountID |-> o.accountId, amount |-> Scalar(o.amount)]

\* ---- ContractInfo
ContractInfoMessage ==
  Message({"contractAccountID", "storage", "memo", "balance", "deleted",
           "tokenRelationships", "ledgerId"},
          {"adminKey", "autoRenewAccountId", "stakingInfo"},
          {"contractID", "accountID", "autoRenewPeriod"})
  ++ [expirationTime |-> Times]
ContractInfoNew(p) ==
  Copied({"contractId", "accountId", "contractAccountId", "adminKey",
          "expirationTime", "autoRenewPeriod", "autoRenewAccountId",
          "storage", "contractMemo", "balance", "isDeleted",
          "tokenRelationships", "ledgerId", "stakingInfo"}, p)
ContractInfoDecode(m) ==
  [contractId |-> m.contractID, accountId |-> m.accountID,
   contractAccountId |-> m.contractAccountID, adminKey |-> m.adminKey,
   expirationTime |-> Seconds(m.expirationTime),
   autoRenewPeriod |-> m.autoRenewPeriod,
   autoRenewAccountId |-> m.autoRenewAccountId, storage |-> m.storage,
   contractMemo |-> m.memo, balance |-> m.balance, isDeleted |-> m.deleted,
   tokenRelationships |-> m.tokenRelationships, ledgerId |-> m.ledgerId,
   stakingInfo |-> m.stakingInfo]
ContractInfoEncode(o) ==
  [contractID |-> o.contractId, accountID |-> o.accountId,
   contractAccountID |-> Scalar(o.contractAccountId), adminKey |-> o.adminKey,
   expirationTime |-> o.expirationTime, autoRenewPeriod |-> o.autoRenewPeriod,
   autoRenewAccountId |-> o.autoRenewAccountId, storage |-> Scalar(o.storage),
   memo |-> Scalar(o.contractMemo), balance |-> Scalar(o.balance),
   deleted |-> Scalar(o.isDeleted),
   tokenRelationships |-> Scalar(o.tokenRelationships),
   ledgerId |-> Scalar(o.ledgerId), stakingInfo |-> o.stakingInfo]

\* ---- TokenInfo
\* The account 0.0.0 stands for no renewal account.
TokenInfoMessage ==
  Message({"name", "symbol", "decimals", "totalSupply", "deleted", "memo",
           "customFees", "tokenType", "supplyType", "maxSupply", "ledgerId"},
          {"treasury", "adminKey", "kycKey", "freezeKey", "pauseKey",
           "wipeKey", "supplyKey", "feeScheduleKey", "autoRenewPeriod"},
          {"tokenId"})
  ++ [defaultFreezeStatus |-> {0, 1, 2}, defaultKycStatus |-> {0, 1, 2},
      pauseStatus |-> {0, 1, 2}, autoRenewAccount |-> {Null, 0, 1},
      expiry |-> Times \cup {Null}]
TokenInfoNew(p) ==
  Copied({"tokenId", "name", "symbol", "decimals", "totalSupply",
          "treasuryAccountId", "adminKey", "kycKey", "freezeKey", "pauseKey",
          "wipeKey", "supplyKey", "feeScheduleKey", "defaultFreezeStatus",
          "defaultKycStatus", "pauseStatus", "isDeleted",
          "autoRenewAccountId", "autoRenewPeriod", "expirationTime",
          "tokenMemo", "customFees", "tokenType", "supplyType", "maxSupply",
          "ledgerId"}, p)
TokenInfoDecode(m) ==
  [tokenId |-> m.tokenId, name |-> m.name, symbol |-> m.symbol,
   decimals |-> m.decimals, totalSupply |-> m.totalSupply,
   treasuryAccountId |-> m.treasury, adminKey |-> m.adminKey,
   kycKey |-> m.kycKey, freezeKey |-> m.freezeKey, pauseKey |-> m.pauseKey,
   wipeKey |-> m.wipeKey, supplyKey |-> m.supplyKey,
   feeScheduleKey |-> m.feeScheduleKey,
   defaultFreezeStatus |-> ThreeWay(m.defaultFreezeStatus),
   defaultKycStatus |-> ThreeWay(m.defaultKycStatus),
   pauseStatus |-> ThreeWay(m.pauseStatus), isDeleted |-> m.deleted,
   autoRenewAccountId |-> IF m.autoRenewAccount = 0 THEN Null ELSE m.autoRenewAccount,
   autoRenewPeriod |-> m.autoRenewPeriod,
   expirationTime |-> Seconds(m.expiry), tokenMemo |-> m.memo,
   customFees |-> m.customFees, tokenType |-> m.tokenType,
   supplyType |-> m.supplyType, maxSupply |-> m.maxSupply,
   ledgerId |-> m.ledgerId]
TokenInfoEncode(o) ==
  [tokenId |-> o.tokenId, name |-> Scalar(o.name),
   symbol |-> Scalar(o.symbol), decimals |-> Scalar(o.decimals),
   totalSupply |-> Scalar(o.totalSupply), treasury |-> o.treasuryAccountId,
   adminKey |-> o.adminKey, kycKey |-> o.kycKey, freezeKey |-> o.freezeKey,
   pauseKey |-> o.pauseKey, wipeKey |-> o.wipeKey, supplyKey |-> o.supplyKey,
   feeScheduleKey |-> o.feeScheduleKey,
   defaultFreezeStatus |-> Status(o.defaultFreezeStatus),
   defaultKycStatus |-> Status(o.defaultKycStatus),
   pauseStatus |-> Status(o.pauseStatus), deleted |-> Scalar(o.isDeleted),
   autoRenewAccount |-> o.autoRenewAccountId,
   autoRenewPeriod |-> o.autoRenewPeriod, expiry |-> o.expirationTime,
   memo |-> Scalar(o.tokenMemo), customFees |-> Scalar(o.customFees),
   tokenType |-> Scalar(o.tokenType), supplyType |-> Scalar(o.supplyType),
   maxSupply |-> Scalar(o.maxSupply), ledgerId |-> Scalar(o.ledgerId)]

\* ---- TokenNftInfo
TokenNftInfoMessage ==
  Message({"metadata", "ledgerId"}, {"spenderId"}, {"nftID", "accountID"})
  ++ [creationTime |-> Times]
TokenNftInfoNew(p) ==
  Copied({"nftId", "accountId", "creationTime", "metadata", "ledgerId",
          "spenderId"}, p)
TokenNftInfoDecode(m) ==
  [nftId |-> m.nftID, accountId |-> m.accountID,
   creationTime |-> Seconds(m.creationTime), metadata |-> m.metadata,
   ledgerId |-> m.ledgerId, spenderId |-> m.spenderId]

TokenNftInfoEncode(o) ==
  [nftID |-> o.nftId, accountID |-> o.accountId,
   creationTime |-> o.creationTime, metadata |-> Scalar(o.metadata),
   ledgerId |-> Scalar(o.ledgerId), spenderId |-> o.spenderId]

\* ---- TokenAssociation
TokenAssociationMessage ==
  Message({}, {"accountId", "tokenId"}, {})
TokenAssociationNew(p) ==
  Constructed([accountId |-> Null, tokenId |-> Null], p)
TokenAssociationDecode(m) ==
  [accountId |-> m.accountId, tokenId |-> m.tokenId]
TokenAssociationEncode(o) ==
  [accountId |-> o.accountId, tokenId |-> o.tokenId]

\* ---- AssessedCustomFee
AssessedCustomFeeMessage ==
  Message({"amount", "effectivePayerAccountId"},
          {"feeCollectorAccountId", "tokenId"},
          {})
AssessedCustomFeeNew(p) ==
  Constructed([feeCollectorAccountId |-> Null, tokenId |-> Null,
               amount |-> Null, payerAccountIds |-> Null], p)
AssessedCustomFeeDecode(m) ==
  [feeCollectorAccountId |-> m.feeCollectorAccountId, tokenId |-> m.tokenId,
   amount |-> m.amount, payerAccountIds |-> m.effectivePayerAccountId]
AssessedCustomFeeEncode(o) ==
  [feeCollectorAccountId |-> o.feeCollectorAccountId, tokenId |-> o.tokenId,
   amount |-> Scalar(o.amount),
   effectivePayerAccountId |-> Scalar(o.payerAccountIds)]

\* ---- CustomFixedFee
CustomFixedFeeMessage ==
  Message({"allCollectorsAreExempt", "amount"},
          {"feeCollectorAccountId", "denominatingTokenId"},
          {})
CustomFixedFeeNew(p) ==
  Constructed([feeCollectorAccountId |-> Null, allCollectorsAreExempt |-> 0,
               denominatingTokenId |-> Null, amount |-> Null], p)
CustomFixedFeeDecode(m) ==
  [feeCollectorAccountId |-> m.feeCollectorAccountId,
   allCollectorsAreExempt |-> m.allCollectorsAreExempt,
   denominatingTokenId |-> m.denominatingTokenId, amount |-> m.amount]
CustomFixedFeeEncode(o) ==
  [feeCollectorAccountId |-> o.feeCollectorAccountId,
   allCollectorsAreExempt |-> Scalar(o.allCollectorsAreExempt),
   denominatingTokenId |-> o.denominatingTokenId, amount |-> Scalar(o.amount)]

\* ---- CustomFractionalFee
CustomFractionalFeeMessage ==
  Message({"allCollectorsAreExempt", "minimumAmount", "maximumAmount",
           "netOfTransfers"},
          {"feeCollectorAccountId"},
          {"fractionalAmount"})
CustomFractionalFeeNew(p) ==
  Constructed([feeCollectorAccountId |-> Null, allCollectorsAreExempt |-> 0,
               numerator |-> Null, denominator |-> Null, min |-> Null,
               max |-> Null, assessmentMethod |-> Null], p)
CustomFractionalFeeDecode(m) ==
  [feeCollectorAccountId |-> m.feeCollectorAccountId,
   allCollectorsAreExempt |-> m.allCollectorsAreExempt,
   numerator |-> m.fractionalAmount, denominator |-> m.fractionalAmount,
   min |-> m.minimumAmount, max |-> m.maximumAmount,
   assessmentMethod |-> m.netOfTransfers]
\* Mutant: the limits are swapped.
CustomFractionalFeeEncode_Swapped(o) ==
  [feeCollectorAccountId |-> o.feeCollectorAccountId,
   allCollectorsAreExempt |-> Scalar(o.allCollectorsAreExempt),
   fractionalAmount |-> o.numerator, minimumAmount |-> Scalar(o.max),
   maximumAmount |-> Scalar(o.min),
   netOfTransfers |-> Scalar(o.assessmentMethod)]

CustomFractionalFeeEncode(o) ==
  [feeCollectorAccountId |-> o.feeCollectorAccountId,
   allCollectorsAreExempt |-> Scalar(o.allCollectorsAreExempt),
   fractionalAmount |-> o.numerator, minimumAmount |-> Scalar(o.min),
   maximumAmount |-> Scalar(o.max),
   netOfTransfers |-> Scalar(o.assessmentMethod)]

\* ---- CustomRoyaltyFee
CustomRoyaltyFeeMessage ==
  Message({"allCollectorsAreExempt"},
          {"feeCollectorAccountId", "fallbackFee"},
          {"exchangeValueFraction"})
CustomRoyaltyFeeNew(p) ==
  Constructed([feeCollectorAccountId |-> Null, allCollectorsAreExempt |-> 0,
               fallbackFee |-> Null, numerator |-> Null, denominator |-> Null], p)
CustomRoyaltyFeeDecode(m) ==
  [feeCollectorAccountId |-> m.feeCollectorAccountId,
   allCollectorsAreExempt |-> m.allCollectorsAreExempt,
   fallbackFee |-> m.fallbackFee, numerator |-> m.exchangeValueFraction,
   denominator |-> m.exchangeValueFraction]
CustomRoyaltyFeeEncode(o) ==
  [feeCollectorAccountId |-> o.feeCollectorAccountId,
   allCollectorsAreExempt |-> Scalar(o.allCollectorsAreExempt),
   exchangeValueFraction |-> o.numerator, fallbackFee |-> o.fallbackFee]

\* ---- FileInfo
\* A file without keys gets an empty list.
FileInfoMessage ==
  Message({"size", "deleted", "memo", "ledgerId"}, {"keys"}, {"fileID"})
  ++ [expirationTime |-> Times]
FileInfoNew(p) ==
  Copied({"fileId", "size", "expirationTime", "isDeleted", "keys", "fileMemo",
          "ledgerId"}, p)
FileInfoDecode(m) ==
  [fileId |-> m.fileID, size |-> m.size,
   expirationTime |-> Seconds(m.expirationTime), isDeleted |-> m.deleted,
   keys |-> Scalar(m.keys), fileMemo |-> m.memo, ledgerId |-> m.ledgerId]
FileInfoEncode(o) ==
  [fileID |-> o.fileId, size |-> Scalar(o.size),
   expirationTime |-> o.expirationTime, deleted |-> Scalar(o.isDeleted),
   keys |-> o.keys, memo |-> Scalar(o.fileMemo),
   ledgerId |-> Scalar(o.ledgerId)]

\* ---- TopicInfo
\* toBytes() writes the part of the message without the ID of the topic, and the
\* ledger ID is not encoded.
TopicInfoMessage ==
  Message({"memo", "runningHash", "sequenceNumber", "ledgerId"},
          {"adminKey", "submitKey", "autoRenewPeriod", "autoRenewAccount"},
          {"topicID"})
  ++ [expirationTime |-> Times \cup {Null}]
TopicInfoNew(p) ==
  Copied({"topicId", "topicMemo", "runningHash", "sequenceNumber",
          "expirationTime", "adminKey", "submitKey", "autoRenewPeriod",
          "autoRenewAccountId", "ledgerId"}, p)
TopicInfoDecode(m) ==
  [topicId |-> m.topicID, topicMemo |-> m.memo, runningHash |-> m.runningHash,
   sequenceNumber |-> m.sequenceNumber,
   expirationTime |-> Seconds(m.expirationTime), adminKey |-> m.adminKey,
   submitKey |-> m.submitKey, autoRenewPeriod |-> m.autoRenewPeriod,
   autoRenewAccountId |-> m.autoRenewAccount, ledgerId |-> m.ledgerId]
TopicInfoEncode(o) ==
  [topicID |-> Null, memo |-> Scalar(o.topicMemo),
   runningHash |-> Scalar(o.runningHash),
   sequenceNumber |-> Scalar(o.sequenceNumber),
   expirationTime |-> o.expirationTime, adminKey |-> o.adminKey,
   submitKey |-> o.submitKey, autoRenewPeriod |-> o.autoRenewPeriod,
   autoRenewAccount |-> o.autoRenewAccountId]

\* ---- ScheduleInfo
\* The times of execution and deletion are not encoded.
ScheduleInfoMessage ==
  Message({"memo", "waitForExpiry"},
          {"creatorAccountID", "payerAccountID", "scheduledTransactionBody",
           "adminKey", "signers", "scheduledTransactionID"},
          {"scheduleID"})
  ++ [expirationTime |-> Times \cup {Null},
      executionTime |-> Times \cup {Null}, deletionTime |-> Times \cup {Null}]
ScheduleInfoNew(p) ==
  [scheduleId |-> p.scheduleId, creatorAccountId |-> p.creatorAccountID,
   payerAccountId |-> p.payerAccountID,
   schedulableTransactionBody |-> p.schedulableTransactionBody,
   signers |-> p.signers, scheduleMemo |-> p.scheduleMemo,
   adminKey |-> p.adminKey, expirationTime |-> p.expirationTime,
   executed |-> p.executed, deleted |-> p.deleted,
   scheduledTransactionId |-> p.scheduledTransactionId,
   waitForExpiry |-> p.waitForExpiry]
ScheduleInfoDecode(m) ==
  [scheduleId |-> m.scheduleID, creatorAccountID |-> m.creatorAccountID,
   payerAccountID |-> m.payerAccountID,
   schedulableTransactionBody |-> m.scheduledTransactionBody,
   adminKey |-> m.adminKey, signers |-> m.signers, scheduleMemo |-> m.memo,
   expirationTime |-> Seconds(m.expirationTime),
   executed |-> Seconds(m.executionTime), deleted |-> Seconds(m.deletionTime),
   scheduledTransactionId |-> m.scheduledTransactionID,
   waitForExpiry |-> m.waitForExpiry]
ScheduleInfoEncode(o) ==
  [scheduleID |-> o.scheduleId, creatorAccountID |-> o.creatorAccountId,
   payerAccountID |-> o.payerAccountId,
   scheduledTransactionBody |-> o.schedulableTransactionBody,
   adminKey |-> o.adminKey, signers |-> o.signers,
   memo |-> Scalar(o.scheduleMemo), expirationTime |-> o.expirationTime,
   scheduledTransactionID |-> o.scheduledTransactionId,
   waitForExpiry |-> Scalar(o.waitForExpiry)]

=============================================================================
