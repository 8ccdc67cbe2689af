------------------------------ MODULE Answers ------------------------------
(***************************************************************************)
(* An answer of a node, of any class: the node fills in its message, the   *)
(* SDK decodes it to an object, the application writes the object to bytes *)
(* (to keep it, or to hand it on) and reads these back.                    *)
(***************************************************************************)
EXTENDS EntityAnswers, NetworkAnswers, FiniteSets

CONSTANTS Kinds,      \* the classes of answers
          MaxFilled   \* bound: fields that differ from the empty message

\* The classes that have a _fromProtobuf() and a _toProtobuf().
AnswerClasses ==
  {"AccountInfo", "AccountBalance", "StakingInfo", "TokenRelationship",
   "LiveHash", "ProxyStaker", "ContractInfo", "TokenInfo", "TokenNftInfo",
   "TokenAssociation", "AssessedCustomFee", "CustomFixedFee",
   "CustomFractionalFee", "CustomRoyaltyFee", "FileInfo", "TopicInfo",
   "ScheduleInfo", "ExchangeRate", "ExchangeRates", "FeeComponents",
   "FeeData", "TransactionFeeSchedule", "FeeSchedule", "FeeSchedules",
   "NetworkVersionInfo", "SemanticVersion", "Endpoint", "NodeAddress",
   "ContractLogInfo", "StorageChange", "ContractStateChange",
   "ContractFunctionResult", "TopicMessageChunk", "TransactionReceipt",
   "TransactionRecord"}

ASSUME KindsAssumption == Kinds \subseteq AnswerClasses
ASSUME MaxFilledAssumption == MaxFilled \in Nat

VARIABLES answer,    \* the class
          message,   \* the message of the node
          object,    \* what it was decoded to, Null before
          written,   \* what toBytes() wrote, Null before
          again      \* what the bytes were decoded to, Null before

answerVars == <<answer, message, object, written, again>>

\* ---- The classes

MessageOf(k) ==
  CASE k = "AccountInfo" -> AccountInfoMessage
    [] k = "AccountBalance" -> AccountBalanceMessage
    [] k = "StakingInfo" -> StakingInfoMessage
    [] k = "TokenRelationship" -> TokenRelationshipMessage
    [] k = "LiveHash" -> LiveHashMessage
    [] k = "ProxyStaker" -> ProxyStakerMessage
    [] k = "ContractInfo" -> ContractInfoMessage
    [] k = "TokenInfo" -> TokenInfoMessage
    [] k = "TokenNftInfo" -> TokenNftInfoMessage
    [] k = "TokenAssociation" -> TokenAssociationMessage
    [] k = "AssessedCustomFee" -> AssessedCustomFeeMessage
    [] k = "CustomFixedFee" -> CustomFixedFeeMessage
    [] k = "CustomFractionalFee" -> CustomFractionalFeeMessage
    [] k = "CustomRoyaltyFee" -> CustomRoyaltyFeeMessage
    [] k = "FileInfo" -> FileInfoMessage
    [] k = "TopicInfo" -> TopicInfoMessage
    [] k = "ScheduleInfo" -> ScheduleInfoMessage
    [] k = "ExchangeRate" -> ExchangeRateMessage
    [] k = "ExchangeRates" -> ExchangeRatesMessage
    [] k = "FeeComponents" -> FeeComponentsMessage
    [] k = "FeeData" -> FeeDataMessage
    [] k = "TransactionFeeSchedule" -> TransactionFeeScheduleMessage
    [] k = "FeeSchedule" -> FeeScheduleMessage
    [] k = "FeeSchedules" -> FeeSchedulesMessage
    [] k = "NetworkVersionInfo" -> NetworkVersionInfoMessage
    [] k = "SemanticVersion" -> SemanticVersionMessage
    [] k = "Endpoint" -> EndpointMessage
    [] k = "NodeAddress" -> NodeAddressMessage
    [] k = "ContractLogInfo" -> ContractLogInfoMessage
    [] k = "StorageChange" -> StorageChangeMessage
    [] k = "ContractStateChange" -> ContractStateChangeMessage
    [] k = "ContractFunctionResult" -> ContractFunctionResultMessage
    [] k = "TopicMessageChunk" -> TopicMessageChunkMessage
    [] k = "TransactionReceipt" -> TransactionReceiptMessage
    [] k = "TransactionRecord" -> TransactionRecordMessage

\* _fromProtobuf() and the constructor it calls.
Read(k, m) ==
  CASE k = "AccountInfo" -> AccountInfoNew(AccountInfoDecode(m))
    [] k = "AccountBalance" -> AccountBalanceNew(AccountBalanceDecode(m))
    [] k = "StakingInfo" -> StakingInfoNew(StakingInfoDecode(m))
    [] k = "TokenRelationship" ->
         TokenRelationshipNew(TokenRelationshipDecode(m))
    [] k = "LiveHash" -> LiveHashNew(LiveHashDecode(m))
    [] k = "ProxyStaker" -> ProxyStakerNew(ProxyStakerDecode(m))
    [] k = "ContractInfo" -> ContractInfoNew(ContractInfoDecode(m))
    [] k = "TokenInfo" -> TokenInfoNew(TokenInfoDecode(m))
    [] k = "TokenNftInfo" -> TokenNftInfoNew(TokenNftInfoDecode(m))
    [] k = "TokenAssociation" ->
         TokenAssociationNew(TokenAssociationDecode(m))
    [] k = "AssessedCustomFee" ->
         AssessedCustomFeeNew(AssessedCustomFeeDecode(m))
    [] k = "CustomFixedFee" -> CustomFixedFeeNew(CustomFixedFeeDecode(m))
    [] k = "CustomFractionalFee" ->
         CustomFractionalFeeNew(CustomFractionalFeeDecode(m))
    [] k = "CustomRoyaltyFee" ->
         CustomRoyaltyFeeNew(CustomRoyaltyFeeDecode(m))
    [] k = "FileInfo" -> FileInfoNew(FileInfoDecode(m))
    [] k = "TopicInfo" -> TopicInfoNew(TopicInfoDecode(m))
    [] k = "ScheduleInfo" -> ScheduleInfoNew(ScheduleInfoDecode(m))
    [] k = "ExchangeRate" -> ExchangeRateNew(ExchangeRateDecode(m))
    [] k = "ExchangeRates" -> ExchangeRatesNew(ExchangeRatesDecode(m))
    [] k = "FeeComponents" -> FeeComponentsNew(FeeComponentsDecode(m))
    [] k = "FeeData" -> FeeDataNew(FeeDataDecode(m))
    [] k = "TransactionFeeSchedule" ->
         TransactionFeeScheduleNew(TransactionFeeScheduleDecode(m))
    [] k = "FeeSchedule" -> FeeScheduleNew(FeeScheduleDecode(m))
    [] k = "FeeSchedules" -> FeeSchedulesNew(FeeSchedulesDecode(m))
    [] k = "NetworkVersionInfo" ->
         NetworkVersionInfoNew(NetworkVersionInfoDecode(m))
    [] k = "SemanticVersion" -> SemanticVersionNew(SemanticVersionDecode(m))
    [] k = "Endpoint" -> EndpointNew(EndpointDecode(m))
    [] k = "NodeAddress" -> NodeAddressNew(NodeAddressDecode(m))
    [] k = "ContractLogInfo" -> ContractLogInfoNew(ContractLogInfoDecode(m))
    [] k = "StorageChange" -> StorageChangeNew(StorageChangeDecode(m))
    [] k = "ContractStateChange" ->
         ContractStateChangeNew(ContractStateChangeDecode(m))
    [] k = "ContractFunctionResult" ->
         ContractFunctionResultNew(ContractFunctionResultDecode(m))
    [] k = "TopicMessageChunk" ->
         TopicMessageChunkNew(TopicMessageChunkDecode(m))
    [] k = "TransactionReceipt" ->
         TransactionReceiptNew(TransactionReceiptDecode(m))
    [] k = "TransactionRecord" ->
         TransactionRecordNew(TransactionRecordDecode(m))

Write(k, o) ==
  CASE k = "AccountInfo" -> AccountInfoEncode(o)
    [] k = "AccountBalance" -> AccountBalanceEncode(o)
    [] k = "StakingInfo" -> StakingInfoEncode(o)
    [] k = "TokenRelationship" -> TokenRelationshipEncode(o)
    [] k = "LiveHash" -> LiveHashEncode(o)
    [] k = "ProxyStaker" -> ProxyStakerEncode(o)
    [] k = "ContractInfo" -> ContractInfoEncode(o)
    [] k = "TokenInfo" -> TokenInfoEncode(o)
    [] k = "TokenNftInfo" -> TokenNftInfoEncode(o)
    [] k = "TokenAssociation" -> TokenAssociationEncode(o)
    [] k = "AssessedCustomFee" -> AssessedCustomFeeEncode(o)
    [] k = "CustomFixedFee" -> CustomFixedFeeEncode(o)
    [] k = "CustomFractionalFee" -> CustomFractionalFeeEncode(o)
    [] k = "CustomRoyaltyFee" -> CustomRoyaltyFeeEncode(o)
    [] k = "FileInfo" -> FileInfoEncode(o)
    [] k = "TopicInfo" -> TopicInfoEncode(o)
    [] k = "ScheduleInfo" -> ScheduleInfoEncode(o)
    [] k = "ExchangeRate" -> ExchangeRateEncode(o)
    [] k = "ExchangeRates" -> ExchangeRatesEncode(o)
    [] k = "FeeComponents" -> FeeComponentsEncode(o)
    [] k = "FeeData" -> FeeDataEncode(o)
    [] k = "TransactionFeeSchedule" -> TransactionFeeScheduleEncode(o)
    [] k = "FeeSchedule" -> FeeScheduleEncode(o)
    [] k = "FeeSchedules" -> FeeSchedulesEncode(o)
    [] k = "NetworkVersionInfo" -> NetworkVersionInfoEncode(o)
    [] k = "SemanticVersion" -> SemanticVersionEncode(o)
    [] k = "Endpoint" -> EndpointEncode(o)
    [] k = "NodeAddress" -> NodeAddressEncode(o)
    [] k = "ContractLogInfo" -> ContractLogInfoEncode(o)
    [] k = "StorageChange" -> StorageChangeEncode(o)
    [] k = "ContractStateChange" -> ContractStateChangeEncode(o)
    [] k = "ContractFunctionResult" -> ContractFunctionResultEncode(o)
    [] k = "TopicMessageChunk" -> TopicMessageChunkEncode(o)
    [] k = "TransactionReceipt" -> TransactionReceiptEncode(o)
    [] k = "TransactionRecord" -> TransactionRecordEncode(o)

\* The value of a field that is not in the bytes.
Absent(k, f) ==
  LET v == MessageOf(k)[f] IN
  CASE f = "tokenTransferLists" -> NoGroups
    [] f # "tokenTransferLists" /\ Null \notin v /\ 0 \in v -> 0
    [] OTHER -> Null

\* The fields that the decoder takes for granted.
Needed(k) == {f \in DOMAIN MessageOf(k) \ {"tokenTransferLists"} :
                MessageOf(k)[f] \subseteq {1, Beyond}}

\* The message that bytes stand for.
Received(k, w) ==
  [f \in DOMAIN MessageOf(k) |->
     IF f \in DOMAIN w THEN w[f] ELSE Absent(k, f)]

\* _fromProtobuf() does not throw.
Readable(k, m) ==
  /\ \A f \in Needed(k) : m[f] # Null
  /\ k = "TransactionReceipt" => m.exchangeRate # NoRate

\* At most one member of a oneof is set.
OneOfs == {{"contractCallResult", "contractCreateResult"},
           {"prngBytes", "prngNumber"}, {"stakedAccountId", "stakedNodeId"}}
Exclusive(m) ==
  \A group \in OneOfs :
    Cardinality({f \in group \cap DOMAIN m : m[f] # Null}) <= 1

\* ---- Operations

\* The message without anything but what a node always sends.
Bare(k) ==
  [f \in DOMAIN MessageOf(k) |->
     IF f \in Needed(k) THEN 1 ELSE Absent(k, f)]

AnswerInit ==
  /\ answer \in Kinds
  /\ message = Bare(answer)
  /\ object = Null /\ written = Null /\ again = Null

\* The node fills in a field.
Fill(f, v) ==
  /\ object = Null
  /\ Cardinality({g \in DOMAIN message : message[g] # Bare(answer)[g]})
       < MaxFilled
  /\ message[f] = Bare(answer)[f] /\ message[f] # v
  /\ message' = [message EXCEPT ![f] = v]
  /\ Exclusive(message')
  /\ UNCHANGED <<answer, object, written, again>>

\* _fromProtobuf() of the response.
ReadAnswer ==
  /\ object = Null
  /\ object' = Read(answer, message)
  /\ UNCHANGED <<answer, message, written, again>>

\* toBytes() of the object.
WriteAnswer ==
  /\ object # Null /\ written = Null
  /\ written' = Write(answer, object)
  /\ UNCHANGED <<answer, message, object, again>>

\* fromBytes() of the bytes.
ReadAgain ==
  /\ written # Null /\ again = Null
  /\ Readable(answer, Received(answer, written))
  /\ again' = Read(answer, Received(answer, written))
  /\ UNCHANGED <<answer, message, object, written>>

AnswerNext ==
  \/ \E f \in DOMAIN message : \E v \in MessageOf(answer)[f] : Fill(f, v)
  \/ ReadAnswer
  \/ WriteAnswer
  \/ ReadAgain

AnswerSpec == AnswerInit /\ [][AnswerNext]_answerVars

\* ---- Properties

\* The fields of a message that are not in the bytes as the node sent them.
LostFields == [AccountInfo |-> {"proxyAccountID", "alias", "autoRenewPeriod"},
               TokenInfo |-> {"autoRenewAccount"},
               LiveHash |-> {"keys"},
               FileInfo |-> {"keys"},
               TopicInfo |-> {"topicID", "ledgerId"},
               ScheduleInfo |-> {"executionTime", "deletionTime"},
               ExchangeRate |-> {"expirationTime"},
               ContractFunctionResult |-> {"gas", "amount"},
               TransactionReceipt |-> {"exchangeRate"},
               TransactionRecord |-> {"alias", "transferList",
                                      "tokenTransferLists"}]

\* The bytes of an object say what the node said, but for the fields of
\* LostFields and for times after January 2038, whose seconds wrap.
AnswerKept ==
  written # Null =>
    LET bytes == Received(answer, written) IN
    \A f \in DOMAIN message :
      \/ bytes[f] = message[f]
      \/ f \in Of(LostFields, answer)
      \/ message[f] = Beyond

\* What toBytes() writes can be read by fromBytes(), but for a topic, whose
\* bytes have no ID, and for a receipt without exchange rates, which is written
\* with a set of rates that has no current one.
WrittenReadable ==
  written # Null =>
    \/ Readable(answer, Received(answer, written))
    \/ answer = "TopicInfo"
    \/ answer = "TransactionReceipt" /\ message.exchangeRate = Null

\* The fields of an object that are gone after it was written and read.
Faded == [ScheduleInfo |-> {"executed", "deleted"},
          TransactionRecord |-> {"tokenTransfers", "nftTransfers",
                                 "tokenTransfersList"}]

\* Reading the bytes gives the object that was written: whatever a conversion
\* does to a message, it does not do it again. The fields of Faded are lost.
\* A record keeps its token transfers only if it moves fungible tokens and NFTs;
\* they are repeated unless there is one token of each kind.
ReadBack ==
  again # Null =>
    /\ \A f \in DOMAIN object :
         again[f] = object[f] \/ f \in Of(Faded, answer)
    /\ answer = "TransactionRecord" =>
         LET fungible == Moved(object.tokenTransfers)
             nfts == Moved(object.nftTransfers)
         IN  /\ Moved(again.tokenTransfers)
                  = IF nfts = {} THEN {} ELSE fungible
             /\ Moved(again.nftTransfers)
                  = IF fungible = {} THEN {} ELSE nfts
             /\ Cardinality(fungible) = 1 /\ Cardinality(nfts) = 1 =>
                  /\ again.tokenTransfers = object.tokenTransfers
                  /\ again.nftTransfers = object.nftTransfers

\* An answer can be kept as bytes: they say what the node said, they can be
\* read, and reading gives the object again.
AnswersFaithful == AnswerKept /\ WrittenReadable /\ ReadBack
=============================================================================
