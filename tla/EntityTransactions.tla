------------------------- MODULE EntityTransactions -------------------------
(***************************************************************************)
(* One transaction of any class from its constructor to the call: the      *)
(* application sets and clears fields, freezes it (without a client, with  *)
(* one, or with one that signs on demand), turns it into bytes and back,   *)
(* freezes the decoded object again, and executes it with the check of     *)
(* checksums on or off. Transaction models the lists, signatures and       *)
(* retries of a transaction whose body is opaque; this module models the   *)
(* bodies, class by class. A body is compared as it is encoded: where the  *)
(* application sets two members of one choice of the message (a staked     *)
(* account and a staked node, the two IDs of SystemDelete or of the heir   *)
(* in ContractDelete), both are encoded, and which one the network keeps   *)
(* is not modelled.                                                        *)
(***************************************************************************)
EXTENDS AccountTransactions, TokenTransactions, ContractTransactions,
        FileTransactions, SystemTransactions, FiniteSets

CONSTANTS Classes,   \* the classes whose transactions are built
          MaxSets    \* bound: fields the application sets

\* The classes of TRANSACTION_REGISTRY whose bodies are modelled here.
TransactionRegistry ==
  {"AccountCreate", "AccountUpdate", "AccountDelete", "LiveHashAdd",
   "LiveHashDelete", "TokenCreate", "TokenUpdate", "TokenDelete",
   "TokenFeeScheduleUpdate", "TokenMint", "TokenBurn", "TokenWipe",
   "TokenAssociate", "TokenDissociate", "TokenFreeze", "TokenUnfreeze",
   "TokenGrantKyc", "TokenRevokeKyc", "TokenPause", "TokenUnpause",
   "ContractCreate", "ContractUpdate", "ContractDelete", "ContractExecute",
   "Ethereum", "Prng", "FileCreate", "FileUpdate", "FileDelete",
   "TopicCreate", "TopicUpdate", "TopicDelete", "ScheduleCreate",
   "ScheduleDelete", "ScheduleSign", "Freeze", "SystemDelete",
   "SystemUndelete"}

ASSUME ClassesAssumption == Classes \subseteq TransactionRegistry
ASSUME MaxSetsAssumption == MaxSets \in Nat

VARIABLES cls,      \* the class of the object
          obj,      \* its fields
          given,    \* what the application last asked of each field
          stage,    \* "building" or "frozen"
          demand,   \* _signOnDemand
          signed,   \* the body in the signed transactions, Null before
          origin,   \* class and body at the first freeze
          decoded,  \* the object is the result of fromBytes()
          outcome,  \* what execute() came to: "none", "sent", "rejected"
          sent      \* the body of the request that was sent

entityVars == <<cls, obj, given, stage, demand, signed, origin, decoded,
                outcome, sent>>

\* ---- The classes

New(c, p) ==
  CASE c = "AccountCreate" -> AccountCreateNew(p)
    [] c = "AccountUpdate" -> AccountUpdateNew(p)
    [] c = "AccountDelete" -> AccountDeleteNew(p)
    [] c = "LiveHashAdd" -> LiveHashAddNew(p)
    [] c = "LiveHashDelete" -> LiveHashDeleteNew(p)
    [] c = "TokenCreate" -> TokenCreateNew(p)
    [] c = "TokenUpdate" -> TokenUpdateNew(p)
    [] c = "TokenDelete" -> TokenDeleteNew(p)
    [] c = "TokenFeeScheduleUpdate" -> TokenFeeScheduleUpdateNew(p)
    [] c = "TokenMint" -> TokenMintNew(p)
    [] c = "TokenBurn" -> TokenBurnNew(p)
    [] c = "TokenWipe" -> TokenWipeNew(p)
    [] c = "TokenAssociate" -> TokenAssociateNew(p)
    [] c = "TokenDissociate" -> TokenDissociateNew(p)
    [] c = "TokenFreeze" -> TokenFreezeNew(p)
    [] c = "TokenUnfreeze" -> TokenUnfreezeNew(p)
    [] c = "TokenGrantKyc" -> TokenGrantKycNew(p)
    [] c = "TokenRevokeKyc" -> TokenRevokeKycNew(p)
    [] c = "TokenPause" -> TokenPauseNew(p)
    [] c = "TokenUnpause" -> TokenUnpauseNew(p)
    [] c = "ContractCreate" -> ContractCreateNew(p)
    [] c = "ContractUpdate" -> ContractUpdateNew(p)
    [] c = "ContractDelete" -> ContractDeleteNew(p)
    [] c = "ContractExecute" -> ContractExecuteNew(p)
    [] c = "Ethereum" -> EthereumNew(p)
    [] c = "Prng" -> PrngNew(p)
    [] c = "FileCreate" -> FileCreateNew(p)
    [] c = "FileUpdate" -> FileUpdateNew(p)
    [] c = "FileDelete" -> FileDeleteNew(p)
    [] c = "TopicCreate" -> TopicCreateNew(p)
    [] c = "TopicUpdate" -> TopicUpdateNew(p)
    [] c = "TopicDelete" -> TopicDeleteNew(p)
    [] c = "ScheduleCreate" -> ScheduleCreateNew(p)
    [] c = "ScheduleDelete" -> ScheduleDeleteNew(p)
    [] c = "ScheduleSign" -> ScheduleSignNew(p)
    [] c = "Freeze" -> FreezeNew(p)
    [] c = "SystemDelete" -> SystemDeleteNew(p)
    [] c = "SystemUndelete" -> SystemUndeleteNew(p)

Setters(c) ==
  CASE c = "AccountCreate" -> AccountCreateSetters
    [] c = "AccountUpdate" -> AccountUpdateSetters
    [] c = "AccountDelete" -> AccountDeleteSetters
    [] c = "LiveHashAdd" -> LiveHashAddSetters
    [] c = "LiveHashDelete" -> LiveHashDeleteSetters
    [] c = "TokenCreate" -> TokenCreateSetters
    [] c = "TokenUpdate" -> TokenUpdateSetters
    [] c = "TokenDelete" -> TokenDeleteSetters
    [] c = "TokenFeeScheduleUpdate" -> TokenFeeScheduleUpdateSetters
    [] c = "TokenMint" -> TokenMintSetters
    [] c = "TokenBurn" -> TokenBurnSetters
    [] c = "TokenWipe" -> TokenWipeSetters
    [] c = "TokenAssociate" -> TokenAssociateSetters
    [] c = "TokenDissociate" -> TokenDissociateSetters
    [] c = "TokenFreeze" -> TokenFreezeSetters
    [] c = "TokenUnfreeze" -> TokenUnfreezeSetters
    [] c = "TokenGrantKyc" -> TokenGrantKycSetters
    [] c = "TokenRevokeKyc" -> TokenRevokeKycSetters
    [] c = "TokenPause" -> TokenPauseSetters
    [] c = "TokenUnpause" -> TokenUnpauseSetters
    [] c = "ContractCreate" -> ContractCreateSetters
    [] c = "ContractUpdate" -> ContractUpdateSetters
    [] c = "ContractDelete" -> ContractDeleteSetters
    [] c = "ContractExecute" -> ContractExecuteSetters
    [] c = "Ethereum" -> EthereumSetters
    [] c = "Prng" -> PrngSetters
    [] c = "FileCreate" -> FileCreateSetters
    [] c = "FileUpdate" -> FileUpdateSetters
    [] c = "FileDelete" -> FileDeleteSetters
    [] c = "TopicCreate" -> TopicCreateSetters
    [] c = "TopicUpdate" -> TopicUpdateSetters
    [] c = "TopicDelete" -> TopicDeleteSetters
    [] c = "ScheduleCreate" -> ScheduleCreateSetters
    [] c = "ScheduleDelete" -> ScheduleDeleteSetters
    [] c = "ScheduleSign" -> ScheduleSignSetters
    [] c = "Freeze" -> FreezeSetters
    [] c = "SystemDelete" -> SystemDeleteSetters
    [] c = "SystemUndelete" -> SystemUndeleteSetters

\* Transaction._validateChecksums() does nothing where a class has none.
Checked(c) ==
  CASE c = "AccountCreate" -> AccountCreateChecked
    [] c = "AccountUpdate" -> AccountUpdateChecked
    [] c = "AccountDelete" -> AccountDeleteChecked
    [] c = "LiveHashAdd" -> LiveHashAddChecked
    [] c = "LiveHashDelete" -> LiveHashDeleteChecked
    [] c = "TokenCreate" -> TokenCreateChecked
    [] c = "TokenUpdate" -> TokenUpdateChecked
    [] c = "TokenDelete" -> TokenDeleteChecked
    [] c = "TokenMint" -> TokenMintChecked
    [] c = "TokenBurn" -> TokenBurnChecked
    [] c = "TokenWipe" -> TokenWipeChecked
    [] c = "TokenAssociate" -> TokenAssociateChecked
    [] c = "TokenDissociate" -> TokenDissociateChecked
    [] c = "TokenFreeze" -> TokenFreezeChecked
    [] c = "TokenUnfreeze" -> TokenUnfreezeChecked
    [] c = "TokenGrantKyc" -> TokenGrantKycChecked
    [] c = "TokenRevokeKyc" -> TokenRevokeKycChecked
    [] c = "TokenPause" -> TokenPauseChecked
    [] c = "TokenUnpause" -> TokenUnpauseChecked
    [] c = "ContractCreate" -> ContractCreateChecked
    [] c = "ContractUpdate" -> ContractUpdateChecked
    [] c = "ContractDelete" -> ContractDeleteChecked
    [] c = "ContractExecute" -> ContractExecuteChecked
    [] c = "Ethereum" -> EthereumChecked
    [] c = "FileUpdate" -> FileUpdateChecked
    [] c = "FileDelete" -> FileDeleteChecked
    [] c = "TopicCreate" -> TopicCreateChecked
    [] c = "TopicUpdate" -> TopicUpdateChecked
    [] c = "TopicDelete" -> TopicDeleteChecked
    [] c = "ScheduleCreate" -> ScheduleCreateChecked
    [] c = "ScheduleDelete" -> ScheduleDeleteChecked
    [] c = "ScheduleSign" -> ScheduleSignChecked
    [] OTHER -> {}

Make(c, o) ==
  CASE c = "AccountCreate" -> AccountCreateMake(o)
    [] c = "AccountUpdate" -> AccountUpdateMake(o)
    [] c = "AccountDelete" -> AccountDeleteMake(o)
    [] c = "LiveHashAdd" -> LiveHashAddMake(o)
    [] c = "LiveHashDelete" -> LiveHashDeleteMake(o)
    [] c = "TokenCreate" -> TokenCreateMake(o)
    [] c = "TokenUpdate" -> TokenUpdateMake(o)
    [] c = "TokenDelete" -> TokenDeleteMake(o)
    [] c = "TokenFeeScheduleUpdate" -> TokenFeeScheduleUpdateMake(o)
    [] c = "TokenMint" -> TokenMintMake(o)
    [] c = "TokenBurn" -> TokenBurnMake(o)
    [] c = "TokenWipe" -> TokenWipeMake(o)
    [] c = "TokenAssociate" -> TokenAssociateMake(o)
    [] c = "TokenDissociate" -> TokenDissociateMake(o)
    [] c = "TokenFreeze" -> TokenFreezeMake(o)
    [] c = "TokenUnfreeze" -> TokenUnfreezeMake(o)
    [] c = "TokenGrantKyc" -> TokenGrantKycMake(o)
    [] c = "TokenRevokeKyc" -> TokenRevokeKycMake(o)
    [] c = "TokenPause" -> TokenPauseMake(o)
    [] c = "TokenUnpause" -> TokenUnpauseMake(o)
    [] c = "ContractCreate" -> ContractCreateMake(o)
    [] c = "ContractUpdate" -> ContractUpdateMake(o)
    [] c = "ContractDelete" -> ContractDeleteMake(o)
    [] c = "ContractExecute" -> ContractExecuteMake(o)
    [] c = "Ethereum" -> EthereumMake(o)
    [] c = "Prng" -> PrngMake(o)
    [] c = "FileCreate" -> FileCreateMake(o)
    [] c = "FileUpdate" -> FileUpdateMake(o)
    [] c = "FileDelete" -> FileDeleteMake(o)
    [] c = "TopicCreate" -> TopicCreateMake(o)
    [] c = "TopicUpdate" -> TopicUpdateMake(o)
    [] c = "TopicDelete" -> TopicDeleteMake(o)
    [] c = "ScheduleCreate" -> ScheduleCreateMake(o)
    [] c = "ScheduleDelete" -> ScheduleDeleteMake(o)
    [] c = "ScheduleSign" -> ScheduleSignMake(o)
    [] c = "Freeze" -> FreezeMake(o)
    [] c = "SystemDelete" -> SystemDeleteMake(o)
    [] c = "SystemUndelete" -> SystemUndeleteMake(o)

From(c, b) ==
  CASE c = "AccountCreate" -> AccountCreateFrom(b)
    [] c = "AccountUpdate" -> AccountUpdateFrom(b)
    [] c = "AccountDelete" -> AccountDeleteFrom(b)
    [] c = "LiveHashAdd" -> LiveHashAddFrom(b)
    [] c = "LiveHashDelete" -> LiveHashDeleteFrom(b)
    [] c = "TokenCreate" -> TokenCreateFrom(b)
    [] c = "TokenUpdate" -> TokenUpdateFrom(b)
    [] c = "TokenDelete" -> TokenDeleteFrom(b)
    [] c = "TokenFeeScheduleUpdate" -> TokenFeeScheduleUpdateFrom(b)
    [] c = "TokenMint" -> TokenMintFrom(b)
    [] c = "TokenBurn" -> TokenBurnFrom(b)
    [] c = "TokenWipe" -> TokenWipeFrom(b)
    [] c = "TokenAssociate" -> TokenAssociateFrom(b)
    [] c = "TokenDissociate" -> TokenDissociateFrom(b)
    [] c = "TokenFreeze" -> TokenFreezeFrom(b)
    [] c = "TokenUnfreeze" -> TokenUnfreezeFrom(b)
    [] c = "TokenGrantKyc" -> TokenGrantKycFrom(b)
    [] c = "TokenRevokeKyc" -> TokenRevokeKycFrom(b)
    [] c = "TokenPause" -> TokenPauseFrom(b)
    [] c = "TokenUnpause" -> TokenUnpauseFrom(b)
    [] c = "ContractCreate" -> ContractCreateFrom(b)
    [] c = "ContractUpdate" -> ContractUpdateFrom(b)
    [] c = "ContractDelete" -> ContractDeleteFrom(b)
    [] c = "ContractExecute" -> ContractExecuteFrom(b)
    [] c = "Ethereum" -> EthereumFrom(b)
    [] c = "Prng" -> PrngFrom(b)
    [] c = "FileCreate" -> FileCreateFrom(b)
    [] c = "FileUpdate" -> FileUpdateFrom(b)
    [] c = "FileDelete" -> FileDeleteFrom(b)
    [] c = "TopicCreate" -> TopicCreateFrom(b)
    [] c = "TopicUpdate" -> TopicUpdateFrom(b)
    [] c = "TopicDelete" -> TopicDeleteFrom(b)
    [] c = "ScheduleCreate" -> ScheduleCreateFrom(b)
    [] c = "ScheduleDelete" -> ScheduleDeleteFrom(b)
    [] c = "ScheduleSign" -> ScheduleSignFrom(b)
    [] c = "Freeze" -> FreezeFrom(b)
    [] c = "SystemDelete" -> SystemDeleteFrom(b)
    [] c = "SystemUndelete" -> SystemUndeleteFrom(b)

Call(c) ==
  CASE c = "AccountCreate" -> AccountCreateCall
    [] c = "AccountUpdate" -> AccountUpdateCall
    [] c = "AccountDelete" -> AccountDeleteCall
    [] c = "LiveHashAdd" -> LiveHashAddCall
    [] c = "LiveHashDelete" -> LiveHashDeleteCall
    [] c = "TokenCreate" -> TokenCreateCall
    [] c = "TokenUpdate" -> TokenUpdateCall
    [] c = "TokenDelete" -> TokenDeleteCall
    [] c = "TokenFeeScheduleUpdate" -> TokenFeeScheduleUpdateCall
    [] c = "TokenMint" -> TokenMintCall
    [] c = "TokenBurn" -> TokenBurnCall
    [] c = "TokenWipe" -> TokenWipeCall
    [] c = "TokenAssociate" -> TokenAssociateCall
    [] c = "TokenDissociate" -> TokenDissociateCall
    [] c = "TokenFreeze" -> TokenFreezeCall
    [] c = "TokenUnfreeze" -> TokenUnfreezeCall
    [] c = "TokenGrantKyc" -> TokenGrantKycCall
    [] c = "TokenRevokeKyc" -> TokenRevokeKycCall
    [] c = "TokenPause" -> TokenPauseCall
    [] c = "TokenUnpause" -> TokenUnpauseCall
    [] c = "ContractCreate" -> ContractCreateCall
    [] c = "ContractUpdate" -> ContractUpdateCall
    [] c = "ContractDelete" -> ContractDeleteCall
    [] c = "ContractExecute" -> ContractExecuteCall
    [] c = "Ethereum" -> EthereumCall
    [] c = "Prng" -> PrngCall
    [] c = "FileCreate" -> FileCreateCall
    [] c = "FileUpdate" -> FileUpdateCall
    [] c = "FileDelete" -> FileDeleteCall
    [] c = "TopicCreate" -> TopicCreateCall
    [] c = "TopicUpdate" -> TopicUpdateCall
    [] c = "TopicDelete" -> TopicDeleteCall
    [] c = "ScheduleCreate" -> ScheduleCreateCall
    [] c = "ScheduleDelete" -> ScheduleDeleteCall
    [] c = "ScheduleSign" -> ScheduleSignCall
    [] c = "Freeze" -> FreezeCall
    [] c = "SystemDelete" -> SystemDeleteCall
    [] c = "SystemUndelete" -> SystemUndeleteCall

\* ---- Identifiers

AccountIds == {"accountId", "transferAccountId", "proxyAccountId",
               "stakedAccountId", "treasuryAccountId", "autoRenewAccountId",
               "payerAccountId"}
ContractIds == {"contractId", "transferContractId"}
OtherIds == {"fileId", "bytecodeFileId", "callDataFileId", "tokenId",
             "tokenIds", "topicId", "scheduleId"}

\* AccountId.fromString() and ContractId.fromString() split the text and drop
\* its checksum; the other classes keep it.
AccountIdFromString(v) == IF v = Foreign THEN 1 ELSE v
ContractIdFromString(v) == IF v = Foreign THEN 1 ELSE v
Parsed(f, v) == IF f \in AccountIds THEN AccountIdFromString(v)
                ELSE IF f \in ContractIds THEN ContractIdFromString(v)
                ELSE v

\* validateChecksum() of an ID: the checksum, where there is one, is compared
\* with the ledger's; an account with an alias key is refused.
BadId(v) == v \in {Foreign, Alias}

\* What the application hands to the setter of a field; an EVM address is
\* never empty.
Values(f) == CASE f \in AccountIds -> {0, 1, Foreign, Alias}
               [] f \in ContractIds \cup OtherIds -> {0, 1, Foreign}
               [] f = "alias" -> {1}
               [] f \in {"expirationTime", "startTimestamp"} -> Times
               [] OTHER -> {0, 1}

\* ---- Operations

NoProps == [f \in {} |-> Null]
Nothing(c) == [f \in DOMAIN New(c, NoProps) |-> Null]

EntityInit ==
  /\ cls \in Classes
  /\ obj = New(cls, NoProps)
  /\ given = Nothing(cls)
  /\ stage = "building" /\ outcome = "none"
  /\ demand = FALSE /\ decoded = FALSE
  /\ signed = Null /\ origin = Null /\ sent = Null

\* Mutant: no setter asks whether the transaction is frozen.
Set_Unguarded(f, v) ==
  LET s == Setters(cls)
      dropped == IF f \in DOMAIN s.nulls THEN {s.nulls[f]} ELSE {}
  IN  /\ outcome = "none"
      /\ \/ given[f] # Null
         \/ Cardinality({g \in DOMAIN given : given[g] # Null}) < MaxSets
      /\ obj' = [g \in DOMAIN obj |-> IF g = f THEN Parsed(f, v)
                                      ELSE IF g \in dropped THEN Null
                                      ELSE obj[g]]
      /\ given' = [given EXCEPT ![f] = v]
      /\ UNCHANGED <<cls, stage, demand, signed, origin, decoded, outcome,
                     sent>>

\* The setter of field f: refused once the transaction is frozen, where it is
\* guarded.
Set(f, v) ==
  LET s == Setters(cls)
      dropped == IF f \in DOMAIN s.nulls THEN {s.nulls[f]} ELSE {}
  IN  /\ outcome = "none"
      /\ f \in s.guarded => stage = "building"
      /\ \/ given[f] # Null
         \/ Cardinality({g \in DOMAIN given : given[g] # Null}) < MaxSets
      /\ obj' = [g \in DOMAIN obj |-> IF g = f THEN Parsed(f, v)
                                      ELSE IF g \in dropped THEN Null
                                      ELSE obj[g]]
      /\ given' = [given EXCEPT ![f] = v]
      /\ UNCHANGED <<cls, stage, demand, signed, origin, decoded, outcome,
                     sent>>

\* The clear method of field f.
ClearField(f) ==
  LET s == Setters(cls) IN
  /\ outcome = "none"
  /\ f \in s.openClears \/ stage = "building"
  /\ obj' = [obj EXCEPT ![f] = s.clears[f]]
  /\ given' = [given EXCEPT ![f] = s.clears[f]]
  /\ UNCHANGED <<cls, stage, demand, signed, origin, decoded, outcome, sent>>

\* TokenCreateTransaction.freezeWith(): a token that renews itself is paid for
\* by the operator, whatever account was set.
TokenCreateFreeze(o) == IF o.autoRenewPeriod = Null THEN o
                        ELSE [o EXCEPT !.autoRenewAccountId = Operator]

\* The fields after freezeWith() in a mode: without a client ("offline"), with
\* one, or with one that signs on demand.
AfterFreeze(c, o, mode) ==
  IF c = "TokenCreate" /\ mode # "offline" THEN TokenCreateFreeze(o) ELSE o

\* freezeWith(), of a new object or again of a decoded one, whose list of
\* signed transactions is locked.
FreezeWith(mode) ==
  /\ outcome = "none"
  /\ stage = "building" \/ decoded
  /\ obj' = AfterFreeze(cls, obj, mode)
  /\ stage' = "frozen"
  /\ demand' = (mode = "demand")
  /\ signed' = IF mode = "demand" \/ decoded THEN signed ELSE Make(cls, obj')
  /\ origin' = IF stage = "frozen" THEN origin
               ELSE [cls |-> cls, body |-> Make(cls, obj')]
  /\ UNCHANGED <<cls, given, decoded, outcome, sent>>

\* The body of the bytes, or of the next request: made from the fields when
\* signing is on demand, else the one that was signed.
Body == IF demand THEN Make(cls, obj) ELSE signed

\* fromBytes(toBytes()): the case of the body selects the class from the
\* registry. A schedule without its transaction cannot be decoded.
FromBytes ==
  /\ outcome = "none" /\ stage = "frozen" /\ ~decoded
  /\ cls = "ScheduleCreate" => obj.scheduledTransaction # Null
  /\ \E c \in Classes :
       /\ Call(c).case = Call(cls).case
       /\ cls' = c
       /\ obj' = New(c, From(c, Body))
       /\ given' = Nothing(c)
  /\ signed' = Body
  /\ decoded' = TRUE /\ demand' = FALSE
  /\ UNCHANGED <<stage, origin, outcome, sent>>

\* Mutant: one ID of the right ledger is enough.
Valid_AnyId(c, o) == Checked(c) # {} => \E f \in Checked(c) : ~BadId(o[f])

\* _validateChecksums(): PrngTransaction's calls itself when there is a range.
Valid(c, o) == /\ \A f \in Checked(c) : ~BadId(o[f])
               /\ c = "Prng" => PrngChecked(o)

\* execute() up to the request: _beforeExecute() freezes a transaction that is
\* not, and checks the IDs when the client says so; FreezeTransaction has no
\* call to make.
Execute(mode, check) ==
  LET fresh == stage = "building"
      o == IF fresh THEN AfterFreeze(cls, obj, mode) ELSE obj
      ok == (check => Valid(cls, o)) /\ Call(cls).rpc # "unimplemented"
      body == IF fresh THEN Make(cls, o) ELSE Body
  IN  /\ outcome = "none"
      /\ obj' = o /\ stage' = "frozen"
      /\ demand' = IF fresh THEN mode = "demand" ELSE demand
      /\ signed' = IF demand' THEN signed ELSE body
      /\ origin' = IF fresh THEN [cls |-> cls, body |-> body] ELSE origin
      /\ outcome' = IF ~ok THEN "rejected"
                    ELSE IF check THEN "checked" ELSE "sent"
      /\ sent' = IF ok THEN body ELSE Null
      /\ UNCHANGED <<cls, given, decoded>>

EntityNext ==
  \/ \E f \in Setters(cls).guarded \cup Setters(cls).open :
       \E v \in Values(f) : Set(f, v)
  \/ \E f \in DOMAIN Setters(cls).clears : ClearField(f)
  \/ \E mode \in {"offline", "client", "demand"} : FreezeWith(mode)
  \/ FromBytes
  \/ \E mode \in {"client", "demand"}, check \in BOOLEAN : Execute(mode, check)

EntitySpec == EntityInit /\ [][EntityNext]_entityVars

\* ---- Properties

\* The fields of a body that decoding does not bring back, class by class.
Lossy == [AccountCreate |-> {"initialBalance"},
          AccountUpdate |-> {"receiverSigRequiredWrapper", "declineReward"},
          ContractCreate |-> {"initialBalance", "initcode"},
          ContractUpdate |-> {"declineReward"},
          TokenUpdate |-> {"pauseKey"},
          TokenWipe |-> {"serialNumbers"}]

\* The fields of a body that may change after the freeze: their setters are
\* not guarded, or a second freezeWith() writes them.
Loose == [AccountCreate |-> {"alias"},
          TokenCreate |-> {"customFees", "tokenType", "supplyType",
                           "maxSupply", "autoRenewAccount"},
          ContractCreate |-> {"maxAutomaticTokenAssociations"},
          ContractUpdate |-> {"autoRenewAccountId"},
          ScheduleCreate |-> {"expirationTime", "waitForExpiry"},
          Prng |-> {"range"}]

\* fromBytes(toBytes()) gives an object of the same class that stands for the
\* same body, but for the fields of Lossy, which the decoders lose or change
\* (an initial balance a hundred million times as large among them), those of
\* Loose, and times after January 2038, whose seconds wrap.
DecodedFaithfully ==
  decoded =>
    /\ cls = origin.cls
    /\ LET body == Make(cls, obj) IN
       \A w \in DOMAIN origin.body :
         \/ body[w] = origin.body[w]
         \/ w \in Of(Lossy, cls) \cup Of(Loose, cls)
         \/ origin.body[w] = Beyond

\* A request carries the body that the transaction had when it was frozen. Only
\* a client that signs on demand builds the body again for each request: then
\* the fields with an unguarded setter, and after fromBytes() those that
\* decoding loses, may differ from what was frozen.
SentAsFrozen ==
  outcome \in {"sent", "checked"} =>
    \A w \in DOMAIN origin.body :
      \/ sent[w] = origin.body[w]
      \/ demand /\ w \in Of(Loose, cls)
      \/ demand /\ decoded /\ (w \in Of(Lossy, cls) \/ origin.body[w] = Beyond)
      \/ decoded /\ w \in Of(Loose, cls)   \* loosened before the bytes

\* IDs outside AccountIds and ContractIds that no class checks.
Unchecked == [TokenFeeScheduleUpdate |-> {"tokenId"},
              Ethereum |-> {"callDataFileId"},
              SystemDelete |-> {"fileId"},
              SystemUndelete |-> {"fileId"}]

\* With the automatic check on, no transaction is sent with an ID that the
\* application gave with the checksum of another ledger, but for the IDs of
\* Unchecked and for every account and contract, whose checksum is dropped when
\* its text is parsed.
ForeignIdsRefused ==
  outcome = "checked" =>
    \A f \in DOMAIN given :
      given[f] = Foreign /\ obj[f] # Null =>
        f \in Of(Unchecked, cls) \cup AccountIds \cup ContractIds

\* A transaction that is refused before it is sent holds an ID of another
\* ledger or an account named by its alias, but for the class without a call
\* and for the random number with a range, which the automatic check never
\* lets through.
RefusedForCause ==
  outcome = "rejected" =>
    \/ \E f \in DOMAIN obj : BadId(obj[f])
    \/ cls \in {"Freeze", "Prng"}

\* Fields for which the order of the setters matters, or that the constructor
\* does not take.
Ordered == [TokenCreate |-> {"autoRenewPeriod", "autoRenewAccount"},
            ContractCreate |-> {"fileID", "initcode"},
            ScheduleCreate |-> {"expirationTime", "waitForExpiry"}]

\* Setters called one by one, in any order and repeatedly, with clears between
\* them, give the body that the constructor gives for the same properties at
\* once: what fromBytes() relies on.
SettersAgreeWithConstructor ==
  ~decoded =>
    LET o == New(cls, [f \in DOMAIN given |-> Parsed(f, given[f])])
        one == Make(cls, obj)
        other == Make(cls, o)
    IN  \A w \in DOMAIN one : one[w] = other[w] \/ w \in Of(Ordered, cls)

\* The body is decided by what the application set: not by the order of the
\* setters, and not by the way through the bytes.
BodyAsGiven == SettersAgreeWithConstructor /\ DecodedFaithfully

\* The automatic check of IDs refuses what it must and nothing else, but for
\* the gaps that its two parts name.
IdsChecked == ForeignIdsRefused /\ RefusedForCause
=============================================================================
