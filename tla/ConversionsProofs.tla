------------------------- MODULE ConversionsProofs -------------------------
(***************************************************************************)
(* Proofs about the conversions: of the transactions of entities (what     *)
(* their bodies hold, what is sent of them, and which IDs are let          *)
(* through), of the allowances that are granted, and of the answers that   *)
(* are kept as bytes. They hold for any number of calls of setters, any    *)
(* number of fields that a node fills in, and any choice of classes.       *)
(*                                                                         *)
(* For transactions and for answers the argument is made once, for a class *)
(* of which some facts are known (Faithful, Telling), and the facts are    *)
(* then established class by class from the definitions of its             *)
(* constructor, setters, encoder and decoder.                              *)
(***************************************************************************)
EXTENDS EntityTransactions, Allowances, Answers, FiniteSetTheorems,
        WellFoundedInduction, TLAPS

-----------------------------------------------------------------------------
(* What the argument needs to know of a class *)

(* The fields of an object, and those that have a setter. *)
Fields(c) == DOMAIN New(c, NoProps)
Names(c) == Setters(c).guarded \cup Setters(c).open

(* The fields that may be written when the transaction is frozen. *)
Rewritten(c) ==
    Setters(c).open \cup Setters(c).openClears
    \cup IF c = "TokenCreate" THEN {"autoRenewAccountId"} ELSE {}

(* The fields that depend on more than the last call of their own setter. *)
Entangled == [TokenCreate |-> {"autoRenewPeriod", "autoRenewAccountId"},
              ContractCreate |-> {"bytecodeFileId", "bytecode"},
              ScheduleCreate |-> {"expirationTime", "waitForExpiry"}]

(* The objects that constructor and setters can make: a field that the     *)
(* constructor fills in stays filled in, one without a setter keeps its     *)
(* value, and a new token has a renewal period or a time of expiration.     *)
WellFormed(c, o) ==
    /\ DOMAIN o = Fields(c)
    /\ \A f \in Fields(c) :
         New(c, NoProps)[f] # Null =>
           o[f] # Null \/ (c = "TokenCreate" /\ f = "autoRenewPeriod")
    /\ \A f \in Fields(c) \ Names(c) : o[f] = New(c, NoProps)[f]
    /\ c = "TokenCreate" =>
         /\ o.autoRenewPeriod = Null => o.expirationTime # Null
         /\ o.expirationTime # Null => o.autoRenewPeriod # Default

(* The constructor: what it makes is well formed, and holds the properties  *)
(* it is given and the initial values of the others.                        *)
Constructs(c) ==
    \A p :
      /\ DOMAIN p \subseteq Names(c) => WellFormed(c, New(c, p))
      /\ DOMAIN New(c, p) = Fields(c)
      /\ \A f \in Fields(c) \ Of(Entangled, c) :
           New(c, p)[f] = IF f \in DOMAIN p /\ p[f] # Null THEN p[f]
                          ELSE New(c, NoProps)[f]

(* The setters write fields of the object; one that drops another field is  *)
(* guarded, and the field it drops is entangled; a clear method writes a    *)
(* value that the constructor or a setter would give.                       *)
SetsFields(c) ==
    LET s == Setters(c) IN
    /\ Names(c) \subseteq Fields(c) /\ Checked(c) \subseteq Fields(c)
    /\ DOMAIN s.clears \subseteq Names(c)
    /\ \A f \in DOMAIN s.nulls :
         /\ f \notin s.open /\ s.nulls[f] \in Of(Entangled, c)
         /\ s.nulls[f] \in Names(c)
         /\ c = "TokenCreate" =>
              f = "expirationTime" /\ s.nulls[f] = "autoRenewPeriod"
         /\ c # "TokenCreate" => New(c, NoProps)[s.nulls[f]] = Null
    /\ \A f \in DOMAIN s.clears :
         /\ s.clears[f] \in {Null, 0, -1}
         /\ New(c, NoProps)[f] = Null /\ f \notin Of(Entangled, c)
         /\ c # "TokenCreate"
    /\ c = "TokenCreate" => /\ "expirationTime" \in DOMAIN s.nulls
                            /\ "autoRenewPeriod" \notin s.open
                            /\ "expirationTime" \notin s.open

(* The encoder: objects that differ only in the fields that may be written  *)
(* after the freeze have bodies that differ only in Loose, and objects that *)
(* differ only in entangled fields have bodies that differ only in Ordered. *)
MakesFields(c) ==
    \A o1, o2 :
      /\ DOMAIN Make(c, o1) = DOMAIN Make(c, o2)
      /\ (\A f \in Fields(c) \ Rewritten(c) : o1[f] = o2[f]) =>
           \A w \in DOMAIN Make(c, o1) \ Of(Loose, c) :
             Make(c, o1)[w] = Make(c, o2)[w]
      /\ (\A f \in Fields(c) \ Of(Entangled, c) : o1[f] = o2[f]) =>
           \A w \in DOMAIN Make(c, o1) \ Of(Ordered, c) :
             Make(c, o1)[w] = Make(c, o2)[w]

(* The decoder: the body of a well-formed object is decoded to an object    *)
(* that is encoded to the same body.                                        *)
Kept(c, b) == DOMAIN b \ (Of(Loose, c) \cup Of(Lossy, c))
Decodes(c, b) ==
    LET a == Make(c, New(c, From(c, b))) IN
    \A w \in Kept(c, b) : a[w] = b[w] \/ b[w] = Beyond

RoundTrips(c) ==
    /\ \A b : DOMAIN From(c, b) \subseteq Names(c)
    /\ \A o : WellFormed(c, o) => Decodes(c, Make(c, o))

(* The check of IDs: every class but one has a call, and checks those of    *)
(* its IDs that keep their checksum.                                        *)
ChecksIds(c) ==
    IF Call(c).rpc = "unimplemented" THEN c = "Freeze"
    ELSE \A f \in Names(c) \cap OtherIds :
           f \in Checked(c) \cup Of(Unchecked, c)

(* TRANSACTION_REGISTRY: the class that fromBytes() takes for a case.       *)
ClassOf ==
    [cryptoCreateAccount |-> "AccountCreate",
     cryptoUpdateAccount |-> "AccountUpdate",
     cryptoDelete |-> "AccountDelete", cryptoAddLiveHash |-> "LiveHashAdd",
     cryptoDeleteLiveHash |-> "LiveHashDelete",
     tokenCreation |-> "TokenCreate", tokenUpdate |-> "TokenUpdate",
     tokenDeletion |-> "TokenDelete",
     tokenFeeScheduleUpdate |-> "TokenFeeScheduleUpdate",
     tokenMint |-> "TokenMint", tokenBurn |-> "TokenBurn",
     tokenWipe |-> "TokenWipe", tokenAssociate |-> "TokenAssociate",
     tokenDissociate |-> "TokenDissociate", tokenFreeze |-> "TokenFreeze",
     tokenUnfreeze |-> "TokenUnfreeze", tokenGrantKyc |-> "TokenGrantKyc",
     tokenRevokeKyc |-> "TokenRevokeKyc", tokenPause |-> "TokenPause",
     tokenUnpause |-> "TokenUnpause",
     contractCreateInstance |-> "ContractCreate",
     contractUpdateInstance |-> "ContractUpdate",
     contractDeleteInstance |-> "ContractDelete",
     contractCall |-> "ContractExecute", ethereumTransaction |-> "Ethereum",
     utilPrng |-> "Prng", fileCreate |-> "FileCreate",
     fileUpdate |-> "FileUpdate", fileDelete |-> "FileDelete",
     consensusCreateTopic |-> "TopicCreate",
     consensusUpdateTopic |-> "TopicUpdate",
     consensusDeleteTopic |-> "TopicDelete",
     scheduleCreate |-> "ScheduleCreate",
     scheduleDelete |-> "ScheduleDelete", scheduleSign |-> "ScheduleSign",
     freeze |-> "Freeze", systemDelete |-> "SystemDelete",
     systemUndelete |-> "SystemUndelete"]

Faithful(c) ==
    /\ Constructs(c) /\ SetsFields(c) /\ MakesFields(c)
    /\ RoundTrips(c) /\ ChecksIds(c)
    /\ ClassOf[Call(c).case] = c

-----------------------------------------------------------------------------
(* A constructor that only assigns *)

(* Fields that the constructor copies from its properties are well formed.  *)
LEMMA PlainConstructor ==
    ASSUME NEW c, c # "TokenCreate", NEW init,
           \A p : New(c, p) = Constructed(init, p)
    PROVE  Constructs(c)
<1>1. New(c, NoProps) = Constructed(init, NoProps) /\ DOMAIN NoProps = {}
  BY DEF NoProps
<1>2. /\ Fields(c) = DOMAIN init
      /\ \A f \in DOMAIN init : New(c, NoProps)[f] = init[f]
  BY <1>1 DEF Fields, Constructed
<1>3. ASSUME NEW p
      PROVE  /\ DOMAIN New(c, p) = DOMAIN init
             /\ \A f \in DOMAIN init :
                  New(c, p)[f] = IF f \in DOMAIN p /\ p[f] # Null THEN p[f]
                                 ELSE init[f]
  BY DEF Constructed
<1>4. ASSUME NEW p, DOMAIN p \subseteq Names(c)
      PROVE  WellFormed(c, New(c, p))
  <2>1. \A f \in Fields(c) : New(c, NoProps)[f] # Null => New(c, p)[f] # Null
    BY <1>2, <1>3
  <2>2. \A f \in Fields(c) \ Names(c) : New(c, p)[f] = New(c, NoProps)[f]
    BY <1>2, <1>3, <1>4
  <2> QED
    BY <1>2, <1>3, <2>1, <2>2 DEF WellFormed
<1> QED
  BY <1>2, <1>3, <1>4 DEF Constructs

-----------------------------------------------------------------------------
(* The classes *)

(* AccountCreateTransaction. *)
LEMMA AccountCreateFaithful == Faithful("AccountCreate")
<1>1. /\ \A p : New("AccountCreate", p) = AccountCreateNew(p)
      /\ \A o : Make("AccountCreate", o) = AccountCreateMake(o)
      /\ \A b : From("AccountCreate", b) = AccountCreateFrom(b)
  BY DEF New, Make, From
<1>2. /\ Setters("AccountCreate") = AccountCreateSetters
      /\ Checked("AccountCreate") = {"proxyAccountId"}
      /\ Call("AccountCreate") = AccountCreateCall
  BY DEF Setters, Checked, Call, AccountCreateChecked
<1>3. Fields("AccountCreate") =
        {"key", "initialBalance", "sendRecordThreshold",
         "receiveRecordThreshold", "receiverSignatureRequired",
         "proxyAccountId", "autoRenewPeriod", "accountMemo",
         "maxAutomaticTokenAssociations", "stakedAccountId", "stakedNodeId",
         "declineStakingReward", "alias"}
  BY <1>1 DEF Fields, AccountCreateNew, Constructed
<1>4. /\ Names("AccountCreate") = {"key", "initialBalance",
                                   "receiverSignatureRequired",
                                   "proxyAccountId", "autoRenewPeriod",
                                   "accountMemo",
                                   "maxAutomaticTokenAssociations",
                                   "stakedAccountId", "stakedNodeId",
                                   "declineStakingReward", "alias"}
      /\ Rewritten("AccountCreate") = {"alias"}
      /\ Of(Loose, "AccountCreate") = {"alias"}
      /\ Of(Lossy, "AccountCreate") = {"initialBalance"}
      /\ Of(Ordered, "AccountCreate") = {}
      /\ Of(Entangled, "AccountCreate") = {}
  BY <1>2 DEF Names, Rewritten, Of, Loose, Lossy, Ordered, Entangled,
      AccountCreateSetters
<1>5. Constructs("AccountCreate")
  BY <1>1, PlainConstructor, Zenon DEF AccountCreateNew
<1>6. SetsFields("AccountCreate")
  BY <1>1, <1>2, <1>3, <1>4, NullAssumption DEF SetsFields,
      AccountCreateSetters, NoEffect, AccountCreateNew, Constructed, NoProps
<1>7. MakesFields("AccountCreate")
  BY <1>1, <1>3, <1>4 DEF MakesFields, AccountCreateMake
<1>8. ASSUME NEW o, WellFormed("AccountCreate", o),
             NEW b, b = AccountCreateMake(o),
             NEW n, n = AccountCreateNew(AccountCreateFrom(b)),
             NEW w \in Kept("AccountCreate", b)
      PROVE  AccountCreateMake(n)[w] = b[w] \/ b[w] = Beyond
  <2>1. w \in {"key", "autoRenewPeriod", "proxyAccountID",
              "receiveRecordThreshold", "sendRecordThreshold",
              "receiverSigRequired", "memo", "maxAutomaticTokenAssociations",
              "stakedAccountId", "stakedNodeId", "declineReward"}
    BY <1>4, <1>8 DEF Kept, AccountCreateMake
  <2>2. o.autoRenewPeriod # Null
    BY <1>1, <1>3, <1>8, NullAssumption DEF WellFormed, AccountCreateNew,
      Constructed, NoProps, Default
  <2>4. /\ n.key = o.key /\ n.autoRenewPeriod = o.autoRenewPeriod
        /\ n.proxyAccountId = Id(o.proxyAccountId)
        /\ n.receiverSignatureRequired = Scalar(o.receiverSignatureRequired)
        /\ n.accountMemo = Scalar(o.accountMemo)
        /\ n.maxAutomaticTokenAssociations = Scalar(o.maxAutomaticTokenAssociations)
        /\ n.stakedAccountId = Id(o.stakedAccountId)
        /\ n.stakedNodeId = o.stakedNodeId
        /\ n.declineStakingReward = Scalar(o.declineStakingReward)
    BY <1>8, <2>2, NullAssumption DEF AccountCreateMake, AccountCreateFrom,
      AccountCreateNew, Constructed, Scalar, Id, Seconds, Foreign, Beyond,
      Wrapped
  <2>5. /\ o.receiveRecordThreshold = Default
        /\ o.sendRecordThreshold = Default
    <3>1. /\ o.receiveRecordThreshold = AccountCreateNew(NoProps).receiveRecordThreshold
          /\ o.sendRecordThreshold = AccountCreateNew(NoProps).sendRecordThreshold
      BY <1>1, <1>3, <1>4, <1>8 DEF WellFormed
    <3> QED
      BY <3>1 DEF AccountCreateNew, Constructed, NoProps
  <2>6. /\ n.receiveRecordThreshold = Default
        /\ n.sendRecordThreshold = Default
    BY <1>8 DEF AccountCreateFrom, AccountCreateNew, Constructed
  <2> QED
    BY <1>8, <2>1, <2>2, <2>4, <2>5, <2>6, NullAssumption DEF
      AccountCreateMake, Id, Scalar, Seconds, Foreign, Beyond, Wrapped
<1>9. RoundTrips("AccountCreate")
  <2>1. \A b : DOMAIN From("AccountCreate", b) \subseteq Names("AccountCreate")
    BY <1>1, <1>4 DEF AccountCreateFrom
  <2> QED
    BY <1>1, <1>8, <2>1 DEF RoundTrips, Decodes
<1>10. ChecksIds("AccountCreate")
  BY <1>2, <1>4 DEF ChecksIds, OtherIds, Of, Unchecked, AccountCreateCall
<1>11. ClassOf[Call("AccountCreate").case] = "AccountCreate"
  BY <1>2 DEF AccountCreateCall, ClassOf
<1> QED
  BY <1>5, <1>6, <1>7, <1>9, <1>10, <1>11 DEF Faithful

(* AccountUpdateTransaction. *)
LEMMA AccountUpdateFaithful == Faithful("AccountUpdate")
<1>1. /\ \A p : New("AccountUpdate", p) = AccountUpdateNew(p)
      /\ \A o : Make("AccountUpdate", o) = AccountUpdateMake(o)
      /\ \A b : From("AccountUpdate", b) = AccountUpdateFrom(b)
  BY DEF New, Make, From
<1>2. /\ Setters("AccountUpdate") = AccountUpdateSetters
      /\ Checked("AccountUpdate") = {"accountId", "proxyAccountId"}
      /\ Call("AccountUpdate") = AccountUpdateCall
  BY DEF Setters, Checked, Call, AccountUpdateChecked
<1>3. Fields("AccountUpdate") =
        {"accountId", "key", "receiverSignatureRequired", "proxyAccountId",
         "autoRenewPeriod", "expirationTime", "accountMemo",
         "maxAutomaticTokenAssociations", "aliasKey", "stakedAccountId",
         "stakedNodeId", "declineStakingReward"}
  BY <1>1 DEF Fields, AccountUpdateNew, Constructed
<1>4. /\ Names("AccountUpdate") = {"accountId", "key",
                                   "receiverSignatureRequired",
                                   "proxyAccountId", "autoRenewPeriod",
                                   "expirationTime", "accountMemo",
                                   "maxAutomaticTokenAssociations",
                                   "stakedAccountId", "stakedNodeId",
                                   "declineStakingReward"}
      /\ Rewritten("AccountUpdate") = {}
      /\ Of(Loose, "AccountUpdate") = {}
      /\ Of(Lossy, "AccountUpdate") = {"receiverSigRequiredWrapper",
                                       "declineReward"}
      /\ Of(Ordered, "AccountUpdate") = {}
      /\ Of(Entangled, "AccountUpdate") = {}
  BY <1>2 DEF Names, Rewritten, Of, Loose, Lossy, Ordered, Entangled,
      AccountUpdateSetters
<1>5. Constructs("AccountUpdate")
  BY <1>1, PlainConstructor, Zenon DEF AccountUpdateNew
<1>6. SetsFields("AccountUpdate")
  BY <1>1, <1>2, <1>3, <1>4, NullAssumption DEF SetsFields,
      AccountUpdateSetters, NoEffect, AccountUpdateNew, Constructed, NoProps
<1>7. MakesFields("AccountUpdate")
  BY <1>1, <1>3, <1>4 DEF MakesFields, AccountUpdateMake
<1>8. ASSUME NEW o, WellFormed("AccountUpdate", o),
             NEW b, b = AccountUpdateMake(o),
             NEW n, n = AccountUpdateNew(AccountUpdateFrom(b)),
             NEW w \in Kept("AccountUpdate", b)
      PROVE  AccountUpdateMake(n)[w] = b[w] \/ b[w] = Beyond
  <2>1. w \in {"accountIDToUpdate", "key", "expirationTime", "proxyAccountID",
              "autoRenewPeriod", "memo", "maxAutomaticTokenAssociations",
              "stakedAccountId", "stakedNodeId"}
    BY <1>4, <1>8 DEF Kept, AccountUpdateMake
  <2>4. /\ n.accountId = Id(o.accountId) /\ n.key = o.key
        /\ n.expirationTime = Seconds(o.expirationTime)
        /\ n.proxyAccountId = Id(o.proxyAccountId)
        /\ n.autoRenewPeriod = o.autoRenewPeriod
        /\ n.accountMemo = o.accountMemo
        /\ n.maxAutomaticTokenAssociations = o.maxAutomaticTokenAssociations
        /\ n.stakedAccountId = Id(o.stakedAccountId)
        /\ n.stakedNodeId = o.stakedNodeId
    BY <1>8, NullAssumption DEF AccountUpdateMake, AccountUpdateFrom,
      AccountUpdateNew, Constructed, Scalar, Id, Seconds, Foreign, Beyond,
      Wrapped
  <2> QED
    BY <1>8, <2>1, <2>4, NullAssumption DEF AccountUpdateMake, Id, Scalar,
      Seconds, Foreign, Beyond, Wrapped
<1>9. RoundTrips("AccountUpdate")
  <2>1. \A b : DOMAIN From("AccountUpdate", b) \subseteq Names("AccountUpdate")
    BY <1>1, <1>4 DEF AccountUpdateFrom
  <2> QED
    BY <1>1, <1>8, <2>1 DEF RoundTrips, Decodes
<1>10. ChecksIds("AccountUpdate")
  BY <1>2, <1>4 DEF ChecksIds, OtherIds, Of, Unchecked, AccountUpdateCall
<1>11. ClassOf[Call("AccountUpdate").case] = "AccountUpdate"
  BY <1>2 DEF AccountUpdateCall, ClassOf
<1> QED
  BY <1>5, <1>6, <1>7, <1>9, <1>10, <1>11 DEF Faithful

(* AccountDeleteTransaction. *)
LEMMA AccountDeleteFaithful == Faithful("AccountDelete")
<1>1. /\ \A p : New("AccountDelete", p) = AccountDeleteNew(p)
      /\ \A o : Make("AccountDelete", o) = AccountDeleteMake(o)
      /\ \A b : From("AccountDelete", b) = AccountDeleteFrom(b)
  BY DEF New, Make, From
<1>2. /\ Setters("AccountDelete") = AccountDeleteSetters
      /\ Checked("AccountDelete") = {"accountId", "transferAccountId"}
      /\ Call("AccountDelete") = AccountDeleteCall
  BY DEF Setters, Checked, Call, AccountDeleteChecked
<1>3. Fields("AccountDelete") =
        {"accountId", "transferAccountId"}
  BY <1>1 DEF Fields, AccountDeleteNew, Constructed
<1>4. /\ Names("AccountDelete") = {"accountId", "transferAccountId"}
      /\ Rewritten("AccountDelete") = {}
      /\ Of(Loose, "AccountDelete") = {}
      /\ Of(Lossy, "AccountDelete") = {}
      /\ Of(Ordered, "AccountDelete") = {}
      /\ Of(Entangled, "AccountDelete") = {}
  BY <1>2 DEF Names, Rewritten, Of, Loose, Lossy, Ordered, Entangled,
      AccountDeleteSetters, Guarded
<1>5. Constructs("AccountDelete")
  BY <1>1, PlainConstructor, Zenon DEF AccountDeleteNew
<1>6. SetsFields("AccountDelete")
  BY <1>1, <1>2, <1>3, <1>4, NullAssumption DEF SetsFields,
      AccountDeleteSetters, Guarded, NoEffect, AccountDeleteNew, Constructed,
      NoProps
<1>7. MakesFields("AccountDelete")
  BY <1>1, <1>3, <1>4 DEF MakesFields, AccountDeleteMake
<1>8. ASSUME NEW o, WellFormed("AccountDelete", o),
             NEW b, b = AccountDeleteMake(o),
             NEW n, n = AccountDeleteNew(AccountDeleteFrom(b)),
             NEW w \in Kept("AccountDelete", b)
      PROVE  AccountDeleteMake(n)[w] = b[w] \/ b[w] = Beyond
  BY <1>4, <1>8, NullAssumption DEF Kept, AccountDeleteMake,
      AccountDeleteFrom, AccountDeleteNew, Constructed, Id, Scalar, Seconds,
      Foreign, Beyond, Wrapped
<1>9. RoundTrips("AccountDelete")
  <2>1. \A b : DOMAIN From("AccountDelete", b) \subseteq Names("AccountDelete")
    BY <1>1, <1>4 DEF AccountDeleteFrom
  <2> QED
    BY <1>1, <1>8, <2>1 DEF RoundTrips, Decodes
<1>10. ChecksIds("AccountDelete")
  BY <1>2, <1>4 DEF ChecksIds, OtherIds, Of, Unchecked, AccountDeleteCall
<1>11. ClassOf[Call("AccountDelete").case] = "AccountDelete"
  BY <1>2 DEF AccountDeleteCall, ClassOf
<1> QED
  BY <1>5, <1>6, <1>7, <1>9, <1>10, <1>11 DEF Faithful

(* LiveHashAddTransaction. *)
LEMMA LiveHashAddFaithful == Faithful("LiveHashAdd")
<1>1. /\ \A p : New("LiveHashAdd", p) = LiveHashAddNew(p)
      /\ \A o : Make("LiveHashAdd", o) = LiveHashAddMake(o)
      /\ \A b : From("LiveHashAdd", b) = LiveHashAddFrom(b)
  BY DEF New, Make, From
<1>2. /\ Setters("LiveHashAdd") = LiveHashAddSetters
      /\ Checked("LiveHashAdd") = {"accountId"}
      /\ Call("LiveHashAdd") = LiveHashAddCall
  BY DEF Setters, Checked, Call, LiveHashAddChecked
<1>3. Fields("LiveHashAdd") =
        {"hash", "keys", "duration", "accountId"}
  BY <1>1 DEF Fields, LiveHashAddNew, Constructed
<1>4. /\ Names("LiveHashAdd") = {"hash", "keys", "duration", "accountId"}
      /\ Rewritten("LiveHashAdd") = {}
      /\ Of(Loose, "LiveHashAdd") = {}
      /\ Of(Lossy, "LiveHashAdd") = {}
      /\ Of(Ordered, "LiveHashAdd") = {}
      /\ Of(Entangled, "LiveHashAdd") = {}
  BY <1>2 DEF Names, Rewritten, Of, Loose, Lossy, Ordered, Entangled,
      LiveHashAddSetters, Guarded
<1>5. Constructs("LiveHashAdd")
  BY <1>1, PlainConstructor, Zenon DEF LiveHashAddNew
<1>6. SetsFields("LiveHashAdd")
  BY <1>1, <1>2, <1>3, <1>4, NullAssumption DEF SetsFields,
      LiveHashAddSetters, Guarded, NoEffect, LiveHashAddNew, Constructed,
      NoProps
<1>7. MakesFields("LiveHashAdd")
  BY <1>1, <1>3, <1>4 DEF MakesFields, LiveHashAddMake
<1>8. ASSUME NEW o, WellFormed("LiveHashAdd", o),
             NEW b, b = LiveHashAddMake(o),
             NEW n, n = LiveHashAddNew(LiveHashAddFrom(b)),
             NEW w \in Kept("LiveHashAdd", b)
      PROVE  LiveHashAddMake(n)[w] = b[w] \/ b[w] = Beyond
  BY <1>4, <1>8, NullAssumption DEF Kept, LiveHashAddMake, LiveHashAddFrom,
      LiveHashAddNew, Constructed, Id, Scalar, Seconds, Foreign, Beyond,
      Wrapped
<1>9. RoundTrips("LiveHashAdd")
  <2>1. \A b : DOMAIN From("LiveHashAdd", b) \subseteq Names("LiveHashAdd")
    BY <1>1, <1>4 DEF LiveHashAddFrom
  <2> QED
    BY <1>1, <1>8, <2>1 DEF RoundTrips, Decodes
<1>10. ChecksIds("LiveHashAdd")
  BY <1>2, <1>4 DEF ChecksIds, OtherIds, Of, Unchecked, LiveHashAddCall
<1>11. ClassOf[Call("LiveHashAdd").case] = "LiveHashAdd"
  BY <1>2 DEF LiveHashAddCall, ClassOf
<1> QED
  BY <1>5, <1>6, <1>7, <1>9, <1>10, <1>11 DEF Faithful

(* LiveHashDeleteTransaction. *)
LEMMA LiveHashDeleteFaithful == Faithful("LiveHashDelete")
<1>1. /\ \A p : New("LiveHashDelete", p) = LiveHashDeleteNew(p)
      /\ \A o : Make("LiveHashDelete", o) = LiveHashDeleteMake(o)
      /\ \A b : From("LiveHashDelete", b) = LiveHashDeleteFrom(b)
  BY DEF New, Make, From
<1>2. /\ Setters("LiveHashDelete") = LiveHashDeleteSetters
      /\ Checked("LiveHashDelete") = {"accountId"}
      /\ Call("LiveHashDelete") = LiveHashDeleteCall
  BY DEF Setters, Checked, Call, LiveHashDeleteChecked
<1>3. Fields("LiveHashDelete") =
        {"hash", "accountId"}
  BY <1>1 DEF Fields, LiveHashDeleteNew, Constructed
<1>4. /\ Names("LiveHashDelete") = {"hash", "accountId"}
      /\ Rewritten("LiveHashDelete") = {}
      /\ Of(Loose, "LiveHashDelete") = {}
      /\ Of(Lossy, "LiveHashDelete") = {}
      /\ Of(Ordered, "LiveHashDelete") = {}
      /\ Of(Entangled, "LiveHashDelete") = {}
  BY <1>2 DEF Names, Rewritten, Of, Loose, Lossy, Ordered, Entangled,
      LiveHashDeleteSetters, Guarded
<1>5. Constructs("LiveHashDelete")
  BY <1>1, PlainConstructor, Zenon DEF LiveHashDeleteNew
<1>6. SetsFields("LiveHashDelete")
  BY <1>1, <1>2, <1>3, <1>4, NullAssumption DEF SetsFields,
      LiveHashDeleteSetters, Guarded, NoEffect, LiveHashDeleteNew,
      Constructed, NoProps
<1>7. MakesFields("LiveHashDelete")
  BY <1>1, <1>3, <1>4 DEF MakesFields, LiveHashDeleteMake
<1>8. ASSUME NEW o, WellFormed("LiveHashDelete", o),
             NEW b, b = LiveHashDeleteMake(o),
             NEW n, n = LiveHashDeleteNew(LiveHashDeleteFrom(b)),
             NEW w \in Kept("LiveHashDelete", b)
      PROVE  LiveHashDeleteMake(n)[w] = b[w] \/ b[w] = Beyond
  BY <1>4, <1>8, NullAssumption DEF Kept, LiveHashDeleteMake,
      LiveHashDeleteFrom, LiveHashDeleteNew, Constructed, Id, Scalar, Seconds,
      Foreign, Beyond, Wrapped
<1>9. RoundTrips("LiveHashDelete")
  <2>1. \A b : DOMAIN From("LiveHashDelete", b) \subseteq Names("LiveHashDelete")
    BY <1>1, <1>4 DEF LiveHashDeleteFrom
  <2> QED
    BY <1>1, <1>8, <2>1 DEF RoundTrips, Decodes
<1>10. ChecksIds("LiveHashDelete")
  BY <1>2, <1>4 DEF ChecksIds, OtherIds, Of, Unchecked, LiveHashDeleteCall
<1>11. ClassOf[Call("LiveHashDelete").case] = "LiveHashDelete"
  BY <1>2 DEF LiveHashDeleteCall, ClassOf
<1> QED
  BY <1>5, <1>6, <1>7, <1>9, <1>10, <1>11 DEF Faithful

(* The constructor of TokenCreateTransaction: a time of expiration takes    *)
(* the place of the default renewal period.                                 *)
LEMMA TokenCreateConstructor ==
    ASSUME NEW p
    PROVE  LET o == TokenCreateNew(p) IN
           /\ DOMAIN o = DOMAIN TokenCreateFields
           /\ \A f \in DOMAIN TokenCreateFields \ {"autoRenewPeriod"} :
                o[f] = IF f \in DOMAIN p /\ p[f] # Null THEN p[f]
                       ELSE TokenCreateFields[f]
           /\ o.autoRenewPeriod =
                IF /\ "autoRenewPeriod" \in DOMAIN p
                   /\ p.autoRenewPeriod \notin {Null, Default}
                THEN p.autoRenewPeriod
                ELSE IF o.expirationTime # Null THEN Null ELSE Default
<1> DEFINE r == Constructed(TokenCreateFields, p)
<1>1. /\ DOMAIN r = DOMAIN TokenCreateFields
      /\ \A f \in DOMAIN TokenCreateFields :
           r[f] = IF f \in DOMAIN p /\ p[f] # Null THEN p[f]
                  ELSE TokenCreateFields[f]
  BY DEF Constructed
<1>2. /\ {"autoRenewPeriod", "expirationTime"} \subseteq DOMAIN TokenCreateFields
      /\ TokenCreateFields.autoRenewPeriod = Default
  BY DEF TokenCreateFields
<1>3. TokenCreateNew(p) = IF r.expirationTime # Null /\ r.autoRenewPeriod = Default
                          THEN [r EXCEPT !.autoRenewPeriod = Null] ELSE r
  BY DEF TokenCreateNew
<1> HIDE DEF r
<1> QED
  BY <1>1, <1>2, <1>3, NullAssumption DEF Default

LEMMA TokenCreateInitial == TokenCreateNew(NoProps) = TokenCreateFields
<1> DEFINE o == TokenCreateNew(NoProps)
<1>1. DOMAIN NoProps = {}
  BY DEF NoProps
<1>2. /\ {"expirationTime", "autoRenewPeriod"} \subseteq DOMAIN TokenCreateFields
      /\ TokenCreateFields.expirationTime = Null /\ TokenCreateFields.autoRenewPeriod = Default
      /\ TokenCreateFields =
           [f \in DOMAIN TokenCreateFields |-> TokenCreateFields[f]]
  BY DEF TokenCreateFields
<1>3. o = [f \in DOMAIN o |-> o[f]]
  BY DEF TokenCreateNew, Constructed
<1>4. o.expirationTime = TokenCreateFields.expirationTime
  BY <1>1, <1>2, TokenCreateConstructor
<1>5. o.autoRenewPeriod = TokenCreateFields.autoRenewPeriod
  BY <1>1, <1>2, <1>4, TokenCreateConstructor
<1>6. /\ DOMAIN o = DOMAIN TokenCreateFields
      /\ \A f \in DOMAIN o : o[f] = TokenCreateFields[f]
  BY <1>1, <1>2, <1>4, <1>5, TokenCreateConstructor
<1> HIDE DEF o
<1>7. o = TokenCreateFields
  BY <1>2, <1>3, <1>6
<1> QED
  BY <1>7 DEF o

(* TokenCreateTransaction. *)
LEMMA TokenCreateFaithful == Faithful("TokenCreate")
<1>1. /\ \A p : New("TokenCreate", p) = TokenCreateNew(p)
      /\ \A o : Make("TokenCreate", o) = TokenCreateMake(o)
      /\ \A b : From("TokenCreate", b) = TokenCreateFrom(b)
  <2>1. \A p : New("TokenCreate", p) = TokenCreateNew(p)
    BY DEF New
  <2>2. \A o : Make("TokenCreate", o) = TokenCreateMake(o)
    BY DEF Make
  <2>3. \A b : From("TokenCreate", b) = TokenCreateFrom(b)
    BY DEF From
  <2> QED
    BY <2>1, <2>2, <2>3
<1>2. /\ Setters("TokenCreate") = TokenCreateSetters
      /\ Checked("TokenCreate") = {"treasuryAccountId", "autoRenewAccountId"}
      /\ Call("TokenCreate") = TokenCreateCall
  <2>1. Setters("TokenCreate") = TokenCreateSetters
    BY DEF Setters
  <2>2. Checked("TokenCreate") = {"treasuryAccountId", "autoRenewAccountId"}
    BY DEF Checked, TokenCreateChecked
  <2>3. Call("TokenCreate") = TokenCreateCall
    BY DEF Call
  <2> QED
    BY <2>1, <2>2, <2>3
<1>3. Fields("TokenCreate") =
        {"tokenName", "tokenSymbol", "decimals", "initialSupply",
         "treasuryAccountId", "adminKey", "kycKey", "freezeKey", "pauseKey",
         "wipeKey", "supplyKey", "feeScheduleKey", "freezeDefault",
         "autoRenewAccountId", "expirationTime", "autoRenewPeriod",
         "tokenMemo", "customFees", "tokenType", "supplyType", "maxSupply"}
  <2>1. DOMAIN TokenCreateNew(NoProps) =
          {"tokenName", "tokenSymbol", "decimals", "initialSupply",
           "treasuryAccountId", "adminKey", "kycKey", "freezeKey",
           "pauseKey", "wipeKey", "supplyKey", "feeScheduleKey",
           "freezeDefault", "autoRenewAccountId", "expirationTime",
           "autoRenewPeriod", "tokenMemo", "customFees", "tokenType",
           "supplyType", "maxSupply"}
    BY TokenCreateConstructor DEF TokenCreateFields
  <2> QED
    BY <1>1, <2>1 DEF Fields
<1>4. /\ Names("TokenCreate") = {"tokenName", "tokenSymbol", "decimals",
                                 "initialSupply", "treasuryAccountId",
                                 "adminKey", "kycKey", "freezeKey",
                                 "pauseKey", "wipeKey", "supplyKey",
                                 "feeScheduleKey", "freezeDefault",
                                 "autoRenewPeriod", "expirationTime",
                                 "autoRenewAccountId", "tokenMemo",
                                 "customFees", "tokenType", "supplyType",
                                 "maxSupply"}
      /\ Rewritten("TokenCreate") = {"customFees", "tokenType", "supplyType",
                                     "maxSupply", "autoRenewAccountId"}
      /\ Of(Loose, "TokenCreate") = {"customFees", "tokenType", "supplyType",
                                     "maxSupply", "autoRenewAccount"}
      /\ Of(Lossy, "TokenCreate") = {}
      /\ Of(Ordered, "TokenCreate") = {"autoRenewPeriod", "autoRenewAccount"}
      /\ Of(Entangled, "TokenCreate") = {"autoRenewPeriod",
                                         "autoRenewAccountId"}
  BY <1>2 DEF Names, Rewritten, Of, Loose, Lossy, Ordered, Entangled,
      TokenCreateSetters
<1>5. Constructs("TokenCreate")
  <2>1. /\ Fields("TokenCreate") = DOMAIN TokenCreateFields
        /\ TokenCreateFields.autoRenewPeriod = Default /\ TokenCreateFields.expirationTime = Null
    BY <1>3 DEF TokenCreateFields
  <2>3. ASSUME NEW p, DOMAIN p \subseteq Names("TokenCreate")
        PROVE  WellFormed("TokenCreate", TokenCreateNew(p))
    <3>1. /\ TokenCreateNew(p).autoRenewPeriod = Null =>
               TokenCreateNew(p).expirationTime # Null
          /\ TokenCreateNew(p).expirationTime # Null =>
               TokenCreateNew(p).autoRenewPeriod # Default
      BY TokenCreateConstructor, NullAssumption DEF Default
    <3>2. \A f \in Fields("TokenCreate") :
            TokenCreateFields[f] # Null =>
              TokenCreateNew(p)[f] # Null \/ f = "autoRenewPeriod"
      BY <2>1, TokenCreateConstructor
    <3>3. Fields("TokenCreate") \ Names("TokenCreate") = {}
      BY <1>3, <1>4
    <3> QED
      BY <1>1, <2>1, <3>1, <3>2, <3>3, TokenCreateInitial, TokenCreateConstructor
      DEF WellFormed
  <2> QED
    BY <1>1, <1>4, <2>1, <2>3, TokenCreateInitial, TokenCreateConstructor
      DEF Constructs
<1>6. SetsFields("TokenCreate")
  <2>1. /\ Names("TokenCreate") \subseteq Fields("TokenCreate")
        /\ Checked("TokenCreate") \subseteq Fields("TokenCreate")
    BY <1>2, <1>3, <1>4
  <2>2. DOMAIN Setters("TokenCreate").clears = {}
    BY <1>2 DEF TokenCreateSetters, NoEffect
  <2>3. /\ DOMAIN Setters("TokenCreate").nulls = {"expirationTime"}
        /\ Setters("TokenCreate").open = {"customFees", "tokenType", "supplyType", "maxSupply"}
        /\ Setters("TokenCreate").nulls.expirationTime = "autoRenewPeriod"
    BY <1>2 DEF TokenCreateSetters, NoEffect
  <2> QED
    BY <1>4, <2>1, <2>2, <2>3 DEF SetsFields
<1>7. MakesFields("TokenCreate")
  BY <1>1, <1>3, <1>4 DEF MakesFields, TokenCreateMake
<1>8. ASSUME NEW o, WellFormed("TokenCreate", o),
             NEW b, b = TokenCreateMake(o),
             NEW n, n = TokenCreateNew(TokenCreateFrom(b)),
             NEW w \in Kept("TokenCreate", b)
      PROVE  TokenCreateMake(n)[w] = b[w] \/ b[w] = Beyond
  <2>1. w \in {"name", "symbol", "decimals", "initialSupply", "treasury",
              "adminKey", "kycKey", "freezeKey", "pauseKey", "wipeKey",
              "supplyKey", "feeScheduleKey", "freezeDefault", "expiry",
              "autoRenewPeriod", "memo"}
    BY <1>4, <1>8 DEF Kept, TokenCreateMake
  <2>2. /\ o.autoRenewPeriod = Null => o.expirationTime # Null
        /\ o.expirationTime # Null => o.autoRenewPeriod # Default
    BY <1>8 DEF WellFormed
  <2>3. LET p == TokenCreateFrom(b) IN
        /\ DOMAIN p = DOMAIN TokenCreateFields
        /\ "autoRenewPeriod" \in DOMAIN p
        /\ p.tokenName = Scalar(o.tokenName)
        /\ p.tokenSymbol = Scalar(o.tokenSymbol)
        /\ p.decimals = Scalar(o.decimals)
        /\ p.initialSupply = Scalar(o.initialSupply)
        /\ p.treasuryAccountId = Id(o.treasuryAccountId)
        /\ p.adminKey = o.adminKey
        /\ p.kycKey = o.kycKey
        /\ p.freezeKey = o.freezeKey
        /\ p.pauseKey = o.pauseKey
        /\ p.wipeKey = o.wipeKey
        /\ p.supplyKey = o.supplyKey
        /\ p.feeScheduleKey = o.feeScheduleKey
        /\ p.freezeDefault = Scalar(o.freezeDefault)
        /\ p.expirationTime = Seconds(o.expirationTime)
        /\ p.tokenMemo = Scalar(o.tokenMemo)
        /\ p.autoRenewPeriod = o.autoRenewPeriod
    BY <1>8 DEF TokenCreateMake, TokenCreateFrom, TokenCreateFields
  <2>4. /\ n.tokenName = Scalar(o.tokenName)
        /\ n.tokenSymbol = Scalar(o.tokenSymbol)
        /\ n.decimals = Scalar(o.decimals)
        /\ n.initialSupply = Scalar(o.initialSupply)
        /\ n.treasuryAccountId = Id(o.treasuryAccountId)
        /\ n.adminKey = o.adminKey /\ n.kycKey = o.kycKey
        /\ n.freezeKey = o.freezeKey /\ n.pauseKey = o.pauseKey
        /\ n.wipeKey = o.wipeKey /\ n.supplyKey = o.supplyKey
        /\ n.feeScheduleKey = o.feeScheduleKey
        /\ n.freezeDefault = Scalar(o.freezeDefault)
        /\ n.expirationTime = Seconds(o.expirationTime)
        /\ n.tokenMemo = Scalar(o.tokenMemo)
    BY <1>8, <2>3, TokenCreateConstructor, NullAssumption DEF TokenCreateFields,
      Scalar, Id, Seconds, Foreign, Beyond, Wrapped
  <2>5. n.autoRenewPeriod = o.autoRenewPeriod
    BY <1>8, <2>2, <2>3, <2>4, TokenCreateConstructor, NullAssumption DEF
      Seconds, Beyond, Wrapped, Default
  <2> QED
    BY <1>8, <2>1, <2>4, <2>5, NullAssumption DEF TokenCreateMake, Id,
      Scalar, Seconds, Foreign, Beyond, Wrapped
<1>9. RoundTrips("TokenCreate")
  <2>1. \A b : DOMAIN From("TokenCreate", b) \subseteq Names("TokenCreate")
    BY <1>1, <1>4 DEF TokenCreateFrom
  <2> QED
    BY <1>1, <1>8, <2>1 DEF RoundTrips, Decodes
<1>10. ChecksIds("TokenCreate")
  <2>1. Of(Unchecked, "TokenCreate") = {}
    BY DEF Of, Unchecked
  <2>2. \A f \in Names("TokenCreate") \cap OtherIds :
          f \in Checked("TokenCreate") \cup Of(Unchecked, "TokenCreate")
    BY <1>2, <1>4, <2>1 DEF OtherIds
  <2>3. Call("TokenCreate").rpc = "token.createToken"
    BY <1>2 DEF TokenCreateCall
  <2> QED
    BY <2>2, <2>3 DEF ChecksIds
<1>11. ClassOf[Call("TokenCreate").case] = "TokenCreate"
  BY <1>2 DEF TokenCreateCall, ClassOf
<1> QED
  BY <1>5, <1>6, <1>7, <1>9, <1>10, <1>11 DEF Faithful

(* TokenUpdateTransaction. *)
LEMMA TokenUpdateFaithful == Faithful("TokenUpdate")
<1>1. /\ \A p : New("TokenUpdate", p) = TokenUpdateNew(p)
      /\ \A o : Make("TokenUpdate", o) = TokenUpdateMake(o)
      /\ \A b : From("TokenUpdate", b) = TokenUpdateFrom(b)
  BY DEF New, Make, From
<1>2. /\ Setters("TokenUpdate") = TokenUpdateSetters
      /\ Checked("TokenUpdate") = {"tokenId", "treasuryAccountId",
                                  "autoRenewAccountId"}
      /\ Call("TokenUpdate") = TokenUpdateCall
  BY DEF Setters, Checked, Call, TokenUpdateChecked
<1>3. Fields("TokenUpdate") =
        {"tokenId", "tokenName", "tokenSymbol", "treasuryAccountId",
         "adminKey", "kycKey", "freezeKey", "wipeKey", "supplyKey",
         "autoRenewAccountId", "expirationTime", "autoRenewPeriod",
         "tokenMemo", "feeScheduleKey", "pauseKey"}
  BY <1>1 DEF Fields, TokenUpdateNew, Constructed
<1>4. /\ Names("TokenUpdate") = {"tokenId", "tokenName", "tokenSymbol",
                                 "treasuryAccountId", "adminKey", "kycKey",
                                 "freezeKey", "wipeKey", "supplyKey",
                                 "expirationTime", "autoRenewAccountId",
                                 "autoRenewPeriod", "tokenMemo",
                                 "feeScheduleKey", "pauseKey"}
      /\ Rewritten("TokenUpdate") = {}
      /\ Of(Loose, "TokenUpdate") = {}
      /\ Of(Lossy, "TokenUpdate") = {"pauseKey"}
      /\ Of(Ordered, "TokenUpdate") = {}
      /\ Of(Entangled, "TokenUpdate") = {}
  BY <1>2 DEF Names, Rewritten, Of, Loose, Lossy, Ordered, Entangled,
      TokenUpdateSetters
<1>5. Constructs("TokenUpdate")
  BY <1>1, PlainConstructor, Zenon DEF TokenUpdateNew
<1>6. SetsFields("TokenUpdate")
  BY <1>1, <1>2, <1>3, <1>4, NullAssumption DEF SetsFields,
      TokenUpdateSetters, NoEffect, TokenUpdateNew, Constructed, NoProps
<1>7. MakesFields("TokenUpdate")
  BY <1>1, <1>3, <1>4 DEF MakesFields, TokenUpdateMake
<1>8. ASSUME NEW o, WellFormed("TokenUpdate", o),
             NEW b, b = TokenUpdateMake(o),
             NEW n, n = TokenUpdateNew(TokenUpdateFrom(b)),
             NEW w \in Kept("TokenUpdate", b)
      PROVE  TokenUpdateMake(n)[w] = b[w] \/ b[w] = Beyond
  <2>1. w \in {"token", "name", "symbol", "treasury", "adminKey", "kycKey",
              "freezeKey", "wipeKey", "supplyKey", "autoRenewAccount",
              "expiry", "autoRenewPeriod", "memo", "feeScheduleKey"}
    BY <1>4, <1>8 DEF Kept, TokenUpdateMake
  <2>4. /\ n.tokenId = Id(o.tokenId) /\ n.tokenName = Scalar(o.tokenName)
        /\ n.tokenSymbol = Scalar(o.tokenSymbol)
        /\ n.treasuryAccountId = Id(o.treasuryAccountId)
        /\ n.adminKey = o.adminKey /\ n.kycKey = o.kycKey
        /\ n.freezeKey = o.freezeKey /\ n.wipeKey = o.wipeKey
        /\ n.supplyKey = o.supplyKey
        /\ n.autoRenewAccountId = Id(o.autoRenewAccountId)
        /\ n.expirationTime = Seconds(o.expirationTime)
        /\ n.autoRenewPeriod = o.autoRenewPeriod /\ n.tokenMemo = o.tokenMemo
        /\ n.feeScheduleKey = o.feeScheduleKey
    BY <1>8, NullAssumption DEF TokenUpdateMake, TokenUpdateFrom,
      TokenUpdateNew, Constructed, Scalar, Id, Seconds, Foreign, Beyond,
      Wrapped
  <2> QED
    BY <1>8, <2>1, <2>4, NullAssumption DEF TokenUpdateMake, Id, Scalar,
      Seconds, Foreign, Beyond, Wrapped
<1>9. RoundTrips("TokenUpdate")
  <2>1. \A b : DOMAIN From("TokenUpdate", b) \subseteq Names("TokenUpdate")
    BY <1>1, <1>4 DEF TokenUpdateFrom
  <2> QED
    BY <1>1, <1>8, <2>1 DEF RoundTrips, Decodes
<1>10. ChecksIds("TokenUpdate")
  BY <1>2, <1>4 DEF ChecksIds, OtherIds, Of, Unchecked, TokenUpdateCall
<1>11. ClassOf[Call("TokenUpdate").case] = "TokenUpdate"
  BY <1>2 DEF TokenUpdateCall, ClassOf
<1> QED
  BY <1>5, <1>6, <1>7, <1>9, <1>10, <1>11 DEF Faithful

(* TokenDeleteTransaction. *)
LEMMA TokenDeleteFaithful == Faithful("TokenDelete")
<1>1. /\ \A p : New("TokenDelete", p) = TokenDeleteNew(p)
      /\ \A o : Make("TokenDelete", o) = TokenDeleteMake(o)
      /\ \A b : From("TokenDelete", b) = TokenDeleteFrom(b)
  BY DEF New, Make, From
<1>2. /\ Setters("TokenDelete") = TokenDeleteSetters
      /\ Checked("TokenDelete") = {"tokenId"}
      /\ Call("TokenDelete") = TokenDeleteCall
  BY DEF Setters, Checked, Call, TokenDeleteChecked
<1>3. Fields("TokenDelete") =
        {"tokenId"}
  BY <1>1 DEF Fields, TokenDeleteNew, Constructed
<1>4. /\ Names("TokenDelete") = {"tokenId"}
      /\ Rewritten("TokenDelete") = {}
      /\ Of(Loose, "TokenDelete") = {}
      /\ Of(Lossy, "TokenDelete") = {}
      /\ Of(Ordered, "TokenDelete") = {}
      /\ Of(Entangled, "TokenDelete") = {}
  BY <1>2 DEF Names, Rewritten, Of, Loose, Lossy, Ordered, Entangled,
      TokenDeleteSetters, Guarded
<1>5. Constructs("TokenDelete")
  BY <1>1, PlainConstructor, Zenon DEF TokenDeleteNew
<1>6. SetsFields("TokenDelete")
  BY <1>1, <1>2, <1>3, <1>4, NullAssumption DEF SetsFields,
      TokenDeleteSetters, Guarded, NoEffect, TokenDeleteNew, Constructed,
      NoProps
<1>7. MakesFields("TokenDelete")
  BY <1>1, <1>3, <1>4 DEF MakesFields, TokenDeleteMake
<1>8. ASSUME NEW o, WellFormed("TokenDelete", o),
             NEW b, b = TokenDeleteMake(o),
             NEW n, n = TokenDeleteNew(TokenDeleteFrom(b)),
             NEW w \in Kept("TokenDelete", b)
      PROVE  TokenDeleteMake(n)[w] = b[w] \/ b[w] = Beyond
  BY <1>4, <1>8, NullAssumption DEF Kept, TokenDeleteMake, TokenDeleteFrom,
      TokenDeleteNew, Constructed, Id, Scalar, Seconds, Foreign, Beyond,
      Wrapped
<1>9. RoundTrips("TokenDelete")
  <2>1. \A b : DOMAIN From("TokenDelete", b) \subseteq Names("TokenDelete")
    BY <1>1, <1>4 DEF TokenDeleteFrom
  <2> QED
    BY <1>1, <1>8, <2>1 DEF RoundTrips, Decodes
<1>10. ChecksIds("TokenDelete")
  BY <1>2, <1>4 DEF ChecksIds, OtherIds, Of, Unchecked, TokenDeleteCall
<1>11. ClassOf[Call("TokenDelete").case] = "TokenDelete"
  BY <1>2 DEF TokenDeleteCall, ClassOf
<1> QED
  BY <1>5, <1>6, <1>7, <1>9, <1>10, <1>11 DEF Faithful

(* TokenFeeScheduleUpdateTransaction. *)
LEMMA TokenFeeScheduleUpdateFaithful == Faithful("TokenFeeScheduleUpdate")
<1>1. /\ \A p : New("TokenFeeScheduleUpdate", p) = TokenFeeScheduleUpdateNew(p)
      /\ \A o : Make("TokenFeeScheduleUpdate", o) = TokenFeeScheduleUpdateMake(o)
      /\ \A b : From("TokenFeeScheduleUpdate", b) = TokenFeeScheduleUpdateFrom(b)
  BY DEF New, Make, From
<1>2. /\ Setters("TokenFeeScheduleUpdate") = TokenFeeScheduleUpdateSetters
      /\ Checked("TokenFeeScheduleUpdate") = {}
      /\ Call("TokenFeeScheduleUpdate") = TokenFeeScheduleUpdateCall
  BY DEF Setters, Checked, Call
<1>3. Fields("TokenFeeScheduleUpdate") =
        {"tokenId", "customFees"}
  BY <1>1 DEF Fields, TokenFeeScheduleUpdateNew, Constructed
<1>4. /\ Names("TokenFeeScheduleUpdate") = {"tokenId", "customFees"}
      /\ Rewritten("TokenFeeScheduleUpdate") = {}
      /\ Of(Loose, "TokenFeeScheduleUpdate") = {}
      /\ Of(Lossy, "TokenFeeScheduleUpdate") = {}
      /\ Of(Ordered, "TokenFeeScheduleUpdate") = {}
      /\ Of(Entangled, "TokenFeeScheduleUpdate") = {}
  BY <1>2 DEF Names, Rewritten, Of, Loose, Lossy, Ordered, Entangled,
      TokenFeeScheduleUpdateSetters, Guarded
<1>5. Constructs("TokenFeeScheduleUpdate")
  BY <1>1, PlainConstructor, Zenon DEF TokenFeeScheduleUpdateNew
<1>6. SetsFields("TokenFeeScheduleUpdate")
  BY <1>1, <1>2, <1>3, <1>4, NullAssumption DEF SetsFields,
      TokenFeeScheduleUpdateSetters, Guarded, NoEffect,
      TokenFeeScheduleUpdateNew, Constructed, NoProps
<1>7. MakesFields("TokenFeeScheduleUpdate")
  BY <1>1, <1>3, <1>4 DEF MakesFields, TokenFeeScheduleUpdateMake
<1>8. ASSUME NEW o, WellFormed("TokenFeeScheduleUpdate", o),
             NEW b, b = TokenFeeScheduleUpdateMake(o),
             NEW n, n = TokenFeeScheduleUpdateNew(TokenFeeScheduleUpdateFrom(b)),
             NEW w \in Kept("TokenFeeScheduleUpdate", b)
      PROVE  TokenFeeScheduleUpdateMake(n)[w] = b[w] \/ b[w] = Beyond
  BY <1>4, <1>8, NullAssumption DEF Kept, TokenFeeScheduleUpdateMake,
      TokenFeeScheduleUpdateFrom, TokenFeeScheduleUpdateNew, Constructed, Id,
      Scalar, Seconds, Foreign, Beyond, Wrapped
<1>9. RoundTrips("TokenFeeScheduleUpdate")
  <2>1. \A b : DOMAIN From("TokenFeeScheduleUpdate", b) \subseteq Names("TokenFeeScheduleUpdate")
    BY <1>1, <1>4 DEF TokenFeeScheduleUpdateFrom
  <2> QED
    BY <1>1, <1>8, <2>1 DEF RoundTrips, Decodes
<1>10. ChecksIds("TokenFeeScheduleUpdate")
  BY <1>2, <1>4 DEF ChecksIds, OtherIds, Of, Unchecked, TokenFeeScheduleUpdateCall
<1>11. ClassOf[Call("TokenFeeScheduleUpdate").case] = "TokenFeeScheduleUpdate"
  BY <1>2 DEF TokenFeeScheduleUpdateCall, ClassOf
<1> QED
  BY <1>5, <1>6, <1>7, <1>9, <1>10, <1>11 DEF Faithful

(* TokenMintTransaction. *)
LEMMA TokenMintFaithful == Faithful("TokenMint")
<1>1. /\ \A p : New("TokenMint", p) = TokenMintNew(p)
      /\ \A o : Make("TokenMint", o) = TokenMintMake(o)
      /\ \A b : From("TokenMint", b) = TokenMintFrom(b)
  BY DEF New, Make, From
<1>2. /\ Setters("TokenMint") = TokenMintSetters
      /\ Checked("TokenMint") = {"tokenId"}
      /\ Call("TokenMint") = TokenMintCall
  BY DEF Setters, Checked, Call, TokenMintChecked
<1>3. Fields("TokenMint") =
        {"tokenId", "amount", "metadata"}
  BY <1>1 DEF Fields, TokenMintNew, Constructed
<1>4. /\ Names("TokenMint") = {"tokenId", "amount", "metadata"}
      /\ Rewritten("TokenMint") = {}
      /\ Of(Loose, "TokenMint") = {}
      /\ Of(Lossy, "TokenMint") = {}
      /\ Of(Ordered, "TokenMint") = {}
      /\ Of(Entangled, "TokenMint") = {}
  BY <1>2 DEF Names, Rewritten, Of, Loose, Lossy, Ordered, Entangled,
      TokenMintSetters, Guarded
<1>5. Constructs("TokenMint")
  BY <1>1, PlainConstructor, Zenon DEF TokenMintNew
<1>6. SetsFields("TokenMint")
  BY <1>1, <1>2, <1>3, <1>4, NullAssumption DEF SetsFields, TokenMintSetters,
      Guarded, NoEffect, TokenMintNew, Constructed, NoProps
<1>7. MakesFields("TokenMint")
  BY <1>1, <1>3, <1>4 DEF MakesFields, TokenMintMake
<1>8. ASSUME NEW o, WellFormed("TokenMint", o),
             NEW b, b = TokenMintMake(o),
             NEW n, n = TokenMintNew(TokenMintFrom(b)),
             NEW w \in Kept("TokenMint", b)
      PROVE  TokenMintMake(n)[w] = b[w] \/ b[w] = Beyond
  BY <1>4, <1>8, NullAssumption DEF Kept, TokenMintMake, TokenMintFrom,
      TokenMintNew, Constructed, Id, Scalar, Seconds, Foreign, Beyond, Wrapped
<1>9. RoundTrips("TokenMint")
  <2>1. \A b : DOMAIN From("TokenMint", b) \subseteq Names("TokenMint")
    BY <1>1, <1>4 DEF TokenMintFrom
  <2> QED
    BY <1>1, <1>8, <2>1 DEF RoundTrips, Decodes
<1>10. ChecksIds("TokenMint")
  BY <1>2, <1>4 DEF ChecksIds, OtherIds, Of, Unchecked, TokenMintCall
<1>11. ClassOf[Call("TokenMint").case] = "TokenMint"
  BY <1>2 DEF TokenMintCall, ClassOf
<1> QED
  BY <1>5, <1>6, <1>7, <1>9, <1>10, <1>11 DEF Faithful

(* TokenBurnTransaction. *)
LEMMA TokenBurnFaithful == Faithful("TokenBurn")
<1>1. /\ \A p : New("TokenBurn", p) = TokenBurnNew(p)
      /\ \A o : Make("TokenBurn", o) = TokenBurnMake(o)
      /\ \A b : From("TokenBurn", b) = TokenBurnFrom(b)
  BY DEF New, Make, From
<1>2. /\ Setters("TokenBurn") = TokenBurnSetters
      /\ Checked("TokenBurn") = {"tokenId"}
      /\ Call("TokenBurn") = TokenBurnCall
  BY DEF Setters, Checked, Call, TokenBurnChecked
<1>3. Fields("TokenBurn") =
        {"tokenId", "amount", "serials"}
  BY <1>1 DEF Fields, TokenBurnNew, Constructed
<1>4. /\ Names("TokenBurn") = {"tokenId", "amount", "serials"}
      /\ Rewritten("TokenBurn") = {}
      /\ Of(Loose, "TokenBurn") = {}
      /\ Of(Lossy, "TokenBurn") = {}
      /\ Of(Ordered, "TokenBurn") = {}
      /\ Of(Entangled, "TokenBurn") = {}
  BY <1>2 DEF Names, Rewritten, Of, Loose, Lossy, Ordered, Entangled,
      TokenBurnSetters, Guarded
<1>5. Constructs("TokenBurn")
  BY <1>1, PlainConstructor, Zenon DEF TokenBurnNew
<1>6. SetsFields("TokenBurn")
  BY <1>1, <1>2, <1>3, <1>4, NullAssumption DEF SetsFields, TokenBurnSetters,
      Guarded, NoEffect, TokenBurnNew, Constructed, NoProps
<1>7. MakesFields("TokenBurn")
  BY <1>1, <1>3, <1>4 DEF MakesFields, TokenBurnMake
<1>8. ASSUME NEW o, WellFormed("TokenBurn", o),
             NEW b, b = TokenBurnMake(o),
             NEW n, n = TokenBurnNew(TokenBurnFrom(b)),
             NEW w \in Kept("TokenBurn", b)
      PROVE  TokenBurnMake(n)[w] = b[w] \/ b[w] = Beyond
  BY <1>4, <1>8, NullAssumption DEF Kept, TokenBurnMake, TokenBurnFrom,
      TokenBurnNew, Constructed, Id, Scalar, Seconds, Foreign, Beyond, Wrapped
<1>9. RoundTrips("TokenBurn")
  <2>1. \A b : DOMAIN From("TokenBurn", b) \subseteq Names("TokenBurn")
    BY <1>1, <1>4 DEF TokenBurnFrom
  <2> QED
    BY <1>1, <1>8, <2>1 DEF RoundTrips, Decodes
<1>10. ChecksIds("TokenBurn")
  BY <1>2, <1>4 DEF ChecksIds, OtherIds, Of, Unchecked, TokenBurnCall
<1>11. ClassOf[Call("TokenBurn").case] = "TokenBurn"
  BY <1>2 DEF TokenBurnCall, ClassOf
<1> QED
  BY <1>5, <1>6, <1>7, <1>9, <1>10, <1>11 DEF Faithful

(* TokenWipeTransaction. *)
LEMMA TokenWipeFaithful == Faithful("TokenWipe")
<1>1. /\ \A p : New("TokenWipe", p) = TokenWipeNew(p)
      /\ \A o : Make("TokenWipe", o) = TokenWipeMake(o)
      /\ \A b : From("TokenWipe", b) = TokenWipeFrom(b)
  BY DEF New, Make, From
<1>2. /\ Setters("TokenWipe") = TokenWipeSetters
      /\ Checked("TokenWipe") = {"tokenId", "accountId"}
      /\ Call("TokenWipe") = TokenWipeCall
  BY DEF Setters, Checked, Call, TokenWipeChecked
<1>3. Fields("TokenWipe") =
        {"tokenId", "accountId", "serials", "amount"}
  BY <1>1 DEF Fields, TokenWipeNew, Constructed
<1>4. /\ Names("TokenWipe") = {"tokenId", "accountId", "amount", "serials"}
      /\ Rewritten("TokenWipe") = {}
      /\ Of(Loose, "TokenWipe") = {}
      /\ Of(Lossy, "TokenWipe") = {"serialNumbers"}
      /\ Of(Ordered, "TokenWipe") = {}
      /\ Of(Entangled, "TokenWipe") = {}
  BY <1>2 DEF Names, Rewritten, Of, Loose, Lossy, Ordered, Entangled,
      TokenWipeSetters, Guarded
<1>5. Constructs("TokenWipe")
  BY <1>1, PlainConstructor, Zenon DEF TokenWipeNew
<1>6. SetsFields("TokenWipe")
  BY <1>1, <1>2, <1>3, <1>4, NullAssumption DEF SetsFields, TokenWipeSetters,
      Guarded, NoEffect, TokenWipeNew, Constructed, NoProps
<1>7. MakesFields("TokenWipe")
  BY <1>1, <1>3, <1>4 DEF MakesFields, TokenWipeMake
<1>8. ASSUME NEW o, WellFormed("TokenWipe", o),
             NEW b, b = TokenWipeMake(o),
             NEW n, n = TokenWipeNew(TokenWipeFrom(b)),
             NEW w \in Kept("TokenWipe", b)
      PROVE  TokenWipeMake(n)[w] = b[w] \/ b[w] = Beyond
  BY <1>4, <1>8, NullAssumption DEF Kept, TokenWipeMake, TokenWipeFrom,
      TokenWipeNew, Constructed, Id, Scalar, Seconds, Foreign, Beyond, Wrapped
<1>9. RoundTrips("TokenWipe")
  <2>1. \A b : DOMAIN From("TokenWipe", b) \subseteq Names("TokenWipe")
    BY <1>1, <1>4 DEF TokenWipeFrom
  <2> QED
    BY <1>1, <1>8, <2>1 DEF RoundTrips, Decodes
<1>10. ChecksIds("TokenWipe")
  BY <1>2, <1>4 DEF ChecksIds, OtherIds, Of, Unchecked, TokenWipeCall
<1>11. ClassOf[Call("TokenWipe").case] = "TokenWipe"
  BY <1>2 DEF TokenWipeCall, ClassOf
<1> QED
  BY <1>5, <1>6, <1>7, <1>9, <1>10, <1>11 DEF Faithful

(* TokenAssociateTransaction. *)
LEMMA TokenAssociateFaithful == Faithful("TokenAssociate")
<1>1. /\ \A p : New("TokenAssociate", p) = TokenAssociateNew(p)
      /\ \A o : Make("TokenAssociate", o) = TokenAssociateMake(o)
      /\ \A b : From("TokenAssociate", b) = TokenAssociateFrom(b)
  BY DEF New, Make, From
<1>2. /\ Setters("TokenAssociate") = TokenAssociateSetters
      /\ Checked("TokenAssociate") = {"accountId", "tokenIds"}
      /\ Call("TokenAssociate") = TokenAssociateCall
  BY DEF Setters, Checked, Call, TokenAssociateChecked
<1>3. Fields("TokenAssociate") =
        {"tokenIds", "accountId"}
  BY <1>1 DEF Fields, TokenAssociateNew, Constructed
<1>4. /\ Names("TokenAssociate") = {"tokenIds", "accountId"}
      /\ Rewritten("TokenAssociate") = {}
      /\ Of(Loose, "TokenAssociate") = {}
      /\ Of(Lossy, "TokenAssociate") = {}
      /\ Of(Ordered, "TokenAssociate") = {}
      /\ Of(Entangled, "TokenAssociate") = {}
  BY <1>2 DEF Names, Rewritten, Of, Loose, Lossy, Ordered, Entangled,
      TokenAssociateSetters, Guarded
<1>5. Constructs("TokenAssociate")
  BY <1>1, PlainConstructor, Zenon DEF TokenAssociateNew
<1>6. SetsFields("TokenAssociate")
  BY <1>1, <1>2, <1>3, <1>4, NullAssumption DEF SetsFields,
      TokenAssociateSetters, Guarded, NoEffect, TokenAssociateNew,
      Constructed, NoProps
<1>7. MakesFields("TokenAssociate")
  BY <1>1, <1>3, <1>4 DEF MakesFields, TokenAssociateMake
<1>8. ASSUME NEW o, WellFormed("TokenAssociate", o),
             NEW b, b = TokenAssociateMake(o),
             NEW n, n = TokenAssociateNew(TokenAssociateFrom(b)),
             NEW w \in Kept("TokenAssociate", b)
      PROVE  TokenAssociateMake(n)[w] = b[w] \/ b[w] = Beyond
  BY <1>4, <1>8, NullAssumption DEF Kept, TokenAssociateMake,
      TokenAssociateFrom, TokenAssociateNew, Constructed, Id, Scalar, Seconds,
      Foreign, Beyond, Wrapped
<1>9. RoundTrips("TokenAssociate")
  <2>1. \A b : DOMAIN From("TokenAssociate", b) \subseteq Names("TokenAssociate")
    BY <1>1, <1>4 DEF TokenAssociateFrom
  <2> QED
    BY <1>1, <1>8, <2>1 DEF RoundTrips, Decodes
<1>10. ChecksIds("TokenAssociate")
  BY <1>2, <1>4 DEF ChecksIds, OtherIds, Of, Unchecked, TokenAssociateCall
<1>11. ClassOf[Call("TokenAssociate").case] = "TokenAssociate"
  BY <1>2 DEF TokenAssociateCall, ClassOf
<1> QED
  BY <1>5, <1>6, <1>7, <1>9, <1>10, <1>11 DEF Faithful

(* TokenDissociateTransaction. *)
LEMMA TokenDissociateFaithful == Faithful("TokenDissociate")
<1>1. /\ \A p : New("TokenDissociate", p) = TokenDissociateNew(p)
      /\ \A o : Make("TokenDissociate", o) = TokenDissociateMake(o)
      /\ \A b : From("TokenDissociate", b) = TokenDissociateFrom(b)
  BY DEF New, Make, From
<1>2. /\ Setters("TokenDissociate") = TokenDissociateSetters
      /\ Checked("TokenDissociate") = {"accountId", "tokenIds"}
      /\ Call("TokenDissociate") = TokenDissociateCall
  BY DEF Setters, Checked, Call, TokenDissociateChecked
<1>3. Fields("TokenDissociate") =
        {"tokenIds", "accountId"}
  BY <1>1 DEF Fields, TokenDissociateNew, Constructed
<1>4. /\ Names("TokenDissociate") = {"tokenIds", "accountId"}
      /\ Rewritten("TokenDissociate") = {}
      /\ Of(Loose, "TokenDissociate") = {}
      /\ Of(Lossy, "TokenDissociate") = {}
      /\ Of(Ordered, "TokenDissociate") = {}
      /\ Of(Entangled, "TokenDissociate") = {}
  BY <1>2 DEF Names, Rewritten, Of, Loose, Lossy, Ordered, Entangled,
      TokenDissociateSetters, Guarded
<1>5. Constructs("TokenDissociate")
  BY <1>1, PlainConstructor, Zenon DEF TokenDissociateNew
<1>6. SetsFields("TokenDissociate")
  BY <1>1, <1>2, <1>3, <1>4, NullAssumption DEF SetsFields,
      TokenDissociateSetters, Guarded, NoEffect, TokenDissociateNew,
      Constructed, NoProps
<1>7. MakesFields("TokenDissociate")
  BY <1>1, <1>3, <1>4 DEF MakesFields, TokenDissociateMake
<1>8. ASSUME NEW o, WellFormed("TokenDissociate", o),
             NEW b, b = TokenDissociateMake(o),
             NEW n, n = TokenDissociateNew(TokenDissociateFrom(b)),
             NEW w \in Kept("TokenDissociate", b)
      PROVE  TokenDissociateMake(n)[w] = b[w] \/ b[w] = Beyond
  BY <1>4, <1>8, NullAssumption DEF Kept, TokenDissociateMake,
      TokenDissociateFrom, TokenDissociateNew, Constructed, Id, Scalar,
      Seconds, Foreign, Beyond, Wrapped
<1>9. RoundTrips("TokenDissociate")
  <2>1. \A b : DOMAIN From("TokenDissociate", b) \subseteq Names("TokenDissociate")
    BY <1>1, <1>4 DEF TokenDissociateFrom
  <2> QED
    BY <1>1, <1>8, <2>1 DEF RoundTrips, Decodes
<1>10. ChecksIds("TokenDissociate")
  BY <1>2, <1>4 DEF ChecksIds, OtherIds, Of, Unchecked, TokenDissociateCall
<1>11. ClassOf[Call("TokenDissociate").case] = "TokenDissociate"
  BY <1>2 DEF TokenDissociateCall, ClassOf
<1> QED
  BY <1>5, <1>6, <1>7, <1>9, <1>10, <1>11 DEF Faithful

(* TokenFreezeTransaction. *)
LEMMA TokenFreezeFaithful == Faithful("TokenFreeze")
<1>1. /\ \A p : New("TokenFreeze", p) = TokenFreezeNew(p)
      /\ \A o : Make("TokenFreeze", o) = TokenFreezeMake(o)
      /\ \A b : From("TokenFreeze", b) = TokenFreezeFrom(b)
  BY DEF New, Make, From
<1>2. /\ Setters("TokenFreeze") = TokenFreezeSetters
      /\ Checked("TokenFreeze") = {"tokenId", "accountId"}
      /\ Call("TokenFreeze") = TokenFreezeCall
  BY DEF Setters, Checked, Call, TokenFreezeChecked
<1>3. Fields("TokenFreeze") =
        {"tokenId", "accountId"}
  BY <1>1 DEF Fields, TokenFreezeNew, Constructed
<1>4. /\ Names("TokenFreeze") = {"tokenId", "accountId"}
      /\ Rewritten("TokenFreeze") = {}
      /\ Of(Loose, "TokenFreeze") = {}
      /\ Of(Lossy, "TokenFreeze") = {}
      /\ Of(Ordered, "TokenFreeze") = {}
      /\ Of(Entangled, "TokenFreeze") = {}
  BY <1>2 DEF Names, Rewritten, Of, Loose, Lossy, Ordered, Entangled,
      TokenFreezeSetters, Guarded
<1>5. Constructs("TokenFreeze")
  BY <1>1, PlainConstructor, Zenon DEF TokenFreezeNew
<1>6. SetsFields("TokenFreeze")
  BY <1>1, <1>2, <1>3, <1>4, NullAssumption DEF SetsFields,
      TokenFreezeSetters, Guarded, NoEffect, TokenFreezeNew, Constructed,
      NoProps
<1>7. MakesFields("TokenFreeze")
  BY <1>1, <1>3, <1>4 DEF MakesFields, TokenFreezeMake
<1>8. ASSUME NEW o, WellFormed("TokenFreeze", o),
             NEW b, b = TokenFreezeMake(o),
             NEW n, n = TokenFreezeNew(TokenFreezeFrom(b)),
             NEW w \in Kept("TokenFreeze", b)
      PROVE  TokenFreezeMake(n)[w] = b[w] \/ b[w] = Beyond
  BY <1>4, <1>8, NullAssumption DEF Kept, TokenFreezeMake, TokenFreezeFrom,
      TokenFreezeNew, Constructed, Id, Scalar, Seconds, Foreign, Beyond,
      Wrapped
<1>9. RoundTrips("TokenFreeze")
  <2>1. \A b : DOMAIN From("TokenFreeze", b) \subseteq Names("TokenFreeze")
    BY <1>1, <1>4 DEF TokenFreezeFrom
  <2> QED
    BY <1>1, <1>8, <2>1 DEF RoundTrips, Decodes
<1>10. ChecksIds("TokenFreeze")
  BY <1>2, <1>4 DEF ChecksIds, OtherIds, Of, Unchecked, TokenFreezeCall
<1>11. ClassOf[Call("TokenFreeze").case] = "TokenFreeze"
  BY <1>2 DEF TokenFreezeCall, ClassOf
<1> QED
  BY <1>5, <1>6, <1>7, <1>9, <1>10, <1>11 DEF Faithful

(* TokenUnfreezeTransaction. *)
LEMMA TokenUnfreezeFaithful == Faithful("TokenUnfreeze")
<1>1. /\ \A p : New("TokenUnfreeze", p) = TokenUnfreezeNew(p)
      /\ \A o : Make("TokenUnfreeze", o) = TokenUnfreezeMake(o)
      /\ \A b : From("TokenUnfreeze", b) = TokenUnfreezeFrom(b)
  BY DEF New, Make, From
<1>2. /\ Setters("TokenUnfreeze") = TokenUnfreezeSetters
      /\ Checked("TokenUnfreeze") = {"tokenId", "accountId"}
      /\ Call("TokenUnfreeze") = TokenUnfreezeCall
  BY DEF Setters, Checked, Call, TokenUnfreezeChecked
<1>3. Fields("TokenUnfreeze") =
        {"tokenId", "accountId"}
  BY <1>1 DEF Fields, TokenUnfreezeNew, Constructed
<1>4. /\ Names("TokenUnfreeze") = {"tokenId", "accountId"}
      /\ Rewritten("TokenUnfreeze") = {}
      /\ Of(Loose, "TokenUnfreeze") = {}
      /\ Of(Lossy, "TokenUnfreeze") = {}
      /\ Of(Ordered, "TokenUnfreeze") = {}
      /\ Of(Entangled, "TokenUnfreeze") = {}
  BY <1>2 DEF Names, Rewritten, Of, Loose, Lossy, Ordered, Entangled,
      TokenUnfreezeSetters, Guarded
<1>5. Constructs("TokenUnfreeze")
  BY <1>1, PlainConstructor, Zenon DEF TokenUnfreezeNew
<1>6. SetsFields("TokenUnfreeze")
  BY <1>1, <1>2, <1>3, <1>4, NullAssumption DEF SetsFields,
      TokenUnfreezeSetters, Guarded, NoEffect, TokenUnfreezeNew, Constructed,
      NoProps
<1>7. MakesFields("TokenUnfreeze")
  BY <1>1, <1>3, <1>4 DEF MakesFields, TokenUnfreezeMake
<1>8. ASSUME NEW o, WellFormed("TokenUnfreeze", o),
             NEW b, b = TokenUnfreezeMake(o),
             NEW n, n = TokenUnfreezeNew(TokenUnfreezeFrom(b)),
             NEW w \in Kept("TokenUnfreeze", b)
      PROVE  TokenUnfreezeMake(n)[w] = b[w] \/ b[w] = Beyond
  BY <1>4, <1>8, NullAssumption DEF Kept, TokenUnfreezeMake,
      TokenUnfreezeFrom, TokenUnfreezeNew, Constructed, Id, Scalar, Seconds,
      Foreign, Beyond, Wrapped
<1>9. RoundTrips("TokenUnfreeze")
  <2>1. \A b : DOMAIN From("TokenUnfreeze", b) \subseteq Names("TokenUnfreeze")
    BY <1>1, <1>4 DEF TokenUnfreezeFrom
  <2> QED
    BY <1>1, <1>8, <2>1 DEF RoundTrips, Decodes
<1>10. ChecksIds("TokenUnfreeze")
  BY <1>2, <1>4 DEF ChecksIds, OtherIds, Of, Unchecked, TokenUnfreezeCall
<1>11. ClassOf[Call("TokenUnfreeze").case] = "TokenUnfreeze"
  BY <1>2 DEF TokenUnfreezeCall, ClassOf
<1> QED
  BY <1>5, <1>6, <1>7, <1>9, <1>10, <1>11 DEF Faithful

(* TokenGrantKycTransaction. *)
LEMMA TokenGrantKycFaithful == Faithful("TokenGrantKyc")
<1>1. /\ \A p : New("TokenGrantKyc", p) = TokenGrantKycNew(p)
      /\ \A o : Make("TokenGrantKyc", o) = TokenGrantKycMake(o)
      /\ \A b : From("TokenGrantKyc", b) = TokenGrantKycFrom(b)
  BY DEF New, Make, From
<1>2. /\ Setters("TokenGrantKyc") = TokenGrantKycSetters
      /\ Checked("TokenGrantKyc") = {"tokenId", "accountId"}
      /\ Call("TokenGrantKyc") = TokenGrantKycCall
  BY DEF Setters, Checked, Call, TokenGrantKycChecked
<1>3. Fields("TokenGrantKyc") =
        {"tokenId", "accountId"}
  BY <1>1 DEF Fields, TokenGrantKycNew, Constructed
<1>4. /\ Names("TokenGrantKyc") = {"tokenId", "accountId"}
      /\ Rewritten("TokenGrantKyc") = {}
      /\ Of(Loose, "TokenGrantKyc") = {}
      /\ Of(Lossy, "TokenGrantKyc") = {}
      /\ Of(Ordered, "TokenGrantKyc") = {}
      /\ Of(Entangled, "TokenGrantKyc") = {}
  BY <1>2 DEF Names, Rewritten, Of, Loose, Lossy, Ordered, Entangled,
      TokenGrantKycSetters, Guarded
<1>5. Constructs("TokenGrantKyc")
  BY <1>1, PlainConstructor, Zenon DEF TokenGrantKycNew
<1>6. SetsFields("TokenGrantKyc")
  BY <1>1, <1>2, <1>3, <1>4, NullAssumption DEF SetsFields,
      TokenGrantKycSetters, Guarded, NoEffect, TokenGrantKycNew, Constructed,
      NoProps
<1>7. MakesFields("TokenGrantKyc")
  BY <1>1, <1>3, <1>4 DEF MakesFields, TokenGrantKycMake
<1>8. ASSUME NEW o, WellFormed("TokenGrantKyc", o),
             NEW b, b = TokenGrantKycMake(o),
             NEW n, n = TokenGrantKycNew(TokenGrantKycFrom(b)),
             NEW w \in Kept("TokenGrantKyc", b)
      PROVE  TokenGrantKycMake(n)[w] = b[w] \/ b[w] = Beyond
  BY <1>4, <1>8, NullAssumption DEF Kept, TokenGrantKycMake,
      TokenGrantKycFrom, TokenGrantKycNew, Constructed, Id, Scalar, Seconds,
      Foreign, Beyond, Wrapped
<1>9. RoundTrips("TokenGrantKyc")
  <2>1. \A b : DOMAIN From("TokenGrantKyc", b) \subseteq Names("TokenGrantKyc")
    BY <1>1, <1>4 DEF TokenGrantKycFrom
  <2> QED
    BY <1>1, <1>8, <2>1 DEF RoundTrips, Decodes
<1>10. ChecksIds("TokenGrantKyc")
  BY <1>2, <1>4 DEF ChecksIds, OtherIds, Of, Unchecked, TokenGrantKycCall
<1>11. ClassOf[Call("TokenGrantKyc").case] = "TokenGrantKyc"
  BY <1>2 DEF TokenGrantKycCall, ClassOf
<1> QED
  BY <1>5, <1>6, <1>7, <1>9, <1>10, <1>11 DEF Faithful

(* TokenRevokeKycTransaction. *)
LEMMA TokenRevokeKycFaithful == Faithful("TokenRevokeKyc")
<1>1. /\ \A p : New("TokenRevokeKyc", p) = TokenRevokeKycNew(p)
      /\ \A o : Make("TokenRevokeKyc", o) = TokenRevokeKycMake(o)
      /\ \A b : From("TokenRevokeKyc", b) = TokenRevokeKycFrom(b)
  BY DEF New, Make, From
<1>2. /\ Setters("TokenRevokeKyc") = TokenRevokeKycSetters
      /\ Checked("TokenRevokeKyc") = {"tokenId", "accountId"}
      /\ Call("TokenRevokeKyc") = TokenRevokeKycCall
  BY DEF Setters, Checked, Call, TokenRevokeKycChecked
<1>3. Fields("TokenRevokeKyc") =
        {"tokenId", "accountId"}
  BY <1>1 DEF Fields, TokenRevokeKycNew, Constructed
<1>4. /\ Names("TokenRevokeKyc") = {"tokenId", "accountId"}
      /\ Rewritten("TokenRevokeKyc") = {}
      /\ Of(Loose, "TokenRevokeKyc") = {}
      /\ Of(Lossy, "TokenRevokeKyc") = {}
      /\ Of(Ordered, "TokenRevokeKyc") = {}
      /\ Of(Entangled, "TokenRevokeKyc") = {}
  BY <1>2 DEF Names, Rewritten, Of, Loose, Lossy, Ordered, Entangled,
      TokenRevokeKycSetters, Guarded
<1>5. Constructs("TokenRevokeKyc")
  BY <1>1, PlainConstructor, Zenon DEF TokenRevokeKycNew
<1>6. SetsFields("TokenRevokeKyc")
  BY <1>1, <1>2, <1>3, <1>4, NullAssumption DEF SetsFields,
      TokenRevokeKycSetters, Guarded, NoEffect, TokenRevokeKycNew,
      Constructed, NoProps
<1>7. MakesFields("TokenRevokeKyc")
  BY <1>1, <1>3, <1>4 DEF MakesFields, TokenRevokeKycMake
<1>8. ASSUME NEW o, WellFormed("TokenRevokeKyc", o),
             NEW b, b = TokenRevokeKycMake(o),
             NEW n, n = TokenRevokeKycNew(TokenRevokeKycFrom(b)),
             NEW w \in Kept("TokenRevokeKyc", b)
      PROVE  TokenRevokeKycMake(n)[w] = b[w] \/ b[w] = Beyond
  BY <1>4, <1>8, NullAssumption DEF Kept, TokenRevokeKycMake,
      TokenRevokeKycFrom, TokenRevokeKycNew, Constructed, Id, Scalar, Seconds,
      Foreign, Beyond, Wrapped
<1>9. RoundTrips("TokenRevokeKyc")
  <2>1. \A b : DOMAIN From("TokenRevokeKyc", b) \subseteq Names("TokenRevokeKyc")
    BY <1>1, <1>4 DEF TokenRevokeKycFrom
  <2> QED
    BY <1>1, <1>8, <2>1 DEF RoundTrips, Decodes
<1>10. ChecksIds("TokenRevokeKyc")
  BY <1>2, <1>4 DEF ChecksIds, OtherIds, Of, Unchecked, TokenRevokeKycCall
<1>11. ClassOf[Call("TokenRevokeKyc").case] = "TokenRevokeKyc"
  BY <1>2 DEF TokenRevokeKycCall, ClassOf
<1> QED
  BY <1>5, <1>6, <1>7, <1>9, <1>10, <1>11 DEF Faithful

(* TokenPauseTransaction. *)
LEMMA TokenPauseFaithful == Faithful("TokenPause")
<1>1. /\ \A p : New("TokenPause", p) = TokenPauseNew(p)
      /\ \A o : Make("TokenPause", o) = TokenPauseMake(o)
      /\ \A b : From("TokenPause", b) = TokenPauseFrom(b)
  BY DEF New, Make, From
<1>2. /\ Setters("TokenPause") = TokenPauseSetters
      /\ Checked("TokenPause") = {"tokenId"}
      /\ Call("TokenPause") = TokenPauseCall
  BY DEF Setters, Checked, Call, TokenPauseChecked
<1>3. Fields("TokenPause") =
        {"tokenId"}
  BY <1>1 DEF Fields, TokenPauseNew, Constructed
<1>4. /\ Names("TokenPause") = {"tokenId"}
      /\ Rewritten("TokenPause") = {}
      /\ Of(Loose, "TokenPause") = {}
      /\ Of(Lossy, "TokenPause") = {}
      /\ Of(Ordered, "TokenPause") = {}
      /\ Of(Entangled, "TokenPause") = {}
  BY <1>2 DEF Names, Rewritten, Of, Loose, Lossy, Ordered, Entangled,
      TokenPauseSetters, Guarded
<1>5. Constructs("TokenPause")
  BY <1>1, PlainConstructor, Zenon DEF TokenPauseNew
<1>6. SetsFields("TokenPause")
  BY <1>1, <1>2, <1>3, <1>4, NullAssumption DEF SetsFields, TokenPauseSetters,
      Guarded, NoEffect, TokenPauseNew, Constructed, NoProps
<1>7. MakesFields("TokenPause")
  BY <1>1, <1>3, <1>4 DEF MakesFields, TokenPauseMake
<1>8. ASSUME NEW o, WellFormed("TokenPause", o),
             NEW b, b = TokenPauseMake(o),
             NEW n, n = TokenPauseNew(TokenPauseFrom(b)),
             NEW w \in Kept("TokenPause", b)
      PROVE  TokenPauseMake(n)[w] = b[w] \/ b[w] = Beyond
  BY <1>4, <1>8, NullAssumption DEF Kept, TokenPauseMake, TokenPauseFrom,
      TokenPauseNew, Constructed, Id, Scalar, Seconds, Foreign, Beyond,
      Wrapped
<1>9. RoundTrips("TokenPause")
  <2>1. \A b : DOMAIN From("TokenPause", b) \subseteq Names("TokenPause")
    BY <1>1, <1>4 DEF TokenPauseFrom
  <2> QED
    BY <1>1, <1>8, <2>1 DEF RoundTrips, Decodes
<1>10. ChecksIds("TokenPause")
  BY <1>2, <1>4 DEF ChecksIds, OtherIds, Of, Unchecked, TokenPauseCall
<1>11. ClassOf[Call("TokenPause").case] = "TokenPause"
  BY <1>2 DEF TokenPauseCall, ClassOf
<1> QED
  BY <1>5, <1>6, <1>7, <1>9, <1>10, <1>11 DEF Faithful

(* TokenUnpauseTransaction. *)
LEMMA TokenUnpauseFaithful == Faithful("TokenUnpause")
<1>1. /\ \A p : New("TokenUnpause", p) = TokenUnpauseNew(p)
      /\ \A o : Make("TokenUnpause", o) = TokenUnpauseMake(o)
      /\ \A b : From("TokenUnpause", b) = TokenUnpauseFrom(b)
  BY DEF New, Make, From
<1>2. /\ Setters("TokenUnpause") = TokenUnpauseSetters
      /\ Checked("TokenUnpause") = {"tokenId"}
      /\ Call("TokenUnpause") = TokenUnpauseCall
  BY DEF Setters, Checked, Call, TokenUnpauseChecked
<1>3. Fields("TokenUnpause") =
        {"tokenId"}
  BY <1>1 DEF Fields, TokenUnpauseNew, Constructed
<1>4. /\ Names("TokenUnpause") = {"tokenId"}
      /\ Rewritten("TokenUnpause") = {}
      /\ Of(Loose, "TokenUnpause") = {}
      /\ Of(Lossy, "TokenUnpause") = {}
      /\ Of(Ordered, "TokenUnpause") = {}
      /\ Of(Entangled, "TokenUnpause") = {}
  BY <1>2 DEF Names, Rewritten, Of, Loose, Lossy, Ordered, Entangled,
      TokenUnpauseSetters, Guarded
<1>5. Constructs("TokenUnpause")
  BY <1>1, PlainConstructor, Zenon DEF TokenUnpauseNew
<1>6. SetsFields("TokenUnpause")
  BY <1>1, <1>2, <1>3, <1>4, NullAssumption DEF SetsFields,
      TokenUnpauseSetters, Guarded, NoEffect, TokenUnpauseNew, Constructed,
      NoProps
<1>7. MakesFields("TokenUnpause")
  BY <1>1, <1>3, <1>4 DEF MakesFields, TokenUnpauseMake
<1>8. ASSUME NEW o, WellFormed("TokenUnpause", o),
             NEW b, b = TokenUnpauseMake(o),
             NEW n, n = TokenUnpauseNew(TokenUnpauseFrom(b)),
             NEW w \in Kept("TokenUnpause", b)
      PROVE  TokenUnpauseMake(n)[w] = b[w] \/ b[w] = Beyond
  BY <1>4, <1>8, NullAssumption DEF Kept, TokenUnpauseMake, TokenUnpauseFrom,
      TokenUnpauseNew, Constructed, Id, Scalar, Seconds, Foreign, Beyond,
      Wrapped
<1>9. RoundTrips("TokenUnpause")
  <2>1. \A b : DOMAIN From("TokenUnpause", b) \subseteq Names("TokenUnpause")
    BY <1>1, <1>4 DEF TokenUnpauseFrom
  <2> QED
    BY <1>1, <1>8, <2>1 DEF RoundTrips, Decodes
<1>10. ChecksIds("TokenUnpause")
  BY <1>2, <1>4 DEF ChecksIds, OtherIds, Of, Unchecked, TokenUnpauseCall
<1>11. ClassOf[Call("TokenUnpause").case] = "TokenUnpause"
  BY <1>2 DEF TokenUnpauseCall, ClassOf
<1> QED
  BY <1>5, <1>6, <1>7, <1>9, <1>10, <1>11 DEF Faithful

(* The constructor of ContractCreateTransaction: the bytecode takes the     *)
(* place of the file.                                                       *)
LEMMA ContractCreateConstructor ==
    ASSUME NEW p
    PROVE  LET o == ContractCreateNew(p) IN
           /\ DOMAIN o = DOMAIN ContractCreateFields
           /\ \A f \in DOMAIN ContractCreateFields \ {"bytecodeFileId"} :
                o[f] = IF f \in DOMAIN p /\ p[f] # Null THEN p[f]
                       ELSE ContractCreateFields[f]
           /\ o.bytecodeFileId =
                IF "bytecodeFileId" \in DOMAIN p /\ o.bytecode = Null
                THEN p.bytecodeFileId ELSE Null
<1> DEFINE r == Constructed(ContractCreateFields, p)
<1>1. /\ DOMAIN r = DOMAIN ContractCreateFields
      /\ \A f \in DOMAIN ContractCreateFields :
           r[f] = IF f \in DOMAIN p /\ p[f] # Null THEN p[f]
                  ELSE ContractCreateFields[f]
  BY DEF Constructed
<1>2. /\ {"bytecodeFileId", "bytecode"} \subseteq DOMAIN ContractCreateFields
      /\ ContractCreateFields.bytecodeFileId = Null
  BY DEF ContractCreateFields
<1>3. ContractCreateNew(p) = IF r.bytecode # Null
                             THEN [r EXCEPT !.bytecodeFileId = Null] ELSE r
  BY DEF ContractCreateNew
<1> HIDE DEF r
<1> QED
  BY <1>1, <1>2, <1>3

LEMMA ContractCreateInitial == ContractCreateNew(NoProps) = ContractCreateFields
<1> DEFINE o == ContractCreateNew(NoProps)
<1>1. DOMAIN NoProps = {}
  BY DEF NoProps
<1>2. /\ {"bytecode", "bytecodeFileId"} \subseteq DOMAIN ContractCreateFields
      /\ ContractCreateFields.bytecode = Null /\ ContractCreateFields.bytecodeFileId = Null
      /\ ContractCreateFields =
           [f \in DOMAIN ContractCreateFields |-> ContractCreateFields[f]]
  BY DEF ContractCreateFields
<1>3. o = [f \in DOMAIN o |-> o[f]]
  BY DEF ContractCreateNew, Constructed
<1>4. o.bytecode = ContractCreateFields.bytecode
  BY <1>1, <1>2, ContractCreateConstructor
<1>5. o.bytecodeFileId = ContractCreateFields.bytecodeFileId
  BY <1>1, <1>2, <1>4, ContractCreateConstructor
<1>6. /\ DOMAIN o = DOMAIN ContractCreateFields
      /\ \A f \in DOMAIN o : o[f] = ContractCreateFields[f]
  BY <1>1, <1>2, <1>4, <1>5, ContractCreateConstructor
<1> HIDE DEF o
<1>7. o = ContractCreateFields
  BY <1>2, <1>3, <1>6
<1> QED
  BY <1>7 DEF o

(* ContractCreateTransaction. *)
LEMMA ContractCreateFaithful == Faithful("ContractCreate")
<1>1. /\ \A p : New("ContractCreate", p) = ContractCreateNew(p)
      /\ \A o : Make("ContractCreate", o) = ContractCreateMake(o)
      /\ \A b : From("ContractCreate", b) = ContractCreateFrom(b)
  <2>1. \A p : New("ContractCreate", p) = ContractCreateNew(p)
    BY DEF New
  <2>2. \A o : Make("ContractCreate", o) = ContractCreateMake(o)
    BY DEF Make
  <2>3. \A b : From("ContractCreate", b) = ContractCreateFrom(b)
    BY DEF From
  <2> QED
    BY <2>1, <2>2, <2>3
<1>2. /\ Setters("ContractCreate") = ContractCreateSetters
      /\ Checked("ContractCreate") = {"bytecodeFileId", "proxyAccountId"}
      /\ Call("ContractCreate") = ContractCreateCall
  <2>1. Setters("ContractCreate") = ContractCreateSetters
    BY DEF Setters
  <2>2. Checked("ContractCreate") = {"bytecodeFileId", "proxyAccountId"}
    BY DEF Checked, ContractCreateChecked
  <2>3. Call("ContractCreate") = ContractCreateCall
    BY DEF Call
  <2> QED
    BY <2>1, <2>2, <2>3
<1>3. Fields("ContractCreate") =
        {"bytecodeFileId", "bytecode", "adminKey", "gas", "initialBalance",
         "proxyAccountId", "autoRenewPeriod", "constructorParameters",
         "contractMemo", "maxAutomaticTokenAssociations", "stakedAccountId",
         "stakedNodeId", "declineStakingReward", "autoRenewAccountId"}
  BY <1>1, ContractCreateConstructor DEF Fields, ContractCreateFields
<1>4. /\ Names("ContractCreate") = {"bytecodeFileId", "bytecode", "adminKey",
                                    "gas", "initialBalance",
                                    "proxyAccountId", "autoRenewPeriod",
                                    "constructorParameters", "contractMemo",
                                    "stakedAccountId", "stakedNodeId",
                                    "declineStakingReward",
                                    "autoRenewAccountId",
                                    "maxAutomaticTokenAssociations"}
      /\ Rewritten("ContractCreate") = {"maxAutomaticTokenAssociations"}
      /\ Of(Loose, "ContractCreate") = {"maxAutomaticTokenAssociations"}
      /\ Of(Lossy, "ContractCreate") = {"initialBalance", "initcode"}
      /\ Of(Ordered, "ContractCreate") = {"fileID", "initcode"}
      /\ Of(Entangled, "ContractCreate") = {"bytecodeFileId", "bytecode"}
  BY <1>2 DEF Names, Rewritten, Of, Loose, Lossy, Ordered, Entangled,
      ContractCreateSetters
<1>5. Constructs("ContractCreate")
  <2>1. /\ Fields("ContractCreate") = DOMAIN ContractCreateFields
        /\ ContractCreateFields.bytecodeFileId = Null
    BY <1>3 DEF ContractCreateFields
  <2>3. ASSUME NEW p, DOMAIN p \subseteq Names("ContractCreate")
        PROVE  WellFormed("ContractCreate", ContractCreateNew(p))
    <3>2. \A f \in Fields("ContractCreate") :
            ContractCreateFields[f] # Null => ContractCreateNew(p)[f] # Null
      BY <2>1, ContractCreateConstructor
    <3>3. Fields("ContractCreate") \ Names("ContractCreate") = {}
      BY <1>3, <1>4
    <3> QED
      BY <1>1, <2>1, <3>2, <3>3, ContractCreateInitial, ContractCreateConstructor
      DEF WellFormed
  <2> QED
    BY <1>1, <1>4, <2>1, <2>3, ContractCreateInitial, ContractCreateConstructor
      DEF Constructs
<1>6. SetsFields("ContractCreate")
  <2>1. /\ Names("ContractCreate") \subseteq Fields("ContractCreate")
        /\ Checked("ContractCreate") \subseteq Fields("ContractCreate")
    BY <1>2, <1>3, <1>4
  <2>2. DOMAIN Setters("ContractCreate").clears = {}
    BY <1>2 DEF ContractCreateSetters, NoEffect
  <2>3. /\ DOMAIN Setters("ContractCreate").nulls = {"bytecodeFileId", "bytecode"}
        /\ Setters("ContractCreate").open = {"maxAutomaticTokenAssociations"}
        /\ Setters("ContractCreate").nulls.bytecodeFileId = "bytecode"
        /\ Setters("ContractCreate").nulls.bytecode = "bytecodeFileId"
    BY <1>2 DEF ContractCreateSetters, NoEffect
  <2>4. /\ New("ContractCreate", NoProps).bytecode = Null
        /\ New("ContractCreate", NoProps).bytecodeFileId = Null
    BY <1>1, ContractCreateInitial DEF ContractCreateFields
  <2> QED
    BY <1>4, <2>1, <2>2, <2>3, <2>4 DEF SetsFields
<1>7. MakesFields("ContractCreate")
  BY <1>1, <1>3, <1>4 DEF MakesFields, ContractCreateMake
<1>8. ASSUME NEW o, WellFormed("ContractCreate", o),
             NEW b, b = ContractCreateMake(o),
             NEW n, n = ContractCreateNew(ContractCreateFrom(b)),
             NEW w \in Kept("ContractCreate", b)
      PROVE  ContractCreateMake(n)[w] = b[w] \/ b[w] = Beyond
  <2>1. w \in {"fileID", "adminKey", "gas", "proxyAccountID",
              "autoRenewPeriod", "constructorParameters", "memo",
              "stakedAccountId", "stakedNodeId", "declineReward",
              "autoRenewAccountId"}
    BY <1>4, <1>8 DEF Kept, ContractCreateMake
  <2>2. o.autoRenewPeriod # Null
    <3>1. /\ "autoRenewPeriod" \in Fields("ContractCreate")
          /\ ContractCreateFields.autoRenewPeriod # Null
      BY <1>3, NullAssumption DEF ContractCreateFields, Default
    <3> QED
      BY <1>1, <1>8, <3>1, ContractCreateInitial DEF WellFormed
  <2>3. LET p == ContractCreateFrom(b) IN
        /\ DOMAIN p = DOMAIN ContractCreateFields \ {"bytecode"}
        /\ p.bytecodeFileId = Id(o.bytecodeFileId) /\ p.adminKey = o.adminKey
        /\ p.gas = Scalar(o.gas) /\ p.proxyAccountId = Id(o.proxyAccountId)
        /\ p.autoRenewPeriod = o.autoRenewPeriod
        /\ p.constructorParameters = Scalar(o.constructorParameters)
        /\ p.contractMemo = Scalar(o.contractMemo)
        /\ p.stakedAccountId = Id(o.stakedAccountId)
        /\ p.stakedNodeId = o.stakedNodeId
        /\ p.declineStakingReward = Scalar(o.declineStakingReward)
        /\ p.autoRenewAccountId = Id(o.autoRenewAccountId)
    BY <1>8 DEF ContractCreateMake, ContractCreateFrom, ContractCreateFields
  <2>4. /\ n.bytecodeFileId = Id(o.bytecodeFileId) /\ n.adminKey = o.adminKey
        /\ n.gas = Scalar(o.gas) /\ n.proxyAccountId = Id(o.proxyAccountId)
        /\ n.autoRenewPeriod = o.autoRenewPeriod
        /\ n.constructorParameters = Scalar(o.constructorParameters)
        /\ n.contractMemo = Scalar(o.contractMemo)
        /\ n.stakedAccountId = Id(o.stakedAccountId)
        /\ n.stakedNodeId = o.stakedNodeId
        /\ n.declineStakingReward = Scalar(o.declineStakingReward)
        /\ n.autoRenewAccountId = Id(o.autoRenewAccountId)
    BY <1>8, <2>2, <2>3, ContractCreateConstructor, NullAssumption
      DEF ContractCreateFields, Scalar
  <2> QED
    BY <1>8, <2>1, <2>2, <2>4, NullAssumption DEF ContractCreateMake, Id,
      Scalar, Seconds, Foreign, Beyond, Wrapped
<1>9. RoundTrips("ContractCreate")
  <2>1. \A b : DOMAIN From("ContractCreate", b) \subseteq Names("ContractCreate")
    BY <1>1, <1>4 DEF ContractCreateFrom
  <2> QED
    BY <1>1, <1>8, <2>1 DEF RoundTrips, Decodes
<1>10. ChecksIds("ContractCreate")
  <2>1. Of(Unchecked, "ContractCreate") = {}
    BY DEF Of, Unchecked
  <2>2. \A f \in Names("ContractCreate") \cap OtherIds :
          f \in Checked("ContractCreate") \cup Of(Unchecked, "ContractCreate")
    BY <1>2, <1>4, <2>1 DEF OtherIds
  <2>3. Call("ContractCreate").rpc = "smartContract.createContract"
    BY <1>2 DEF ContractCreateCall
  <2> QED
    BY <2>2, <2>3 DEF ChecksIds
<1>11. ClassOf[Call("ContractCreate").case] = "ContractCreate"
  BY <1>2 DEF ContractCreateCall, ClassOf
<1> QED
  BY <1>5, <1>6, <1>7, <1>9, <1>10, <1>11 DEF Faithful

(* ContractUpdateTransaction. *)
LEMMA ContractUpdateFaithful == Faithful("ContractUpdate")
<1>1. /\ \A p : New("ContractUpdate", p) = ContractUpdateNew(p)
      /\ \A o : Make("ContractUpdate", o) = ContractUpdateMake(o)
      /\ \A b : From("ContractUpdate", b) = ContractUpdateFrom(b)
  BY DEF New, Make, From
<1>2. /\ Setters("ContractUpdate") = ContractUpdateSetters
      /\ Checked("ContractUpdate") = {"contractId", "bytecodeFileId",
                                     "proxyAccountId"}
      /\ Call("ContractUpdate") = ContractUpdateCall
  BY DEF Setters, Checked, Call, ContractUpdateChecked
<1>3. Fields("ContractUpdate") =
        {"contractId", "expirationTime", "adminKey", "proxyAccountId",
         "autoRenewPeriod", "bytecodeFileId", "contractMemo",
         "maxAutomaticTokenAssociations", "stakedAccountId", "stakedNodeId",
         "declineStakingReward", "autoRenewAccountId"}
  BY <1>1 DEF Fields, ContractUpdateNew, Constructed
<1>4. /\ Names("ContractUpdate") = {"contractId", "expirationTime",
                                    "adminKey", "proxyAccountId",
                                    "autoRenewPeriod", "bytecodeFileId",
                                    "contractMemo",
                                    "maxAutomaticTokenAssociations",
                                    "stakedAccountId", "stakedNodeId",
                                    "declineStakingReward",
                                    "autoRenewAccountId"}
      /\ Rewritten("ContractUpdate") = {"autoRenewAccountId"}
      /\ Of(Loose, "ContractUpdate") = {"autoRenewAccountId"}
      /\ Of(Lossy, "ContractUpdate") = {"declineReward"}
      /\ Of(Ordered, "ContractUpdate") = {}
      /\ Of(Entangled, "ContractUpdate") = {}
  BY <1>2 DEF Names, Rewritten, Of, Loose, Lossy, Ordered, Entangled,
      ContractUpdateSetters
<1>5. Constructs("ContractUpdate")
  BY <1>1, PlainConstructor, Zenon DEF ContractUpdateNew
<1>6. SetsFields("ContractUpdate")
  BY <1>1, <1>2, <1>3, <1>4, NullAssumption DEF SetsFields,
      ContractUpdateSetters, NoEffect, ContractUpdateNew, Constructed, NoProps
<1>7. MakesFields("ContractUpdate")
  BY <1>1, <1>3, <1>4 DEF MakesFields, ContractUpdateMake
<1>8. ASSUME NEW o, WellFormed("ContractUpdate", o),
             NEW b, b = ContractUpdateMake(o),
             NEW n, n = ContractUpdateNew(ContractUpdateFrom(b)),
             NEW w \in Kept("ContractUpdate", b)
      PROVE  ContractUpdateMake(n)[w] = b[w] \/ b[w] = Beyond
  <2>1. w \in {"contractID", "expirationTime", "adminKey", "proxyAccountID",
              "autoRenewPeriod", "fileID", "memoWrapper",
              "maxAutomaticTokenAssociations", "stakedAccountId",
              "stakedNodeId"}
    BY <1>4, <1>8 DEF Kept, ContractUpdateMake
  <2>4. /\ n.contractId = Id(o.contractId)
        /\ n.expirationTime = Seconds(o.expirationTime)
        /\ n.adminKey = o.adminKey /\ n.proxyAccountId = Id(o.proxyAccountId)
        /\ n.autoRenewPeriod = o.autoRenewPeriod
        /\ n.bytecodeFileId = Id(o.bytecodeFileId)
        /\ n.contractMemo = o.contractMemo
        /\ n.maxAutomaticTokenAssociations = o.maxAutomaticTokenAssociations
        /\ n.stakedAccountId = Id(o.stakedAccountId)
        /\ n.stakedNodeId = o.stakedNodeId
    BY <1>8, NullAssumption DEF ContractUpdateMake, ContractUpdateFrom,
      ContractUpdateNew, Constructed, Scalar, Id, Seconds, Foreign, Beyond,
      Wrapped
  <2> QED
    BY <1>8, <2>1, <2>4, NullAssumption DEF ContractUpdateMake, Id, Scalar,
      Seconds, Foreign, Beyond, Wrapped
<1>9. RoundTrips("ContractUpdate")
  <2>1. \A b : DOMAIN From("ContractUpdate", b) \subseteq Names("ContractUpdate")
    BY <1>1, <1>4 DEF ContractUpdateFrom
  <2> QED
    BY <1>1, <1>8, <2>1 DEF RoundTrips, Decodes
<1>10. ChecksIds("ContractUpdate")
  BY <1>2, <1>4 DEF ChecksIds, OtherIds, Of, Unchecked, ContractUpdateCall
<1>11. ClassOf[Call("ContractUpdate").case] = "ContractUpdate"
  BY <1>2 DEF ContractUpdateCall, ClassOf
<1> QED
  BY <1>5, <1>6, <1>7, <1>9, <1>10, <1>11 DEF Faithful

(* ContractDeleteTransaction. *)
LEMMA ContractDeleteFaithful == Faithful("ContractDelete")
<1>1. /\ \A p : New("ContractDelete", p) = ContractDeleteNew(p)
      /\ \A o : Make("ContractDelete", o) = ContractDeleteMake(o)
      /\ \A b : From("ContractDelete", b) = ContractDeleteFrom(b)
  BY DEF New, Make, From
<1>2. /\ Setters("ContractDelete") = ContractDeleteSetters
      /\ Checked("ContractDelete") = {"contractId", "transferAccountId",
                                     "transferContractId"}
      /\ Call("ContractDelete") = ContractDeleteCall
  BY DEF Setters, Checked, Call, ContractDeleteChecked
<1>3. Fields("ContractDelete") =
        {"contractId", "transferAccountId", "transferContractId"}
  BY <1>1 DEF Fields, ContractDeleteNew, Constructed
<1>4. /\ Names("ContractDelete") = {"contractId", "transferContractId",
                                    "transferAccountId"}
      /\ Rewritten("ContractDelete") = {}
      /\ Of(Loose, "ContractDelete") = {}
      /\ Of(Lossy, "ContractDelete") = {}
      /\ Of(Ordered, "ContractDelete") = {}
      /\ Of(Entangled, "ContractDelete") = {}
  BY <1>2 DEF Names, Rewritten, Of, Loose, Lossy, Ordered, Entangled,
      ContractDeleteSetters, Guarded
<1>5. Constructs("ContractDelete")
  BY <1>1, PlainConstructor, Zenon DEF ContractDeleteNew
<1>6. SetsFields("ContractDelete")
  BY <1>1, <1>2, <1>3, <1>4, NullAssumption DEF SetsFields,
      ContractDeleteSetters, Guarded, NoEffect, ContractDeleteNew,
      Constructed, NoProps
<1>7. MakesFields("ContractDelete")
  BY <1>1, <1>3, <1>4 DEF MakesFields, ContractDeleteMake
<1>8. ASSUME NEW o, WellFormed("ContractDelete", o),
             NEW b, b = ContractDeleteMake(o),
             NEW n, n = ContractDeleteNew(ContractDeleteFrom(b)),
             NEW w \in Kept("ContractDelete", b)
      PROVE  ContractDeleteMake(n)[w] = b[w] \/ b[w] = Beyond
  BY <1>4, <1>8, NullAssumption DEF Kept, ContractDeleteMake,
      ContractDeleteFrom, ContractDeleteNew, Constructed, Id, Scalar, Seconds,
      Foreign, Beyond, Wrapped
<1>9. RoundTrips("ContractDelete")
  <2>1. \A b : DOMAIN From("ContractDelete", b) \subseteq Names("ContractDelete")
    BY <1>1, <1>4 DEF ContractDeleteFrom
  <2> QED
    BY <1>1, <1>8, <2>1 DEF RoundTrips, Decodes
<1>10. ChecksIds("ContractDelete")
  BY <1>2, <1>4 DEF ChecksIds, OtherIds, Of, Unchecked, ContractDeleteCall
<1>11. ClassOf[Call("ContractDelete").case] = "ContractDelete"
  BY <1>2 DEF ContractDeleteCall, ClassOf
<1> QED
  BY <1>5, <1>6, <1>7, <1>9, <1>10, <1>11 DEF Faithful

(* ContractExecuteTransaction. *)
LEMMA ContractExecuteFaithful == Faithful("ContractExecute")
<1>1. /\ \A p : New("ContractExecute", p) = ContractExecuteNew(p)
      /\ \A o : Make("ContractExecute", o) = ContractExecuteMake(o)
      /\ \A b : From("ContractExecute", b) = ContractExecuteFrom(b)
  BY DEF New, Make, From
<1>2. /\ Setters("ContractExecute") = ContractExecuteSetters
      /\ Checked("ContractExecute") = {"contractId"}
      /\ Call("ContractExecute") = ContractExecuteCall
  BY DEF Setters, Checked, Call, ContractExecuteChecked
<1>3. Fields("ContractExecute") =
        {"contractId", "gas", "amount", "functionParameters"}
  BY <1>1 DEF Fields, ContractExecuteNew, Constructed
<1>4. /\ Names("ContractExecute") = {"contractId", "gas", "amount",
                                     "functionParameters"}
      /\ Rewritten("ContractExecute") = {}
      /\ Of(Loose, "ContractExecute") = {}
      /\ Of(Lossy, "ContractExecute") = {}
      /\ Of(Ordered, "ContractExecute") = {}
      /\ Of(Entangled, "ContractExecute") = {}
  BY <1>2 DEF Names, Rewritten, Of, Loose, Lossy, Ordered, Entangled,
      ContractExecuteSetters, Guarded
<1>5. Constructs("ContractExecute")
  BY <1>1, PlainConstructor, Zenon DEF ContractExecuteNew
<1>6. SetsFields("ContractExecute")
  BY <1>1, <1>2, <1>3, <1>4, NullAssumption DEF SetsFields,
      ContractExecuteSetters, Guarded, NoEffect, ContractExecuteNew,
      Constructed, NoProps
<1>7. MakesFields("ContractExecute")
  BY <1>1, <1>3, <1>4 DEF MakesFields, ContractExecuteMake
<1>8. ASSUME NEW o, WellFormed("ContractExecute", o),
             NEW b, b = ContractExecuteMake(o),
             NEW n, n = ContractExecuteNew(ContractExecuteFrom(b)),
             NEW w \in Kept("ContractExecute", b)
      PROVE  ContractExecuteMake(n)[w] = b[w] \/ b[w] = Beyond
  BY <1>4, <1>8, NullAssumption DEF Kept, ContractExecuteMake,
      ContractExecuteFrom, ContractExecuteNew, Constructed, Id, Scalar,
      Seconds, Foreign, Beyond, Wrapped
<1>9. RoundTrips("ContractExecute")
  <2>1. \A b : DOMAIN From("ContractExecute", b) \subseteq Names("ContractExecute")
    BY <1>1, <1>4 DEF ContractExecuteFrom
  <2> QED
    BY <1>1, <1>8, <2>1 DEF RoundTrips, Decodes
<1>10. ChecksIds("ContractExecute")
  BY <1>2, <1>4 DEF ChecksIds, OtherIds, Of, Unchecked, ContractExecuteCall
<1>11. ClassOf[Call("ContractExecute").case] = "ContractExecute"
  BY <1>2 DEF ContractExecuteCall, ClassOf
<1> QED
  BY <1>5, <1>6, <1>7, <1>9, <1>10, <1>11 DEF Faithful

(* EthereumTransaction. *)
LEMMA EthereumFaithful == Faithful("Ethereum")
<1>1. /\ \A p : New("Ethereum", p) = EthereumNew(p)
      /\ \A o : Make("Ethereum", o) = EthereumMake(o)
      /\ \A b : From("Ethereum", b) = EthereumFrom(b)
  BY DEF New, Make, From
<1>2. /\ Setters("Ethereum") = EthereumSetters
      /\ Checked("Ethereum") = {}
      /\ Call("Ethereum") = EthereumCall
  BY DEF Setters, Checked, Call, EthereumChecked
<1>3. Fields("Ethereum") =
        {"ethereumData", "callDataFileId", "maxGasAllowance"}
  BY <1>1 DEF Fields, EthereumNew, Constructed
<1>4. /\ Names("Ethereum") = {"ethereumData", "callDataFileId",
                              "maxGasAllowance"}
      /\ Rewritten("Ethereum") = {}
      /\ Of(Loose, "Ethereum") = {}
      /\ Of(Lossy, "Ethereum") = {}
      /\ Of(Ordered, "Ethereum") = {}
      /\ Of(Entangled, "Ethereum") = {}
  BY <1>2 DEF Names, Rewritten, Of, Loose, Lossy, Ordered, Entangled,
      EthereumSetters, Guarded
<1>5. Constructs("Ethereum")
  BY <1>1, PlainConstructor, Zenon DEF EthereumNew
<1>6. SetsFields("Ethereum")
  BY <1>1, <1>2, <1>3, <1>4, NullAssumption DEF SetsFields, EthereumSetters,
      Guarded, NoEffect, EthereumNew, Constructed, NoProps
<1>7. MakesFields("Ethereum")
  BY <1>1, <1>3, <1>4 DEF MakesFields, EthereumMake
<1>8. ASSUME NEW o, WellFormed("Ethereum", o),
             NEW b, b = EthereumMake(o),
             NEW n, n = EthereumNew(EthereumFrom(b)),
             NEW w \in Kept("Ethereum", b)
      PROVE  EthereumMake(n)[w] = b[w] \/ b[w] = Beyond
  BY <1>4, <1>8, NullAssumption DEF Kept, EthereumMake, EthereumFrom,
      EthereumNew, Constructed, Id, Scalar, Seconds, Foreign, Beyond, Wrapped
<1>9. RoundTrips("Ethereum")
  <2>1. \A b : DOMAIN From("Ethereum", b) \subseteq Names("Ethereum")
    BY <1>1, <1>4 DEF EthereumFrom
  <2> QED
    BY <1>1, <1>8, <2>1 DEF RoundTrips, Decodes
<1>10. ChecksIds("Ethereum")
  BY <1>2, <1>4 DEF ChecksIds, OtherIds, Of, Unchecked, EthereumCall
<1>11. ClassOf[Call("Ethereum").case] = "Ethereum"
  BY <1>2 DEF EthereumCall, ClassOf
<1> QED
  BY <1>5, <1>6, <1>7, <1>9, <1>10, <1>11 DEF Faithful

(* PrngTransaction. *)
LEMMA PrngFaithful == Faithful("Prng")
<1>1. /\ \A p : New("Prng", p) = PrngNew(p)
      /\ \A o : Make("Prng", o) = PrngMake(o)
      /\ \A b : From("Prng", b) = PrngFrom(b)
  BY DEF New, Make, From
<1>2. /\ Setters("Prng") = PrngSetters
      /\ Checked("Prng") = {}
      /\ Call("Prng") = PrngCall
  BY DEF Setters, Checked, Call
<1>3. Fields("Prng") =
        {"range"}
  BY <1>1 DEF Fields, PrngNew, Constructed
<1>4. /\ Names("Prng") = {"range"}
      /\ Rewritten("Prng") = {"range"}
      /\ Of(Loose, "Prng") = {"range"}
      /\ Of(Lossy, "Prng") = {}
      /\ Of(Ordered, "Prng") = {}
      /\ Of(Entangled, "Prng") = {}
  BY <1>2 DEF Names, Rewritten, Of, Loose, Lossy, Ordered, Entangled,
      PrngSetters
<1>5. Constructs("Prng")
  BY <1>1, PlainConstructor, Zenon DEF PrngNew
<1>6. SetsFields("Prng")
  BY <1>1, <1>2, <1>3, <1>4, NullAssumption DEF SetsFields, PrngSetters,
      NoEffect, PrngNew, Constructed, NoProps
<1>7. MakesFields("Prng")
  BY <1>1, <1>3, <1>4 DEF MakesFields, PrngMake
<1>8. ASSUME NEW o, WellFormed("Prng", o),
             NEW b, b = PrngMake(o),
             NEW n, n = PrngNew(PrngFrom(b)),
             NEW w \in Kept("Prng", b)
      PROVE  PrngMake(n)[w] = b[w] \/ b[w] = Beyond
  BY <1>4, <1>8 DEF Kept, PrngMake
<1>9. RoundTrips("Prng")
  <2>1. \A b : DOMAIN From("Prng", b) \subseteq Names("Prng")
    BY <1>1, <1>4 DEF PrngFrom
  <2> QED
    BY <1>1, <1>8, <2>1 DEF RoundTrips, Decodes
<1>10. ChecksIds("Prng")
  BY <1>2, <1>4 DEF ChecksIds, OtherIds, Of, Unchecked, PrngCall
<1>11. ClassOf[Call("Prng").case] = "Prng"
  BY <1>2 DEF PrngCall, ClassOf
<1> QED
  BY <1>5, <1>6, <1>7, <1>9, <1>10, <1>11 DEF Faithful

(* FileCreateTransaction. *)
LEMMA FileCreateFaithful == Faithful("FileCreate")
<1>1. /\ \A p : New("FileCreate", p) = FileCreateNew(p)
      /\ \A o : Make("FileCreate", o) = FileCreateMake(o)
      /\ \A b : From("FileCreate", b) = FileCreateFrom(b)
  BY DEF New, Make, From
<1>2. /\ Setters("FileCreate") = FileCreateSetters
      /\ Checked("FileCreate") = {}
      /\ Call("FileCreate") = FileCreateCall
  BY DEF Setters, Checked, Call
<1>3. Fields("FileCreate") =
        {"keys", "expirationTime", "contents", "fileMemo"}
  BY <1>1 DEF Fields, FileCreateNew, Constructed
<1>4. /\ Names("FileCreate") = {"keys", "expirationTime", "contents",
                                "fileMemo"}
      /\ Rewritten("FileCreate") = {}
      /\ Of(Loose, "FileCreate") = {}
      /\ Of(Lossy, "FileCreate") = {}
      /\ Of(Ordered, "FileCreate") = {}
      /\ Of(Entangled, "FileCreate") = {}
  BY <1>2 DEF Names, Rewritten, Of, Loose, Lossy, Ordered, Entangled,
      FileCreateSetters, Guarded
<1>5. Constructs("FileCreate")
  BY <1>1, PlainConstructor, Zenon DEF FileCreateNew
<1>6. SetsFields("FileCreate")
  BY <1>1, <1>2, <1>3, <1>4, NullAssumption DEF SetsFields, FileCreateSetters,
      Guarded, NoEffect, FileCreateNew, Constructed, NoProps
<1>7. MakesFields("FileCreate")
  BY <1>1, <1>3, <1>4 DEF MakesFields, FileCreateMake
<1>8. ASSUME NEW o, WellFormed("FileCreate", o),
             NEW b, b = FileCreateMake(o),
             NEW n, n = FileCreateNew(FileCreateFrom(b)),
             NEW w \in Kept("FileCreate", b)
      PROVE  FileCreateMake(n)[w] = b[w] \/ b[w] = Beyond
  <2>1. w \in {"keys", "expirationTime", "contents", "memo"}
    BY <1>4, <1>8 DEF Kept, FileCreateMake
  <2>2. o.expirationTime # Null
    BY <1>1, <1>3, <1>8, NullAssumption DEF WellFormed, FileCreateNew,
      Constructed, NoProps, Default
  <2>4. /\ n.keys = o.keys /\ n.expirationTime = Seconds(o.expirationTime)
        /\ n.contents = Scalar(o.contents) /\ n.fileMemo = Scalar(o.fileMemo)
    BY <1>8, <2>2, NullAssumption DEF FileCreateMake, FileCreateFrom,
      FileCreateNew, Constructed, Scalar, Id, Seconds, Foreign, Beyond,
      Wrapped
  <2> QED
    BY <1>8, <2>1, <2>2, <2>4, NullAssumption DEF FileCreateMake, Id, Scalar,
      Seconds, Foreign, Beyond, Wrapped
<1>9. RoundTrips("FileCreate")
  <2>1. \A b : DOMAIN From("FileCreate", b) \subseteq Names("FileCreate")
    BY <1>1, <1>4 DEF FileCreateFrom
  <2> QED
    BY <1>1, <1>8, <2>1 DEF RoundTrips, Decodes
<1>10. ChecksIds("FileCreate")
  BY <1>2, <1>4 DEF ChecksIds, OtherIds, Of, Unchecked, FileCreateCall
<1>11. ClassOf[Call("FileCreate").case] = "FileCreate"
  BY <1>2 DEF FileCreateCall, ClassOf
<1> QED
  BY <1>5, <1>6, <1>7, <1>9, <1>10, <1>11 DEF Faithful

(* FileUpdateTransaction. *)
LEMMA FileUpdateFaithful == Faithful("FileUpdate")
<1>1. /\ \A p : New("FileUpdate", p) = FileUpdateNew(p)
      /\ \A o : Make("FileUpdate", o) = FileUpdateMake(o)
      /\ \A b : From("FileUpdate", b) = FileUpdateFrom(b)
  BY DEF New, Make, From
<1>2. /\ Setters("FileUpdate") = FileUpdateSetters
      /\ Checked("FileUpdate") = {"fileId"}
      /\ Call("FileUpdate") = FileUpdateCall
  BY DEF Setters, Checked, Call, FileUpdateChecked
<1>3. Fields("FileUpdate") =
        {"fileId", "keys", "expirationTime", "contents", "fileMemo"}
  BY <1>1 DEF Fields, FileUpdateNew, Constructed
<1>4. /\ Names("FileUpdate") = {"fileId", "keys", "expirationTime",
                                "contents", "fileMemo"}
      /\ Rewritten("FileUpdate") = {}
      /\ Of(Loose, "FileUpdate") = {}
      /\ Of(Lossy, "FileUpdate") = {}
      /\ Of(Ordered, "FileUpdate") = {}
      /\ Of(Entangled, "FileUpdate") = {}
  BY <1>2 DEF Names, Rewritten, Of, Loose, Lossy, Ordered, Entangled,
      FileUpdateSetters
<1>5. Constructs("FileUpdate")
  BY <1>1, PlainConstructor, Zenon DEF FileUpdateNew
<1>6. SetsFields("FileUpdate")
  BY <1>1, <1>2, <1>3, <1>4, NullAssumption DEF SetsFields, FileUpdateSetters,
      NoEffect, FileUpdateNew, Constructed, NoProps
<1>7. MakesFields("FileUpdate")
  BY <1>1, <1>3, <1>4 DEF MakesFields, FileUpdateMake
<1>8. ASSUME NEW o, WellFormed("FileUpdate", o),
             NEW b, b = FileUpdateMake(o),
             NEW n, n = FileUpdateNew(FileUpdateFrom(b)),
             NEW w \in Kept("FileUpdate", b)
      PROVE  FileUpdateMake(n)[w] = b[w] \/ b[w] = Beyond
  <2>1. w \in {"fileID", "keys", "expirationTime", "contents", "memo"}
    BY <1>4, <1>8 DEF Kept, FileUpdateMake
  <2>4. /\ n.fileId = Id(o.fileId) /\ n.keys = o.keys
        /\ n.expirationTime = Seconds(o.expirationTime)
        /\ n.contents = Scalar(o.contents) /\ n.fileMemo = o.fileMemo
    BY <1>8, NullAssumption DEF FileUpdateMake, FileUpdateFrom, FileUpdateNew,
      Constructed, Scalar, Id, Seconds, Foreign, Beyond, Wrapped
  <2> QED
    BY <1>8, <2>1, <2>4, NullAssumption DEF FileUpdateMake, Id, Scalar,
      Seconds, Foreign, Beyond, Wrapped
<1>9. RoundTrips("FileUpdate")
  <2>1. \A b : DOMAIN From("FileUpdate", b) \subseteq Names("FileUpdate")
    BY <1>1, <1>4 DEF FileUpdateFrom
  <2> QED
    BY <1>1, <1>8, <2>1 DEF RoundTrips, Decodes
<1>10. ChecksIds("FileUpdate")
  BY <1>2, <1>4 DEF ChecksIds, OtherIds, Of, Unchecked, FileUpdateCall
<1>11. ClassOf[Call("FileUpdate").case] = "FileUpdate"
  BY <1>2 DEF FileUpdateCall, ClassOf
<1> QED
  BY <1>5, <1>6, <1>7, <1>9, <1>10, <1>11 DEF Faithful

(* FileDeleteTransaction. *)
LEMMA FileDeleteFaithful == Faithful("FileDelete")
<1>1. /\ \A p : New("FileDelete", p) = FileDeleteNew(p)
      /\ \A o : Make("FileDelete", o) = FileDeleteMake(o)
      /\ \A b : From("FileDelete", b) = FileDeleteFrom(b)
  BY DEF New, Make, From
<1>2. /\ Setters("FileDelete") = FileDeleteSetters
      /\ Checked("FileDelete") = {"fileId"}
      /\ Call("FileDelete") = FileDeleteCall
  BY DEF Setters, Checked, Call, FileDeleteChecked
<1>3. Fields("FileDelete") =
        {"fileId"}
  BY <1>1 DEF Fields, FileDeleteNew, Constructed
<1>4. /\ Names("FileDelete") = {"fileId"}
      /\ Rewritten("FileDelete") = {}
      /\ Of(Loose, "FileDelete") = {}
      /\ Of(Lossy, "FileDelete") = {}
      /\ Of(Ordered, "FileDelete") = {}
      /\ Of(Entangled, "FileDelete") = {}
  BY <1>2 DEF Names, Rewritten, Of, Loose, Lossy, Ordered, Entangled,
      FileDeleteSetters, Guarded
<1>5. Constructs("FileDelete")
  BY <1>1, PlainConstructor, Zenon DEF FileDeleteNew
<1>6. SetsFields("FileDelete")
  BY <1>1, <1>2, <1>3, <1>4, NullAssumption DEF SetsFields, FileDeleteSetters,
      Guarded, NoEffect, FileDeleteNew, Constructed, NoProps
<1>7. MakesFields("FileDelete")
  BY <1>1, <1>3, <1>4 DEF MakesFields, FileDeleteMake
<1>8. ASSUME NEW o, WellFormed("FileDelete", o),
             NEW b, b = FileDeleteMake(o),
             NEW n, n = FileDeleteNew(FileDeleteFrom(b)),
             NEW w \in Kept("FileDelete", b)
      PROVE  FileDeleteMake(n)[w] = b[w] \/ b[w] = Beyond
  BY <1>4, <1>8, NullAssumption DEF Kept, FileDeleteMake, FileDeleteFrom,
      FileDeleteNew, Constructed, Id, Scalar, Seconds, Foreign, Beyond,
      Wrapped
<1>9. RoundTrips("FileDelete")
  <2>1. \A b : DOMAIN From("FileDelete", b) \subseteq Names("FileDelete")
    BY <1>1, <1>4 DEF FileDeleteFrom
  <2> QED
    BY <1>1, <1>8, <2>1 DEF RoundTrips, Decodes
<1>10. ChecksIds("FileDelete")
  BY <1>2, <1>4 DEF ChecksIds, OtherIds, Of, Unchecked, FileDeleteCall
<1>11. ClassOf[Call("FileDelete").case] = "FileDelete"
  BY <1>2 DEF FileDeleteCall, ClassOf
<1> QED
  BY <1>5, <1>6, <1>7, <1>9, <1>10, <1>11 DEF Faithful

(* TopicCreateTransaction. *)
LEMMA TopicCreateFaithful == Faithful("TopicCreate")
<1>1. /\ \A p : New("TopicCreate", p) = TopicCreateNew(p)
      /\ \A o : Make("TopicCreate", o) = TopicCreateMake(o)
      /\ \A b : From("TopicCreate", b) = TopicCreateFrom(b)
  BY DEF New, Make, From
<1>2. /\ Setters("TopicCreate") = TopicCreateSetters
      /\ Checked("TopicCreate") = {"autoRenewAccountId"}
      /\ Call("TopicCreate") = TopicCreateCall
  BY DEF Setters, Checked, Call, TopicCreateChecked
<1>3. Fields("TopicCreate") =
        {"adminKey", "submitKey", "autoRenewAccountId", "autoRenewPeriod",
         "topicMemo"}
  BY <1>1 DEF Fields, TopicCreateNew, Constructed
<1>4. /\ Names("TopicCreate") = {"topicMemo", "adminKey", "submitKey",
                                 "autoRenewAccountId", "autoRenewPeriod"}
      /\ Rewritten("TopicCreate") = {}
      /\ Of(Loose, "TopicCreate") = {}
      /\ Of(Lossy, "TopicCreate") = {}
      /\ Of(Ordered, "TopicCreate") = {}
      /\ Of(Entangled, "TopicCreate") = {}
  BY <1>2 DEF Names, Rewritten, Of, Loose, Lossy, Ordered, Entangled,
      TopicCreateSetters, Guarded
<1>5. Constructs("TopicCreate")
  BY <1>1, PlainConstructor, Zenon DEF TopicCreateNew
<1>6. SetsFields("TopicCreate")
  BY <1>1, <1>2, <1>3, <1>4, NullAssumption DEF SetsFields,
      TopicCreateSetters, Guarded, NoEffect, TopicCreateNew, Constructed,
      NoProps
<1>7. MakesFields("TopicCreate")
  BY <1>1, <1>3, <1>4 DEF MakesFields, TopicCreateMake
<1>8. ASSUME NEW o, WellFormed("TopicCreate", o),
             NEW b, b = TopicCreateMake(o),
             NEW n, n = TopicCreateNew(TopicCreateFrom(b)),
             NEW w \in Kept("TopicCreate", b)
      PROVE  TopicCreateMake(n)[w] = b[w] \/ b[w] = Beyond
  <2>1. w \in {"adminKey", "submitKey", "autoRenewAccount", "autoRenewPeriod",
              "memo"}
    BY <1>4, <1>8 DEF Kept, TopicCreateMake
  <2>2. o.autoRenewPeriod # Null
    BY <1>1, <1>3, <1>8, NullAssumption DEF WellFormed, TopicCreateNew,
      Constructed, NoProps, Default
  <2>4. /\ n.adminKey = o.adminKey /\ n.submitKey = o.submitKey
        /\ n.autoRenewAccountId = Id(o.autoRenewAccountId)
        /\ n.autoRenewPeriod = o.autoRenewPeriod
        /\ n.topicMemo = Scalar(o.topicMemo)
    BY <1>8, <2>2, NullAssumption DEF TopicCreateMake, TopicCreateFrom,
      TopicCreateNew, Constructed, Scalar, Id, Seconds, Foreign, Beyond,
      Wrapped
  <2> QED
    BY <1>8, <2>1, <2>2, <2>4, NullAssumption DEF TopicCreateMake, Id, Scalar,
      Seconds, Foreign, Beyond, Wrapped
<1>9. RoundTrips("TopicCreate")
  <2>1. \A b : DOMAIN From("TopicCreate", b) \subseteq Names("TopicCreate")
    BY <1>1, <1>4 DEF TopicCreateFrom
  <2> QED
    BY <1>1, <1>8, <2>1 DEF RoundTrips, Decodes
<1>10. ChecksIds("TopicCreate")
  BY <1>2, <1>4 DEF ChecksIds, OtherIds, Of, Unchecked, TopicCreateCall
<1>11. ClassOf[Call("TopicCreate").case] = "TopicCreate"
  BY <1>2 DEF TopicCreateCall, ClassOf
<1> QED
  BY <1>5, <1>6, <1>7, <1>9, <1>10, <1>11 DEF Faithful

(* TopicUpdateTransaction. *)
LEMMA TopicUpdateFaithful == Faithful("TopicUpdate")
<1>1. /\ \A p : New("TopicUpdate", p) = TopicUpdateNew(p)
      /\ \A o : Make("TopicUpdate", o) = TopicUpdateMake(o)
      /\ \A b : From("TopicUpdate", b) = TopicUpdateFrom(b)
  BY DEF New, Make, From
<1>2. /\ Setters("TopicUpdate") = TopicUpdateSetters
      /\ Checked("TopicUpdate") = {"topicId", "autoRenewAccountId"}
      /\ Call("TopicUpdate") = TopicUpdateCall
  BY DEF Setters, Checked, Call, TopicUpdateChecked
<1>3. Fields("TopicUpdate") =
        {"topicId", "topicMemo", "submitKey", "adminKey",
         "autoRenewAccountId", "autoRenewPeriod", "expirationTime"}
  BY <1>1 DEF Fields, TopicUpdateNew, Constructed
<1>4. /\ Names("TopicUpdate") = {"expirationTime", "topicId", "topicMemo",
                                 "adminKey", "submitKey",
                                 "autoRenewAccountId", "autoRenewPeriod"}
      /\ Rewritten("TopicUpdate") = {}
      /\ Of(Loose, "TopicUpdate") = {}
      /\ Of(Lossy, "TopicUpdate") = {}
      /\ Of(Ordered, "TopicUpdate") = {}
      /\ Of(Entangled, "TopicUpdate") = {}
  BY <1>2 DEF Names, Rewritten, Of, Loose, Lossy, Ordered, Entangled,
      TopicUpdateSetters
<1>5. Constructs("TopicUpdate")
  BY <1>1, PlainConstructor, Zenon DEF TopicUpdateNew
<1>6. SetsFields("TopicUpdate")
  BY <1>1, <1>2, <1>3, <1>4, NullAssumption DEF SetsFields,
      TopicUpdateSetters, NoEffect, TopicUpdateNew, Constructed, NoProps
<1>7. MakesFields("TopicUpdate")
  BY <1>1, <1>3, <1>4 DEF MakesFields, TopicUpdateMake
<1>8. ASSUME NEW o, WellFormed("TopicUpdate", o),
             NEW b, b = TopicUpdateMake(o),
             NEW n, n = TopicUpdateNew(TopicUpdateFrom(b)),
             NEW w \in Kept("TopicUpdate", b)
      PROVE  TopicUpdateMake(n)[w] = b[w] \/ b[w] = Beyond
  <2>1. w \in {"topicID", "adminKey", "submitKey", "memo", "autoRenewAccount",
              "autoRenewPeriod", "expirationTime"}
    BY <1>4, <1>8 DEF Kept, TopicUpdateMake
  <2>4. /\ n.topicId = Id(o.topicId) /\ n.adminKey = o.adminKey
        /\ n.submitKey = o.submitKey /\ n.topicMemo = o.topicMemo
        /\ n.autoRenewAccountId = Id(o.autoRenewAccountId)
        /\ n.autoRenewPeriod = o.autoRenewPeriod
        /\ n.expirationTime = Seconds(o.expirationTime)
    BY <1>8, NullAssumption DEF TopicUpdateMake, TopicUpdateFrom,
      TopicUpdateNew, Constructed, Scalar, Id, Seconds, Foreign, Beyond,
      Wrapped
  <2> QED
    BY <1>8, <2>1, <2>4, NullAssumption DEF TopicUpdateMake, Id, Scalar,
      Seconds, Foreign, Beyond, Wrapped
<1>9. RoundTrips("TopicUpdate")
  <2>1. \A b : DOMAIN From("TopicUpdate", b) \subseteq Names("TopicUpdate")
    BY <1>1, <1>4 DEF TopicUpdateFrom
  <2> QED
    BY <1>1, <1>8, <2>1 DEF RoundTrips, Decodes
<1>10. ChecksIds("TopicUpdate")
  BY <1>2, <1>4 DEF ChecksIds, OtherIds, Of, Unchecked, TopicUpdateCall
<1>11. ClassOf[Call("TopicUpdate").case] = "TopicUpdate"
  BY <1>2 DEF TopicUpdateCall, ClassOf
<1> QED
  BY <1>5, <1>6, <1>7, <1>9, <1>10, <1>11 DEF Faithful

(* TopicDeleteTransaction. *)
LEMMA TopicDeleteFaithful == Faithful("TopicDelete")
<1>1. /\ \A p : New("TopicDelete", p) = TopicDeleteNew(p)
      /\ \A o : Make("TopicDelete", o) = TopicDeleteMake(o)
      /\ \A b : From("TopicDelete", b) = TopicDeleteFrom(b)
  BY DEF New, Make, From
<1>2. /\ Setters("TopicDelete") = TopicDeleteSetters
      /\ Checked("TopicDelete") = {"topicId"}
      /\ Call("TopicDelete") = TopicDeleteCall
  BY DEF Setters, Checked, Call, TopicDeleteChecked
<1>3. Fields("TopicDelete") =
        {"topicId"}
  BY <1>1 DEF Fields, TopicDeleteNew, Constructed
<1>4. /\ Names("TopicDelete") = {"topicId"}
      /\ Rewritten("TopicDelete") = {}
      /\ Of(Loose, "TopicDelete") = {}
      /\ Of(Lossy, "TopicDelete") = {}
      /\ Of(Ordered, "TopicDelete") = {}
      /\ Of(Entangled, "TopicDelete") = {}
  BY <1>2 DEF Names, Rewritten, Of, Loose, Lossy, Ordered, Entangled,
      TopicDeleteSetters, Guarded
<1>5. Constructs("TopicDelete")
  BY <1>1, PlainConstructor, Zenon DEF TopicDeleteNew
<1>6. SetsFields("TopicDelete")
  BY <1>1, <1>2, <1>3, <1>4, NullAssumption DEF SetsFields,
      TopicDeleteSetters, Guarded, NoEffect, TopicDeleteNew, Constructed,
      NoProps
<1>7. MakesFields("TopicDelete")
  BY <1>1, <1>3, <1>4 DEF MakesFields, TopicDeleteMake
<1>8. ASSUME NEW o, WellFormed("TopicDelete", o),
             NEW b, b = TopicDeleteMake(o),
             NEW n, n = TopicDeleteNew(TopicDeleteFrom(b)),
             NEW w \in Kept("TopicDelete", b)
      PROVE  TopicDeleteMake(n)[w] = b[w] \/ b[w] = Beyond
  BY <1>4, <1>8, NullAssumption DEF Kept, TopicDeleteMake, TopicDeleteFrom,
      TopicDeleteNew, Constructed, Id, Scalar, Seconds, Foreign, Beyond,
      Wrapped
<1>9. RoundTrips("TopicDelete")
  <2>1. \A b : DOMAIN From("TopicDelete", b) \subseteq Names("TopicDelete")
    BY <1>1, <1>4 DEF TopicDeleteFrom
  <2> QED
    BY <1>1, <1>8, <2>1 DEF RoundTrips, Decodes
<1>10. ChecksIds("TopicDelete")
  BY <1>2, <1>4 DEF ChecksIds, OtherIds, Of, Unchecked, TopicDeleteCall
<1>11. ClassOf[Call("TopicDelete").case] = "TopicDelete"
  BY <1>2 DEF TopicDeleteCall, ClassOf
<1> QED
  BY <1>5, <1>6, <1>7, <1>9, <1>10, <1>11 DEF Faithful

(* The constructor of ScheduleCreateTransaction does not take the time of   *)
(* expiration and what it means.                                            *)
LEMMA ScheduleCreateConstructor ==
    ASSUME NEW p
    PROVE  LET o == ScheduleCreateNew(p) IN
           /\ DOMAIN o = DOMAIN ScheduleCreateFields
           /\ \A f \in DOMAIN ScheduleCreateFields \ {"expirationTime", "waitForExpiry"} :
                o[f] = IF f \in DOMAIN p /\ p[f] # Null THEN p[f]
                       ELSE ScheduleCreateFields[f]
           /\ o.expirationTime = Null /\ o.waitForExpiry = Null
<1> DEFINE r == Constructed(ScheduleCreateFields, p)
<1>1. /\ DOMAIN r = DOMAIN ScheduleCreateFields
      /\ \A f \in DOMAIN ScheduleCreateFields :
           r[f] = IF f \in DOMAIN p /\ p[f] # Null THEN p[f]
                  ELSE ScheduleCreateFields[f]
  BY DEF Constructed
<1>2. {"expirationTime", "waitForExpiry"} \subseteq DOMAIN ScheduleCreateFields
  BY DEF ScheduleCreateFields
<1>3. ScheduleCreateNew(p) = [r EXCEPT !.expirationTime = Null, !.waitForExpiry = Null]
  BY DEF ScheduleCreateNew
<1> HIDE DEF r
<1> QED
  BY <1>1, <1>2, <1>3

LEMMA ScheduleCreateInitial == ScheduleCreateNew(NoProps) = ScheduleCreateFields
<1> DEFINE o == ScheduleCreateNew(NoProps)
<1>1. DOMAIN NoProps = {}
  BY DEF NoProps
<1>2. /\ {"expirationTime", "waitForExpiry"} \subseteq DOMAIN ScheduleCreateFields
      /\ ScheduleCreateFields.expirationTime = Null /\ ScheduleCreateFields.waitForExpiry = Null
      /\ ScheduleCreateFields =
           [f \in DOMAIN ScheduleCreateFields |-> ScheduleCreateFields[f]]
  BY DEF ScheduleCreateFields
<1>3. o = [f \in DOMAIN o |-> o[f]]
  BY DEF ScheduleCreateNew, Constructed
<1>4. o.expirationTime = ScheduleCreateFields.expirationTime
  BY <1>1, <1>2, ScheduleCreateConstructor
<1>5. o.waitForExpiry = ScheduleCreateFields.waitForExpiry
  BY <1>1, <1>2, <1>4, ScheduleCreateConstructor
<1>6. /\ DOMAIN o = DOMAIN ScheduleCreateFields
      /\ \A f \in DOMAIN o : o[f] = ScheduleCreateFields[f]
  BY <1>1, <1>2, <1>4, <1>5, ScheduleCreateConstructor
<1> HIDE DEF o
<1>7. o = ScheduleCreateFields
  BY <1>2, <1>3, <1>6
<1> QED
  BY <1>7 DEF o

(* ScheduleCreateTransaction. *)
LEMMA ScheduleCreateFaithful == Faithful("ScheduleCreate")
<1>1. /\ \A p : New("ScheduleCreate", p) = ScheduleCreateNew(p)
      /\ \A o : Make("ScheduleCreate", o) = ScheduleCreateMake(o)
      /\ \A b : From("ScheduleCreate", b) = ScheduleCreateFrom(b)
  <2>1. \A p : New("ScheduleCreate", p) = ScheduleCreateNew(p)
    BY DEF New
  <2>2. \A o : Make("ScheduleCreate", o) = ScheduleCreateMake(o)
    BY DEF Make
  <2>3. \A b : From("ScheduleCreate", b) = ScheduleCreateFrom(b)
    BY DEF From
  <2> QED
    BY <2>1, <2>2, <2>3
<1>2. /\ Setters("ScheduleCreate") = ScheduleCreateSetters
      /\ Checked("ScheduleCreate") = {"payerAccountId"}
      /\ Call("ScheduleCreate") = ScheduleCreateCall
  <2>1. Setters("ScheduleCreate") = ScheduleCreateSetters
    BY DEF Setters
  <2>2. Checked("ScheduleCreate") = {"payerAccountId"}
    BY DEF Checked, ScheduleCreateChecked
  <2>3. Call("ScheduleCreate") = ScheduleCreateCall
    BY DEF Call
  <2> QED
    BY <2>1, <2>2, <2>3
<1>3. Fields("ScheduleCreate") =
        {"adminKey", "payerAccountId", "scheduleMemo", "expirationTime",
         "waitForExpiry", "scheduledTransaction"}
  BY <1>1, ScheduleCreateConstructor DEF Fields, ScheduleCreateFields
<1>4. /\ Names("ScheduleCreate") = {"adminKey", "payerAccountId",
                                    "scheduleMemo", "scheduledTransaction",
                                    "expirationTime", "waitForExpiry"}
      /\ Rewritten("ScheduleCreate") = {"expirationTime", "waitForExpiry"}
      /\ Of(Loose, "ScheduleCreate") = {"expirationTime", "waitForExpiry"}
      /\ Of(Lossy, "ScheduleCreate") = {}
      /\ Of(Ordered, "ScheduleCreate") = {"expirationTime", "waitForExpiry"}
      /\ Of(Entangled, "ScheduleCreate") = {"expirationTime",
                                            "waitForExpiry"}
  BY <1>2 DEF Names, Rewritten, Of, Loose, Lossy, Ordered, Entangled,
      ScheduleCreateSetters
<1>5. Constructs("ScheduleCreate")
  <2>1. /\ Fields("ScheduleCreate") = DOMAIN ScheduleCreateFields
        /\ ScheduleCreateFields.expirationTime = Null /\ ScheduleCreateFields.waitForExpiry = Null
    BY <1>3 DEF ScheduleCreateFields
  <2>3. ASSUME NEW p, DOMAIN p \subseteq Names("ScheduleCreate")
        PROVE  WellFormed("ScheduleCreate", ScheduleCreateNew(p))
    <3>2. \A f \in Fields("ScheduleCreate") :
            ScheduleCreateFields[f] # Null => ScheduleCreateNew(p)[f] # Null
      BY <2>1, ScheduleCreateConstructor
    <3>3. Fields("ScheduleCreate") \ Names("ScheduleCreate") = {}
      BY <1>3, <1>4
    <3> QED
      BY <1>1, <2>1, <3>2, <3>3, ScheduleCreateInitial, ScheduleCreateConstructor
      DEF WellFormed
  <2> QED
    BY <1>1, <1>4, <2>1, <2>3, ScheduleCreateInitial, ScheduleCreateConstructor
      DEF Constructs
<1>6. SetsFields("ScheduleCreate")
  <2>1. /\ Names("ScheduleCreate") \subseteq Fields("ScheduleCreate")
        /\ Checked("ScheduleCreate") \subseteq Fields("ScheduleCreate")
    BY <1>2, <1>3, <1>4
  <2>2. DOMAIN Setters("ScheduleCreate").clears = {}
    BY <1>2 DEF ScheduleCreateSetters, NoEffect
  <2>3. /\ DOMAIN Setters("ScheduleCreate").nulls = {}
        /\ Setters("ScheduleCreate").open = {"expirationTime", "waitForExpiry"}
    BY <1>2 DEF ScheduleCreateSetters, NoEffect
  <2> QED
    BY <1>4, <2>1, <2>2, <2>3 DEF SetsFields
<1>7. MakesFields("ScheduleCreate")
  BY <1>1, <1>3, <1>4 DEF MakesFields, ScheduleCreateMake
<1>8. ASSUME NEW o, WellFormed("ScheduleCreate", o),
             NEW b, b = ScheduleCreateMake(o),
             NEW n, n = ScheduleCreateNew(ScheduleCreateFrom(b)),
             NEW w \in Kept("ScheduleCreate", b)
      PROVE  ScheduleCreateMake(n)[w] = b[w] \/ b[w] = Beyond
  <2>1. w \in {"adminKey", "payerAccountID", "scheduledTransactionBody", "memo"}
    BY <1>4, <1>8 DEF Kept, ScheduleCreateMake
  <2>2. LET p == ScheduleCreateFrom(b) IN
        /\ {"adminKey", "payerAccountId", "scheduledTransaction", "scheduleMemo"} \subseteq DOMAIN p
        /\ p.adminKey = o.adminKey /\ p.payerAccountId = Id(o.payerAccountId)
        /\ p.scheduledTransaction = o.scheduledTransaction
        /\ p.scheduleMemo = Scalar(o.scheduleMemo)
    BY <1>8 DEF ScheduleCreateMake, ScheduleCreateFrom
  <2>3. /\ n.adminKey = o.adminKey /\ n.payerAccountId = Id(o.payerAccountId)
        /\ n.scheduledTransaction = o.scheduledTransaction
        /\ n.scheduleMemo = Scalar(o.scheduleMemo)
    BY <1>8, <2>2, ScheduleCreateConstructor, NullAssumption
      DEF ScheduleCreateFields, Scalar
  <2> QED
    BY <1>8, <2>1, <2>3, NullAssumption DEF ScheduleCreateMake, Id, Scalar, Foreign
<1>9. RoundTrips("ScheduleCreate")
  <2>1. \A b : DOMAIN From("ScheduleCreate", b) \subseteq Names("ScheduleCreate")
    BY <1>1, <1>4 DEF ScheduleCreateFrom
  <2> QED
    BY <1>1, <1>8, <2>1 DEF RoundTrips, Decodes
<1>10. ChecksIds("ScheduleCreate")
  <2>1. Of(Unchecked, "ScheduleCreate") = {}
    BY DEF Of, Unchecked
  <2>2. \A f \in Names("ScheduleCreate") \cap OtherIds :
          f \in Checked("ScheduleCreate") \cup Of(Unchecked, "ScheduleCreate")
    BY <1>2, <1>4, <2>1 DEF OtherIds
  <2>3. Call("ScheduleCreate").rpc = "schedule.createSchedule"
    BY <1>2 DEF ScheduleCreateCall
  <2> QED
    BY <2>2, <2>3 DEF ChecksIds
<1>11. ClassOf[Call("ScheduleCreate").case] = "ScheduleCreate"
  BY <1>2 DEF ScheduleCreateCall, ClassOf
<1> QED
  BY <1>5, <1>6, <1>7, <1>9, <1>10, <1>11 DEF Faithful

(* ScheduleDeleteTransaction. *)
LEMMA ScheduleDeleteFaithful == Faithful("ScheduleDelete")
<1>1. /\ \A p : New("ScheduleDelete", p) = ScheduleDeleteNew(p)
      /\ \A o : Make("ScheduleDelete", o) = ScheduleDeleteMake(o)
      /\ \A b : From("ScheduleDelete", b) = ScheduleDeleteFrom(b)
  BY DEF New, Make, From
<1>2. /\ Setters("ScheduleDelete") = ScheduleDeleteSetters
      /\ Checked("ScheduleDelete") = {"scheduleId"}
      /\ Call("ScheduleDelete") = ScheduleDeleteCall
  BY DEF Setters, Checked, Call, ScheduleDeleteChecked
<1>3. Fields("ScheduleDelete") =
        {"scheduleId"}
  BY <1>1 DEF Fields, ScheduleDeleteNew, Constructed
<1>4. /\ Names("ScheduleDelete") = {"scheduleId"}
      /\ Rewritten("ScheduleDelete") = {}
      /\ Of(Loose, "ScheduleDelete") = {}
      /\ Of(Lossy, "ScheduleDelete") = {}
      /\ Of(Ordered, "ScheduleDelete") = {}
      /\ Of(Entangled, "ScheduleDelete") = {}
  BY <1>2 DEF Names, Rewritten, Of, Loose, Lossy, Ordered, Entangled,
      ScheduleDeleteSetters, Guarded
<1>5. Constructs("ScheduleDelete")
  BY <1>1, PlainConstructor, Zenon DEF ScheduleDeleteNew
<1>6. SetsFields("ScheduleDelete")
  BY <1>1, <1>2, <1>3, <1>4, NullAssumption DEF SetsFields,
      ScheduleDeleteSetters, Guarded, NoEffect, ScheduleDeleteNew,
      Constructed, NoProps
<1>7. MakesFields("ScheduleDelete")
  BY <1>1, <1>3, <1>4 DEF MakesFields, ScheduleDeleteMake
<1>8. ASSUME NEW o, WellFormed("ScheduleDelete", o),
             NEW b, b = ScheduleDeleteMake(o),
             NEW n, n = ScheduleDeleteNew(ScheduleDeleteFrom(b)),
             NEW w \in Kept("ScheduleDelete", b)
      PROVE  ScheduleDeleteMake(n)[w] = b[w] \/ b[w] = Beyond
  BY <1>4, <1>8, NullAssumption DEF Kept, ScheduleDeleteMake,
      ScheduleDeleteFrom, ScheduleDeleteNew, Constructed, Id, Scalar, Seconds,
      Foreign, Beyond, Wrapped
<1>9. RoundTrips("ScheduleDelete")
  <2>1. \A b : DOMAIN From("ScheduleDelete", b) \subseteq Names("ScheduleDelete")
    BY <1>1, <1>4 DEF ScheduleDeleteFrom
  <2> QED
    BY <1>1, <1>8, <2>1 DEF RoundTrips, Decodes
<1>10. ChecksIds("ScheduleDelete")
  BY <1>2, <1>4 DEF ChecksIds, OtherIds, Of, Unchecked, ScheduleDeleteCall
<1>11. ClassOf[Call("ScheduleDelete").case] = "ScheduleDelete"
  BY <1>2 DEF ScheduleDeleteCall, ClassOf
<1> QED
  BY <1>5, <1>6, <1>7, <1>9, <1>10, <1>11 DEF Faithful

(* ScheduleSignTransaction. *)
LEMMA ScheduleSignFaithful == Faithful("ScheduleSign")
<1>1. /\ \A p : New("ScheduleSign", p) = ScheduleSignNew(p)
      /\ \A o : Make("ScheduleSign", o) = ScheduleSignMake(o)
      /\ \A b : From("ScheduleSign", b) = ScheduleSignFrom(b)
  BY DEF New, Make, From
<1>2. /\ Setters("ScheduleSign") = ScheduleSignSetters
      /\ Checked("ScheduleSign") = {"scheduleId"}
      /\ Call("ScheduleSign") = ScheduleSignCall
  BY DEF Setters, Checked, Call, ScheduleSignChecked
<1>3. Fields("ScheduleSign") =
        {"scheduleId"}
  BY <1>1 DEF Fields, ScheduleSignNew, Constructed
<1>4. /\ Names("ScheduleSign") = {"scheduleId"}
      /\ Rewritten("ScheduleSign") = {}
      /\ Of(Loose, "ScheduleSign") = {}
      /\ Of(Lossy, "ScheduleSign") = {}
      /\ Of(Ordered, "ScheduleSign") = {}
      /\ Of(Entangled, "ScheduleSign") = {}
  BY <1>2 DEF Names, Rewritten, Of, Loose, Lossy, Ordered, Entangled,
      ScheduleSignSetters, Guarded
<1>5. Constructs("ScheduleSign")
  BY <1>1, PlainConstructor, Zenon DEF ScheduleSignNew
<1>6. SetsFields("ScheduleSign")
  BY <1>1, <1>2, <1>3, <1>4, NullAssumption DEF SetsFields,
      ScheduleSignSetters, Guarded, NoEffect, ScheduleSignNew, Constructed,
      NoProps
<1>7. MakesFields("ScheduleSign")
  BY <1>1, <1>3, <1>4 DEF MakesFields, ScheduleSignMake
<1>8. ASSUME NEW o, WellFormed("ScheduleSign", o),
             NEW b, b = ScheduleSignMake(o),
             NEW n, n = ScheduleSignNew(ScheduleSignFrom(b)),
             NEW w \in Kept("ScheduleSign", b)
      PROVE  ScheduleSignMake(n)[w] = b[w] \/ b[w] = Beyond
  BY <1>4, <1>8, NullAssumption DEF Kept, ScheduleSignMake, ScheduleSignFrom,
      ScheduleSignNew, Constructed, Id, Scalar, Seconds, Foreign, Beyond,
      Wrapped
<1>9. RoundTrips("ScheduleSign")
  <2>1. \A b : DOMAIN From("ScheduleSign", b) \subseteq Names("ScheduleSign")
    BY <1>1, <1>4 DEF ScheduleSignFrom
  <2> QED
    BY <1>1, <1>8, <2>1 DEF RoundTrips, Decodes
<1>10. ChecksIds("ScheduleSign")
  BY <1>2, <1>4 DEF ChecksIds, OtherIds, Of, Unchecked, ScheduleSignCall
<1>11. ClassOf[Call("ScheduleSign").case] = "ScheduleSign"
  BY <1>2 DEF ScheduleSignCall, ClassOf
<1> QED
  BY <1>5, <1>6, <1>7, <1>9, <1>10, <1>11 DEF Faithful

(* FreezeTransaction. *)
LEMMA FreezeFaithful == Faithful("Freeze")
<1>1. /\ \A p : New("Freeze", p) = FreezeNew(p)
      /\ \A o : Make("Freeze", o) = FreezeMake(o)
      /\ \A b : From("Freeze", b) = FreezeFrom(b)
  BY DEF New, Make, From
<1>2. /\ Setters("Freeze") = FreezeSetters
      /\ Checked("Freeze") = {}
      /\ Call("Freeze") = FreezeCall
  BY DEF Setters, Checked, Call
<1>3. Fields("Freeze") =
        {"startTime", "startTimestamp", "endTime", "fileId", "fileHash",
         "freezeType"}
  BY <1>1 DEF Fields, FreezeNew, Constructed
<1>4. /\ Names("Freeze") = {"startTime", "startTimestamp", "endTime",
                            "fileId", "fileHash", "freezeType"}
      /\ Rewritten("Freeze") = {}
      /\ Of(Loose, "Freeze") = {}
      /\ Of(Lossy, "Freeze") = {}
      /\ Of(Ordered, "Freeze") = {}
      /\ Of(Entangled, "Freeze") = {}
  BY <1>2 DEF Names, Rewritten, Of, Loose, Lossy, Ordered, Entangled,
      FreezeSetters, Guarded
<1>5. Constructs("Freeze")
  BY <1>1, PlainConstructor, Zenon DEF FreezeNew
<1>6. SetsFields("Freeze")
  BY <1>1, <1>2, <1>3, <1>4, NullAssumption DEF SetsFields, FreezeSetters,
      Guarded, NoEffect, FreezeNew, Constructed, NoProps
<1>7. MakesFields("Freeze")
  BY <1>1, <1>3, <1>4 DEF MakesFields, FreezeMake
<1>8. ASSUME NEW o, WellFormed("Freeze", o),
             NEW b, b = FreezeMake(o),
             NEW n, n = FreezeNew(FreezeFrom(b)),
             NEW w \in Kept("Freeze", b)
      PROVE  FreezeMake(n)[w] = b[w] \/ b[w] = Beyond
  BY <1>4, <1>8, NullAssumption DEF Kept, FreezeMake, FreezeFrom, FreezeNew,
      Constructed, Id, Scalar, Seconds, Foreign, Beyond, Wrapped
<1>9. RoundTrips("Freeze")
  <2>1. \A b : DOMAIN From("Freeze", b) \subseteq Names("Freeze")
    BY <1>1, <1>4 DEF FreezeFrom
  <2> QED
    BY <1>1, <1>8, <2>1 DEF RoundTrips, Decodes
<1>10. ChecksIds("Freeze")
  BY <1>2 DEF ChecksIds, FreezeCall
<1>11. ClassOf[Call("Freeze").case] = "Freeze"
  BY <1>2 DEF FreezeCall, ClassOf
<1> QED
  BY <1>5, <1>6, <1>7, <1>9, <1>10, <1>11 DEF Faithful

(* SystemDeleteTransaction. *)
LEMMA SystemDeleteFaithful == Faithful("SystemDelete")
<1>1. /\ \A p : New("SystemDelete", p) = SystemDeleteNew(p)
      /\ \A o : Make("SystemDelete", o) = SystemDeleteMake(o)
      /\ \A b : From("SystemDelete", b) = SystemDeleteFrom(b)
  BY DEF New, Make, From
<1>2. /\ Setters("SystemDelete") = SystemDeleteSetters
      /\ Checked("SystemDelete") = {}
      /\ Call("SystemDelete") = SystemDeleteCall
  BY DEF Setters, Checked, Call
<1>3. Fields("SystemDelete") =
        {"fileId", "contractId", "expirationTime"}
  BY <1>1 DEF Fields, SystemDeleteNew, Constructed
<1>4. /\ Names("SystemDelete") = {"fileId", "contractId", "expirationTime"}
      /\ Rewritten("SystemDelete") = {}
      /\ Of(Loose, "SystemDelete") = {}
      /\ Of(Lossy, "SystemDelete") = {}
      /\ Of(Ordered, "SystemDelete") = {}
      /\ Of(Entangled, "SystemDelete") = {}
  BY <1>2 DEF Names, Rewritten, Of, Loose, Lossy, Ordered, Entangled,
      SystemDeleteSetters, Guarded
<1>5. Constructs("SystemDelete")
  BY <1>1, PlainConstructor, Zenon DEF SystemDeleteNew
<1>6. SetsFields("SystemDelete")
  BY <1>1, <1>2, <1>3, <1>4, NullAssumption DEF SetsFields,
      SystemDeleteSetters, Guarded, NoEffect, SystemDeleteNew, Constructed,
      NoProps
<1>7. MakesFields("SystemDelete")
  BY <1>1, <1>3, <1>4 DEF MakesFields, SystemDeleteMake
<1>8. ASSUME NEW o, WellFormed("SystemDelete", o),
             NEW b, b = SystemDeleteMake(o),
             NEW n, n = SystemDeleteNew(SystemDeleteFrom(b)),
             NEW w \in Kept("SystemDelete", b)
      PROVE  SystemDeleteMake(n)[w] = b[w] \/ b[w] = Beyond
  BY <1>4, <1>8, NullAssumption DEF Kept, SystemDeleteMake, SystemDeleteFrom,
      SystemDeleteNew, Constructed, Id, Scalar, Seconds, Foreign, Beyond,
      Wrapped
<1>9. RoundTrips("SystemDelete")
  <2>1. \A b : DOMAIN From("SystemDelete", b) \subseteq Names("SystemDelete")
    BY <1>1, <1>4 DEF SystemDeleteFrom
  <2> QED
    BY <1>1, <1>8, <2>1 DEF RoundTrips, Decodes
<1>10. ChecksIds("SystemDelete")
  BY <1>2, <1>4 DEF ChecksIds, OtherIds, Of, Unchecked, SystemDeleteCall
<1>11. ClassOf[Call("SystemDelete").case] = "SystemDelete"
  BY <1>2 DEF SystemDeleteCall, ClassOf
<1> QED
  BY <1>5, <1>6, <1>7, <1>9, <1>10, <1>11 DEF Faithful

(* SystemUndeleteTransaction. *)
LEMMA SystemUndeleteFaithful == Faithful("SystemUndelete")
<1>1. /\ \A p : New("SystemUndelete", p) = SystemUndeleteNew(p)
      /\ \A o : Make("SystemUndelete", o) = SystemUndeleteMake(o)
      /\ \A b : From("SystemUndelete", b) = SystemUndeleteFrom(b)
  BY DEF New, Make, From
<1>2. /\ Setters("SystemUndelete") = SystemUndeleteSetters
      /\ Checked("SystemUndelete") = {}
      /\ Call("SystemUndelete") = SystemUndeleteCall
  BY DEF Setters, Checked, Call
<1>3. Fields("SystemUndelete") =
        {"fileId", "contractId"}
  BY <1>1 DEF Fields, SystemUndeleteNew, Constructed
<1>4. /\ Names("SystemUndelete") = {"fileId", "contractId"}
      /\ Rewritten("SystemUndelete") = {}
      /\ Of(Loose, "SystemUndelete") = {}
      /\ Of(Lossy, "SystemUndelete") = {}
      /\ Of(Ordered, "SystemUndelete") = {}
      /\ Of(Entangled, "SystemUndelete") = {}
  BY <1>2 DEF Names, Rewritten, Of, Loose, Lossy, Ordered, Entangled,
      SystemUndeleteSetters, Guarded
<1>5. Constructs("SystemUndelete")
  BY <1>1, PlainConstructor, Zenon DEF SystemUndeleteNew
<1>6. SetsFields("SystemUndelete")
  BY <1>1, <1>2, <1>3, <1>4, NullAssumption DEF SetsFields,
      SystemUndeleteSetters, Guarded, NoEffect, SystemUndeleteNew,
      Constructed, NoProps
<1>7. MakesFields("SystemUndelete")
  BY <1>1, <1>3, <1>4 DEF MakesFields, SystemUndeleteMake
<1>8. ASSUME NEW o, WellFormed("SystemUndelete", o),
             NEW b, b = SystemUndeleteMake(o),
             NEW n, n = SystemUndeleteNew(SystemUndeleteFrom(b)),
             NEW w \in Kept("SystemUndelete", b)
      PROVE  SystemUndeleteMake(n)[w] = b[w] \/ b[w] = Beyond
  BY <1>4, <1>8, NullAssumption DEF Kept, SystemUndeleteMake,
      SystemUndeleteFrom, SystemUndeleteNew, Constructed, Id, Scalar, Seconds,
      Foreign, Beyond, Wrapped
<1>9. RoundTrips("SystemUndelete")
  <2>1. \A b : DOMAIN From("SystemUndelete", b) \subseteq Names("SystemUndelete")
    BY <1>1, <1>4 DEF SystemUndeleteFrom
  <2> QED
    BY <1>1, <1>8, <2>1 DEF RoundTrips, Decodes
<1>10. ChecksIds("SystemUndelete")
  BY <1>2, <1>4 DEF ChecksIds, OtherIds, Of, Unchecked, SystemUndeleteCall
<1>11. ClassOf[Call("SystemUndelete").case] = "SystemUndelete"
  BY <1>2 DEF SystemUndeleteCall, ClassOf
<1> QED
  BY <1>5, <1>6, <1>7, <1>9, <1>10, <1>11 DEF Faithful
-----------------------------------------------------------------------------
(* Every class *)

(* The facts hold of every class of the registry.                           *)
LEMMA RegistryFaithful == \A c \in TransactionRegistry : Faithful(c)
  BY AccountCreateFaithful, AccountUpdateFaithful, AccountDeleteFaithful,
     LiveHashAddFaithful, LiveHashDeleteFaithful, TokenCreateFaithful,
     TokenUpdateFaithful, TokenDeleteFaithful,
     TokenFeeScheduleUpdateFaithful, TokenMintFaithful, TokenBurnFaithful,
     TokenWipeFaithful, TokenAssociateFaithful, TokenDissociateFaithful,
     TokenFreezeFaithful, TokenUnfreezeFaithful, TokenGrantKycFaithful,
     TokenRevokeKycFaithful, TokenPauseFaithful, TokenUnpauseFaithful,
     ContractCreateFaithful, ContractUpdateFaithful, ContractDeleteFaithful,
     ContractExecuteFaithful, EthereumFaithful, PrngFaithful,
     FileCreateFaithful, FileUpdateFaithful, FileDeleteFaithful,
     TopicCreateFaithful, TopicUpdateFaithful, TopicDeleteFaithful,
     ScheduleCreateFaithful, ScheduleDeleteFaithful, ScheduleSignFaithful,
     FreezeFaithful, SystemDeleteFaithful, SystemUndeleteFaithful
    DEF TransactionRegistry

(* The case of a body tells its class.                                      *)
LEMMA OneClassPerCase ==
    \A c, d \in Classes : Call(c).case = Call(d).case => c = d
  BY RegistryFaithful, ClassesAssumption DEF Faithful

(* What the application gives, it gives; text drops the checksum of an      *)
(* account or contract, and only an ID has one.                             *)
LEMMA GivenValues ==
    ASSUME NEW f, NEW v \in Values(f)
    PROVE  /\ Parsed(f, v) # Null
           /\ f = "autoRenewPeriod" => Parsed(f, v) # Default
           /\ v = Foreign => f \in AccountIds \cup ContractIds \cup OtherIds
           /\ v = Foreign /\ f \notin AccountIds \cup ContractIds =>
                Parsed(f, v) = Foreign
<1>1. v \in {0, 1, Foreign, Alias, Beyond}
  BY DEF Values, Times
<1>2. Parsed(f, v) \in {0, 1, Foreign, Alias, Beyond}
  BY <1>1 DEF Parsed, AccountIdFromString, ContractIdFromString
<1>3. v = Foreign => f \in AccountIds \cup ContractIds \cup OtherIds
  BY DEF Values, Times, Foreign, Beyond
<1> QED
  BY <1>2, <1>3, NullAssumption
    DEF Parsed, Foreign, Alias, Beyond, Default

(* Nothing, and the values that a clear method writes, are kept as given.    *)
LEMMA ClearedValues ==
    ASSUME NEW f, NEW v \in {Null, 0, -1}
    PROVE  Parsed(f, v) = v /\ v # Foreign
  BY NullAssumption DEF Parsed, AccountIdFromString, ContractIdFromString, Foreign

(* freezeWith() leaves all fields but the renewal account of a new token.    *)
LEMMA FreezeKeeps ==
    ASSUME NEW c \in TransactionRegistry, NEW o, WellFormed(c, o), NEW mode
    PROVE  LET a == AfterFreeze(c, o, mode) IN
           /\ WellFormed(c, a)
           /\ \A f \in Fields(c) : a[f] = o[f] \/ f = "autoRenewAccountId"
           /\ \A f \in Fields(c) \ Of(Entangled, c) : a[f] = o[f]
           /\ \A f \in Fields(c) \ Rewritten(c) : a[f] = o[f]
<1> DEFINE a == AfterFreeze(c, o, mode)
<1>1. CASE c = "TokenCreate"
  <2>1. a = o \/ a = [o EXCEPT !.autoRenewAccountId = Operator]
    BY <1>1 DEF AfterFreeze, TokenCreateFreeze
  <2>2. /\ DOMAIN a = DOMAIN o
        /\ \A f \in DOMAIN o : a[f] = o[f] \/ (f = "autoRenewAccountId" /\ a[f] # Null)
    BY <2>1, NullAssumption DEF Operator
  <2>3. /\ "autoRenewAccountId" \in Of(Entangled, c) \cap Rewritten(c) \cap Names(c)
        /\ {"autoRenewPeriod", "expirationTime"} \subseteq Fields(c)
    <3>1. "autoRenewAccountId" \in Of(Entangled, c) \cap Rewritten(c)
      BY <1>1 DEF Of, Entangled, Rewritten
    <3>2. Setters(c) = TokenCreateSetters
      BY <1>1 DEF Setters
    <3>3. {"autoRenewAccountId", "autoRenewPeriod", "expirationTime"} \subseteq Names(c)
      BY <3>2 DEF Names, TokenCreateSetters
    <3>4. Names(c) \subseteq Fields(c)
      BY RegistryFaithful DEF Faithful, SetsFields
    <3> QED
      BY <3>1, <3>3, <3>4
  <2> HIDE DEF a
  <2>4. WellFormed(c, a)
    BY <2>2, <2>3 DEF WellFormed
  <2>5. DOMAIN o = Fields(c)
    BY DEF WellFormed
  <2> QED
    BY <2>2, <2>3, <2>4, <2>5 DEF a
<1>2. CASE c # "TokenCreate"
  BY <1>2 DEF AfterFreeze
<1> QED
  BY <1>1, <1>2

(* A field that may be written after the freeze touches Loose only.          *)
LEMMA SameBody ==
    ASSUME NEW c \in TransactionRegistry, NEW o1, NEW o2,
           \A f \in Fields(c) \ Rewritten(c) : o1[f] = o2[f]
    PROVE  /\ DOMAIN Make(c, o1) = DOMAIN Make(c, o2)
           /\ \A w \in DOMAIN Make(c, o1) \ Of(Loose, c) :
                Make(c, o1)[w] = Make(c, o2)[w]
  BY RegistryFaithful DEF Faithful, MakesFields

-----------------------------------------------------------------------------
(* The invariant *)

(* The values of the variables that the argument needs.                      *)
EntityTypeOK ==
    /\ cls \in Classes
    /\ WellFormed(cls, obj)
    /\ DOMAIN given = Fields(cls)
    /\ stage \in {"building", "frozen"}
    /\ demand \in BOOLEAN /\ decoded \in BOOLEAN
    /\ outcome \in {"none", "sent", "checked", "rejected"}
    /\ stage = "building" => ~decoded /\ outcome = "none"

(* A field outside Entangled holds what was given last, or its first value.  *)
FieldsAsGiven ==
    ~decoded =>
      \A f \in Fields(cls) \ Of(Entangled, cls) :
        obj[f] = IF Parsed(f, given[f]) # Null THEN Parsed(f, given[f])
                 ELSE New(cls, NoProps)[f]

(* The body that the fields stand for is the one of the freeze, but for what *)
(* may be written later and what decoding loses.                             *)
FieldsAsFrozen ==
    stage = "frozen" =>
      /\ origin.cls = cls
      /\ DOMAIN origin.body = DOMAIN Make(cls, obj)
      /\ \A w \in DOMAIN origin.body :
           \/ Make(cls, obj)[w] = origin.body[w]
           \/ w \in Of(Loose, cls)
           \/ decoded /\ (w \in Of(Lossy, cls) \/ origin.body[w] = Beyond)

(* The body that is signed, where one is, is the one of the freeze, and can  *)
(* be decoded.                                                               *)
SignedAsFrozen ==
    stage = "frozen" /\ (decoded \/ ~demand) =>
      /\ DOMAIN signed = DOMAIN origin.body
      /\ \A w \in DOMAIN origin.body :
           signed[w] = origin.body[w] \/ (decoded /\ w \in Of(Loose, cls))
      /\ Decodes(cls, signed)

(* The checksum of another ledger is given to setters of IDs only, and kept  *)
(* in the field if the class of the ID keeps it.                             *)
ForeignIdsKept ==
    \A f \in DOMAIN given :
      given[f] = Foreign =>
        /\ f \in Names(cls)
        /\ f \in AccountIds \cup ContractIds \cup OtherIds
        /\ f \notin AccountIds \cup ContractIds => obj[f] \in {Foreign, Null}

(* What was sent after the check has passed it.                              *)
CheckedIsValid ==
    outcome = "checked" => Valid(cls, obj) /\ Call(cls).rpc # "unimplemented"

EntityInv ==
    /\ EntityTypeOK /\ FieldsAsGiven /\ FieldsAsFrozen /\ SignedAsFrozen
    /\ ForeignIdsKept /\ CheckedIsValid /\ RefusedForCause /\ SentAsFrozen

-----------------------------------------------------------------------------
(* The steps *)

LEMMA InitEstablishes == EntityInit => EntityInv
<1> SUFFICES ASSUME EntityInit PROVE EntityInv
  OBVIOUS
<1>1. cls \in TransactionRegistry /\ Faithful(cls)
  BY RegistryFaithful, ClassesAssumption DEF EntityInit
<1>2. WellFormed(cls, obj)
  <2>1. DOMAIN NoProps = {}
    BY DEF NoProps
  <2> QED
    BY <1>1, <2>1 DEF EntityInit, Faithful, Constructs
<1>3. DOMAIN given = Fields(cls) /\ \A f \in Fields(cls) : given[f] = Null
  BY DEF EntityInit, Nothing, Fields
<1>4. EntityTypeOK
  BY <1>2, <1>3 DEF EntityInit, EntityTypeOK
<1>5. FieldsAsGiven
  BY <1>3, ClearedValues DEF EntityInit, FieldsAsGiven
<1>6. ForeignIdsKept
  BY <1>3, NullAssumption DEF ForeignIdsKept, Foreign
<1> QED
  BY <1>4, <1>5, <1>6 DEF EntityInit, EntityInv, FieldsAsFrozen, SignedAsFrozen,
    CheckedIsValid, RefusedForCause, SentAsFrozen

(* A setter, guarded or not.                                                 *)
LEMMA SetKeeps ==
    ASSUME EntityInv, NEW f \in Names(cls), NEW v \in Values(f), Set(f, v)
    PROVE  EntityInv'
<1> DEFINE s == Setters(cls)
           dropped == IF f \in DOMAIN s.nulls THEN {s.nulls[f]} ELSE {}
<1>1. /\ cls \in TransactionRegistry /\ Faithful(cls)
      /\ SetsFields(cls)
      /\ EntityTypeOK
  BY RegistryFaithful, ClassesAssumption DEF EntityInv, EntityTypeOK, Faithful
<1>2. /\ outcome = "none" /\ (f \in s.guarded => stage = "building")
      /\ obj' = [g \in DOMAIN obj |-> IF g = f THEN Parsed(f, v)
                                      ELSE IF g \in dropped THEN Null
                                      ELSE obj[g]]
      /\ given' = [given EXCEPT ![f] = v]
      /\ UNCHANGED <<cls, stage, demand, signed, origin, decoded, outcome, sent>>
  BY DEF Set
<1>3. /\ f \in Fields(cls) /\ DOMAIN obj = Fields(cls)
      /\ DOMAIN given = Fields(cls) /\ DOMAIN given' = Fields(cls)
      /\ DOMAIN obj' = Fields(cls)
  BY <1>1, <1>2 DEF SetsFields, EntityTypeOK, WellFormed
<1>4. dropped \subseteq Of(Entangled, cls) \cap Names(cls)
  BY <1>1 DEF SetsFields
<1>5. stage = "frozen" => f \in s.open /\ dropped = {}
  BY <1>1, <1>2 DEF SetsFields, Names
<1>6. /\ cls # "TokenCreate" => \A g \in dropped : New(cls, NoProps)[g] = Null
      /\ cls = "TokenCreate" =>
           dropped = IF f = "expirationTime" THEN {"autoRenewPeriod"} ELSE {}
  <2>1. ASSUME cls # "TokenCreate", NEW g \in dropped
        PROVE  New(cls, NoProps)[g] = Null
    BY <1>1, <2>1 DEF SetsFields
  <2>2. ASSUME cls = "TokenCreate"
        PROVE  dropped = IF f = "expirationTime" THEN {"autoRenewPeriod"} ELSE {}
    BY <1>1, <2>2 DEF SetsFields
  <2> QED
    BY <2>1, <2>2
<1> HIDE DEF dropped
<1>7. WellFormed(cls, obj')
  <2>1. \A g \in Fields(cls) :
          New(cls, NoProps)[g] # Null =>
            obj'[g] # Null \/ (cls = "TokenCreate" /\ g = "autoRenewPeriod")
    BY <1>1, <1>2, <1>3, <1>6, GivenValues DEF EntityTypeOK, WellFormed
  <2>2. \A g \in Fields(cls) \ Names(cls) : obj'[g] = New(cls, NoProps)[g]
    BY <1>1, <1>2, <1>3, <1>4 DEF EntityTypeOK, WellFormed
  <2>3. cls = "TokenCreate" =>
          /\ obj'.autoRenewPeriod = Null => obj'.expirationTime # Null
          /\ obj'.expirationTime # Null => obj'.autoRenewPeriod # Default
    <3> SUFFICES ASSUME cls = "TokenCreate"
                 PROVE  /\ obj'.autoRenewPeriod = Null => obj'.expirationTime # Null
                        /\ obj'.expirationTime # Null => obj'.autoRenewPeriod # Default
      OBVIOUS
    <3>1. /\ "autoRenewPeriod" \in Fields(cls) /\ "expirationTime" \in Fields(cls)
      <4>1. /\ "expirationTime" \in DOMAIN s.nulls
            /\ s.nulls["expirationTime"] = "autoRenewPeriod"
        BY <1>1 DEF SetsFields
      <4>2. Setters(cls) = TokenCreateSetters
        BY DEF Setters
      <4>3. {"expirationTime", "autoRenewPeriod"} \subseteq Names(cls)
        BY <4>2 DEF Names, TokenCreateSetters
      <4> QED
        BY <1>1, <4>3 DEF SetsFields
    <3>2. /\ obj.autoRenewPeriod = Null => obj.expirationTime # Null
          /\ obj.expirationTime # Null => obj.autoRenewPeriod # Default
      BY <1>1 DEF EntityTypeOK, WellFormed
    <3>3. CASE f = "expirationTime"
      BY <1>2, <1>3, <1>6, <3>1, <3>3, GivenValues, NullAssumption DEF Default
    <3>4. CASE f = "autoRenewPeriod"
      BY <1>2, <1>3, <1>6, <3>1, <3>2, <3>4, GivenValues
    <3>5. CASE f \notin {"expirationTime", "autoRenewPeriod"}
      <4>1. obj'.autoRenewPeriod = obj.autoRenewPeriod /\ obj'.expirationTime = obj.expirationTime
        BY <1>2, <1>3, <1>6, <3>1, <3>5
      <4> QED
        BY <3>2, <4>1
    <3> QED
      BY <3>3, <3>4, <3>5
  <2> QED
    BY <1>3, <2>1, <2>2, <2>3 DEF WellFormed
<1>8. EntityTypeOK'
  BY <1>1, <1>2, <1>3, <1>7 DEF EntityTypeOK
<1>9. FieldsAsGiven'
  BY <1>2, <1>3, <1>4, GivenValues DEF EntityInv, FieldsAsGiven
<1>10. /\ FieldsAsFrozen'
       /\ SignedAsFrozen'
  <2>1. stage = "frozen" => \A g \in Fields(cls) \ Rewritten(cls) : obj'[g] = obj[g]
    BY <1>2, <1>3, <1>5 DEF Rewritten
  <2>2. FieldsAsFrozen'
    <3> SUFFICES ASSUME stage = "frozen" PROVE FieldsAsFrozen'
      BY <1>2 DEF FieldsAsFrozen
    <3>1. /\ DOMAIN Make(cls, obj') = DOMAIN Make(cls, obj)
          /\ \A w \in DOMAIN Make(cls, obj') \ Of(Loose, cls) :
               Make(cls, obj')[w] = Make(cls, obj)[w]
      BY <1>1, <2>1, SameBody
    <3> QED
      BY <1>2, <3>1 DEF EntityInv, FieldsAsFrozen
  <2> QED
    BY <1>2, <2>2 DEF EntityInv, SignedAsFrozen
<1>11. ForeignIdsKept'
  BY <1>2, <1>3, GivenValues DEF EntityInv, ForeignIdsKept
<1> QED
  BY <1>2, <1>8, <1>9, <1>10, <1>11 DEF EntityInv, CheckedIsValid,
    RefusedForCause, SentAsFrozen

(* A clear method.                                                           *)
LEMMA ClearKeeps ==
    ASSUME EntityInv, NEW f \in DOMAIN Setters(cls).clears, ClearField(f)
    PROVE  EntityInv'
<1> DEFINE s == Setters(cls)
<1>1. /\ cls \in TransactionRegistry /\ Faithful(cls)
      /\ SetsFields(cls)
      /\ EntityTypeOK
  BY RegistryFaithful, ClassesAssumption DEF EntityInv, EntityTypeOK, Faithful
<1>2. /\ outcome = "none" /\ (f \in s.openClears \/ stage = "building")
      /\ obj' = [obj EXCEPT ![f] = s.clears[f]]
      /\ given' = [given EXCEPT ![f] = s.clears[f]]
      /\ UNCHANGED <<cls, stage, demand, signed, origin, decoded, outcome, sent>>
  BY DEF ClearField
<1>3. /\ f \in Names(cls) /\ f \in Fields(cls) /\ cls # "TokenCreate"
      /\ s.clears[f] \in {Null, 0, -1} /\ New(cls, NoProps)[f] = Null
  BY <1>1 DEF SetsFields
<1>4. /\ DOMAIN obj = Fields(cls) /\ DOMAIN given = Fields(cls)
      /\ DOMAIN obj' = Fields(cls) /\ DOMAIN given' = Fields(cls)
      /\ \A g \in Fields(cls) : obj'[g] = IF g = f THEN s.clears[f] ELSE obj[g]
      /\ \A g \in Fields(cls) : given'[g] = IF g = f THEN s.clears[f] ELSE given[g]
  BY <1>1, <1>2 DEF EntityTypeOK, WellFormed
<1> HIDE DEF s
<1>5. EntityTypeOK'
  <2>1. WellFormed(cls, obj')
    BY <1>1, <1>3, <1>4 DEF EntityTypeOK, WellFormed
  <2> QED
    BY <1>1, <1>2, <1>4, <2>1 DEF EntityTypeOK
<1>6. FieldsAsGiven'
  BY <1>2, <1>3, <1>4, ClearedValues DEF EntityInv, FieldsAsGiven
<1>7. FieldsAsFrozen'
  <2> SUFFICES ASSUME stage = "frozen" PROVE FieldsAsFrozen'
    BY <1>2 DEF FieldsAsFrozen
  <2>1. \A g \in Fields(cls) \ Rewritten(cls) : obj'[g] = obj[g]
    BY <1>2, <1>4 DEF Rewritten, s
  <2>2. /\ DOMAIN Make(cls, obj') = DOMAIN Make(cls, obj)
        /\ \A w \in DOMAIN Make(cls, obj') \ Of(Loose, cls) :
             Make(cls, obj')[w] = Make(cls, obj)[w]
    BY <1>1, <2>1, SameBody
  <2> QED
    BY <1>2, <2>2 DEF EntityInv, FieldsAsFrozen
<1>8. ForeignIdsKept'
  BY <1>2, <1>3, <1>4, ClearedValues DEF EntityInv, ForeignIdsKept
<1> QED
  BY <1>2, <1>5, <1>6, <1>7, <1>8 DEF EntityInv, SignedAsFrozen, CheckedIsValid,
    RefusedForCause, SentAsFrozen

(* freezeWith(), the first one or again after fromBytes().                   *)
LEMMA FreezeWithKeeps ==
    ASSUME EntityInv, NEW mode, FreezeWith(mode)
    PROVE  EntityInv'
<1>1. /\ cls \in TransactionRegistry /\ Faithful(cls)
      /\ EntityTypeOK
  BY RegistryFaithful, ClassesAssumption DEF EntityInv, EntityTypeOK
<1>2. /\ outcome = "none" /\ (stage = "building" \/ decoded)
      /\ obj' = AfterFreeze(cls, obj, mode)
      /\ stage' = "frozen" /\ demand' = (mode = "demand")
      /\ signed' = IF mode = "demand" \/ decoded THEN signed ELSE Make(cls, obj')
      /\ origin' = IF stage = "frozen" THEN origin
                   ELSE [cls |-> cls, body |-> Make(cls, obj')]
      /\ UNCHANGED <<cls, given, decoded, outcome, sent>>
  BY DEF FreezeWith
<1>3. /\ WellFormed(cls, obj')
      /\ \A f \in Fields(cls) : obj'[f] = obj[f] \/ f = "autoRenewAccountId"
      /\ \A f \in Fields(cls) \ Of(Entangled, cls) : obj'[f] = obj[f]
      /\ \A f \in Fields(cls) \ Rewritten(cls) : obj'[f] = obj[f]
  BY <1>1, <1>2, FreezeKeeps DEF EntityTypeOK
<1>4. EntityTypeOK'
  BY <1>1, <1>2, <1>3 DEF EntityTypeOK
<1>5. FieldsAsGiven'
  BY <1>2, <1>3 DEF EntityInv, FieldsAsGiven
<1>6. ForeignIdsKept'
  BY <1>1, <1>2, <1>3 DEF EntityInv, EntityTypeOK, ForeignIdsKept, AccountIds
<1>7. CASE stage = "building"
  <2>1. ~decoded /\ origin'.cls = cls /\ origin'.body = Make(cls, obj')
    BY <1>1, <1>2, <1>7 DEF EntityTypeOK
  <2>2. FieldsAsFrozen'
    BY <1>2, <2>1 DEF FieldsAsFrozen
  <2>3. SignedAsFrozen'
    <3>1. Decodes(cls, Make(cls, obj'))
      BY <1>1, <1>3 DEF Faithful, RoundTrips
    <3> QED
      BY <1>2, <2>1, <3>1 DEF SignedAsFrozen
  <2> QED
    BY <1>2, <1>4, <1>5, <1>6, <2>2, <2>3 DEF EntityInv, CheckedIsValid,
      RefusedForCause, SentAsFrozen
<1>8. CASE stage = "frozen"
  <2>1. decoded /\ signed' = signed /\ origin' = origin
    BY <1>2, <1>8
  <2>2. /\ DOMAIN Make(cls, obj') = DOMAIN Make(cls, obj)
        /\ \A w \in DOMAIN Make(cls, obj') \ Of(Loose, cls) :
             Make(cls, obj')[w] = Make(cls, obj)[w]
    BY <1>1, <1>3, SameBody
  <2>3. FieldsAsFrozen'
    BY <1>2, <1>8, <2>1, <2>2 DEF EntityInv, FieldsAsFrozen
  <2>4. SignedAsFrozen'
    BY <1>2, <1>8, <2>1 DEF EntityInv, SignedAsFrozen
  <2> QED
    BY <1>2, <1>4, <1>5, <1>6, <2>3, <2>4 DEF EntityInv, CheckedIsValid,
      RefusedForCause, SentAsFrozen
<1> QED
  BY <1>1, <1>7, <1>8 DEF EntityTypeOK

(* The body of the bytes or of the next request, of a frozen transaction.    *)
LEMMA BodyAsFrozen ==
    ASSUME EntityInv, stage = "frozen"
    PROVE  /\ DOMAIN Body = DOMAIN origin.body
           /\ \A w \in DOMAIN origin.body :
                \/ Body[w] = origin.body[w]
                \/ (demand \/ decoded) /\ w \in Of(Loose, cls)
                \/ /\ demand /\ decoded
                   /\ w \in Of(Lossy, cls) \/ origin.body[w] = Beyond
           /\ ~decoded => Decodes(cls, Body)
<1>1. CASE demand
  <2>1. Decodes(cls, Make(cls, obj))
    BY RegistryFaithful, ClassesAssumption
      DEF EntityInv, EntityTypeOK, Faithful, RoundTrips
  <2> QED
    BY <1>1, <2>1 DEF EntityInv, FieldsAsFrozen, Body
<1>2. CASE ~demand
  BY <1>2 DEF EntityInv, SignedAsFrozen, Body
<1> QED
  BY <1>1, <1>2

(* fromBytes(toBytes()).                                                     *)
LEMMA FromBytesKeeps ==
    ASSUME EntityInv, FromBytes
    PROVE  EntityInv'
<1>1. /\ cls \in TransactionRegistry /\ cls \in Classes /\ Faithful(cls)
      /\ EntityTypeOK
  BY RegistryFaithful, ClassesAssumption DEF EntityInv, EntityTypeOK
<1>2. /\ outcome = "none" /\ stage = "frozen" /\ ~decoded
      /\ signed' = Body /\ decoded' = TRUE /\ demand' = FALSE
      /\ UNCHANGED <<stage, origin, outcome, sent>>
  BY DEF FromBytes
<1>3. cls' = cls /\ obj' = New(cls, From(cls, Body)) /\ given' = Nothing(cls)
  BY <1>1, OneClassPerCase DEF FromBytes
<1>4. WellFormed(cls, obj')
  BY <1>1, <1>3 DEF Faithful, Constructs, RoundTrips
<1>5. DOMAIN given' = Fields(cls) /\ \A f \in Fields(cls) : given'[f] = Null
  BY <1>3 DEF Nothing, Fields
<1>6. EntityTypeOK'
  BY <1>1, <1>2, <1>3, <1>4, <1>5 DEF EntityTypeOK
<1>7. FieldsAsFrozen'
  <2>1. DOMAIN Make(cls, obj') = DOMAIN Make(cls, obj)
    BY <1>1 DEF Faithful, MakesFields
  <2>2. \A w \in DOMAIN origin.body :
          Body[w] = origin.body[w] \/ w \in Of(Loose, cls)
    BY <1>2, BodyAsFrozen
  <2>3. \A w \in DOMAIN origin.body \ (Of(Loose, cls) \cup Of(Lossy, cls)) :
          Make(cls, obj')[w] = Body[w] \/ Body[w] = Beyond
    BY <1>2, <1>3, BodyAsFrozen DEF Decodes, Kept
  <2> QED
    BY <1>2, <1>3, <2>1, <2>2, <2>3 DEF EntityInv, FieldsAsFrozen
<1>8. SignedAsFrozen'
  BY <1>2, <1>3, BodyAsFrozen DEF SignedAsFrozen
<1>9. ForeignIdsKept'
  BY <1>5, NullAssumption DEF ForeignIdsKept, Foreign
<1> QED
  BY <1>2, <1>6, <1>7, <1>8, <1>9 DEF EntityInv, FieldsAsGiven, CheckedIsValid,
    RefusedForCause, SentAsFrozen

(* execute().                                                                *)
LEMMA ExecuteKeeps ==
    ASSUME EntityInv, NEW mode \in {"client", "demand"}, NEW check \in BOOLEAN,
           Execute(mode, check)
    PROVE  EntityInv'
<1> DEFINE fresh == stage = "building"
           ok == (check => Valid(cls, obj')) /\ Call(cls).rpc # "unimplemented"
           body == IF fresh THEN Make(cls, obj') ELSE Body
<1>1. /\ cls \in TransactionRegistry /\ Faithful(cls)
      /\ EntityTypeOK
  BY RegistryFaithful, ClassesAssumption DEF EntityInv, EntityTypeOK
<1>2. /\ outcome = "none"
      /\ obj' = IF fresh THEN AfterFreeze(cls, obj, mode) ELSE obj
      /\ stage' = "frozen"
      /\ demand' = IF fresh THEN mode = "demand" ELSE demand
      /\ signed' = IF demand' THEN signed ELSE body
      /\ origin' = IF fresh THEN [cls |-> cls, body |-> body] ELSE origin
      /\ outcome' = IF ~ok THEN "rejected" ELSE IF check THEN "checked" ELSE "sent"
      /\ sent' = IF ok THEN body ELSE Null
      /\ UNCHANGED <<cls, given, decoded>>
  BY DEF Execute
<1>3. /\ WellFormed(cls, obj')
      /\ \A f \in Fields(cls) : obj'[f] = obj[f] \/ f = "autoRenewAccountId"
      /\ \A f \in Fields(cls) \ Of(Entangled, cls) : obj'[f] = obj[f]
  BY <1>1, <1>2, FreezeKeeps DEF EntityTypeOK
<1>4. EntityTypeOK'
  BY <1>1, <1>2, <1>3 DEF EntityTypeOK
<1>5. FieldsAsGiven'
  BY <1>2, <1>3 DEF EntityInv, FieldsAsGiven
<1>6. ForeignIdsKept'
  BY <1>1, <1>2, <1>3 DEF EntityInv, EntityTypeOK, ForeignIdsKept, AccountIds
<1>7. CheckedIsValid'
  BY <1>2 DEF CheckedIsValid
<1>8. RefusedForCause'
  <2> SUFFICES ASSUME ~ok
               PROVE  (\E f \in DOMAIN obj' : BadId(obj'[f])) \/ cls \in {"Freeze", "Prng"}
    BY <1>2 DEF RefusedForCause
  <2>1. CASE Call(cls).rpc = "unimplemented"
    BY <1>1, <2>1 DEF Faithful, ChecksIds
  <2>2. CASE ~Valid(cls, obj')
    <3>1. Checked(cls) \subseteq DOMAIN obj'
      BY <1>1, <1>3 DEF Faithful, SetsFields, WellFormed
    <3> QED
      BY <2>2, <3>1 DEF Valid
  <2> QED
    BY <2>1, <2>2
<1>9. CASE fresh
  <2>1. ~decoded /\ origin'.cls = cls /\ origin'.body = Make(cls, obj') /\ body = Make(cls, obj')
    BY <1>1, <1>2, <1>9 DEF EntityTypeOK
  <2>2. Decodes(cls, Make(cls, obj'))
    BY <1>1, <1>3 DEF Faithful, RoundTrips
  <2>3. FieldsAsFrozen' /\ SignedAsFrozen'
    BY <1>2, <2>1, <2>2 DEF FieldsAsFrozen, SignedAsFrozen
  <2>4. SentAsFrozen'
    BY <1>2, <2>1 DEF SentAsFrozen
  <2> QED
    BY <1>4, <1>5, <1>6, <1>7, <1>8, <2>3, <2>4 DEF EntityInv
<1>10. CASE ~fresh
  <2>1. stage = "frozen" /\ obj' = obj /\ origin' = origin /\ body = Body /\ demand' = demand
    BY <1>1, <1>2, <1>10 DEF EntityTypeOK
  <2>2. signed' = signed
    BY <1>2, <2>1 DEF Body
  <2>3. FieldsAsFrozen' /\ SignedAsFrozen'
    BY <1>2, <2>1, <2>2 DEF EntityInv, FieldsAsFrozen, SignedAsFrozen
  <2>4. SentAsFrozen'
    <3>1. outcome' \in {"sent", "checked"} => sent' = Body
      BY <1>2, <2>1
    <3> QED
      BY <1>2, <2>1, <3>1, BodyAsFrozen DEF SentAsFrozen
  <2> QED
    BY <1>4, <1>5, <1>6, <1>7, <1>8, <2>3, <2>4 DEF EntityInv
<1> QED
  BY <1>9, <1>10

(* The invariant is inductive.                                               *)
LEMMA EntityInductive == EntitySpec => []EntityInv
<1>1. EntityInv /\ [EntityNext]_entityVars => EntityInv'
  <2> SUFFICES ASSUME EntityInv, [EntityNext]_entityVars
               PROVE  EntityInv'
    OBVIOUS
  <2>1. ASSUME NEW f \in Setters(cls).guarded \cup Setters(cls).open,
               NEW v \in Values(f), Set(f, v)
        PROVE  EntityInv'
    BY <2>1, SetKeeps DEF Names
  <2>2. ASSUME NEW f \in DOMAIN Setters(cls).clears, ClearField(f)
        PROVE  EntityInv'
    BY <2>2, ClearKeeps
  <2>3. ASSUME NEW mode \in {"offline", "client", "demand"}, FreezeWith(mode)
        PROVE  EntityInv'
    BY <2>3, FreezeWithKeeps
  <2>4. CASE FromBytes
    BY <2>4, FromBytesKeeps
  <2>5. ASSUME NEW mode \in {"client", "demand"}, NEW check \in BOOLEAN,
               Execute(mode, check)
        PROVE  EntityInv'
    BY <2>5, ExecuteKeeps
  <2>6. CASE UNCHANGED entityVars
    BY <2>6 DEF entityVars, EntityInv, EntityTypeOK, FieldsAsGiven, FieldsAsFrozen,
      SignedAsFrozen, ForeignIdsKept, CheckedIsValid, RefusedForCause, SentAsFrozen
  <2> QED
    BY <2>1, <2>2, <2>3, <2>4, <2>5, <2>6 DEF EntityNext
<1> QED
  BY <1>1, InitEstablishes, PTL DEF EntitySpec

-----------------------------------------------------------------------------
(* The theorems *)

(* Of every class and after any calls, the body is the one that the          *)
(* constructor gives for the same properties, and fromBytes(toBytes()) gives *)
(* an object of the same class that stands for the same body, but for the    *)
(* fields of Ordered, Lossy and Loose.                                       *)
THEOREM EntityBodyAsGiven == EntitySpec => []BodyAsGiven
<1>1. EntityInv => SettersAgreeWithConstructor
  <2> SUFFICES ASSUME EntityInv, ~decoded
               PROVE  LET o == New(cls, [f \in DOMAIN given |-> Parsed(f, given[f])])
                      IN  \A w \in DOMAIN Make(cls, obj) :
                            Make(cls, obj)[w] = Make(cls, o)[w] \/ w \in Of(Ordered, cls)
    BY DEF SettersAgreeWithConstructor
  <2> DEFINE p == [f \in DOMAIN given |-> Parsed(f, given[f])]
  <2>1. cls \in TransactionRegistry /\ Faithful(cls) /\ DOMAIN p = Fields(cls)
    BY RegistryFaithful, ClassesAssumption DEF EntityInv, EntityTypeOK
  <2>2. \A f \in Fields(cls) : p[f] = Parsed(f, given[f])
    BY <2>1
  <2> HIDE DEF p
  <2>3. \A f \in Fields(cls) \ Of(Entangled, cls) : New(cls, p)[f] = obj[f]
    BY <2>1, <2>2 DEF Faithful, Constructs, EntityInv, FieldsAsGiven
  <2>4. \A w \in DOMAIN Make(cls, obj) \ Of(Ordered, cls) :
          Make(cls, obj)[w] = Make(cls, New(cls, p))[w]
    BY <2>1, <2>3 DEF Faithful, MakesFields
  <2> QED
    BY <2>4 DEF p
<1>2. EntityInv => DecodedFaithfully
  BY DEF EntityInv, EntityTypeOK, FieldsAsFrozen, DecodedFaithfully
<1> QED
  BY <1>1, <1>2, EntityInductive, PTL DEF BodyAsGiven

(* A request carries the body of the freeze, but for what a client that      *)
(* signs on demand may rebuild.                                              *)
THEOREM EntitySentAsFrozen == EntitySpec => []SentAsFrozen
<1>1. EntityInv => SentAsFrozen
  BY DEF EntityInv
<1> QED
  BY <1>1, EntityInductive, PTL

(* With the automatic check on, no request leaves with an ID of another      *)
(* ledger outside Unchecked, accounts and contracts, and none is refused     *)
(* without one, but for the two classes that are always refused.             *)
THEOREM EntityIdsChecked == EntitySpec => []IdsChecked
<1>1. EntityInv => ForeignIdsRefused
  <2> SUFFICES ASSUME EntityInv, outcome = "checked", NEW f \in DOMAIN given,
                      given[f] = Foreign, obj[f] # Null,
                      f \notin AccountIds \cup ContractIds
               PROVE  f \in Of(Unchecked, cls)
    BY DEF ForeignIdsRefused
  <2>1. f \in Names(cls) \cap OtherIds /\ obj[f] = Foreign
    BY DEF EntityInv, ForeignIdsKept
  <2>2. f \in Checked(cls) \cup Of(Unchecked, cls)
    BY <2>1, RegistryFaithful, ClassesAssumption
      DEF EntityInv, EntityTypeOK, CheckedIsValid, Faithful, ChecksIds
  <2>3. f \notin Checked(cls)
    BY <2>1 DEF EntityInv, CheckedIsValid, Valid, BadId
  <2> QED
    BY <2>2, <2>3
<1>2. EntityInv => RefusedForCause
  BY DEF EntityInv
<1> QED
  BY <1>1, <1>2, EntityInductive, PTL DEF IdsChecked

-----------------------------------------------------------------------------
(* Allowances *)

(* The index that Joined() writes to is one of those it was given. *)
LEMMA MinIn ==
    ASSUME NEW S, S \subseteq Nat, S # {}
    PROVE  Min(S) \in S
<1>1. PICK x \in S : \A y \in S : ~ (<<y, x>> \in OpToRel(<, Nat))
  BY NatLessThanWellFounded, WFMin, Zenon
<1>2. ASSUME NEW y \in S, y < x
      PROVE  FALSE
  <2>1. <<y, x>> \in {ss \in Nat \X Nat : ss[1] < ss[2]}
    BY <1>2
  <2>2. <<y, x>> \in OpToRel(<, Nat)
    BY <2>1, Zenon DEF OpToRel
  <2> QED
    BY <1>1, <2>2
<1>3. \A y \in S : x <= y
  BY <1>2
<1> QED
  BY <1>3 DEF Min

LEMMA RangeAppend ==
    ASSUME NEW T, NEW s \in Seq(T), NEW x \in T
    PROVE  Range(Append(s, x)) = Range(s) \cup {x}
<1>1. /\ DOMAIN s = 1 .. Len(s) /\ DOMAIN Append(s, x) = 1 .. Len(s) + 1
      /\ \A i \in 1 .. Len(s) : Append(s, x)[i] = s[i]
      /\ Append(s, x)[Len(s) + 1] = x
      /\ Len(s) \in Nat
  OBVIOUS
<1>2. ASSUME NEW y \in Range(Append(s, x))
      PROVE  y \in Range(s) \cup {x}
  <2>1. PICK i \in 1 .. Len(s) + 1 : y = Append(s, x)[i]
    BY <1>1 DEF Range
  <2>2. i \in 1 .. Len(s) \/ i = Len(s) + 1
    BY <1>1
  <2> QED
    BY <1>1, <2>1, <2>2 DEF Range
<1>3. ASSUME NEW y \in Range(s) \cup {x}
      PROVE  y \in Range(Append(s, x))
  <2>1. CASE y \in Range(s)
    <3>1. PICK i \in 1 .. Len(s) : y = s[i]
      BY <1>1, <2>1 DEF Range
    <3> QED
      BY <1>1, <3>1 DEF Range
  <2>2. CASE y = x
    BY <1>1, <2>2 DEF Range
  <2> QED
    BY <2>1, <2>2
<1> QED
  BY <1>2, <1>3

(* The types of the three lists. *)
Optional == Int \cup {Null}
NftGrant == [token : Int, owner : Optional, spender : Optional,
             serials : Seq(Int) \cup {Null}, all : BOOLEAN,
             delegating : Optional]
U2UGrant == [owner : Optional, spender : Int, amount : Optional]
TokenGrant == [token : Int, owner : Optional, spender : Int, amount : Optional]

(* The allowance g of a transaction of kind k was made by the call d: one for all serials by such a     *)
(* call, any other with the owner, spender and delegate of its call.        *)
MadeBy(k, g, d) ==
    /\ d.token = g.token
    /\ k = "approve" => d.spender = g.spender
    /\ g.serials = Null => d.op = "all"
    /\ g.serials # Null =>
         /\ d.op = "serial" /\ g.owner = d.owner
         /\ g.spender = IF k = "delete" THEN Null ELSE d.spender
         /\ g.delegating = IF k = "delete" THEN Null ELSE d.delegating

(* The allowance g is the one that the call c for a serial went to.         *)
Covers(k, g, c) ==
    /\ c.op = "serial" /\ c.token = g.token
    /\ k = "approve" => c.spender = g.spender
    /\ g.serials # Null => c.serial \in Range(g.serials)

Traced(k, g, calls) ==
    /\ \E d \in calls : MadeBy(k, g, d)
    /\ g.serials # Null =>
         \A s \in Range(g.serials) :
           \E c \in calls : Covers(k, g, c) /\ c.serial = s

(* A list of allowances agrees with the calls: every allowance comes from    *)
(* calls, serial by serial, and every call went to an allowance.            *)
Agrees(k, list, calls) ==
    /\ \A i \in DOMAIN list : Traced(k, list[i], calls)
    /\ \A c \in calls :
         c.op = "serial" => \E i \in DOMAIN list : Covers(k, list[i], c)

SerialCall == {c \in GrantCalls : c.op = "serial"}

LEMMA SerialCallTyped ==
    ASSUME NEW c \in SerialCall
    PROVE  /\ c.token \in Int /\ c.serial \in Int /\ c.spender \in Int
           /\ c.owner \in Optional /\ c.delegating \in Optional
           /\ c.op = "serial"
  BY GrantCallsAssumption DEF SerialCall, GrantCall, Optional

(* One more call leaves what agreed. *)
LEMMA MoreCalls ==
    ASSUME NEW k, NEW g, NEW calls, NEW c, Traced(k, g, calls)
    PROVE  Traced(k, g, calls \cup {c})
  BY DEF Traced

(* A call whose serial joins an allowance for its token and spender. *)
LEMMA JoinedAgrees ==
    ASSUME NEW k, NEW list \in Seq(NftGrant), NEW calls, NEW c \in SerialCall,
           NEW at \in SUBSET (DOMAIN list), at # {},
           \A i \in at : /\ list[i].token = c.token
                         /\ k = "approve" => list[i].spender = c.spender,
           Agrees(k, list, calls)
    PROVE  /\ Joined(list, at, c) \in Seq(NftGrant)
           /\ Agrees(k, Joined(list, at, c), calls \cup {c})
<1> DEFINE j == Min(at)
           g == list[j]
           h == [g EXCEPT !.serials = IF @ = Null THEN Null
                                      ELSE Append(@, c.serial)]
           more == calls \cup {c}
<1>1. j \in at /\ j \in DOMAIN list
  <2>1. DOMAIN list \subseteq Nat
    OBVIOUS
  <2> QED
    BY <2>1, MinIn
<1>2. g \in NftGrant /\ g.token = c.token
      /\ (k = "approve" => g.spender = c.spender)
  BY <1>1
<1>3. /\ Joined(list, at, c) = [list EXCEPT ![j] = h]
      /\ Joined(list, at, c) \in Seq(NftGrant)
  <2>1. Joined(list, at, c) = [list EXCEPT ![j] = h]
    BY <1>1 DEF Joined
  <2>2. h \in NftGrant
    <3>1. g.serials # Null => Append(g.serials, c.serial) \in Seq(Int)
      BY <1>2, SerialCallTyped DEF NftGrant
    <3>2. h = [g EXCEPT !.serials = h.serials]
          /\ h.serials \in Seq(Int) \cup {Null}
      BY <1>2, <3>1 DEF NftGrant
    <3> QED
      BY <1>2, <3>2 DEF NftGrant
  <2> QED
    BY <1>1, <2>1, <2>2
<1>4. /\ h.token = g.token /\ h.owner = g.owner /\ h.spender = g.spender
      /\ h.delegating = g.delegating
      /\ h.serials = Null <=> g.serials = Null
      /\ g.serials # Null => Range(h.serials) = Range(g.serials) \cup {c.serial}
  <2>0. \A s \in Seq(Int), x \in Int : Range(Append(s, x)) = Range(s) \cup {x}
    BY RangeAppend
  <2>1. /\ h.token = g.token /\ h.owner = g.owner /\ h.spender = g.spender
        /\ h.delegating = g.delegating
        /\ h.serials = IF g.serials = Null THEN Null
                       ELSE Append(g.serials, c.serial)
    BY <1>2 DEF NftGrant
  <2>2. CASE g.serials = Null
    BY <2>1, <2>2
  <2>3. CASE g.serials # Null
    <3>1. g.serials \in Seq(Int) /\ c.serial \in Int
      BY <1>2, <2>3, SerialCallTyped DEF NftGrant
    <3>2. Append(g.serials, c.serial) \in Seq(Int)
      BY <3>1
    <3>3. Append(g.serials, c.serial) # Null
      BY <3>2, GrantNullAssumption
    <3>4. Range(Append(g.serials, c.serial)) = Range(g.serials) \cup {c.serial}
      BY <3>1, <2>0
    <3> QED
      BY <2>1, <2>3, <3>3, <3>4
  <2> QED
    BY <2>2, <2>3
<1> HIDE DEF j, g, h
<1>5. \A d : Covers(k, g, d) => Covers(k, h, d)
  BY <1>4 DEF Covers
<1>6. Covers(k, h, c)
  BY <1>2, <1>4, SerialCallTyped DEF Covers
<1>7. Traced(k, g, calls)
  BY <1>1 DEF Agrees, g
<1>8. Traced(k, h, more)
  <2>1. \E d \in more : MadeBy(k, h, d)
    BY <1>4, <1>7 DEF Traced, MadeBy
  <2>2. ASSUME h.serials # Null, NEW s \in Range(h.serials)
        PROVE  \E d \in more : Covers(k, h, d) /\ d.serial = s
    BY <1>4, <1>5, <1>6, <1>7, <2>2 DEF Traced
  <2> QED
    BY <2>1, <2>2 DEF Traced
<1>9. ASSUME NEW i \in DOMAIN list
      PROVE  Traced(k, [list EXCEPT ![j] = h][i], more)
  <2>1. CASE i = j
    BY <1>1, <1>8, <2>1
  <2>2. CASE i # j
    <3>1. Traced(k, list[i], calls)
      BY <1>9 DEF Agrees
    <3> QED
      BY <2>2, <3>1, MoreCalls
  <2> QED
    BY <2>1, <2>2
<1>10. ASSUME NEW d \in more, d.op = "serial"
       PROVE  \E i \in DOMAIN list : Covers(k, [list EXCEPT ![j] = h][i], d)
  <2>1. CASE d = c
    BY <1>1, <1>6, <2>1
  <2>2. CASE d \in calls
    <3>1. PICK i \in DOMAIN list : Covers(k, list[i], d)
      BY <1>10, <2>2 DEF Agrees
    <3>2. CASE i = j
      BY <1>1, <1>5, <3>1, <3>2 DEF g
    <3>3. CASE i # j
      BY <3>1, <3>3
    <3> QED
      BY <3>2, <3>3
  <2> QED
    BY <2>1, <2>2
<1> QED
  BY <1>3, <1>9, <1>10 DEF Agrees

(* A call that makes an allowance of its own. *)
LEMMA AppendedAgrees ==
    ASSUME NEW k, NEW list \in Seq(NftGrant), NEW calls, NEW c, NEW g \in NftGrant,
           Agrees(k, list, calls), Traced(k, g, calls \cup {c}),
           c.op = "serial" => Covers(k, g, c)
    PROVE  /\ Append(list, g) \in Seq(NftGrant)
           /\ Agrees(k, Append(list, g), calls \cup {c})
<1> DEFINE new == Append(list, g)
<1>1. /\ DOMAIN list = 1 .. Len(list) /\ DOMAIN new = 1 .. Len(list) + 1
      /\ \A i \in DOMAIN list : i \in DOMAIN new /\ new[i] = list[i]
      /\ new[Len(list) + 1] = g /\ Len(list) + 1 \in DOMAIN new
      /\ \A i \in DOMAIN new : i \in DOMAIN list \/ i = Len(list) + 1
      /\ new \in Seq(NftGrant)
  OBVIOUS
<1> HIDE DEF new
<1>2. ASSUME NEW i \in DOMAIN new
      PROVE  Traced(k, new[i], calls \cup {c})
  BY <1>1, MoreCalls DEF Agrees
<1>3. ASSUME NEW d \in calls \cup {c}, d.op = "serial"
      PROVE  \E i \in DOMAIN new : Covers(k, new[i], d)
  BY <1>1, <1>3 DEF Agrees
<1>4. Agrees(k, new, calls \cup {c})
  BY <1>2, <1>3 DEF Agrees
<1> QED
  BY <1>1, <1>4 DEF new

(* A call of another kind. *)
LEMMA OtherAgrees ==
    ASSUME NEW k, NEW list, NEW calls, NEW c, Agrees(k, list, calls), c.op # "serial"
    PROVE  Agrees(k, list, calls \cup {c})
  BY MoreCalls DEF Agrees

(* The calls that change the list of NFT allowances. *)
LEMMA ApproveSerialAgrees ==
    ASSUME NEW k, NEW list \in Seq(NftGrant), NEW calls, NEW c \in SerialCall,
           k = "approve", Agrees(k, list, calls)
    PROVE  /\ ApproveTokenNftAllowance(list, c) \in Seq(NftGrant)
           /\ Agrees(k, ApproveTokenNftAllowance(list, c), calls \cup {c})
<1> DEFINE at == {i \in DOMAIN list : /\ list[i].token = c.token
                                      /\ list[i].spender # Null
                                      /\ list[i].spender = c.spender}
           g == [token |-> c.token, owner |-> c.owner, spender |-> c.spender,
                 serials |-> <<c.serial>>, all |-> FALSE,
                 delegating |-> c.delegating]
<1>1. CASE at # {}
  <2>1. ApproveTokenNftAllowance(list, c) = Joined(list, at, c)
    BY <1>1 DEF ApproveTokenNftAllowance
  <2>2. \A i \in at : /\ list[i].token = c.token
                      /\ k = "approve" => list[i].spender = c.spender
    OBVIOUS
  <2>3. at \in SUBSET (DOMAIN list)
    OBVIOUS
  <2> HIDE DEF at
  <2> QED
    BY <1>1, <2>1, <2>2, <2>3, JoinedAgrees
<1>2. CASE at = {}
  <2>1. ApproveTokenNftAllowance(list, c) = Append(list, g)
    BY <1>2 DEF ApproveTokenNftAllowance
  <2>2. g \in NftGrant
    BY SerialCallTyped DEF NftGrant, Optional
  <2>3. g.serials # Null /\ Range(g.serials) = {c.serial}
    <3>1. <<c.serial>> \in Seq(Int)
      BY SerialCallTyped
    <3>2. <<c.serial>> # Null
      BY <3>1, GrantNullAssumption
    <3> QED
      BY <3>2 DEF Range
  <2>4. Covers(k, g, c) /\ MadeBy(k, g, c)
    BY <2>3, SerialCallTyped DEF Covers, MadeBy
  <2>5. Traced(k, g, calls \cup {c})
    BY <2>3, <2>4 DEF Traced
  <2> HIDE DEF g
  <2> QED
    BY <2>1, <2>2, <2>4, <2>5, AppendedAgrees
<1> QED
  BY <1>1, <1>2

LEMMA ApproveAllAgrees ==
    ASSUME NEW k, NEW list \in Seq(NftGrant), NEW calls, NEW c \in GrantCalls,
           c.op = "all", k = "approve", Agrees(k, list, calls)
    PROVE  /\ ApproveAllTokenNftAllowance(list, c) \in Seq(NftGrant)
           /\ Agrees(k, ApproveAllTokenNftAllowance(list, c), calls \cup {c})
<1> DEFINE g == [token |-> c.token, owner |-> c.owner, spender |-> c.spender,
                 serials |-> Null, all |-> c.all, delegating |-> Null]
<1>1. ApproveAllTokenNftAllowance(list, c) = Append(list, g)
  BY DEF ApproveAllTokenNftAllowance
<1>2. /\ c.token \in Int /\ c.owner \in Optional /\ c.spender \in Int
      /\ c.all \in BOOLEAN
  BY GrantCallsAssumption DEF GrantCall, Optional
<1>3. g \in NftGrant
  BY <1>2 DEF NftGrant, Optional
<1>4. MadeBy(k, g, c) /\ g.serials = Null
  BY DEF MadeBy
<1>5. Traced(k, g, calls \cup {c})
  BY <1>4 DEF Traced
<1>6. c.op # "serial"
  OBVIOUS
<1> HIDE DEF g
<1>7. /\ Append(list, g) \in Seq(NftGrant)
      /\ Agrees(k, Append(list, g), calls \cup {c})
  BY <1>3, <1>5, <1>6, AppendedAgrees, Zenon
<1> QED
  BY <1>1, <1>7

LEMMA DeleteSerialAgrees ==
    ASSUME NEW k, NEW list \in Seq(NftGrant), NEW calls, NEW c \in SerialCall,
           k = "delete", Agrees(k, list, calls)
    PROVE  /\ DeleteAllTokenNftAllowances(list, c) \in Seq(NftGrant)
           /\ Agrees(k, DeleteAllTokenNftAllowances(list, c), calls \cup {c})
<1> DEFINE at == {i \in DOMAIN list : list[i].token = c.token}
           g == [token |-> c.token, owner |-> c.owner, spender |-> Null,
                 serials |-> <<c.serial>>, all |-> FALSE, delegating |-> Null]
<1>1. CASE at # {}
  <2>1. DeleteAllTokenNftAllowances(list, c) = Joined(list, at, c)
    BY <1>1 DEF DeleteAllTokenNftAllowances
  <2>2. \A i \in at : /\ list[i].token = c.token
                      /\ k = "approve" => list[i].spender = c.spender
    OBVIOUS
  <2>3. at \in SUBSET (DOMAIN list)
    OBVIOUS
  <2> HIDE DEF at, g
  <2>4. /\ Joined(list, at, c) \in Seq(NftGrant)
        /\ Agrees(k, Joined(list, at, c), calls \cup {c})
    BY <1>1, <2>2, <2>3, JoinedAgrees
  <2> QED
    BY <2>1, <2>4
<1>2. CASE at = {}
  <2>1. DeleteAllTokenNftAllowances(list, c) = Append(list, g)
    BY <1>2 DEF DeleteAllTokenNftAllowances
  <2>2. g \in NftGrant
    BY SerialCallTyped DEF NftGrant, Optional
  <2>3. g.serials # Null /\ Range(g.serials) = {c.serial}
    <3>1. <<c.serial>> \in Seq(Int)
      BY SerialCallTyped
    <3>2. <<c.serial>> # Null
      BY <3>1, GrantNullAssumption
    <3> QED
      BY <3>2 DEF Range
  <2>4. Covers(k, g, c) /\ MadeBy(k, g, c)
    BY <2>3, SerialCallTyped DEF Covers, MadeBy
  <2>5. Traced(k, g, calls \cup {c})
    BY <2>3, <2>4 DEF Traced
  <2> HIDE DEF g
  <2> QED
    BY <2>1, <2>2, <2>4, <2>5, AppendedAgrees
<1> QED
  BY <1>1, <1>2

-----------------------------------------------------------------------------
(* The inductive invariant of the allowances *)

(* Until the object is replaced by the one that the bytes give, its lists    *)
(* agree with the calls, and the body is that of the lists.                 *)
ListsAgree ==
    ~reparsed =>
      /\ u2uGrants \in Seq(U2UGrant) /\ tokenGrants \in Seq(TokenGrant)
      /\ nftGrants \in Seq(NftGrant)
      /\ Agrees(kind, nftGrants, Range(requested))
      /\ allowed # Null => allowed = AllowanceMake

AllowanceInv ==
    /\ kind \in {"approve", "delete"} /\ reparsed \in BOOLEAN
    /\ requested \in Seq(GrantCalls)
    /\ reparsed => allowed # Null
    /\ ListsAgree
    /\ AllowancesFaithful

LEMMA AllowanceInitInv == AllowanceInit => AllowanceInv
<1> SUFFICES ASSUME AllowanceInit PROVE AllowanceInv
  OBVIOUS
<1>1. Range(requested) = {} /\ nftGrants = <<>>
  BY DEF AllowanceInit, Range
<1>2. Agrees(kind, nftGrants, Range(requested))
  BY <1>1 DEF Agrees
<1>3. ListsAgree
  BY <1>2 DEF AllowanceInit, ListsAgree
<1>4. AllowancesFaithful
  BY DEF AllowanceInit, AllowancesFaithful, GrantsWhatWasAsked,
      AllowancesRoundTrip
<1>5. requested \in Seq(GrantCalls)
  BY DEF AllowanceInit
<1>6. kind \in {"approve", "delete"} /\ reparsed \in BOOLEAN /\ ~reparsed
  BY Zenon DEF AllowanceInit
<1> QED
  BY <1>3, <1>4, <1>5, <1>6, Zenon DEF AllowanceInv

LEMMA RequestKeeps ==
    ASSUME AllowanceInv, NEW c \in GrantCalls, Allow(c)
    PROVE  AllowanceInv'
<1>1. /\ allowed = Null /\ ~reparsed /\ requested' = Append(requested, c)
      /\ UNCHANGED <<kind, allowed, reparsed>>
  BY DEF Allow, AllowanceInv
<1>2. /\ u2uGrants \in Seq(U2UGrant) /\ tokenGrants \in Seq(TokenGrant)
      /\ nftGrants \in Seq(NftGrant)
      /\ Agrees(kind, nftGrants, Range(requested))
  BY <1>1 DEF AllowanceInv, ListsAgree
<1>3. Range(requested') = Range(requested) \cup {c}
  <2>1. requested \in Seq(GrantCalls)
    BY DEF AllowanceInv
  <2> QED
    BY <1>1, <2>1, RangeAppend
<1> DEFINE calls == Range(requested) \cup {c}
           Stays == /\ u2uGrants' \in Seq(U2UGrant)
                   /\ tokenGrants' \in Seq(TokenGrant)
                   /\ nftGrants' \in Seq(NftGrant)
                   /\ Agrees(kind, nftGrants', calls)
<1>4. ASSUME c.op = "u2u", u2uGrants' = ApproveU2UAllowance(u2uGrants, c),
             UNCHANGED <<tokenGrants, nftGrants>>
      PROVE  Stays
  <2>1. [owner |-> c.owner, spender |-> c.spender, amount |-> c.amount]
          \in U2UGrant
    BY <1>4, GrantCallsAssumption DEF GrantCall, U2UGrant, Optional
  <2>2. u2uGrants' \in Seq(U2UGrant)
    BY <1>2, <1>4, <2>1 DEF ApproveU2UAllowance
  <2>3. Agrees(kind, nftGrants, calls)
    BY <1>2, <1>4, OtherAgrees
  <2> QED
    BY <1>2, <1>4, <2>2, <2>3
<1>5. ASSUME c.op = "token", tokenGrants' = ApproveTokenAllowance(tokenGrants, c),
             UNCHANGED <<u2uGrants, nftGrants>>
      PROVE  Stays
  <2>1. [token |-> c.token, owner |-> c.owner, spender |-> c.spender,
         amount |-> c.amount] \in TokenGrant
    BY <1>5, GrantCallsAssumption DEF GrantCall, TokenGrant, Optional
  <2>2. tokenGrants' \in Seq(TokenGrant)
    BY <1>2, <1>5, <2>1 DEF ApproveTokenAllowance
  <2>3. Agrees(kind, nftGrants, calls)
    BY <1>2, <1>5, OtherAgrees
  <2> QED
    BY <1>2, <1>5, <2>2, <2>3
<1>6. ASSUME kind = "approve", c.op = "serial",
             nftGrants' = ApproveTokenNftAllowance(nftGrants, c),
             UNCHANGED <<u2uGrants, tokenGrants>>
      PROVE  Stays
  BY <1>2, <1>6, ApproveSerialAgrees DEF SerialCall
<1>7. ASSUME kind = "approve", c.op = "all",
             nftGrants' = ApproveAllTokenNftAllowance(nftGrants, c),
             UNCHANGED <<u2uGrants, tokenGrants>>
      PROVE  Stays
  BY <1>2, <1>7, ApproveAllAgrees
<1>8. ASSUME kind = "delete", c.op = "serial",
             nftGrants' = DeleteAllTokenNftAllowances(nftGrants, c),
             UNCHANGED <<u2uGrants, tokenGrants>>
      PROVE  Stays
  BY <1>2, <1>8, DeleteSerialAgrees DEF SerialCall
<1>9. Stays
  BY <1>4, <1>5, <1>6, <1>7, <1>8 DEF Allow
<1>10. ListsAgree'
  BY <1>1, <1>3, <1>9 DEF ListsAgree
<1>11. AllowancesFaithful'
  BY <1>1 DEF AllowancesFaithful, GrantsWhatWasAsked, AllowancesRoundTrip
<1>12. requested' \in Seq(GrantCalls)
  BY <1>1 DEF AllowanceInv
<1> QED
  BY <1>1, <1>10, <1>11, <1>12 DEF AllowanceInv

(* The body of lists that agree with the calls grants what was asked. *)
LEMMA BodyGrants ==
    ASSUME NEW list \in Seq(NftGrant), NEW calls \in SUBSET GrantCalls,
           kind \in {"approve", "delete"}, calls = Range(requested),
           Agrees(kind, list, calls),
           NEW said,
           said = UNION {Says(NftAllowanceToProtobuf(list[i])) :
                           i \in DOMAIN list}
    PROVE  /\ \A c \in calls : c.op = "serial" => Confused(c) \/ Asks(c) \in said
           /\ \A a \in said : \E c \in calls :
                /\ c.op = "serial" /\ c.token = a.token /\ c.serial = a.serial
                /\ Confused(c) \/ Asks(c) = a
<1>1. ASSUME NEW i \in DOMAIN list, NEW c \in calls,
             Covers(kind, list[i], c), NEW s, s = c.serial
      PROVE  \/ Confused(c)
             \/ /\ list[i].serials # Null
                /\ Asks(c) = [token |-> list[i].token, serial |-> s,
                              owner |-> list[i].owner,
                              spender |-> list[i].spender,
                              delegating |-> list[i].delegating]
  <2>1. PICK d \in calls : MadeBy(kind, list[i], d)
    BY DEF Agrees, Traced
  <2>2. CASE list[i].serials = Null
    <3>1. d.op = "all" /\ d.token = c.token
          /\ (kind = "approve" => d.spender = c.spender)
      BY <1>1, <2>1, <2>2 DEF MadeBy, Covers
    <3> QED
      BY <3>1 DEF Confused
  <2>3. CASE list[i].serials # Null
    <3>1. /\ d.op = "serial" /\ d.token = c.token
          /\ c.token = list[i].token /\ d.owner = list[i].owner
          /\ kind = "approve" => /\ d.spender = c.spender
                                 /\ list[i].spender = d.spender
                                 /\ list[i].delegating = d.delegating
          /\ kind = "delete" => list[i].spender = Null /\ list[i].delegating = Null
      BY <1>1, <2>1, <2>3 DEF MadeBy, Covers
    <3>2. CASE d.owner # c.owner \/ (kind = "approve" /\ d.delegating # c.delegating)
      BY <3>1, <3>2 DEF Confused
    <3>3. CASE d.owner = c.owner /\ (kind = "approve" => d.delegating = c.delegating)
      BY <1>1, <2>3, <3>1, <3>3 DEF Asks
    <3> QED
      BY <3>2, <3>3
  <2> QED
    BY <2>2, <2>3
<1>2. ASSUME NEW i \in DOMAIN list
      PROVE  LET g == list[i] IN
             Says(NftAllowanceToProtobuf(g)) =
               IF g.serials = Null THEN {}
               ELSE {[token |-> g.token, serial |-> s, owner |-> g.owner,
                      spender |-> g.spender, delegating |-> g.delegating] :
                        s \in Range(g.serials)}
  BY DEF Says, NftAllowanceToProtobuf, Range
<1>3. ASSUME NEW c \in calls, c.op = "serial"
      PROVE  Confused(c) \/ Asks(c) \in said
  <2>1. PICK i \in DOMAIN list : Covers(kind, list[i], c)
    BY <1>3 DEF Agrees
  <2>2. CASE ~Confused(c)
    <3>1. /\ list[i].serials # Null
          /\ Asks(c) = [token |-> list[i].token, serial |-> c.serial,
                        owner |-> list[i].owner, spender |-> list[i].spender,
                        delegating |-> list[i].delegating]
      BY <1>1, <2>1, <2>2
    <3>2. c.serial \in Range(list[i].serials)
      BY <2>1, <3>1 DEF Covers
    <3>3. Asks(c) \in Says(NftAllowanceToProtobuf(list[i]))
      BY <1>2, <3>1, <3>2
    <3> QED
      BY <3>3
  <2> QED
    BY <2>2
<1>4. ASSUME NEW a \in said
      PROVE  \E c \in calls :
                /\ c.op = "serial" /\ c.token = a.token /\ c.serial = a.serial
                /\ Confused(c) \/ Asks(c) = a
  <2>1. PICK i \in DOMAIN list : a \in Says(NftAllowanceToProtobuf(list[i]))
    OBVIOUS
  <2>2. list[i].serials # Null
    BY <1>2, <2>1
  <2>3. PICK s \in Range(list[i].serials) :
          a = [token |-> list[i].token, serial |-> s, owner |-> list[i].owner,
               spender |-> list[i].spender,
               delegating |-> list[i].delegating]
    BY <1>2, <2>1, <2>2
  <2>4. PICK c \in calls : Covers(kind, list[i], c) /\ c.serial = s
    BY <2>2 DEF Agrees, Traced
  <2>5. /\ c.op = "serial" /\ c.token = a.token /\ c.serial = a.serial
    BY <2>3, <2>4 DEF Covers
  <2>6. Confused(c) \/ Asks(c) = a
    BY <1>1, <2>3, <2>4
  <2> QED
    BY <2>5, <2>6
<1> QED
  BY <1>3, <1>4

LEMMA FreezeAllowancesKeeps ==
    ASSUME AllowanceInv, FreezeAllowances
    PROVE  AllowanceInv'
<1>1. /\ allowed = Null /\ ~reparsed /\ allowed' = AllowanceMake
      /\ UNCHANGED <<kind, u2uGrants, tokenGrants, nftGrants, requested,
                     reparsed>>
  BY DEF FreezeAllowances, AllowanceInv
<1>2. AllowanceMake' = AllowanceMake
  BY <1>1 DEF AllowanceMake
<1>3. ListsAgree'
  BY <1>1, <1>2 DEF AllowanceInv, ListsAgree
<1>4. GrantsWhatWasAsked'
  <2> DEFINE calls == Range(requested)
             said == UNION {Says(NftAllowanceToProtobuf(nftGrants[i])) :
                              i \in DOMAIN nftGrants}
  <2>1. /\ \A c \in calls : c.op = "serial" => Confused(c) \/ Asks(c) \in said
        /\ \A a \in said : \E c \in calls :
             /\ c.op = "serial" /\ c.token = a.token /\ c.serial = a.serial
             /\ Confused(c) \/ Asks(c) = a
    <3>1. calls \in SUBSET GrantCalls
      BY DEF AllowanceInv, Range
    <3>2. nftGrants \in Seq(NftGrant) /\ Agrees(kind, nftGrants, calls)
      BY <1>1 DEF AllowanceInv, ListsAgree
    <3>3. kind \in {"approve", "delete"}
      BY DEF AllowanceInv
    <3> HIDE DEF said
    <3> QED
      BY <3>1, <3>2, <3>3, BodyGrants DEF said
  <2>2. UNION {Says(allowed'.nftAllowances[i]) :
                 i \in DOMAIN allowed'.nftAllowances} = said
    <3>1. /\ DOMAIN allowed'.nftAllowances = DOMAIN nftGrants
          /\ \A i \in DOMAIN nftGrants :
               allowed'.nftAllowances[i] = NftAllowanceToProtobuf(nftGrants[i])
      BY <1>1 DEF AllowanceMake
    <3> QED
      BY <3>1
  <2>3. /\ Range(requested)' = calls
        /\ \A c : Confused(c)' = Confused(c) /\ Asks(c)' = Asks(c)
    BY <1>1 DEF Confused, Asks
  <2> HIDE DEF said
  <2> QED
    BY <2>1, <2>2, <2>3 DEF GrantsWhatWasAsked
<1>5. AllowancesRoundTrip'
  BY <1>1 DEF AllowancesRoundTrip
<1> QED
  BY <1>1, <1>3, <1>4, <1>5 DEF AllowanceInv, AllowancesFaithful

(* An amount is written once and for all. *)
LEMMA AmountsOnce ==
    ASSUME NEW list,
           \A i \in DOMAIN list : list[i] \in U2UGrant \cup TokenGrant,
           NEW body, body = [i \in DOMAIN list |-> AmountToProtobuf(list[i])],
           NEW back, back = [i \in DOMAIN body |-> AmountFrom(body[i])]
    PROVE  [i \in DOMAIN back |-> AmountToProtobuf(back[i])] = body
<1>1. back = body
  BY DEF AmountFrom
<1>2. ASSUME NEW i \in DOMAIN list
      PROVE  AmountToProtobuf(AmountToProtobuf(list[i])) = AmountToProtobuf(list[i])
  <2>1. list[i] \in U2UGrant \/ list[i] \in TokenGrant
    OBVIOUS
  <2> QED
    BY <2>1, NullAssumption DEF AmountToProtobuf, Scalar, U2UGrant, TokenGrant
<1> QED
  BY <1>1, <1>2

(* An NFT allowance is written again as it was, unless it withdraws all.     *)
LEMMA NftAllowanceAgain ==
    ASSUME NEW g \in NftGrant, NEW b, b = NftAllowanceToProtobuf(g)
    PROVE  NftAllowanceToProtobuf(NftAllowanceFrom(b)) = b \/ b.approvedForAll = FALSE
<1> DEFINE h == NftAllowanceFrom(b)
<1>1. CASE g.serials # Null
  <2>1. b.approvedForAll = Null /\ b.serials = g.serials /\ g.serials \in Seq(Int)
    BY <1>1 DEF NftAllowanceToProtobuf, NftGrant
  <2>2. h = [token |-> b.token, owner |-> b.owner, spender |-> b.spender,
             serials |-> b.serials, all |-> FALSE, delegating |-> b.delegating]
    BY <2>1 DEF NftAllowanceFrom
  <2> QED
    BY <1>1, <2>1, <2>2 DEF NftAllowanceToProtobuf
<1>2. CASE g.serials = Null /\ g.all = TRUE
  <2>1. b.approvedForAll = TRUE /\ b.serials = <<>>
    BY <1>2 DEF NftAllowanceToProtobuf, NftGrant
  <2>2. b.approvedForAll # Null
    BY <2>1, GrantNullAssumption
  <2>3. h = [token |-> b.token, owner |-> b.owner, spender |-> b.spender,
             serials |-> Null, all |-> TRUE, delegating |-> b.delegating]
    BY <2>1, <2>2 DEF NftAllowanceFrom
  <2>4. b = [token |-> g.token, owner |-> g.owner, spender |-> g.spender,
             approvedForAll |-> TRUE, serials |-> <<>>,
             delegating |-> g.delegating]
    BY <1>2 DEF NftAllowanceToProtobuf
  <2>5. NftAllowanceToProtobuf(h) =
          [token |-> b.token, owner |-> b.owner, spender |-> b.spender,
           approvedForAll |-> TRUE, serials |-> <<>>,
           delegating |-> b.delegating]
    <3>1. /\ h.token = b.token /\ h.owner = b.owner /\ h.spender = b.spender
          /\ h.delegating = b.delegating /\ h.serials = Null
      BY <2>3
    <3>2. h.all = TRUE
      BY <2>3
    <3> HIDE DEF h
    <3>3. NftAllowanceToProtobuf(h) =
            [token |-> h.token, owner |-> h.owner, spender |-> h.spender,
             approvedForAll |-> h.all, serials |-> <<>>,
             delegating |-> h.delegating]
      BY <3>1 DEF NftAllowanceToProtobuf
    <3> QED
      BY <3>1, <3>2, <3>3
  <2> QED
    BY <2>4, <2>5
<1>3. CASE g.serials = Null /\ g.all = FALSE
  BY <1>3 DEF NftAllowanceToProtobuf
<1>4. g.all \in BOOLEAN
  BY DEF NftGrant
<1> QED
  BY <1>1, <1>2, <1>3, <1>4

LEMMA ReparseAllowancesKeeps ==
    ASSUME AllowanceInv, ReparseAllowances
    PROVE  AllowanceInv'
<1>1. /\ allowed # Null /\ ~reparsed /\ reparsed' = TRUE
      /\ UNCHANGED <<kind, requested, allowed>>
  BY DEF ReparseAllowances
<1>2. /\ u2uGrants \in Seq(U2UGrant) /\ tokenGrants \in Seq(TokenGrant)
      /\ nftGrants \in Seq(NftGrant) /\ allowed = AllowanceMake
  BY <1>1 DEF AllowanceInv, ListsAgree
<1>3. GrantsWhatWasAsked'
  BY <1>1 DEF AllowanceInv, AllowancesFaithful, GrantsWhatWasAsked, Confused,
      Asks
<1>4. AllowanceMake'.cryptoAllowances = allowed.cryptoAllowances
  <2>1. allowed.cryptoAllowances =
          [i \in DOMAIN u2uGrants |-> AmountToProtobuf(u2uGrants[i])]
    BY <1>2 DEF AllowanceMake
  <2>2. u2uGrants' = [i \in DOMAIN allowed.cryptoAllowances |->
                        AmountFrom(allowed.cryptoAllowances[i])]
    BY DEF ReparseAllowances
  <2>3. [i \in DOMAIN u2uGrants' |-> AmountToProtobuf(u2uGrants'[i])] =
          allowed.cryptoAllowances
    <3>1. \A i \in DOMAIN u2uGrants : u2uGrants[i] \in U2UGrant \cup TokenGrant
      BY <1>2
    <3> QED
      BY <2>1, <2>2, <3>1, AmountsOnce
  <2> QED
    BY <2>3 DEF AllowanceMake
<1>5. AllowanceMake'.tokenAllowances = allowed.tokenAllowances
  <2>1. allowed.tokenAllowances =
          [i \in DOMAIN tokenGrants |-> AmountToProtobuf(tokenGrants[i])]
    BY <1>2 DEF AllowanceMake
  <2>2. tokenGrants' = [i \in DOMAIN allowed.tokenAllowances |->
                          AmountFrom(allowed.tokenAllowances[i])]
    BY DEF ReparseAllowances
  <2>3. [i \in DOMAIN tokenGrants' |-> AmountToProtobuf(tokenGrants'[i])] =
          allowed.tokenAllowances
    <3>1. \A i \in DOMAIN tokenGrants : tokenGrants[i] \in U2UGrant \cup TokenGrant
      BY <1>2
    <3> QED
      BY <2>1, <2>2, <3>1, AmountsOnce
  <2> QED
    BY <2>3 DEF AllowanceMake
<1>6. ASSUME NEW i \in DOMAIN allowed.nftAllowances
      PROVE  \/ AllowanceMake'.nftAllowances[i] = allowed.nftAllowances[i]
             \/ allowed.nftAllowances[i].approvedForAll = FALSE
  <2>1. /\ i \in DOMAIN nftGrants /\ nftGrants[i] \in NftGrant
        /\ allowed.nftAllowances[i] = NftAllowanceToProtobuf(nftGrants[i])
    BY <1>2, <1>6 DEF AllowanceMake
  <2>2. AllowanceMake'.nftAllowances[i] =
          NftAllowanceToProtobuf(NftAllowanceFrom(allowed.nftAllowances[i]))
    BY <1>6 DEF AllowanceMake, ReparseAllowances
  <2> QED
    BY <2>1, <2>2, NftAllowanceAgain
<1>7. AllowancesRoundTrip'
  BY <1>1, <1>4, <1>5, <1>6 DEF AllowancesRoundTrip
<1>8. ListsAgree'
  BY <1>1 DEF ListsAgree
<1> QED
  BY <1>1, <1>3, <1>7, <1>8 DEF AllowanceInv, AllowancesFaithful

(* For any calls, in any number and order: the body grants, or withdraws,   *)
(* each NFT for the owner, spender and delegate that were named with it and *)
(* no other NFT, unless the merge confuses calls; and the body of the       *)
(* object that the bytes give is the same, but for the withdrawal of all    *)
(* serials.                                                                 *)
THEOREM AllowancesCorrect == AllowanceSpec => []AllowancesFaithful
<1>1. AllowanceInv /\ [AllowanceNext]_allowanceVars => AllowanceInv'
  <2> SUFFICES ASSUME AllowanceInv, [AllowanceNext]_allowanceVars
               PROVE  AllowanceInv'
    OBVIOUS
  <2>1. CASE \E c \in GrantCalls : Allow(c)
    BY <2>1, RequestKeeps
  <2>2. CASE FreezeAllowances
    BY <2>2, FreezeAllowancesKeeps
  <2>3. CASE ReparseAllowances
    BY <2>3, ReparseAllowancesKeeps
  <2>4. CASE UNCHANGED allowanceVars
    <3>1. UNCHANGED <<kind, u2uGrants, tokenGrants, nftGrants, requested,
                      allowed, reparsed>>
      BY <2>4 DEF allowanceVars
    <3>2. AllowanceMake' = AllowanceMake
      BY <3>1 DEF AllowanceMake
    <3>3. ListsAgree'
      BY <3>1, <3>2 DEF AllowanceInv, ListsAgree
    <3>4. GrantsWhatWasAsked'
      BY <3>1 DEF AllowanceInv, AllowancesFaithful, GrantsWhatWasAsked,
          Confused, Asks
    <3>5. AllowancesRoundTrip'
      BY <3>1, <3>2 DEF AllowanceInv, AllowancesFaithful, AllowancesRoundTrip
    <3> QED
      BY <3>1, <3>3, <3>4, <3>5 DEF AllowanceInv, AllowancesFaithful
  <2> QED
    BY <2>1, <2>2, <2>3, <2>4 DEF AllowanceNext
<1>2. AllowanceInv => AllowancesFaithful
  BY DEF AllowanceInv
<1> QED
  BY AllowanceInitInv, <1>1, <1>2, PTL DEF AllowanceSpec

-----------------------------------------------------------------------------
(* Answers: what is shown of every class *)

(* The messages that a node can send. *)
Sent(k, m) ==
    /\ DOMAIN m = DOMAIN MessageOf(k)
    /\ \A f \in DOMAIN MessageOf(k) : m[f] \in MessageOf(k)[f]
    /\ k = "TransactionRecord" =>
         m.contractCallResult = Null \/ m.contractCreateResult = Null

(* The tokens of which a record that was written and read has transfers. *)
KeepsTokens(o, r) ==
    LET fungible == Moved(o.tokenTransfers)
        nfts == Moved(o.nftTransfers)
    IN  /\ Moved(r.tokenTransfers) = IF nfts = {} THEN {} ELSE fungible
        /\ Moved(r.nftTransfers) = IF fungible = {} THEN {} ELSE nfts
        /\ Cardinality(fungible) = 1 /\ Cardinality(nfts) = 1 =>
             /\ r.tokenTransfers = o.tokenTransfers
             /\ r.nftTransfers = o.nftTransfers

(* The object o of the message m says what the message said when it is     *)
(* written, as w, and is the same when it is read again, as r.             *)
Tells(k, m, o, w, r) ==
    /\ \A f \in DOMAIN MessageOf(k) :
         w[f] = m[f] \/ f \in Of(LostFields, k) \/ m[f] = Beyond
    /\ \/ Readable(k, w)
       \/ k = "TopicInfo"
       \/ k = "TransactionReceipt" /\ m.exchangeRate = Null
    /\ Readable(k, w) =>
         \A f \in DOMAIN o : r[f] = o[f] \/ f \in Of(Faded, k)
    /\ k = "TransactionRecord" => KeepsTokens(o, r)

(* A field that is not needed can be absent or have its default.           *)
Starts(k) ==
    \A f \in DOMAIN MessageOf(k) :
      \/ f = "tokenTransferLists" /\ NoGroups \in MessageOf(k)[f]
      \/ /\ f # "tokenTransferLists"
         /\ 1 \in MessageOf(k)[f]
         /\ \/ MessageOf(k)[f] \subseteq {1, Beyond}
            \/ 0 \in MessageOf(k)[f]
            \/ Null \in MessageOf(k)[f]

Telling(k) ==
    /\ Starts(k)
    /\ \A m : Sent(k, m) =>
         LET o == Read(k, m)
             w == Received(k, Write(k, o))
         IN  Tells(k, m, o, w, Read(k, w))

LEMMA NoGroupsTyped == NoGroups \in Groups
  BY DEF NoGroups, Groups

(* What _toProtobuf() of a record makes of its token transfers, and what   *)
(* reading that gives.                                                     *)
LEMMA TokensKept ==
    ASSUME NEW ts \in [RecordToken -> Nat], NEW ns \in [RecordToken -> Nat],
           NEW o, o.tokenTransfers = ts, o.nftTransfers = ns,
           NEW l, l = TokenTransferLists(ts, ns),
           NEW r, r.tokenTransfers = TokenTransferMap(l),
           r.nftTransfers = TokenNftTransferMap(l)
    PROVE  KeepsTokens(o, r)
<1>1. /\ IsFiniteSet(Moved(ts)) /\ IsFiniteSet(Moved(ns))
  <2>1. \A n \in Int : IsFiniteSet(1 .. n)
    BY FS_Interval
  <2>2. Moved(ts) \subseteq 1 .. 2 /\ Moved(ns) \subseteq 1 .. 2
    BY DEF Moved, RecordToken
  <2> QED
    BY <2>1, <2>2, FS_Subset
<1>2. PICK F \in Nat, N \in Nat :
        /\ F = Cardinality(Moved(ts)) /\ (F = 0 <=> Moved(ts) = {})
        /\ N = Cardinality(Moved(ns)) /\ (N = 0 <=> Moved(ns) = {})
  BY <1>1, FS_CardinalityType, FS_EmptySet
<1>3. /\ r.tokenTransfers = [t \in RecordToken |-> N * ts[t]]
      /\ r.nftTransfers = [t \in RecordToken |-> F * ns[t]]
  BY <1>2 DEF TokenTransferLists, TokenTransferMap, TokenNftTransferMap
<1>4. \A a \in Nat : \A b \in Nat : a * b = 0 <=> a = 0 \/ b = 0
  OBVIOUS
<1>5. /\ \A t \in RecordToken :
           r.tokenTransfers[t] # 0 <=> N # 0 /\ ts[t] # 0
      /\ \A t \in RecordToken :
           r.nftTransfers[t] # 0 <=> F # 0 /\ ns[t] # 0
  BY <1>3, <1>4
<1>6. /\ Moved(r.tokenTransfers) = IF N = 0 THEN {} ELSE Moved(ts)
      /\ Moved(r.nftTransfers) = IF F = 0 THEN {} ELSE Moved(ns)
  BY <1>5 DEF Moved
<1>7. F = 1 /\ N = 1 => r.tokenTransfers = ts /\ r.nftTransfers = ns
  BY <1>3
<1> QED
  BY <1>2, <1>6, <1>7 DEF KeepsTokens

(* AccountInfo. *)
LEMMA AccountInfoTelling == Telling("AccountInfo")
<1>1. /\ MessageOf("AccountInfo") = AccountInfoMessage
      /\ \A m : Read("AccountInfo", m)
                  = AccountInfoNew(AccountInfoDecode(m))
      /\ \A o : Write("AccountInfo", o)
                  = AccountInfoEncode(o)
  BY DEF MessageOf, Read, Write
<1>2. DOMAIN AccountInfoMessage =
        {"contractAccountID", "deleted", "proxyReceived", "balance",
         "generateSendRecordThreshold", "generateReceiveRecordThreshold",
         "receiverSigRequired", "liveHashes", "tokenRelationships", "memo",
         "ownedNfts", "maxAutomaticTokenAssociations", "ledgerId",
         "ethereumNonce", "autoRenewPeriod", "stakingInfo", "accountID",
         "key", "expirationTime", "proxyAccountID", "alias"}
  BY DEF AccountInfoMessage, Message, ++
<1>3. /\ \A f \in {"contractAccountID", "deleted", "proxyReceived",
                   "balance", "generateSendRecordThreshold",
                   "generateReceiveRecordThreshold", "receiverSigRequired",
                   "liveHashes", "tokenRelationships", "memo", "ownedNfts",
                   "maxAutomaticTokenAssociations", "ledgerId",
                   "ethereumNonce"} :
           AccountInfoMessage[f] = {0, 1}
      /\ \A f \in {"autoRenewPeriod", "stakingInfo"} :
           AccountInfoMessage[f] = {Null, 1}
      /\ \A f \in {"accountID", "key"} :
           AccountInfoMessage[f] = {1}
      /\ AccountInfoMessage.expirationTime = {1, Beyond}
      /\ AccountInfoMessage.proxyAccountID = {Null, 1, Sharded}
      /\ AccountInfoMessage.alias = {0, 1, Composite}
  BY DEF AccountInfoMessage, Message, ++, Times
<1>4. Needed("AccountInfo") \subseteq {"accountID", "key",
                                          "expirationTime"}
  BY <1>1, <1>2, <1>3, NullAssumption DEF Needed, Beyond, Composite, Sharded
<1>5. ASSUME NEW m,
             \A f \in DOMAIN AccountInfoMessage :
               m[f] \in AccountInfoMessage[f],
             NEW o,
             o = AccountInfoNew(AccountInfoDecode(m)),
             NEW e, e = AccountInfoEncode(o),
             NEW w, w = Received("AccountInfo", e),
             NEW r,
             r = AccountInfoNew(AccountInfoDecode(w))
      PROVE  /\ \A f \in DOMAIN AccountInfoMessage :
                  w[f] = m[f] \/ m[f] = Beyond
                    \/ f \in {"proxyAccountID", "alias", "autoRenewPeriod"}
             /\ \A f \in Needed("AccountInfo") : w[f] # Null
             /\ \A f \in DOMAIN o :
                  r[f] = o[f]
  <2>1. /\ DOMAIN o = {"accountId", "contractAccountId", "isDeleted",
                      "proxyAccountId", "proxyReceived", "key", "balance",
                      "sendRecordThreshold", "receiveRecordThreshold",
                      "isReceiverSignatureRequired", "expirationTime",
                      "autoRenewPeriod", "liveHashes", "tokenRelationships",
                      "accountMemo", "ownedNfts",
                      "maxAutomaticTokenAssociations", "aliasKey",
                      "ledgerId", "U2UAllowances", "tokenAllowances",
                      "nftAllowances", "ethereumNonce", "stakingInfo"}
        /\ o.accountId = m.accountID
        /\ o.contractAccountId = m.contractAccountID
        /\ o.isDeleted = m.deleted
        /\ o.proxyAccountId
             = IF m.proxyAccountID = Sharded THEN Sharded ELSE Null
        /\ o.proxyReceived = m.proxyReceived
        /\ o.key = m.key
        /\ o.balance = m.balance
        /\ o.sendRecordThreshold = m.generateSendRecordThreshold
        /\ o.receiveRecordThreshold = m.generateReceiveRecordThreshold
        /\ o.isReceiverSignatureRequired = m.receiverSigRequired
        /\ o.expirationTime = Seconds(m.expirationTime)
        /\ o.autoRenewPeriod = Scalar(m.autoRenewPeriod)
        /\ o.liveHashes = m.liveHashes
        /\ o.tokenRelationships = m.tokenRelationships
        /\ o.accountMemo = m.memo
        /\ o.ownedNfts = m.ownedNfts
        /\ o.maxAutomaticTokenAssociations = m.maxAutomaticTokenAssociations
        /\ o.aliasKey = IF m.alias = 1 THEN 1 ELSE Null
        /\ o.ledgerId = m.ledgerId
        /\ o.U2UAllowances = 0
        /\ o.tokenAllowances = 0
        /\ o.nftAllowances = 0
        /\ o.ethereumNonce = m.ethereumNonce
        /\ o.stakingInfo = m.stakingInfo
    BY <1>5 DEF AccountInfoNew, Copied, AccountInfoDecode
  <2>2. /\ w.contractAccountID = Scalar(o.contractAccountId)
        /\ w.deleted = Scalar(o.isDeleted)
        /\ w.proxyReceived = Scalar(o.proxyReceived)
        /\ w.balance = Scalar(o.balance)
        /\ w.generateSendRecordThreshold = Scalar(o.sendRecordThreshold)
        /\ w.generateReceiveRecordThreshold = Scalar(o.receiveRecordThreshold)
        /\ w.receiverSigRequired = Scalar(o.isReceiverSignatureRequired)
        /\ w.liveHashes = Scalar(o.liveHashes)
        /\ w.tokenRelationships = Scalar(o.tokenRelationships)
        /\ w.memo = Scalar(o.accountMemo)
        /\ w.ownedNfts = Scalar(o.ownedNfts)
        /\ w.maxAutomaticTokenAssociations
             = Scalar(o.maxAutomaticTokenAssociations)
        /\ w.ledgerId = Scalar(o.ledgerId)
        /\ w.ethereumNonce = Scalar(o.ethereumNonce)
        /\ w.autoRenewPeriod = o.autoRenewPeriod
        /\ w.stakingInfo = o.stakingInfo
        /\ w.accountID = o.accountId
        /\ w.key = o.key
        /\ w.expirationTime = o.expirationTime
        /\ w.proxyAccountID = o.proxyAccountId
        /\ w.alias = Scalar(o.aliasKey)
    BY <1>1, <1>2, <1>5 DEF Received, AccountInfoEncode
  <2>3. /\ w.contractAccountID = m.contractAccountID
        /\ w.deleted = m.deleted
        /\ w.proxyReceived = m.proxyReceived
        /\ w.balance = m.balance
        /\ w.generateSendRecordThreshold = m.generateSendRecordThreshold
        /\ w.generateReceiveRecordThreshold = m.generateReceiveRecordThreshold
        /\ w.receiverSigRequired = m.receiverSigRequired
        /\ w.liveHashes = m.liveHashes
        /\ w.tokenRelationships = m.tokenRelationships
        /\ w.memo = m.memo
        /\ w.ownedNfts = m.ownedNfts
        /\ w.maxAutomaticTokenAssociations = m.maxAutomaticTokenAssociations
        /\ w.ledgerId = m.ledgerId
        /\ w.ethereumNonce = m.ethereumNonce
        /\ w.stakingInfo = m.stakingInfo
        /\ w.accountID = m.accountID
        /\ w.key = m.key
        /\ w.expirationTime = m.expirationTime \/ m.expirationTime = Beyond
    BY <1>2, <1>3, <1>5, <2>1, <2>2, NullAssumption DEF Scalar, Seconds,
      Beyond, Composite, Sharded, Wrapped
  <2>4. /\ w.accountID # Null
        /\ w.key # Null
        /\ w.expirationTime # Null
    BY <1>2, <1>3, <1>5, <2>1, <2>2, NullAssumption DEF Scalar, Seconds,
      Beyond, Composite, Sharded, Wrapped
  <2>5. /\ r.accountId = w.accountID
        /\ r.contractAccountId = w.contractAccountID
        /\ r.isDeleted = w.deleted
        /\ r.proxyAccountId
             = IF w.proxyAccountID = Sharded THEN Sharded ELSE Null
        /\ r.proxyReceived = w.proxyReceived
        /\ r.key = w.key
        /\ r.balance = w.balance
        /\ r.sendRecordThreshold = w.generateSendRecordThreshold
        /\ r.receiveRecordThreshold = w.generateReceiveRecordThreshold
        /\ r.isReceiverSignatureRequired = w.receiverSigRequired
        /\ r.expirationTime = Seconds(w.expirationTime)
        /\ r.autoRenewPeriod = Scalar(w.autoRenewPeriod)
        /\ r.liveHashes = w.liveHashes
        /\ r.tokenRelationships = w.tokenRelationships
        /\ r.accountMemo = w.memo
        /\ r.ownedNfts = w.ownedNfts
        /\ r.maxAutomaticTokenAssociations = w.maxAutomaticTokenAssociations
        /\ r.aliasKey = IF w.alias = 1 THEN 1 ELSE Null
        /\ r.ledgerId = w.ledgerId
        /\ r.U2UAllowances = 0
        /\ r.tokenAllowances = 0
        /\ r.nftAllowances = 0
        /\ r.ethereumNonce = w.ethereumNonce
        /\ r.stakingInfo = w.stakingInfo
    BY <1>5 DEF AccountInfoNew, Copied, AccountInfoDecode
  <2>6. /\ r.accountId = o.accountId
        /\ r.contractAccountId = o.contractAccountId
        /\ r.isDeleted = o.isDeleted
        /\ r.proxyAccountId = o.proxyAccountId
        /\ r.proxyReceived = o.proxyReceived
        /\ r.key = o.key
        /\ r.balance = o.balance
        /\ r.sendRecordThreshold = o.sendRecordThreshold
        /\ r.receiveRecordThreshold = o.receiveRecordThreshold
        /\ r.isReceiverSignatureRequired = o.isReceiverSignatureRequired
        /\ r.expirationTime = o.expirationTime
        /\ r.autoRenewPeriod = o.autoRenewPeriod
        /\ r.liveHashes = o.liveHashes
        /\ r.tokenRelationships = o.tokenRelationships
        /\ r.accountMemo = o.accountMemo
        /\ r.ownedNfts = o.ownedNfts
        /\ r.maxAutomaticTokenAssociations = o.maxAutomaticTokenAssociations
        /\ r.aliasKey = o.aliasKey
        /\ r.ledgerId = o.ledgerId
        /\ r.U2UAllowances = o.U2UAllowances
        /\ r.tokenAllowances = o.tokenAllowances
        /\ r.nftAllowances = o.nftAllowances
        /\ r.ethereumNonce = o.ethereumNonce
        /\ r.stakingInfo = o.stakingInfo
    BY <1>2, <1>3, <1>5, <2>1, <2>2, <2>5, NullAssumption DEF Scalar, Seconds,
      Beyond, Composite, Sharded, Wrapped
  <2> QED
    BY <1>2, <1>4, <2>1, <2>3, <2>4, <2>6
<1>6. Starts("AccountInfo")
  BY <1>1, <1>2, <1>3 DEF Starts
<1>7. /\ Of(LostFields, "AccountInfo") = {"proxyAccountID", "alias",
                                         "autoRenewPeriod"}
      /\ Of(Faded, "AccountInfo") = {}
  BY DEF Of, LostFields, Faded
<1>8. ASSUME NEW m, Sent("AccountInfo", m),
             NEW o, o = Read("AccountInfo", m),
             NEW w,
             w = Received("AccountInfo",
                          Write("AccountInfo", o)),
             NEW r, r = Read("AccountInfo", w)
      PROVE  Tells("AccountInfo", m, o, w, r)
  BY <1>1, <1>5, <1>7, <1>8 DEF Tells, Readable, Sent
<1> QED
  BY <1>6, <1>8, Zenon DEF Telling

(* AccountBalance. *)
LEMMA AccountBalanceTelling == Telling("AccountBalance")
<1>1. /\ MessageOf("AccountBalance") = AccountBalanceMessage
      /\ \A m : Read("AccountBalance", m)
                  = AccountBalanceNew(AccountBalanceDecode(m))
      /\ \A o : Write("AccountBalance", o)
                  = AccountBalanceEncode(o)
  BY DEF MessageOf, Read, Write
<1>2. DOMAIN AccountBalanceMessage =
        {"balance", "tokenBalances"}
  BY DEF AccountBalanceMessage, Message
<1>3. /\ \A f \in {"balance", "tokenBalances"} :
           AccountBalanceMessage[f] = {0, 1}
  BY DEF AccountBalanceMessage, Message
<1>4. Needed("AccountBalance") \subseteq {}
  BY <1>1, <1>2, <1>3, NullAssumption DEF Needed, Beyond
<1>5. ASSUME NEW m,
             \A f \in DOMAIN AccountBalanceMessage :
               m[f] \in AccountBalanceMessage[f],
             NEW o,
             o = AccountBalanceNew(AccountBalanceDecode(m)),
             NEW e, e = AccountBalanceEncode(o),
             NEW w, w = Received("AccountBalance", e),
             NEW r,
             r = AccountBalanceNew(AccountBalanceDecode(w))
      PROVE  /\ \A f \in DOMAIN AccountBalanceMessage :
                  w[f] = m[f] \/ m[f] = Beyond
             /\ \A f \in Needed("AccountBalance") : w[f] # Null
             /\ \A f \in DOMAIN o :
                  r[f] = o[f]
  <2>1. /\ DOMAIN o = {"u2us", "tokens", "tokenDecimals"}
        /\ o.u2us = m.balance
        /\ o.tokens = m.tokenBalances
        /\ o.tokenDecimals = m.tokenBalances
    BY <1>5 DEF AccountBalanceNew, Copied, AccountBalanceDecode
  <2>2. /\ w.balance = Scalar(o.u2us)
        /\ w.tokenBalances = Scalar(o.tokens)
    BY <1>1, <1>2, <1>5 DEF Received, AccountBalanceEncode
  <2>3. /\ w.balance = m.balance
        /\ w.tokenBalances = m.tokenBalances
    BY <1>2, <1>3, <1>5, <2>1, <2>2, NullAssumption DEF Scalar
  <2>5. /\ r.u2us = w.balance
        /\ r.tokens = w.tokenBalances
        /\ r.tokenDecimals = w.tokenBalances
    BY <1>5 DEF AccountBalanceNew, Copied, AccountBalanceDecode
  <2>6. /\ r.u2us = o.u2us
        /\ r.tokens = o.tokens
        /\ r.tokenDecimals = o.tokenDecimals
    BY <1>2, <1>3, <1>5, <2>1, <2>2, <2>5, NullAssumption DEF Scalar
  <2> QED
    BY <1>2, <1>4, <2>1, <2>3, <2>6
<1>6. Starts("AccountBalance")
  BY <1>1, <1>2, <1>3 DEF Starts
<1>7. /\ Of(LostFields, "AccountBalance") = {}
      /\ Of(Faded, "AccountBalance") = {}
  BY DEF Of, LostFields, Faded
<1>8. ASSUME NEW m, Sent("AccountBalance", m),
             NEW o, o = Read("AccountBalance", m),
             NEW w,
             w = Received("AccountBalance",
                          Write("AccountBalance", o)),
             NEW r, r = Read("AccountBalance", w)
      PROVE  Tells("AccountBalance", m, o, w, r)
  BY <1>1, <1>5, <1>7, <1>8 DEF Tells, Readable, Sent
<1> QED
  BY <1>6, <1>8, Zenon DEF Telling

(* StakingInfo. *)
LEMMA StakingInfoTelling == Telling("StakingInfo")
<1>1. /\ MessageOf("StakingInfo") = StakingInfoMessage
      /\ \A m : Read("StakingInfo", m)
                  = StakingInfoNew(StakingInfoDecode(m))
      /\ \A o : Write("StakingInfo", o)
                  = StakingInfoEncode(o)
  BY DEF MessageOf, Read, Write
<1>2. DOMAIN StakingInfoMessage =
        {"declineReward", "pendingReward", "stakedToMe", "stakedAccountId",
         "stakePeriodStart", "stakedNodeId"}
  BY DEF StakingInfoMessage, Message, ++
<1>3. /\ \A f \in {"declineReward", "pendingReward", "stakedToMe"} :
           StakingInfoMessage[f] = {0, 1}
      /\ StakingInfoMessage.stakedAccountId = {Null, 1}
      /\ StakingInfoMessage.stakePeriodStart = {Null, 1, Beyond}
      /\ StakingInfoMessage.stakedNodeId = {Null, 0, 1}
  BY DEF StakingInfoMessage, Message, ++, Times
<1>4. Needed("StakingInfo") \subseteq {}
  BY <1>1, <1>2, <1>3, NullAssumption DEF Needed, Beyond
<1>5. ASSUME NEW m,
             \A f \in DOMAIN StakingInfoMessage :
               m[f] \in StakingInfoMessage[f],
             NEW o,
             o = StakingInfoNew(StakingInfoDecode(m)),
             NEW e, e = StakingInfoEncode(o),
             NEW w, w = Received("StakingInfo", e),
             NEW r,
             r = StakingInfoNew(StakingInfoDecode(w))
      PROVE  /\ \A f \in DOMAIN StakingInfoMessage :
                  w[f] = m[f] \/ m[f] = Beyond
             /\ \A f \in Needed("StakingInfo") : w[f] # Null
             /\ \A f \in DOMAIN o :
                  r[f] = o[f]
  <2>1. /\ DOMAIN o = {"declineStakingReward", "stakePeriodStart",
                      "pendingReward", "stakedToMe", "stakedAccountId",
                      "stakedNodeId"}
        /\ o.declineStakingReward = m.declineReward
        /\ o.stakePeriodStart = Seconds(m.stakePeriodStart)
        /\ o.pendingReward = m.pendingReward
        /\ o.stakedToMe = m.stakedToMe
        /\ o.stakedAccountId = m.stakedAccountId
        /\ o.stakedNodeId = m.stakedNodeId
    BY <1>5 DEF StakingInfoNew, Copied, StakingInfoDecode
  <2>2. /\ w.declineReward = Scalar(o.declineStakingReward)
        /\ w.pendingReward = Scalar(o.pendingReward)
        /\ w.stakedToMe = Scalar(o.stakedToMe)
        /\ w.stakedAccountId = o.stakedAccountId
        /\ w.stakePeriodStart = o.stakePeriodStart
        /\ w.stakedNodeId = o.stakedNodeId
    BY <1>1, <1>2, <1>5 DEF Received, StakingInfoEncode
  <2>3. /\ w.declineReward = m.declineReward
        /\ w.pendingReward = m.pendingReward
        /\ w.stakedToMe = m.stakedToMe
        /\ w.stakedAccountId = m.stakedAccountId
        /\ w.stakedNodeId = m.stakedNodeId
        /\ \/ w.stakePeriodStart = m.stakePeriodStart
           \/ m.stakePeriodStart = Beyond
    BY <1>2, <1>3, <1>5, <2>1, <2>2, NullAssumption DEF Scalar, Seconds,
      Beyond, Wrapped
  <2>5. /\ r.declineStakingReward = w.declineReward
        /\ r.stakePeriodStart = Seconds(w.stakePeriodStart)
        /\ r.pendingReward = w.pendingReward
        /\ r.stakedToMe = w.stakedToMe
        /\ r.stakedAccountId = w.stakedAccountId
        /\ r.stakedNodeId = w.stakedNodeId
    BY <1>5 DEF StakingInfoNew, Copied, StakingInfoDecode
  <2>6. /\ r.declineStakingReward = o.declineStakingReward
        /\ r.stakePeriodStart = o.stakePeriodStart
        /\ r.pendingReward = o.pendingReward
        /\ r.stakedToMe = o.stakedToMe
        /\ r.stakedAccountId = o.stakedAccountId
        /\ r.stakedNodeId = o.stakedNodeId
    BY <1>2, <1>3, <1>5, <2>1, <2>2, <2>5, NullAssumption DEF Scalar, Seconds,
      Beyond, Wrapped
  <2> QED
    BY <1>2, <1>4, <2>1, <2>3, <2>6
<1>6. Starts("StakingInfo")
  BY <1>1, <1>2, <1>3 DEF Starts
<1>7. /\ Of(LostFields, "StakingInfo") = {}
      /\ Of(Faded, "StakingInfo") = {}
  BY DEF Of, LostFields, Faded
<1>8. ASSUME NEW m, Sent("StakingInfo", m),
             NEW o, o = Read("StakingInfo", m),
             NEW w,
             w = Received("StakingInfo",
                          Write("StakingInfo", o)),
             NEW r, r = Read("StakingInfo", w)
      PROVE  Tells("StakingInfo", m, o, w, r)
  BY <1>1, <1>5, <1>7, <1>8 DEF Tells, Readable, Sent
<1> QED
  BY <1>6, <1>8, Zenon DEF Telling

(* TokenRelationship. *)
LEMMA TokenRelationshipTelling == Telling("TokenRelationship")
<1>1. /\ MessageOf("TokenRelationship") = TokenRelationshipMessage
      /\ \A m : Read("TokenRelationship", m)
                  = TokenRelationshipNew(TokenRelationshipDecode(m))
      /\ \A o : Write("TokenRelationship", o)
                  = TokenRelationshipEncode(o)
  BY DEF MessageOf, Read, Write
<1>2. DOMAIN TokenRelationshipMessage =
        {"symbol", "balance", "automaticAssociation", "tokenId", "kycStatus",
         "freezeStatus"}
  BY DEF TokenRelationshipMessage, Message, ++
<1>3. /\ \A f \in {"symbol", "balance", "automaticAssociation"} :
           TokenRelationshipMessage[f] = {0, 1}
      /\ TokenRelationshipMessage.tokenId = {1}
      /\ \A f \in {"kycStatus", "freezeStatus"} :
           TokenRelationshipMessage[f] = {0, 1, 2}
  BY DEF TokenRelationshipMessage, Message, ++
<1>4. Needed("TokenRelationship") \subseteq {"tokenId"}
  BY <1>1, <1>2, <1>3, NullAssumption DEF Needed, Beyond
<1>5. ASSUME NEW m,
             \A f \in DOMAIN TokenRelationshipMessage :
               m[f] \in TokenRelationshipMessage[f],
             NEW o,
             o = TokenRelationshipNew(TokenRelationshipDecode(m)),
             NEW e, e = TokenRelationshipEncode(o),
             NEW w, w = Received("TokenRelationship", e),
             NEW r,
             r = TokenRelationshipNew(TokenRelationshipDecode(w))
      PROVE  /\ \A f \in DOMAIN TokenRelationshipMessage :
                  w[f] = m[f] \/ m[f] = Beyond
             /\ \A f \in Needed("TokenRelationship") : w[f] # Null
             /\ \A f \in DOMAIN o :
                  r[f] = o[f]
  <2>1. /\ DOMAIN o = {"tokenId", "symbol", "balance", "isKycGranted",
                      "isFrozen", "automaticAssociation"}
        /\ o.tokenId = m.tokenId
        /\ o.symbol = m.symbol
        /\ o.balance = m.balance
        /\ o.isKycGranted = ThreeWay(m.kycStatus)
        /\ o.isFrozen = ThreeWay(m.freezeStatus)
        /\ o.automaticAssociation = m.automaticAssociation
    BY <1>5 DEF TokenRelationshipNew, Copied, TokenRelationshipDecode
  <2>2. /\ w.symbol = Scalar(o.symbol)
        /\ w.balance = Scalar(o.balance)
        /\ w.automaticAssociation = Scalar(o.automaticAssociation)
        /\ w.tokenId = o.tokenId
        /\ w.kycStatus = Status(o.isKycGranted)
        /\ w.freezeStatus = Status(o.isFrozen)
    BY <1>1, <1>2, <1>5 DEF Received, TokenRelationshipEncode
  <2>3. /\ w.symbol = m.symbol
        /\ w.balance = m.balance
        /\ w.automaticAssociation = m.automaticAssociation
        /\ w.tokenId = m.tokenId
        /\ w.kycStatus = m.kycStatus
        /\ w.freezeStatus = m.freezeStatus
    BY <1>2, <1>3, <1>5, <2>1, <2>2, NullAssumption DEF Scalar, Status,
      ThreeWay
  <2>4. /\ w.tokenId # Null
    BY <1>2, <1>3, <1>5, <2>1, <2>2, NullAssumption DEF Scalar, Status,
      ThreeWay
  <2>5. /\ r.tokenId = w.tokenId
        /\ r.symbol = w.symbol
        /\ r.balance = w.balance
        /\ r.isKycGranted = ThreeWay(w.kycStatus)
        /\ r.isFrozen = ThreeWay(w.freezeStatus)
        /\ r.automaticAssociation = w.automaticAssociation
    BY <1>5 DEF TokenRelationshipNew, Copied, TokenRelationshipDecode
  <2>6. /\ r.tokenId = o.tokenId
        /\ r.symbol = o.symbol
        /\ r.balance = o.balance
        /\ r.isKycGranted = o.isKycGranted
        /\ r.isFrozen = o.isFrozen
        /\ r.automaticAssociation = o.automaticAssociation
    BY <1>2, <1>3, <1>5, <2>1, <2>2, <2>5, NullAssumption DEF Scalar, Status,
      ThreeWay
  <2> QED
    BY <1>2, <1>4, <2>1, <2>3, <2>4, <2>6
<1>6. Starts("TokenRelationship")
  BY <1>1, <1>2, <1>3 DEF Starts
<1>7. /\ Of(LostFields, "TokenRelationship") = {}
      /\ Of(Faded, "TokenRelationship") = {}
  BY DEF Of, LostFields, Faded
<1>8. ASSUME NEW m, Sent("TokenRelationship", m),
             NEW o, o = Read("TokenRelationship", m),
             NEW w,
             w = Received("TokenRelationship",
                          Write("TokenRelationship", o)),
             NEW r, r = Read("TokenRelationship", w)
      PROVE  Tells("TokenRelationship", m, o, w, r)
  BY <1>1, <1>5, <1>7, <1>8 DEF Tells, Readable, Sent
<1> QED
  BY <1>6, <1>8, Zenon DEF Telling

(* LiveHash. *)
LEMMA LiveHashTelling == Telling("LiveHash")
<1>1. /\ MessageOf("LiveHash") = LiveHashMessage
      /\ \A m : Read("LiveHash", m)
                  = LiveHashNew(LiveHashDecode(m))
      /\ \A o : Write("LiveHash", o)
                  = LiveHashEncode(o)
  BY DEF MessageOf, Read, Write
<1>2. DOMAIN LiveHashMessage =
        {"hash", "keys", "accountId", "duration"}
  BY DEF LiveHashMessage, Message
<1>3. /\ LiveHashMessage.hash = {0, 1}
      /\ LiveHashMessage.keys = {Null, 1}
      /\ \A f \in {"accountId", "duration"} :
           LiveHashMessage[f] = {1}
  BY DEF LiveHashMessage, Message
<1>4. Needed("LiveHash") \subseteq {"accountId", "duration"}
  BY <1>1, <1>2, <1>3, NullAssumption DEF Needed, Beyond
<1>5. ASSUME NEW m,
             \A f \in DOMAIN LiveHashMessage :
               m[f] \in LiveHashMessage[f],
             NEW o,
             o = LiveHashNew(LiveHashDecode(m)),
             NEW e, e = LiveHashEncode(o),
             NEW w, w = Received("LiveHash", e),
             NEW r,
             r = LiveHashNew(LiveHashDecode(w))
      PROVE  /\ \A f \in DOMAIN LiveHashMessage :
                  w[f] = m[f] \/ m[f] = Beyond
                    \/ f = "keys"
             /\ \A f \in Needed("LiveHash") : w[f] # Null
             /\ \A f \in DOMAIN o :
                  r[f] = o[f]
  <2>1. /\ DOMAIN o = {"accountId", "hash", "keys", "duration"}
        /\ o.accountId = m.accountId
        /\ o.hash = m.hash
        /\ o.keys = Scalar(m.keys)
        /\ o.duration = m.duration
    BY <1>5 DEF LiveHashNew, Copied, LiveHashDecode
  <2>2. /\ w.hash = Scalar(o.hash)
        /\ w.keys = o.keys
        /\ w.accountId = o.accountId
        /\ w.duration = o.duration
    BY <1>1, <1>2, <1>5 DEF Received, LiveHashEncode
  <2>3. /\ w.hash = m.hash
        /\ w.accountId = m.accountId
        /\ w.duration = m.duration
    BY <1>2, <1>3, <1>5, <2>1, <2>2, NullAssumption DEF Scalar
  <2>4. /\ w.accountId # Null
        /\ w.duration # Null
    BY <1>2, <1>3, <1>5, <2>1, <2>2, NullAssumption DEF Scalar
  <2>5. /\ r.accountId = w.accountId
        /\ r.hash = w.hash
        /\ r.keys = Scalar(w.keys)
        /\ r.duration = w.duration
    BY <1>5 DEF LiveHashNew, Copied, LiveHashDecode
  <2>6. /\ r.accountId = o.accountId
        /\ r.hash = o.hash
        /\ r.keys = o.keys
        /\ r.duration = o.duration
    BY <1>2, <1>3, <1>5, <2>1, <2>2, <2>5, NullAssumption DEF Scalar
  <2> QED
    BY <1>2, <1>4, <2>1, <2>3, <2>4, <2>6
<1>6. Starts("LiveHash")
  BY <1>1, <1>2, <1>3 DEF Starts
<1>7. /\ Of(LostFields, "LiveHash") = {"keys"}
      /\ Of(Faded, "LiveHash") = {}
  BY DEF Of, LostFields, Faded
<1>8. ASSUME NEW m, Sent("LiveHash", m),
             NEW o, o = Read("LiveHash", m),
             NEW w,
             w = Received("LiveHash",
                          Write("LiveHash", o)),
             NEW r, r = Read("LiveHash", w)
      PROVE  Tells("LiveHash", m, o, w, r)
  BY <1>1, <1>5, <1>7, <1>8 DEF Tells, Readable, Sent
<1> QED
  BY <1>6, <1>8, Zenon DEF Telling

(* ProxyStaker. *)
LEMMA ProxyStakerTelling == Telling("ProxyStaker")
<1>1. /\ MessageOf("ProxyStaker") = ProxyStakerMessage
      /\ \A m : Read("ProxyStaker", m)
                  = ProxyStakerNew(ProxyStakerDecode(m))
      /\ \A o : Write("ProxyStaker", o)
                  = ProxyStakerEncode(o)
  BY DEF MessageOf, Read, Write
<1>2. DOMAIN ProxyStakerMessage =
        {"amount", "accountID"}
  BY DEF ProxyStakerMessage, Message
<1>3. /\ ProxyStakerMessage.amount = {0, 1}
      /\ ProxyStakerMessage.accountID = {1}
  BY DEF ProxyStakerMessage, Message
<1>4. Needed("ProxyStaker") \subseteq {"accountID"}
  BY <1>1, <1>2, <1>3, NullAssumption DEF Needed, Beyond
<1>5. ASSUME NEW m,
             \A f \in DOMAIN ProxyStakerMessage :
               m[f] \in ProxyStakerMessage[f],
             NEW o,
             o = ProxyStakerNew(ProxyStakerDecode(m)),
             NEW e, e = ProxyStakerEncode(o),
             NEW w, w = Received("ProxyStaker", e),
             NEW r,
             r = ProxyStakerNew(ProxyStakerDecode(w))
      PROVE  /\ \A f \in DOMAIN ProxyStakerMessage :
                  w[f] = m[f] \/ m[f] = Beyond
             /\ \A f \in Needed("ProxyStaker") : w[f] # Null
             /\ \A f \in DOMAIN o :
                  r[f] = o[f]
  <2>1. /\ DOMAIN o = {"accountId", "amount"}
        /\ o.accountId = m.accountID
        /\ o.amount = m.amount
    BY <1>5 DEF ProxyStakerNew, Copied, ProxyStakerDecode
  <2>2. /\ w.amount = Scalar(o.amount)
        /\ w.accountID = o.accountId
    BY <1>1, <1>2, <1>5 DEF Received, ProxyStakerEncode
  <2>3. /\ w.amount = m.amount
        /\ w.accountID = m.accountID
    BY <1>2, <1>3, <1>5, <2>1, <2>2, NullAssumption DEF Scalar
  <2>4. /\ w.accountID # Null
    BY <1>2, <1>3, <1>5, <2>1, <2>2, NullAssumption DEF Scalar
  <2>5. /\ r.accountId = w.accountID
        /\ r.amount = w.amount
    BY <1>5 DEF ProxyStakerNew, Copied, ProxyStakerDecode
  <2>6. /\ r.accountId = o.accountId
        /\ r.amount = o.amount
    BY <1>2, <1>3, <1>5, <2>1, <2>2, <2>5, NullAssumption DEF Scalar
  <2> QED
    BY <1>2, <1>4, <2>1, <2>3, <2>4, <2>6
<1>6. Starts("ProxyStaker")
  BY <1>1, <1>2, <1>3 DEF Starts
<1>7. /\ Of(LostFields, "ProxyStaker") = {}
      /\ Of(Faded, "ProxyStaker") = {}
  BY DEF Of, LostFields, Faded
<1>8. ASSUME NEW m, Sent("ProxyStaker", m),
             NEW o, o = Read("ProxyStaker", m),
             NEW w,
             w = Received("ProxyStaker",
                          Write("ProxyStaker", o)),
             NEW r, r = Read("ProxyStaker", w)
      PROVE  Tells("ProxyStaker", m, o, w, r)
  BY <1>1, <1>5, <1>7, <1>8 DEF Tells, Readable, Sent
<1> QED
  BY <1>6, <1>8, Zenon DEF Telling

(* ContractInfo. *)
LEMMA ContractInfoTelling == Telling("ContractInfo")
<1>1. /\ MessageOf("ContractInfo") = ContractInfoMessage
      /\ \A m : Read("ContractInfo", m)
                  = ContractInfoNew(ContractInfoDecode(m))
      /\ \A o : Write("ContractInfo", o)
                  = ContractInfoEncode(o)
  BY DEF MessageOf, Read, Write
<1>2. DOMAIN ContractInfoMessage =
        {"contractAccountID", "storage", "memo", "balance", "deleted",
         "tokenRelationships", "ledgerId", "adminKey", "autoRenewAccountId",
         "stakingInfo", "contractID", "accountID", "autoRenewPeriod",
         "expirationTime"}
  BY DEF ContractInfoMessage, Message, ++
<1>3. /\ \A f \in {"contractAccountID", "storage", "memo", "balance",
                   "deleted", "tokenRelationships", "ledgerId"} :
           ContractInfoMessage[f] = {0, 1}
      /\ \A f \in {"adminKey", "autoRenewAccountId", "stakingInfo"} :
           ContractInfoMessage[f] = {Null, 1}
      /\ \A f \in {"contractID", "accountID", "autoRenewPeriod"} :
           ContractInfoMessage[f] = {1}
      /\ ContractInfoMessage.expirationTime = {1, Beyond}
  BY DEF ContractInfoMessage, Message, ++, Times
<1>4. Needed("ContractInfo") \subseteq {"contractID", "accountID",
                                           "autoRenewPeriod",
                                           "expirationTime"}
  BY <1>1, <1>2, <1>3, NullAssumption DEF Needed, Beyond
<1>5. ASSUME NEW m,
             \A f \in DOMAIN ContractInfoMessage :
               m[f] \in ContractInfoMessage[f],
             NEW o,
             o = ContractInfoNew(ContractInfoDecode(m)),
             NEW e, e = ContractInfoEncode(o),
             NEW w, w = Received("ContractInfo", e),
             NEW r,
             r = ContractInfoNew(ContractInfoDecode(w))
      PROVE  /\ \A f \in DOMAIN ContractInfoMessage :
                  w[f] = m[f] \/ m[f] = Beyond
             /\ \A f \in Needed("ContractInfo") : w[f] # Null
             /\ \A f \in DOMAIN o :
                  r[f] = o[f]
  <2>1. /\ DOMAIN o = {"contractId", "accountId", "contractAccountId",
                      "adminKey", "expirationTime", "autoRenewPeriod",
                      "autoRenewAccountId", "storage", "contractMemo",
                      "balance", "isDeleted", "tokenRelationships",
                      "ledgerId", "stakingInfo"}
        /\ o.contractId = m.contractID
        /\ o.accountId = m.accountID
        /\ o.contractAccountId = m.contractAccountID
        /\ o.adminKey = m.adminKey
        /\ o.expirationTime = Seconds(m.expirationTime)
        /\ o.autoRenewPeriod = m.autoRenewPeriod
        /\ o.autoRenewAccountId = m.autoRenewAccountId
        /\ o.storage = m.storage
        /\ o.contractMemo = m.memo
        /\ o.balance = m.balance
        /\ o.isDeleted = m.deleted
        /\ o.tokenRelationships = m.tokenRelationships
        /\ o.ledgerId = m.ledgerId
        /\ o.stakingInfo = m.stakingInfo
    BY <1>5 DEF ContractInfoNew, Copied, ContractInfoDecode
  <2>2. /\ w.contractAccountID = Scalar(o.contractAccountId)
        /\ w.storage = Scalar(o.storage)
        /\ w.memo = Scalar(o.contractMemo)
        /\ w.balance = Scalar(o.balance)
        /\ w.deleted = Scalar(o.isDeleted)
        /\ w.tokenRelationships = Scalar(o.tokenRelationships)
        /\ w.ledgerId = Scalar(o.ledgerId)
        /\ w.adminKey = o.adminKey
        /\ w.autoRenewAccountId = o.autoRenewAccountId
        /\ w.stakingInfo = o.stakingInfo
        /\ w.contractID = o.contractId
        /\ w.accountID = o.accountId
        /\ w.autoRenewPeriod = o.autoRenewPeriod
        /\ w.expirationTime = o.expirationTime
    BY <1>1, <1>2, <1>5 DEF Received, ContractInfoEncode
  <2>3. /\ w.contractAccountID = m.contractAccountID
        /\ w.storage = m.storage
        /\ w.memo = m.memo
        /\ w.balance = m.balance
        /\ w.deleted = m.deleted
        /\ w.tokenRelationships = m.tokenRelationships
        /\ w.ledgerId = m.ledgerId
        /\ w.adminKey = m.adminKey
        /\ w.autoRenewAccountId = m.autoRenewAccountId
        /\ w.stakingInfo = m.stakingInfo
        /\ w.contractID = m.contractID
        /\ w.accountID = m.accountID
        /\ w.autoRenewPeriod = m.autoRenewPeriod
        /\ w.expirationTime = m.expirationTime \/ m.expirationTime = Beyond
    BY <1>2, <1>3, <1>5, <2>1, <2>2, NullAssumption DEF Scalar, Seconds,
      Beyond, Wrapped
  <2>4. /\ w.contractID # Null
        /\ w.accountID # Null
        /\ w.autoRenewPeriod # Null
        /\ w.expirationTime # Null
    BY <1>2, <1>3, <1>5, <2>1, <2>2, NullAssumption DEF Scalar, Seconds,
      Beyond, Wrapped
  <2>5. /\ r.contractId = w.contractID
        /\ r.accountId = w.accountID
        /\ r.contractAccountId = w.contractAccountID
        /\ r.adminKey = w.adminKey
        /\ r.expirationTime = Seconds(w.expirationTime)
        /\ r.autoRenewPeriod = w.autoRenewPeriod
        /\ r.autoRenewAccountId = w.autoRenewAccountId
        /\ r.storage = w.storage
        /\ r.contractMemo = w.memo
        /\ r.balance = w.balance
        /\ r.isDeleted = w.deleted
        /\ r.tokenRelationships = w.tokenRelationships
        /\ r.ledgerId = w.ledgerId
        /\ r.stakingInfo = w.stakingInfo
    BY <1>5 DEF ContractInfoNew, Copied, ContractInfoDecode
  <2>6. /\ r.contractId = o.contractId
        /\ r.accountId = o.accountId
        /\ r.contractAccountId = o.contractAccountId
        /\ r.adminKey = o.adminKey
        /\ r.expirationTime = o.expirationTime
        /\ r.autoRenewPeriod = o.autoRenewPeriod
        /\ r.autoRenewAccountId = o.autoRenewAccountId
        /\ r.storage = o.storage
        /\ r.contractMemo = o.contractMemo
        /\ r.balance = o.balance
        /\ r.isDeleted = o.isDeleted
        /\ r.tokenRelationships = o.tokenRelationships
        /\ r.ledgerId = o.ledgerId
        /\ r.stakingInfo = o.stakingInfo
    BY <1>2, <1>3, <1>5, <2>1, <2>2, <2>5, NullAssumption DEF Scalar, Seconds,
      Beyond, Wrapped
  <2> QED
    BY <1>2, <1>4, <2>1, <2>3, <2>4, <2>6
<1>6. Starts("ContractInfo")
  BY <1>1, <1>2, <1>3 DEF Starts
<1>7. /\ Of(LostFields, "ContractInfo") = {}
      /\ Of(Faded, "ContractInfo") = {}
  BY DEF Of, LostFields, Faded
<1>8. ASSUME NEW m, Sent("ContractInfo", m),
             NEW o, o = Read("ContractInfo", m),
             NEW w,
             w = Received("ContractInfo",
                          Write("ContractInfo", o)),
             NEW r, r = Read("ContractInfo", w)
      PROVE  Tells("ContractInfo", m, o, w, r)
  BY <1>1, <1>5, <1>7, <1>8 DEF Tells, Readable, Sent
<1> QED
  BY <1>6, <1>8, Zenon DEF Telling

(* TokenInfo. *)
LEMMA TokenInfoTelling == Telling("TokenInfo")
<1>1. /\ MessageOf("TokenInfo") = TokenInfoMessage
      /\ \A m : Read("TokenInfo", m)
                  = TokenInfoNew(TokenInfoDecode(m))
      /\ \A o : Write("TokenInfo", o)
                  = TokenInfoEncode(o)
  BY DEF MessageOf, Read, Write
<1>2. DOMAIN TokenInfoMessage =
        {"name", "symbol", "decimals", "totalSupply", "deleted", "memo",
         "customFees", "tokenType", "supplyType", "maxSupply", "ledgerId",
         "treasury", "adminKey", "kycKey", "freezeKey", "pauseKey",
         "wipeKey", "supplyKey", "feeScheduleKey", "autoRenewPeriod",
         "tokenId", "defaultFreezeStatus", "defaultKycStatus", "pauseStatus",
         "autoRenewAccount", "expiry"}
  BY DEF TokenInfoMessage, Message, ++
<1>3. /\ \A f \in {"name", "symbol", "decimals", "totalSupply", "deleted",
                   "memo", "customFees", "tokenType", "supplyType",
                   "maxSupply", "ledgerId"} :
           TokenInfoMessage[f] = {0, 1}
      /\ \A f \in {"treasury", "adminKey", "kycKey", "freezeKey", "pauseKey",
                   "wipeKey", "supplyKey", "feeScheduleKey",
                   "autoRenewPeriod"} :
           TokenInfoMessage[f] = {Null, 1}
      /\ TokenInfoMessage.tokenId = {1}
      /\ \A f \in {"defaultFreezeStatus", "defaultKycStatus", "pauseStatus"} :
           TokenInfoMessage[f] = {0, 1, 2}
      /\ TokenInfoMessage.autoRenewAccount = {Null, 0, 1}
      /\ TokenInfoMessage.expiry = {Null, 1, Beyond}
  BY DEF TokenInfoMessage, Message, ++, Times
<1>4. Needed("TokenInfo") \subseteq {"tokenId"}
  BY <1>1, <1>2, <1>3, NullAssumption DEF Needed, Beyond
<1>5. ASSUME NEW m,
             \A f \in DOMAIN TokenInfoMessage :
               m[f] \in TokenInfoMessage[f],
             NEW o,
             o = TokenInfoNew(TokenInfoDecode(m)),
             NEW e, e = TokenInfoEncode(o),
             NEW w, w = Received("TokenInfo", e),
             NEW r,
             r = TokenInfoNew(TokenInfoDecode(w))
      PROVE  /\ \A f \in DOMAIN TokenInfoMessage :
                  w[f] = m[f] \/ m[f] = Beyond
                    \/ f = "autoRenewAccount"
             /\ \A f \in Needed("TokenInfo") : w[f] # Null
             /\ \A f \in DOMAIN o :
                  r[f] = o[f]
  <2>1. /\ DOMAIN o = {"tokenId", "name", "symbol", "decimals", "totalSupply",
                      "treasuryAccountId", "adminKey", "kycKey", "freezeKey",
                      "pauseKey", "wipeKey", "supplyKey", "feeScheduleKey",
                      "defaultFreezeStatus", "defaultKycStatus",
                      "pauseStatus", "isDeleted", "autoRenewAccountId",
                      "autoRenewPeriod", "expirationTime", "tokenMemo",
                      "customFees", "tokenType", "supplyType", "maxSupply",
                      "ledgerId"}
        /\ o.tokenId = m.tokenId
        /\ o.name = m.name
        /\ o.symbol = m.symbol
        /\ o.decimals = m.decimals
        /\ o.totalSupply = m.totalSupply
        /\ o.treasuryAccountId = m.treasury
        /\ o.adminKey = m.adminKey
        /\ o.kycKey = m.kycKey
        /\ o.freezeKey = m.freezeKey
        /\ o.pauseKey = m.pauseKey
        /\ o.wipeKey = m.wipeKey
        /\ o.supplyKey = m.supplyKey
        /\ o.feeScheduleKey = m.feeScheduleKey
        /\ o.defaultFreezeStatus = ThreeWay(m.defaultFreezeStatus)
        /\ o.defaultKycStatus = ThreeWay(m.defaultKycStatus)
        /\ o.pauseStatus = ThreeWay(m.pauseStatus)
        /\ o.isDeleted = m.deleted
        /\ o.autoRenewAccountId
             = IF m.autoRenewAccount = 0 THEN Null ELSE m.autoRenewAccount
        /\ o.autoRenewPeriod = m.autoRenewPeriod
        /\ o.expirationTime = Seconds(m.expiry)
        /\ o.tokenMemo = m.memo
        /\ o.customFees = m.customFees
        /\ o.tokenType = m.tokenType
        /\ o.supplyType = m.supplyType
        /\ o.maxSupply = m.maxSupply
        /\ o.ledgerId = m.ledgerId
    BY <1>5 DEF TokenInfoNew, Copied, TokenInfoDecode
  <2>2. /\ w.name = Scalar(o.name)
        /\ w.symbol = Scalar(o.symbol)
        /\ w.decimals = Scalar(o.decimals)
        /\ w.totalSupply = Scalar(o.totalSupply)
        /\ w.deleted = Scalar(o.isDeleted)
        /\ w.memo = Scalar(o.tokenMemo)
        /\ w.customFees = Scalar(o.customFees)
        /\ w.tokenType = Scalar(o.tokenType)
        /\ w.supplyType = Scalar(o.supplyType)
        /\ w.maxSupply = Scalar(o.maxSupply)
        /\ w.ledgerId = Scalar(o.ledgerId)
        /\ w.treasury = o.treasuryAccountId
        /\ w.adminKey = o.adminKey
        /\ w.kycKey = o.kycKey
        /\ w.freezeKey = o.freezeKey
        /\ w.pauseKey = o.pauseKey
        /\ w.wipeKey = o.wipeKey
        /\ w.supplyKey = o.supplyKey
        /\ w.feeScheduleKey = o.feeScheduleKey
        /\ w.autoRenewPeriod = o.autoRenewPeriod
        /\ w.tokenId = o.tokenId
        /\ w.defaultFreezeStatus = Status(o.defaultFreezeStatus)
        /\ w.defaultKycStatus = Status(o.defaultKycStatus)
        /\ w.pauseStatus = Status(o.pauseStatus)
        /\ w.autoRenewAccount = o.autoRenewAccountId
        /\ w.expiry = o.expirationTime
    BY <1>1, <1>2, <1>5 DEF Received, TokenInfoEncode
  <2>3. /\ w.name = m.name
        /\ w.symbol = m.symbol
        /\ w.decimals = m.decimals
        /\ w.totalSupply = m.totalSupply
        /\ w.deleted = m.deleted
        /\ w.memo = m.memo
        /\ w.customFees = m.customFees
        /\ w.tokenType = m.tokenType
        /\ w.supplyType = m.supplyType
        /\ w.maxSupply = m.maxSupply
        /\ w.ledgerId = m.ledgerId
        /\ w.treasury = m.treasury
        /\ w.adminKey = m.adminKey
        /\ w.kycKey = m.kycKey
        /\ w.freezeKey = m.freezeKey
        /\ w.pauseKey = m.pauseKey
        /\ w.wipeKey = m.wipeKey
        /\ w.supplyKey = m.supplyKey
        /\ w.feeScheduleKey = m.feeScheduleKey
        /\ w.autoRenewPeriod = m.autoRenewPeriod
        /\ w.tokenId = m.tokenId
        /\ w.defaultFreezeStatus = m.defaultFreezeStatus
        /\ w.defaultKycStatus = m.defaultKycStatus
        /\ w.pauseStatus = m.pauseStatus
        /\ w.expiry = m.expiry \/ m.expiry = Beyond
    BY <1>2, <1>3, <1>5, <2>1, <2>2, NullAssumption DEF Scalar, Seconds,
      Status, ThreeWay, Beyond, Wrapped
  <2>4. /\ w.tokenId # Null
    BY <1>2, <1>3, <1>5, <2>1, <2>2, NullAssumption DEF Scalar, Seconds,
      Status, ThreeWay, Beyond, Wrapped
  <2>5. /\ r.tokenId = w.tokenId
        /\ r.name = w.name
        /\ r.symbol = w.symbol
        /\ r.decimals = w.decimals
        /\ r.totalSupply = w.totalSupply
        /\ r.treasuryAccountId = w.treasury
        /\ r.adminKey = w.adminKey
        /\ r.kycKey = w.kycKey
        /\ r.freezeKey = w.freezeKey
        /\ r.pauseKey = w.pauseKey
        /\ r.wipeKey = w.wipeKey
        /\ r.supplyKey = w.supplyKey
        /\ r.feeScheduleKey = w.feeScheduleKey
        /\ r.defaultFreezeStatus = ThreeWay(w.defaultFreezeStatus)
        /\ r.defaultKycStatus = ThreeWay(w.defaultKycStatus)
        /\ r.pauseStatus = ThreeWay(w.pauseStatus)
        /\ r.isDeleted = w.deleted
        /\ r.autoRenewAccountId
             = IF w.autoRenewAccount = 0 THEN Null ELSE w.autoRenewAccount
        /\ r.autoRenewPeriod = w.autoRenewPeriod
        /\ r.expirationTime = Seconds(w.expiry)
        /\ r.tokenMemo = w.memo
        /\ r.customFees = w.customFees
        /\ r.tokenType = w.tokenType
        /\ r.supplyType = w.supplyType
        /\ r.maxSupply = w.maxSupply
        /\ r.ledgerId = w.ledgerId
    BY <1>5 DEF TokenInfoNew, Copied, TokenInfoDecode
  <2>6. /\ r.tokenId = o.tokenId
        /\ r.name = o.name
        /\ r.symbol = o.symbol
        /\ r.decimals = o.decimals
        /\ r.totalSupply = o.totalSupply
        /\ r.treasuryAccountId = o.treasuryAccountId
        /\ r.adminKey = o.adminKey
        /\ r.kycKey = o.kycKey
        /\ r.freezeKey = o.freezeKey
        /\ r.pauseKey = o.pauseKey
        /\ r.wipeKey = o.wipeKey
        /\ r.supplyKey = o.supplyKey
        /\ r.feeScheduleKey = o.feeScheduleKey
        /\ r.defaultFreezeStatus = o.defaultFreezeStatus
        /\ r.defaultKycStatus = o.defaultKycStatus
        /\ r.pauseStatus = o.pauseStatus
        /\ r.isDeleted = o.isDeleted
        /\ r.autoRenewAccountId = o.autoRenewAccountId
        /\ r.autoRenewPeriod = o.autoRenewPeriod
        /\ r.expirationTime = o.expirationTime
        /\ r.tokenMemo = o.tokenMemo
        /\ r.customFees = o.customFees
        /\ r.tokenType = o.tokenType
        /\ r.supplyType = o.supplyType
        /\ r.maxSupply = o.maxSupply
        /\ r.ledgerId = o.ledgerId
    BY <1>2, <1>3, <1>5, <2>1, <2>2, <2>5, NullAssumption DEF Scalar, Seconds,
      Status, ThreeWay, Beyond, Wrapped
  <2> QED
    BY <1>2, <1>4, <2>1, <2>3, <2>4, <2>6
<1>6. Starts("TokenInfo")
  BY <1>1, <1>2, <1>3 DEF Starts
<1>7. /\ Of(LostFields, "TokenInfo") = {"autoRenewAccount"}
      /\ Of(Faded, "TokenInfo") = {}
  BY DEF Of, LostFields, Faded
<1>8. ASSUME NEW m, Sent("TokenInfo", m),
             NEW o, o = Read("TokenInfo", m),
             NEW w,
             w = Received("TokenInfo",
                          Write("TokenInfo", o)),
             NEW r, r = Read("TokenInfo", w)
      PROVE  Tells("TokenInfo", m, o, w, r)
  BY <1>1, <1>5, <1>7, <1>8 DEF Tells, Readable, Sent
<1> QED
  BY <1>6, <1>8, Zenon DEF Telling

(* TokenNftInfo. *)
LEMMA TokenNftInfoTelling == Telling("TokenNftInfo")
<1>1. /\ MessageOf("TokenNftInfo") = TokenNftInfoMessage
      /\ \A m : Read("TokenNftInfo", m)
                  = TokenNftInfoNew(TokenNftInfoDecode(m))
      /\ \A o : Write("TokenNftInfo", o)
                  = TokenNftInfoEncode(o)
  BY DEF MessageOf, Read, Write
<1>2. DOMAIN TokenNftInfoMessage =
        {"metadata", "ledgerId", "spenderId", "nftID", "accountID",
         "creationTime"}
  BY DEF TokenNftInfoMessage, Message, ++
<1>3. /\ \A f \in {"metadata", "ledgerId"} :
           TokenNftInfoMessage[f] = {0, 1}
      /\ TokenNftInfoMessage.spenderId = {Null, 1}
      /\ \A f \in {"nftID", "accountID"} :
           TokenNftInfoMessage[f] = {1}
      /\ TokenNftInfoMessage.creationTime = {1, Beyond}
  BY DEF TokenNftInfoMessage, Message, ++, Times
<1>4. Needed("TokenNftInfo") \subseteq {"nftID", "accountID",
                                           "creationTime"}
  BY <1>1, <1>2, <1>3, NullAssumption DEF Needed, Beyond
<1>5. ASSUME NEW m,
             \A f \in DOMAIN TokenNftInfoMessage :
               m[f] \in TokenNftInfoMessage[f],
             NEW o,
             o = TokenNftInfoNew(TokenNftInfoDecode(m)),
             NEW e, e = TokenNftInfoEncode(o),
             NEW w, w = Received("TokenNftInfo", e),
             NEW r,
             r = TokenNftInfoNew(TokenNftInfoDecode(w))
      PROVE  /\ \A f \in DOMAIN TokenNftInfoMessage :
                  w[f] = m[f] \/ m[f] = Beyond
             /\ \A f \in Needed("TokenNftInfo") : w[f] # Null
             /\ \A f \in DOMAIN o :
                  r[f] = o[f]
  <2>1. /\ DOMAIN o = {"nftId", "accountId", "creationTime", "metadata",
                      "ledgerId", "spenderId"}
        /\ o.nftId = m.nftID
        /\ o.accountId = m.accountID
        /\ o.creationTime = Seconds(m.creationTime)
        /\ o.metadata = m.metadata
        /\ o.ledgerId = m.ledgerId
        /\ o.spenderId = m.spenderId
    BY <1>5 DEF TokenNftInfoNew, Copied, TokenNftInfoDecode
  <2>2. /\ w.metadata = Scalar(o.metadata)
        /\ w.ledgerId = Scalar(o.ledgerId)
        /\ w.spenderId = o.spenderId
        /\ w.nftID = o.nftId
        /\ w.accountID = o.accountId
        /\ w.creationTime = o.creationTime
    BY <1>1, <1>2, <1>5 DEF Received, TokenNftInfoEncode
  <2>3. /\ w.metadata = m.metadata
        /\ w.ledgerId = m.ledgerId
        /\ w.spenderId = m.spenderId
        /\ w.nftID = m.nftID
        /\ w.accountID = m.accountID
        /\ w.creationTime = m.creationTime \/ m.creationTime = Beyond
    BY <1>2, <1>3, <1>5, <2>1, <2>2, NullAssumption DEF Scalar, Seconds,
      Beyond, Wrapped
  <2>4. /\ w.nftID # Null
        /\ w.accountID # Null
        /\ w.creationTime # Null
    BY <1>2, <1>3, <1>5, <2>1, <2>2, NullAssumption DEF Scalar, Seconds,
      Beyond, Wrapped
  <2>5. /\ r.nftId = w.nftID
        /\ r.accountId = w.accountID
        /\ r.creationTime = Seconds(w.creationTime)
        /\ r.metadata = w.metadata
        /\ r.ledgerId = w.ledgerId
        /\ r.spenderId = w.spenderId
    BY <1>5 DEF TokenNftInfoNew, Copied, TokenNftInfoDecode
  <2>6. /\ r.nftId = o.nftId
        /\ r.accountId = o.accountId
        /\ r.creationTime = o.creationTime
        /\ r.metadata = o.metadata
        /\ r.ledgerId = o.ledgerId
        /\ r.spenderId = o.spenderId
    BY <1>2, <1>3, <1>5, <2>1, <2>2, <2>5, NullAssumption DEF Scalar, Seconds,
      Beyond, Wrapped
  <2> QED
    BY <1>2, <1>4, <2>1, <2>3, <2>4, <2>6
<1>6. Starts("TokenNftInfo")
  BY <1>1, <1>2, <1>3 DEF Starts
<1>7. /\ Of(LostFields, "TokenNftInfo") = {}
      /\ Of(Faded, "TokenNftInfo") = {}
  BY DEF Of, LostFields, Faded
<1>8. ASSUME NEW m, Sent("TokenNftInfo", m),
             NEW o, o = Read("TokenNftInfo", m),
             NEW w,
             w = Received("TokenNftInfo",
                          Write("TokenNftInfo", o)),
             NEW r, r = Read("TokenNftInfo", w)
      PROVE  Tells("TokenNftInfo", m, o, w, r)
  BY <1>1, <1>5, <1>7, <1>8 DEF Tells, Readable, Sent
<1> QED
  BY <1>6, <1>8, Zenon DEF Telling

(* TokenAssociation. *)
LEMMA TokenAssociationTelling == Telling("TokenAssociation")
<1>1. /\ MessageOf("TokenAssociation") = TokenAssociationMessage
      /\ \A m : Read("TokenAssociation", m)
                  = TokenAssociationNew(TokenAssociationDecode(m))
      /\ \A o : Write("TokenAssociation", o)
                  = TokenAssociationEncode(o)
  BY DEF MessageOf, Read, Write
<1>2. DOMAIN TokenAssociationMessage =
        {"accountId", "tokenId"}
  BY DEF TokenAssociationMessage, Message
<1>3. /\ \A f \in {"accountId", "tokenId"} :
           TokenAssociationMessage[f] = {Null, 1}
  BY DEF TokenAssociationMessage, Message
<1>4. Needed("TokenAssociation") \subseteq {}
  BY <1>1, <1>2, <1>3, NullAssumption DEF Needed, Beyond
<1>5. ASSUME NEW m,
             \A f \in DOMAIN TokenAssociationMessage :
               m[f] \in TokenAssociationMessage[f],
             NEW o,
             o = TokenAssociationNew(TokenAssociationDecode(m)),
             NEW e, e = TokenAssociationEncode(o),
             NEW w, w = Received("TokenAssociation", e),
             NEW r,
             r = TokenAssociationNew(TokenAssociationDecode(w))
      PROVE  /\ \A f \in DOMAIN TokenAssociationMessage :
                  w[f] = m[f] \/ m[f] = Beyond
             /\ \A f \in Needed("TokenAssociation") : w[f] # Null
             /\ \A f \in DOMAIN o :
                  r[f] = o[f]
  <2>1. /\ DOMAIN o = {"accountId", "tokenId"}
        /\ o.accountId = m.accountId
        /\ o.tokenId = m.tokenId
    BY <1>5 DEF TokenAssociationNew, Constructed, TokenAssociationDecode
  <2>2. /\ w.accountId = o.accountId
        /\ w.tokenId = o.tokenId
    BY <1>1, <1>2, <1>5 DEF Received, TokenAssociationEncode
  <2>3. /\ w.accountId = m.accountId
        /\ w.tokenId = m.tokenId
    BY <1>2, <1>3, <1>5, <2>1, <2>2, NullAssumption
  <2>5. /\ r.accountId = w.accountId
        /\ r.tokenId = w.tokenId
    BY <1>5 DEF TokenAssociationNew, Constructed, TokenAssociationDecode
  <2>6. /\ r.accountId = o.accountId
        /\ r.tokenId = o.tokenId
    BY <1>2, <1>3, <1>5, <2>1, <2>2, <2>5, NullAssumption
  <2> QED
    BY <1>2, <1>4, <2>1, <2>3, <2>6
<1>6. Starts("TokenAssociation")
  BY <1>1, <1>2, <1>3 DEF Starts
<1>7. /\ Of(LostFields, "TokenAssociation") = {}
      /\ Of(Faded, "TokenAssociation") = {}
  BY DEF Of, LostFields, Faded
<1>8. ASSUME NEW m, Sent("TokenAssociation", m),
             NEW o, o = Read("TokenAssociation", m),
             NEW w,
             w = Received("TokenAssociation",
                          Write("TokenAssociation", o)),
             NEW r, r = Read("TokenAssociation", w)
      PROVE  Tells("TokenAssociation", m, o, w, r)
  BY <1>1, <1>5, <1>7, <1>8 DEF Tells, Readable, Sent
<1> QED
  BY <1>6, <1>8, Zenon DEF Telling

(* AssessedCustomFee. *)
LEMMA AssessedCustomFeeTelling == Telling("AssessedCustomFee")
<1>1. /\ MessageOf("AssessedCustomFee") = AssessedCustomFeeMessage
      /\ \A m : Read("AssessedCustomFee", m)
                  = AssessedCustomFeeNew(AssessedCustomFeeDecode(m))
      /\ \A o : Write("AssessedCustomFee", o)
                  = AssessedCustomFeeEncode(o)
  BY DEF MessageOf, Read, Write
<1>2. DOMAIN AssessedCustomFeeMessage =
        {"amount", "effectivePayerAccountId", "feeCollectorAccountId",
         "tokenId"}
  BY DEF AssessedCustomFeeMessage, Message
<1>3. /\ \A f \in {"amount", "effectivePayerAccountId"} :
           AssessedCustomFeeMessage[f] = {0, 1}
      /\ \A f \in {"feeCollectorAccountId", "tokenId"} :
           AssessedCustomFeeMessage[f] = {Null, 1}
  BY DEF AssessedCustomFeeMessage, Message
<1>4. Needed("AssessedCustomFee") \subseteq {}
  BY <1>1, <1>2, <1>3, NullAssumption DEF Needed, Beyond
<1>5. ASSUME NEW m,
             \A f \in DOMAIN AssessedCustomFeeMessage :
               m[f] \in AssessedCustomFeeMessage[f],
             NEW o,
             o = AssessedCustomFeeNew(AssessedCustomFeeDecode(m)),
             NEW e, e = AssessedCustomFeeEncode(o),
             NEW w, w = Received("AssessedCustomFee", e),
             NEW r,
             r = AssessedCustomFeeNew(AssessedCustomFeeDecode(w))
      PROVE  /\ \A f \in DOMAIN AssessedCustomFeeMessage :
                  w[f] = m[f] \/ m[f] = Beyond
             /\ \A f \in Needed("AssessedCustomFee") : w[f] # Null
             /\ \A f \in DOMAIN o :
                  r[f] = o[f]
  <2>1. /\ DOMAIN o = {"feeCollectorAccountId", "tokenId", "amount",
                      "payerAccountIds"}
        /\ o.feeCollectorAccountId = m.feeCollectorAccountId
        /\ o.tokenId = m.tokenId
        /\ o.amount = m.amount
        /\ o.payerAccountIds = m.effectivePayerAccountId
    BY <1>5 DEF AssessedCustomFeeNew, Constructed, AssessedCustomFeeDecode
  <2>2. /\ w.amount = Scalar(o.amount)
        /\ w.effectivePayerAccountId = Scalar(o.payerAccountIds)
        /\ w.feeCollectorAccountId = o.feeCollectorAccountId
        /\ w.tokenId = o.tokenId
    BY <1>1, <1>2, <1>5 DEF Received, AssessedCustomFeeEncode
  <2>3. /\ w.amount = m.amount
        /\ w.effectivePayerAccountId = m.effectivePayerAccountId
        /\ w.feeCollectorAccountId = m.feeCollectorAccountId
        /\ w.tokenId = m.tokenId
    BY <1>2, <1>3, <1>5, <2>1, <2>2, NullAssumption DEF Scalar
  <2>5. /\ r.feeCollectorAccountId = w.feeCollectorAccountId
        /\ r.tokenId = w.tokenId
        /\ r.amount = w.amount
        /\ r.payerAccountIds = w.effectivePayerAccountId
    BY <1>5 DEF AssessedCustomFeeNew, Constructed, AssessedCustomFeeDecode
  <2>6. /\ r.feeCollectorAccountId = o.feeCollectorAccountId
        /\ r.tokenId = o.tokenId
        /\ r.amount = o.amount
        /\ r.payerAccountIds = o.payerAccountIds
    BY <1>2, <1>3, <1>5, <2>1, <2>2, <2>5, NullAssumption DEF Scalar
  <2> QED
    BY <1>2, <1>4, <2>1, <2>3, <2>6
<1>6. Starts("AssessedCustomFee")
  BY <1>1, <1>2, <1>3 DEF Starts
<1>7. /\ Of(LostFields, "AssessedCustomFee") = {}
      /\ Of(Faded, "AssessedCustomFee") = {}
  BY DEF Of, LostFields, Faded
<1>8. ASSUME NEW m, Sent("AssessedCustomFee", m),
             NEW o, o = Read("AssessedCustomFee", m),
             NEW w,
             w = Received("AssessedCustomFee",
                          Write("AssessedCustomFee", o)),
             NEW r, r = Read("AssessedCustomFee", w)
      PROVE  Tells("AssessedCustomFee", m, o, w, r)
  BY <1>1, <1>5, <1>7, <1>8 DEF Tells, Readable, Sent
<1> QED
  BY <1>6, <1>8, Zenon DEF Telling

(* CustomFixedFee. *)
LEMMA CustomFixedFeeTelling == Telling("CustomFixedFee")
<1>1. /\ MessageOf("CustomFixedFee") = CustomFixedFeeMessage
      /\ \A m : Read("CustomFixedFee", m)
                  = CustomFixedFeeNew(CustomFixedFeeDecode(m))
      /\ \A o : Write("CustomFixedFee", o)
                  = CustomFixedFeeEncode(o)
  BY DEF MessageOf, Read, Write
<1>2. DOMAIN CustomFixedFeeMessage =
        {"allCollectorsAreExempt", "amount", "feeCollectorAccountId",
         "denominatingTokenId"}
  BY DEF CustomFixedFeeMessage, Message
<1>3. /\ \A f \in {"allCollectorsAreExempt", "amount"} :
           CustomFixedFeeMessage[f] = {0, 1}
      /\ \A f \in {"feeCollectorAccountId", "denominatingTokenId"} :
           CustomFixedFeeMessage[f] = {Null, 1}
  BY DEF CustomFixedFeeMessage, Message
<1>4. Needed("CustomFixedFee") \subseteq {}
  BY <1>1, <1>2, <1>3, NullAssumption DEF Needed, Beyond
<1>5. ASSUME NEW m,
             \A f \in DOMAIN CustomFixedFeeMessage :
               m[f] \in CustomFixedFeeMessage[f],
             NEW o,
             o = CustomFixedFeeNew(CustomFixedFeeDecode(m)),
             NEW e, e = CustomFixedFeeEncode(o),
             NEW w, w = Received("CustomFixedFee", e),
             NEW r,
             r = CustomFixedFeeNew(CustomFixedFeeDecode(w))
      PROVE  /\ \A f \in DOMAIN CustomFixedFeeMessage :
                  w[f] = m[f] \/ m[f] = Beyond
             /\ \A f \in Needed("CustomFixedFee") : w[f] # Null
             /\ \A f \in DOMAIN o :
                  r[f] = o[f]
  <2>1. /\ DOMAIN o = {"feeCollectorAccountId", "allCollectorsAreExempt",
                      "denominatingTokenId", "amount"}
        /\ o.feeCollectorAccountId = m.feeCollectorAccountId
        /\ o.allCollectorsAreExempt
             = IF m.allCollectorsAreExempt # Null
               THEN m.allCollectorsAreExempt ELSE 0
        /\ o.denominatingTokenId = m.denominatingTokenId
        /\ o.amount = m.amount
    BY <1>5 DEF CustomFixedFeeNew, Constructed, CustomFixedFeeDecode
  <2>2. /\ w.allCollectorsAreExempt = Scalar(o.allCollectorsAreExempt)
        /\ w.amount = Scalar(o.amount)
        /\ w.feeCollectorAccountId = o.feeCollectorAccountId
        /\ w.denominatingTokenId = o.denominatingTokenId
    BY <1>1, <1>2, <1>5 DEF Received, CustomFixedFeeEncode
  <2>3. /\ w.allCollectorsAreExempt = m.allCollectorsAreExempt
        /\ w.amount = m.amount
        /\ w.feeCollectorAccountId = m.feeCollectorAccountId
        /\ w.denominatingTokenId = m.denominatingTokenId
    BY <1>2, <1>3, <1>5, <2>1, <2>2, NullAssumption DEF Scalar
  <2>5. /\ r.feeCollectorAccountId = w.feeCollectorAccountId
        /\ r.allCollectorsAreExempt
             = IF w.allCollectorsAreExempt # Null
               THEN w.allCollectorsAreExempt ELSE 0
        /\ r.denominatingTokenId = w.denominatingTokenId
        /\ r.amount = w.amount
    BY <1>5 DEF CustomFixedFeeNew, Constructed, CustomFixedFeeDecode
  <2>6. /\ r.feeCollectorAccountId = o.feeCollectorAccountId
        /\ r.allCollectorsAreExempt = o.allCollectorsAreExempt
        /\ r.denominatingTokenId = o.denominatingTokenId
        /\ r.amount = o.amount
    BY <1>2, <1>3, <1>5, <2>1, <2>2, <2>5, NullAssumption DEF Scalar
  <2> QED
    BY <1>2, <1>4, <2>1, <2>3, <2>6
<1>6. Starts("CustomFixedFee")
  BY <1>1, <1>2, <1>3 DEF Starts
<1>7. /\ Of(LostFields, "CustomFixedFee") = {}
      /\ Of(Faded, "CustomFixedFee") = {}
  BY DEF Of, LostFields, Faded
<1>8. ASSUME NEW m, Sent("CustomFixedFee", m),
             NEW o, o = Read("CustomFixedFee", m),
             NEW w,
             w = Received("CustomFixedFee",
                          Write("CustomFixedFee", o)),
             NEW r, r = Read("CustomFixedFee", w)
      PROVE  Tells("CustomFixedFee", m, o, w, r)
  BY <1>1, <1>5, <1>7, <1>8 DEF Tells, Readable, Sent
<1> QED
  BY <1>6, <1>8, Zenon DEF Telling

(* CustomFractionalFee. *)
LEMMA CustomFractionalFeeTelling == Telling("CustomFractionalFee")
<1>1. /\ MessageOf("CustomFractionalFee") = CustomFractionalFeeMessage
      /\ \A m : Read("CustomFractionalFee", m)
                  = CustomFractionalFeeNew(CustomFractionalFeeDecode(m))
      /\ \A o : Write("CustomFractionalFee", o)
                  = CustomFractionalFeeEncode(o)
  BY DEF MessageOf, Read, Write
<1>2. DOMAIN CustomFractionalFeeMessage =
        {"allCollectorsAreExempt", "minimumAmount", "maximumAmount",
         "netOfTransfers", "feeCollectorAccountId", "fractionalAmount"}
  BY DEF CustomFractionalFeeMessage, Message
<1>3. /\ \A f \in {"allCollectorsAreExempt", "minimumAmount",
                   "maximumAmount", "netOfTransfers"} :
           CustomFractionalFeeMessage[f] = {0, 1}
      /\ CustomFractionalFeeMessage.feeCollectorAccountId = {Null, 1}
      /\ CustomFractionalFeeMessage.fractionalAmount = {1}
  BY DEF CustomFractionalFeeMessage, Message
<1>4. Needed("CustomFractionalFee") \subseteq {"fractionalAmount"}
  BY <1>1, <1>2, <1>3, NullAssumption DEF Needed, Beyond
<1>5. ASSUME NEW m,
             \A f \in DOMAIN CustomFractionalFeeMessage :
               m[f] \in CustomFractionalFeeMessage[f],
             NEW o,
             o = CustomFractionalFeeNew(CustomFractionalFeeDecode(m)),
             NEW e, e = CustomFractionalFeeEncode(o),
             NEW w, w = Received("CustomFractionalFee", e),
             NEW r,
             r = CustomFractionalFeeNew(CustomFractionalFeeDecode(w))
      PROVE  /\ \A f \in DOMAIN CustomFractionalFeeMessage :
                  w[f] = m[f] \/ m[f] = Beyond
             /\ \A f \in Needed("CustomFractionalFee") : w[f] # Null
             /\ \A f \in DOMAIN o :
                  r[f] = o[f]
  <2>1. /\ DOMAIN o = {"feeCollectorAccountId", "allCollectorsAreExempt",
                      "numerator", "denominator", "min", "max",
                      "assessmentMethod"}
        /\ o.feeCollectorAccountId = m.feeCollectorAccountId
        /\ o.allCollectorsAreExempt
             = IF m.allCollectorsAreExempt # Null
               THEN m.allCollectorsAreExempt ELSE 0
        /\ o.numerator = m.fractionalAmount
        /\ o.denominator = m.fractionalAmount
        /\ o.min = m.minimumAmount
        /\ o.max = m.maximumAmount
        /\ o.assessmentMethod = m.netOfTransfers
    BY <1>5 DEF CustomFractionalFeeNew, Constructed, CustomFractionalFeeDecode
  <2>2. /\ w.allCollectorsAreExempt = Scalar(o.allCollectorsAreExempt)
        /\ w.minimumAmount = Scalar(o.min)
        /\ w.maximumAmount = Scalar(o.max)
        /\ w.netOfTransfers = Scalar(o.assessmentMethod)
        /\ w.feeCollectorAccountId = o.feeCollectorAccountId
        /\ w.fractionalAmount = o.numerator
    BY <1>1, <1>2, <1>5 DEF Received, CustomFractionalFeeEncode
  <2>3. /\ w.allCollectorsAreExempt = m.allCollectorsAreExempt
        /\ w.minimumAmount = m.minimumAmount
        /\ w.maximumAmount = m.maximumAmount
        /\ w.netOfTransfers = m.netOfTransfers
        /\ w.feeCollectorAccountId = m.feeCollectorAccountId
        /\ w.fractionalAmount = m.fractionalAmount
    BY <1>2, <1>3, <1>5, <2>1, <2>2, NullAssumption DEF Scalar
  <2>4. /\ w.fractionalAmount # Null
    BY <1>2, <1>3, <1>5, <2>1, <2>2, NullAssumption DEF Scalar
  <2>5. /\ r.feeCollectorAccountId = w.feeCollectorAccountId
        /\ r.allCollectorsAreExempt
             = IF w.allCollectorsAreExempt # Null
               THEN w.allCollectorsAreExempt ELSE 0
        /\ r.numerator = w.fractionalAmount
        /\ r.denominator = w.fractionalAmount
        /\ r.min = w.minimumAmount
        /\ r.max = w.maximumAmount
        /\ r.assessmentMethod = w.netOfTransfers
    BY <1>5 DEF CustomFractionalFeeNew, Constructed, CustomFractionalFeeDecode
  <2>6. /\ r.feeCollectorAccountId = o.feeCollectorAccountId
        /\ r.allCollectorsAreExempt = o.allCollectorsAreExempt
        /\ r.numerator = o.numerator
        /\ r.denominator = o.denominator
        /\ r.min = o.min
        /\ r.max = o.max
        /\ r.assessmentMethod = o.assessmentMethod
    BY <1>2, <1>3, <1>5, <2>1, <2>2, <2>5, NullAssumption DEF Scalar
  <2> QED
    BY <1>2, <1>4, <2>1, <2>3, <2>4, <2>6
<1>6. Starts("CustomFractionalFee")
  BY <1>1, <1>2, <1>3 DEF Starts
<1>7. /\ Of(LostFields, "CustomFractionalFee") = {}
      /\ Of(Faded, "CustomFractionalFee") = {}
  BY DEF Of, LostFields, Faded
<1>8. ASSUME NEW m, Sent("CustomFractionalFee", m),
             NEW o, o = Read("CustomFractionalFee", m),
             NEW w,
             w = Received("CustomFractionalFee",
                          Write("CustomFractionalFee", o)),
             NEW r, r = Read("CustomFractionalFee", w)
      PROVE  Tells("CustomFractionalFee", m, o, w, r)
  BY <1>1, <1>5, <1>7, <1>8 DEF Tells, Readable, Sent
<1> QED
  BY <1>6, <1>8, Zenon DEF Telling

(* CustomRoyaltyFee. *)
LEMMA CustomRoyaltyFeeTelling == Telling("CustomRoyaltyFee")
<1>1. /\ MessageOf("CustomRoyaltyFee") = CustomRoyaltyFeeMessage
      /\ \A m : Read("CustomRoyaltyFee", m)
                  = CustomRoyaltyFeeNew(CustomRoyaltyFeeDecode(m))
      /\ \A o : Write("CustomRoyaltyFee", o)
                  = CustomRoyaltyFeeEncode(o)
  BY DEF MessageOf, Read, Write
<1>2. DOMAIN CustomRoyaltyFeeMessage =
        {"allCollectorsAreExempt", "feeCollectorAccountId", "fallbackFee",
         "exchangeValueFraction"}
  BY DEF CustomRoyaltyFeeMessage, Message
<1>3. /\ CustomRoyaltyFeeMessage.allCollectorsAreExempt = {0, 1}
      /\ \A f \in {"feeCollectorAccountId", "fallbackFee"} :
           CustomRoyaltyFeeMessage[f] = {Null, 1}
      /\ CustomRoyaltyFeeMessage.exchangeValueFraction = {1}
  BY DEF CustomRoyaltyFeeMessage, Message
<1>4. Needed("CustomRoyaltyFee") \subseteq {"exchangeValueFraction"}
  BY <1>1, <1>2, <1>3, NullAssumption DEF Needed, Beyond
<1>5. ASSUME NEW m,
             \A f \in DOMAIN CustomRoyaltyFeeMessage :
               m[f] \in CustomRoyaltyFeeMessage[f],
             NEW o,
             o = CustomRoyaltyFeeNew(CustomRoyaltyFeeDecode(m)),
             NEW e, e = CustomRoyaltyFeeEncode(o),
             NEW w, w = Received("CustomRoyaltyFee", e),
             NEW r,
             r = CustomRoyaltyFeeNew(CustomRoyaltyFeeDecode(w))
      PROVE  /\ \A f \in DOMAIN CustomRoyaltyFeeMessage :
                  w[f] = m[f] \/ m[f] = Beyond
             /\ \A f \in Needed("CustomRoyaltyFee") : w[f] # Null
             /\ \A f \in DOMAIN o :
                  r[f] = o[f]
  <2>1. /\ DOMAIN o = {"feeCollectorAccountId", "allCollectorsAreExempt",
                      "fallbackFee", "numerator", "denominator"}
        /\ o.feeCollectorAccountId = m.feeCollectorAccountId
        /\ o.allCollectorsAreExempt
             = IF m.allCollectorsAreExempt # Null
               THEN m.allCollectorsAreExempt ELSE 0
        /\ o.fallbackFee = m.fallbackFee
        /\ o.numerator = m.exchangeValueFraction
        /\ o.denominator = m.exchangeValueFraction
    BY <1>5 DEF CustomRoyaltyFeeNew, Constructed, CustomRoyaltyFeeDecode
  <2>2. /\ w.allCollectorsAreExempt = Scalar(o.allCollectorsAreExempt)
        /\ w.feeCollectorAccountId = o.feeCollectorAccountId
        /\ w.fallbackFee = o.fallbackFee
        /\ w.exchangeValueFraction = o.numerator
    BY <1>1, <1>2, <1>5 DEF Received, CustomRoyaltyFeeEncode
  <2>3. /\ w.allCollectorsAreExempt = m.allCollectorsAreExempt
        /\ w.feeCollectorAccountId = m.feeCollectorAccountId
        /\ w.fallbackFee = m.fallbackFee
        /\ w.exchangeValueFraction = m.exchangeValueFraction
    BY <1>2, <1>3, <1>5, <2>1, <2>2, NullAssumption DEF Scalar
  <2>4. /\ w.exchangeValueFraction # Null
    BY <1>2, <1>3, <1>5, <2>1, <2>2, NullAssumption DEF Scalar
  <2>5. /\ r.feeCollectorAccountId = w.feeCollectorAccountId
        /\ r.allCollectorsAreExempt
             = IF w.allCollectorsAreExempt # Null
               THEN w.allCollectorsAreExempt ELSE 0
        /\ r.fallbackFee = w.fallbackFee
        /\ r.numerator = w.exchangeValueFraction
        /\ r.denominator = w.exchangeValueFraction
    BY <1>5 DEF CustomRoyaltyFeeNew, Constructed, CustomRoyaltyFeeDecode
  <2>6. /\ r.feeCollectorAccountId = o.feeCollectorAccountId
        /\ r.allCollectorsAreExempt = o.allCollectorsAreExempt
        /\ r.fallbackFee = o.fallbackFee
        /\ r.numerator = o.numerator
        /\ r.denominator = o.denominator
    BY <1>2, <1>3, <1>5, <2>1, <2>2, <2>5, NullAssumption DEF Scalar
  <2> QED
    BY <1>2, <1>4, <2>1, <2>3, <2>4, <2>6
<1>6. Starts("CustomRoyaltyFee")
  BY <1>1, <1>2, <1>3 DEF Starts
<1>7. /\ Of(LostFields, "CustomRoyaltyFee") = {}
      /\ Of(Faded, "CustomRoyaltyFee") = {}
  BY DEF Of, LostFields, Faded
<1>8. ASSUME NEW m, Sent("CustomRoyaltyFee", m),
             NEW o, o = Read("CustomRoyaltyFee", m),
             NEW w,
             w = Received("CustomRoyaltyFee",
                          Write("CustomRoyaltyFee", o)),
             NEW r, r = Read("CustomRoyaltyFee", w)
      PROVE  Tells("CustomRoyaltyFee", m, o, w, r)
  BY <1>1, <1>5, <1>7, <1>8 DEF Tells, Readable, Sent
<1> QED
  BY <1>6, <1>8, Zenon DEF Telling

(* FileInfo. *)
LEMMA FileInfoTelling == Telling("FileInfo")
<1>1. /\ MessageOf("FileInfo") = FileInfoMessage
      /\ \A m : Read("FileInfo", m)
                  = FileInfoNew(FileInfoDecode(m))
      /\ \A o : Write("FileInfo", o)
                  = FileInfoEncode(o)
  BY DEF MessageOf, Read, Write
<1>2. DOMAIN FileInfoMessage =
        {"size", "deleted", "memo", "ledgerId", "keys", "fileID",
         "expirationTime"}
  BY DEF FileInfoMessage, Message, ++
<1>3. /\ \A f \in {"size", "deleted", "memo", "ledgerId"} :
           FileInfoMessage[f] = {0, 1}
      /\ FileInfoMessage.keys = {Null, 1}
      /\ FileInfoMessage.fileID = {1}
      /\ FileInfoMessage.expirationTime = {1, Beyond}
  BY DEF FileInfoMessage, Message, ++, Times
<1>4. Needed("FileInfo") \subseteq {"fileID", "expirationTime"}
  BY <1>1, <1>2, <1>3, NullAssumption DEF Needed, Beyond
<1>5. ASSUME NEW m,
             \A f \in DOMAIN FileInfoMessage :
               m[f] \in FileInfoMessage[f],
             NEW o,
             o = FileInfoNew(FileInfoDecode(m)),
             NEW e, e = FileInfoEncode(o),
             NEW w, w = Received("FileInfo", e),
             NEW r,
             r = FileInfoNew(FileInfoDecode(w))
      PROVE  /\ \A f \in DOMAIN FileInfoMessage :
                  w[f] = m[f] \/ m[f] = Beyond
                    \/ f = "keys"
             /\ \A f \in Needed("FileInfo") : w[f] # Null
             /\ \A f \in DOMAIN o :
                  r[f] = o[f]
  <2>1. /\ DOMAIN o = {"fileId", "size", "expirationTime", "isDeleted",
                      "keys", "fileMemo", "ledgerId"}
        /\ o.fileId = m.fileID
        /\ o.size = m.size
        /\ o.expirationTime = Seconds(m.expirationTime)
        /\ o.isDeleted = m.deleted
        /\ o.keys = Scalar(m.keys)
        /\ o.fileMemo = m.memo
        /\ o.ledgerId = m.ledgerId
    BY <1>5 DEF FileInfoNew, Copied, FileInfoDecode
  <2>2. /\ w.size = Scalar(o.size)
        /\ w.deleted = Scalar(o.isDeleted)
        /\ w.memo = Scalar(o.fileMemo)
        /\ w.ledgerId = Scalar(o.ledgerId)
        /\ w.keys = o.keys
        /\ w.fileID = o.fileId
        /\ w.expirationTime = o.expirationTime
    BY <1>1, <1>2, <1>5 DEF Received, FileInfoEncode
  <2>3. /\ w.size = m.size
        /\ w.deleted = m.deleted
        /\ w.memo = m.memo
        /\ w.ledgerId = m.ledgerId
        /\ w.fileID = m.fileID
        /\ w.expirationTime = m.expirationTime \/ m.expirationTime = Beyond
    BY <1>2, <1>3, <1>5, <2>1, <2>2, NullAssumption DEF Scalar, Seconds,
      Beyond, Wrapped
  <2>4. /\ w.fileID # Null
        /\ w.expirationTime # Null
    BY <1>2, <1>3, <1>5, <2>1, <2>2, NullAssumption DEF Scalar, Seconds,
      Beyond, Wrapped
  <2>5. /\ r.fileId = w.fileID
        /\ r.size = w.size
        /\ r.expirationTime = Seconds(w.expirationTime)
        /\ r.isDeleted = w.deleted
        /\ r.keys = Scalar(w.keys)
        /\ r.fileMemo = w.memo
        /\ r.ledgerId = w.ledgerId
    BY <1>5 DEF FileInfoNew, Copied, FileInfoDecode
  <2>6. /\ r.fileId = o.fileId
        /\ r.size = o.size
        /\ r.expirationTime = o.expirationTime
        /\ r.isDeleted = o.isDeleted
        /\ r.keys = o.keys
        /\ r.fileMemo = o.fileMemo
        /\ r.ledgerId = o.ledgerId
    BY <1>2, <1>3, <1>5, <2>1, <2>2, <2>5, NullAssumption DEF Scalar, Seconds,
      Beyond, Wrapped
  <2> QED
    BY <1>2, <1>4, <2>1, <2>3, <2>4, <2>6
<1>6. Starts("FileInfo")
  BY <1>1, <1>2, <1>3 DEF Starts
<1>7. /\ Of(LostFields, "FileInfo") = {"keys"}
      /\ Of(Faded, "FileInfo") = {}
  BY DEF Of, LostFields, Faded
<1>8. ASSUME NEW m, Sent("FileInfo", m),
             NEW o, o = Read("FileInfo", m),
             NEW w,
             w = Received("FileInfo",
                          Write("FileInfo", o)),
             NEW r, r = Read("FileInfo", w)
      PROVE  Tells("FileInfo", m, o, w, r)
  BY <1>1, <1>5, <1>7, <1>8 DEF Tells, Readable, Sent
<1> QED
  BY <1>6, <1>8, Zenon DEF Telling

(* TopicInfo. *)
LEMMA TopicInfoTelling == Telling("TopicInfo")
<1>1. /\ MessageOf("TopicInfo") = TopicInfoMessage
      /\ \A m : Read("TopicInfo", m)
                  = TopicInfoNew(TopicInfoDecode(m))
      /\ \A o : Write("TopicInfo", o)
                  = TopicInfoEncode(o)
  BY DEF MessageOf, Read, Write
<1>2. DOMAIN TopicInfoMessage =
        {"memo", "runningHash", "sequenceNumber", "ledgerId", "adminKey",
         "submitKey", "autoRenewPeriod", "autoRenewAccount", "topicID",
         "expirationTime"}
  BY DEF TopicInfoMessage, Message, ++
<1>3. /\ \A f \in {"memo", "runningHash", "sequenceNumber", "ledgerId"} :
           TopicInfoMessage[f] = {0, 1}
      /\ \A f \in {"adminKey", "submitKey", "autoRenewPeriod",
                   "autoRenewAccount"} :
           TopicInfoMessage[f] = {Null, 1}
      /\ TopicInfoMessage.topicID = {1}
      /\ TopicInfoMessage.expirationTime = {Null, 1, Beyond}
  BY DEF TopicInfoMessage, Message, ++, Times
<1>4. "topicID" \in Needed("TopicInfo")
  BY <1>1, <1>2, <1>3 DEF Needed
<1>5. ASSUME NEW m,
             \A f \in DOMAIN TopicInfoMessage :
               m[f] \in TopicInfoMessage[f],
             NEW o,
             o = TopicInfoNew(TopicInfoDecode(m)),
             NEW e, e = TopicInfoEncode(o),
             NEW w, w = Received("TopicInfo", e),
             NEW r,
             r = TopicInfoNew(TopicInfoDecode(w))
      PROVE  /\ \A f \in DOMAIN TopicInfoMessage :
                  w[f] = m[f] \/ m[f] = Beyond
                    \/ f \in {"topicID", "ledgerId"}
             /\ w.topicID = Null
  <2>1. /\ DOMAIN o = {"topicId", "topicMemo", "runningHash",
                      "sequenceNumber", "expirationTime", "adminKey",
                      "submitKey", "autoRenewPeriod", "autoRenewAccountId",
                      "ledgerId"}
        /\ o.topicId = m.topicID
        /\ o.topicMemo = m.memo
        /\ o.runningHash = m.runningHash
        /\ o.sequenceNumber = m.sequenceNumber
        /\ o.expirationTime = Seconds(m.expirationTime)
        /\ o.adminKey = m.adminKey
        /\ o.submitKey = m.submitKey
        /\ o.autoRenewPeriod = m.autoRenewPeriod
        /\ o.autoRenewAccountId = m.autoRenewAccount
        /\ o.ledgerId = m.ledgerId
    BY <1>5 DEF TopicInfoNew, Copied, TopicInfoDecode
  <2>2. /\ w.memo = Scalar(o.topicMemo)
        /\ w.runningHash = Scalar(o.runningHash)
        /\ w.sequenceNumber = Scalar(o.sequenceNumber)
        /\ w.ledgerId = 0
        /\ w.adminKey = o.adminKey
        /\ w.submitKey = o.submitKey
        /\ w.autoRenewPeriod = o.autoRenewPeriod
        /\ w.autoRenewAccount = o.autoRenewAccountId
        /\ w.topicID = Null
        /\ w.expirationTime = o.expirationTime
    BY <1>1, <1>2, <1>3, NullAssumption, <1>5 DEF Received, TopicInfoEncode,
      Absent
  <2>3. /\ w.memo = m.memo
        /\ w.runningHash = m.runningHash
        /\ w.sequenceNumber = m.sequenceNumber
        /\ w.adminKey = m.adminKey
        /\ w.submitKey = m.submitKey
        /\ w.autoRenewPeriod = m.autoRenewPeriod
        /\ w.autoRenewAccount = m.autoRenewAccount
        /\ w.expirationTime = m.expirationTime \/ m.expirationTime = Beyond
    BY <1>2, <1>3, <1>5, <2>1, <2>2, NullAssumption DEF Scalar, Seconds,
      Beyond, Wrapped
  <2> QED
    BY <1>2, <2>2, <2>3
<1>6. Starts("TopicInfo")
  BY <1>1, <1>2, <1>3 DEF Starts
<1>7. /\ Of(LostFields, "TopicInfo") = {"topicID", "ledgerId"}
      /\ Of(Faded, "TopicInfo") = {}
  BY DEF Of, LostFields, Faded
<1>8. ASSUME NEW m, Sent("TopicInfo", m),
             NEW o, o = Read("TopicInfo", m),
             NEW w,
             w = Received("TopicInfo",
                          Write("TopicInfo", o)),
             NEW r, r = Read("TopicInfo", w)
      PROVE  Tells("TopicInfo", m, o, w, r)
  BY <1>1, <1>4, <1>5, <1>7, <1>8 DEF Tells, Readable, Sent
<1> QED
  BY <1>6, <1>8, Zenon DEF Telling

(* ScheduleInfo. *)
LEMMA ScheduleInfoTelling == Telling("ScheduleInfo")
<1>1. /\ MessageOf("ScheduleInfo") = ScheduleInfoMessage
      /\ \A m : Read("ScheduleInfo", m)
                  = ScheduleInfoNew(ScheduleInfoDecode(m))
      /\ \A o : Write("ScheduleInfo", o)
                  = ScheduleInfoEncode(o)
  BY DEF MessageOf, Read, Write
<1>2. DOMAIN ScheduleInfoMessage =
        {"memo", "waitForExpiry", "creatorAccountID", "payerAccountID",
         "scheduledTransactionBody", "adminKey", "signers",
         "scheduledTransactionID", "scheduleID", "expirationTime",
         "executionTime", "deletionTime"}
  BY DEF ScheduleInfoMessage, Message, ++
<1>3. /\ \A f \in {"memo", "waitForExpiry"} :
           ScheduleInfoMessage[f] = {0, 1}
      /\ \A f \in {"creatorAccountID", "payerAccountID",
                   "scheduledTransactionBody", "adminKey", "signers",
                   "scheduledTransactionID"} :
           ScheduleInfoMessage[f] = {Null, 1}
      /\ ScheduleInfoMessage.scheduleID = {1}
      /\ \A f \in {"expirationTime", "executionTime", "deletionTime"} :
           ScheduleInfoMessage[f] = {Null, 1, Beyond}
  BY DEF ScheduleInfoMessage, Message, ++, Times
<1>4. Needed("ScheduleInfo") \subseteq {"scheduleID"}
  BY <1>1, <1>2, <1>3, NullAssumption DEF Needed, Beyond
<1>5. ASSUME NEW m,
             \A f \in DOMAIN ScheduleInfoMessage :
               m[f] \in ScheduleInfoMessage[f],
             NEW o,
             o = ScheduleInfoNew(ScheduleInfoDecode(m)),
             NEW e, e = ScheduleInfoEncode(o),
             NEW w, w = Received("ScheduleInfo", e),
             NEW r,
             r = ScheduleInfoNew(ScheduleInfoDecode(w))
      PROVE  /\ \A f \in DOMAIN ScheduleInfoMessage :
                  w[f] = m[f] \/ m[f] = Beyond
                    \/ f \in {"executionTime", "deletionTime"}
             /\ \A f \in Needed("ScheduleInfo") : w[f] # Null
             /\ \A f \in DOMAIN o :
                  r[f] = o[f] \/ f \in {"executed", "deleted"}
  <2>1. /\ DOMAIN o = {"scheduleId", "creatorAccountId", "payerAccountId",
                      "schedulableTransactionBody", "signers",
                      "scheduleMemo", "adminKey", "expirationTime",
                      "executed", "deleted", "scheduledTransactionId",
                      "waitForExpiry"}
        /\ o.scheduleId = m.scheduleID
        /\ o.creatorAccountId = m.creatorAccountID
        /\ o.payerAccountId = m.payerAccountID
        /\ o.schedulableTransactionBody = m.scheduledTransactionBody
        /\ o.signers = m.signers
        /\ o.scheduleMemo = m.memo
        /\ o.adminKey = m.adminKey
        /\ o.expirationTime = Seconds(m.expirationTime)
        /\ o.executed = Seconds(m.executionTime)
        /\ o.deleted = Seconds(m.deletionTime)
        /\ o.scheduledTransactionId = m.scheduledTransactionID
        /\ o.waitForExpiry = m.waitForExpiry
    BY <1>5 DEF ScheduleInfoNew, ScheduleInfoDecode
  <2>2. /\ w.memo = Scalar(o.scheduleMemo)
        /\ w.waitForExpiry = Scalar(o.waitForExpiry)
        /\ w.creatorAccountID = o.creatorAccountId
        /\ w.payerAccountID = o.payerAccountId
        /\ w.scheduledTransactionBody = o.schedulableTransactionBody
        /\ w.adminKey = o.adminKey
        /\ w.signers = o.signers
        /\ w.scheduledTransactionID = o.scheduledTransactionId
        /\ w.scheduleID = o.scheduleId
        /\ w.expirationTime = o.expirationTime
        /\ w.executionTime = Null
        /\ w.deletionTime = Null
    BY <1>1, <1>2, <1>3, NullAssumption, <1>5 DEF Received,
      ScheduleInfoEncode, Absent
  <2>3. /\ w.memo = m.memo
        /\ w.waitForExpiry = m.waitForExpiry
        /\ w.creatorAccountID = m.creatorAccountID
        /\ w.payerAccountID = m.payerAccountID
        /\ w.scheduledTransactionBody = m.scheduledTransactionBody
        /\ w.adminKey = m.adminKey
        /\ w.signers = m.signers
        /\ w.scheduledTransactionID = m.scheduledTransactionID
        /\ w.scheduleID = m.scheduleID
        /\ w.expirationTime = m.expirationTime \/ m.expirationTime = Beyond
    BY <1>2, <1>3, <1>5, <2>1, <2>2, NullAssumption DEF Scalar, Seconds,
      Beyond, Wrapped
  <2>4. /\ w.scheduleID # Null
    BY <1>2, <1>3, <1>5, <2>1, <2>2, NullAssumption DEF Scalar, Seconds,
      Beyond, Wrapped
  <2>5. /\ r.scheduleId = w.scheduleID
        /\ r.creatorAccountId = w.creatorAccountID
        /\ r.payerAccountId = w.payerAccountID
        /\ r.schedulableTransactionBody = w.scheduledTransactionBody
        /\ r.signers = w.signers
        /\ r.scheduleMemo = w.memo
        /\ r.adminKey = w.adminKey
        /\ r.expirationTime = Seconds(w.expirationTime)
        /\ r.scheduledTransactionId = w.scheduledTransactionID
        /\ r.waitForExpiry = w.waitForExpiry
    BY <1>5 DEF ScheduleInfoNew, ScheduleInfoDecode
  <2>6. /\ r.scheduleId = o.scheduleId
        /\ r.creatorAccountId = o.creatorAccountId
        /\ r.payerAccountId = o.payerAccountId
        /\ r.schedulableTransactionBody = o.schedulableTransactionBody
        /\ r.signers = o.signers
        /\ r.scheduleMemo = o.scheduleMemo
        /\ r.adminKey = o.adminKey
        /\ r.expirationTime = o.expirationTime
        /\ r.scheduledTransactionId = o.scheduledTransactionId
        /\ r.waitForExpiry = o.waitForExpiry
    BY <1>2, <1>3, <1>5, <2>1, <2>2, <2>5, NullAssumption DEF Scalar, Seconds,
      Beyond, Wrapped
  <2> QED
    BY <1>2, <1>4, <2>1, <2>3, <2>4, <2>6
<1>6. Starts("ScheduleInfo")
  BY <1>1, <1>2, <1>3 DEF Starts
<1>7. /\ Of(LostFields, "ScheduleInfo") = {"executionTime", "deletionTime"}
      /\ Of(Faded, "ScheduleInfo") = {"executed", "deleted"}
  BY DEF Of, LostFields, Faded
<1>8. ASSUME NEW m, Sent("ScheduleInfo", m),
             NEW o, o = Read("ScheduleInfo", m),
             NEW w,
             w = Received("ScheduleInfo",
                          Write("ScheduleInfo", o)),
             NEW r, r = Read("ScheduleInfo", w)
      PROVE  Tells("ScheduleInfo", m, o, w, r)
  BY <1>1, <1>5, <1>7, <1>8 DEF Tells, Readable, Sent
<1> QED
  BY <1>6, <1>8, Zenon DEF Telling

(* ExchangeRate. *)
LEMMA ExchangeRateTelling == Telling("ExchangeRate")
<1>1. /\ MessageOf("ExchangeRate") = ExchangeRateMessage
      /\ \A m : Read("ExchangeRate", m)
                  = ExchangeRateNew(ExchangeRateDecode(m))
      /\ \A o : Write("ExchangeRate", o)
                  = ExchangeRateEncode(o)
  BY DEF MessageOf, Read, Write
<1>2. DOMAIN ExchangeRateMessage =
        {"u2uEquiv", "centEquiv", "expirationTime"}
  BY DEF ExchangeRateMessage, Message, ++
<1>3. /\ \A f \in {"u2uEquiv", "centEquiv"} :
           ExchangeRateMessage[f] = {0, 1}
      /\ ExchangeRateMessage.expirationTime = {Null, 1, Beyond}
  BY DEF ExchangeRateMessage, Message, ++, Times
<1>4. Needed("ExchangeRate") \subseteq {}
  BY <1>1, <1>2, <1>3, NullAssumption DEF Needed, Beyond
<1>5. ASSUME NEW m,
             \A f \in DOMAIN ExchangeRateMessage :
               m[f] \in ExchangeRateMessage[f],
             NEW o,
             o = ExchangeRateNew(ExchangeRateDecode(m)),
             NEW e, e = ExchangeRateEncode(o),
             NEW w, w = Received("ExchangeRate", e),
             NEW r,
             r = ExchangeRateNew(ExchangeRateDecode(w))
      PROVE  /\ \A f \in DOMAIN ExchangeRateMessage :
                  w[f] = m[f] \/ m[f] = Beyond
                    \/ f = "expirationTime"
             /\ \A f \in Needed("ExchangeRate") : w[f] # Null
             /\ \A f \in DOMAIN o :
                  r[f] = o[f]
  <2>1. /\ DOMAIN o = {"u2us", "cents", "expirationTime"}
        /\ o.u2us = m.u2uEquiv
        /\ o.cents = m.centEquiv
        /\ o.expirationTime = Scalar(Seconds(m.expirationTime))
    BY <1>5 DEF ExchangeRateNew, Copied, ExchangeRateDecode
  <2>2. /\ w.u2uEquiv = Scalar(o.u2us)
        /\ w.centEquiv = Scalar(o.cents)
        /\ w.expirationTime = o.expirationTime
    BY <1>1, <1>2, <1>5 DEF Received, ExchangeRateEncode
  <2>3. /\ w.u2uEquiv = m.u2uEquiv
        /\ w.centEquiv = m.centEquiv
    BY <1>2, <1>3, <1>5, <2>1, <2>2, NullAssumption DEF Scalar, Seconds,
      Beyond, Wrapped
  <2>5. /\ r.u2us = w.u2uEquiv
        /\ r.cents = w.centEquiv
        /\ r.expirationTime = Scalar(Seconds(w.expirationTime))
    BY <1>5 DEF ExchangeRateNew, Copied, ExchangeRateDecode
  <2>6. /\ r.u2us = o.u2us
        /\ r.cents = o.cents
        /\ r.expirationTime = o.expirationTime
    BY <1>2, <1>3, <1>5, <2>1, <2>2, <2>5, NullAssumption DEF Scalar, Seconds,
      Beyond, Wrapped
  <2> QED
    BY <1>2, <1>4, <2>1, <2>3, <2>6
<1>6. Starts("ExchangeRate")
  BY <1>1, <1>2, <1>3 DEF Starts
<1>7. /\ Of(LostFields, "ExchangeRate") = {"expirationTime"}
      /\ Of(Faded, "ExchangeRate") = {}
  BY DEF Of, LostFields, Faded
<1>8. ASSUME NEW m, Sent("ExchangeRate", m),
             NEW o, o = Read("ExchangeRate", m),
             NEW w,
             w = Received("ExchangeRate",
                          Write("ExchangeRate", o)),
             NEW r, r = Read("ExchangeRate", w)
      PROVE  Tells("ExchangeRate", m, o, w, r)
  BY <1>1, <1>5, <1>7, <1>8 DEF Tells, Readable, Sent
<1> QED
  BY <1>6, <1>8, Zenon DEF Telling

(* ExchangeRates. *)
LEMMA ExchangeRatesTelling == Telling("ExchangeRates")
<1>1. /\ MessageOf("ExchangeRates") = ExchangeRatesMessage
      /\ \A m : Read("ExchangeRates", m)
                  = ExchangeRatesNew(ExchangeRatesDecode(m))
      /\ \A o : Write("ExchangeRates", o)
                  = ExchangeRatesEncode(o)
  BY DEF MessageOf, Read, Write
<1>2. DOMAIN ExchangeRatesMessage =
        {"currentRate", "nextRate"}
  BY DEF ExchangeRatesMessage, Message
<1>3. /\ \A f \in {"currentRate", "nextRate"} :
           ExchangeRatesMessage[f] = {1}
  BY DEF ExchangeRatesMessage, Message
<1>4. Needed("ExchangeRates") \subseteq {"currentRate", "nextRate"}
  BY <1>1, <1>2, <1>3, NullAssumption DEF Needed, Beyond
<1>5. ASSUME NEW m,
             \A f \in DOMAIN ExchangeRatesMessage :
               m[f] \in ExchangeRatesMessage[f],
             NEW o,
             o = ExchangeRatesNew(ExchangeRatesDecode(m)),
             NEW e, e = ExchangeRatesEncode(o),
             NEW w, w = Received("ExchangeRates", e),
             NEW r,
             r = ExchangeRatesNew(ExchangeRatesDecode(w))
      PROVE  /\ \A f \in DOMAIN ExchangeRatesMessage :
                  w[f] = m[f] \/ m[f] = Beyond
             /\ \A f \in Needed("ExchangeRates") : w[f] # Null
             /\ \A f \in DOMAIN o :
                  r[f] = o[f]
  <2>1. /\ DOMAIN o = {"currentRate", "nextRate"}
        /\ o.currentRate = m.currentRate
        /\ o.nextRate = m.nextRate
    BY <1>5 DEF ExchangeRatesNew, Copied, ExchangeRatesDecode
  <2>2. /\ w.currentRate = o.currentRate
        /\ w.nextRate = o.nextRate
    BY <1>1, <1>2, <1>5 DEF Received, ExchangeRatesEncode
  <2>3. /\ w.currentRate = m.currentRate
        /\ w.nextRate = m.nextRate
    BY <1>2, <1>3, <1>5, <2>1, <2>2, NullAssumption
  <2>4. /\ w.currentRate # Null
        /\ w.nextRate # Null
    BY <1>2, <1>3, <1>5, <2>1, <2>2, NullAssumption
  <2>5. /\ r.currentRate = w.currentRate
        /\ r.nextRate = w.nextRate
    BY <1>5 DEF ExchangeRatesNew, Copied, ExchangeRatesDecode
  <2>6. /\ r.currentRate = o.currentRate
        /\ r.nextRate = o.nextRate
    BY <1>2, <1>3, <1>5, <2>1, <2>2, <2>5, NullAssumption
  <2> QED
    BY <1>2, <1>4, <2>1, <2>3, <2>4, <2>6
<1>6. Starts("ExchangeRates")
  BY <1>1, <1>2, <1>3 DEF Starts
<1>7. /\ Of(LostFields, "ExchangeRates") = {}
      /\ Of(Faded, "ExchangeRates") = {}
  BY DEF Of, LostFields, Faded
<1>8. ASSUME NEW m, Sent("ExchangeRates", m),
             NEW o, o = Read("ExchangeRates", m),
             NEW w,
             w = Received("ExchangeRates",
                          Write("ExchangeRates", o)),
             NEW r, r = Read("ExchangeRates", w)
      PROVE  Tells("ExchangeRates", m, o, w, r)
  BY <1>1, <1>5, <1>7, <1>8 DEF Tells, Readable, Sent
<1> QED
  BY <1>6, <1>8, Zenon DEF Telling

(* FeeComponents. *)
LEMMA FeeComponentsTelling == Telling("FeeComponents")
<1>1. /\ MessageOf("FeeComponents") = FeeComponentsMessage
      /\ \A m : Read("FeeComponents", m)
                  = FeeComponentsNew(FeeComponentsDecode(m))
      /\ \A o : Write("FeeComponents", o)
                  = FeeComponentsEncode(o)
  BY DEF MessageOf, Read, Write
<1>2. DOMAIN FeeComponentsMessage =
        {"min", "max", "constant", "bpt", "vpt", "rbh", "sbh", "gas", "tv",
         "bpr", "sbpr"}
  BY DEF FeeComponentsMessage, Message
<1>3. /\ \A f \in {"min", "max", "constant", "bpt", "vpt", "rbh", "sbh",
                   "gas", "tv", "bpr", "sbpr"} :
           FeeComponentsMessage[f] = {0, 1}
  BY DEF FeeComponentsMessage, Message
<1>4. Needed("FeeComponents") \subseteq {}
  BY <1>1, <1>2, <1>3, NullAssumption DEF Needed, Beyond
<1>5. ASSUME NEW m,
             \A f \in DOMAIN FeeComponentsMessage :
               m[f] \in FeeComponentsMessage[f],
             NEW o,
             o = FeeComponentsNew(FeeComponentsDecode(m)),
             NEW e, e = FeeComponentsEncode(o),
             NEW w, w = Received("FeeComponents", e),
             NEW r,
             r = FeeComponentsNew(FeeComponentsDecode(w))
      PROVE  /\ \A f \in DOMAIN FeeComponentsMessage :
                  w[f] = m[f] \/ m[f] = Beyond
             /\ \A f \in Needed("FeeComponents") : w[f] # Null
             /\ \A f \in DOMAIN o :
                  r[f] = o[f]
  <2>1. /\ DOMAIN o = {"min", "max", "constant", "transactionBandwidthByte",
                      "transactionVerification", "transactionRamByteHour",
                      "transactionStorageByteHour", "contractTransactionGas",
                      "transferVolumeU2U", "responseMemoryByte",
                      "responseDiskByte"}
        /\ o.min = m.min
        /\ o.max = m.max
        /\ o.constant = m.constant
        /\ o.transactionBandwidthByte = m.bpt
        /\ o.transactionVerification = m.vpt
        /\ o.transactionRamByteHour = m.rbh
        /\ o.transactionStorageByteHour = m.sbh
        /\ o.contractTransactionGas = m.gas
        /\ o.transferVolumeU2U = m.tv
        /\ o.responseMemoryByte = m.bpr
        /\ o.responseDiskByte = m.sbpr
    BY <1>5 DEF FeeComponentsNew, Copied, FeeComponentsDecode
  <2>2. /\ w.min = Scalar(o.min)
        /\ w.max = Scalar(o.max)
        /\ w.constant = Scalar(o.constant)
        /\ w.bpt = Scalar(o.transactionBandwidthByte)
        /\ w.vpt = Scalar(o.transactionVerification)
        /\ w.rbh = Scalar(o.transactionRamByteHour)
        /\ w.sbh = Scalar(o.transactionStorageByteHour)
        /\ w.gas = Scalar(o.contractTransactionGas)
        /\ w.tv = Scalar(o.transferVolumeU2U)
        /\ w.bpr = Scalar(o.responseMemoryByte)
        /\ w.sbpr = Scalar(o.responseDiskByte)
    BY <1>1, <1>2, <1>5 DEF Received, FeeComponentsEncode
  <2>3. /\ w.min = m.min
        /\ w.max = m.max
        /\ w.constant = m.constant
        /\ w.bpt = m.bpt
        /\ w.vpt = m.vpt
        /\ w.rbh = m.rbh
        /\ w.sbh = m.sbh
        /\ w.gas = m.gas
        /\ w.tv = m.tv
        /\ w.bpr = m.bpr
        /\ w.sbpr = m.sbpr
    BY <1>2, <1>3, <1>5, <2>1, <2>2, NullAssumption DEF Scalar
  <2>5. /\ r.min = w.min
        /\ r.max = w.max
        /\ r.constant = w.constant
        /\ r.transactionBandwidthByte = w.bpt
        /\ r.transactionVerification = w.vpt
        /\ r.transactionRamByteHour = w.rbh
        /\ r.transactionStorageByteHour = w.sbh
        /\ r.contractTransactionGas = w.gas
        /\ r.transferVolumeU2U = w.tv
        /\ r.responseMemoryByte = w.bpr
        /\ r.responseDiskByte = w.sbpr
    BY <1>5 DEF FeeComponentsNew, Copied, FeeComponentsDecode
  <2>6. /\ r.min = o.min
        /\ r.max = o.max
        /\ r.constant = o.constant
        /\ r.transactionBandwidthByte = o.transactionBandwidthByte
        /\ r.transactionVerification = o.transactionVerification
        /\ r.transactionRamByteHour = o.transactionRamByteHour
        /\ r.transactionStorageByteHour = o.transactionStorageByteHour
        /\ r.contractTransactionGas = o.contractTransactionGas
        /\ r.transferVolumeU2U = o.transferVolumeU2U
        /\ r.responseMemoryByte = o.responseMemoryByte
        /\ r.responseDiskByte = o.responseDiskByte
    BY <1>2, <1>3, <1>5, <2>1, <2>2, <2>5, NullAssumption DEF Scalar
  <2> QED
    BY <1>2, <1>4, <2>1, <2>3, <2>6
<1>6. Starts("FeeComponents")
  BY <1>1, <1>2, <1>3 DEF Starts
<1>7. /\ Of(LostFields, "FeeComponents") = {}
      /\ Of(Faded, "FeeComponents") = {}
  BY DEF Of, LostFields, Faded
<1>8. ASSUME NEW m, Sent("FeeComponents", m),
             NEW o, o = Read("FeeComponents", m),
             NEW w,
             w = Received("FeeComponents",
                          Write("FeeComponents", o)),
             NEW r, r = Read("FeeComponents", w)
      PROVE  Tells("FeeComponents", m, o, w, r)
  BY <1>1, <1>5, <1>7, <1>8 DEF Tells, Readable, Sent
<1> QED
  BY <1>6, <1>8, Zenon DEF Telling

(* FeeData. *)
LEMMA FeeDataTelling == Telling("FeeData")
<1>1. /\ MessageOf("FeeData") = FeeDataMessage
      /\ \A m : Read("FeeData", m)
                  = FeeDataNew(FeeDataDecode(m))
      /\ \A o : Write("FeeData", o)
                  = FeeDataEncode(o)
  BY DEF MessageOf, Read, Write
<1>2. DOMAIN FeeDataMessage =
        {"subType", "nodedata", "networkdata", "servicedata"}
  BY DEF FeeDataMessage, Message
<1>3. /\ FeeDataMessage.subType = {0, 1}
      /\ \A f \in {"nodedata", "networkdata", "servicedata"} :
           FeeDataMessage[f] = {Null, 1}
  BY DEF FeeDataMessage, Message
<1>4. Needed("FeeData") \subseteq {}
  BY <1>1, <1>2, <1>3, NullAssumption DEF Needed, Beyond
<1>5. ASSUME NEW m,
             \A f \in DOMAIN FeeDataMessage :
               m[f] \in FeeDataMessage[f],
             NEW o,
             o = FeeDataNew(FeeDataDecode(m)),
             NEW e, e = FeeDataEncode(o),
             NEW w, w = Received("FeeData", e),
             NEW r,
             r = FeeDataNew(FeeDataDecode(w))
      PROVE  /\ \A f \in DOMAIN FeeDataMessage :
                  w[f] = m[f] \/ m[f] = Beyond
             /\ \A f \in Needed("FeeData") : w[f] # Null
             /\ \A f \in DOMAIN o :
                  r[f] = o[f]
  <2>1. /\ DOMAIN o = {"nodedata", "networkdata", "servicedata",
                      "feeDataType"}
        /\ o.nodedata = m.nodedata
        /\ o.networkdata = m.networkdata
        /\ o.servicedata = m.servicedata
        /\ o.feeDataType = m.subType
    BY <1>5 DEF FeeDataNew, Copied, FeeDataDecode
  <2>2. /\ w.subType = Scalar(o.feeDataType)
        /\ w.nodedata = o.nodedata
        /\ w.networkdata = o.networkdata
        /\ w.servicedata = o.servicedata
    BY <1>1, <1>2, <1>5 DEF Received, FeeDataEncode
  <2>3. /\ w.subType = m.subType
        /\ w.nodedata = m.nodedata
        /\ w.networkdata = m.networkdata
        /\ w.servicedata = m.servicedata
    BY <1>2, <1>3, <1>5, <2>1, <2>2, NullAssumption DEF Scalar
  <2>5. /\ r.nodedata = w.nodedata
        /\ r.networkdata = w.networkdata
        /\ r.servicedata = w.servicedata
        /\ r.feeDataType = w.subType
    BY <1>5 DEF FeeDataNew, Copied, FeeDataDecode
  <2>6. /\ r.nodedata = o.nodedata
        /\ r.networkdata = o.networkdata
        /\ r.servicedata = o.servicedata
        /\ r.feeDataType = o.feeDataType
    BY <1>2, <1>3, <1>5, <2>1, <2>2, <2>5, NullAssumption DEF Scalar
  <2> QED
    BY <1>2, <1>4, <2>1, <2>3, <2>6
<1>6. Starts("FeeData")
  BY <1>1, <1>2, <1>3 DEF Starts
<1>7. /\ Of(LostFields, "FeeData") = {}
      /\ Of(Faded, "FeeData") = {}
  BY DEF Of, LostFields, Faded
<1>8. ASSUME NEW m, Sent("FeeData", m),
             NEW o, o = Read("FeeData", m),
             NEW w,
             w = Received("FeeData",
                          Write("FeeData", o)),
             NEW r, r = Read("FeeData", w)
      PROVE  Tells("FeeData", m, o, w, r)
  BY <1>1, <1>5, <1>7, <1>8 DEF Tells, Readable, Sent
<1> QED
  BY <1>6, <1>8, Zenon DEF Telling

(* TransactionFeeSchedule. *)
LEMMA TransactionFeeScheduleTelling == Telling("TransactionFeeSchedule")
<1>1. /\ MessageOf("TransactionFeeSchedule") = TransactionFeeScheduleMessage
      /\ \A m : Read("TransactionFeeSchedule", m)
                  = TransactionFeeScheduleNew(TransactionFeeScheduleDecode(m))
      /\ \A o : Write("TransactionFeeSchedule", o)
                  = TransactionFeeScheduleEncode(o)
  BY DEF MessageOf, Read, Write
<1>2. DOMAIN TransactionFeeScheduleMessage =
        {"hederaFunctionality", "fees", "feeData"}
  BY DEF TransactionFeeScheduleMessage, Message
<1>3. /\ \A f \in {"hederaFunctionality", "fees"} :
           TransactionFeeScheduleMessage[f] = {0, 1}
      /\ TransactionFeeScheduleMessage.feeData = {Null, 1}
  BY DEF TransactionFeeScheduleMessage, Message
<1>4. Needed("TransactionFeeSchedule") \subseteq {}
  BY <1>1, <1>2, <1>3, NullAssumption DEF Needed, Beyond
<1>5. ASSUME NEW m,
             \A f \in DOMAIN TransactionFeeScheduleMessage :
               m[f] \in TransactionFeeScheduleMessage[f],
             NEW o,
             o = TransactionFeeScheduleNew(TransactionFeeScheduleDecode(m)),
             NEW e, e = TransactionFeeScheduleEncode(o),
             NEW w, w = Received("TransactionFeeSchedule", e),
             NEW r,
             r = TransactionFeeScheduleNew(TransactionFeeScheduleDecode(w))
      PROVE  /\ \A f \in DOMAIN TransactionFeeScheduleMessage :
                  w[f] = m[f] \/ m[f] = Beyond
             /\ \A f \in Needed("TransactionFeeSchedule") : w[f] # Null
             /\ \A f \in DOMAIN o :
                  r[f] = o[f]
  <2>1. /\ DOMAIN o = {"hederaFunctionality", "feeData", "fees"}
        /\ o.hederaFunctionality = m.hederaFunctionality
        /\ o.feeData = m.feeData
        /\ o.fees = m.fees
    BY <1>5 DEF TransactionFeeScheduleNew, Copied,
      TransactionFeeScheduleDecode
  <2>2. /\ w.hederaFunctionality = Scalar(o.hederaFunctionality)
        /\ w.fees = Scalar(o.fees)
        /\ w.feeData = o.feeData
    BY <1>1, <1>2, <1>5 DEF Received, TransactionFeeScheduleEncode
  <2>3. /\ w.hederaFunctionality = m.hederaFunctionality
        /\ w.fees = m.fees
        /\ w.feeData = m.feeData
    BY <1>2, <1>3, <1>5, <2>1, <2>2, NullAssumption DEF Scalar
  <2>5. /\ r.hederaFunctionality = w.hederaFunctionality
        /\ r.feeData = w.feeData
        /\ r.fees = w.fees
    BY <1>5 DEF TransactionFeeScheduleNew, Copied,
      TransactionFeeScheduleDecode
  <2>6. /\ r.hederaFunctionality = o.hederaFunctionality
        /\ r.feeData = o.feeData
        /\ r.fees = o.fees
    BY <1>2, <1>3, <1>5, <2>1, <2>2, <2>5, NullAssumption DEF Scalar
  <2> QED
    BY <1>2, <1>4, <2>1, <2>3, <2>6
<1>6. Starts("TransactionFeeSchedule")
  BY <1>1, <1>2, <1>3 DEF Starts
<1>7. /\ Of(LostFields, "TransactionFeeSchedule") = {}
      /\ Of(Faded, "TransactionFeeSchedule") = {}
  BY DEF Of, LostFields, Faded
<1>8. ASSUME NEW m, Sent("TransactionFeeSchedule", m),
             NEW o, o = Read("TransactionFeeSchedule", m),
             NEW w,
             w = Received("TransactionFeeSchedule",
                          Write("TransactionFeeSchedule", o)),
             NEW r, r = Read("TransactionFeeSchedule", w)
      PROVE  Tells("TransactionFeeSchedule", m, o, w, r)
  BY <1>1, <1>5, <1>7, <1>8 DEF Tells, Readable, Sent
<1> QED
  BY <1>6, <1>8, Zenon DEF Telling

(* FeeSchedule. *)
LEMMA FeeScheduleTelling == Telling("FeeSchedule")
<1>1. /\ MessageOf("FeeSchedule") = FeeScheduleMessage
      /\ \A m : Read("FeeSchedule", m)
                  = FeeScheduleNew(FeeScheduleDecode(m))
      /\ \A o : Write("FeeSchedule", o)
                  = FeeScheduleEncode(o)
  BY DEF MessageOf, Read, Write
<1>2. DOMAIN FeeScheduleMessage =
        {"transactionFeeSchedule", "expiryTime"}
  BY DEF FeeScheduleMessage, Message, ++
<1>3. /\ FeeScheduleMessage.transactionFeeSchedule = {0, 1}
      /\ FeeScheduleMessage.expiryTime = {Null, 1, Beyond}
  BY DEF FeeScheduleMessage, Message, ++, Times
<1>4. Needed("FeeSchedule") \subseteq {}
  BY <1>1, <1>2, <1>3, NullAssumption DEF Needed, Beyond
<1>5. ASSUME NEW m,
             \A f \in DOMAIN FeeScheduleMessage :
               m[f] \in FeeScheduleMessage[f],
             NEW o,
             o = FeeScheduleNew(FeeScheduleDecode(m)),
             NEW e, e = FeeScheduleEncode(o),
             NEW w, w = Received("FeeSchedule", e),
             NEW r,
             r = FeeScheduleNew(FeeScheduleDecode(w))
      PROVE  /\ \A f \in DOMAIN FeeScheduleMessage :
                  w[f] = m[f] \/ m[f] = Beyond
             /\ \A f \in Needed("FeeSchedule") : w[f] # Null
             /\ \A f \in DOMAIN o :
                  r[f] = o[f]
  <2>1. /\ DOMAIN o = {"transactionFeeSchedule", "expirationTime"}
        /\ o.transactionFeeSchedule = m.transactionFeeSchedule
        /\ o.expirationTime = Seconds(m.expiryTime)
    BY <1>5 DEF FeeScheduleNew, Copied, FeeScheduleDecode
  <2>2. /\ w.transactionFeeSchedule = Scalar(o.transactionFeeSchedule)
        /\ w.expiryTime = o.expirationTime
    BY <1>1, <1>2, <1>5 DEF Received, FeeScheduleEncode
  <2>3. /\ w.transactionFeeSchedule = m.transactionFeeSchedule
        /\ w.expiryTime = m.expiryTime \/ m.expiryTime = Beyond
    BY <1>2, <1>3, <1>5, <2>1, <2>2, NullAssumption DEF Scalar, Seconds,
      Beyond, Wrapped
  <2>5. /\ r.transactionFeeSchedule = w.transactionFeeSchedule
        /\ r.expirationTime = Seconds(w.expiryTime)
    BY <1>5 DEF FeeScheduleNew, Copied, FeeScheduleDecode
  <2>6. /\ r.transactionFeeSchedule = o.transactionFeeSchedule
        /\ r.expirationTime = o.expirationTime
    BY <1>2, <1>3, <1>5, <2>1, <2>2, <2>5, NullAssumption DEF Scalar, Seconds,
      Beyond, Wrapped
  <2> QED
    BY <1>2, <1>4, <2>1, <2>3, <2>6
<1>6. Starts("FeeSchedule")
  BY <1>1, <1>2, <1>3 DEF Starts
<1>7. /\ Of(LostFields, "FeeSchedule") = {}
      /\ Of(Faded, "FeeSchedule") = {}
  BY DEF Of, LostFields, Faded
<1>8. ASSUME NEW m, Sent("FeeSchedule", m),
             NEW o, o = Read("FeeSchedule", m),
             NEW w,
             w = Received("FeeSchedule",
                          Write("FeeSchedule", o)),
             NEW r, r = Read("FeeSchedule", w)
      PROVE  Tells("FeeSchedule", m, o, w, r)
  BY <1>1, <1>5, <1>7, <1>8 DEF Tells, Readable, Sent
<1> QED
  BY <1>6, <1>8, Zenon DEF Telling

(* FeeSchedules. *)
LEMMA FeeSchedulesTelling == Telling("FeeSchedules")
<1>1. /\ MessageOf("FeeSchedules") = FeeSchedulesMessage
      /\ \A m : Read("FeeSchedules", m)
                  = FeeSchedulesNew(FeeSchedulesDecode(m))
      /\ \A o : Write("FeeSchedules", o)
                  = FeeSchedulesEncode(o)
  BY DEF MessageOf, Read, Write
<1>2. DOMAIN FeeSchedulesMessage =
        {"currentFeeSchedule", "nextFeeSchedule"}
  BY DEF FeeSchedulesMessage, Message
<1>3. /\ \A f \in {"currentFeeSchedule", "nextFeeSchedule"} :
           FeeSchedulesMessage[f] = {Null, 1}
  BY DEF FeeSchedulesMessage, Message
<1>4. Needed("FeeSchedules") \subseteq {}
  BY <1>1, <1>2, <1>3, NullAssumption DEF Needed, Beyond
<1>5. ASSUME NEW m,
             \A f \in DOMAIN FeeSchedulesMessage :
               m[f] \in FeeSchedulesMessage[f],
             NEW o,
             o = FeeSchedulesNew(FeeSchedulesDecode(m)),
             NEW e, e = FeeSchedulesEncode(o),
             NEW w, w = Received("FeeSchedules", e),
             NEW r,
             r = FeeSchedulesNew(FeeSchedulesDecode(w))
      PROVE  /\ \A f \in DOMAIN FeeSchedulesMessage :
                  w[f] = m[f] \/ m[f] = Beyond
             /\ \A f \in Needed("FeeSchedules") : w[f] # Null
             /\ \A f \in DOMAIN o :
                  r[f] = o[f]
  <2>1. /\ DOMAIN o = {"current", "next"}
        /\ o.current = m.currentFeeSchedule
        /\ o.next = m.nextFeeSchedule
    BY <1>5 DEF FeeSchedulesNew, FeeSchedulesDecode
  <2>2. /\ w.currentFeeSchedule = o.current
        /\ w.nextFeeSchedule = o.next
    BY <1>1, <1>2, <1>5 DEF Received, FeeSchedulesEncode
  <2>3. /\ w.currentFeeSchedule = m.currentFeeSchedule
        /\ w.nextFeeSchedule = m.nextFeeSchedule
    BY <1>2, <1>3, <1>5, <2>1, <2>2, NullAssumption
  <2>5. /\ r.current = w.currentFeeSchedule
        /\ r.next = w.nextFeeSchedule
    BY <1>5 DEF FeeSchedulesNew, FeeSchedulesDecode
  <2>6. /\ r.current = o.current
        /\ r.next = o.next
    BY <1>2, <1>3, <1>5, <2>1, <2>2, <2>5, NullAssumption
  <2> QED
    BY <1>2, <1>4, <2>1, <2>3, <2>6
<1>6. Starts("FeeSchedules")
  BY <1>1, <1>2, <1>3 DEF Starts
<1>7. /\ Of(LostFields, "FeeSchedules") = {}
      /\ Of(Faded, "FeeSchedules") = {}
  BY DEF Of, LostFields, Faded
<1>8. ASSUME NEW m, Sent("FeeSchedules", m),
             NEW o, o = Read("FeeSchedules", m),
             NEW w,
             w = Received("FeeSchedules",
                          Write("FeeSchedules", o)),
             NEW r, r = Read("FeeSchedules", w)
      PROVE  Tells("FeeSchedules", m, o, w, r)
  BY <1>1, <1>5, <1>7, <1>8 DEF Tells, Readable, Sent
<1> QED
  BY <1>6, <1>8, Zenon DEF Telling

(* NetworkVersionInfo. *)
LEMMA NetworkVersionInfoTelling == Telling("NetworkVersionInfo")
<1>1. /\ MessageOf("NetworkVersionInfo") = NetworkVersionInfoMessage
      /\ \A m : Read("NetworkVersionInfo", m)
                  = NetworkVersionInfoNew(NetworkVersionInfoDecode(m))
      /\ \A o : Write("NetworkVersionInfo", o)
                  = NetworkVersionInfoEncode(o)
  BY DEF MessageOf, Read, Write
<1>2. DOMAIN NetworkVersionInfoMessage =
        {"hapiProtoVersion", "hederaServicesVersion"}
  BY DEF NetworkVersionInfoMessage, Message
<1>3. /\ \A f \in {"hapiProtoVersion", "hederaServicesVersion"} :
           NetworkVersionInfoMessage[f] = {1}
  BY DEF NetworkVersionInfoMessage, Message
<1>4. Needed("NetworkVersionInfo") \subseteq {"hapiProtoVersion",
                                                 "hederaServicesVersion"}
  BY <1>1, <1>2, <1>3, NullAssumption DEF Needed, Beyond
<1>5. ASSUME NEW m,
             \A f \in DOMAIN NetworkVersionInfoMessage :
               m[f] \in NetworkVersionInfoMessage[f],
             NEW o,
             o = NetworkVersionInfoNew(NetworkVersionInfoDecode(m)),
             NEW e, e = NetworkVersionInfoEncode(o),
             NEW w, w = Received("NetworkVersionInfo", e),
             NEW r,
             r = NetworkVersionInfoNew(NetworkVersionInfoDecode(w))
      PROVE  /\ \A f \in DOMAIN NetworkVersionInfoMessage :
                  w[f] = m[f] \/ m[f] = Beyond
             /\ \A f \in Needed("NetworkVersionInfo") : w[f] # Null
             /\ \A f \in DOMAIN o :
                  r[f] = o[f]
  <2>1. /\ DOMAIN o = {"protobufVersion", "servicesVesion"}
        /\ o.protobufVersion = m.hapiProtoVersion
        /\ o.servicesVesion = m.hederaServicesVersion
    BY <1>5 DEF NetworkVersionInfoNew, Copied, NetworkVersionInfoDecode
  <2>2. /\ w.hapiProtoVersion = o.protobufVersion
        /\ w.hederaServicesVersion = o.servicesVesion
    BY <1>1, <1>2, <1>5 DEF Received, NetworkVersionInfoEncode
  <2>3. /\ w.hapiProtoVersion = m.hapiProtoVersion
        /\ w.hederaServicesVersion = m.hederaServicesVersion
    BY <1>2, <1>3, <1>5, <2>1, <2>2, NullAssumption
  <2>4. /\ w.hapiProtoVersion # Null
        /\ w.hederaServicesVersion # Null
    BY <1>2, <1>3, <1>5, <2>1, <2>2, NullAssumption
  <2>5. /\ r.protobufVersion = w.hapiProtoVersion
        /\ r.servicesVesion = w.hederaServicesVersion
    BY <1>5 DEF NetworkVersionInfoNew, Copied, NetworkVersionInfoDecode
  <2>6. /\ r.protobufVersion = o.protobufVersion
        /\ r.servicesVesion = o.servicesVesion
    BY <1>2, <1>3, <1>5, <2>1, <2>2, <2>5, NullAssumption
  <2> QED
    BY <1>2, <1>4, <2>1, <2>3, <2>4, <2>6
<1>6. Starts("NetworkVersionInfo")
  BY <1>1, <1>2, <1>3 DEF Starts
<1>7. /\ Of(LostFields, "NetworkVersionInfo") = {}
      /\ Of(Faded, "NetworkVersionInfo") = {}
  BY DEF Of, LostFields, Faded
<1>8. ASSUME NEW m, Sent("NetworkVersionInfo", m),
             NEW o, o = Read("NetworkVersionInfo", m),
             NEW w,
             w = Received("NetworkVersionInfo",
                          Write("NetworkVersionInfo", o)),
             NEW r, r = Read("NetworkVersionInfo", w)
      PROVE  Tells("NetworkVersionInfo", m, o, w, r)
  BY <1>1, <1>5, <1>7, <1>8 DEF Tells, Readable, Sent
<1> QED
  BY <1>6, <1>8, Zenon DEF Telling

(* SemanticVersion. *)
LEMMA SemanticVersionTelling == Telling("SemanticVersion")
<1>1. /\ MessageOf("SemanticVersion") = SemanticVersionMessage
      /\ \A m : Read("SemanticVersion", m)
                  = SemanticVersionNew(SemanticVersionDecode(m))
      /\ \A o : Write("SemanticVersion", o)
                  = SemanticVersionEncode(o)
  BY DEF MessageOf, Read, Write
<1>2. DOMAIN SemanticVersionMessage =
        {"major", "minor", "patch"}
  BY DEF SemanticVersionMessage, Message
<1>3. /\ \A f \in {"major", "minor", "patch"} :
           SemanticVersionMessage[f] = {0, 1}
  BY DEF SemanticVersionMessage, Message
<1>4. Needed("SemanticVersion") \subseteq {}
  BY <1>1, <1>2, <1>3, NullAssumption DEF Needed, Beyond
<1>5. ASSUME NEW m,
             \A f \in DOMAIN SemanticVersionMessage :
               m[f] \in SemanticVersionMessage[f],
             NEW o,
             o = SemanticVersionNew(SemanticVersionDecode(m)),
             NEW e, e = SemanticVersionEncode(o),
             NEW w, w = Received("SemanticVersion", e),
             NEW r,
             r = SemanticVersionNew(SemanticVersionDecode(w))
      PROVE  /\ \A f \in DOMAIN SemanticVersionMessage :
                  w[f] = m[f] \/ m[f] = Beyond
             /\ \A f \in Needed("SemanticVersion") : w[f] # Null
             /\ \A f \in DOMAIN o :
                  r[f] = o[f]
  <2>1. /\ DOMAIN o = {"major", "minor", "patch"}
        /\ o.major = m.major
        /\ o.minor = m.minor
        /\ o.patch = m.patch
    BY <1>5 DEF SemanticVersionNew, Copied, SemanticVersionDecode
  <2>2. /\ w.major = Scalar(o.major)
        /\ w.minor = Scalar(o.minor)
        /\ w.patch = Scalar(o.patch)
    BY <1>1, <1>2, <1>5 DEF Received, SemanticVersionEncode
  <2>3. /\ w.major = m.major
        /\ w.minor = m.minor
        /\ w.patch = m.patch
    BY <1>2, <1>3, <1>5, <2>1, <2>2, NullAssumption DEF Scalar
  <2>5. /\ r.major = w.major
        /\ r.minor = w.minor
        /\ r.patch = w.patch
    BY <1>5 DEF SemanticVersionNew, Copied, SemanticVersionDecode
  <2>6. /\ r.major = o.major
        /\ r.minor = o.minor
        /\ r.patch = o.patch
    BY <1>2, <1>3, <1>5, <2>1, <2>2, <2>5, NullAssumption DEF Scalar
  <2> QED
    BY <1>2, <1>4, <2>1, <2>3, <2>6
<1>6. Starts("SemanticVersion")
  BY <1>1, <1>2, <1>3 DEF Starts
<1>7. /\ Of(LostFields, "SemanticVersion") = {}
      /\ Of(Faded, "SemanticVersion") = {}
  BY DEF Of, LostFields, Faded
<1>8. ASSUME NEW m, Sent("SemanticVersion", m),
             NEW o, o = Read("SemanticVersion", m),
             NEW w,
             w = Received("SemanticVersion",
                          Write("SemanticVersion", o)),
             NEW r, r = Read("SemanticVersion", w)
      PROVE  Tells("SemanticVersion", m, o, w, r)
  BY <1>1, <1>5, <1>7, <1>8 DEF Tells, Readable, Sent
<1> QED
  BY <1>6, <1>8, Zenon DEF Telling

(* Endpoint. *)
LEMMA EndpointTelling == Telling("Endpoint")
<1>1. /\ MessageOf("Endpoint") = EndpointMessage
      /\ \A m : Read("Endpoint", m)
                  = EndpointNew(EndpointDecode(m))
      /\ \A o : Write("Endpoint", o)
                  = EndpointEncode(o)
  BY DEF MessageOf, Read, Write
<1>2. DOMAIN EndpointMessage =
        {"ipAddressV4", "port"}
  BY DEF EndpointMessage, Message
<1>3. /\ \A f \in {"ipAddressV4", "port"} :
           EndpointMessage[f] = {0, 1}
  BY DEF EndpointMessage, Message
<1>4. Needed("Endpoint") \subseteq {}
  BY <1>1, <1>2, <1>3, NullAssumption DEF Needed, Beyond
<1>5. ASSUME NEW m,
             \A f \in DOMAIN EndpointMessage :
               m[f] \in EndpointMessage[f],
             NEW o,
             o = EndpointNew(EndpointDecode(m)),
             NEW e, e = EndpointEncode(o),
             NEW w, w = Received("Endpoint", e),
             NEW r,
             r = EndpointNew(EndpointDecode(w))
      PROVE  /\ \A f \in DOMAIN EndpointMessage :
                  w[f] = m[f] \/ m[f] = Beyond
             /\ \A f \in Needed("Endpoint") : w[f] # Null
             /\ \A f \in DOMAIN o :
                  r[f] = o[f]
  <2>1. /\ DOMAIN o = {"address", "port"}
        /\ o.address = m.ipAddressV4
        /\ o.port = m.port
    BY <1>5 DEF EndpointNew, Constructed, EndpointDecode
  <2>2. /\ w.ipAddressV4 = Scalar(o.address)
        /\ w.port = Scalar(o.port)
    BY <1>1, <1>2, <1>5 DEF Received, EndpointEncode
  <2>3. /\ w.ipAddressV4 = m.ipAddressV4
        /\ w.port = m.port
    BY <1>2, <1>3, <1>5, <2>1, <2>2, NullAssumption DEF Scalar
  <2>5. /\ r.address = w.ipAddressV4
        /\ r.port = w.port
    BY <1>5 DEF EndpointNew, Constructed, EndpointDecode
  <2>6. /\ r.address = o.address
        /\ r.port = o.port
    BY <1>2, <1>3, <1>5, <2>1, <2>2, <2>5, NullAssumption DEF Scalar
  <2> QED
    BY <1>2, <1>4, <2>1, <2>3, <2>6
<1>6. Starts("Endpoint")
  BY <1>1, <1>2, <1>3 DEF Starts
<1>7. /\ Of(LostFields, "Endpoint") = {}
      /\ Of(Faded, "Endpoint") = {}
  BY DEF Of, LostFields, Faded
<1>8. ASSUME NEW m, Sent("Endpoint", m),
             NEW o, o = Read("Endpoint", m),
             NEW w,
             w = Received("Endpoint",
                          Write("Endpoint", o)),
             NEW r, r = Read("Endpoint", w)
      PROVE  Tells("Endpoint", m, o, w, r)
  BY <1>1, <1>5, <1>7, <1>8 DEF Tells, Readable, Sent
<1> QED
  BY <1>6, <1>8, Zenon DEF Telling

(* NodeAddress. *)
LEMMA NodeAddressTelling == Telling("NodeAddress")
<1>1. /\ MessageOf("NodeAddress") = NodeAddressMessage
      /\ \A m : Read("NodeAddress", m)
                  = NodeAddressNew(NodeAddressDecode(m))
      /\ \A o : Write("NodeAddress", o)
                  = NodeAddressEncode(o)
  BY DEF MessageOf, Read, Write
<1>2. DOMAIN NodeAddressMessage =
        {"RSA_PubKey", "nodeId", "nodeCertHash", "serviceEndpoint",
         "description", "stake", "nodeAccountId"}
  BY DEF NodeAddressMessage, Message
<1>3. /\ \A f \in {"RSA_PubKey", "nodeId", "nodeCertHash", "serviceEndpoint",
                   "description", "stake"} :
           NodeAddressMessage[f] = {0, 1}
      /\ NodeAddressMessage.nodeAccountId = {Null, 1}
  BY DEF NodeAddressMessage, Message
<1>4. Needed("NodeAddress") \subseteq {}
  BY <1>1, <1>2, <1>3, NullAssumption DEF Needed, Beyond
<1>5. ASSUME NEW m,
             \A f \in DOMAIN NodeAddressMessage :
               m[f] \in NodeAddressMessage[f],
             NEW o,
             o = NodeAddressNew(NodeAddressDecode(m)),
             NEW e, e = NodeAddressEncode(o),
             NEW w, w = Received("NodeAddress", e),
             NEW r,
             r = NodeAddressNew(NodeAddressDecode(w))
      PROVE  /\ \A f \in DOMAIN NodeAddressMessage :
                  w[f] = m[f] \/ m[f] = Beyond
             /\ \A f \in Needed("NodeAddress") : w[f] # Null
             /\ \A f \in DOMAIN o :
                  r[f] = o[f]
  <2>1. /\ DOMAIN o = {"publicKey", "nodeId", "accountId", "certHash",
                      "addresses", "description", "stake"}
        /\ o.publicKey = m.RSA_PubKey
        /\ o.nodeId = m.nodeId
        /\ o.accountId = m.nodeAccountId
        /\ o.certHash = m.nodeCertHash
        /\ o.addresses
             = IF m.serviceEndpoint # Null THEN m.serviceEndpoint ELSE 0
        /\ o.description = m.description
        /\ o.stake = m.stake
    BY <1>5 DEF NodeAddressNew, Constructed, NodeAddressDecode
  <2>2. /\ w.RSA_PubKey = Scalar(o.publicKey)
        /\ w.nodeId = Scalar(o.nodeId)
        /\ w.nodeCertHash = Scalar(o.certHash)
        /\ w.serviceEndpoint = Scalar(o.addresses)
        /\ w.description = Scalar(o.description)
        /\ w.stake = Scalar(o.stake)
        /\ w.nodeAccountId = o.accountId
    BY <1>1, <1>2, <1>5 DEF Received, NodeAddressEncode
  <2>3. /\ w.RSA_PubKey = m.RSA_PubKey
        /\ w.nodeId = m.nodeId
        /\ w.nodeCertHash = m.nodeCertHash
        /\ w.serviceEndpoint = m.serviceEndpoint
        /\ w.description = m.description
        /\ w.stake = m.stake
        /\ w.nodeAccountId = m.nodeAccountId
    BY <1>2, <1>3, <1>5, <2>1, <2>2, NullAssumption DEF Scalar
  <2>5. /\ r.publicKey = w.RSA_PubKey
        /\ r.nodeId = w.nodeId
        /\ r.accountId = w.nodeAccountId
        /\ r.certHash = w.nodeCertHash
        /\ r.addresses
             = IF w.serviceEndpoint # Null THEN w.serviceEndpoint ELSE 0
        /\ r.description = w.description
        /\ r.stake = w.stake
    BY <1>5 DEF NodeAddressNew, Constructed, NodeAddressDecode
  <2>6. /\ r.publicKey = o.publicKey
        /\ r.nodeId = o.nodeId
        /\ r.accountId = o.accountId
        /\ r.certHash = o.certHash
        /\ r.addresses = o.addresses
        /\ r.description = o.description
        /\ r.stake = o.stake
    BY <1>2, <1>3, <1>5, <2>1, <2>2, <2>5, NullAssumption DEF Scalar
  <2> QED
    BY <1>2, <1>4, <2>1, <2>3, <2>6
<1>6. Starts("NodeAddress")
  BY <1>1, <1>2, <1>3 DEF Starts
<1>7. /\ Of(LostFields, "NodeAddress") = {}
      /\ Of(Faded, "NodeAddress") = {}
  BY DEF Of, LostFields, Faded
<1>8. ASSUME NEW m, Sent("NodeAddress", m),
             NEW o, o = Read("NodeAddress", m),
             NEW w,
             w = Received("NodeAddress",
                          Write("NodeAddress", o)),
             NEW r, r = Read("NodeAddress", w)
      PROVE  Tells("NodeAddress", m, o, w, r)
  BY <1>1, <1>5, <1>7, <1>8 DEF Tells, Readable, Sent
<1> QED
  BY <1>6, <1>8, Zenon DEF Telling

(* ContractLogInfo. *)
LEMMA ContractLogInfoTelling == Telling("ContractLogInfo")
<1>1. /\ MessageOf("ContractLogInfo") = ContractLogInfoMessage
      /\ \A m : Read("ContractLogInfo", m)
                  = ContractLogInfoNew(ContractLogInfoDecode(m))
      /\ \A o : Write("ContractLogInfo", o)
                  = ContractLogInfoEncode(o)
  BY DEF MessageOf, Read, Write
<1>2. DOMAIN ContractLogInfoMessage =
        {"bloom", "topic", "data", "contractID"}
  BY DEF ContractLogInfoMessage, Message
<1>3. /\ \A f \in {"bloom", "topic", "data"} :
           ContractLogInfoMessage[f] = {0, 1}
      /\ ContractLogInfoMessage.contractID = {1}
  BY DEF ContractLogInfoMessage, Message
<1>4. Needed("ContractLogInfo") \subseteq {"contractID"}
  BY <1>1, <1>2, <1>3, NullAssumption DEF Needed, Beyond
<1>5. ASSUME NEW m,
             \A f \in DOMAIN ContractLogInfoMessage :
               m[f] \in ContractLogInfoMessage[f],
             NEW o,
             o = ContractLogInfoNew(ContractLogInfoDecode(m)),
             NEW e, e = ContractLogInfoEncode(o),
             NEW w, w = Received("ContractLogInfo", e),
             NEW r,
             r = ContractLogInfoNew(ContractLogInfoDecode(w))
      PROVE  /\ \A f \in DOMAIN ContractLogInfoMessage :
                  w[f] = m[f] \/ m[f] = Beyond
             /\ \A f \in Needed("ContractLogInfo") : w[f] # Null
             /\ \A f \in DOMAIN o :
                  r[f] = o[f]
  <2>1. /\ DOMAIN o = {"contractId", "bloom", "topics", "data"}
        /\ o.contractId = m.contractID
        /\ o.bloom = m.bloom
        /\ o.topics = m.topic
        /\ o.data = m.data
    BY <1>5 DEF ContractLogInfoNew, Copied, ContractLogInfoDecode
  <2>2. /\ w.bloom = Scalar(o.bloom)
        /\ w.topic = Scalar(o.topics)
        /\ w.data = Scalar(o.data)
        /\ w.contractID = o.contractId
    BY <1>1, <1>2, <1>5 DEF Received, ContractLogInfoEncode
  <2>3. /\ w.bloom = m.bloom
        /\ w.topic = m.topic
        /\ w.data = m.data
        /\ w.contractID = m.contractID
    BY <1>2, <1>3, <1>5, <2>1, <2>2, NullAssumption DEF Scalar
  <2>4. /\ w.contractID # Null
    BY <1>2, <1>3, <1>5, <2>1, <2>2, NullAssumption DEF Scalar
  <2>5. /\ r.contractId = w.contractID
        /\ r.bloom = w.bloom
        /\ r.topics = w.topic
        /\ r.data = w.data
    BY <1>5 DEF ContractLogInfoNew, Copied, ContractLogInfoDecode
  <2>6. /\ r.contractId = o.contractId
        /\ r.bloom = o.bloom
        /\ r.topics = o.topics
        /\ r.data = o.data
    BY <1>2, <1>3, <1>5, <2>1, <2>2, <2>5, NullAssumption DEF Scalar
  <2> QED
    BY <1>2, <1>4, <2>1, <2>3, <2>4, <2>6
<1>6. Starts("ContractLogInfo")
  BY <1>1, <1>2, <1>3 DEF Starts
<1>7. /\ Of(LostFields, "ContractLogInfo") = {}
      /\ Of(Faded, "ContractLogInfo") = {}
  BY DEF Of, LostFields, Faded
<1>8. ASSUME NEW m, Sent("ContractLogInfo", m),
             NEW o, o = Read("ContractLogInfo", m),
             NEW w,
             w = Received("ContractLogInfo",
                          Write("ContractLogInfo", o)),
             NEW r, r = Read("ContractLogInfo", w)
      PROVE  Tells("ContractLogInfo", m, o, w, r)
  BY <1>1, <1>5, <1>7, <1>8 DEF Tells, Readable, Sent
<1> QED
  BY <1>6, <1>8, Zenon DEF Telling

(* StorageChange. *)
LEMMA StorageChangeTelling == Telling("StorageChange")
<1>1. /\ MessageOf("StorageChange") = StorageChangeMessage
      /\ \A m : Read("StorageChange", m)
                  = StorageChangeNew(StorageChangeDecode(m))
      /\ \A o : Write("StorageChange", o)
                  = StorageChangeEncode(o)
  BY DEF MessageOf, Read, Write
<1>2. DOMAIN StorageChangeMessage =
        {"slot", "valueRead", "valueWritten"}
  BY DEF StorageChangeMessage, Message, ++
<1>3. /\ \A f \in {"slot", "valueRead"} :
           StorageChangeMessage[f] = {0, 1}
      /\ StorageChangeMessage.valueWritten = {Null, 0, 1}
  BY DEF StorageChangeMessage, Message, ++
<1>4. Needed("StorageChange") \subseteq {}
  BY <1>1, <1>2, <1>3, NullAssumption DEF Needed, Beyond
<1>5. ASSUME NEW m,
             \A f \in DOMAIN StorageChangeMessage :
               m[f] \in StorageChangeMessage[f],
             NEW o,
             o = StorageChangeNew(StorageChangeDecode(m)),
             NEW e, e = StorageChangeEncode(o),
             NEW w, w = Received("StorageChange", e),
             NEW r,
             r = StorageChangeNew(StorageChangeDecode(w))
      PROVE  /\ \A f \in DOMAIN StorageChangeMessage :
                  w[f] = m[f] \/ m[f] = Beyond
             /\ \A f \in Needed("StorageChange") : w[f] # Null
             /\ \A f \in DOMAIN o :
                  r[f] = o[f]
  <2>1. /\ DOMAIN o = {"slot", "valueRead", "valueWritten"}
        /\ o.slot = m.slot
        /\ o.valueRead = m.valueRead
        /\ o.valueWritten = m.valueWritten
    BY <1>5 DEF StorageChangeNew, Copied, StorageChangeDecode
  <2>2. /\ w.slot = Scalar(o.slot)
        /\ w.valueRead = Scalar(o.valueRead)
        /\ w.valueWritten = o.valueWritten
    BY <1>1, <1>2, <1>5 DEF Received, StorageChangeEncode
  <2>3. /\ w.slot = m.slot
        /\ w.valueRead = m.valueRead
        /\ w.valueWritten = m.valueWritten
    BY <1>2, <1>3, <1>5, <2>1, <2>2, NullAssumption DEF Scalar
  <2>5. /\ r.slot = w.slot
        /\ r.valueRead = w.valueRead
        /\ r.valueWritten = w.valueWritten
    BY <1>5 DEF StorageChangeNew, Copied, StorageChangeDecode
  <2>6. /\ r.slot = o.slot
        /\ r.valueRead = o.valueRead
        /\ r.valueWritten = o.valueWritten
    BY <1>2, <1>3, <1>5, <2>1, <2>2, <2>5, NullAssumption DEF Scalar
  <2> QED
    BY <1>2, <1>4, <2>1, <2>3, <2>6
<1>6. Starts("StorageChange")
  BY <1>1, <1>2, <1>3 DEF Starts
<1>7. /\ Of(LostFields, "StorageChange") = {}
      /\ Of(Faded, "StorageChange") = {}
  BY DEF Of, LostFields, Faded
<1>8. ASSUME NEW m, Sent("StorageChange", m),
             NEW o, o = Read("StorageChange", m),
             NEW w,
             w = Received("StorageChange",
                          Write("StorageChange", o)),
             NEW r, r = Read("StorageChange", w)
      PROVE  Tells("StorageChange", m, o, w, r)
  BY <1>1, <1>5, <1>7, <1>8 DEF Tells, Readable, Sent
<1> QED
  BY <1>6, <1>8, Zenon DEF Telling

(* ContractStateChange. *)
LEMMA ContractStateChangeTelling == Telling("ContractStateChange")
<1>1. /\ MessageOf("ContractStateChange") = ContractStateChangeMessage
      /\ \A m : Read("ContractStateChange", m)
                  = ContractStateChangeNew(ContractStateChangeDecode(m))
      /\ \A o : Write("ContractStateChange", o)
                  = ContractStateChangeEncode(o)
  BY DEF MessageOf, Read, Write
<1>2. DOMAIN ContractStateChangeMessage =
        {"storageChanges", "contractId"}
  BY DEF ContractStateChangeMessage, Message
<1>3. /\ ContractStateChangeMessage.storageChanges = {0, 1}
      /\ ContractStateChangeMessage.contractId = {1}
  BY DEF ContractStateChangeMessage, Message
<1>4. Needed("ContractStateChange") \subseteq {"contractId"}
  BY <1>1, <1>2, <1>3, NullAssumption DEF Needed, Beyond
<1>5. ASSUME NEW m,
             \A f \in DOMAIN ContractStateChangeMessage :
               m[f] \in ContractStateChangeMessage[f],
             NEW o,
             o = ContractStateChangeNew(ContractStateChangeDecode(m)),
             NEW e, e = ContractStateChangeEncode(o),
             NEW w, w = Received("ContractStateChange", e),
             NEW r,
             r = ContractStateChangeNew(ContractStateChangeDecode(w))
      PROVE  /\ \A f \in DOMAIN ContractStateChangeMessage :
                  w[f] = m[f] \/ m[f] = Beyond
             /\ \A f \in Needed("ContractStateChange") : w[f] # Null
             /\ \A f \in DOMAIN o :
                  r[f] = o[f]
  <2>1. /\ DOMAIN o = {"contractId", "storageChanges"}
        /\ o.contractId = m.contractId
        /\ o.storageChanges = m.storageChanges
    BY <1>5 DEF ContractStateChangeNew, Copied, ContractStateChangeDecode
  <2>2. /\ w.storageChanges = Scalar(o.storageChanges)
        /\ w.contractId = o.contractId
    BY <1>1, <1>2, <1>5 DEF Received, ContractStateChangeEncode
  <2>3. /\ w.storageChanges = m.storageChanges
        /\ w.contractId = m.contractId
    BY <1>2, <1>3, <1>5, <2>1, <2>2, NullAssumption DEF Scalar
  <2>4. /\ w.contractId # Null
    BY <1>2, <1>3, <1>5, <2>1, <2>2, NullAssumption DEF Scalar
  <2>5. /\ r.contractId = w.contractId
        /\ r.storageChanges = w.storageChanges
    BY <1>5 DEF ContractStateChangeNew, Copied, ContractStateChangeDecode
  <2>6. /\ r.contractId = o.contractId
        /\ r.storageChanges = o.storageChanges
    BY <1>2, <1>3, <1>5, <2>1, <2>2, <2>5, NullAssumption DEF Scalar
  <2> QED
    BY <1>2, <1>4, <2>1, <2>3, <2>4, <2>6
<1>6. Starts("ContractStateChange")
  BY <1>1, <1>2, <1>3 DEF Starts
<1>7. /\ Of(LostFields, "ContractStateChange") = {}
      /\ Of(Faded, "ContractStateChange") = {}
  BY DEF Of, LostFields, Faded
<1>8. ASSUME NEW m, Sent("ContractStateChange", m),
             NEW o, o = Read("ContractStateChange", m),
             NEW w,
             w = Received("ContractStateChange",
                          Write("ContractStateChange", o)),
             NEW r, r = Read("ContractStateChange", w)
      PROVE  Tells("ContractStateChange", m, o, w, r)
  BY <1>1, <1>5, <1>7, <1>8 DEF Tells, Readable, Sent
<1> QED
  BY <1>6, <1>8, Zenon DEF Telling

(* ContractFunctionResult. *)
LEMMA ContractFunctionResultTelling == Telling("ContractFunctionResult")
<1>1. /\ MessageOf("ContractFunctionResult") = ContractFunctionResultMessage
      /\ \A m : Read("ContractFunctionResult", m)
                  = ContractFunctionResultNew(ContractFunctionResultDecode(m))
      /\ \A o : Write("ContractFunctionResult", o)
                  = ContractFunctionResultEncode(o)
  BY DEF MessageOf, Read, Write
<1>2. DOMAIN ContractFunctionResultMessage =
        {"contractCallResult", "errorMessage", "bloom", "gasUsed", "logInfo",
         "createdContractIDs", "gas", "amount", "functionParameters",
         "contractID", "senderId", "evmAddress"}
  BY DEF ContractFunctionResultMessage, Message, ++
<1>3. /\ \A f \in {"contractCallResult", "errorMessage", "bloom", "gasUsed",
                   "logInfo", "createdContractIDs", "gas", "amount",
                   "functionParameters"} :
           ContractFunctionResultMessage[f] = {0, 1}
      /\ \A f \in {"contractID", "senderId"} :
           ContractFunctionResultMessage[f] = {Null, 1}
      /\ ContractFunctionResultMessage.evmAddress = {Null, 0, 1}
  BY DEF ContractFunctionResultMessage, Message, ++
<1>4. Needed("ContractFunctionResult") \subseteq {}
  BY <1>1, <1>2, <1>3, NullAssumption DEF Needed, Beyond
<1>5. ASSUME NEW m,
             \A f \in DOMAIN ContractFunctionResultMessage :
               m[f] \in ContractFunctionResultMessage[f],
             NEW o,
             o = ContractFunctionResultNew(ContractFunctionResultDecode(m)),
             NEW e, e = ContractFunctionResultEncode(o),
             NEW w, w = Received("ContractFunctionResult", e),
             NEW r,
             r = ContractFunctionResultNew(ContractFunctionResultDecode(w))
      PROVE  /\ \A f \in DOMAIN ContractFunctionResultMessage :
                  w[f] = m[f] \/ m[f] = Beyond
                    \/ f \in {"gas", "amount"}
             /\ \A f \in Needed("ContractFunctionResult") : w[f] # Null
             /\ \A f \in DOMAIN o :
                  r[f] = o[f]
  <2>1. /\ DOMAIN o = {"contractId", "bytes", "errorMessage", "bloom",
                      "gasUsed", "logs", "createdContractIds", "evmAddress",
                      "stateChanges", "gas", "amount", "functionParameters",
                      "senderAccountId"}
        /\ o.contractId = m.contractID
        /\ o.bytes = m.contractCallResult
        /\ o.errorMessage = m.errorMessage
        /\ o.bloom = m.bloom
        /\ o.gasUsed = m.gasUsed
        /\ o.logs = m.logInfo
        /\ o.createdContractIds = m.createdContractIDs
        /\ o.evmAddress = m.evmAddress
        /\ o.stateChanges = 0
        /\ o.gas = IF m.gas = 0 THEN -1 ELSE m.gas
        /\ o.amount = IF m.amount = 0 THEN -1 ELSE m.amount
        /\ o.functionParameters = m.functionParameters
        /\ o.senderAccountId = m.senderId
    BY <1>5 DEF ContractFunctionResultNew, Copied,
      ContractFunctionResultDecode
  <2>2. /\ w.contractCallResult = Scalar(o.bytes)
        /\ w.errorMessage = Scalar(o.errorMessage)
        /\ w.bloom = Scalar(o.bloom)
        /\ w.gasUsed = Scalar(o.gasUsed)
        /\ w.logInfo = Scalar(o.logs)
        /\ w.createdContractIDs = Scalar(o.createdContractIds)
        /\ w.gas = Scalar(o.gas)
        /\ w.amount = Scalar(o.amount)
        /\ w.functionParameters = Scalar(o.functionParameters)
        /\ w.contractID = o.contractId
        /\ w.senderId = o.senderAccountId
        /\ w.evmAddress = o.evmAddress
    BY <1>1, <1>2, <1>5 DEF Received, ContractFunctionResultEncode
  <2>3. /\ w.contractCallResult = m.contractCallResult
        /\ w.errorMessage = m.errorMessage
        /\ w.bloom = m.bloom
        /\ w.gasUsed = m.gasUsed
        /\ w.logInfo = m.logInfo
        /\ w.createdContractIDs = m.createdContractIDs
        /\ w.functionParameters = m.functionParameters
        /\ w.contractID = m.contractID
        /\ w.senderId = m.senderId
        /\ w.evmAddress = m.evmAddress
    BY <1>2, <1>3, <1>5, <2>1, <2>2, NullAssumption DEF Scalar
  <2>5. /\ r.contractId = w.contractID
        /\ r.bytes = w.contractCallResult
        /\ r.errorMessage = w.errorMessage
        /\ r.bloom = w.bloom
        /\ r.gasUsed = w.gasUsed
        /\ r.logs = w.logInfo
        /\ r.createdContractIds = w.createdContractIDs
        /\ r.evmAddress = w.evmAddress
        /\ r.stateChanges = 0
        /\ r.gas = IF w.gas = 0 THEN -1 ELSE w.gas
        /\ r.amount = IF w.amount = 0 THEN -1 ELSE w.amount
        /\ r.functionParameters = w.functionParameters
        /\ r.senderAccountId = w.senderId
    BY <1>5 DEF ContractFunctionResultNew, Copied,
      ContractFunctionResultDecode
  <2>6. /\ r.contractId = o.contractId
        /\ r.bytes = o.bytes
        /\ r.errorMessage = o.errorMessage
        /\ r.bloom = o.bloom
        /\ r.gasUsed = o.gasUsed
        /\ r.logs = o.logs
        /\ r.createdContractIds = o.createdContractIds
        /\ r.evmAddress = o.evmAddress
        /\ r.stateChanges = o.stateChanges
        /\ r.gas = o.gas
        /\ r.amount = o.amount
        /\ r.functionParameters = o.functionParameters
        /\ r.senderAccountId = o.senderAccountId
    BY <1>2, <1>3, <1>5, <2>1, <2>2, <2>5, NullAssumption DEF Scalar
  <2> QED
    BY <1>2, <1>4, <2>1, <2>3, <2>6
<1>6. Starts("ContractFunctionResult")
  BY <1>1, <1>2, <1>3 DEF Starts
<1>7. /\ Of(LostFields, "ContractFunctionResult") = {"gas", "amount"}
      /\ Of(Faded, "ContractFunctionResult") = {}
  BY DEF Of, LostFields, Faded
<1>8. ASSUME NEW m, Sent("ContractFunctionResult", m),
             NEW o, o = Read("ContractFunctionResult", m),
             NEW w,
             w = Received("ContractFunctionResult",
                          Write("ContractFunctionResult", o)),
             NEW r, r = Read("ContractFunctionResult", w)
      PROVE  Tells("ContractFunctionResult", m, o, w, r)
  BY <1>1, <1>5, <1>7, <1>8 DEF Tells, Readable, Sent
<1> QED
  BY <1>6, <1>8, Zenon DEF Telling

(* TopicMessageChunk. *)
LEMMA TopicMessageChunkTelling == Telling("TopicMessageChunk")
<1>1. /\ MessageOf("TopicMessageChunk") = TopicMessageChunkMessage
      /\ \A m : Read("TopicMessageChunk", m)
                  = TopicMessageChunkNew(TopicMessageChunkDecode(m))
      /\ \A o : Write("TopicMessageChunk", o)
                  = TopicMessageChunkEncode(o)
  BY DEF MessageOf, Read, Write
<1>2. DOMAIN TopicMessageChunkMessage =
        {"message", "runningHash", "sequenceNumber", "consensusTimestamp"}
  BY DEF TopicMessageChunkMessage, Message, ++
<1>3. /\ \A f \in {"message", "runningHash", "sequenceNumber"} :
           TopicMessageChunkMessage[f] = {0, 1}
      /\ TopicMessageChunkMessage.consensusTimestamp = {1, Beyond}
  BY DEF TopicMessageChunkMessage, Message, ++, Times
<1>4. Needed("TopicMessageChunk") \subseteq {"consensusTimestamp"}
  BY <1>1, <1>2, <1>3, NullAssumption DEF Needed, Beyond
<1>5. ASSUME NEW m,
             \A f \in DOMAIN TopicMessageChunkMessage :
               m[f] \in TopicMessageChunkMessage[f],
             NEW o,
             o = TopicMessageChunkNew(TopicMessageChunkDecode(m)),
             NEW e, e = TopicMessageChunkEncode(o),
             NEW w, w = Received("TopicMessageChunk", e),
             NEW r,
             r = TopicMessageChunkNew(TopicMessageChunkDecode(w))
      PROVE  /\ \A f \in DOMAIN TopicMessageChunkMessage :
                  w[f] = m[f] \/ m[f] = Beyond
             /\ \A f \in Needed("TopicMessageChunk") : w[f] # Null
             /\ \A f \in DOMAIN o :
                  r[f] = o[f]
  <2>1. /\ DOMAIN o = {"consensusTimestamp", "contents", "runningHash",
                      "sequenceNumber"}
        /\ o.consensusTimestamp = Seconds(m.consensusTimestamp)
        /\ o.contents = m.message
        /\ o.runningHash = m.runningHash
        /\ o.sequenceNumber = m.sequenceNumber
    BY <1>5 DEF TopicMessageChunkNew, Copied, TopicMessageChunkDecode
  <2>2. /\ w.message = Scalar(o.contents)
        /\ w.runningHash = Scalar(o.runningHash)
        /\ w.sequenceNumber = Scalar(o.sequenceNumber)
        /\ w.consensusTimestamp = o.consensusTimestamp
    BY <1>1, <1>2, <1>5 DEF Received, TopicMessageChunkEncode
  <2>3. /\ w.message = m.message
        /\ w.runningHash = m.runningHash
        /\ w.sequenceNumber = m.sequenceNumber
        /\ \/ w.consensusTimestamp = m.consensusTimestamp
           \/ m.consensusTimestamp = Beyond
    BY <1>2, <1>3, <1>5, <2>1, <2>2, NullAssumption DEF Scalar, Seconds,
      Beyond, Wrapped
  <2>4. /\ w.consensusTimestamp # Null
    BY <1>2, <1>3, <1>5, <2>1, <2>2, NullAssumption DEF Scalar, Seconds,
      Beyond, Wrapped
  <2>5. /\ r.consensusTimestamp = Seconds(w.consensusTimestamp)
        /\ r.contents = w.message
        /\ r.runningHash = w.runningHash
        /\ r.sequenceNumber = w.sequenceNumber
    BY <1>5 DEF TopicMessageChunkNew, Copied, TopicMessageChunkDecode
  <2>6. /\ r.consensusTimestamp = o.consensusTimestamp
        /\ r.contents = o.contents
        /\ r.runningHash = o.runningHash
        /\ r.sequenceNumber = o.sequenceNumber
    BY <1>2, <1>3, <1>5, <2>1, <2>2, <2>5, NullAssumption DEF Scalar, Seconds,
      Beyond, Wrapped
  <2> QED
    BY <1>2, <1>4, <2>1, <2>3, <2>4, <2>6
<1>6. Starts("TopicMessageChunk")
  BY <1>1, <1>2, <1>3 DEF Starts
<1>7. /\ Of(LostFields, "TopicMessageChunk") = {}
      /\ Of(Faded, "TopicMessageChunk") = {}
  BY DEF Of, LostFields, Faded
<1>8. ASSUME NEW m, Sent("TopicMessageChunk", m),
             NEW o, o = Read("TopicMessageChunk", m),
             NEW w,
             w = Received("TopicMessageChunk",
                          Write("TopicMessageChunk", o)),
             NEW r, r = Read("TopicMessageChunk", w)
      PROVE  Tells("TopicMessageChunk", m, o, w, r)
  BY <1>1, <1>5, <1>7, <1>8 DEF Tells, Readable, Sent
<1> QED
  BY <1>6, <1>8, Zenon DEF Telling

(* TransactionReceipt. *)
LEMMA TransactionReceiptTelling == Telling("TransactionReceipt")
<1>1. /\ MessageOf("TransactionReceipt") = TransactionReceiptMessage
      /\ \A m : Read("TransactionReceipt", m)
                  = TransactionReceiptNew(TransactionReceiptDecode(m))
      /\ \A o : Write("TransactionReceipt", o)
                  = TransactionReceiptEncode(o)
  BY DEF MessageOf, Read, Write
<1>2. DOMAIN TransactionReceiptMessage =
        {"status", "topicSequenceNumber", "topicRunningHash",
         "serialNumbers", "newTotalSupply", "duplicateTransactionReceipts",
         "childTransactionReceipts", "accountID", "fileID", "contractID",
         "topicID", "tokenID", "scheduleID", "scheduledTransactionID",
         "exchangeRate"}
  BY DEF TransactionReceiptMessage, Message, ++
<1>3. /\ \A f \in {"status", "topicSequenceNumber", "topicRunningHash",
                   "serialNumbers", "newTotalSupply",
                   "duplicateTransactionReceipts",
                   "childTransactionReceipts"} :
           TransactionReceiptMessage[f] = {0, 1}
      /\ \A f \in {"accountID", "fileID", "contractID", "topicID", "tokenID",
                   "scheduleID", "scheduledTransactionID"} :
           TransactionReceiptMessage[f] = {Null, 1}
      /\ TransactionReceiptMessage.exchangeRate = {Null, 1, WithNext}
  BY DEF TransactionReceiptMessage, Message, ++
<1>4. Needed("TransactionReceipt") \subseteq {}
  BY <1>1, <1>2, <1>3, NullAssumption DEF Needed, Beyond, WithNext
<1>5. ASSUME NEW m,
             \A f \in DOMAIN TransactionReceiptMessage :
               m[f] \in TransactionReceiptMessage[f],
             NEW o,
             o = TransactionReceiptNew(TransactionReceiptDecode(m)),
             NEW e, e = TransactionReceiptEncode(o),
             NEW w, w = Received("TransactionReceipt", e),
             NEW r,
             r = TransactionReceiptNew(TransactionReceiptDecode(w))
      PROVE  /\ \A f \in DOMAIN TransactionReceiptMessage :
                  w[f] = m[f] \/ m[f] = Beyond
                    \/ f = "exchangeRate"
             /\ \A f \in Needed("TransactionReceipt") : w[f] # Null
             /\ w.exchangeRate # NoRate \/ m.exchangeRate = Null
             /\ \A f \in DOMAIN o :
                  w.exchangeRate # NoRate => r[f] = o[f]
  <2>1. /\ DOMAIN o = {"status", "accountId", "fileId", "contractId",
                      "topicId", "tokenId", "scheduleId", "exchangeRate",
                      "topicSequenceNumber", "topicRunningHash",
                      "totalSupply", "scheduledTransactionId", "serials",
                      "duplicates", "children"}
        /\ o.status = m.status
        /\ o.accountId = m.accountID
        /\ o.fileId = m.fileID
        /\ o.contractId = m.contractID
        /\ o.topicId = m.topicID
        /\ o.tokenId = m.tokenID
        /\ o.scheduleId = m.scheduleID
        /\ o.exchangeRate
             = IF m.exchangeRate = WithNext THEN 1 ELSE m.exchangeRate
        /\ o.topicSequenceNumber = m.topicSequenceNumber
        /\ o.topicRunningHash = m.topicRunningHash
        /\ o.totalSupply = m.newTotalSupply
        /\ o.scheduledTransactionId = m.scheduledTransactionID
        /\ o.serials = m.serialNumbers
        /\ o.duplicates = m.duplicateTransactionReceipts
        /\ o.children = m.childTransactionReceipts
    BY <1>5 DEF TransactionReceiptNew, Copied, TransactionReceiptDecode
  <2>2. /\ w.status = Scalar(o.status)
        /\ w.topicSequenceNumber = Scalar(o.topicSequenceNumber)
        /\ w.topicRunningHash = Scalar(o.topicRunningHash)
        /\ w.serialNumbers = Scalar(o.serials)
        /\ w.newTotalSupply = Scalar(o.totalSupply)
        /\ w.duplicateTransactionReceipts = o.duplicates
        /\ w.childTransactionReceipts = o.children
        /\ w.accountID = o.accountId
        /\ w.fileID = o.fileId
        /\ w.contractID = o.contractId
        /\ w.topicID = o.topicId
        /\ w.tokenID = o.tokenId
        /\ w.scheduleID = o.scheduleId
        /\ w.scheduledTransactionID = o.scheduledTransactionId
        /\ w.exchangeRate
             = IF o.exchangeRate = Null THEN NoRate ELSE o.exchangeRate
    BY <1>1, <1>2, <1>5 DEF Received, TransactionReceiptEncode
  <2>3. /\ w.status = m.status
        /\ w.topicSequenceNumber = m.topicSequenceNumber
        /\ w.topicRunningHash = m.topicRunningHash
        /\ w.serialNumbers = m.serialNumbers
        /\ w.newTotalSupply = m.newTotalSupply
        /\ w.duplicateTransactionReceipts = m.duplicateTransactionReceipts
        /\ w.childTransactionReceipts = m.childTransactionReceipts
        /\ w.accountID = m.accountID
        /\ w.fileID = m.fileID
        /\ w.contractID = m.contractID
        /\ w.topicID = m.topicID
        /\ w.tokenID = m.tokenID
        /\ w.scheduleID = m.scheduleID
        /\ w.scheduledTransactionID = m.scheduledTransactionID
    BY <1>2, <1>3, <1>5, <2>1, <2>2, NullAssumption DEF Scalar, NoRate,
      WithNext
  <2>4. /\ w.exchangeRate = NoRate <=> m.exchangeRate = Null
    BY <1>2, <1>3, <1>5, <2>1, <2>2, NullAssumption DEF Scalar, NoRate,
      WithNext
  <2>5. /\ r.status = w.status
        /\ r.accountId = w.accountID
        /\ r.fileId = w.fileID
        /\ r.contractId = w.contractID
        /\ r.topicId = w.topicID
        /\ r.tokenId = w.tokenID
        /\ r.scheduleId = w.scheduleID
        /\ r.exchangeRate
             = IF w.exchangeRate = WithNext THEN 1 ELSE w.exchangeRate
        /\ r.topicSequenceNumber = w.topicSequenceNumber
        /\ r.topicRunningHash = w.topicRunningHash
        /\ r.totalSupply = w.newTotalSupply
        /\ r.scheduledTransactionId = w.scheduledTransactionID
        /\ r.serials = w.serialNumbers
        /\ r.duplicates = w.duplicateTransactionReceipts
        /\ r.children = w.childTransactionReceipts
    BY <1>5 DEF TransactionReceiptNew, Copied, TransactionReceiptDecode
  <2>6. /\ r.status = o.status
        /\ r.accountId = o.accountId
        /\ r.fileId = o.fileId
        /\ r.contractId = o.contractId
        /\ r.topicId = o.topicId
        /\ r.tokenId = o.tokenId
        /\ r.scheduleId = o.scheduleId
        /\ m.exchangeRate # Null => r.exchangeRate = o.exchangeRate
        /\ r.topicSequenceNumber = o.topicSequenceNumber
        /\ r.topicRunningHash = o.topicRunningHash
        /\ r.totalSupply = o.totalSupply
        /\ r.scheduledTransactionId = o.scheduledTransactionId
        /\ r.serials = o.serials
        /\ r.duplicates = o.duplicates
        /\ r.children = o.children
    BY <1>2, <1>3, <1>5, <2>1, <2>2, <2>5, NullAssumption DEF Scalar, NoRate,
      WithNext
  <2> QED
    BY <1>2, <1>4, <2>1, <2>3, <2>4, <2>6
<1>6. Starts("TransactionReceipt")
  BY <1>1, <1>2, <1>3 DEF Starts
<1>7. /\ Of(LostFields, "TransactionReceipt") = {"exchangeRate"}
      /\ Of(Faded, "TransactionReceipt") = {}
  BY DEF Of, LostFields, Faded
<1>8. ASSUME NEW m, Sent("TransactionReceipt", m),
             NEW o, o = Read("TransactionReceipt", m),
             NEW w,
             w = Received("TransactionReceipt",
                          Write("TransactionReceipt", o)),
             NEW r, r = Read("TransactionReceipt", w)
      PROVE  Tells("TransactionReceipt", m, o, w, r)
  BY <1>1, <1>5, <1>7, <1>8 DEF Tells, Readable, Sent
<1> QED
  BY <1>6, <1>8, Zenon DEF Telling

(* TransactionRecord. *)
LEMMA TransactionRecordTelling == Telling("TransactionRecord")
<1>1. /\ MessageOf("TransactionRecord") = TransactionRecordMessage
      /\ \A m : Read("TransactionRecord", m)
                  = TransactionRecordNew(TransactionRecordDecode(m))
      /\ \A o : Write("TransactionRecord", o)
                  = TransactionRecordEncode(o)
  BY DEF MessageOf, Read, Write
<1>2. DOMAIN TransactionRecordMessage =
        {"transactionHash", "memo", "transactionFee", "assessedCustomFees",
         "automaticTokenAssociations", "ethereumHash", "paidStakingRewards",
         "evmAddress", "duplicateTransactionRecords",
         "childTransactionRecords", "scheduleRef", "contractCallResult",
         "contractCreateResult", "receipt", "transactionID",
         "consensusTimestamp", "parentConsensusTimestamp", "transferList",
         "tokenTransferLists", "alias", "prngBytes", "prngNumber"}
  BY DEF TransactionRecordMessage, Message, ++
<1>3. /\ \A f \in {"transactionHash", "memo", "transactionFee",
                   "assessedCustomFees", "automaticTokenAssociations",
                   "ethereumHash", "paidStakingRewards", "evmAddress",
                   "duplicateTransactionRecords", "childTransactionRecords"} :
           TransactionRecordMessage[f] = {0, 1}
      /\ \A f \in {"scheduleRef", "contractCallResult",
                   "contractCreateResult"} :
           TransactionRecordMessage[f] = {Null, 1}
      /\ \A f \in {"receipt", "transactionID"} :
           TransactionRecordMessage[f] = {1}
      /\ TransactionRecordMessage.consensusTimestamp = {1, Beyond}
      /\ TransactionRecordMessage.parentConsensusTimestamp = {Null, 1, Beyond}
      /\ \A f \in {"transferList", "prngBytes", "prngNumber"} :
           TransactionRecordMessage[f] = {Null, 0, 1}
      /\ TransactionRecordMessage.tokenTransferLists = Groups
      /\ TransactionRecordMessage.alias = {0, 1, Composite}
  BY DEF TransactionRecordMessage, Message, ++, Times
<1>4. Needed("TransactionRecord") \subseteq {"receipt", "transactionID",
                                                "consensusTimestamp"}
  BY <1>1, <1>2, <1>3, NullAssumption DEF Needed, Beyond, Composite
<1>5. ASSUME NEW m,
             \A f \in DOMAIN TransactionRecordMessage :
               m[f] \in TransactionRecordMessage[f],
             m.contractCallResult = Null \/ m.contractCreateResult = Null,
             NEW o,
             o = TransactionRecordNew(TransactionRecordDecode(m)),
             NEW e, e = TransactionRecordEncode(o),
             NEW w, w = Received("TransactionRecord", e),
             NEW r,
             r = TransactionRecordNew(TransactionRecordDecode(w))
      PROVE  /\ \A f \in DOMAIN TransactionRecordMessage :
                  w[f] = m[f] \/ m[f] = Beyond
                    \/ f \in {"alias", "transferList", "tokenTransferLists"}
             /\ \A f \in Needed("TransactionRecord") : w[f] # Null
             /\ \A f \in DOMAIN o :
                  r[f] = o[f] \/ f \in {"tokenTransfers", "nftTransfers",
                                           "tokenTransfersList"}
             /\ KeepsTokens(o, r)
  <2>1. /\ DOMAIN o = {"receipt", "transactionHash", "consensusTimestamp",
                      "transactionId", "transactionMemo", "transactionFee",
                      "transfers", "contractFunctionResult", "createResult",
                      "tokenTransfers", "tokenTransfersList", "scheduleRef",
                      "assessedCustomFees", "nftTransfers",
                      "automaticTokenAssociations",
                      "parentConsensusTimestamp", "aliasKey", "duplicates",
                      "children", "U2UAllowanceAdjustments",
                      "tokenAllowanceAdjustments", "nftAllowanceAdjustments",
                      "ethereumHash", "paidStakingRewards", "prngBytes",
                      "prngNumber", "evmAddress"}
        /\ o.receipt = m.receipt
        /\ o.transactionHash = m.transactionHash
        /\ o.consensusTimestamp = Seconds(m.consensusTimestamp)
        /\ o.transactionId = m.transactionID
        /\ o.transactionMemo = m.memo
        /\ o.transactionFee = m.transactionFee
        /\ o.transfers = Scalar(m.transferList)
        /\ o.contractFunctionResult
             = IF m.contractCallResult # Null
               THEN m.contractCallResult ELSE m.contractCreateResult
        /\ o.createResult = (m.contractCallResult = Null)
        /\ o.tokenTransfers = TokenTransferMap(m.tokenTransferLists)
        /\ o.tokenTransfersList = TokenTransferMap(m.tokenTransferLists)
        /\ o.scheduleRef = m.scheduleRef
        /\ o.assessedCustomFees = m.assessedCustomFees
        /\ o.nftTransfers = TokenNftTransferMap(m.tokenTransferLists)
        /\ o.automaticTokenAssociations = m.automaticTokenAssociations
        /\ o.parentConsensusTimestamp = Seconds(m.parentConsensusTimestamp)
        /\ o.aliasKey = IF m.alias = 1 THEN 1 ELSE Null
        /\ o.duplicates = m.duplicateTransactionRecords
        /\ o.children = m.childTransactionRecords
        /\ o.U2UAllowanceAdjustments = 0
        /\ o.tokenAllowanceAdjustments = 0
        /\ o.nftAllowanceAdjustments = 0
        /\ o.ethereumHash = m.ethereumHash
        /\ o.paidStakingRewards = m.paidStakingRewards
        /\ o.prngBytes = m.prngBytes
        /\ o.prngNumber = m.prngNumber
        /\ o.evmAddress = m.evmAddress
    BY <1>5 DEF TransactionRecordNew, Copied, TransactionRecordDecode
  <2>2. /\ w.transactionHash = Scalar(o.transactionHash)
        /\ w.memo = Scalar(o.transactionMemo)
        /\ w.transactionFee = Scalar(o.transactionFee)
        /\ w.assessedCustomFees = Scalar(o.assessedCustomFees)
        /\ w.automaticTokenAssociations = Scalar(o.automaticTokenAssociations)
        /\ w.ethereumHash = Scalar(o.ethereumHash)
        /\ w.paidStakingRewards = Scalar(o.paidStakingRewards)
        /\ w.evmAddress = Scalar(o.evmAddress)
        /\ w.duplicateTransactionRecords = Scalar(o.duplicates)
        /\ w.childTransactionRecords = Scalar(o.children)
        /\ w.scheduleRef = o.scheduleRef
        /\ w.contractCallResult
             = IF o.createResult THEN Null ELSE o.contractFunctionResult
        /\ w.contractCreateResult
             = IF o.createResult THEN o.contractFunctionResult ELSE Null
        /\ w.receipt = o.receipt
        /\ w.transactionID = o.transactionId
        /\ w.consensusTimestamp = o.consensusTimestamp
        /\ w.parentConsensusTimestamp = o.parentConsensusTimestamp
        /\ w.transferList = o.transfers
        /\ w.tokenTransferLists
             = TokenTransferLists(o.tokenTransfers, o.nftTransfers)
        /\ w.alias = Scalar(o.aliasKey)
        /\ w.prngBytes = o.prngBytes
        /\ w.prngNumber = o.prngNumber
    BY <1>1, <1>2, <1>5 DEF Received, TransactionRecordEncode
  <2>3. /\ w.transactionHash = m.transactionHash
        /\ w.memo = m.memo
        /\ w.transactionFee = m.transactionFee
        /\ w.assessedCustomFees = m.assessedCustomFees
        /\ w.automaticTokenAssociations = m.automaticTokenAssociations
        /\ w.ethereumHash = m.ethereumHash
        /\ w.paidStakingRewards = m.paidStakingRewards
        /\ w.evmAddress = m.evmAddress
        /\ w.duplicateTransactionRecords = m.duplicateTransactionRecords
        /\ w.childTransactionRecords = m.childTransactionRecords
        /\ w.scheduleRef = m.scheduleRef
        /\ w.receipt = m.receipt
        /\ w.transactionID = m.transactionID
        /\ w.prngBytes = m.prngBytes
        /\ w.prngNumber = m.prngNumber
        /\ \/ w.consensusTimestamp = m.consensusTimestamp
           \/ m.consensusTimestamp = Beyond
        /\ \/ w.parentConsensusTimestamp = m.parentConsensusTimestamp
           \/ m.parentConsensusTimestamp = Beyond
    BY <1>2, <1>3, <1>5, <2>1, <2>2, NullAssumption DEF Scalar, Seconds,
      Beyond, Composite, Wrapped
  <2>4. /\ w.receipt # Null
        /\ w.transactionID # Null
        /\ w.consensusTimestamp # Null
    BY <1>2, <1>3, <1>5, <2>1, <2>2, NullAssumption DEF Scalar, Seconds,
      Beyond, Composite, Wrapped
  <2>5. /\ r.receipt = w.receipt
        /\ r.transactionHash = w.transactionHash
        /\ r.consensusTimestamp = Seconds(w.consensusTimestamp)
        /\ r.transactionId = w.transactionID
        /\ r.transactionMemo = w.memo
        /\ r.transactionFee = w.transactionFee
        /\ r.transfers = Scalar(w.transferList)
        /\ r.contractFunctionResult
             = IF w.contractCallResult # Null
               THEN w.contractCallResult ELSE w.contractCreateResult
        /\ r.createResult = (w.contractCallResult = Null)
        /\ r.tokenTransfers = TokenTransferMap(w.tokenTransferLists)
        /\ r.tokenTransfersList = TokenTransferMap(w.tokenTransferLists)
        /\ r.scheduleRef = w.scheduleRef
        /\ r.assessedCustomFees = w.assessedCustomFees
        /\ r.nftTransfers = TokenNftTransferMap(w.tokenTransferLists)
        /\ r.automaticTokenAssociations = w.automaticTokenAssociations
        /\ r.parentConsensusTimestamp = Seconds(w.parentConsensusTimestamp)
        /\ r.aliasKey = IF w.alias = 1 THEN 1 ELSE Null
        /\ r.duplicates = w.duplicateTransactionRecords
        /\ r.children = w.childTransactionRecords
        /\ r.U2UAllowanceAdjustments = 0
        /\ r.tokenAllowanceAdjustments = 0
        /\ r.nftAllowanceAdjustments = 0
        /\ r.ethereumHash = w.ethereumHash
        /\ r.paidStakingRewards = w.paidStakingRewards
        /\ r.prngBytes = w.prngBytes
        /\ r.prngNumber = w.prngNumber
        /\ r.evmAddress = w.evmAddress
    BY <1>5 DEF TransactionRecordNew, Copied, TransactionRecordDecode
  <2>6. /\ r.receipt = o.receipt
        /\ r.transactionHash = o.transactionHash
        /\ r.consensusTimestamp = o.consensusTimestamp
        /\ r.transactionId = o.transactionId
        /\ r.transactionMemo = o.transactionMemo
        /\ r.transactionFee = o.transactionFee
        /\ r.transfers = o.transfers
        /\ r.scheduleRef = o.scheduleRef
        /\ r.assessedCustomFees = o.assessedCustomFees
        /\ r.automaticTokenAssociations = o.automaticTokenAssociations
        /\ r.parentConsensusTimestamp = o.parentConsensusTimestamp
        /\ r.aliasKey = o.aliasKey
        /\ r.duplicates = o.duplicates
        /\ r.children = o.children
        /\ r.U2UAllowanceAdjustments = o.U2UAllowanceAdjustments
        /\ r.tokenAllowanceAdjustments = o.tokenAllowanceAdjustments
        /\ r.nftAllowanceAdjustments = o.nftAllowanceAdjustments
        /\ r.ethereumHash = o.ethereumHash
        /\ r.paidStakingRewards = o.paidStakingRewards
        /\ r.prngBytes = o.prngBytes
        /\ r.prngNumber = o.prngNumber
        /\ r.evmAddress = o.evmAddress
    BY <1>2, <1>3, <1>5, <2>1, <2>2, <2>5, NullAssumption DEF Scalar, Seconds,
      Beyond, Composite, Wrapped
  <2>7. /\ w.contractCallResult = m.contractCallResult
        /\ w.contractCreateResult = m.contractCreateResult
    <3>1. CASE m.contractCallResult = Null
      <4>1. o.createResult = TRUE /\ o.contractFunctionResult
                                      = m.contractCreateResult
        BY <2>1, <3>1
      <4> QED
        BY <2>2, <3>1, <4>1
    <3>2. CASE m.contractCallResult # Null
      <4>1. o.createResult = FALSE /\ o.contractFunctionResult
                                       = m.contractCallResult
        BY <2>1, <3>2
      <4> QED
        BY <1>5, <2>2, <3>2, <4>1
    <3> QED
      BY <3>1, <3>2
  <2>8. /\ r.contractFunctionResult = o.contractFunctionResult
        /\ r.createResult = o.createResult
    BY <2>1, <2>5, <2>7
  <2>9. KeepsTokens(o, r)
    <3>1. m.tokenTransferLists \in Groups
      BY <1>2, <1>3, <1>5
    <3>2. /\ o.tokenTransfers \in [RecordToken -> Nat]
          /\ o.nftTransfers \in [RecordToken -> Nat]
      <4>1. /\ m.tokenTransferLists.fungible \in [RecordToken -> {0, 1}]
            /\ m.tokenTransferLists.nfts \in [RecordToken -> {0, 1}]
        BY <3>1 DEF Groups
      <4> QED
        BY <2>1, <4>1 DEF TokenTransferMap, TokenNftTransferMap
    <3> QED
      BY <2>2, <2>5, <3>2, TokensKept
  <2> QED
    BY <1>2, <1>4, <2>1, <2>3, <2>4, <2>6, <2>7, <2>8, <2>9
<1>6. Starts("TransactionRecord")
  BY <1>1, <1>2, <1>3, NoGroupsTyped DEF Starts
<1>7. /\ Of(LostFields, "TransactionRecord") = {"alias", "transferList",
                                               "tokenTransferLists"}
      /\ Of(Faded, "TransactionRecord") = {"tokenTransfers", "nftTransfers",
                                          "tokenTransfersList"}
  BY DEF Of, LostFields, Faded
<1>8. ASSUME NEW m, Sent("TransactionRecord", m),
             NEW o, o = Read("TransactionRecord", m),
             NEW w,
             w = Received("TransactionRecord",
                          Write("TransactionRecord", o)),
             NEW r, r = Read("TransactionRecord", w)
      PROVE  Tells("TransactionRecord", m, o, w, r)
  BY <1>1, <1>5, <1>7, <1>8 DEF Tells, Readable, Sent
<1> QED
  BY <1>6, <1>8, Zenon DEF Telling

-----------------------------------------------------------------------------
(* Answers: the inductive invariant *)

(* Every class of answers keeps what a node said. *)
LEMMA AnswersTelling ==
    ASSUME NEW k \in Kinds
    PROVE  Telling(k)
  BY AccountInfoTelling, AccountBalanceTelling, StakingInfoTelling,
      TokenRelationshipTelling, LiveHashTelling, ProxyStakerTelling,
      ContractInfoTelling, TokenInfoTelling, TokenNftInfoTelling,
      TokenAssociationTelling, AssessedCustomFeeTelling,
      CustomFixedFeeTelling, CustomFractionalFeeTelling,
      CustomRoyaltyFeeTelling, FileInfoTelling, TopicInfoTelling,
      ScheduleInfoTelling, ExchangeRateTelling, ExchangeRatesTelling,
      FeeComponentsTelling, FeeDataTelling, TransactionFeeScheduleTelling,
      FeeScheduleTelling, FeeSchedulesTelling, NetworkVersionInfoTelling,
      SemanticVersionTelling, EndpointTelling, NodeAddressTelling,
      ContractLogInfoTelling, StorageChangeTelling,
      ContractStateChangeTelling, ContractFunctionResultTelling,
      TopicMessageChunkTelling, TransactionReceiptTelling,
      TransactionRecordTelling,
     KindsAssumption DEF AnswerClasses

(* What a node always sends is a message of the class. *)
LEMMA BareSent ==
    ASSUME NEW k \in Kinds
    PROVE  Sent(k, Bare(k))
<1>1. ASSUME NEW f \in DOMAIN MessageOf(k)
      PROVE  Bare(k)[f] \in MessageOf(k)[f]
  <2>1. /\ \/ f = "tokenTransferLists" /\ NoGroups \in MessageOf(k)[f]
           \/ /\ f # "tokenTransferLists"
              /\ 1 \in MessageOf(k)[f]
              /\ \/ MessageOf(k)[f] \subseteq {1, Beyond}
                 \/ 0 \in MessageOf(k)[f]
                 \/ Null \in MessageOf(k)[f]
    BY <1>1, AnswersTelling DEF Telling, Starts
  <2>2. Bare(k)[f] = IF f \in Needed(k) THEN 1 ELSE Absent(k, f)
    BY <1>1 DEF Bare
  <2>3. CASE f = "tokenTransferLists"
    <3>1. f \notin Needed(k) /\ Absent(k, f) = NoGroups
      BY <2>3 DEF Needed, Absent
    <3> QED
      BY <2>1, <2>2, <2>3, <3>1
  <2>4. CASE f # "tokenTransferLists" /\ f \in Needed(k)
    BY <2>1, <2>2, <2>4
  <2>5. CASE f # "tokenTransferLists" /\ f \notin Needed(k)
    <3>1. ~ (MessageOf(k)[f] \subseteq {1, Beyond})
      BY <1>1, <2>5, Zenon DEF Needed
    <3>2. Absent(k, f)
            = IF Null \notin MessageOf(k)[f] /\ 0 \in MessageOf(k)[f]
              THEN 0 ELSE Null
      BY <2>5 DEF Absent
    <3> QED
      BY <2>1, <2>2, <2>5, <3>1, <3>2
  <2> QED
    BY <2>3, <2>4, <2>5
<1>2. ASSUME k = "TransactionRecord"
      PROVE  Bare(k).contractCallResult = Null
  <2>1. MessageOf(k) = TransactionRecordMessage
    BY <1>2 DEF MessageOf
  <2>2. /\ "contractCallResult" \in DOMAIN TransactionRecordMessage
        /\ TransactionRecordMessage.contractCallResult = {Null, 1}
    BY DEF TransactionRecordMessage, Message, ++
  <2>3. "contractCallResult" \notin Needed(k)
    BY <2>1, <2>2, NullAssumption DEF Needed, Beyond
  <2> QED
    BY <2>1, <2>2, <2>3 DEF Bare, Absent
<1> QED
  BY <1>1, <1>2 DEF Sent, Bare

(* A message has the result of a call or of a creation, not both. *)
LEMMA OneResult ==
    ASSUME NEW m, Exclusive(m),
           "contractCallResult" \in DOMAIN m,
           "contractCreateResult" \in DOMAIN m
    PROVE  m.contractCallResult = Null \/ m.contractCreateResult = Null
<1> DEFINE set == {f \in {"contractCallResult", "contractCreateResult"}
                            \cap DOMAIN m : m[f] # Null}
<1>1. Cardinality(set) <= 1
  BY DEF Exclusive, OneOfs
<1>2. SUFFICES ASSUME m.contractCallResult # Null,
                      m.contractCreateResult # Null
               PROVE  FALSE
  OBVIOUS
<1>3. set = {"contractCallResult", "contractCreateResult"}
  BY <1>2
<1>4. "contractCallResult" # "contractCreateResult"
  OBVIOUS
<1> HIDE DEF set
<1>5. Cardinality(set) = 2
  <2>1. IsFiniteSet({"contractCallResult"})
        /\ Cardinality({"contractCallResult"}) = 1
    BY FS_Singleton
  <2>2. set = {"contractCallResult"} \cup {"contractCreateResult"}
    BY <1>3
  <2>3. Cardinality({"contractCallResult"} \cup {"contractCreateResult"})
          = Cardinality({"contractCallResult"}) + 1
    BY <1>4, <2>1, FS_AddElement
  <2> QED
    BY <2>1, <2>2, <2>3
<1> QED
  BY <1>1, <1>5

(* An object was decoded from the message, the bytes written from it, and  *)
(* what was read again read from the bytes.                                *)
AnswerInv ==
    /\ answer \in Kinds
    /\ Sent(answer, message)
    /\ object # Null => object = Read(answer, message)
    /\ written # Null =>
         /\ object # Null
         /\ written = Write(answer, object)
    /\ again # Null =>
         /\ written # Null
         /\ Readable(answer, Received(answer, written))
         /\ again = Read(answer, Received(answer, written))

LEMMA AnswerInductive ==
    AnswerInv /\ [AnswerNext]_answerVars => AnswerInv'
<1> SUFFICES ASSUME AnswerInv, [AnswerNext]_answerVars
             PROVE  AnswerInv'
  OBVIOUS
<1>1. ASSUME NEW f \in DOMAIN message, NEW v \in MessageOf(answer)[f],
             Fill(f, v)
      PROVE  AnswerInv'
  <2>1. /\ message' = [message EXCEPT ![f] = v]
        /\ Exclusive(message')
        /\ UNCHANGED <<answer, object, written, again>>
        /\ object = Null
    BY <1>1 DEF Fill
  <2>2. object' = Null /\ written' = Null /\ again' = Null
    BY <2>1 DEF AnswerInv
  <2>3. /\ DOMAIN message' = DOMAIN MessageOf(answer)
        /\ \A g \in DOMAIN MessageOf(answer) :
             message'[g] \in MessageOf(answer)[g]
    BY <1>1, <2>1 DEF AnswerInv, Sent
  <2>4. ASSUME answer = "TransactionRecord"
        PROVE  \/ message'.contractCallResult = Null
               \/ message'.contractCreateResult = Null
    <3>1. MessageOf(answer) = TransactionRecordMessage
      BY <2>4 DEF MessageOf
    <3>2. {"contractCallResult", "contractCreateResult"}
            \subseteq DOMAIN TransactionRecordMessage
      BY DEF TransactionRecordMessage, Message, ++
    <3> QED
      BY <2>1, <2>3, <3>1, <3>2, OneResult
  <2>5. Sent(answer, message')
    BY <2>3, <2>4 DEF Sent
  <2> QED
    BY <2>1, <2>2, <2>5 DEF AnswerInv
<1>2. CASE ReadAnswer
  BY <1>2 DEF ReadAnswer, AnswerInv
<1>3. CASE WriteAnswer
  BY <1>3 DEF WriteAnswer, AnswerInv
<1>4. CASE ReadAgain
  BY <1>4 DEF ReadAgain, AnswerInv
<1>5. CASE UNCHANGED answerVars
  BY <1>5 DEF answerVars, AnswerInv
<1> QED
  BY <1>1, <1>2, <1>3, <1>4, <1>5 DEF AnswerNext

LEMMA AnswerInvFaithful == AnswerInv => AnswersFaithful
<1> SUFFICES ASSUME AnswerInv
             PROVE  AnswersFaithful
  OBVIOUS
<1>1. CASE written = Null
  BY <1>1 DEF AnswerInv, AnswersFaithful, AnswerKept, WrittenReadable, ReadBack
<1>2. CASE written # Null
  <2> DEFINE w == Received(answer, written)
  <2>1. /\ object = Read(answer, message)
        /\ written = Write(answer, object)
        /\ DOMAIN message = DOMAIN MessageOf(answer)
    BY <1>2 DEF AnswerInv, Sent
  <2>2. Tells(answer, message, object, w, Read(answer, w))
    BY <2>1, AnswersTelling DEF AnswerInv, Telling
  <2>3. again # Null => Readable(answer, w) /\ again = Read(answer, w)
    BY DEF AnswerInv
  <2> HIDE DEF w
  <2>4. again # Null => Tells(answer, message, object, w, again)
    BY <2>2, <2>3
  <2>5. AnswerKept
    BY <2>1, <2>2 DEF AnswerKept, Tells, w
  <2>6. WrittenReadable
    BY <2>2 DEF WrittenReadable, Tells, w
  <2>7. ReadBack
    BY <2>3, <2>4 DEF ReadBack, Tells, KeepsTokens
  <2> QED
    BY <2>5, <2>6, <2>7 DEF AnswersFaithful
<1> QED
  BY <1>1, <1>2

(* What toBytes() writes of an answer says what the node said but for the  *)
(* fields that LostFields names and for late times, fromBytes() can read   *)
(* it but for topics and receipts without rates, and gives the same object *)
(* but for Faded: for any choice of classes and any number of fields that  *)
(* a node fills in.                                                        *)
THEOREM AnswersCorrect == AnswerSpec => []AnswersFaithful
<1>1. AnswerInit => AnswerInv
  <2> SUFFICES ASSUME AnswerInit
               PROVE  AnswerInv
    OBVIOUS
  <2>1. /\ answer \in Kinds /\ message = Bare(answer)
        /\ object = Null /\ written = Null /\ again = Null
    BY DEF AnswerInit
  <2> QED
    BY <2>1, BareSent DEF AnswerInv
<1> QED
  BY <1>1, AnswerInductive, AnswerInvFaithful, PTL DEF AnswerSpec

=============================================================================
