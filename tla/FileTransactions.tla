-------------------------- MODULE FileTransactions --------------------------
(***************************************************************************)
(* The transactions of files and topics (src/src/file, src/src/topic).     *)
(* Each class has the same parts: XNew(p), the constructor with the        *)
(* properties p; XSetters, the fields its setters write; XChecked, the     *)
(* IDs that _validateChecksums() looks at; XMake(o), the body that         *)
(* _makeTransactionData() gives; XFrom(b), the properties that             *)
(* _fromProtobuf() hands to the constructor; XCall, the case of the body,  *)
(* which is also the key of the class in TRANSACTION_REGISTRY, and the     *)
(* call of _execute(). Wire explains the values.                           *)
(***************************************************************************)
EXTENDS Wire

\* ---- FileCreateTransaction
FileCreateNew(p) ==
  Constructed([keys |-> Null, expirationTime |-> Default, contents |-> Null,
               fileMemo |-> Null], p)
FileCreateSetters ==
  Guarded({"keys", "expirationTime", "contents", "fileMemo"})
FileCreateMake(o) ==
  [keys |-> o.keys, expirationTime |-> o.expirationTime,
   contents |-> Scalar(o.contents), memo |-> Scalar(o.fileMemo)]
FileCreateFrom(b) ==
  [keys |-> b.keys, expirationTime |-> Seconds(b.expirationTime),
   contents |-> b.contents, fileMemo |-> b.memo]
FileCreateCall == [case |-> "fileCreate", rpc |-> "file.createFile"]

\* ---- FileUpdateTransaction
FileUpdateNew(p) ==
  Constructed([fileId |-> Null, keys |-> Null, expirationTime |-> Null,
               contents |-> Null, fileMemo |-> Null], p)
FileUpdateSetters ==
  [guarded |-> {"fileId", "keys", "expirationTime", "contents", "fileMemo"},
   open |-> {},
   nulls |-> NoEffect,
   clears |-> [fileMemo |-> Null],
   openClears |-> {}]
FileUpdateChecked == {"fileId"}
FileUpdateMake(o) ==
  [fileID |-> Id(o.fileId), keys |-> o.keys,
   expirationTime |-> o.expirationTime, contents |-> Scalar(o.contents),
   memo |-> o.fileMemo]
FileUpdateFrom(b) ==
  [fileId |-> b.fileID, keys |-> b.keys,
   expirationTime |-> Seconds(b.expirationTime), contents |-> b.contents,
   fileMemo |-> b.memo]
FileUpdateCall == [case |-> "fileUpdate", rpc |-> "file.updateFile"]

\* ---- FileDeleteTransaction
FileDeleteNew(p) == Constructed([fileId |-> Null], p)
FileDeleteSetters == Guarded({"fileId"})
FileDeleteChecked == {"fileId"}
FileDeleteMake(o) == [fileID |-> Id(o.fileId)]
FileDeleteFrom(b) == [fileId |-> b.fileID]
FileDeleteCall == [case |-> "fileDelete", rpc |-> "file.deleteFile"]

\* ---- TopicCreateTransaction
TopicCreateNew(p) ==
  Constructed([adminKey |-> Null, submitKey |-> Null,
               autoRenewAccountId |-> Null, autoRenewPeriod |-> Default,
               topicMemo |-> Null], p)
TopicCreateSetters ==
  Guarded({"topicMemo", "adminKey", "submitKey", "autoRenewAccountId",
           "autoRenewPeriod"})
TopicCreateChecked == {"autoRenewAccountId"}
TopicCreateMake(o) ==
  [adminKey |-> o.adminKey, submitKey |-> o.submitKey,
   autoRenewAccount |-> Id(o.autoRenewAccountId),
   autoRenewPeriod |-> o.autoRenewPeriod, memo |-> Scalar(o.topicMemo)]
TopicCreateFrom(b) ==
  [adminKey |-> b.adminKey, submitKey |-> b.submitKey,
   autoRenewAccountId |-> b.autoRenewAccount,
   autoRenewPeriod |-> b.autoRenewPeriod, topicMemo |-> b.memo]
TopicCreateCall ==
  [case |-> "consensusCreateTopic", rpc |-> "consensus.createTopic"]

\* ---- TopicUpdateTransaction
TopicUpdateNew(p) ==
  Constructed([topicId |-> Null, topicMemo |-> Null, submitKey |-> Null,
               adminKey |-> Null, autoRenewAccountId |-> Null,
               autoRenewPeriod |-> Null, expirationTime |-> Null], p)
TopicUpdateSetters ==
  [guarded |-> {"expirationTime", "topicId", "topicMemo", "adminKey",
                "submitKey", "autoRenewAccountId", "autoRenewPeriod"},
   open |-> {},
   nulls |-> NoEffect,
   clears |-> [topicId |-> Null, topicMemo |-> Null, adminKey |-> Null,
               submitKey |-> Null, autoRenewAccountId |-> Null],
   openClears |-> {}]
TopicUpdateChecked == {"topicId", "autoRenewAccountId"}
TopicUpdateMake(o) ==
  [topicID |-> Id(o.topicId), adminKey |-> o.adminKey,
   submitKey |-> o.submitKey, memo |-> o.topicMemo,
   autoRenewAccount |-> Id(o.autoRenewAccountId),
   autoRenewPeriod |-> o.autoRenewPeriod, expirationTime |-> o.expirationTime]
TopicUpdateFrom(b) ==
  [topicId |-> b.topicID, adminKey |-> b.adminKey, submitKey |-> b.submitKey,
   autoRenewAccountId |-> b.autoRenewAccount,
   autoRenewPeriod |-> b.autoRenewPeriod, topicMemo |-> b.memo,
   expirationTime |-> Seconds(b.expirationTime)]
TopicUpdateCall ==
  [case |-> "consensusUpdateTopic", rpc |-> "consensus.updateTopic"]

\* ---- TopicDeleteTransaction
TopicDeleteNew(p) == Constructed([topicId |-> Null], p)
TopicDeleteSetters == Guarded({"topicId"})
TopicDeleteChecked == {"topicId"}
TopicDeleteMake(o) == [topicID |-> Id(o.topicId)]
TopicDeleteFrom(b) == [topicId |-> b.topicID]
TopicDeleteCall ==
  [case |-> "consensusDeleteTopic", rpc |-> "consensus.deleteTopic"]

=============================================================================
