------------------------- MODULE AccountTransactions ------------------------
(***************************************************************************)
(* The transactions of accounts and live hashes (src/src/account). Each    *)
(* class has the same parts: XNew(p), the constructor with the properties  *)
(* p; XSetters, the fields its setters write; XChecked, the IDs that       *)
(* _validateChecksums() looks at; XMake(o), the body that                  *)
(* _makeTransactionData() gives; XFrom(b), the properties that             *)
(* _fromProtobuf() hands to the constructor; XCall, the case of the body,  *)
(* which is also the key of the class in TRANSACTION_REGISTRY, and the     *)
(* call of _execute(). Wire explains the values.                           *)
(***************************************************************************)
EXTENDS Wire

\* ---- AccountCreateTransaction
\* setAlias() is not guarded; the tiny amount of the wire is given to
\* setInitialBalance() as a number of U2U; an empty alias is no alias.
AccountCreateNew(p) ==
  Constructed([key |-> Null, initialBalance |-> Null,
               sendRecordThreshold |-> Default,
               receiveRecordThreshold |-> Default,
               receiverSignatureRequired |-> 0, proxyAccountId |-> Null,
               autoRenewPeriod |-> Default, accountMemo |-> Null,
               maxAutomaticTokenAssociations |-> Null,
               stakedAccountId |-> Null, stakedNodeId |-> Null,
               declineStakingReward |-> 0, alias |-> Null], p)
AccountCreateSetters ==
  [guarded |-> {"key", "initialBalance", "receiverSignatureRequired",
                "proxyAccountId", "autoRenewPeriod", "accountMemo",
                "maxAutomaticTokenAssociations", "stakedAccountId",
                "stakedNodeId", "declineStakingReward"},
   open |-> {"alias"},
   nulls |-> NoEffect,
   clears |-> NoEffect,
   openClears |-> {}]
AccountCreateChecked == {"proxyAccountId"}
AccountCreateMake(o) ==
  [key |-> o.key, initialBalance |-> Scalar(o.initialBalance),
   autoRenewPeriod |-> o.autoRenewPeriod,
   proxyAccountID |-> Id(o.proxyAccountId),
   receiveRecordThreshold |-> Scalar(o.receiveRecordThreshold),
   sendRecordThreshold |-> Scalar(o.sendRecordThreshold),
   receiverSigRequired |-> Scalar(o.receiverSignatureRequired),
   memo |-> Scalar(o.accountMemo),
   maxAutomaticTokenAssociations |-> Scalar(o.maxAutomaticTokenAssociations),
   stakedAccountId |-> Id(o.stakedAccountId), stakedNodeId |-> o.stakedNodeId,
   declineReward |-> Scalar(o.declineStakingReward),
   alias |-> Scalar(o.alias)]
AccountCreateFrom(b) ==
  [key |-> b.key, initialBalance |-> NewU2U(b.initialBalance),
   receiverSignatureRequired |-> b.receiverSigRequired,
   proxyAccountId |-> b.proxyAccountID, autoRenewPeriod |-> b.autoRenewPeriod,
   accountMemo |-> b.memo,
   maxAutomaticTokenAssociations |-> b.maxAutomaticTokenAssociations,
   stakedAccountId |-> b.stakedAccountId, stakedNodeId |-> b.stakedNodeId,
   declineStakingReward |-> b.declineReward,
   alias |-> IF b.alias = 0 THEN Null ELSE b.alias]
AccountCreateCall ==
  [case |-> "cryptoCreateAccount", rpc |-> "crypto.createAccount"]

\* ---- AccountUpdateTransaction
\* The body carries receiverSigRequiredWrapper, the decoder reads
\* receiverSigRequired, which is never written; a wrapper is an object, so
\* Boolean() of any wrapper is true.
AccountUpdateNew(p) ==
  Constructed([accountId |-> Null, key |-> Null,
               receiverSignatureRequired |-> 0, proxyAccountId |-> Null,
               autoRenewPeriod |-> Null, expirationTime |-> Null,
               accountMemo |-> Null, maxAutomaticTokenAssociations |-> Null,
               aliasKey |-> Null, stakedAccountId |-> Null,
               stakedNodeId |-> Null, declineStakingReward |-> Null], p)
AccountUpdateSetters ==
  [guarded |-> {"accountId", "key", "receiverSignatureRequired",
                "proxyAccountId", "autoRenewPeriod", "expirationTime",
                "accountMemo", "maxAutomaticTokenAssociations",
                "stakedAccountId", "stakedNodeId", "declineStakingReward"},
   open |-> {}, nulls |-> NoEffect,
   clears |-> [accountMemo |-> Null, stakedAccountId |-> 0,
               stakedNodeId |-> -1],
   openClears |-> {}]
AccountUpdateChecked == {"accountId", "proxyAccountId"}
AccountUpdateMake(o) ==
  [accountIDToUpdate |-> Id(o.accountId), key |-> o.key,
   expirationTime |-> o.expirationTime,
   proxyAccountID |-> Id(o.proxyAccountId),
   autoRenewPeriod |-> o.autoRenewPeriod,
   receiverSigRequiredWrapper |-> o.receiverSignatureRequired,
   memo |-> o.accountMemo,
   maxAutomaticTokenAssociations |-> o.maxAutomaticTokenAssociations,
   stakedAccountId |-> Id(o.stakedAccountId), stakedNodeId |-> o.stakedNodeId,
   declineReward |-> o.declineStakingReward]
AccountUpdateFrom(b) ==
  [accountId |-> b.accountIDToUpdate, key |-> b.key,
   receiverSignatureRequired |-> 0, proxyAccountId |-> b.proxyAccountID,
   autoRenewPeriod |-> b.autoRenewPeriod,
   expirationTime |-> Seconds(b.expirationTime),
   accountMemo |-> b.memo,
   maxAutomaticTokenAssociations |-> b.maxAutomaticTokenAssociations,
   stakedAccountId |-> b.stakedAccountId, stakedNodeId |-> b.stakedNodeId,
   declineStakingReward |-> Present(b.declineReward)]
AccountUpdateCall ==
  [case |-> "cryptoUpdateAccount", rpc |-> "crypto.updateAccount"]

\* ---- AccountDeleteTransaction
AccountDeleteNew(p) ==
  Constructed([accountId |-> Null, transferAccountId |-> Null], p)
AccountDeleteSetters == Guarded({"accountId", "transferAccountId"})
AccountDeleteChecked == {"accountId", "transferAccountId"}
AccountDeleteMake(o) ==
  [deleteAccountID |-> Id(o.accountId),
   transferAccountID |-> Id(o.transferAccountId)]
\* Mutant: the two accounts are swapped.
AccountDeleteFrom_Swapped(b) ==
  [accountId |-> b.transferAccountID, transferAccountId |-> b.deleteAccountID]

AccountDeleteFrom(b) ==
  [accountId |-> b.deleteAccountID, transferAccountId |-> b.transferAccountID]
AccountDeleteCall == [case |-> "cryptoDelete", rpc |-> "crypto.cryptoDelete"]

\* ---- LiveHashAddTransaction
\* The message liveHash of the body is always present: its fields stand for
\* it.
LiveHashAddNew(p) ==
  Constructed([hash |-> Null, keys |-> Null, duration |-> Null,
               accountId |-> Null], p)
LiveHashAddSetters == Guarded({"hash", "keys", "duration", "accountId"})
LiveHashAddChecked == {"accountId"}
LiveHashAddMake(o) ==
  [hash |-> Scalar(o.hash), keys |-> o.keys, duration |-> o.duration,
   accountId |-> Id(o.accountId)]
LiveHashAddFrom(b) ==
  [hash |-> b.hash, keys |-> b.keys, duration |-> b.duration,
   accountId |-> b.accountId]
LiveHashAddCall ==
  [case |-> "cryptoAddLiveHash", rpc |-> "crypto.addLiveHash"]

\* ---- LiveHashDeleteTransaction
LiveHashDeleteNew(p) == Constructed([hash |-> Null, accountId |-> Null], p)
LiveHashDeleteSetters == Guarded({"hash", "accountId"})
LiveHashDeleteChecked == {"accountId"}
LiveHashDeleteMake(o) ==
  [liveHashToDelete |-> Scalar(o.hash), accountOfLiveHash |-> Id(o.accountId)]
LiveHashDeleteFrom(b) ==
  [hash |-> b.liveHashToDelete, accountId |-> b.accountOfLiveHash]
LiveHashDeleteCall ==
  [case |-> "cryptoDeleteLiveHash", rpc |-> "crypto.deleteLiveHash"]

=============================================================================
