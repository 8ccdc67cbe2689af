------------------------ MODULE ContractTransactions ------------------------
(***************************************************************************)
(* The transactions of contracts, the Ethereum transaction and the random  *)
(* number (src/src/contract). Each class has the same parts: XNew(p), the  *)
(* constructor with the properties p; XSetters, the fields its setters     *)
(* write; XChecked, the IDs that _validateChecksums() looks at; XMake(o),  *)
(* the body that _makeTransactionData() gives; XFrom(b), the properties    *)
(* that _fromProtobuf() hands to the constructor; XCall, the case of the   *)
(* body, which is also the key of the class in TRANSACTION_REGISTRY, and   *)
(* the call of _execute(). Wire explains the values.                       *)
(***************************************************************************)
EXTENDS Wire

\* ---- ContractCreateTransaction
\* setBytecode() and setBytecodeFileId() drop each other; the decoder does not
\* pass initcode on, and takes the tiny amount for a number of U2U.
ContractCreateFields ==
  [bytecodeFileId |-> Null, bytecode |-> Null, adminKey |-> Null,
   gas |-> Null, initialBalance |-> Null, proxyAccountId |-> Null,
   autoRenewPeriod |-> Default, constructorParameters |-> Null,
   contractMemo |-> Null, maxAutomaticTokenAssociations |-> Null,
   stakedAccountId |-> Null, stakedNodeId |-> Null,
   declineStakingReward |-> 0, autoRenewAccountId |-> Null]
ContractCreateNew(p) ==
  LET o == Constructed(ContractCreateFields, p)
  IN  IF o.bytecode # Null THEN [o EXCEPT !.bytecodeFileId = Null] ELSE o
ContractCreateSetters ==
  [guarded |-> {"bytecodeFileId", "bytecode", "adminKey", "gas",
                "initialBalance", "proxyAccountId", "autoRenewPeriod",
                "constructorParameters", "contractMemo", "stakedAccountId",
                "stakedNodeId", "declineStakingReward",
                "autoRenewAccountId"},
   open |-> {"maxAutomaticTokenAssociations"},
   nulls |-> [bytecodeFileId |-> "bytecode", bytecode |-> "bytecodeFileId"],
   clears |-> NoEffect, openClears |-> {}]
ContractCreateChecked == {"bytecodeFileId", "proxyAccountId"}
ContractCreateMake(o) ==
  [fileID |-> Id(o.bytecodeFileId), initcode |-> o.bytecode,
   adminKey |-> o.adminKey, gas |-> Scalar(o.gas),
   initialBalance |-> Scalar(o.initialBalance),
   proxyAccountID |-> Id(o.proxyAccountId),
   autoRenewPeriod |-> o.autoRenewPeriod,
   constructorParameters |-> Scalar(o.constructorParameters),
   memo |-> Scalar(o.contractMemo),
   maxAutomaticTokenAssociations |-> Scalar(o.maxAutomaticTokenAssociations),
   stakedAccountId |-> Id(o.stakedAccountId), stakedNodeId |-> o.stakedNodeId,
   declineReward |-> Scalar(o.declineStakingReward),
   autoRenewAccountId |-> Id(o.autoRenewAccountId)]
ContractCreateFrom(b) ==
  [bytecodeFileId |-> b.fileID, adminKey |-> b.adminKey, gas |-> b.gas,
   initialBalance |-> NewU2U(b.initialBalance),
   proxyAccountId |-> b.proxyAccountID, autoRenewPeriod |-> b.autoRenewPeriod,
   constructorParameters |-> b.constructorParameters, contractMemo |-> b.memo,
   maxAutomaticTokenAssociations |-> b.maxAutomaticTokenAssociations,
   stakedAccountId |-> b.stakedAccountId, stakedNodeId |-> b.stakedNodeId,
   declineStakingReward |-> b.declineReward,
   autoRenewAccountId |-> b.autoRenewAccountId]
ContractCreateCall ==
  [case |-> "contractCreateInstance", rpc |-> "smartContract.createContract"]

\* ---- ContractUpdateTransaction
\* clearAutoRenewAccountId() is not guarded; Boolean() of any wrapper is true.
ContractUpdateNew(p) ==
  Constructed([contractId |-> Null, expirationTime |-> Null,
               adminKey |-> Null, proxyAccountId |-> Null,
               autoRenewPeriod |-> Null, bytecodeFileId |-> Null,
               contractMemo |-> Null, maxAutomaticTokenAssociations |-> Null,
               stakedAccountId |-> Null, stakedNodeId |-> Null,
               declineStakingReward |-> Null, autoRenewAccountId |-> Null], p)
ContractUpdateSetters ==
  [guarded |-> {"contractId", "expirationTime", "adminKey", "proxyAccountId",
                "autoRenewPeriod", "bytecodeFileId", "contractMemo",
                "maxAutomaticTokenAssociations", "stakedAccountId",
                "stakedNodeId", "declineStakingReward",
                "autoRenewAccountId"},
   open |-> {}, nulls |-> NoEffect,
   clears |-> [contractMemo |-> Null, autoRenewAccountId |-> 0],
   openClears |-> {"autoRenewAccountId"}]
ContractUpdateChecked == {"contractId", "bytecodeFileId", "proxyAccountId"}
ContractUpdateMake(o) ==
  [contractID |-> Id(o.contractId), expirationTime |-> o.expirationTime,
   adminKey |-> o.adminKey, proxyAccountID |-> Id(o.proxyAccountId),
   autoRenewPeriod |-> o.autoRenewPeriod, fileID |-> Id(o.bytecodeFileId),
   memoWrapper |-> o.contractMemo,
   maxAutomaticTokenAssociations |-> o.maxAutomaticTokenAssociations,
   stakedAccountId |-> Id(o.stakedAccountId), stakedNodeId |-> o.stakedNodeId,
   declineReward |-> o.declineStakingReward,
   autoRenewAccountId |-> Id(o.autoRenewAccountId)]
ContractUpdateFrom(b) ==
  [contractId |-> b.contractID, bytecodeFileId |-> b.fileID,
   expirationTime |-> Seconds(b.expirationTime), adminKey |-> b.adminKey,
   proxyAccountId |-> b.proxyAccountID, autoRenewPeriod |-> b.autoRenewPeriod,
   contractMemo |-> b.memoWrapper,
   maxAutomaticTokenAssociations |-> b.maxAutomaticTokenAssociations,
   stakedAccountId |-> b.stakedAccountId, stakedNodeId |-> b.stakedNodeId,
   declineStakingReward |-> Present(b.declineReward),
   autoRenewAccountId |-> b.autoRenewAccountId]
ContractUpdateCall ==
  [case |-> "contractUpdateInstance", rpc |-> "smartContract.updateContract"]

\* ---- ContractDeleteTransaction
ContractDeleteNew(p) ==
  Constructed([contractId |-> Null, transferAccountId |-> Null,
               transferContractId |-> Null], p)
ContractDeleteSetters ==
  Guarded({"contractId", "transferContractId", "transferAccountId"})
ContractDeleteChecked ==
  {"contractId", "transferAccountId", "transferContractId"}
ContractDeleteMake(o) ==
  [contractID |-> Id(o.contractId),
   transferAccountID |-> Id(o.transferAccountId),
   transferContractID |-> Id(o.transferContractId)]
ContractDeleteFrom(b) ==
  [contractId |-> b.contractID, transferAccountId |-> b.transferAccountID,
   transferContractId |-> b.transferContractID]
ContractDeleteCall ==
  [case |-> "contractDeleteInstance", rpc |-> "smartContract.deleteContract"]

\* ---- ContractExecuteTransaction
\* setFunction() writes functionParameters too.
ContractExecuteNew(p) ==
  Constructed([contractId |-> Null, gas |-> Null, amount |-> Null,
               functionParameters |-> Null], p)
ContractExecuteSetters ==
  Guarded({"contractId", "gas", "amount", "functionParameters"})
ContractExecuteChecked == {"contractId"}
ContractExecuteMake(o) ==
  [contractID |-> Id(o.contractId), gas |-> Scalar(o.gas),
   amount |-> Scalar(o.amount),
   functionParameters |-> Scalar(o.functionParameters)]
ContractExecuteFrom(b) ==
  [contractId |-> b.contractID, gas |-> b.gas, amount |-> b.amount,
   functionParameters |-> b.functionParameters]
ContractExecuteCall ==
  [case |-> "contractCall", rpc |-> "smartContract.contractCallMethod"]

\* ---- EthereumTransaction
\* The constructor and the decoder call the file callData; the check looks at
\* ethereumData, which are bytes, and not at the file.
EthereumNew(p) ==
  Constructed([ethereumData |-> Null, callDataFileId |-> Null,
               maxGasAllowance |-> Null], p)
EthereumSetters ==
  Guarded({"ethereumData", "callDataFileId", "maxGasAllowance"})
EthereumChecked == {}
EthereumMake(o) ==
  [ethereumData |-> Scalar(o.ethereumData), callData |-> Id(o.callDataFileId),
   maxGasAllowance |-> Scalar(o.maxGasAllowance)]
EthereumFrom(b) ==
  [ethereumData |-> b.ethereumData, callDataFileId |-> b.callData,
   maxGasAllowance |-> b.maxGasAllowance]
EthereumCall ==
  [case |-> "ethereumTransaction", rpc |-> "smartContract.callEthereum"]

\* ---- PrngTransaction
\* setRange() is not guarded; _validateChecksums() calls itself without end
\* when the range is set: it passes only without a range.
PrngNew(p) == Constructed([range |-> Null], p)
PrngSetters ==
  [guarded |-> {}, open |-> {"range"}, nulls |-> NoEffect,
   clears |-> NoEffect, openClears |-> {}]
PrngChecked(o) == o.range = Null
PrngMake(o) == [range |-> Scalar(o.range)]
PrngFrom(b) == [range |-> b.range]
PrngCall == [case |-> "utilPrng", rpc |-> "util.prng"]

=============================================================================
