-------------------------- MODULE TokenTransactions -------------------------
(***************************************************************************)
(* The transactions of tokens (src/src/token). Each class has the same     *)
(* parts: XNew(p), the constructor with the properties p; XSetters, the    *)
(* fields its setters write; XChecked, the IDs that _validateChecksums()   *)
(* looks at; XMake(o), the body that _makeTransactionData() gives;         *)
(* XFrom(b), the properties that _fromProtobuf() hands to the              *)
(* constructor; XCall, the case of the body, which is also the key of the  *)
(* class in TRANSACTION_REGISTRY, and the call of _execute(). Wire         *)
(* explains the values.                                                    *)
(***************************************************************************)
EXTENDS Wire

\* ---- TokenCreateTransaction
\* setExpirationTime() also drops the renewal period, and the constructor
\* calls it before setAutoRenewPeriod(); the four setters of the token type
\* are not guarded.
TokenCreateFields ==
  [tokenName |-> Null, tokenSymbol |-> Null, decimals |-> Null,
   initialSupply |-> Null, treasuryAccountId |-> Null, adminKey |-> Null,
   kycKey |-> Null, freezeKey |-> Null, pauseKey |-> Null, wipeKey |-> Null,
   supplyKey |-> Null, feeScheduleKey |-> Null, freezeDefault |-> Null,
   autoRenewAccountId |-> Null, expirationTime |-> Null,
   autoRenewPeriod |-> Default, tokenMemo |-> Null, customFees |-> 0,
   tokenType |-> Null, supplyType |-> Null, maxSupply |-> Null]
TokenCreateNew(p) ==
  LET o == Constructed(TokenCreateFields, p)
  IN  IF o.expirationTime # Null /\ o.autoRenewPeriod = Default
      THEN [o EXCEPT !.autoRenewPeriod = Null] ELSE o
TokenCreateSetters ==
  [guarded |-> {"tokenName", "tokenSymbol", "decimals", "initialSupply",
                "treasuryAccountId", "adminKey", "kycKey", "freezeKey",
                "pauseKey", "wipeKey", "supplyKey", "feeScheduleKey",
                "freezeDefault", "autoRenewPeriod", "expirationTime",
                "autoRenewAccountId", "tokenMemo"},
   open |-> {"customFees", "tokenType", "supplyType", "maxSupply"},
   nulls |-> [expirationTime |-> "autoRenewPeriod"],
   clears |-> NoEffect, openClears |-> {}]
TokenCreateChecked == {"treasuryAccountId", "autoRenewAccountId"}
TokenCreateMake(o) ==
  [name |-> Scalar(o.tokenName), symbol |-> Scalar(o.tokenSymbol),
   decimals |-> Scalar(o.decimals), initialSupply |-> Scalar(o.initialSupply),
   treasury |-> Id(o.treasuryAccountId), adminKey |-> o.adminKey,
   kycKey |-> o.kycKey, freezeKey |-> o.freezeKey, pauseKey |-> o.pauseKey,
   wipeKey |-> o.wipeKey, supplyKey |-> o.supplyKey,
   feeScheduleKey |-> o.feeScheduleKey,
   freezeDefault |-> Scalar(o.freezeDefault),
   autoRenewAccount |-> Id(o.autoRenewAccountId), expiry |-> o.expirationTime,
   autoRenewPeriod |-> o.autoRenewPeriod, memo |-> Scalar(o.tokenMemo),
   customFees |-> Scalar(o.customFees), tokenType |-> Scalar(o.tokenType),
   supplyType |-> Scalar(o.supplyType), maxSupply |-> Scalar(o.maxSupply)]
TokenCreateFrom(b) ==
  [tokenName |-> b.name, tokenSymbol |-> b.symbol, decimals |-> b.decimals,
   initialSupply |-> b.initialSupply, treasuryAccountId |-> b.treasury,
   adminKey |-> b.adminKey, kycKey |-> b.kycKey, freezeKey |-> b.freezeKey,
   pauseKey |-> b.pauseKey, wipeKey |-> b.wipeKey, supplyKey |-> b.supplyKey,
   feeScheduleKey |-> b.feeScheduleKey, freezeDefault |-> b.freezeDefault,
   autoRenewAccountId |-> b.autoRenewAccount,
   expirationTime |-> Seconds(b.expiry),
   autoRenewPeriod |-> b.autoRenewPeriod, tokenMemo |-> b.memo,
   customFees |-> b.customFees, tokenType |-> b.tokenType,
   supplyType |-> b.supplyType, maxSupply |-> b.maxSupply]
TokenCreateCall == [case |-> "tokenCreation", rpc |-> "token.createToken"]

\* ---- TokenUpdateTransaction
\* The decoder does not pass pauseKey on.
TokenUpdateNew(p) ==
  Constructed([tokenId |-> Null, tokenName |-> Null, tokenSymbol |-> Null,
               treasuryAccountId |-> Null, adminKey |-> Null, kycKey |-> Null,
               freezeKey |-> Null, wipeKey |-> Null, supplyKey |-> Null,
               autoRenewAccountId |-> Null, expirationTime |-> Null,
               autoRenewPeriod |-> Null, tokenMemo |-> Null,
               feeScheduleKey |-> Null, pauseKey |-> Null], p)
TokenUpdateSetters ==
  [guarded |-> {"tokenId", "tokenName", "tokenSymbol", "treasuryAccountId",
                "adminKey", "kycKey", "freezeKey", "wipeKey", "supplyKey",
                "expirationTime", "autoRenewAccountId", "autoRenewPeriod",
                "tokenMemo", "feeScheduleKey", "pauseKey"},
   open |-> {},
   nulls |-> NoEffect,
   clears |-> [tokenMemo |-> Null],
   openClears |-> {}]
TokenUpdateChecked == {"tokenId", "treasuryAccountId", "autoRenewAccountId"}
TokenUpdateMake(o) ==
  [token |-> Id(o.tokenId), name |-> Scalar(o.tokenName),
   symbol |-> Scalar(o.tokenSymbol), treasury |-> Id(o.treasuryAccountId),
   adminKey |-> o.adminKey, kycKey |-> o.kycKey, freezeKey |-> o.freezeKey,
   pauseKey |-> o.pauseKey, wipeKey |-> o.wipeKey, supplyKey |-> o.supplyKey,
   autoRenewAccount |-> Id(o.autoRenewAccountId), expiry |-> o.expirationTime,
   autoRenewPeriod |-> o.autoRenewPeriod, memo |-> o.tokenMemo,
   feeScheduleKey |-> o.feeScheduleKey]
TokenUpdateFrom(b) ==
  [tokenId |-> b.token, tokenName |-> b.name, tokenSymbol |-> b.symbol,
   treasuryAccountId |-> b.treasury, adminKey |-> b.adminKey,
   kycKey |-> b.kycKey, freezeKey |-> b.freezeKey, wipeKey |-> b.wipeKey,
   supplyKey |-> b.supplyKey, autoRenewAccountId |-> b.autoRenewAccount,
   expirationTime |-> Seconds(b.expiry),
   autoRenewPeriod |-> b.autoRenewPeriod, tokenMemo |-> b.memo,
   feeScheduleKey |-> b.feeScheduleKey]
TokenUpdateCall == [case |-> "tokenUpdate", rpc |-> "token.updateToken"]

\* ---- TokenDeleteTransaction
TokenDeleteNew(p) == Constructed([tokenId |-> Null], p)
TokenDeleteSetters == Guarded({"tokenId"})
TokenDeleteChecked == {"tokenId"}
TokenDeleteMake(o) == [token |-> Id(o.tokenId)]
TokenDeleteFrom(b) == [tokenId |-> b.token]
TokenDeleteCall == [case |-> "tokenDeletion", rpc |-> "token.deleteToken"]

\* ---- TokenFeeScheduleUpdateTransaction
\* The class has no _validateChecksums() of its own.
TokenFeeScheduleUpdateNew(p) ==
  Constructed([tokenId |-> Null, customFees |-> 0], p)
TokenFeeScheduleUpdateSetters == Guarded({"tokenId", "customFees"})
TokenFeeScheduleUpdateMake(o) ==
  [tokenId |-> Id(o.tokenId), customFees |-> Scalar(o.customFees)]
TokenFeeScheduleUpdateFrom(b) ==
  [tokenId |-> b.tokenId, customFees |-> b.customFees]
TokenFeeScheduleUpdateCall ==
  [case |-> "tokenFeeScheduleUpdate", rpc |-> "token.updateTokenFeeSchedule"]

\* ---- TokenMintTransaction
TokenMintNew(p) ==
  Constructed([tokenId |-> Null, amount |-> Null, metadata |-> 0], p)
TokenMintSetters == Guarded({"tokenId", "amount", "metadata"})
TokenMintChecked == {"tokenId"}
TokenMintMake(o) ==
  [amount |-> Scalar(o.amount), token |-> Id(o.tokenId),
   metadata |-> Scalar(o.metadata)]
TokenMintFrom(b) ==
  [tokenId |-> b.token, amount |-> b.amount, metadata |-> b.metadata]
TokenMintCall == [case |-> "tokenMint", rpc |-> "token.mintToken"]

\* ---- TokenBurnTransaction
TokenBurnNew(p) ==
  Constructed([tokenId |-> Null, amount |-> Null, serials |-> 0], p)
TokenBurnSetters == Guarded({"tokenId", "amount", "serials"})
TokenBurnChecked == {"tokenId"}
TokenBurnMake(o) ==
  [amount |-> Scalar(o.amount), serialNumbers |-> Scalar(o.serials),
   token |-> Id(o.tokenId)]
TokenBurnFrom(b) ==
  [tokenId |-> b.token, amount |-> b.amount, serials |-> b.serialNumbers]
TokenBurnCall == [case |-> "tokenBurn", rpc |-> "token.burnToken"]

\* ---- TokenWipeTransaction
\* The decoder does not pass the serial numbers on.
TokenWipeNew(p) ==
  Constructed([tokenId |-> Null, accountId |-> Null, serials |-> 0,
               amount |-> Null], p)
TokenWipeSetters == Guarded({"tokenId", "accountId", "amount", "serials"})
TokenWipeChecked == {"tokenId", "accountId"}
TokenWipeMake(o) ==
  [amount |-> Scalar(o.amount), token |-> Id(o.tokenId),
   account |-> Id(o.accountId), serialNumbers |-> Scalar(o.serials)]
TokenWipeFrom(b) ==
  [tokenId |-> b.token, accountId |-> b.account, amount |-> b.amount]
TokenWipeCall == [case |-> "tokenWipe", rpc |-> "token.wipeTokenAccount"]

\* ---- TokenAssociateTransaction
TokenAssociateNew(p) ==
  Constructed([tokenIds |-> Null, accountId |-> Null], p)
TokenAssociateSetters == Guarded({"tokenIds", "accountId"})
TokenAssociateChecked == {"accountId", "tokenIds"}
TokenAssociateMake(o) ==
  [tokens |-> Id(Scalar(o.tokenIds)), account |-> Id(o.accountId)]
TokenAssociateFrom(b) == [tokenIds |-> b.tokens, accountId |-> b.account]
TokenAssociateCall ==
  [case |-> "tokenAssociate", rpc |-> "token.associateTokens"]

\* ---- TokenDissociateTransaction
TokenDissociateNew(p) ==
  Constructed([tokenIds |-> Null, accountId |-> Null], p)
TokenDissociateSetters == Guarded({"tokenIds", "accountId"})
TokenDissociateChecked == {"accountId", "tokenIds"}
TokenDissociateMake(o) ==
  [tokens |-> Id(Scalar(o.tokenIds)), account |-> Id(o.accountId)]
TokenDissociateFrom(b) == [tokenIds |-> b.tokens, accountId |-> b.account]
TokenDissociateCall ==
  [case |-> "tokenDissociate", rpc |-> "token.dissociateTokens"]

\* ---- TokenFreezeTransaction
TokenFreezeNew(p) == Constructed([tokenId |-> Null, accountId |-> Null], p)
TokenFreezeSetters == Guarded({"tokenId", "accountId"})
TokenFreezeChecked == {"tokenId", "accountId"}
TokenFreezeMake(o) == [token |-> Id(o.tokenId), account |-> Id(o.accountId)]
TokenFreezeFrom(b) == [tokenId |-> b.token, accountId |-> b.account]
TokenFreezeCall ==
  [case |-> "tokenFreeze", rpc |-> "token.freezeTokenAccount"]

\* ---- TokenUnfreezeTransaction
TokenUnfreezeNew(p) == Constructed([tokenId |-> Null, accountId |-> Null], p)
TokenUnfreezeSetters == Guarded({"tokenId", "accountId"})
TokenUnfreezeChecked == {"tokenId", "accountId"}
TokenUnfreezeMake(o) == [token |-> Id(o.tokenId), account |-> Id(o.accountId)]
TokenUnfreezeFrom(b) == [tokenId |-> b.token, accountId |-> b.account]
TokenUnfreezeCall ==
  [case |-> "tokenUnfreeze", rpc |-> "token.unfreezeTokenAccount"]

\* ---- TokenGrantKycTransaction
TokenGrantKycNew(p) == Constructed([tokenId |-> Null, accountId |-> Null], p)
TokenGrantKycSetters == Guarded({"tokenId", "accountId"})
TokenGrantKycChecked == {"tokenId", "accountId"}
TokenGrantKycMake(o) == [token |-> Id(o.tokenId), account |-> Id(o.accountId)]
TokenGrantKycFrom(b) == [tokenId |-> b.token, accountId |-> b.account]
TokenGrantKycCall ==
  [case |-> "tokenGrantKyc", rpc |-> "token.grantKycToTokenAccount"]

\* ---- TokenRevokeKycTransaction
TokenRevokeKycNew(p) == Constructed([tokenId |-> Null, accountId |-> Null], p)
TokenRevokeKycSetters == Guarded({"tokenId", "accountId"})
TokenRevokeKycChecked == {"tokenId", "accountId"}
TokenRevokeKycMake(o) ==
  [token |-> Id(o.tokenId), account |-> Id(o.accountId)]
TokenRevokeKycFrom(b) == [tokenId |-> b.token, accountId |-> b.account]
TokenRevokeKycCall ==
  [case |-> "tokenRevokeKyc", rpc |-> "token.revokeKycFromTokenAccount"]

\* ---- TokenPauseTransaction
TokenPauseNew(p) == Constructed([tokenId |-> Null], p)
TokenPauseSetters == Guarded({"tokenId"})
TokenPauseChecked == {"tokenId"}
TokenPauseMake(o) == [token |-> Id(o.tokenId)]
TokenPauseFrom(b) == [tokenId |-> b.token]
TokenPauseCall == [case |-> "tokenPause", rpc |-> "token.pauseToken"]

\* ---- TokenUnpauseTransaction
TokenUnpauseNew(p) == Constructed([tokenId |-> Null], p)
TokenUnpauseSetters == Guarded({"tokenId"})
TokenUnpauseChecked == {"tokenId"}
TokenUnpauseMake(o) == [token |-> Id(o.tokenId)]
TokenUnpauseFrom(b) == [tokenId |-> b.token]
TokenUnpauseCall == [case |-> "tokenUnpause", rpc |-> "token.unpauseToken"]

=============================================================================
