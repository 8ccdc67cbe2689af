------------------------- MODULE SystemTransactions -------------------------
(***************************************************************************)
(* The transactions of schedules and of the system (src/src/schedule,      *)
(* src/src/system). Each class has the same parts: XNew(p), the            *)
(* constructor with the properties p; XSetters, the fields its setters     *)
(* write; XChecked, the IDs that _validateChecksums() looks at; XMake(o),  *)
(* the body that _makeTransactionData() gives; XFrom(b), the properties    *)
(* that _fromProtobuf() hands to the constructor; XCall, the case of the   *)
(* body, which is also the key of the class in TRANSACTION_REGISTRY, and   *)
(* the call of _execute(). Wire explains the values.                       *)
(***************************************************************************)
EXTENDS Wire

\* ---- ScheduleCreateTransaction
\* The constructor ignores the properties expirationTime and waitForExpiry;
\* their setters are not guarded. The scheduled transaction is a model value:
\* its own class encodes and decodes it.
ScheduleCreateFields ==
  [adminKey |-> Null, payerAccountId |-> Null, scheduleMemo |-> Null,
   expirationTime |-> Null, waitForExpiry |-> Null,
   scheduledTransaction |-> Null]
ScheduleCreateNew(p) ==
  [Constructed(ScheduleCreateFields, p)
     EXCEPT !.expirationTime = Null, !.waitForExpiry = Null]
ScheduleCreateSetters ==
  [guarded |-> {"adminKey", "payerAccountId", "scheduleMemo",
                "scheduledTransaction"},
   open |-> {"expirationTime", "waitForExpiry"},
   nulls |-> NoEffect, clears |-> NoEffect, openClears |-> {}]
ScheduleCreateChecked == {"payerAccountId"}
ScheduleCreateMake(o) ==
  [adminKey |-> o.adminKey, payerAccountID |-> Id(o.payerAccountId),
   scheduledTransactionBody |-> o.scheduledTransaction,
   memo |-> Scalar(o.scheduleMemo), waitForExpiry |-> Scalar(o.waitForExpiry),
   expirationTime |-> o.expirationTime]
ScheduleCreateFrom(b) ==
  [adminKey |-> b.adminKey, payerAccountId |-> b.payerAccountID,
   scheduleMemo |-> b.memo, waitForExpiry |-> b.waitForExpiry,
   expirationTime |-> Seconds(b.expirationTime),
   scheduledTransaction |-> b.scheduledTransactionBody]
ScheduleCreateCall ==
  [case |-> "scheduleCreate", rpc |-> "schedule.createSchedule"]

\* ---- ScheduleDeleteTransaction
ScheduleDeleteNew(p) == Constructed([scheduleId |-> Null], p)
ScheduleDeleteSetters == Guarded({"scheduleId"})
ScheduleDeleteChecked == {"scheduleId"}
ScheduleDeleteMake(o) == [scheduleID |-> Id(o.scheduleId)]
ScheduleDeleteFrom(b) == [scheduleId |-> b.scheduleID]
ScheduleDeleteCall ==
  [case |-> "scheduleDelete", rpc |-> "schedule.deleteSchedule"]

\* ---- ScheduleSignTransaction
ScheduleSignNew(p) == Constructed([scheduleId |-> Null], p)
ScheduleSignSetters == Guarded({"scheduleId"})
ScheduleSignChecked == {"scheduleId"}
ScheduleSignMake(o) == [scheduleID |-> Id(o.scheduleId)]
ScheduleSignFrom(b) == [scheduleId |-> b.scheduleID]
ScheduleSignCall == [case |-> "scheduleSign", rpc |-> "schedule.signSchedule"]

\* ---- FreezeTransaction
\* The hours and minutes of setStartTime() and setEndTime() are not put into
\* the body, the decoder reads them as 0; the class has no _execute() and no
\* _validateChecksums().
FreezeNew(p) ==
  Constructed([startTime |-> Null, startTimestamp |-> Null, endTime |-> Null,
               fileId |-> Null, fileHash |-> Null, freezeType |-> Null], p)
FreezeSetters ==
  Guarded({"startTime", "startTimestamp", "endTime", "fileId", "fileHash",
           "freezeType"})
FreezeMake(o) ==
  [startTime |-> o.startTimestamp, updateFile |-> Id(o.fileId),
   fileHash |-> Scalar(o.fileHash), freezeType |-> Scalar(o.freezeType)]
FreezeFrom(b) ==
  [startTime |-> 0, endTime |-> 0, startTimestamp |-> Seconds(b.startTime),
   fileId |-> b.updateFile, fileHash |-> b.fileHash,
   freezeType |-> b.freezeType]
FreezeCall == [case |-> "freeze", rpc |-> "unimplemented"]

\* ---- SystemDeleteTransaction
\* The class has no _validateChecksums().
SystemDeleteNew(p) ==
  Constructed([fileId |-> Null, contractId |-> Null, expirationTime |-> Null],
              p)
SystemDeleteSetters == Guarded({"fileId", "contractId", "expirationTime"})
SystemDeleteMake(o) ==
  [fileID |-> Id(o.fileId), contractID |-> Id(o.contractId),
   expirationTime |-> o.expirationTime]
SystemDeleteFrom(b) ==
  [fileId |-> b.fileID, contractId |-> b.contractID,
   expirationTime |-> Seconds(b.expirationTime)]
SystemDeleteCall == [case |-> "systemDelete", rpc |-> "systemDelete"]

\* ---- SystemUndeleteTransaction
\* The class has no _validateChecksums().
SystemUndeleteNew(p) == Constructed([fileId |-> Null, contractId |-> Null], p)
SystemUndeleteSetters == Guarded({"fileId", "contractId"})
SystemUndeleteMake(o) ==
  [fileID |-> Id(o.fileId), contractID |-> Id(o.contractId)]
SystemUndeleteFrom(b) == [fileId |-> b.fileID, contractId |-> b.contractID]
SystemUndeleteCall == [case |-> "systemUndelete", rpc |-> "systemUndelete"]

=============================================================================
