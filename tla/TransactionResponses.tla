------------------------- MODULE TransactionResponses -------------------------
(***************************************************************************)
(* TransactionResponse: getReceipt(), getRecord() and getVerboseRecord()   *)
(* wait for the outcome of a transaction with a TransactionReceiptQuery    *)
(* and a TransactionRecordQuery, whose _shouldRetry() and                  *)
(* _mapStatusError() look at the status of the query and at the one of the *)
(* transaction in the answer. A record costs, so a query for the cost goes *)
(* first, answered without a record.                                       *)
(***************************************************************************)
EXTENDS Integers

CONSTANT MaxPolls   \* maxAttempts of the queries

ASSUME MaxPollsAssumption == MaxPolls \in Nat \ {0}

VARIABLES goal,     \* the method that was called
          consensus, \* the transaction on the ledger: "PENDING", or its status
          waiting,  \* the query under way: "receipt", "cost", "record", "none"
          polls,    \* attempts of that query
          settled   \* "pending", "resolved", or the error of the rejection

responseVars == <<goal, consensus, waiting, polls, settled>>

Goals == {"getReceipt", "getRecord", "getVerboseRecord"}
Outcomes == {"SUCCESS", "CONTRACT_REVERT_EXECUTED", "INVALID_SIGNATURE"}

\* ---- Statuses

Retry == "Retry"
Finished == "Finished"
Error == "Error"

\* Mutant: an unknown outcome is final.
ReceiptShouldRetry_Final(precheck, status) ==
  IF precheck \in {"BUSY", "UNKNOWN", "RECEIPT_NOT_FOUND"} THEN Retry
  ELSE IF precheck # "OK" THEN Error
  ELSE IF status = "SUCCESS" THEN Finished ELSE Error

\* TransactionReceiptQuery._shouldRetry() with _validateStatus.
ReceiptShouldRetry(precheck, status) ==
  IF precheck \in {"BUSY", "UNKNOWN", "RECEIPT_NOT_FOUND"} THEN Retry
  ELSE IF precheck # "OK" THEN Error
  ELSE IF status \in {"BUSY", "UNKNOWN", "RECEIPT_NOT_FOUND"} THEN Retry
  ELSE IF status = "SUCCESS" THEN Finished ELSE Error

\* TransactionReceiptQuery._mapStatusError().
ReceiptError(precheck) ==
  IF precheck # "OK" THEN "PrecheckStatusError" ELSE "ReceiptStatusError"

\* TransactionRecordQuery._shouldRetry() with _validateReceiptStatus.
RecordShouldRetry(precheck, costAnswer, status) ==
  IF precheck \in {"BUSY", "UNKNOWN", "RECEIPT_NOT_FOUND", "RECORD_NOT_FOUND"}
  THEN Retry
  ELSE IF precheck # "OK" THEN Error
  ELSE IF costAnswer THEN Finished
  ELSE IF status \in {"OK", "BUSY", "UNKNOWN", "RECEIPT_NOT_FOUND",
                      "RECORD_NOT_FOUND"} THEN Retry
  ELSE IF status = "SUCCESS" THEN Finished ELSE Error

\* TransactionRecordQuery._mapStatusError().
RecordError(precheck, status) ==
  IF precheck = "CONTRACT_REVERT_EXECUTED" THEN "RecordStatusError"
  ELSE IF precheck # "OK" THEN "PrecheckStatusError"
  ELSE IF status = "CONTRACT_REVERT_EXECUTED" THEN "RecordStatusError"
  ELSE "ReceiptStatusError"

\* ---- The node

\* The answers of a node: it may be busy, or not know the transaction yet, or
\* refuse the query; otherwise it gives the status that it knows, which may
\* lag behind the ledger.
Reverted == "CONTRACT_REVERT_EXECUTED"
Prechecks == {"OK", "BUSY", "UNKNOWN", "RECEIPT_NOT_FOUND",
              "RECORD_NOT_FOUND", "INSUFFICIENT_TX_FEE"}
             \cup {s \in {consensus} : s = Reverted}
KnownStatuses == {"UNKNOWN", consensus} \ {"PENDING"}

\* Consensus is reached.
Decide ==
  /\ consensus = "PENDING"
  /\ consensus' \in Outcomes
  /\ UNCHANGED <<goal, waiting, polls, settled>>

\* ---- The methods

ResponseInit ==
  /\ goal \in Goals
  /\ consensus = "PENDING" /\ waiting = "receipt" /\ polls = 0
  /\ settled = "pending"

Start(q) == waiting' = q /\ polls' = 0 /\ UNCHANGED settled
Settle(s) == settled' = s /\ waiting' = "none" /\ polls' = 0

\* The query for the receipt ends: with a receipt, whose status getReceipt()
\* compares once more, or with an error, which getVerboseRecord() catches.
ReceiptEnds(status, err) ==
  IF goal = "getVerboseRecord" THEN Start("cost")
  ELSE IF err # "none" THEN Settle(err)
  ELSE IF status # "SUCCESS" THEN Settle("ReceiptStatusError")
  ELSE IF goal = "getRecord" THEN Start("cost")
  ELSE Settle("resolved")

PollReceipt(precheck, status) ==
  /\ waiting = "receipt" /\ polls < MaxPolls
  /\ LET state == ReceiptShouldRetry(precheck, status) IN
     \/ /\ state = Retry
        /\ polls' = polls + 1
        /\ UNCHANGED <<waiting, settled>>
     \/ /\ state = Finished
        /\ ReceiptEnds(status, "none")
     \/ /\ state = Error
        /\ ReceiptEnds(status, ReceiptError(precheck))
  /\ UNCHANGED <<goal, consensus>>

\* The attempts are used up.
ReceiptExhausted ==
  /\ waiting = "receipt" /\ polls = MaxPolls
  /\ ReceiptEnds("UNKNOWN", "max attempts")
  /\ UNCHANGED <<goal, consensus>>

\* The cost of the record, and then the record.
PollRecord(precheck, status) ==
  /\ waiting \in {"cost", "record"} /\ polls < MaxPolls
  /\ LET state == RecordShouldRetry(precheck, waiting = "cost", status) IN
     \/ /\ state = Retry
        /\ polls' = polls + 1
        /\ UNCHANGED <<waiting, settled>>
     \/ /\ state = Finished
        /\ IF waiting = "cost" THEN Start("record") ELSE Settle("resolved")
     \/ /\ state = Error
        /\ Settle(RecordError(precheck, status))
  /\ UNCHANGED <<goal, consensus>>

RecordExhausted ==
  /\ waiting \in {"cost", "record"} /\ polls = MaxPolls
  /\ Settle("max attempts")
  /\ UNCHANGED <<goal, consensus>>

ResponseNext ==
  \/ Decide
  \/ \E precheck \in Prechecks, status \in KnownStatuses :
       PollReceipt(precheck, status) \/ PollRecord(precheck, status)
  \/ ReceiptExhausted \/ RecordExhausted

ResponseSpec == ResponseInit /\ [][ResponseNext]_responseVars

\* ---- Properties

\* A promise that resolves means a transaction that succeeded, whichever of the
\* three methods was called and whatever busy, late or partial answers came
\* before; one that rejects with the status of the transaction means that the
\* ledger really gave it that status.
OutcomeReported ==
  /\ settled = "resolved" => consensus = "SUCCESS"
  /\ settled = "ReceiptStatusError" => consensus \notin {"PENDING", "SUCCESS"}
  /\ settled = "RecordStatusError" => consensus = "CONTRACT_REVERT_EXECUTED"

\* getVerboseRecord() does not reject with the error of the receipt when a
\* contract reverted: it goes on to the record, whose error carries the result
\* of the contract.
VerboseShowsRevert ==
  goal = "getVerboseRecord" /\ consensus = "CONTRACT_REVERT_EXECUTED"
    => settled # "ReceiptStatusError"

\* What a promise of a TransactionResponse settles to is what became of the
\* transaction, and getVerboseRecord() goes past the error of the receipt.
OutcomeTruthful == OutcomeReported /\ VerboseShowsRevert

\* What TransactionResponse.js:107 says of getVerboseRecord(): when the status
\* of the receipt is not OK, the record is returned, so that the promise does
\* not reject with the status of the transaction.  It does: the query for the
\* record validates the status too, and its rejection is not caught.
VerboseRecordReturned ==
  goal = "getVerboseRecord"
    => settled \notin {"ReceiptStatusError", "RecordStatusError"}
=============================================================================
