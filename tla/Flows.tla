------------------------------- MODULE Flows -------------------------------
(***************************************************************************)
(* ContractCreateFlow.js and EthereumFlow.js: several transactions in a    *)
(* row, each awaited.  A step succeeds, fails without effect, or fails     *)
(* after the network applied it (the answer or the receipt is lost); the   *)
(* flow is left where it failed.  The application may execute the same     *)
(* flow several times, one after the other or overlapping.  Lengths are in *)
(* units of 1024 bytes, or characters, rounded up.                         *)
(***************************************************************************)
EXTENDS Wire, Sequences

CONSTANTS CodeLengths,  \* lengths of the bytecode or the call data
          OtherLengths, \* length of the other fields of Ethereum data
          FlowChunks,   \* values of _maxChunks
          Executions    \* bound: the calls of execute()

ASSUME FlowConstants ==
  CodeLengths \subseteq Nat /\ OtherLengths \subseteq Nat

FirstPart == 2          \* 2048 bytes
CallPart == 4           \* 4096 characters, and 4096 bytes
InlineLimit == 5        \* 5120 bytes
AppendSize == 4         \* FileAppendTransaction's chunk, 4096 bytes
DefaultChunks == 2      \* its maximum of 20, scaled

VARIABLES flow,       \* the settings, which no execution changes
          callData,   \* the length of _ethereumData.callData
          frozen,     \* _contractCreate is frozen
          bytecodeFile, \* its _bytecodeFileId, 0 until it is set
          step,       \* where each execution is
          fileId,     \* its file, 0 if it knows none
          files,      \* on the network: length and whether deleted
          contracts,  \* on the network: the length of their code
          calls       \* Ethereum transactions: what they carry

flowVars == <<flow, callData, frozen, bytecodeFile, step, fileId, files,
              contracts, calls>>

Flow == [kind : {"contract"}, length : CodeLengths, other : {0},
         key : BOOLEAN, signer : BOOLEAN, max : FlowChunks \cup {Null}]
        \cup
        [kind : {"ethereum"}, length : CodeLengths, other : OtherLengths,
         key : {TRUE}, signer : {FALSE}, max : FlowChunks \cup {Null}]

FlowInit ==
  /\ flow \in Flow
  /\ callData = flow.length /\ frozen = FALSE /\ bytecodeFile = 0
  /\ step = [e \in Executions |-> "new"] /\ fileId = [e \in Executions |-> 0]
  /\ files = <<>> /\ contracts = <<>> /\ calls = <<>>

\* Outcomes of a transaction and of its receipt
Outcome == {"done", "lost", "failed"}
Goto(e, outcome, next) ==
  step' = [step EXCEPT ![e] = IF outcome = "done" THEN next ELSE "rejected"]

\* ---- The file, of both flows

\* The contents of the whole file, the part it is created with, and whether
\* the rest is appended: an Ethereum flow writes hexadecimal text, and compares
\* the number of bytes with the limit of characters.
Contents == IF flow.kind = "contract" THEN flow.length ELSE 2 * flow.length
Part == IF flow.kind = "contract" THEN FirstPart ELSE CallPart
Longer == flow.length > Part
Created == IF Contents < Part THEN Contents ELSE Part

\* ContractCreateFlow.execute() leaves the maximum of the chunks as it is,
\* executeWithSigner() and EthereumFlow set it if there is one.
ChunkLimit ==
  IF flow.max = Null \/ (flow.kind = "contract" /\ ~flow.signer)
  THEN DefaultChunks ELSE flow.max
AppendChunks == (Contents - Part + AppendSize - 1) \div AppendSize

AfterFile == IF flow.kind = "contract" THEN "contract" ELSE "call"

\* Mutant: the rest is not appended.
CreateFile_NoAppend(e, outcome) ==
  /\ step[e] = "new"
  /\ flow.kind = "ethereum" => flow.other + callData > InlineLimit
  /\ files' = IF outcome = "failed" THEN files
              ELSE Append(files, [length |-> Created, deleted |-> FALSE])
  /\ fileId' = IF outcome = "done" THEN [fileId EXCEPT ![e] = Len(files')]
               ELSE fileId
  /\ Goto(e, outcome, AfterFile)
  /\ UNCHANGED <<flow, callData, frozen, bytecodeFile, contracts, calls>>

\* execute(): a file with the first part, for call data that is too long to be
\* sent with the transaction and for every bytecode.
CreateFile(e, outcome) ==
  /\ step[e] = "new"
  /\ flow.kind = "ethereum" => flow.other + callData > InlineLimit
  /\ files' = IF outcome = "failed" THEN files
              ELSE Append(files, [length |-> Created, deleted |-> FALSE])
  /\ fileId' = IF outcome = "done" THEN [fileId EXCEPT ![e] = Len(files')]
               ELSE fileId
  /\ Goto(e, outcome, IF Longer THEN "append" ELSE AfterFile)
  /\ UNCHANGED <<flow, callData, frozen, bytecodeFile, contracts, calls>>

\* The rest, in chunks; freezeWith() throws if they are too many.
AppendFile(e, chunks) ==
  /\ step[e] = "append" /\ AppendChunks <= ChunkLimit
  /\ LET rest == Contents - Part
         sent == chunks * AppendSize IN
     /\ chunks \in 0..AppendChunks
     /\ files' = [files EXCEPT ![fileId[e]].length =
                    @ + (IF sent < rest THEN sent ELSE rest)]
  /\ \/ chunks = AppendChunks /\ Goto(e, "done", AfterFile)
     \/ Goto(e, "failed", AfterFile)
  /\ UNCHANGED <<flow, callData, frozen, bytecodeFile, fileId, contracts, calls>>

AppendTooLong(e) ==
  /\ step[e] = "append" /\ AppendChunks > ChunkLimit
  /\ Goto(e, "failed", AfterFile)
  /\ UNCHANGED <<flow, callData, frozen, bytecodeFile, fileId, files, contracts, calls>>

\* ---- ContractCreateFlow

\* setBytecodeFileId(), of the transaction all executions share.  A client
\* freezes it in the same turn; a signer is awaited first, and may have frozen
\* it before it answers (Wallet) or not.
SetBytecodeFile(e) ==
  /\ step[e] = "contract" /\ ~frozen
  /\ bytecodeFile' = fileId[e]
  /\ IF flow.signer THEN frozen' \in BOOLEAN /\ Goto(e, "done", "populate")
     ELSE frozen' = TRUE /\ Goto(e, "done", "send")
  /\ UNCHANGED <<flow, callData, fileId, files, contracts, calls>>

\* populateTransaction() of the signer is done: freeze().
Populated(e) ==
  /\ step[e] = "populate"
  /\ frozen' = TRUE
  /\ Goto(e, "done", "send")
  /\ UNCHANGED <<flow, callData, bytecodeFile, fileId, files, contracts, calls>>

\* It rejects, and the transaction stays as it is: another execution may pass
\* the check once more.
PopulateRejects(e) ==
  /\ step[e] = "populate"
  /\ Goto(e, "failed", "send")
  /\ UNCHANGED <<flow, callData, frozen, bytecodeFile, fileId, files, contracts, calls>>

\* Mutant: every execution has a transaction ID of its own.
SendContract_NewId(e, outcome) ==
  /\ step[e] = "send"
  /\ contracts' = IF outcome = "failed" THEN contracts
                  ELSE Append(contracts, files[bytecodeFile].length)
  /\ Goto(e, outcome, IF flow.key THEN "delete" ELSE "resolved")
  /\ UNCHANGED <<flow, callData, frozen, bytecodeFile, fileId, files, calls>>

\* Mutant: the file is left behind.
SendContract_KeepsFile(e, outcome) ==
  /\ step[e] = "send"
  /\ contracts' = IF outcome = "failed" \/ contracts # <<>> THEN contracts
                  ELSE <<files[bytecodeFile].length>>
  /\ Goto(e, outcome, "resolved")
  /\ UNCHANGED <<flow, callData, frozen, bytecodeFile, fileId, files, calls>>

\* The signatures, the transaction and its receipt.  The contract has what the
\* file holds that was set last, maybe by another execution.  All executions
\* send the same transaction ID: the network applies it once, and a second
\* sender is refused or gets the receipt of the first.
SendContract(e, outcome) ==
  /\ step[e] = "send"
  /\ contracts' = IF outcome = "failed" \/ contracts # <<>> THEN contracts
                  ELSE <<files[bytecodeFile].length>>
  /\ Goto(e, outcome, IF flow.key THEN "delete" ELSE "resolved")
  /\ UNCHANGED <<flow, callData, frozen, bytecodeFile, fileId, files, calls>>

\* setBytecodeFileId() throws on a transaction that is frozen.
CreateImmutable(e) ==
  /\ step[e] = "contract" /\ frozen
  /\ Goto(e, "failed", "resolved")
  /\ UNCHANGED <<flow, callData, frozen, bytecodeFile, fileId, files, contracts, calls>>

DeleteFile(e, outcome) ==
  /\ step[e] = "delete"
  /\ files' = IF outcome = "failed" THEN files
              ELSE [files EXCEPT ![fileId[e]].deleted = TRUE]
  /\ Goto(e, outcome, "resolved")
  /\ UNCHANGED <<flow, callData, frozen, bytecodeFile, fileId, contracts, calls>>

\* ---- EthereumFlow

\* What a call carries: of the call data, or of its text in a file.
SendCall(e, outcome, carried) ==
  /\ calls' = IF outcome = "failed" THEN calls ELSE Append(calls, carried)
  /\ Goto(e, outcome, "resolved")

CallInline(e, outcome) ==
  /\ flow.kind = "ethereum" /\ step[e] = "new"
  /\ flow.other + callData <= InlineLimit
  /\ SendCall(e, outcome, [inline |-> callData, text |-> 0])
  /\ UNCHANGED <<flow, callData, frozen, bytecodeFile, fileId, files, contracts>>

\* The call data of the flow's own object is emptied before the transaction.
CallWithFile(e, outcome) ==
  /\ flow.kind = "ethereum" /\ step[e] = "call"
  /\ callData' = 0
  /\ SendCall(e, outcome, [inline |-> 0, text |-> files[fileId[e]].length])
  /\ UNCHANGED <<flow, frozen, bytecodeFile, fileId, files, contracts>>

FlowNext ==
  \E e \in Executions :
    \/ \E outcome \in Outcome :
         \/ CreateFile(e, outcome) \/ SendContract(e, outcome)
         \/ DeleteFile(e, outcome) \/ CallInline(e, outcome)
         \/ CallWithFile(e, outcome)
    \/ \E chunks \in 0..AppendChunks : AppendFile(e, chunks)
    \/ AppendTooLong(e) \/ CreateImmutable(e)
    \/ SetBytecodeFile(e) \/ Populated(e) \/ PopulateRejects(e)

FlowSpec == FlowInit /\ [][FlowNext]_flowVars

\* ---- Properties

\* However often a flow is executed, and whatever is lost, it creates at most
\* one contract, and that has the whole bytecode: setBytecodeFileId() throws
\* once the transaction is frozen, executions that all got past it while their
\* signers were asked send one transaction, and the file one of them put into
\* it in place of another's is full as well.
OneWholeContract ==
  flow.kind = "contract" =>
    Len(contracts) <= 1 /\ \A i \in DOMAIN contracts : contracts[i] = flow.length

\* A file is deleted only when the contract exists, also when the contract was
\* made from the file of another execution, and an execution that resolved
\* leaves no file of its own, unless there is no key to delete it with.
FilesCleanedUp ==
  flow.kind = "contract" =>
    /\ \A i \in DOMAIN files : files[i].deleted => contracts # <<>>
    /\ \A e \in Executions :
         step[e] = "resolved" /\ flow.key => files[fileId[e]].deleted

\* An Ethereum transaction carries all of the call data or the text of all of
\* it, except that (1) call data of more than 2048 and at most 4096 bytes that
\* is written to a file is cut (createFile() compares bytes with characters),
\* and (2) a flow that is executed again after its call data went into a file
\* sends none.
CallDataCarried ==
  flow.kind = "ethereum" =>
    \A i \in DOMAIN calls :
      \/ calls[i].inline = flow.length
      \/ calls[i].text = Contents
      \/ calls[i].text = CallPart /\ Contents > CallPart /\ ~Longer
      \/ calls[i] = [inline |-> 0, text |-> 0] /\ callData = 0
=============================================================================
