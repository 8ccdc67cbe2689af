------------------------ MODULE ChunkedTransactions ------------------------
(***************************************************************************)
(* FileAppendTransaction and TopicMessageSubmitTransaction: contents that  *)
(* are longer than a chunk are cut at the freeze, each piece with an ID of *)
(* its own, one nanosecond after the last, and executeAll() sends them one *)
(* after the other; a file waits for the receipt of each. The signatures   *)
(* and the renewal of an ID are module Transaction's. The application sets *)
(* the nodes, freezes once, and its contents are not empty (empty ones     *)
(* leave no ID and every execute() rejects).                               *)
(***************************************************************************)
EXTENDS Wire, List

CONSTANTS Lengths,      \* lengths of the contents
          ChunkSizes,   \* values of _chunkSize; the least is the default
          MaxChunks,    \* _maxChunks
          FirstNanos,   \* nanoseconds of generated IDs
          NanosPerSecond,  \* 10^9, scaled
          NodeCount,    \* nodes the transaction is frozen for
          Timeouts,     \* arguments of executeAll()
          MaxRuns       \* bound: calls of executeAll()

ASSUME ChunkConstants ==
  /\ Lengths \subseteq Nat \ {0} /\ ChunkSizes \subseteq Nat \ {0}
  /\ {MaxChunks, NodeCount, NanosPerSecond} \subseteq Nat \ {0}
  /\ Timeouts \subseteq Nat \ {0} /\ FirstNanos \subseteq 0..(NanosPerSecond - 1)

VARIABLES chunkKind,  \* "file" or "topic"
          length,     \* the length of the contents
          whole,      \* the length that the application gave
          size,       \* _chunkSize
          ids,        \* _transactionIds, by their nanoseconds
          chunks,     \* _signedTransactions
          onDemand,   \* _signOnDemand
          nodeAt,     \* index of _nodeAccountIds
          at,         \* executeAll(): "idle", "call" or "receipt"
          left,       \* iterations that it has left
          timeout,    \* _requestTimeout
          spent,      \* time that the chunk has taken
          chunkRuns,  \* calls of executeAll()
          ended,      \* how the last one ended
          ledger,     \* what the network accepted
          firstTimeout, \* the timeout of the first executeAll()
          tooLong,    \* freezeWith() threw
          resized     \* setChunkSize() was called after the freeze

chunkVars == <<chunkKind, length, whole, size, ids, chunks, onDemand, nodeAt,
               at, left, timeout, spent, chunkRuns, ended, ledger,
               firstTimeout, tooLong, resized>>

\* ---- The pieces

Least(a, b) == IF a < b THEN a ELSE b
\* Mutant: the number of chunks is rounded down.
Total_Down == IF length < size THEN 1 ELSE length \div size

Total == (length + size - 1) \div size

\* Mutant: pieces overlap by one.
PieceAt_Overlap(number) == [from |-> Least((number - 1) * size, length),
                            to |-> Least(number * size + 1, length)]

\* _makeTransactionData() of a file: the piece at the index of the IDs. That of
\* a topic: the piece of _chunkInfo while freezing, the whole message otherwise.
PieceAt(number) == [from |-> Least((number - 1) * size, length),
                    to |-> Least(number * size, length)]
MakeData(number, freezing) ==
  IF chunkKind = "file" \/ freezing THEN PieceAt(number)
  ELSE [from |-> 0, to |-> length]

Signed(id, node, piece) ==
  [id |-> id, node |-> node, from |-> piece.from, to |-> piece.to]

IsFrozenChunked == onDemand \/ ~IsEmpty(chunks)

\* The IDs of the chunks: one nanosecond later each, without a carry.
Series(first) == [k \in 1..Total |-> first + k - 1]

ChunkInit ==
  /\ chunkKind \in {"file", "topic"}
  /\ length \in Lengths /\ whole = length
  /\ size \in ChunkSizes
  /\ ids = NewList /\ chunks = NewList /\ onDemand = FALSE /\ nodeAt = 1
  /\ at = "idle" /\ left = 0 /\ timeout = Null /\ spent = 0
  /\ chunkRuns = 0 /\ ended = "none" /\ ledger = <<>> /\ firstTimeout = Null
  /\ tooLong = FALSE /\ resized = FALSE

\* ---- freezeWith()

\* Transaction.freezeWith() gives it an ID and, unless it signs on demand, one
\* signed transaction for every node; the length is checked after that.
FreezeWithTooLong(demand, nanos) ==
  /\ Total > MaxChunks
  /\ ids' = SetList(NewList, <<nanos>>)
  /\ chunks' = IF demand THEN chunks
               ELSE SetList(chunks, [n \in 1..NodeCount |->
                                       Signed(nanos, n, MakeData(1, FALSE))])

\* The lists are cleared and filled again, a chunk at a time: the transactions
\* of a chunk, one for every node, follow those of the chunk before.
Flat(rows) ==
  [j \in 1..(Len(rows) * NodeCount) |->
     rows[((j - 1) \div NodeCount) + 1][((j - 1) % NodeCount) + 1]]
FreezeWithChunks(nanos) ==
  /\ Total <= MaxChunks
  /\ ids' = LockedIf(chunkKind = "file", SetList(NewList, Series(nanos)))
  /\ chunks' = SetList(chunks,
       Flat([k \in 1..Total |->
         [n \in 1..NodeCount |->
            Signed(Series(nanos)[k], n, MakeData(k, TRUE))]]))

\* freezeWith() of the application.
FreezeChunked(demand, nanos) ==
  /\ at = "idle" /\ ~IsFrozenChunked
  /\ onDemand' = demand
  /\ \/ FreezeWithTooLong(demand, nanos) /\ tooLong' = TRUE
     \/ FreezeWithChunks(nanos) /\ UNCHANGED tooLong
  /\ UNCHANGED <<chunkKind, length, whole, size, nodeAt, at, left, timeout,
                 spent, chunkRuns, ended, ledger, firstTimeout, resized>>

\* setChunkSize() is not guarded.
SetChunkSize(n) ==
  /\ at = "idle" /\ n # size
  /\ size' = n
  /\ resized' = (resized \/ IsFrozenChunked)
  /\ UNCHANGED <<chunkKind, length, whole, ids, chunks, onDemand, nodeAt, at,
                 left, timeout, spent, chunkRuns, ended, ledger, firstTimeout,
                 tooLong>>

\* fromBytes(toBytes()): the lists are locked, and the size is the default; a
\* file has the contents of all chunks, a topic those of the first.
RereadChunked ==
  /\ at = "idle" /\ ~onDemand /\ ~IsEmpty(chunks) /\ ~chunks.locked
  /\ chunks' = SetLocked(chunks)
  /\ ids' = [SetLocked(ids) EXCEPT !.index = 1]
  /\ length' = IF chunkKind = "file" THEN chunks.list[Len(chunks.list)].to
               ELSE chunks.list[1].to
  /\ size' = CHOOSE s \in ChunkSizes : \A t \in ChunkSizes : s <= t
  /\ nodeAt' = 1 /\ timeout' = Null /\ firstTimeout' = Null /\ ended' = "none"
  /\ UNCHANGED <<chunkKind, whole, onDemand, at, left, spent, chunkRuns,
                 ledger, tooLong, resized>>

\* ---- executeAll()

\* The transaction of the current ID and node, built now or at the freeze.
ChunkRequest ==
  IF onDemand
  THEN Signed(Current(ids), nodeAt, MakeData(ids.index, FALSE))
  ELSE chunks.list[(ids.index - 1) * NodeCount + nodeAt]

Begin(t) ==
  /\ left' = Len(ids'.list)
  /\ timeout' = IF timeout = Null THEN t ELSE timeout
  /\ firstTimeout' = IF firstTimeout = Null THEN t ELSE firstTimeout
  /\ at' = "call" /\ spent' = 0 /\ ended' = "none"

\* Signing with the operator locks the IDs, unless that is left to the sending.
ExecuteAll(t) ==
  /\ at = "idle" /\ chunkRuns < MaxRuns /\ IsFrozenChunked
  /\ ids' = LockedIf(~onDemand, ids)
  /\ Begin(t)
  /\ chunkRuns' = chunkRuns + 1
  /\ UNCHANGED <<chunkKind, length, whole, size, chunks, onDemand, nodeAt,
                 ledger, tooLong, resized>>

\* Not frozen yet: executeAll() freezes first, and rejects if that throws.
FreezeAndExecuteAll(t, demand, nanos) ==
  /\ at = "idle" /\ chunkRuns < MaxRuns /\ ~IsFrozenChunked
  /\ onDemand' = demand
  /\ \/ /\ FreezeWithChunks(nanos)
        /\ Begin(t)
        /\ UNCHANGED tooLong
     \/ /\ FreezeWithTooLong(demand, nanos)
        /\ tooLong' = TRUE /\ ended' = "throws"
        /\ UNCHANGED <<left, timeout, firstTimeout, at, spent>>
  /\ chunkRuns' = chunkRuns + 1
  /\ UNCHANGED <<chunkKind, length, whole, size, nodeAt, ledger, resized>>

\* Signing on demand takes the next node of the list, and the loop once more.
NextNode == ((nodeAt + (IF onDemand THEN 1 ELSE 0)) % NodeCount) + 1
OnLedger(id) == \E i \in DOMAIN ledger : ledger[i].id = id

\* An iteration ends well, or executeAll() rejects.
NextChunk ==
  IF left = 1 THEN at' = "idle" /\ left' = 0 /\ ended' = "resolved"
  ELSE at' = "call" /\ left' = left - 1 /\ UNCHANGED ended
Reject(cause) == at' = "idle" /\ left' = 0 /\ ended' = cause

\* The node accepts the chunk; what becomes of it is known later.
Accept(applied) ==
  /\ at = "call" /\ spent < timeout
  /\ ChunkRequest.id < NanosPerSecond /\ ~OnLedger(ChunkRequest.id)
  /\ ledger' = Append(ledger, [id |-> ChunkRequest.id,
                               from |-> ChunkRequest.from,
                               to |-> ChunkRequest.to, applied |-> applied])
  /\ ids' = Advanced(ids) /\ nodeAt' = NextNode /\ spent' = 0
  /\ IF chunkKind = "file" THEN at' = "receipt" /\ UNCHANGED <<left, ended>>
     ELSE NextChunk
  /\ UNCHANGED <<chunkKind, length, whole, size, chunks, onDemand, timeout,
                 chunkRuns, firstTimeout, tooLong, resized>>

\* The node is busy or unreachable, or its answer is lost; time passes.
Again(arrived, applied) ==
  /\ at = "call" /\ spent < timeout
  /\ arrived => /\ ChunkRequest.id < NanosPerSecond
                /\ ~OnLedger(ChunkRequest.id)
  /\ ledger' = IF arrived
               THEN Append(ledger, [id |-> ChunkRequest.id,
                                    from |-> ChunkRequest.from,
                                    to |-> ChunkRequest.to,
                                    applied |-> applied])
               ELSE ledger
  /\ nodeAt' = NextNode /\ spent' = spent + 1
  /\ UNCHANGED <<chunkKind, length, whole, size, ids, chunks, onDemand, at,
                 left, timeout, chunkRuns, ended, firstTimeout, tooLong, resized>>

\* The node refuses the chunk: an ID it has seen, or one that is no time.
Refuse ==
  /\ at = "call" /\ spent < timeout
  /\ \/ ChunkRequest.id >= NanosPerSecond /\ Reject("invalid start")
     \/ /\ ChunkRequest.id < NanosPerSecond /\ OnLedger(ChunkRequest.id)
        /\ Reject("duplicate")
     \/ Reject("precheck")
  /\ nodeAt' = NextNode /\ spent' = 0
  /\ UNCHANGED <<chunkKind, length, whole, size, ids, chunks, onDemand,
                 timeout, chunkRuns, ledger, firstTimeout, tooLong, resized>>

TimeoutExceeded ==
  /\ at = "call" /\ spent >= timeout
  /\ Reject("timeout")
  /\ UNCHANGED <<chunkKind, length, whole, size, ids, chunks, onDemand, nodeAt,
                 timeout, spent, chunkRuns, ledger, firstTimeout, tooLong, resized>>

\* getReceipt(): it tells whether the chunk was applied, or fails itself.
ChunkReceipt(answered) ==
  /\ at = "receipt"
  /\ IF answered /\ ledger[Len(ledger)].applied THEN NextChunk
     ELSE Reject("receipt")
  /\ UNCHANGED <<chunkKind, length, whole, size, ids, chunks, onDemand, nodeAt,
                 timeout, spent, chunkRuns, ledger, firstTimeout, tooLong, resized>>

ChunkNext ==
  \/ \E demand \in BOOLEAN, nanos \in FirstNanos :
       \/ FreezeChunked(demand, nanos)
       \/ \E t \in Timeouts : FreezeAndExecuteAll(t, demand, nanos)
  \/ \E n \in ChunkSizes : SetChunkSize(n)
  \/ RereadChunked
  \/ \E t \in Timeouts : ExecuteAll(t)
  \/ \E applied \in BOOLEAN :
       Accept(applied) \/ \E arrived \in BOOLEAN : Again(arrived, applied)
  \/ Refuse \/ TimeoutExceeded
  \/ \E answered \in BOOLEAN : ChunkReceipt(answered)

ChunkSpec == ChunkInit /\ [][ChunkNext]_chunkVars

\* ---- Properties

\* What the network accepts of a file is its contents from the start, in
\* order, each part once, whatever is lost, refused, not applied or sent again
\* in another run; unless the application changed the size of the chunks.
AppendedInOrder ==
  chunkKind = "file" /\ ~resized =>
    \A i \in DOMAIN ledger :
      ledger[i].from = IF i = 1 THEN 0 ELSE ledger[i - 1].to

\* An executeAll() that resolves has sent all of the contents. Not so after a
\* freezeWith() that threw because of the length: it left a transaction with
\* the first chunk (of a topic, the whole message) that can be sent. Not so
\* either for a topic that signs on demand: each chunk is the whole message.
CompleteWhenResolved ==
  ended = "resolved" /\ ~resized /\ ~tooLong
    /\ (chunkKind = "topic" /\ Total > 1 => ~onDemand) =>
    /\ \A i \in DOMAIN ledger :
         ledger[i].from = IF i = 1 THEN 0 ELSE ledger[i - 1].to
    /\ ledger[Len(ledger)].to = whole

\* A file that resolved has no hole: every chunk that was accepted, in this run
\* or an earlier one, was applied. A run that is called again after a chunk was
\* not applied goes on with the next one and comes round to the first, which is
\* refused: it cannot resolve.
AppliedWhenResolved ==
  ended = "resolved" /\ chunkKind = "file" =>
    \A i \in DOMAIN ledger : ledger[i].applied

\* What is sent for a chunk has the ID that the response will report, and the
\* node it goes to: position by position the three lists agree.
ChunkSentAsNumbered ==
  at = "call" => ChunkRequest.id = Current(ids) /\ ChunkRequest.node = nodeAt

\* A chunk is refused as a duplicate only if it arrived before, its answer lost
\* or in an earlier run; as no valid time only if the series runs over the end
\* of the second; and times out only after the timeout that the first
\* executeAll() was given: the time that remains, which executeAll() computes,
\* is not used, and every chunk has the whole of it.
RejectedForChunk ==
  /\ ended = "duplicate" => OnLedger(Current(ids))
  /\ ended = "invalid start" =>
       ids.list[1] + Len(ids.list) > NanosPerSecond
  /\ ended = "timeout" => spent >= firstTimeout

\* The chunks on the ledger are the contents in order, each under the ID and
\* from the node that its response names.
ChunksOrdered == AppendedInOrder /\ ChunkSentAsNumbered

\* What executeAll() settles to is true of the ledger: all of the contents,
\* applied if it is a file, when it resolves, and the reason when it does not.
ChunksSettled ==
  CompleteWhenResolved /\ AppliedWhenResolved /\ RejectedForChunk
=============================================================================
