---------------------------- MODULE OutcomeProofs ----------------------------
(***************************************************************************)
(* What a promise tells the application about the ledger.                  *)
(*                                                                         *)
(* A TransactionResponse, for every number of attempts: OutcomeReported    *)
(* and VerboseShowsRevert. The statuses that can settle a promise are      *)
(* worked out once, in the lemmas about _shouldRetry() and                 *)
(* _mapStatusError(); the invariant adds to the two properties that        *)
(* statuses are of their types and that a query runs for a method that     *)
(* starts it.                                                              *)
(*                                                                         *)
(* executeAll() of a chunked transaction, for every length, chunk size and *)
(* number of nodes: the ledger follows the list of IDs, each ID has a      *)
(* piece, the pieces are contiguous, and the iterations that are left are  *)
(* at least the chunks that are not on the ledger. What is multiplied and  *)
(* divided (places in the list of signed transactions, ends of the pieces) *)
(* is in lemmas of arithmetic of its own.                                  *)
(*                                                                         *)
(* The two flows, for every length of the bytecode or the call data, every *)
(* limit of the chunks and every number of executions that overlap or      *)
(* follow one another: an execution that goes on after the file has a file *)
(* of its own, which holds all it should (Filled), and so does the one that *)
(* is set in the transaction, whoever set it (CodeFile).                   *)
(***************************************************************************)
EXTENDS TransactionResponses, ChunkedTransactions, Flows, TLAPS

\* ---- The promises of a response

\* The inductive invariant.
Reported ==
  /\ goal \in Goals
  /\ consensus \in Outcomes \cup {"PENDING"}
  /\ OutcomeReported
  /\ VerboseShowsRevert

\* TransactionReceiptQuery finishes with a receipt of a transaction that
\* succeeded; it fails with the status of the transaction only if that is not
\* success.
LEMMA ReceiptDecides ==
  ASSUME NEW precheck \in Prechecks, NEW status \in KnownStatuses,
         consensus \in Outcomes \cup {"PENDING"}
  PROVE  /\ ReceiptShouldRetry(precheck, status) = Finished
              => status = "SUCCESS" /\ consensus = "SUCCESS"
         /\ ReceiptShouldRetry(precheck, status) = Error
              => \/ ReceiptError(precheck) = "PrecheckStatusError"
                 \/ /\ ReceiptError(precheck) = "ReceiptStatusError"
                    /\ consensus \notin {"PENDING", "SUCCESS"}
  BY DEF Prechecks, KnownStatuses, Outcomes, Reverted, ReceiptShouldRetry,
         ReceiptError, Retry, Finished, Error

\* TransactionRecordQuery finishes with the cost, or with the record of a
\* transaction that succeeded; it fails with the error of the record only if
\* the contract reverted, and with that of the receipt if it failed otherwise.
LEMMA RecordDecides ==
  ASSUME NEW precheck \in Prechecks, NEW status \in KnownStatuses,
         NEW cost \in BOOLEAN, consensus \in Outcomes \cup {"PENDING"}
  PROVE  /\ RecordShouldRetry(precheck, cost, status) = Finished
              => cost \/ consensus = "SUCCESS"
         /\ RecordShouldRetry(precheck, cost, status) = Error
              => \/ RecordError(precheck, status) = "PrecheckStatusError"
                 \/ /\ RecordError(precheck, status) = "RecordStatusError"
                    /\ consensus = "CONTRACT_REVERT_EXECUTED"
                 \/ /\ RecordError(precheck, status) = "ReceiptStatusError"
                    /\ consensus \notin {"PENDING", "SUCCESS",
                                       "CONTRACT_REVERT_EXECUTED"}
  BY DEF Prechecks, KnownStatuses, Outcomes, Reverted, RecordShouldRetry,
         RecordError, Retry, Finished, Error

\* Every step of a wait keeps the invariant.
LEMMA StepReports ==
  ASSUME Reported, [ResponseNext]_responseVars
  PROVE  Reported'
<1> USE DEF Reported
<1>1. CASE Decide
  <2>1. consensus = "PENDING" /\ consensus' \in Outcomes
        /\ UNCHANGED <<goal, settled>>
    BY <1>1 DEF Decide
  <2>2. settled \notin {"resolved", "ReceiptStatusError", "RecordStatusError"}
    BY <2>1 DEF OutcomeReported
  <2> QED BY <2>1, <2>2 DEF OutcomeReported, VerboseShowsRevert
<1>2. ASSUME NEW precheck \in Prechecks, NEW status \in KnownStatuses,
             PollReceipt(precheck, status)
      PROVE  Reported'
  <2>1. UNCHANGED <<goal, consensus>>
    BY <1>2 DEF PollReceipt
  <2>2. CASE ReceiptShouldRetry(precheck, status) = Retry
    <3>1. UNCHANGED settled
      BY <1>2, <2>2 DEF PollReceipt, Retry, Finished, Error
    <3> QED BY <2>1, <3>1 DEF OutcomeReported, VerboseShowsRevert
  <2>3. CASE ReceiptShouldRetry(precheck, status) = Finished
    <3>1. ReceiptEnds(status, "none")
      BY <1>2, <2>3 DEF PollReceipt, Retry, Finished, Error
    <3>2. status = "SUCCESS" /\ consensus = "SUCCESS"
      BY <2>3, ReceiptDecides
    <3>3. settled' \in {settled, "resolved"}
      BY <3>1, <3>2 DEF ReceiptEnds, Settle, Start, Goals
    <3> QED BY <2>1, <3>2, <3>3 DEF OutcomeReported, VerboseShowsRevert
  <2>4. CASE ReceiptShouldRetry(precheck, status) = Error
    <3>1. ReceiptEnds(status, ReceiptError(precheck))
      BY <1>2, <2>4 DEF PollReceipt, Retry, Finished, Error
    <3>2. \/ UNCHANGED settled
          \/ goal # "getVerboseRecord" /\ settled' = ReceiptError(precheck)
      BY <3>1 DEF ReceiptEnds, Settle, Start, Goals, ReceiptError
    <3> QED BY <2>1, <2>4, <3>2, ReceiptDecides
            DEF OutcomeReported, VerboseShowsRevert
  <2> QED BY <1>2, <2>2, <2>3, <2>4 DEF PollReceipt
<1>3. ASSUME NEW precheck \in Prechecks, NEW status \in KnownStatuses,
             PollRecord(precheck, status)
      PROVE  Reported'
  <2>1. UNCHANGED <<goal, consensus>>
    BY <1>3 DEF PollRecord
  <2> DEFINE cost == waiting = "cost"
             state == RecordShouldRetry(precheck, cost, status)
  <2>2. CASE state = Retry
    <3>1. UNCHANGED settled
      BY <1>3, <2>2 DEF PollRecord, Retry, Finished, Error
    <3> QED BY <2>1, <3>1 DEF OutcomeReported, VerboseShowsRevert
  <2>3. CASE state = Finished
    <3>1. \/ cost /\ UNCHANGED settled
          \/ ~cost /\ settled' = "resolved"
      BY <1>3, <2>3 DEF PollRecord, Retry, Finished, Error, Start, Settle
    <3>2. cost \/ consensus = "SUCCESS"
      BY <2>3, RecordDecides
    <3> QED BY <2>1, <3>1, <3>2 DEF OutcomeReported, VerboseShowsRevert
  <2>4. CASE state = Error
    <3>1. settled' = RecordError(precheck, status)
      BY <1>3, <2>4 DEF PollRecord, Retry, Finished, Error, Settle
    <3>2. \/ settled' = "PrecheckStatusError"
          \/ settled' = "RecordStatusError"
             /\ consensus = "CONTRACT_REVERT_EXECUTED"
          \/ settled' = "ReceiptStatusError"
             /\ consensus \notin {"PENDING", "SUCCESS",
                                "CONTRACT_REVERT_EXECUTED"}
      BY <2>4, <3>1, RecordDecides
    <3> QED BY <2>1, <3>2 DEF OutcomeReported, VerboseShowsRevert
  <2> QED BY <1>3, <2>2, <2>3, <2>4 DEF PollRecord
<1>4. CASE ReceiptExhausted
  <2>1. UNCHANGED <<goal, consensus>> /\ settled' \in {settled, "max attempts"}
    BY <1>4 DEF ReceiptExhausted, ReceiptEnds, Settle, Start, Goals
  <2> QED BY <2>1 DEF OutcomeReported, VerboseShowsRevert
<1>5. CASE RecordExhausted
  <2>1. UNCHANGED <<goal, consensus>> /\ settled' = "max attempts"
    BY <1>5 DEF RecordExhausted, Settle
  <2> QED BY <2>1 DEF OutcomeReported, VerboseShowsRevert
<1>6. CASE UNCHANGED responseVars
  BY <1>6 DEF responseVars, OutcomeReported, VerboseShowsRevert
<1> QED BY <1>1, <1>2, <1>3, <1>4, <1>5, <1>6 DEF ResponseNext

\* A promise of getReceipt(), getRecord() or getVerboseRecord() that resolves
\* means success on the ledger, and one that rejects with a status means that
\* status, for every number of attempts and every order of the answers; and
\* getVerboseRecord() of a contract that reverted never ends with the error of
\* the receipt, which has no result of the contract.
THEOREM OutcomeCorrect == ResponseSpec => []OutcomeTruthful
<1>1. ResponseInit => Reported
  BY DEF ResponseInit, Reported, OutcomeReported, VerboseShowsRevert
<1>2. Reported => OutcomeTruthful
  BY DEF Reported, OutcomeTruthful
<1> QED BY <1>1, <1>2, StepReports, PTL DEF ResponseSpec

\* ---- executeAll()

\* The place of the transaction of chunk k for node n in _signedTransactions.
Position(k, n) == (k - 1) * NodeCount + n

\* The number of chunks of the frozen transaction.
Chunks == Len(ids.list)

\* What chunk k of the frozen transaction carries: what was signed for it, or
\* what would be built for it now.
PieceOf(k) ==
  IF onDemand THEN MakeData(k, FALSE)
  ELSE [from |-> chunks.list[Position(k, 1)].from,
        to |-> chunks.list[Position(k, 1)].to]

\* The types of what is signed and of what is on the ledger.
SignedType == [id : Nat, node : Nat, from : Nat, to : Nat]
EntryType == [id : Nat, from : Nat, to : Nat, applied : BOOLEAN]

\* The types. After fromBytes() neither length nor size matters any more.
ChunkTyped ==
  /\ chunkKind \in {"file", "topic"} /\ whole \in Nat
  /\ onDemand \in BOOLEAN /\ tooLong \in BOOLEAN /\ resized \in BOOLEAN
  /\ onDemand \/ IsEmpty(chunks) => length \in Nat \ {0} /\ size \in Nat \ {0}
  /\ ids \in ListType(Nat) /\ chunks \in ListType(SignedType)
  /\ nodeAt \in 1..NodeCount /\ left \in Nat
  /\ ledger \in Seq(EntryType)

\* Nothing has happened to a transaction that is not frozen.
NotFrozen ==
  ~IsFrozenChunked =>
    /\ IsEmpty(ids) /\ ledger = <<>> /\ at = "idle" /\ ended = "none"
    /\ length = whole /\ ~resized /\ ~tooLong /\ ids.index = 1

\* The IDs of a frozen transaction are one nanosecond apart.
Numbered ==
  IsFrozenChunked =>
    /\ ids.index \in 1..Chunks
    /\ \A k \in 1..Chunks : ids.list[k] = ids.list[1] + k - 1

\* _signedTransactions is a grid: one row for each ID, with the piece of that
\* chunk, and in the row one for each node.
Grid ==
  IsFrozenChunked /\ ~onDemand =>
    \A k \in 1..Chunks, n \in 1..NodeCount :
      /\ chunks.list[Position(k, n)].id = ids.list[k]
      /\ chunks.list[Position(k, n)].node = n
      /\ chunks.list[Position(k, n)].from = PieceOf(k).from
      /\ chunks.list[Position(k, n)].to = PieceOf(k).to
      /\ chunks.list[Position(k, n)] \in SignedType

\* The pieces follow each other from the start of the contents to the end.
Cut ==
  IsFrozenChunked =>
    /\ PieceOf(1).from = 0
    /\ ~onDemand \/ chunkKind = "file" =>
         \A k \in 1..(Chunks - 1) : PieceOf(k + 1).from = PieceOf(k).to
    /\ ~tooLong /\ (onDemand => ~resized /\ (chunkKind = "file" \/ Chunks = 1)) =>
         PieceOf(Chunks).to = whole
    /\ onDemand => length = whole
    /\ onDemand /\ ~resized /\ ~tooLong => Chunks = Total

\* The entries of the ledger belong to the IDs in order, from the first; and
\* the next ID to be sent is at most the one after the last entry.
OnTheLedger ==
  /\ Len(ledger) <= Chunks /\ ids.index <= Len(ledger) + 1
  /\ \A i \in DOMAIN ledger : ledger[i].id = ids.list[i]
  /\ ~onDemand \/ ~resized =>
       \A i \in DOMAIN ledger : /\ ledger[i].from = PieceOf(i).from
                                /\ ledger[i].to = PieceOf(i).to

\* What executeAll() has left is enough for the chunks that are not on the
\* ledger: this is why they all are when it resolves.
Running ==
  /\ timeout = firstTimeout
  /\ at = "call" => left >= 1 /\ left >= Chunks - Len(ledger)
  /\ at = "receipt" => left >= 1 /\ left > Chunks - Len(ledger)
  /\ at # "idle" => ended = "none"
  /\ ended = "resolved" => Len(ledger) = Chunks
  /\ RejectedForChunk

\* Among the first n entries there is a chunk that was not applied.
Hole(n) == \E i \in 1..n : ~ledger[i].applied

\* A file with a hole has more iterations left than chunks, so that the loop
\* comes round to an ID that is on the ledger and cannot resolve.
Holes ==
  chunkKind = "file" =>
    /\ at = "call" /\ Hole(Len(ledger)) => left > Chunks - Len(ledger)
    /\ at = "receipt" /\ Hole(Len(ledger) - 1) => left > Chunks - Len(ledger) + 1
    /\ ended = "resolved" => ~Hole(Len(ledger))

\* The inductive invariant of the chunked transactions.
ChunkInv ==
  /\ ChunkTyped /\ NotFrozen /\ Numbered /\ Grid /\ Cut /\ OnTheLedger
  /\ Running /\ Holes

\* Multiplication by a natural number is monotonic.
LEMMA Multiples ==
  ASSUME NEW a \in Int, NEW b \in Int, NEW n \in Nat, a <= b
  PROVE  a * n <= b * n
  BY Z3

\* Division with a remainder: quotient and remainder give back the number,
LEMMA Division ==
  ASSUME NEW a \in Int, NEW n \in Nat \ {0}
  PROVE  /\ a \div n \in Int /\ a % n \in 0..(n - 1)
         /\ a = (a \div n) * n + (a % n)
  BY Z3

\* and no other pair does.
LEMMA DivisionUnique ==
  ASSUME NEW n \in Nat \ {0}, NEW q \in Int, NEW p \in Int,
         NEW r \in 0..(n - 1), NEW s \in 0..(n - 1), q * n + r = p * n + s
  PROVE  q = p /\ r = s
<1>1. ASSUME NEW x \in Int, NEW y \in Int, x + 1 <= y
      PROVE  x * n + n <= y * n
  <2>1. (x + 1) * n <= y * n
    BY <1>1, Multiples
  <2>2. (x + 1) * n = x * n + n
    BY Z3
  <2> QED BY <2>1, <2>2
<1>2. ~(q + 1 <= p)
  BY <1>1
<1>3. ~(p + 1 <= q)
  BY <1>1
<1>4. q = p
  BY <1>2, <1>3
<1> QED BY <1>4

\* (length + size - 1) / size, rounded down, is enough chunks for the
\* contents, and at least one if there are any.
LEMMA RoundedUp ==
  ASSUME NEW l \in Nat \ {0}, NEW s \in Nat \ {0}, NEW t, t = (l + s - 1) \div s
  PROVE  t \in Nat \ {0} /\ t * s >= l
<1>1. PICK a \in Int : a = l + s - 1
  OBVIOUS
<1>2. PICK q \in Int, r \in 0..(s - 1) : q = a \div s /\ a = q * s + r
  BY Division
<1>3. t = q
  BY <1>1, <1>2
<1>4. q * s >= l
  BY <1>1, <1>2
<1>5. q >= 1
  <2> SUFFICES ASSUME q <= 0 PROVE FALSE
    BY <1>2
  <2>1. q * s <= 0 * s
    BY Multiples
  <2> QED BY <1>4, <2>1
<1> QED BY <1>2, <1>3, <1>4, <1>5

\* p is the place of chunk k and node n among t chunks, and the place is read
\* back from p as Flat() reads it.
PlacedAt(t, k, n, p) ==
  /\ p \in 1..(t * NodeCount) /\ p = Position(k, n)
  /\ ((p - 1) \div NodeCount) + 1 = k
  /\ ((p - 1) % NodeCount) + 1 = n

\* Every chunk and node has such a place.
LEMMA Positions ==
  \A t \in Nat : \A k \in 1..t, n \in 1..NodeCount :
    \E p : PlacedAt(t, k, n, p)
<1> SUFFICES ASSUME NEW t \in Nat, NEW k \in 1..t, NEW n \in 1..NodeCount
             PROVE  \E p : PlacedAt(t, k, n, p)
  OBVIOUS
<1> NodeCount \in Nat \ {0}
  BY ChunkConstants
<1>1. PICK p \in Int : p = Position(k, n)
  BY DEF Position
<1>2. p - 1 = (k - 1) * NodeCount + (n - 1)
  BY <1>1 DEF Position
<1>3. PICK q \in Int, r \in 0..(NodeCount - 1) :
        /\ q = (p - 1) \div NodeCount /\ r = (p - 1) % NodeCount
        /\ p - 1 = q * NodeCount + r
  BY Division
<1>4. q = k - 1 /\ r = n - 1
  <2>1. n - 1 \in 0..(NodeCount - 1) /\ k - 1 \in Int
    OBVIOUS
  <2>2. q * NodeCount + r = (k - 1) * NodeCount + (n - 1)
    BY <1>2, <1>3
  <2> QED BY <2>1, <2>2, DivisionUnique
<1>5. p \in 1..(t * NodeCount)
  <2>1. 0 * NodeCount <= (k - 1) * NodeCount
    BY Multiples
  <2>2. k * NodeCount <= t * NodeCount
    BY Multiples
  <2>3. k * NodeCount = (k - 1) * NodeCount + NodeCount
    BY Z3
  <2>4. PICK a \in Int, b \in Int : a = (k - 1) * NodeCount /\ b = t * NodeCount
    OBVIOUS
  <2>5. p = a + n /\ 0 <= a /\ a + NodeCount <= b
    BY <1>2, <2>1, <2>2, <2>3, <2>4
  <2>6. p \in 1..b
    BY <2>5
  <2> QED BY <2>4, <2>6, Zenon
<1>6. ((p - 1) \div NodeCount) + 1 = k
  BY <1>3, <1>4
<1>7. ((p - 1) % NodeCount) + 1 = n
  BY <1>3, <1>4
<1> QED BY <1>1, <1>5, <1>6, <1>7, Zenon DEF PlacedAt

\* And every place is that of a chunk and a node.
LEMMA PositionOf ==
  ASSUME NEW t \in Nat, NEW j \in 1..(t * NodeCount)
  PROVE  /\ ((j - 1) \div NodeCount) + 1 \in 1..t
         /\ ((j - 1) % NodeCount) + 1 \in 1..NodeCount
<1> NodeCount \in Nat \ {0}
  BY ChunkConstants
<1>0. j \in Int /\ j - 1 \in Int
  OBVIOUS
<1>1. PICK q \in Int, r \in 0..(NodeCount - 1) :
        /\ q = (j - 1) \div NodeCount /\ r = (j - 1) % NodeCount
        /\ j - 1 = q * NodeCount + r
  BY <1>0, Division
<1>2. j \in Int /\ j >= 1 /\ j <= t * NodeCount
  OBVIOUS
<1>3. q >= 0
  <2> SUFFICES ASSUME q + 1 <= 0 PROVE FALSE
    OBVIOUS
  <2>1. (q + 1) * NodeCount <= 0 * NodeCount
    BY Multiples
  <2>2. (q + 1) * NodeCount = q * NodeCount + NodeCount
    BY Z3
  <2> QED BY <1>1, <1>2, <2>1, <2>2
<1>4. q < t
  <2> SUFFICES ASSUME t <= q PROVE FALSE
    OBVIOUS
  <2>1. t * NodeCount <= q * NodeCount
    BY Multiples
  <2> QED BY <1>1, <1>2, <2>1
<1> QED BY <1>1, <1>3, <1>4

\* What the operations of List do to its three fields, as far as the chunks
\* use them.
LEMMA NewListTyped ==
  ASSUME NEW S
  PROVE  NewList \in ListType(S)
  BY DEF NewList, ListType

LEMMA ListLockedIf ==
  ASSUME NEW S, NEW l \in ListType(S), NEW b \in BOOLEAN
  PROVE  /\ LockedIf(b, l) \in ListType(S)
         /\ LockedIf(b, l).list = l.list /\ LockedIf(b, l).index = l.index
  BY DEF ListType, LockedIf

LEMMA ListReread ==
  ASSUME NEW S, NEW l \in ListType(S)
  PROVE  /\ SetLocked(l) \in ListType(S) /\ SetLocked(l).list = l.list
         /\ [SetLocked(l) EXCEPT !.index = 1] \in ListType(S)
         /\ [SetLocked(l) EXCEPT !.index = 1].list = l.list
         /\ [SetLocked(l) EXCEPT !.index = 1].index = 1
<1>1. SetLocked(l) \in ListType(S) /\ SetLocked(l).list = l.list
  BY DEF ListType, SetLocked
<1> QED BY <1>1 DEF ListType

LEMMA ListSet ==
  ASSUME NEW S, NEW l \in ListType(S), NEW s \in Seq(S)
  PROVE  /\ SetList(l, s) \in ListType(S)
         /\ SetList(l, s).list = s /\ SetList(l, s).index = 1
<1> DEFINE m == [l EXCEPT !.list = s]
<1>1. m \in ListType(S) /\ m.list = s
  BY DEF ListType
<1>2. SetList(l, s) = [m EXCEPT !.index = 1]
  BY Zenon DEF SetList
<1> HIDE DEF m
<1> QED BY <1>1, <1>2 DEF ListType

\* A function on 1..n is a sequence of length n.
LEMMA FunctionSeq ==
  ASSUME NEW T, NEW n \in Nat, NEW f \in [1..n -> T]
  PROVE  f \in Seq(T) /\ Len(f) = n
  OBVIOUS

\* _makeTransactionData(): the pieces are contiguous from 0, and the last one
\* ends with the contents.
LEMMA Pieces ==
  ASSUME length \in Nat, size \in Nat \ {0}, NEW k \in Nat \ {0}
  PROVE  /\ PieceAt(k).from \in Nat /\ PieceAt(k).to \in Nat
         /\ PieceAt(1).from = 0 /\ PieceAt(k + 1).from = PieceAt(k).to
         /\ k * size >= length => PieceAt(k).to = length
<1>1. 0 * size <= (k - 1) * size /\ 0 * size <= k * size
  BY Multiples
<1>2. (k + 1) - 1 = k /\ 1 - 1 = 0
  OBVIOUS
<1>3. (k - 1) * size \in Nat /\ k * size \in Nat /\ 0 * size = 0
  BY <1>1
<1>4. PieceAt(k).from \in Nat /\ PieceAt(k).to \in Nat
  BY <1>3 DEF PieceAt, Least
<1>5. PieceAt(1).from = 0
  BY <1>3 DEF PieceAt, Least
<1>6. PieceAt(k + 1).from = PieceAt(k).to
  BY <1>2 DEF PieceAt
<1>7. k * size >= length => PieceAt(k).to = length
  BY <1>3 DEF PieceAt, Least
<1> QED BY <1>4, <1>5, <1>6, <1>7

\* A signed transaction has the ID, the node and the piece it was made for.
LEMMA SignedFields ==
  ASSUME NEW id, NEW node, NEW piece
  PROVE  /\ Signed(id, node, piece).id = id /\ Signed(id, node, piece).node = node
         /\ Signed(id, node, piece).from = piece.from
         /\ Signed(id, node, piece).to = piece.to
         /\ /\ id \in Nat /\ node \in Nat /\ piece.from \in Nat /\ piece.to \in Nat
            => Signed(id, node, piece) \in SignedType
  BY DEF Signed, SignedType

\* freezeWith() of contents that are short enough makes the IDs a series, the
\* transactions a grid and the pieces a partition of the contents.
LEMMA FrozenChunks ==
  ASSUME ChunkTyped, NotFrozen, ~IsFrozenChunked, NEW nanos \in FirstNanos,
         FreezeWithChunks(nanos), onDemand' \in BOOLEAN,
         UNCHANGED <<chunkKind, length, whole, size, resized, tooLong>>
  PROVE  /\ ids' \in ListType(Nat) /\ chunks' \in ListType(SignedType)
         /\ IsFrozenChunked' /\ ids'.index = 1 /\ Numbered' /\ Grid' /\ Cut'
<1> DEFINE rows == [k \in 1..Total |-> [n \in 1..NodeCount |->
                      Signed(Series(nanos)[k], n, MakeData(k, TRUE))]]
           f == Flat(rows)
<1> HIDE DEF f, rows
<1> NodeCount \in Nat \ {0} /\ nanos \in Nat
  BY ChunkConstants
<1>1. length \in Nat \ {0} /\ size \in Nat \ {0} /\ length = whole /\ ~resized
  BY DEF ChunkTyped, IsFrozenChunked, NotFrozen
<1>2. PICK t \in Nat \ {0} : t = Total /\ t * size >= length
  BY <1>1, RoundedUp DEF Total
<1>3. /\ Series(nanos) \in Seq(Nat) /\ Len(Series(nanos)) = t
      /\ \A k \in 1..t : Series(nanos)[k] = nanos + k - 1
  <2>1. Series(nanos) = [k \in 1..t |-> nanos + k - 1]
    BY <1>2 DEF Series
  <2>2. [k \in 1..t |-> nanos + k - 1] \in [1..t -> Nat]
    OBVIOUS
  <2> QED BY <2>1, <2>2, FunctionSeq
<1>4. ids' \in ListType(Nat) /\ ids'.list = Series(nanos) /\ ids'.index = 1
  <2>1. PICK l \in ListType(Nat) : l = SetList(NewList, Series(nanos))
                                   /\ l.list = Series(nanos) /\ l.index = 1
    <3>1. NewList \in ListType(Nat)
      BY NewListTyped, Zenon
    <3>2. PICK s \in Seq(Nat) : s = Series(nanos)
      BY <1>3, Zenon
    <3>3. /\ SetList(NewList, s) \in ListType(Nat)
          /\ SetList(NewList, s).list = s /\ SetList(NewList, s).index = 1
      BY <3>1, ListSet
    <3> QED BY <3>2, <3>3, Zenon
  <2>2. ids' = LockedIf(chunkKind = "file", l)
    BY <2>1 DEF FreezeWithChunks
  <2> QED BY <2>1, <2>2, ListLockedIf
<1>5. ASSUME NEW k \in 1..t, NEW n \in 1..NodeCount
      PROVE  Signed(Series(nanos)[k], n, MakeData(k, TRUE)) \in SignedType
  <2>1. MakeData(k, TRUE) = PieceAt(k)
    BY DEF MakeData
  <2>2. PieceAt(k).from \in Nat /\ PieceAt(k).to \in Nat
    BY <1>1, Pieces
  <2>3. Series(nanos)[k] \in Nat
    BY <1>3
  <2>4. n \in Nat
    OBVIOUS
  <2> QED BY <2>1, <2>2, <2>3, <2>4, SignedFields
<1>6. /\ rows \in [1..t -> [1..NodeCount -> SignedType]]
      /\ rows \in Seq([1..NodeCount -> SignedType])
      /\ Len(rows) = t
      /\ \A k \in 1..t, n \in 1..NodeCount :
            rows[k][n] = Signed(Series(nanos)[k], n, PieceAt(k))
  <2>1. rows \in [1..t -> [1..NodeCount -> SignedType]]
    BY <1>2, <1>5 DEF rows
  <2>2. \A k \in 1..t, n \in 1..NodeCount :
          rows[k][n] = Signed(Series(nanos)[k], n, PieceAt(k))
    BY <1>2 DEF rows, MakeData
  <2> QED BY <2>1, <2>2, FunctionSeq
<1>7. f = [j \in 1..(t * NodeCount) |->
             rows[((j - 1) \div NodeCount) + 1][((j - 1) % NodeCount) + 1]]
  BY <1>6, Zenon DEF f, Flat
<1>8. chunks' = SetList(chunks, f)
  BY DEF FreezeWithChunks, f, rows
<1>9. t * NodeCount \in Nat /\ t * NodeCount # 0
  <2>1. 1 * NodeCount <= t * NodeCount
    BY Multiples
  <2> QED BY <2>1
<1>10. f \in Seq(SignedType) /\ Len(f) # 0
  <2>1. ASSUME NEW j \in 1..(t * NodeCount)
        PROVE  rows[((j - 1) \div NodeCount) + 1][((j - 1) % NodeCount) + 1] \in SignedType
    BY <1>6, PositionOf
  <2>2. f \in [1..(t * NodeCount) -> SignedType]
    BY <1>7, <2>1
  <2> QED BY <1>9, <2>2, FunctionSeq
<1>11. chunks' \in ListType(SignedType) /\ chunks'.list = f
  BY <1>8, <1>10, ListSet DEF ChunkTyped
<1>12. IsFrozenChunked' /\ Chunks' = t /\ Total' = t
  BY <1>2, <1>3, <1>4, <1>10, <1>11 DEF IsFrozenChunked, IsEmpty, Chunks, Total
<1>13. Numbered'
  BY <1>3, <1>4, <1>12 DEF Numbered
<1>14. ASSUME NEW k \in 1..t, NEW n \in 1..NodeCount
       PROVE  /\ chunks'.list[Position(k, n)].id = ids'.list[k]
              /\ chunks'.list[Position(k, n)].node = n
              /\ chunks'.list[Position(k, n)].from = PieceAt(k).from
              /\ chunks'.list[Position(k, n)].to = PieceAt(k).to
              /\ chunks'.list[Position(k, n)] \in SignedType
  <2>1. f[Position(k, n)] = rows[k][n]
    <3>1. PICK p : PlacedAt(t, k, n, p)
      <4>1. t \in Nat
        OBVIOUS
      <4> QED BY <4>1, Positions, Zenon
    <3>2. f[p] = rows[((p - 1) \div NodeCount) + 1][((p - 1) % NodeCount) + 1]
      BY <1>7, <3>1, Zenon DEF PlacedAt
    <3> QED BY <3>1, <3>2, Zenon DEF PlacedAt
  <2>2. chunks'.list[Position(k, n)] = Signed(Series(nanos)[k], n, PieceAt(k))
    BY <1>6, <1>11, <2>1
  <2>3. chunks'.list[Position(k, n)] \in SignedType
    BY <1>5, <2>2 DEF MakeData
  <2> QED BY <1>4, <2>2, <2>3, SignedFields
<1>15. ASSUME NEW k \in 1..t, ~onDemand' \/ chunkKind = "file"
       PROVE  PieceOf(k)'.from = PieceAt(k).from /\ PieceOf(k)'.to = PieceAt(k).to
  <2>1. CASE ~onDemand'
    BY <2>1, <1>14 DEF PieceOf, Position
  <2>2. CASE onDemand' /\ chunkKind = "file"
    BY <2>2 DEF PieceOf, MakeData, PieceAt
  <2> QED BY <1>15, <2>1, <2>2
<1>16. Grid'
  BY <1>12, <1>14, <1>15 DEF Grid, Position
<1>17. ASSUME onDemand', chunkKind # "file", NEW k
       PROVE  PieceOf(k)'.from = 0 /\ PieceOf(k)'.to = length
  BY <1>17 DEF PieceOf, MakeData
<1>18. Cut'
  <2>1. 1 \in 1..t /\ t \in 1..t
    OBVIOUS
  <2>2. PieceOf(1)'.from = 0
    BY <1>1, <1>15, <1>17, <2>1, Pieces
  <2>3. ~onDemand' \/ chunkKind = "file" =>
          \A k \in 1..(t - 1) : PieceOf(k + 1)'.from = PieceOf(k)'.to
    BY <1>1, <1>15, Pieces
  <2>4. PieceOf(t)'.to = whole
    BY <1>1, <1>2, <1>15, <1>17, <2>1, Pieces
  <2> QED BY <1>1, <1>12, <2>2, <2>3, <2>4 DEF Cut
<1> QED BY <1>4, <1>11, <1>12, <1>13, <1>16, <1>18

\* freezeWith() of contents that are too long leaves one ID, and a grid of one
\* row with the first piece.
LEMMA FrozenTooLong ==
  ASSUME ChunkTyped, NotFrozen, ~IsFrozenChunked, NEW nanos \in FirstNanos,
         onDemand' \in BOOLEAN, FreezeWithTooLong(onDemand', nanos), tooLong',
         UNCHANGED <<chunkKind, length, whole, size, resized>>
  PROVE  /\ ids' \in ListType(Nat) /\ chunks' \in ListType(SignedType)
         /\ IsFrozenChunked' /\ ids'.index = 1 /\ Numbered' /\ Grid' /\ Cut'
<1> DEFINE d == MakeData(1, FALSE)
           f == [n \in 1..NodeCount |-> Signed(nanos, n, d)]
           s == <<nanos>>
<1> NodeCount \in Nat \ {0} /\ nanos \in Nat
  BY ChunkConstants
<1>1. length \in Nat \ {0} /\ size \in Nat \ {0} /\ length = whole /\ ~resized
  BY DEF ChunkTyped, IsFrozenChunked, NotFrozen
<1>2. s \in Seq(Nat) /\ Len(s) = 1 /\ s[1] = nanos
  OBVIOUS
<1>3. ids' = SetList(NewList, s)
  BY DEF FreezeWithTooLong
<1>4. d.from = 0 /\ d.to \in Nat
  BY <1>1, Pieces DEF MakeData
<1> HIDE DEF d
<1>5. f \in [1..NodeCount -> SignedType]
  <2>1. ASSUME NEW n \in 1..NodeCount
        PROVE  Signed(nanos, n, d) \in SignedType
    <3>1. n \in Nat
      OBVIOUS
    <3> QED BY <1>4, <3>1, SignedFields
  <2> QED BY <2>1
<1>6. \A n \in 1..NodeCount : f[n] = Signed(nanos, n, d)
  OBVIOUS
<1>7. chunks' = IF onDemand' THEN chunks ELSE SetList(chunks, f)
  BY DEF FreezeWithTooLong, d
<1> HIDE DEF f, s
<1>8. ids' \in ListType(Nat) /\ ids'.list = s /\ ids'.index = 1
  BY <1>2, <1>3, NewListTyped, ListSet
<1>9. f \in Seq(SignedType) /\ Len(f) # 0
  BY <1>5, FunctionSeq
<1>10. chunks' \in ListType(SignedType) /\ (~onDemand' => chunks'.list = f)
  BY <1>7, <1>9, ListSet DEF ChunkTyped
<1>11. IsFrozenChunked' /\ Chunks' = 1
  BY <1>2, <1>8, <1>9, <1>10 DEF IsFrozenChunked, IsEmpty, Chunks
<1>12. Numbered'
  BY <1>2, <1>8, <1>11 DEF Numbered
<1>13. ASSUME NEW n \in 1..NodeCount
       PROVE  Position(1, n) = n
  BY DEF Position
<1>14. ASSUME NEW n \in 1..NodeCount, ~onDemand'
       PROVE  chunks'.list[Position(1, n)] = Signed(nanos, n, d)
  BY <1>6, <1>10, <1>13, <1>14
<1>15. 1 \in 1..NodeCount
  OBVIOUS
<1>16. ~onDemand' => /\ PieceOf(1)'.from = d.from
                     /\ PieceOf(1)'.to = d.to
  <2> SUFFICES ASSUME ~onDemand'
               PROVE  /\ PieceOf(1)'.from = d.from
                      /\ PieceOf(1)'.to = d.to
    OBVIOUS
  <2>1. /\ chunks'.list[Position(1, 1)].from = d.from
        /\ chunks'.list[Position(1, 1)].to = d.to
    BY <1>14, <1>15, SignedFields
  <2> QED BY <2>1 DEF PieceOf, Position
<1>17. Grid'
  <2> SUFFICES ASSUME ~onDemand', NEW n \in 1..NodeCount
               PROVE  /\ chunks'.list[Position(1, n)].id = ids'.list[1]
                      /\ chunks'.list[Position(1, n)].node = n
                      /\ chunks'.list[Position(1, n)].from = PieceOf(1)'.from
                      /\ chunks'.list[Position(1, n)].to = PieceOf(1)'.to
                      /\ chunks'.list[Position(1, n)] \in SignedType
    BY <1>11 DEF Grid, Position
  <2>1. n \in Nat
    OBVIOUS
  <2> QED BY <1>2, <1>4, <1>8, <1>14, <1>16, <2>1, SignedFields
<1>18. PieceOf(1)'.from = 0
  <2>1. CASE onDemand'
    <3>1. PieceOf(1)' = d
      BY <2>1 DEF PieceOf, MakeData, PieceAt, d
    <3> QED BY <1>4, <3>1
  <2> QED BY <1>4, <1>16, <2>1
<1>19. Cut'
  BY <1>1, <1>11, <1>18 DEF Cut
<1> QED BY <1>8, <1>10, <1>11, <1>12, <1>17, <1>19

\* Steps that change neither the lists' elements nor, when signing on demand,
\* length and size, keep the pieces.
LEMMA PiecesKept ==
  ASSUME Numbered, Grid, Cut, IsFrozenChunked,
         UNCHANGED <<chunkKind, whole, onDemand, tooLong, resized>>,
         onDemand => UNCHANGED <<length, size>>,
         chunks'.list = chunks.list, ids'.list = ids.list,
         ids'.index \in 1..Chunks
  PROVE  /\ IsFrozenChunked' /\ Chunks' = Chunks
         /\ \A k : PieceOf(k)' = PieceOf(k)
         /\ NotFrozen' /\ Numbered' /\ Grid' /\ Cut'
<1>1. IsFrozenChunked' /\ Chunks' = Chunks
  BY DEF IsFrozenChunked, IsEmpty, Chunks
<1>2. ASSUME NEW k PROVE PieceOf(k)' = PieceOf(k)
  BY DEF PieceOf, MakeData, PieceAt, Position
<1>3. Numbered'
  BY <1>1 DEF Numbered
<1>4. Grid'
  BY <1>1, <1>2 DEF Grid, Position
<1>5. onDemand => Total' = Total
  BY DEF Total
<1>6. Cut'
  BY <1>1, <1>2, <1>5 DEF Cut
<1> QED BY <1>1, <1>2, <1>3, <1>4, <1>6 DEF NotFrozen

\* Such a step, if it leaves the ledger alone, keeps its agreement with the
\* IDs.
LEMMA LedgerKept ==
  ASSUME OnTheLedger, Chunks' = Chunks, \A k : PieceOf(k)' = PieceOf(k),
         UNCHANGED <<ledger, onDemand, resized>>, ids'.list = ids.list,
         ids'.index = ids.index \/ ids'.index = 1, ledger \in Seq(EntryType)
  PROVE  OnTheLedger'
  BY DEF OnTheLedger

\* What is sent has the current ID, the current node and the piece of that ID.
LEMMA RequestSent ==
  ASSUME ChunkInv, at = "call"
  PROVE  /\ IsFrozenChunked /\ ids.index \in 1..Chunks
         /\ ChunkRequest.id = Current(ids) /\ ChunkRequest.id \in Nat
         /\ ChunkRequest.node = nodeAt
         /\ ChunkRequest.from = PieceOf(ids.index).from /\ ChunkRequest.from \in Nat
         /\ ChunkRequest.to = PieceOf(ids.index).to /\ ChunkRequest.to \in Nat
<1>1. IsFrozenChunked
  BY DEF ChunkInv, NotFrozen
<1>2. /\ ids \in ListType(Nat) /\ chunks \in ListType(SignedType) /\ onDemand \in BOOLEAN
      /\ ids.index \in 1..Chunks /\ nodeAt \in 1..NodeCount
  BY <1>1 DEF ChunkInv, ChunkTyped, Numbered
<1>3. /\ Current(ids) \in Nat /\ Current(ids) = ids.list[ids.index]
  BY <1>2 DEF Current, ListType, Chunks
<1>4. CASE onDemand
  <2>1. length \in Nat \ {0} /\ size \in Nat \ {0} /\ ids.index \in Nat \ {0}
    BY <1>2, <1>4 DEF ChunkInv, ChunkTyped
  <2> DEFINE d == MakeData(ids.index, FALSE)
  <2>2. d.from \in Nat /\ d.to \in Nat
    BY <2>1, Pieces DEF MakeData
  <2>3. ChunkRequest = Signed(Current(ids), nodeAt, d)
    BY <1>4, <2>2 DEF ChunkRequest
  <2>4. PieceOf(ids.index) = d
    BY <1>4, <2>2 DEF PieceOf
  <2> HIDE DEF d
  <2>5. /\ ChunkRequest.id = Current(ids) /\ ChunkRequest.node = nodeAt
        /\ ChunkRequest.from = d.from /\ ChunkRequest.to = d.to
    BY <2>3 DEF Signed
  <2> QED BY <1>1, <1>2, <1>3, <2>2, <2>4, <2>5
<1>5. CASE ~onDemand
  <2>1. ChunkRequest = chunks.list[Position(ids.index, nodeAt)]
    BY <1>5 DEF ChunkRequest, Position
  <2>2. /\ ChunkRequest.id = ids.list[ids.index] /\ ChunkRequest.node = nodeAt
        /\ ChunkRequest.from = PieceOf(ids.index).from
        /\ ChunkRequest.to = PieceOf(ids.index).to
        /\ ChunkRequest \in SignedType
    BY <1>1, <1>2, <1>5, <2>1 DEF ChunkInv, Grid
  <2> QED BY <1>1, <1>2, <1>3, <2>2 DEF SignedType
<1> QED BY <1>2, <1>4, <1>5

\* advance() goes to the next ID, or back to the first.
LEMMA IdsAdvanced ==
  ASSUME ids \in ListType(Nat), ids.index \in 1..Chunks
  PROVE  /\ Advanced(ids) \in ListType(Nat) /\ Advanced(ids).list = ids.list
         /\ Advanced(ids).index \in 1..Chunks /\ Advanced(ids).index <= ids.index + 1
<1>1. ids.list \in Seq(Nat) /\ Chunks \in Nat \ {0} /\ ids.index \in Nat
  BY DEF ListType, Chunks
<1>2. (ids.index % Chunks) + 1 \in 1..Chunks /\ (ids.index % Chunks) + 1 <= ids.index + 1
  <2>1. CASE ids.index = Chunks
    <3>1. \A m \in Nat \ {0} : m % m = 0
      BY Z3
    <3>2. ids.index % Chunks = 0
      BY <1>1, <2>1, <3>1
    <3> QED BY <1>1, <3>2
  <2>2. CASE ids.index < Chunks
    <3>1. \A m \in Nat, p \in Nat : p < m => p % m = p
      BY Z3
    <3>2. ids.index % Chunks = ids.index
      BY <1>1, <2>2, <3>1
    <3> QED BY <1>1, <2>2, <3>2
  <2> QED BY <1>1, <2>1, <2>2
<1>3. ids.list # <<>>
  BY <1>1 DEF Chunks
<1>4. Advanced(ids) = [ids EXCEPT !.index = (ids.index % Chunks) + 1]
  BY <1>3 DEF Advanced, IsEmpty, Chunks
<1> QED BY <1>1, <1>2, <1>4 DEF ListType

\* A chunk that is accepted is the next one: an ID whose predecessors are on
\* the ledger and which is not.
LEMMA LedgerGrows ==
  ASSUME ChunkInv, at = "call", ~OnLedger(ChunkRequest.id), NEW applied \in BOOLEAN,
         ledger' = Append(ledger, [id |-> ChunkRequest.id, from |-> ChunkRequest.from,
                                   to |-> ChunkRequest.to, applied |-> applied]),
         ids' = ids \/ ids' = Advanced(ids),
         UNCHANGED <<chunkKind, length, whole, size, chunks, onDemand, tooLong, resized>>
  PROVE  /\ ids' \in ListType(Nat) /\ ledger' \in Seq(EntryType)
         /\ NotFrozen' /\ Numbered' /\ Grid' /\ Cut' /\ OnTheLedger'
         /\ Chunks' = Chunks /\ Chunks \in Nat
         /\ Len(ledger) \in Nat /\ Len(ledger') = Len(ledger) + 1
         /\ \A i \in 1..Len(ledger) : ledger'[i] = ledger[i]
<1>1. /\ ids \in ListType(Nat) /\ ledger \in Seq(EntryType)
      /\ Numbered /\ Grid /\ Cut /\ OnTheLedger
  BY DEF ChunkInv, ChunkTyped
<1>2. /\ IsFrozenChunked /\ ids.index \in 1..Chunks
      /\ ChunkRequest.id = Current(ids) /\ ChunkRequest.id \in Nat
      /\ ChunkRequest.from = PieceOf(ids.index).from /\ ChunkRequest.from \in Nat
      /\ ChunkRequest.to = PieceOf(ids.index).to /\ ChunkRequest.to \in Nat
  BY RequestSent
<1>3. /\ ids' \in ListType(Nat) /\ ids'.list = ids.list
      /\ ids'.index \in 1..Chunks /\ ids'.index <= ids.index + 1
  BY <1>1, <1>2, IdsAdvanced
<1>4. /\ Chunks' = Chunks /\ \A k : PieceOf(k)' = PieceOf(k)
      /\ NotFrozen' /\ Numbered' /\ Grid' /\ Cut'
  BY <1>1, <1>2, <1>3, PiecesKept
<1>5. Chunks \in Nat /\ ids.index \in Nat /\ Len(ledger) \in Nat
  BY <1>1, <1>2 DEF ListType, Chunks
<1>6. ids.index = Len(ledger) + 1
  <2>1. ids.index \notin DOMAIN ledger
    BY <1>1, <1>2 DEF OnTheLedger, OnLedger, Current
  <2>2. ids.index <= Len(ledger) + 1
    BY <1>1 DEF OnTheLedger
  <2> QED BY <1>1, <1>2, <1>5, <2>1, <2>2
<1>7. PICK c \in EntryType :
        /\ ledger' = Append(ledger, c) /\ c.id = ids.list[ids.index]
        /\ c.from = PieceOf(ids.index).from /\ c.to = PieceOf(ids.index).to
  <2> DEFINE c == [id |-> ChunkRequest.id, from |-> ChunkRequest.from,
                   to |-> ChunkRequest.to, applied |-> applied]
  <2>1. c \in EntryType /\ c.id = ChunkRequest.id
        /\ c.from = ChunkRequest.from /\ c.to = ChunkRequest.to
    BY <1>2 DEF EntryType
  <2>2. ledger' = Append(ledger, c)
    OBVIOUS
  <2> HIDE DEF c
  <2> QED BY <1>2, <2>1, <2>2 DEF Current
<1>8. /\ ledger' \in Seq(EntryType) /\ Len(ledger') = Len(ledger) + 1
      /\ DOMAIN ledger' = 1..(Len(ledger) + 1) /\ DOMAIN ledger = 1..Len(ledger)
      /\ \A i \in DOMAIN ledger : ledger'[i] = ledger[i]
      /\ ledger'[Len(ledger) + 1] = c
  BY <1>1, <1>7
<1>9. \A i \in DOMAIN ledger' : i \in DOMAIN ledger \/ i = Len(ledger) + 1
  BY <1>5, <1>8
<1>10. OnTheLedger'
  <2>1. Len(ledger') <= Chunks' /\ ids'.index <= Len(ledger') + 1
    BY <1>2, <1>3, <1>4, <1>5, <1>6, <1>8
  <2>2. \A i \in DOMAIN ledger' : ledger'[i].id = ids'.list[i]
    BY <1>1, <1>3, <1>6, <1>7, <1>8, <1>9 DEF OnTheLedger
  <2>3. ~onDemand \/ ~resized =>
          \A i \in DOMAIN ledger' : /\ ledger'[i].from = PieceOf(i)'.from
                                    /\ ledger'[i].to = PieceOf(i)'.to
    BY <1>1, <1>4, <1>6, <1>7, <1>8, <1>9 DEF OnTheLedger
  <2> QED BY <2>1, <2>2, <2>3 DEF OnTheLedger
<1> QED BY <1>3, <1>4, <1>5, <1>8, <1>10

\* The next node is a node.
LEMMA NextNodeOf == NodeCount \in Nat \ {0} /\ nodeAt \in 1..NodeCount
                      => NextNode \in 1..NodeCount
<1> SUFFICES ASSUME NodeCount \in Nat \ {0}, nodeAt \in 1..NodeCount
             PROVE  NextNode \in 1..NodeCount
  OBVIOUS
<1>1. PICK a \in Int : a = nodeAt + (IF onDemand THEN 1 ELSE 0)
  OBVIOUS
<1>2. a % NodeCount \in 0..(NodeCount - 1)
  BY Division
<1> QED BY <1>1, <1>2 DEF NextNode

\* The invariant holds at the start.
LEMMA ChunkStart == ChunkInit => ChunkInv
<1> SUFFICES ASSUME ChunkInit PROVE ChunkInv
  OBVIOUS
<1>1. ~IsFrozenChunked /\ IsEmpty(ids) /\ ids.index = 1 /\ Len(ids.list) = 0
  BY DEF ChunkInit, IsFrozenChunked, IsEmpty, NewList
<1>2. ids \in ListType(Nat) /\ chunks \in ListType(SignedType)
  BY NewListTyped DEF ChunkInit
<1>3. ChunkTyped
  <2>1. length \in Nat \ {0} /\ size \in Nat \ {0} /\ NodeCount \in Nat \ {0}
    BY ChunkConstants DEF ChunkInit
  <2>2. ledger \in Seq(EntryType) /\ left \in Nat /\ nodeAt = 1
    BY DEF ChunkInit
  <2>3. /\ whole = length /\ chunkKind \in {"file", "topic"} /\ onDemand \in BOOLEAN
        /\ tooLong \in BOOLEAN /\ resized \in BOOLEAN
    BY DEF ChunkInit
  <2> QED BY <1>2, <2>1, <2>2, <2>3 DEF ChunkTyped
<1>4. NotFrozen
  BY <1>1 DEF NotFrozen, ChunkInit
<1>5. Numbered /\ Grid /\ Cut
  BY <1>1 DEF Numbered, Grid, Cut
<1>6. Len(ledger) = 0 /\ DOMAIN ledger = {}
  BY DEF ChunkInit
<1>7. OnTheLedger
  BY <1>1, <1>6 DEF OnTheLedger, Chunks
<1>8. Running
  BY DEF ChunkInit, Running, RejectedForChunk
<1>9. Holes
  BY DEF ChunkInit, Holes
<1> QED BY <1>3, <1>4, <1>5, <1>7, <1>8, <1>9 DEF ChunkInv

\* Either way of freezing keeps the parts of the invariant that are not about
\* executeAll().
LEMMA FreezeKeeps ==
  ASSUME ChunkInv, ~IsFrozenChunked, NEW demand \in BOOLEAN, NEW nanos \in FirstNanos,
         onDemand' = demand,
         \/ FreezeWithTooLong(demand, nanos) /\ tooLong' = TRUE
         \/ FreezeWithChunks(nanos) /\ UNCHANGED tooLong,
         UNCHANGED <<chunkKind, length, whole, size, nodeAt, ledger, resized>>,
         left' \in Nat
  PROVE  /\ ChunkTyped' /\ NotFrozen' /\ Numbered' /\ Grid' /\ Cut' /\ OnTheLedger'
         /\ Chunks' \in Nat \ {0} /\ Len(ledger') = 0
<1>1. ChunkTyped /\ NotFrozen
  BY DEF ChunkInv
<1>3. /\ ids' \in ListType(Nat) /\ chunks' \in ListType(SignedType)
      /\ IsFrozenChunked' /\ ids'.index = 1 /\ Numbered' /\ Grid' /\ Cut'
  <2>1. CASE FreezeWithTooLong(demand, nanos) /\ tooLong' = TRUE
    BY <1>1, <2>1, FrozenTooLong
  <2>2. CASE FreezeWithChunks(nanos) /\ UNCHANGED tooLong
    BY <1>1, <2>2, FrozenChunks
  <2> QED BY <2>1, <2>2
<1>4. ledger' = <<>> /\ Len(ledger') = 0 /\ DOMAIN ledger' = {}
  BY <1>1 DEF NotFrozen
<1>5. length \in Nat \ {0} /\ size \in Nat \ {0}
  BY <1>1 DEF ChunkTyped, IsFrozenChunked
<1>6. ChunkTyped'
  <2>1. ledger' \in Seq(EntryType) /\ tooLong' \in BOOLEAN /\ nodeAt' \in 1..NodeCount
        /\ chunkKind' \in {"file", "topic"} /\ whole' \in Nat /\ resized' \in BOOLEAN
    BY <1>1 DEF ChunkTyped
  <2> QED BY <1>3, <1>5, <2>1 DEF ChunkTyped
<1>7. Chunks' \in Nat \ {0}
  <2>1. Chunks' \in Nat
    BY <1>3 DEF Chunks, ListType
  <2> QED BY <1>3, <2>1 DEF Numbered
<1>8. OnTheLedger'
  BY <1>3, <1>4, <1>7 DEF OnTheLedger
<1> QED BY <1>3, <1>4, <1>6, <1>7, <1>8 DEF NotFrozen

\* Every step keeps the invariant, action by action.
LEMMA FreezeChunkedStep ==
  ASSUME ChunkInv, NEW demand \in BOOLEAN, NEW nanos \in FirstNanos,
         FreezeChunked(demand, nanos)
  PROVE  ChunkInv'
<1>1. ~IsFrozenChunked /\ UNCHANGED <<at, left, timeout, spent, ended, firstTimeout>>
  BY DEF FreezeChunked
<1>2. left \in Nat /\ ended = "none" /\ at = "idle" /\ Running
  BY <1>1 DEF ChunkInv, ChunkTyped, NotFrozen
<1>3. ChunkTyped' /\ NotFrozen' /\ Numbered' /\ Grid' /\ Cut' /\ OnTheLedger'
  BY <1>1, <1>2, FreezeKeeps DEF FreezeChunked
<1>4. Running' /\ Holes'
  BY <1>1, <1>2 DEF Running, RejectedForChunk, Holes
<1> QED BY <1>3, <1>4 DEF ChunkInv

LEMMA FreezeAndExecuteAllStep ==
  ASSUME ChunkInv, NEW t \in Timeouts, NEW demand \in BOOLEAN, NEW nanos \in FirstNanos,
         FreezeAndExecuteAll(t, demand, nanos)
  PROVE  ChunkInv'
<1>1. /\ ~IsFrozenChunked /\ onDemand' = demand
      /\ UNCHANGED <<chunkKind, length, whole, size, nodeAt, ledger, resized>>
  BY DEF FreezeAndExecuteAll
<1>2. left \in Nat /\ ended = "none" /\ at = "idle" /\ Running
  BY <1>1 DEF ChunkInv, ChunkTyped, NotFrozen
<1>3. CASE FreezeWithChunks(nanos) /\ Begin(t) /\ UNCHANGED tooLong
  <2>1. left' = Chunks'
    BY <1>3 DEF Begin, Chunks
  <2>2. Chunks' \in Nat
    <3>1. ids' \in ListType(Nat)
      BY <1>1, <1>3, FrozenChunks DEF ChunkInv
    <3> QED BY <3>1 DEF ListType, Chunks
  <2>3. /\ ChunkTyped' /\ NotFrozen' /\ Numbered' /\ Grid' /\ Cut' /\ OnTheLedger'
        /\ Chunks' \in Nat \ {0} /\ Len(ledger') = 0
    BY <1>1, <1>3, <2>1, <2>2, FreezeKeeps
  <2>4. Running'
    <3>1. timeout' = firstTimeout' /\ at' = "call" /\ ended' = "none"
      BY <1>2, <1>3 DEF Begin, Running
    <3>2. PICK c \in Nat \ {0} : c = Chunks'
      BY <2>3
    <3>3. c >= 1 /\ c >= c - 0
      OBVIOUS
    <3>4. left' >= 1 /\ left' >= Chunks' - Len(ledger')
      BY <2>1, <2>3, <3>2, <3>3, Zenon
    <3> QED BY <3>1, <3>4 DEF Running, RejectedForChunk
  <2>5. Holes'
    <3>1. ~Hole(Len(ledger))'
      BY <2>3 DEF Hole
    <3> QED BY <1>3, <3>1 DEF Begin, Holes
  <2> QED BY <2>3, <2>4, <2>5 DEF ChunkInv
<1>4. CASE /\ FreezeWithTooLong(demand, nanos) /\ tooLong' = TRUE /\ ended' = "throws"
           /\ UNCHANGED <<left, timeout, firstTimeout, at, spent>>
  <2>1. ChunkTyped' /\ NotFrozen' /\ Numbered' /\ Grid' /\ Cut' /\ OnTheLedger'
    BY <1>1, <1>2, <1>4, FreezeKeeps
  <2>2. Running' /\ Holes'
    BY <1>2, <1>4 DEF Running, RejectedForChunk, Holes
  <2> QED BY <2>1, <2>2 DEF ChunkInv
<1> QED BY <1>3, <1>4 DEF FreezeAndExecuteAll

\* A step outside executeAll() keeps what is said of it.
LEMMA RunningKept ==
  ASSUME Running, Holes, Chunks' = Chunks, ids' = ids,
         UNCHANGED <<chunkKind, at, left, timeout, spent, ended, ledger, firstTimeout>>
  PROVE  Running' /\ Holes'
<1>1. Running'
  BY DEF Running, RejectedForChunk, OnLedger, Current
<1>2. Holes'
  BY DEF Holes, Hole
<1> QED BY <1>1, <1>2

LEMMA SetChunkSizeStep ==
  ASSUME ChunkInv, NEW n \in ChunkSizes, SetChunkSize(n)
  PROVE  ChunkInv'
<1>1. /\ size' = n /\ n \in Nat \ {0} /\ (resized' <=> resized \/ IsFrozenChunked)
      /\ resized' \in BOOLEAN
      /\ UNCHANGED <<chunkKind, length, whole, ids, chunks, onDemand, nodeAt, at, left,
                     timeout, spent, ended, ledger, firstTimeout, tooLong>>
  BY ChunkConstants DEF SetChunkSize, ChunkInv, ChunkTyped, IsFrozenChunked
<1>2. /\ IsFrozenChunked' = IsFrozenChunked /\ Chunks' = Chunks
      /\ ~onDemand => \A k : PieceOf(k)' = PieceOf(k)
  BY <1>1 DEF IsFrozenChunked, Chunks, PieceOf, Position
<1>3. ChunkTyped'
  BY <1>1 DEF ChunkInv, ChunkTyped
<1>4. NotFrozen' /\ Numbered' /\ Grid'
  <2>1. NotFrozen'
    BY <1>1, <1>2 DEF ChunkInv, NotFrozen
  <2>2. Numbered'
    BY <1>1, <1>2 DEF ChunkInv, Numbered
  <2>3. Grid'
    BY <1>1, <1>2 DEF ChunkInv, Grid, Position
  <2> QED BY <2>1, <2>2, <2>3
<1>5. Cut'
  <2> SUFFICES ASSUME IsFrozenChunked PROVE Cut'
    BY <1>2 DEF Cut
  <2>1. CASE ~onDemand
    BY <1>1, <1>2, <2>1 DEF ChunkInv, Cut
  <2>2. CASE onDemand
    <3>1. length \in Nat \ {0} /\ Chunks \in Nat
      BY <2>2 DEF ChunkInv, ChunkTyped, Chunks, ListType
    <3>2. PieceOf(1)'.from = 0
      <4>1. (1 - 1) * n = 0
        BY <1>1
      <4> QED BY <1>1, <2>2, <3>1, <4>1 DEF PieceOf, MakeData, PieceAt, Least
    <3>3. chunkKind = "file" =>
            \A k \in 1..(Chunks - 1) : PieceOf(k + 1)'.from = PieceOf(k)'.to
      <4> SUFFICES ASSUME chunkKind = "file", NEW k \in 1..(Chunks - 1)
                   PROVE  PieceOf(k + 1)'.from = PieceOf(k)'.to
        OBVIOUS
      <4>1. (k + 1) - 1 = k
        BY <3>1
      <4> QED BY <1>1, <2>2, <4>1 DEF PieceOf, MakeData, PieceAt
    <3>4. length = whole /\ resized'
      BY <1>1, <2>2 DEF ChunkInv, Cut
    <3> QED BY <1>1, <1>2, <2>2, <3>2, <3>3, <3>4 DEF Cut
  <2> QED BY <2>1, <2>2 DEF ChunkInv, ChunkTyped
<1>6. OnTheLedger'
  <2>1. CASE onDemand /\ IsFrozenChunked
    BY <1>1, <1>2, <2>1 DEF ChunkInv, OnTheLedger
  <2>2. CASE ~onDemand
    BY <1>1, <1>2, <2>2 DEF ChunkInv, OnTheLedger
  <2> QED BY <2>1, <2>2 DEF IsFrozenChunked
<1>7. Running' /\ Holes'
  BY <1>1, <1>2, RunningKept DEF ChunkInv
<1> QED BY <1>3, <1>4, <1>5, <1>6, <1>7 DEF ChunkInv

LEMMA RereadChunkedStep ==
  ASSUME ChunkInv, RereadChunked
  PROVE  ChunkInv'
<1>1. /\ at = "idle" /\ ~onDemand /\ ~IsEmpty(chunks)
      /\ chunks' = SetLocked(chunks) /\ ids' = [SetLocked(ids) EXCEPT !.index = 1]
      /\ nodeAt' = 1 /\ timeout' = Null /\ firstTimeout' = Null /\ ended' = "none"
      /\ UNCHANGED <<chunkKind, whole, onDemand, at, left, ledger, tooLong, resized>>
  BY DEF RereadChunked
<1>2. /\ ids \in ListType(Nat) /\ chunks \in ListType(SignedType)
      /\ ledger \in Seq(EntryType) /\ IsFrozenChunked /\ ids.index \in 1..Chunks
      /\ Numbered /\ Grid /\ Cut /\ OnTheLedger
  BY <1>1 DEF ChunkInv, ChunkTyped, IsFrozenChunked, Numbered
<1>3. /\ chunks' \in ListType(SignedType) /\ chunks'.list = chunks.list
      /\ ids' \in ListType(Nat) /\ ids'.list = ids.list /\ ids'.index = 1
  BY <1>1, <1>2, ListReread
<1>4. ids'.index \in 1..Chunks /\ NodeCount \in Nat \ {0}
  BY <1>2, <1>3, ChunkConstants DEF Chunks, ListType
<1>5. /\ IsFrozenChunked' /\ Chunks' = Chunks /\ \A k : PieceOf(k)' = PieceOf(k)
      /\ NotFrozen' /\ Numbered' /\ Grid' /\ Cut'
  BY <1>1, <1>2, <1>3, <1>4, PiecesKept
<1>6. OnTheLedger'
  BY <1>1, <1>2, <1>3, <1>5, LedgerKept
<1>7. ChunkTyped'
  <2>1. ~(onDemand' \/ IsEmpty(chunks'))
    BY <1>1, <1>3 DEF IsEmpty
  <2> QED BY <1>1, <1>3, <1>4, <2>1 DEF ChunkInv, ChunkTyped
<1>8. Running' /\ Holes'
  BY <1>1 DEF Running, RejectedForChunk, Holes
<1> QED BY <1>5, <1>6, <1>7, <1>8 DEF ChunkInv

LEMMA ExecuteAllStep ==
  ASSUME ChunkInv, NEW t \in Timeouts, ExecuteAll(t)
  PROVE  ChunkInv'
<1>1. /\ IsFrozenChunked /\ ids' = LockedIf(~onDemand, ids)
      /\ left' = Len(ids'.list) /\ at' = "call" /\ ended' = "none"
      /\ UNCHANGED <<chunkKind, length, whole, size, chunks, onDemand, nodeAt, ledger,
                     tooLong, resized>>
  BY DEF ExecuteAll, Begin
<1>2. timeout' = firstTimeout'
  BY DEF ExecuteAll, Begin, ChunkInv, Running
<1>3. /\ ids \in ListType(Nat) /\ ledger \in Seq(EntryType) /\ onDemand \in BOOLEAN
      /\ ids.index \in 1..Chunks /\ Numbered /\ Grid /\ Cut /\ OnTheLedger
  BY <1>1 DEF ChunkInv, ChunkTyped, Numbered
<1>4. ids' \in ListType(Nat) /\ ids'.list = ids.list /\ ids'.index = ids.index
  BY <1>1, <1>3, ListLockedIf
<1>5. /\ Chunks' = Chunks /\ \A k : PieceOf(k)' = PieceOf(k)
      /\ NotFrozen' /\ Numbered' /\ Grid' /\ Cut'
  BY <1>1, <1>3, <1>4, PiecesKept
<1>6. OnTheLedger'
  BY <1>1, <1>3, <1>4, <1>5, LedgerKept
<1>7. left' = Chunks' /\ Chunks' \in Nat \ {0} /\ Len(ledger') \in Nat
  BY <1>1, <1>3, <1>4, <1>5 DEF Chunks, ListType
<1>8. ChunkTyped'
  BY <1>1, <1>4, <1>7 DEF ChunkInv, ChunkTyped
<1>9. Running'
  <2>1. left' >= 1 /\ left' >= Chunks' - Len(ledger')
    BY <1>7
  <2> QED BY <1>1, <1>2, <2>1 DEF Running, RejectedForChunk
<1>10. Holes'
  <2>1. Hole(Len(ledger))' => Len(ledger') # 0
    BY <1>7 DEF Hole
  <2>2. Len(ledger') # 0 => left' > Chunks' - Len(ledger')
    BY <1>7
  <2> QED BY <1>1, <2>1, <2>2 DEF Holes
<1> QED BY <1>5, <1>6, <1>8, <1>9, <1>10 DEF ChunkInv

LEMMA AcceptStep ==
  ASSUME ChunkInv, NEW applied \in BOOLEAN, Accept(applied)
  PROVE  ChunkInv'
<1>1. /\ at = "call" /\ ~OnLedger(ChunkRequest.id)
      /\ ledger' = Append(ledger, [id |-> ChunkRequest.id, from |-> ChunkRequest.from,
                                   to |-> ChunkRequest.to, applied |-> applied])
      /\ ids' = Advanced(ids) /\ nodeAt' = NextNode
      /\ UNCHANGED <<chunkKind, length, whole, size, chunks, onDemand, timeout, firstTimeout,
                     tooLong, resized>>
  BY DEF Accept
<1>2. /\ ids' \in ListType(Nat) /\ ledger' \in Seq(EntryType)
      /\ NotFrozen' /\ Numbered' /\ Grid' /\ Cut' /\ OnTheLedger'
      /\ Chunks' = Chunks /\ Chunks \in Nat
      /\ Len(ledger) \in Nat /\ Len(ledger') = Len(ledger) + 1
      /\ \A i \in 1..Len(ledger) : ledger'[i] = ledger[i]
  BY <1>1, LedgerGrows
<1>3. /\ left \in Nat /\ left >= 1 /\ left >= Chunks - Len(ledger)
      /\ ended = "none" /\ timeout = firstTimeout
  BY <1>1 DEF ChunkInv, ChunkTyped, Running
<1>4. \/ at' = "receipt" /\ left' = left /\ ended' = ended
      \/ left = 1 /\ at' = "idle" /\ left' = 0 /\ ended' = "resolved"
      \/ left # 1 /\ at' = "call" /\ left' = left - 1 /\ ended' = ended
  BY DEF Accept, NextChunk
<1>5. NodeCount \in Nat \ {0} /\ NextNode \in 1..NodeCount
  BY ChunkConstants, NextNodeOf DEF ChunkInv, ChunkTyped
<1>6. left' \in Nat
  BY <1>3, <1>4
<1>7. ChunkTyped'
  BY <1>1, <1>2, <1>5, <1>6 DEF ChunkInv, ChunkTyped
<1>8. Len(ledger') <= Chunks'
  BY <1>2 DEF OnTheLedger
<1>9. Running'
  <2>1. CASE at' = "receipt" /\ left' = left /\ ended' = ended
    <3>1. left' >= 1 /\ left' > Chunks' - Len(ledger')
      BY <1>2, <1>3, <2>1
    <3> QED BY <1>1, <1>3, <2>1, <3>1 DEF Running, RejectedForChunk
  <2>2. CASE left = 1 /\ at' = "idle" /\ left' = 0 /\ ended' = "resolved"
    <3>1. Len(ledger') = Chunks'
      BY <1>2, <1>3, <1>8, <2>2
    <3> QED BY <1>1, <1>3, <2>2, <3>1 DEF Running, RejectedForChunk
  <2>3. CASE left # 1 /\ at' = "call" /\ left' = left - 1 /\ ended' = ended
    <3>1. left' >= 1 /\ left' >= Chunks' - Len(ledger')
      BY <1>2, <1>3, <2>3
    <3> QED BY <1>1, <1>3, <2>3, <3>1 DEF Running, RejectedForChunk
  <2> QED BY <1>4, <2>1, <2>2, <2>3
<1>10. Holes'
  <2> SUFFICES ASSUME chunkKind = "file" PROVE Holes'
    BY <1>1 DEF Holes
  <2>1. at' = "receipt" /\ left' = left /\ ended' = ended
    BY DEF Accept
  <2>2. Hole(Len(ledger) - 1)' => Hole(Len(ledger))
    BY <1>2 DEF Hole
  <2>3. Hole(Len(ledger)) => left' > Chunks' - Len(ledger') + 1
    <3>1. Hole(Len(ledger)) => left > Chunks - Len(ledger)
      BY <1>1 DEF ChunkInv, Holes
    <3> QED BY <1>2, <1>3, <2>1, <3>1
  <2> QED BY <1>3, <2>1, <2>2, <2>3 DEF Holes
<1> QED BY <1>2, <1>7, <1>9, <1>10 DEF ChunkInv

\* A step of executeAll() that adds nothing to the ledger keeps the parts of
\* the invariant that are not about the loop.
LEMMA LoopKeeps ==
  ASSUME ChunkInv, IsFrozenChunked, nodeAt' = nodeAt \/ nodeAt' = NextNode, left' \in Nat,
         UNCHANGED <<chunkKind, length, whole, size, ids, chunks, onDemand, ledger,
                     tooLong, resized>>
  PROVE  /\ ChunkTyped' /\ NotFrozen' /\ Numbered' /\ Grid' /\ Cut' /\ OnTheLedger'
         /\ Chunks' = Chunks
<1>1. /\ ids \in ListType(Nat) /\ ids.index \in 1..Chunks /\ ledger \in Seq(EntryType)
      /\ Numbered /\ Grid /\ Cut /\ OnTheLedger
  BY DEF ChunkInv, ChunkTyped, Numbered
<1>2. /\ Chunks' = Chunks /\ \A k : PieceOf(k)' = PieceOf(k)
      /\ NotFrozen' /\ Numbered' /\ Grid' /\ Cut'
  BY <1>1, PiecesKept
<1>3. OnTheLedger'
  BY <1>1, <1>2, LedgerKept
<1>4. nodeAt' \in 1..NodeCount
  BY ChunkConstants, NextNodeOf DEF ChunkInv, ChunkTyped
<1>5. ChunkTyped'
  BY <1>4 DEF ChunkInv, ChunkTyped
<1> QED BY <1>2, <1>3, <1>5

LEMMA AgainStep ==
  ASSUME ChunkInv, NEW arrived \in BOOLEAN, NEW applied \in BOOLEAN,
         Again(arrived, applied)
  PROVE  ChunkInv'
<1>1. /\ at = "call" /\ nodeAt' = NextNode
      /\ UNCHANGED <<chunkKind, length, whole, size, ids, chunks, onDemand, at, left,
                     timeout, ended, firstTimeout, tooLong, resized>>
  BY DEF Again
<1>2. /\ left \in Nat /\ left >= 1 /\ left >= Chunks - Len(ledger)
      /\ ended = "none" /\ timeout = firstTimeout /\ IsFrozenChunked
  BY <1>1 DEF ChunkInv, ChunkTyped, Running, NotFrozen
<1>3. CASE arrived
  <2>1. /\ ~OnLedger(ChunkRequest.id)
        /\ ledger' = Append(ledger, [id |-> ChunkRequest.id, from |-> ChunkRequest.from,
                                     to |-> ChunkRequest.to, applied |-> applied])
    BY <1>3 DEF Again
  <2>2. /\ ids' \in ListType(Nat) /\ ledger' \in Seq(EntryType)
        /\ NotFrozen' /\ Numbered' /\ Grid' /\ Cut' /\ OnTheLedger'
        /\ Chunks' = Chunks /\ Chunks \in Nat
        /\ Len(ledger) \in Nat /\ Len(ledger') = Len(ledger) + 1
    BY <1>1, <2>1, LedgerGrows
  <2>3. NodeCount \in Nat \ {0} /\ NextNode \in 1..NodeCount
    BY ChunkConstants, NextNodeOf DEF ChunkInv, ChunkTyped
  <2>4. ChunkTyped'
    BY <1>1, <2>2, <2>3 DEF ChunkInv, ChunkTyped
  <2>5. left' >= 1 /\ left' >= Chunks' - Len(ledger')
    BY <1>1, <1>2, <2>2
  <2>6. Running'
    BY <1>1, <1>2, <2>5 DEF Running, RejectedForChunk
  <2>7. left' > Chunks' - Len(ledger')
    BY <1>1, <1>2, <2>2
  <2>8. Holes'
    BY <1>1, <1>2, <2>7 DEF Holes
  <2> QED BY <2>2, <2>4, <2>6, <2>8 DEF ChunkInv
<1>4. CASE ~arrived
  <2>1. ledger' = ledger
    BY <1>4 DEF Again
  <2>2. /\ ChunkTyped' /\ NotFrozen' /\ Numbered' /\ Grid' /\ Cut' /\ OnTheLedger'
        /\ Chunks' = Chunks
    BY <1>1, <1>2, <2>1, LoopKeeps
  <2>3. Running'
    BY <1>1, <1>2, <2>1, <2>2 DEF Running, RejectedForChunk
  <2>4. Holes'
    BY <1>1, <2>1, <2>2 DEF ChunkInv, Holes, Hole
  <2> QED BY <2>2, <2>3, <2>4 DEF ChunkInv
<1> QED BY <1>3, <1>4

\* If one ID of a series is no valid time, the series ends beyond the second.
LEMMA LateId ==
  ASSUME NEW l \in Seq(Nat), NEW number \in 1..Len(l), NEW bound \in Nat,
         l[number] = l[1] + number - 1, l[number] >= bound
  PROVE  l[1] + Len(l) > bound
<1>1. Len(l) \in Nat /\ number \in Nat /\ 1 <= number /\ number <= Len(l)
  OBVIOUS
<1>2. l[1] \in Nat
  BY <1>1
<1> QED BY <1>1, <1>2

LEMMA RefuseStep ==
  ASSUME ChunkInv, Refuse
  PROVE  ChunkInv'
<1>1. /\ at = "call" /\ nodeAt' = NextNode /\ at' = "idle" /\ left' = 0
      /\ UNCHANGED <<chunkKind, length, whole, size, ids, chunks, onDemand, timeout,
                     ledger, firstTimeout, tooLong, resized>>
  BY DEF Refuse, Reject
<1>2. \/ ended' = "invalid start" /\ ChunkRequest.id >= NanosPerSecond
      \/ ended' = "duplicate" /\ OnLedger(ChunkRequest.id)
      \/ ended' = "precheck"
  BY DEF Refuse, Reject
<1>3. /\ IsFrozenChunked /\ ids.index \in 1..Chunks
      /\ ChunkRequest.id = Current(ids) /\ ChunkRequest.id \in Nat
  BY <1>1, RequestSent
<1>4. /\ ChunkTyped' /\ NotFrozen' /\ Numbered' /\ Grid' /\ Cut' /\ OnTheLedger'
      /\ Chunks' = Chunks
  BY <1>1, <1>3, LoopKeeps
<1>5. ended' = "duplicate" => OnLedger(Current(ids))
  BY <1>2, <1>3
<1>6. ChunkRequest.id >= NanosPerSecond => ids.list[1] + Len(ids.list) > NanosPerSecond
  <2> SUFFICES ASSUME ChunkRequest.id >= NanosPerSecond
               PROVE  ids.list[1] + Len(ids.list) > NanosPerSecond
    OBVIOUS
  <2>1. PICK l \in Seq(Nat), number \in Int :
          /\ l = ids.list /\ number = ids.index /\ number \in 1..Len(l)
          /\ l[number] = l[1] + number - 1
    <3>0. ids \in ListType(Nat)
      BY DEF ChunkInv, ChunkTyped
    <3>1. ids.list \in Seq(Nat) /\ ids.index \in Int
      BY <3>0 DEF ListType
    <3>2. ids.index \in 1..Len(ids.list)
      BY <1>3, Zenon DEF Chunks
    <3>3. ids.list[ids.index] = ids.list[1] + ids.index - 1
      BY <1>3 DEF ChunkInv, Numbered
    <3> QED BY <3>1, <3>2, <3>3, Zenon
  <2>2. NanosPerSecond \in Nat /\ l[number] >= NanosPerSecond
    BY <1>3, <2>1, ChunkConstants DEF Current
  <2>3. l[1] + Len(l) > NanosPerSecond
    BY <2>1, <2>2, LateId
  <2> QED BY <2>1, <2>3
<1>7. Running'
  <2>1. OnLedger(Current(ids))' <=> OnLedger(Current(ids))
    BY <1>1 DEF OnLedger, Current
  <2>2. timeout' = firstTimeout'
    BY <1>1 DEF ChunkInv, Running
  <2> QED BY <1>1, <1>2, <1>5, <1>6, <2>1, <2>2 DEF Running, RejectedForChunk
<1>8. Holes'
  BY <1>1, <1>2 DEF Holes
<1> QED BY <1>4, <1>7, <1>8 DEF ChunkInv

LEMMA TimeoutExceededStep ==
  ASSUME ChunkInv, TimeoutExceeded
  PROVE  ChunkInv'
<1>1. /\ at = "call" /\ spent' >= timeout' /\ at' = "idle" /\ left' = 0
      /\ ended' = "timeout"
      /\ UNCHANGED <<chunkKind, length, whole, size, ids, chunks, onDemand, nodeAt,
                     timeout, ledger, firstTimeout, tooLong, resized>>
  BY DEF TimeoutExceeded, Reject
<1>2. IsFrozenChunked /\ timeout = firstTimeout
  BY <1>1 DEF ChunkInv, NotFrozen, Running
<1>3. /\ ChunkTyped' /\ NotFrozen' /\ Numbered' /\ Grid' /\ Cut' /\ OnTheLedger'
      /\ Chunks' = Chunks
  BY <1>1, <1>2, LoopKeeps
<1>4. Running' /\ Holes'
  BY <1>1, <1>2 DEF Running, RejectedForChunk, Holes
<1> QED BY <1>3, <1>4 DEF ChunkInv

LEMMA ChunkReceiptStep ==
  ASSUME ChunkInv, NEW answered \in BOOLEAN, ChunkReceipt(answered)
  PROVE  ChunkInv'
<1>1. /\ at = "receipt"
      /\ UNCHANGED <<chunkKind, length, whole, size, ids, chunks, onDemand, nodeAt,
                     timeout, spent, ledger, firstTimeout, tooLong, resized>>
  BY DEF ChunkReceipt
<1>2. \/ at' = "idle" /\ left' = 0 /\ ended' = "receipt"
      \/ left = 1 /\ at' = "idle" /\ left' = 0 /\ ended' = "resolved"
      \/ left # 1 /\ at' = "call" /\ left' = left - 1 /\ ended' = ended
  BY DEF ChunkReceipt, NextChunk, Reject
<1>3. /\ left \in Nat /\ left >= 1 /\ left > Chunks - Len(ledger)
      /\ ended = "none" /\ timeout = firstTimeout /\ IsFrozenChunked
      /\ Len(ledger) <= Chunks
  BY <1>1 DEF ChunkInv, ChunkTyped, Running, NotFrozen, OnTheLedger
<1>4. Chunks \in Nat /\ Len(ledger) \in Nat
  BY DEF ChunkInv, ChunkTyped, Chunks, ListType
<1>5. left' \in Nat
  BY <1>2, <1>3
<1>6. /\ ChunkTyped' /\ NotFrozen' /\ Numbered' /\ Grid' /\ Cut' /\ OnTheLedger'
      /\ Chunks' = Chunks
  BY <1>1, <1>3, <1>5, LoopKeeps
<1>7. Running'
  <2>1. CASE at' = "idle" /\ left' = 0 /\ ended' = "receipt"
    BY <1>1, <1>3, <2>1 DEF Running, RejectedForChunk
  <2>2. CASE left = 1 /\ at' = "idle" /\ left' = 0 /\ ended' = "resolved"
    <3>1. Len(ledger') = Chunks'
      BY <1>1, <1>3, <1>4, <1>6, <2>2
    <3> QED BY <1>1, <1>3, <2>2, <3>1 DEF Running, RejectedForChunk
  <2>3. CASE left # 1 /\ at' = "call" /\ left' = left - 1 /\ ended' = ended
    <3>1. left' >= 1 /\ left' >= Chunks' - Len(ledger')
      BY <1>1, <1>3, <1>4, <1>6, <2>3
    <3> QED BY <1>1, <1>3, <2>3, <3>1 DEF Running, RejectedForChunk
  <2> QED BY <1>2, <2>1, <2>2, <2>3
<1>8. Holes'
  <2> SUFFICES ASSUME chunkKind = "file", at' # "idle" \/ ended' = "resolved"
               PROVE  Holes'
    BY <1>1 DEF Holes
  <2>1. ledger[Len(ledger)].applied
    BY <1>2 DEF ChunkReceipt, Reject
  <2>2. Hole(Len(ledger)) => Hole(Len(ledger) - 1)
    BY <1>4, <2>1 DEF Hole
  <2>3. Hole(Len(ledger))' <=> Hole(Len(ledger))
    BY <1>1 DEF Hole
  <2>4. Hole(Len(ledger) - 1) => left > Chunks - Len(ledger) + 1
    BY <1>1 DEF ChunkInv, Holes
  <2>5. CASE left = 1 /\ at' = "idle" /\ left' = 0 /\ ended' = "resolved"
    <3>1. ~(left > Chunks - Len(ledger) + 1)
      BY <1>3, <1>4, <2>5
    <3> QED BY <2>2, <2>3, <2>4, <2>5, <3>1 DEF Holes
  <2>6. CASE left # 1 /\ at' = "call" /\ left' = left - 1 /\ ended' = ended
    <3>1. left > Chunks - Len(ledger) + 1 => left' > Chunks' - Len(ledger')
      BY <1>1, <1>3, <1>4, <1>6, <2>6
    <3> QED BY <1>3, <2>2, <2>3, <2>4, <2>6, <3>1 DEF Holes
  <2> QED BY <1>2, <2>5, <2>6
<1> QED BY <1>6, <1>7, <1>8 DEF ChunkInv

\* The invariant is inductive.
LEMMA ChunkStep == ChunkInv /\ [ChunkNext]_chunkVars => ChunkInv'
<1> SUFFICES ASSUME ChunkInv, [ChunkNext]_chunkVars PROVE ChunkInv'
  OBVIOUS
<1>1. CASE UNCHANGED chunkVars
  <2>1. UNCHANGED <<chunkKind, length, whole, size, ids, chunks, onDemand, nodeAt, at,
                    left, timeout, spent, ended, ledger, firstTimeout, tooLong, resized>>
    BY <1>1 DEF chunkVars
  <2>2. ChunkTyped'
    BY <2>1 DEF ChunkInv, ChunkTyped
  <2>3. /\ IsFrozenChunked' = IsFrozenChunked /\ Chunks' = Chunks
        /\ \A k : PieceOf(k)' = PieceOf(k)
    BY <2>1 DEF IsFrozenChunked, Chunks, PieceOf, MakeData, PieceAt, Position
  <2>4. NotFrozen' /\ Numbered'
    BY <2>1, <2>3 DEF ChunkInv, NotFrozen, Numbered
  <2>5. Grid'
    BY <2>1, <2>3 DEF ChunkInv, Grid, Position
  <2>6. Cut'
    BY <2>1, <2>3 DEF ChunkInv, Cut, Total
  <2>7. OnTheLedger'
    BY <2>1, <2>3 DEF ChunkInv, OnTheLedger
  <2>8. Running' /\ Holes'
    BY <2>1, <2>3, RunningKept DEF ChunkInv
  <2> QED BY <2>2, <2>4, <2>5, <2>6, <2>7, <2>8 DEF ChunkInv
<1>2. CASE ChunkNext
  BY <1>2, FreezeChunkedStep, FreezeAndExecuteAllStep, SetChunkSizeStep,
     RereadChunkedStep, ExecuteAllStep, AcceptStep, AgainStep, RefuseStep,
     TimeoutExceededStep, ChunkReceiptStep DEF ChunkNext
<1> QED BY <1>1, <1>2

\* For every length, chunk size, number of nodes, first nanosecond and number
\* of runs: the IDs, the signed transactions and the ledger of a chunked
\* transaction agree position by position, and the iterations that
\* executeAll() has left cover what is not sent.
THEOREM ChunkInvCorrect == ChunkSpec => []ChunkInv
  BY ChunkStart, ChunkStep, PTL DEF ChunkSpec

\* What the network accepts of a file is its contents from the start, in
\* order, each part once, through lost answers, refusals and repeated runs;
\* and every request of executeAll() has the ID and the node that the response
\* will name.
THEOREM ChunksOrderedCorrect == ChunkSpec => []ChunksOrdered
<1>1. ChunkInv => AppendedInOrder
  <2> SUFFICES ASSUME ChunkInv, chunkKind = "file", ~resized,
                      NEW i \in DOMAIN ledger
               PROVE  ledger[i].from = IF i = 1 THEN 0 ELSE ledger[i - 1].to
    BY DEF AppendedInOrder
  <2>1. /\ Cut /\ OnTheLedger /\ ledger \in Seq(EntryType) /\ IsFrozenChunked
        /\ Chunks \in Nat
    <3>1. ledger \in Seq(EntryType) /\ Chunks \in Nat
      BY DEF ChunkInv, ChunkTyped, Chunks, ListType
    <3>2. ledger # <<>>
      BY <3>1
    <3> QED BY <3>1, <3>2 DEF ChunkInv, NotFrozen
  <2>2. CASE i = 1
    BY <2>1, <2>2 DEF Cut, OnTheLedger
  <2>3. CASE i # 1
    <3>1. /\ i - 1 \in DOMAIN ledger /\ i - 1 \in 1..(Chunks - 1)
          /\ (i - 1) + 1 = i
      BY <2>1, <2>3 DEF OnTheLedger
    <3>2. PieceOf(i).from = PieceOf(i - 1).to
      BY <2>1, <3>1 DEF Cut
    <3> QED BY <2>1, <2>3, <3>1, <3>2 DEF OnTheLedger
  <2> QED BY <2>2, <2>3
<1>2. ChunkInv => ChunkSentAsNumbered
  BY RequestSent DEF ChunkSentAsNumbered
<1>3. ChunkInv => ChunksOrdered
  BY <1>1, <1>2 DEF ChunksOrdered
<1> QED BY <1>3, ChunkInvCorrect, PTL

\* When executeAll() resolves, all of the contents are on the ledger, and
\* those of a file were applied; when it rejects, the reason is true of the
\* ledger and of the clock.
THEOREM ChunksSettledCorrect == ChunkSpec => []ChunksSettled
<1>1. ChunkInv => CompleteWhenResolved
  <2> SUFFICES ASSUME ChunkInv, ended = "resolved", ~resized, ~tooLong,
                      chunkKind = "topic" /\ Total > 1 => ~onDemand
               PROVE  /\ \A i \in DOMAIN ledger :
                           ledger[i].from = IF i = 1 THEN 0 ELSE ledger[i - 1].to
                      /\ ledger[Len(ledger)].to = whole
    BY DEF CompleteWhenResolved
  <2>1. /\ Cut /\ OnTheLedger /\ ledger \in Seq(EntryType) /\ IsFrozenChunked
        /\ Chunks \in Nat \ {0} /\ Len(ledger) = Chunks
    <3>1. IsFrozenChunked /\ Len(ledger) = Chunks
      BY DEF ChunkInv, NotFrozen, Running
    <3>2. Chunks \in Nat \ {0}
      BY <3>1 DEF ChunkInv, ChunkTyped, Numbered, Chunks, ListType
    <3> QED BY <3>1, <3>2 DEF ChunkInv, ChunkTyped
  <2>2. onDemand /\ chunkKind # "file" => Chunks = 1
    <3> SUFFICES ASSUME onDemand, chunkKind # "file" PROVE Chunks = 1
      OBVIOUS
    <3>1. Chunks = Total /\ chunkKind = "topic"
      BY <2>1 DEF ChunkInv, ChunkTyped, Cut
    <3> QED BY <2>1, <3>1
  <2>3. ASSUME NEW i \in DOMAIN ledger
        PROVE  ledger[i].from = IF i = 1 THEN 0 ELSE ledger[i - 1].to
    <3>1. CASE i = 1
      BY <2>1, <3>1 DEF Cut, OnTheLedger
    <3>2. CASE i # 1
      <4>1. /\ i - 1 \in DOMAIN ledger /\ i - 1 \in 1..(Chunks - 1)
            /\ (i - 1) + 1 = i /\ Chunks # 1
        BY <2>1, <3>2
      <4>2. PieceOf(i).from = PieceOf(i - 1).to
        BY <2>1, <2>2, <4>1 DEF Cut
      <4> QED BY <2>1, <3>2, <4>1, <4>2 DEF OnTheLedger
    <3> QED BY <3>1, <3>2
  <2>4. ledger[Len(ledger)].to = whole
    <3>1. Len(ledger) \in DOMAIN ledger
      BY <2>1
    <3>2. PieceOf(Chunks).to = whole
      BY <2>1, <2>2 DEF Cut
    <3> QED BY <2>1, <3>1, <3>2 DEF OnTheLedger
  <2> QED BY <2>3, <2>4
<1>2. ChunkInv => AppliedWhenResolved
  BY DEF ChunkInv, ChunkTyped, Holes, Hole, AppliedWhenResolved
<1>3. ChunkInv => ChunksSettled
  BY <1>1, <1>2 DEF ChunksSettled, ChunkInv, Running
<1> QED BY <1>3, ChunkInvCorrect, PTL

\* ---- The flows

Steps == {"new", "append", "contract", "populate", "send", "call", "delete",
          "resolved", "rejected"}
File == [length : Int, deleted : BOOLEAN]
Carried == [inline : Int, text : Int]

FlowTyped ==
  /\ flow \in Flow
  /\ callData \in {0, flow.length}
  /\ frozen \in BOOLEAN /\ bytecodeFile \in Nat
  /\ step \in [Executions -> Steps]
  /\ fileId \in [Executions -> Nat]
  /\ files \in Seq(File)
  /\ contracts \in Seq(Int)
  /\ calls \in Seq(Carried)

\* What a file that is used holds: everything, or the part that the comparison
\* of bytes with characters leaves of call data.
Ready(n) ==
  n = Contents \/ (flow.kind = "ethereum" /\ n = CallPart
                   /\ Contents > CallPart /\ ~Longer)

\* No two executions know the same file.
OwnFile ==
  /\ \A e \in Executions : fileId[e] <= Len(files)
  /\ \A e, f \in Executions : fileId[e] = fileId[f] /\ fileId[e] # 0 => e = f

\* Where an execution stands says what its file holds.
Filled(e) ==
  /\ step[e] = "append" =>
       fileId[e] # 0 /\ Longer /\ files[fileId[e]].length = Part
  /\ step[e] \in {"contract", "call"} =>
       fileId[e] # 0 /\ Ready(files[fileId[e]].length)
  /\ step[e] = "contract" => flow.kind = "contract"
  /\ step[e] \in {"populate", "send"} =>
       fileId[e] # 0 /\ flow.kind = "contract" /\ bytecodeFile # 0
  /\ step[e] = "delete" =>
       fileId[e] # 0 /\ flow.kind = "contract" /\ contracts # <<>>

\* The file that is set in the transaction has the whole bytecode, and nobody
\* writes to it.
CodeFile ==
  bytecodeFile # 0 =>
    /\ bytecodeFile <= Len(files) /\ files[bytecodeFile].length = flow.length
    /\ \A e \in Executions : fileId[e] = bytecodeFile => step[e] # "append"

\* The files of executions that resolved.
Deleted ==
  flow.kind = "contract" =>
    /\ \A i \in DOMAIN files : files[i].deleted => contracts # <<>>
    /\ \A e \in Executions : step[e] = "resolved" /\ flow.key =>
         fileId[e] # 0 /\ files[fileId[e]].deleted

FlowInv ==
  /\ FlowTyped /\ OwnFile /\ (\A e \in Executions : Filled(e))
  /\ CodeFile /\ OneWholeContract /\ Deleted /\ CallDataCarried

\* The lengths are numbers.
LEMMA FlowNumbers ==
  ASSUME flow \in Flow
  PROVE  /\ flow.length \in Nat /\ flow.other \in Nat /\ flow.key \in BOOLEAN
         /\ flow.kind \in {"contract", "ethereum"}
         /\ Contents \in Nat /\ Part \in {2, 4} /\ Created \in Int
         /\ Longer \in BOOLEAN
         /\ Longer => Contents > Part /\ Created = Part
         /\ ~Longer => Ready(Created)
         /\ AfterFile \in {"contract", "call"}
         /\ AfterFile = "contract" <=> flow.kind = "contract"
<1>1. /\ flow.length \in Nat /\ flow.other \in Nat /\ flow.key \in BOOLEAN
      /\ flow.kind \in {"contract", "ethereum"}
  <2>1. CodeLengths \subseteq Nat /\ OtherLengths \subseteq Nat /\ 0 \in Nat
    BY FlowConstants
  <2>2. flow.length \in CodeLengths /\ flow.other \in OtherLengths \cup {0}
    BY DEF Flow
  <2>3. flow.kind \in {"contract", "ethereum"} /\ flow.key \in BOOLEAN
    BY DEF Flow
  <2> QED BY <2>1, <2>2, <2>3, Zenon
<1>2. AfterFile \in {"contract", "call"}
      /\ (AfterFile = "contract" <=> flow.kind = "contract")
  BY <1>1 DEF AfterFile
<1>3. Contents \in Nat /\ Part \in {2, 4} /\ Longer \in BOOLEAN
  BY <1>1 DEF Contents, Part, FirstPart, CallPart, Longer
<1>4. Created \in Int /\ (Longer => Contents > Part /\ Created = Part)
  BY <1>1, <1>3 DEF Contents, Created, Longer, Part, FirstPart, CallPart
<1>5. ~Longer => Ready(Created)
  BY <1>1 DEF Contents, Created, Longer, Part, FirstPart, CallPart, Ready
<1> QED BY <1>1, <1>2, <1>3, <1>4, <1>5

LEMMA FlowStart == FlowInit => FlowInv
<1> SUFFICES ASSUME FlowInit PROVE FlowInv
  OBVIOUS
<1>1. FlowTyped
  <2>1. <<>> \in Seq(File) /\ <<>> \in Seq(Int) /\ <<>> \in Seq(Carried)
    OBVIOUS
  <2>2. step \in [Executions -> Steps] /\ fileId \in [Executions -> Nat]
    BY DEF FlowInit, Steps
  <2>3. flow \in Flow /\ callData \in {0, flow.length} /\ frozen \in BOOLEAN
        /\ bytecodeFile \in Nat
    BY DEF FlowInit
  <2>4. files = <<>> /\ contracts = <<>> /\ calls = <<>>
    BY DEF FlowInit
  <2> QED BY <2>1, <2>2, <2>3, <2>4, Zenon DEF FlowTyped
<1>2. OwnFile /\ (\A e \in Executions : Filled(e))
  BY DEF FlowInit, OwnFile, Filled
<1>3. CodeFile /\ OneWholeContract /\ Deleted /\ CallDataCarried
  BY DEF FlowInit, CodeFile, OneWholeContract, Deleted, CallDataCarried
<1> QED BY <1>1, <1>2, <1>3 DEF FlowInv

\* The execution moves to a step, or is rejected.
LEMMA Moves ==
  ASSUME FlowTyped, NEW e \in Executions, NEW answered \in Outcome,
         NEW next \in Steps, Goto(e, answered, next)
  PROVE  /\ step' \in [Executions -> Steps]
         /\ step'[e] \in {"rejected", next}
         /\ answered # "done" => step'[e] = "rejected"
         /\ \A f \in Executions : f # e => step'[f] = step[f]
  BY DEF FlowTyped, Goto, Steps

\* A file is created, and known if its receipt arrives.
LEMMA CreateFileKeeps ==
  ASSUME FlowInv, NEW e \in Executions, NEW answered \in Outcome,
         CreateFile(e, answered)
  PROVE  FlowInv'
<1> DEFINE file == [length |-> Created, deleted |-> FALSE]
           next == IF Longer THEN "append" ELSE AfterFile
<1>1. FlowTyped /\ OwnFile /\ (\A f \in Executions : Filled(f))
      /\ CodeFile /\ OneWholeContract /\ Deleted /\ CallDataCarried
  BY DEF FlowInv
<1>2. flow \in Flow /\ fileId \in [Executions -> Nat] /\ files \in Seq(File)
  BY <1>1 DEF FlowTyped
<1>3. UNCHANGED <<flow, callData, frozen, bytecodeFile, contracts, calls>>
  BY DEF CreateFile
<1>4. /\ step[e] = "new"
      /\ files' = IF answered = "failed" THEN files ELSE Append(files, file)
      /\ fileId' = IF answered = "done" THEN [fileId EXCEPT ![e] = Len(files')]
                   ELSE fileId
      /\ Goto(e, answered, next)
  BY DEF CreateFile
<1>5. file \in File
  BY <1>2, FlowNumbers DEF File
<1>6. next \in Steps /\ next \in {"append", "contract", "call"}
  BY <1>2, FlowNumbers DEF Steps
<1>7. /\ step' \in [Executions -> Steps]
      /\ step'[e] \in {"rejected", next}
      /\ answered # "done" => step'[e] = "rejected"
      /\ \A f \in Executions : f # e => step'[f] = step[f]
  BY <1>1, <1>4, <1>6, Moves
<1>8. /\ files' \in Seq(File)
      /\ Len(files') >= Len(files)
      /\ \A i \in DOMAIN files : i \in DOMAIN files' /\ files'[i] = files[i]
      /\ \A i \in DOMAIN files' : i \in DOMAIN files \/ files'[i] = file
      /\ answered = "done" =>
           Len(files') = Len(files) + 1 /\ files'[Len(files')] = file
  <2> HIDE DEF file
  <2> QED BY <1>2, <1>4, <1>5
<1>9. /\ fileId' \in [Executions -> Nat]
      /\ \A f \in Executions : f # e => fileId'[f] = fileId[f]
      /\ answered = "done" => fileId'[e] = Len(files')
      /\ answered # "done" => fileId' = fileId
  BY <1>2, <1>4, <1>8
<1>10. FlowTyped'
  BY <1>1, <1>3, <1>7, <1>8, <1>9 DEF FlowTyped
<1>11. OwnFile'
  <2>1. Len(files) \in Nat /\ Len(files') \in Nat
    BY <1>2, <1>8
  <2>2. ASSUME NEW f \in Executions
        PROVE  fileId[f] \in Nat /\ fileId[f] <= Len(files)
    BY <1>1, <1>2 DEF OwnFile
  <2>3. ASSUME NEW f \in Executions PROVE fileId'[f] <= Len(files')
    BY <1>8, <1>9, <2>1, <2>2
  <2>4. ASSUME NEW f \in Executions, NEW g \in Executions,
               fileId'[f] = fileId'[g], fileId'[f] # 0
        PROVE  f = g
    <3>1. CASE answered = "done"
      BY <1>1, <1>8, <1>9, <2>1, <2>2, <2>4, <3>1 DEF OwnFile
    <3>2. CASE answered # "done"
      BY <1>1, <1>9, <2>4, <3>2 DEF OwnFile
    <3> QED BY <3>1, <3>2
  <2> QED BY <2>3, <2>4, Zenon DEF OwnFile
<1>12. ASSUME NEW f \in Executions PROVE Filled(f)'
  <2>1. CASE f # e
    <3>1. fileId[f] # 0 => fileId[f] \in DOMAIN files
      BY <1>1, <1>2 DEF OwnFile
    <3> QED BY <1>1, <1>3, <1>7, <1>8, <1>9, <2>1, <3>1
            DEF Filled, Ready, Contents, Longer, Part
  <2>2. CASE f = e /\ answered = "done"
    <3>1. fileId'[e] = Len(files) + 1 /\ fileId'[e] # 0
          /\ files'[fileId'[e]].length = Created
      BY <1>2, <1>8, <1>9, <2>2
    <3>2. step'[e] = "append" => Longer /\ Created = Part
      BY <1>2, <1>7, FlowNumbers
    <3>3. step'[e] \in {"contract", "call"} => ~Longer /\ step'[e] = AfterFile
      BY <1>7
    <3> QED BY <1>2, <1>3, <1>6, <1>7, <2>2, <3>1, <3>2, <3>3, FlowNumbers
            DEF Filled, Ready, Contents, Longer, Part
  <2>3. CASE f = e /\ answered # "done"
    BY <1>7, <2>3 DEF Filled
  <2> QED BY <2>1, <2>2, <2>3
<1>13. OneWholeContract' /\ CallDataCarried'
  BY <1>1, <1>3 DEF OneWholeContract, CallDataCarried, Contents, Longer,
     Part
<1>14. Deleted'
  <2>1. ASSUME NEW f \in Executions, fileId[f] # 0
        PROVE  fileId[f] \in DOMAIN files
    BY <1>1, <1>2, <2>1 DEF OwnFile
  <2>2. step'[e] # "resolved"
    BY <1>6, <1>7
  <2> SUFFICES ASSUME flow.kind = "contract" PROVE Deleted'
    BY <1>3, Zenon DEF Deleted
  <2>3. ASSUME NEW i \in DOMAIN files', files'[i].deleted
        PROVE  contracts' # <<>>
    <3>1. i \in DOMAIN files /\ files'[i] = files[i]
      BY <1>8, <2>3
    <3> QED BY <1>1, <1>3, <2>3, <3>1 DEF Deleted
  <2>4. ASSUME NEW f \in Executions, step'[f] = "resolved", flow'.key
        PROVE  fileId'[f] # 0 /\ files'[fileId'[f]].deleted
    <3>1. step[f] = "resolved" /\ fileId'[f] = fileId[f] /\ flow.key
      BY <1>3, <1>7, <1>9, <2>2, <2>4, Zenon
    <3>2. fileId[f] # 0 /\ files[fileId[f]].deleted
      BY <1>1, <3>1, Zenon DEF Deleted
    <3> QED BY <1>8, <2>1, <3>1, <3>2, Zenon
  <2> QED BY <2>3, <2>4, Zenon DEF Deleted
<1>15. CodeFile'
  <2> SUFFICES ASSUME bytecodeFile # 0 PROVE CodeFile'
    BY <1>3 DEF CodeFile
  <2>1. bytecodeFile \in DOMAIN files /\ files[bytecodeFile].length = flow.length
    BY <1>1, <1>2 DEF CodeFile, FlowTyped
  <2>2. bytecodeFile <= Len(files') /\ files'[bytecodeFile].length = flow.length
    BY <1>8, <2>1
  <2>3. ASSUME NEW f \in Executions, fileId'[f] = bytecodeFile
        PROVE  step'[f] # "append"
    <3>1. CASE f # e
      BY <1>1, <1>7, <1>9, <2>3, <3>1 DEF CodeFile
    <3>2. CASE f = e /\ answered = "done"
      BY <1>2, <1>8, <1>9, <2>1, <2>3, <3>2
    <3>3. CASE f = e /\ answered # "done"
      BY <1>7, <3>3
    <3> QED BY <3>1, <3>2, <3>3
  <2> QED BY <1>3, <2>2, <2>3 DEF CodeFile
<1> QED BY <1>10, <1>11, <1>12, <1>13, <1>14, <1>15 DEF FlowInv

\* The steps that leave the files alone: what they have to show is about the
\* execution that moves.
LEMMA FilesKeep ==
  ASSUME FlowInv, NEW e \in Executions,
         UNCHANGED <<flow, fileId, files>>,
         bytecodeFile' = bytecodeFile
           \/ (step[e] = "contract" /\ bytecodeFile' = fileId[e]),
         \A f \in Executions : f # e => step'[f] = step[f],
         contracts # <<>> => contracts' # <<>>,
         step'[e] \in {"populate", "send", "delete", "resolved", "rejected"},
         step'[e] \in {"populate", "send"} =>
           \/ (bytecodeFile' = fileId[e] /\ step[e] = "contract")
           \/ step[e] = "populate",
         step'[e] = "delete" => step[e] = "send" /\ contracts' # <<>>,
         step'[e] = "resolved" => flow.kind # "contract" \/ ~flow.key
  PROVE  /\ OwnFile' /\ (\A f \in Executions : Filled(f)') /\ CodeFile'
         /\ Deleted'
<1>1. /\ FlowTyped /\ OwnFile /\ (\A f \in Executions : Filled(f)) /\ CodeFile
      /\ Deleted
  BY DEF FlowInv
<1>2. OwnFile'
  BY <1>1 DEF OwnFile
<1>3. /\ step[e] = "contract" => fileId[e] # 0 /\ flow.kind = "contract"
                                /\ files[fileId[e]].length = flow.length
      /\ bytecodeFile # 0 => bytecodeFile' # 0
  BY <1>1 DEF Filled, Ready, Contents
<1>4. ASSUME NEW f \in Executions PROVE Filled(f)'
  <2>1. CASE f # e
    BY <1>1, <1>3, <2>1 DEF Filled, Ready, Contents, Longer, Part
  <2>2. CASE f = e
    BY <1>1, <1>3, <2>2 DEF Filled
  <2> QED BY <2>1, <2>2
<1>5. CodeFile'
  <2>1. CASE bytecodeFile' = bytecodeFile
    BY <1>1, <2>1 DEF CodeFile
  <2>2. CASE step[e] = "contract" /\ bytecodeFile' = fileId[e]
    BY <1>1, <1>3, <2>2 DEF CodeFile, OwnFile
  <2> QED BY <2>1, <2>2
<1>6. Deleted'
  <2> SUFFICES ASSUME flow.kind = "contract" PROVE Deleted'
    BY Zenon DEF Deleted
  <2>1. ASSUME NEW i \in DOMAIN files', files'[i].deleted
        PROVE  contracts' # <<>>
    BY <1>1, <2>1, Zenon DEF Deleted
  <2>2. ASSUME NEW f \in Executions, step'[f] = "resolved", flow'.key
        PROVE  fileId'[f] # 0 /\ files'[fileId'[f]].deleted
    <3>1. f # e
      BY <2>2, Zenon
    <3> QED BY <1>1, <2>2, <3>1, Zenon DEF Deleted
  <2> QED BY <2>1, <2>2, Zenon DEF Deleted
<1> QED BY <1>2, <1>4, <1>5, <1>6

\* The rest is appended, all of it if the execution goes on.
LEMMA AppendFileKeeps ==
  ASSUME FlowInv, NEW e \in Executions, NEW pieces \in 0..AppendChunks,
         AppendFile(e, pieces)
  PROVE  FlowInv'
<1> DEFINE id == fileId[e]
           rest == Contents - Part
           added == IF pieces * AppendSize < rest THEN pieces * AppendSize
                    ELSE rest
<1>1. FlowTyped /\ OwnFile /\ (\A f \in Executions : Filled(f))
      /\ CodeFile /\ OneWholeContract /\ Deleted /\ CallDataCarried
  BY DEF FlowInv
<1>2. flow \in Flow /\ fileId \in [Executions -> Nat] /\ files \in Seq(File)
  BY <1>1 DEF FlowTyped
<1>3. UNCHANGED <<flow, callData, frozen, bytecodeFile, fileId, contracts, calls>>
  BY DEF AppendFile
<1>4. /\ step[e] = "append"
      /\ files' = [files EXCEPT ![id].length = @ + added]
      /\ \/ pieces = AppendChunks /\ Goto(e, "done", AfterFile)
         \/ Goto(e, "failed", AfterFile)
  BY DEF AppendFile
<1>5. id # 0 /\ Longer /\ files[id].length = Part
  BY <1>1, <1>4 DEF Filled
<1>6. id \in DOMAIN files
  BY <1>1, <1>2, <1>5 DEF OwnFile
<1>7. /\ Contents \in Nat /\ Part \in {2, 4} /\ Contents > Part
      /\ AfterFile \in {"contract", "call"}
      /\ AfterFile = "contract" <=> flow.kind = "contract"
  BY <1>2, <1>5, FlowNumbers
<1>8. added \in Int /\ (pieces = AppendChunks => added = rest)
  <2>1. AppendChunks = (rest + 3) \div 4 /\ AppendSize = 4
    BY <1>7 DEF AppendChunks, AppendSize
  <2>2. rest \in Int /\ rest > 0 /\ pieces \in Int
    BY <1>7, <2>1
  <2>3. ((rest + 3) \div 4) * 4 >= rest
    <3>1. \A r \in Int : ((r + 3) \div 4) * 4 >= r
      OBVIOUS
    <3> QED BY <2>2, <3>1
  <2> QED BY <2>1, <2>2, <2>3
<1>9. /\ files' \in Seq(File)
      /\ Len(files') = Len(files) /\ DOMAIN files' = DOMAIN files
      /\ \A i \in DOMAIN files : i # id => files'[i] = files[i]
      /\ files'[id].deleted = files[id].deleted
      /\ files'[id].length = Part + added
  <2> HIDE DEF id, added
  <2>1. files[id] \in File
    BY <1>2, <1>6
  <2>2. [files[id] EXCEPT !.length = @ + added] \in File
    BY <1>8, <2>1 DEF File
  <2> QED BY <1>2, <1>4, <1>5, <1>6, <2>1, <2>2 DEF File
<1>10. /\ step' \in [Executions -> Steps]
       /\ step'[e] \in {"rejected", AfterFile}
       /\ step'[e] # "rejected" => pieces = AppendChunks
       /\ \A f \in Executions : f # e => step'[f] = step[f]
  <2>1. AfterFile \in Steps /\ {"done", "failed"} \subseteq Outcome
    BY <1>7 DEF Steps, Outcome
  <2>2. CASE pieces = AppendChunks /\ Goto(e, "done", AfterFile)
    BY <1>1, <2>1, <2>2, Moves
  <2>3. CASE Goto(e, "failed", AfterFile)
    BY <1>1, <2>1, <2>3, Moves
  <2> QED BY <1>4, <2>2, <2>3
<1>11. FlowTyped'
  BY <1>1, <1>3, <1>9, <1>10 DEF FlowTyped
<1>12. OwnFile'
  BY <1>1, <1>3, <1>9 DEF OwnFile
<1>13. ASSUME NEW f \in Executions PROVE Filled(f)'
  <2>1. CASE f # e
    <3>1. fileId[f] # 0 => fileId[f] \in DOMAIN files /\ fileId[f] # id
      BY <1>1, <1>2, <2>1 DEF OwnFile
    <3> QED BY <1>1, <1>3, <1>9, <1>10, <2>1, <3>1
            DEF Filled, Ready, Contents, Longer, Part
  <2>2. CASE f = e
    <3>1. step'[e] # "rejected" => files'[id].length = Contents
      <4> HIDE DEF added
      <4> QED BY <1>7, <1>8, <1>9, <1>10
    <3>2. Contents' = Contents
      BY <1>3 DEF Contents
    <3> HIDE DEF id
    <3> QED BY <1>3, <1>5, <1>7, <1>10, <2>2, <3>1, <3>2
            DEF Filled, Ready, id
  <2> QED BY <2>1, <2>2
<1>14. OneWholeContract' /\ CallDataCarried'
  BY <1>1, <1>3 DEF OneWholeContract, CallDataCarried, Contents, Longer,
     Part
<1>15. Deleted'
  <2> SUFFICES ASSUME flow.kind = "contract" PROVE Deleted'
    BY <1>3, Zenon DEF Deleted
  <2>1. \A i \in DOMAIN files : files'[i].deleted = files[i].deleted
    BY <1>9
  <2>2. ASSUME NEW i \in DOMAIN files', files'[i].deleted
        PROVE  contracts' # <<>>
    BY <1>1, <1>3, <1>9, <2>1, <2>2, Zenon DEF Deleted
  <2>3. ASSUME NEW f \in Executions, step'[f] = "resolved", flow'.key
        PROVE  fileId'[f] # 0 /\ files'[fileId'[f]].deleted
    <3>1. step[f] = "resolved" /\ flow.key
      BY <1>3, <1>7, <1>10, <2>3
    <3>2. fileId[f] # 0 /\ files[fileId[f]].deleted
      BY <1>1, <3>1, Zenon DEF Deleted
    <3>3. fileId[f] \in DOMAIN files
      BY <1>1, <1>2, <3>2 DEF OwnFile
    <3> QED BY <1>3, <2>1, <3>2, <3>3, Zenon
  <2> QED BY <2>2, <2>3, Zenon DEF Deleted
<1>16. CodeFile'
  <2> SUFFICES ASSUME bytecodeFile # 0 PROVE CodeFile'
    BY <1>3 DEF CodeFile
  <2>1. bytecodeFile \in DOMAIN files /\ bytecodeFile # id
    BY <1>1, <1>2, <1>4 DEF CodeFile, FlowTyped
  <2>2. \A f \in Executions : step'[f] = "append" => step[f] = "append"
    BY <1>7, <1>10
  <2> QED BY <1>1, <1>3, <1>9, <2>1, <2>2 DEF CodeFile
<1> QED BY <1>11, <1>12, <1>13, <1>14, <1>15, <1>16 DEF FlowInv

\* The file cannot be filled: the execution is rejected.
LEMMA AppendTooLongKeeps ==
  ASSUME FlowInv, NEW e \in Executions, AppendTooLong(e)
  PROVE  FlowInv'
<1>1. FlowTyped /\ CodeFile /\ OneWholeContract /\ CallDataCarried
  BY DEF FlowInv
<1>2. UNCHANGED <<flow, callData, frozen, bytecodeFile, fileId, files, contracts, calls>>
      /\ Goto(e, "failed", AfterFile)
  BY DEF AppendTooLong
<1>3. AfterFile \in Steps /\ "failed" \in Outcome
  BY <1>1, FlowNumbers DEF FlowTyped, Steps, Outcome
<1>4. /\ step' \in [Executions -> Steps] /\ step'[e] = "rejected"
      /\ \A f \in Executions : f # e => step'[f] = step[f]
  BY <1>1, <1>2, <1>3, Moves
<1>5. OwnFile' /\ (\A f \in Executions : Filled(f)') /\ CodeFile' /\ Deleted'
  BY <1>2, <1>4, FilesKeep
<1>6. FlowTyped'
  BY <1>1, <1>2, <1>4 DEF FlowTyped
<1>7. OneWholeContract' /\ CallDataCarried'
  BY <1>1, <1>2 DEF OneWholeContract, CallDataCarried, Contents, Longer,
     Part
<1> QED BY <1>5, <1>6, <1>7 DEF FlowInv

\* setBytecodeFileId() throws: the execution is rejected.
LEMMA CreateImmutableKeeps ==
  ASSUME FlowInv, NEW e \in Executions, CreateImmutable(e)
  PROVE  FlowInv'
<1>1. FlowTyped /\ CodeFile /\ OneWholeContract /\ CallDataCarried
  BY DEF FlowInv
<1>2. UNCHANGED <<flow, callData, frozen, bytecodeFile, fileId, files, contracts, calls>>
      /\ Goto(e, "failed", "resolved")
  BY DEF CreateImmutable
<1>3. "resolved" \in Steps /\ "failed" \in Outcome
  BY DEF Steps, Outcome
<1>4. /\ step' \in [Executions -> Steps] /\ step'[e] = "rejected"
      /\ \A f \in Executions : f # e => step'[f] = step[f]
  BY <1>1, <1>2, <1>3, Moves
<1>5. OwnFile' /\ (\A f \in Executions : Filled(f)') /\ CodeFile' /\ Deleted'
  BY <1>2, <1>4, FilesKeep
<1>6. FlowTyped'
  BY <1>1, <1>2, <1>4 DEF FlowTyped
<1>7. OneWholeContract' /\ CallDataCarried'
  BY <1>1, <1>2 DEF OneWholeContract, CallDataCarried, Contents, Longer,
     Part
<1> QED BY <1>5, <1>6, <1>7 DEF FlowInv

\* The file of the execution is set, which is full.
LEMMA SetBytecodeFileKeeps ==
  ASSUME FlowInv, NEW e \in Executions, SetBytecodeFile(e)
  PROVE  FlowInv'
<1> DEFINE next == IF flow.signer THEN "populate" ELSE "send"
<1>1. FlowTyped /\ OneWholeContract /\ CallDataCarried
  BY DEF FlowInv
<1>2. UNCHANGED <<flow, callData, fileId, files, contracts, calls>>
      /\ step[e] = "contract" /\ bytecodeFile' = fileId[e] /\ frozen' \in BOOLEAN
      /\ Goto(e, "done", next)
  BY DEF SetBytecodeFile
<1>3. next \in Steps /\ next \in {"populate", "send"} /\ "done" \in Outcome
  BY DEF Steps, Outcome
<1>4. /\ step' \in [Executions -> Steps]
      /\ step'[e] \in {"populate", "send", "rejected"}
      /\ \A f \in Executions : f # e => step'[f] = step[f]
  <2> HIDE DEF next
  <2> QED BY <1>1, <1>2, <1>3, Moves
<1>5. OwnFile' /\ (\A f \in Executions : Filled(f)') /\ CodeFile' /\ Deleted'
  BY <1>2, <1>4, FilesKeep
<1>6. FlowTyped'
  <2>1. bytecodeFile' \in Nat
    BY <1>1, <1>2 DEF FlowTyped
  <2> QED BY <1>1, <1>2, <1>4, <2>1 DEF FlowTyped
<1>7. OneWholeContract' /\ CallDataCarried'
  BY <1>1, <1>2 DEF OneWholeContract, CallDataCarried, Contents, Longer, Part
<1> QED BY <1>5, <1>6, <1>7 DEF FlowInv

\* The signer answers, and freeze() follows, or it rejects.
LEMMA PopulateKeeps ==
  ASSUME FlowInv, NEW e \in Executions, Populated(e) \/ PopulateRejects(e)
  PROVE  FlowInv'
<1>1. FlowTyped /\ OneWholeContract /\ CallDataCarried
  BY DEF FlowInv
<1>2. UNCHANGED <<flow, callData, bytecodeFile, fileId, files, contracts, calls>>
      /\ step[e] = "populate" /\ frozen' \in BOOLEAN
  BY <1>1 DEF Populated, PopulateRejects, FlowTyped
<1>3. /\ step' \in [Executions -> Steps] /\ step'[e] \in {"send", "rejected"}
      /\ \A f \in Executions : f # e => step'[f] = step[f]
  <2>1. "send" \in Steps /\ {"done", "failed"} \subseteq Outcome
    BY DEF Steps, Outcome
  <2>2. CASE Goto(e, "done", "send")
    BY <1>1, <2>1, <2>2, Moves
  <2>3. CASE Goto(e, "failed", "send")
    BY <1>1, <2>1, <2>3, Moves
  <2> QED BY <2>2, <2>3 DEF Populated, PopulateRejects
<1>4. OwnFile' /\ (\A f \in Executions : Filled(f)') /\ CodeFile' /\ Deleted'
  BY <1>2, <1>3, FilesKeep
<1>5. FlowTyped'
  BY <1>1, <1>2, <1>3 DEF FlowTyped
<1>6. OneWholeContract' /\ CallDataCarried'
  BY <1>1, <1>2 DEF OneWholeContract, CallDataCarried, Contents, Longer, Part
<1> QED BY <1>4, <1>5, <1>6 DEF FlowInv

\* The contract is the first, and the file that is set is full.
LEMMA SendContractKeeps ==
  ASSUME FlowInv, NEW e \in Executions, NEW answered \in Outcome,
         SendContract(e, answered)
  PROVE  FlowInv'
<1> DEFINE code == files[bytecodeFile].length
           next == IF flow.key THEN "delete" ELSE "resolved"
<1>1. FlowTyped /\ OwnFile /\ (\A f \in Executions : Filled(f))
      /\ CodeFile /\ OneWholeContract /\ CallDataCarried
  BY DEF FlowInv
<1>2. flow \in Flow /\ contracts \in Seq(Int)
  BY <1>1 DEF FlowTyped
<1>3. UNCHANGED <<flow, callData, frozen, bytecodeFile, fileId, files, calls>>
  BY DEF SendContract
<1>4. /\ step[e] = "send"
      /\ contracts' = IF answered = "failed" \/ contracts # <<>> THEN contracts
                      ELSE <<code>>
      /\ Goto(e, answered, next)
  BY DEF SendContract
<1>5. flow.kind = "contract" /\ code = flow.length
  BY <1>1, <1>4 DEF Filled, CodeFile
<1>6. code \in Int
  BY <1>2, <1>5, FlowNumbers
<1>7. next \in Steps /\ next \in {"delete", "resolved"}
  BY DEF Steps
<1>8. /\ contracts' \in Seq(Int)
      /\ Len(contracts') <= 1 /\ \A i \in DOMAIN contracts' : contracts'[i] = flow.length
      /\ answered # "failed" => contracts' # <<>>
      /\ contracts # <<>> => contracts' # <<>>
  <2> HIDE DEF code
  <2>1. CASE answered = "failed" \/ contracts # <<>>
    BY <1>1, <1>2, <1>4, <1>5, <2>1 DEF OneWholeContract
  <2>2. CASE ~ (answered = "failed" \/ contracts # <<>>)
    BY <1>4, <1>5, <1>6, <2>2
  <2> QED BY <2>1, <2>2
<1>9. /\ step' \in [Executions -> Steps] /\ step'[e] \in {"rejected", next}
      /\ answered # "done" => step'[e] = "rejected"
      /\ \A f \in Executions : f # e => step'[f] = step[f]
  BY <1>1, <1>4, <1>7, Moves
<1>10. OwnFile' /\ (\A f \in Executions : Filled(f)') /\ CodeFile' /\ Deleted'
  <2>1. step'[e] \in {"delete", "resolved", "rejected"}
    BY <1>7, <1>9
  <2>2. step'[e] = "delete" => step[e] = "send" /\ contracts' # <<>>
    BY <1>4, <1>8, <1>9
  <2>3. step'[e] = "resolved" => flow.kind # "contract" \/ ~flow.key
    BY <1>9
  <2> HIDE DEF next, code
  <2> QED BY <1>3, <1>8, <1>9, <2>1, <2>2, <2>3, FilesKeep
<1>11. FlowTyped'
  BY <1>1, <1>3, <1>4, <1>8, <1>9 DEF FlowTyped
<1>12. OneWholeContract'
  BY <1>3, <1>8 DEF OneWholeContract
<1>13. CallDataCarried'
  BY <1>3, <1>5 DEF CallDataCarried
<1> QED BY <1>10, <1>11, <1>12, <1>13 DEF FlowInv

\* The file of an execution whose contract exists is deleted.
LEMMA DeleteFileKeeps ==
  ASSUME FlowInv, NEW e \in Executions, NEW answered \in Outcome,
         DeleteFile(e, answered)
  PROVE  FlowInv'
<1> DEFINE id == fileId[e]
<1>1. FlowTyped /\ OwnFile /\ (\A f \in Executions : Filled(f))
      /\ CodeFile /\ OneWholeContract /\ Deleted /\ CallDataCarried
  BY DEF FlowInv
<1>2. flow \in Flow /\ fileId \in [Executions -> Nat] /\ files \in Seq(File)
  BY <1>1 DEF FlowTyped
<1>3. UNCHANGED <<flow, callData, frozen, bytecodeFile, fileId, contracts, calls>>
  BY DEF DeleteFile
<1>4. /\ step[e] = "delete"
      /\ files' = IF answered = "failed" THEN files
                  ELSE [files EXCEPT ![id].deleted = TRUE]
      /\ Goto(e, answered, "resolved")
  BY DEF DeleteFile
<1>5. id # 0 /\ flow.kind = "contract" /\ contracts # <<>>
  BY <1>1, <1>4 DEF Filled
<1>6. id \in DOMAIN files
  BY <1>1, <1>2, <1>5 DEF OwnFile
<1>7. /\ files' \in Seq(File)
      /\ Len(files') = Len(files) /\ DOMAIN files' = DOMAIN files
      /\ \A i \in DOMAIN files : i # id => files'[i] = files[i]
      /\ files'[id].length = files[id].length
      /\ answered # "failed" => files'[id].deleted = TRUE
  <2> HIDE DEF id
  <2>1. files[id] \in File
    BY <1>2, <1>6
  <2>2. CASE answered = "failed"
    BY <1>2, <1>4, <2>2
  <2>3. CASE answered # "failed"
    <3> DEFINE new == [files[id] EXCEPT !.deleted = TRUE]
    <3>1. new \in File /\ new.length = files[id].length /\ new.deleted = TRUE
      BY <2>1 DEF File
    <3>2. files' = [files EXCEPT ![id] = new]
      BY <1>4, <2>3, Zenon
    <3> HIDE DEF new
    <3> QED BY <1>2, <1>6, <3>1, <3>2
  <2> QED BY <2>2, <2>3
<1>8. /\ step' \in [Executions -> Steps]
      /\ step'[e] \in {"rejected", "resolved"}
      /\ answered # "done" => step'[e] = "rejected"
      /\ \A f \in Executions : f # e => step'[f] = step[f]
  <2>1. "resolved" \in Steps
    BY DEF Steps
  <2> QED BY <1>1, <1>4, <2>1, Moves
<1>9. FlowTyped'
  BY <1>1, <1>3, <1>7, <1>8 DEF FlowTyped
<1>10. OwnFile'
  BY <1>1, <1>3, <1>7 DEF OwnFile
<1>11. ASSUME NEW f \in Executions PROVE Filled(f)'
  <2>1. CASE f # e
    <3>1. fileId[f] # 0 => fileId[f] \in DOMAIN files /\ fileId[f] # id
      BY <1>1, <1>2, <2>1 DEF OwnFile
    <3> QED BY <1>1, <1>3, <1>7, <1>8, <2>1, <3>1
            DEF Filled, Ready, Contents, Longer, Part
  <2>2. CASE f = e
    BY <1>8, <2>2 DEF Filled
  <2> QED BY <2>1, <2>2
<1>12. OneWholeContract' /\ CallDataCarried'
  BY <1>1, <1>3 DEF OneWholeContract, CallDataCarried, Contents, Longer,
     Part
<1>13. Deleted'
  <2>1. contracts' # <<>>
    BY <1>3, <1>5
  <2>2. ASSUME NEW f \in Executions, step'[f] = "resolved", flow'.key
        PROVE  fileId'[f] # 0 /\ files'[fileId'[f]].deleted
    <3>1. CASE f = e
      <4>1. answered = "done"
        BY <1>8, <2>2, <3>1
      <4> QED BY <1>3, <1>5, <1>7, <3>1, <4>1
    <3>2. CASE f # e
      <4>1. step[f] = "resolved" /\ flow.key
        BY <1>3, <1>8, <2>2, <3>2
      <4>2. fileId[f] # 0 /\ files[fileId[f]].deleted
        BY <1>1, <1>5, <4>1, Zenon DEF Deleted
      <4>3. fileId[f] \in DOMAIN files /\ fileId[f] # id
        BY <1>1, <1>2, <3>2, <4>2 DEF OwnFile
      <4> QED BY <1>3, <1>7, <4>2, <4>3
    <3> QED BY <3>1, <3>2
  <2> QED BY <2>1, <2>2, Zenon DEF Deleted
<1>14. CodeFile'
  <2> SUFFICES ASSUME bytecodeFile # 0 PROVE CodeFile'
    BY <1>3 DEF CodeFile
  <2>1. bytecodeFile \in DOMAIN files
    BY <1>1, <1>2 DEF CodeFile, FlowTyped
  <2>2. files'[bytecodeFile].length = files[bytecodeFile].length
    BY <1>7, <2>1
  <2>3. \A f \in Executions : step'[f] = "append" => step[f] = "append"
    BY <1>8
  <2> QED BY <1>1, <1>3, <1>7, <2>2, <2>3 DEF CodeFile
<1> QED BY <1>9, <1>10, <1>11, <1>12, <1>13, <1>14 DEF FlowInv

\* The call data goes with the transaction, or was emptied before.
LEMMA CallInlineKeeps ==
  ASSUME FlowInv, NEW e \in Executions, NEW answered \in Outcome,
         CallInline(e, answered)
  PROVE  FlowInv'
<1> DEFINE carried == [inline |-> callData, text |-> 0]
<1>1. FlowTyped /\ OwnFile /\ (\A f \in Executions : Filled(f))
      /\ CodeFile /\ OneWholeContract /\ CallDataCarried
  BY DEF FlowInv
<1>2. /\ flow \in Flow /\ fileId \in [Executions -> Nat]
      /\ files \in Seq(File) /\ calls \in Seq(Carried)
      /\ callData \in {0, flow.length}
  BY <1>1 DEF FlowTyped
<1>3. UNCHANGED <<flow, frozen, bytecodeFile, fileId, files, contracts>>
      /\ callData' = callData
  BY DEF CallInline
<1>4. /\ flow.kind = "ethereum" /\ step[e] = "new"
      /\ calls' = IF answered = "failed" THEN calls ELSE Append(calls, carried)
      /\ Goto(e, answered, "resolved")
  BY DEF CallInline, SendCall
<1>5. carried \in Carried
  BY <1>2, FlowNumbers DEF Carried
<1>6. \/ carried.inline = flow.length
      \/ carried = [inline |-> 0, text |-> 0] /\ callData = 0
  BY <1>2
<1>7. /\ step' \in [Executions -> Steps]
      /\ step'[e] \in {"rejected", "resolved"}
      /\ \A f \in Executions : f # e => step'[f] = step[f]
  <2>1. "resolved" \in Steps
    BY DEF Steps
  <2> QED BY <1>1, <1>4, <2>1, Moves
<1>8. OwnFile' /\ (\A f \in Executions : Filled(f)') /\ CodeFile' /\ Deleted'
  BY <1>3, <1>4, <1>7, FilesKeep
<1>9. /\ calls' \in Seq(Carried)
      /\ \A i \in DOMAIN calls' :
           (i \in DOMAIN calls /\ calls'[i] = calls[i]) \/ calls'[i] = carried
  <2> HIDE DEF carried
  <2> QED BY <1>2, <1>4, <1>5
<1>10. FlowTyped'
  BY <1>1, <1>3, <1>7, <1>9 DEF FlowTyped
<1>11. OneWholeContract'
  BY <1>1, <1>3 DEF OneWholeContract
<1>12. CallDataCarried'
  <2>1. UNCHANGED <<Contents, Longer>>
    BY <1>3 DEF Contents, Longer, Part
  <2>2. ASSUME NEW i \in DOMAIN calls'
        PROVE  \/ calls'[i].inline = flow'.length
               \/ calls'[i].text = Contents'
               \/ calls'[i].text = CallPart /\ Contents' > CallPart /\ ~Longer'
               \/ calls'[i] = [inline |-> 0, text |-> 0] /\ callData' = 0
    <3>1. CASE i \in DOMAIN calls /\ calls'[i] = calls[i]
      BY <1>1, <1>3, <1>4, <2>1, <3>1, Zenon DEF CallDataCarried
    <3>2. CASE calls'[i] = carried
      BY <1>3, <1>6, <2>1, <3>2, Zenon
    <3> QED BY <1>9, <3>1, <3>2
  <2> QED BY <2>2, Zenon DEF CallDataCarried
<1> QED BY <1>8, <1>10, <1>11, <1>12 DEF FlowInv

\* The call data is in the file.
LEMMA CallWithFileKeeps ==
  ASSUME FlowInv, NEW e \in Executions, NEW answered \in Outcome,
         CallWithFile(e, answered)
  PROVE  FlowInv'
<1> DEFINE carried == [inline |-> 0, text |-> files[fileId[e]].length]
<1>1. FlowTyped /\ OwnFile /\ (\A f \in Executions : Filled(f))
      /\ CodeFile /\ OneWholeContract /\ CallDataCarried
  BY DEF FlowInv
<1>2. /\ flow \in Flow /\ fileId \in [Executions -> Nat]
      /\ files \in Seq(File) /\ calls \in Seq(Carried)
      /\ callData \in {0, flow.length}
  BY <1>1 DEF FlowTyped
<1>3. UNCHANGED <<flow, frozen, bytecodeFile, fileId, files, contracts>>
      /\ callData' = 0
  BY DEF CallWithFile
<1>4. /\ flow.kind = "ethereum" /\ step[e] = "call"
      /\ calls' = IF answered = "failed" THEN calls ELSE Append(calls, carried)
      /\ Goto(e, answered, "resolved")
  BY DEF CallWithFile, SendCall
<1>5. carried \in Carried
  <2>1. fileId[e] # 0
    BY <1>1, <1>4 DEF Filled
  <2>2. fileId[e] \in DOMAIN files
    BY <1>1, <1>2, <2>1 DEF OwnFile
  <2>3. files[fileId[e]] \in File
    BY <1>2, <2>2
  <2>4. files[fileId[e]].length \in Int
    BY <2>3 DEF File
  <2> QED BY <2>4 DEF Carried
<1>6. \/ carried.text = Contents
      \/ carried.text = CallPart /\ Contents > CallPart /\ ~Longer
  BY <1>1, <1>4 DEF Filled, Ready
<1>7. /\ step' \in [Executions -> Steps]
      /\ step'[e] \in {"rejected", "resolved"}
      /\ \A f \in Executions : f # e => step'[f] = step[f]
  <2>1. "resolved" \in Steps
    BY DEF Steps
  <2> QED BY <1>1, <1>4, <2>1, Moves
<1>8. OwnFile' /\ (\A f \in Executions : Filled(f)') /\ CodeFile' /\ Deleted'
  BY <1>3, <1>4, <1>7, FilesKeep
<1>9. /\ calls' \in Seq(Carried)
      /\ \A i \in DOMAIN calls' :
           (i \in DOMAIN calls /\ calls'[i] = calls[i]) \/ calls'[i] = carried
  <2> HIDE DEF carried
  <2> QED BY <1>2, <1>4, <1>5
<1>10. FlowTyped'
  BY <1>1, <1>3, <1>7, <1>9 DEF FlowTyped
<1>11. OneWholeContract'
  BY <1>1, <1>3 DEF OneWholeContract
<1>12. CallDataCarried'
  <2>1. UNCHANGED <<Contents, Longer>>
    BY <1>3 DEF Contents, Longer, Part
  <2>2. ASSUME NEW i \in DOMAIN calls'
        PROVE  \/ calls'[i].inline = flow'.length
               \/ calls'[i].text = Contents'
               \/ calls'[i].text = CallPart /\ Contents' > CallPart /\ ~Longer'
               \/ calls'[i] = [inline |-> 0, text |-> 0] /\ callData' = 0
    <3>1. CASE i \in DOMAIN calls /\ calls'[i] = calls[i]
      BY <1>1, <1>3, <1>4, <2>1, <3>1, Zenon DEF CallDataCarried
    <3>2. CASE calls'[i] = carried
      BY <1>3, <1>6, <2>1, <3>2, Zenon
    <3> QED BY <1>9, <3>1, <3>2
  <2> QED BY <2>2, Zenon DEF CallDataCarried
<1> QED BY <1>8, <1>10, <1>11, <1>12 DEF FlowInv

\* Every step of a flow keeps the invariant.
LEMMA FlowStep ==
  ASSUME FlowInv, [FlowNext]_flowVars
  PROVE  FlowInv'
<1>1. CASE FlowNext
  <2>1. PICK e \in Executions :
          \/ \E answered \in Outcome :
               \/ CreateFile(e, answered) \/ SendContract(e, answered)
               \/ DeleteFile(e, answered) \/ CallInline(e, answered)
               \/ CallWithFile(e, answered)
          \/ \E pieces \in 0..AppendChunks : AppendFile(e, pieces)
          \/ AppendTooLong(e) \/ CreateImmutable(e)
          \/ SetBytecodeFile(e) \/ Populated(e) \/ PopulateRejects(e)
    BY <1>1 DEF FlowNext
  <2> QED BY <2>1, CreateFileKeeps, SetBytecodeFileKeeps, PopulateKeeps,
             SendContractKeeps, DeleteFileKeeps,
             CallInlineKeeps, CallWithFileKeeps, AppendFileKeeps,
             AppendTooLongKeeps, CreateImmutableKeeps
<1>2. CASE UNCHANGED flowVars
  <2>1. UNCHANGED <<flow, callData, frozen, bytecodeFile, step, fileId, files, contracts,
                    calls>>
    BY <1>2 DEF flowVars
  <2>2. FlowTyped' /\ OwnFile'
    BY <2>1 DEF FlowInv, FlowTyped, OwnFile
  <2>3. (\A e \in Executions : Filled(e))'
    BY <2>1 DEF FlowInv, Filled, Ready, Contents, Longer, Part
  <2>4. CodeFile' /\ OneWholeContract' /\ Deleted' /\ CallDataCarried'
    BY <2>1 DEF FlowInv, CodeFile, OneWholeContract, Deleted, CallDataCarried,
       Contents, Longer, Part
  <2> QED BY <2>2, <2>3, <2>4 DEF FlowInv
<1> QED BY <1>1, <1>2

\* However often ContractCreateFlow.execute() is called, and whatever fails or
\* is lost on the way, there is at most one contract, with the whole bytecode.
THEOREM ContractCorrect == FlowSpec => []OneWholeContract
<1>1. FlowInv => OneWholeContract
  BY DEF FlowInv
<1> QED BY <1>1, FlowStart, FlowStep, PTL DEF FlowSpec

\* ContractCreateFlow deletes a file only when its contract exists, and an
\* execution that resolved has deleted its file if there is a key to do it.
THEOREM FilesCorrect == FlowSpec => []FilesCleanedUp
<1>1. FlowInv => FilesCleanedUp
  BY DEF FlowInv, Deleted, FilesCleanedUp
<1> QED BY <1>1, FlowStart, FlowStep, PTL DEF FlowSpec

\* EthereumFlow loses call data only where createFile() compares bytes with
\* characters, and when it is executed again.
THEOREM CallDataCorrect == FlowSpec => []CallDataCarried
<1>1. FlowInv => CallDataCarried
  BY DEF FlowInv
<1> QED BY <1>1, FlowStart, FlowStep, PTL DEF FlowSpec
=============================================================================
