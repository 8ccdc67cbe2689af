# A TLA+ verification project for u2u-sdk-js

The repository is a JavaScript SDK: it turns transactions and queries into gRPC
calls to the nodes of a network and streams data from mirror nodes.  This
directory holds TLA+ models of the parts that carry its logic, TLC
configurations that check them on small instances, and TLAPS proofs of the most
important properties for every size.

Paths such as `client/ManagedNetwork.js` are relative to `src/src/`.

## 1. Inventory

| component | state it keeps | operations | hard behaviour |
| --- | --- | --- | --- |
| node pool: `client/ManagedNetwork.js`, `client/Network.js`, `ManagedNode.js` | list of nodes, list of healthy nodes, map from account to nodes, counter of unhealthy nodes, earliest readmit time; per node a backoff and a readmit time | `setNetwork`, `getNode`, `increaseBackoff`, `decreaseBackoff`, `setTransportSecurity`, backoff setters, `close` | five pieces of state describe the same set and are updated by different methods; nodes are replaced while requests hold them |
| retry loop: `Executable.js` | attempt, index in the list of node account IDs, the chosen node, three timers | `execute` | awaits between choosing a node and using it; several requests share one pool; deadline races the answer |
| `transaction/Transaction.js`, `transaction/List.js` | lockable lists of transaction IDs and node IDs, protobuf caches, signer keys | `freezeWith`, `sign`, `signWith`, `addSignature`, `execute` hooks, `toBytes` | caches that must be invalidated, asynchronous signers, expiry and regeneration |
| transactions of entities: 38 classes under `account/`, `token/`, `contract/`, `file/`, `topic/`, `schedule/`, `system/` | one field per property | constructor, setters, `freezeWith`, `toBytes`, `fromBytes`, the call | a field has four forms (property, field, message, bytes), converted by four methods per class |
| `account/TransferTransaction.js`, the allowance transactions | lists that calls are merged into | `add…`, `approve…`, the body and back | merging, sorting and grouping depend on the order of the calls |
| answers: infos, rates, fees, results, receipts, records | one object per answer | `_fromProtobuf`, `_toProtobuf`, `toBytes` | what is dropped, wraps, or cannot be read back |
| `contract/ContractFunctionParameters.js`, `ContractFunctionSelector.js`, `ContractFunctionResult.js` | arguments, types of the signature | `add…`, `_build`, `get…` | offsets of dynamic arguments; an `add…` that throws half-way |
| queries: `query/Query.js`, `query/CostQuery.js`, 17 classes | fields; payment transactions, one per node, and an index | setters, `_beforeExecute`, `_makeRequestAsync`, `_shouldRetry` | payments are pushed one by one between awaits |
| `transaction/TransactionResponse.js` with the receipt and record queries | the query in hand | `getReceipt`, `getRecord`, `getVerboseRecord` | which of a node's many statuses mean wait, success or failure |
| chunked transactions: `file/FileAppendTransaction.js`, `topic/TopicMessageSubmitTransaction.js` | contents, chunk size, position in three parallel lists | `freezeWith`, `executeAll` | chunk k fails, or its answer is lost, after k-1 were accepted |
| flows: `contract/ContractCreateFlow.js`, `EthereumFlow.js` | the parts of several transactions | `execute` | one step of several fails; the flow is executed again |
| `topic/TopicMessageQuery.js`, `network/AddressBookQuery.js` | attempt, limit, start time, pending chunks | `subscribe`, `execute`, reconnection | resuming a stream without losing or repeating messages; cancelling while a reconnection timer runs |
| `client/Client.js` | network, timer of the periodic update, operator, settings | `setNetwork`, `setNetworkUpdatePeriod`, `close` | an update in flight when the period changes or the client is closed |
| channels, keys and cryptography, wallet and signer, status tables | none or pure data | I/O, mathematics | little control |

Components call each other downwards: a flow executes transactions, a
transaction is an `Executable`, an `Executable` asks the client's network for a
node and reports failures and answers to it; the client's timer replaces the
network under running requests.  JavaScript runs one turn at a time, so the
actors of every model are promises, timers and callbacks, and a step of a model
is the code between two awaits.

## 2. Modules and the code they model

| module | models | built on |
| --- | --- | --- |
| `ManagedNetwork` | the node pool: `client/ManagedNetwork.js`, `client/Network.js`, `ManagedNode.js` | |
| `Executable` | `Executable.execute()` of several requests over one pool | extends `ManagedNetwork`, instantiates `Promises` |
| `Promises` | what `execute()` promises to its callers: the abstract specification of the loop | |
| `List`, `Transaction` | `transaction/List.js`; one `transaction/Transaction.js` object | `Transaction` extends `List` |
| `TopicMessageQuery` | one subscription: `topic/TopicMessageQuery.js`, `TopicMessage.js`, `SubscriptionHandle.js` | |
| `NetworkUpdate` | the update timers of `client/Client.js` and `network/AddressBookQuery.js` | |
| `Wire` | what the protobuf library does to a field (external), and what the classes share | |
| `AccountTransactions`, `TokenTransactions`, `ContractTransactions`, `FileTransactions`, `SystemTransactions` | the parts of each class of transaction | extend `Wire` |
| `EntityTransactions` | one transaction of any class, from its constructor to the call | extends those five |
| `Transfers`, `Allowances` | `account/TransferTransaction.js`; the approving and the withdrawing allowance transaction | |
| `EntityAnswers`, `NetworkAnswers` | the parts of each class of answer | extend `Wire` |
| `Answers` | one answer of any class: decoded, written to bytes and read back | extends those two |
| `ContractAbi` | the layout of the arguments of a contract call, and the getters of a result | |
| `EntityQueries`, `Queries` | the parts of each class of query; one query of any class | `Queries` extends `EntityQueries` |
| `QueryPayments` | `Query._beforeExecute()` and the cost query, several executions of one query | extends `List` |
| `TransactionResponses` | the wait for a receipt or a record | |
| `ChunkedTransactions` | `executeAll()` of the two chunked transactions | extends `List` |
| `Flows` | `ContractCreateFlow` and `EthereumFlow` | |
| `*Proofs` | theorems about the module they are named after; `ExecutableProofs` is also about `ManagedNetwork`, `QueryPaymentsProofs` also about `Queries`; `OutcomeProofs` is about `TransactionResponses`, `ChunkedTransactions` and `Flows`, `LayoutProofs` about `Transfers` and `ContractAbi`, `ConversionsProofs` about `EntityTransactions`, `Allowances` and `Answers` | extend them |
| `MC*` | the constants of TLC's instances; `MCRequests` puts ten components that share no state side by side in one run | extend the module |

Operators keep the names of the methods.  An operator whose name ends in an
underscore and a word (`Readmitted_Early`, `Pay_NotLast`) is a wrong variant of
the operator it stands before: exchanging the two must break a property.

**ManagedNetwork.**  `_nodes` and `_healthyNodes` are sets, because the code
shuffles them or picks at random.  Of the lists in the map `_network` only the
first element is ever read: `network` is the set of nodes in the map and
`first[k]` the head of a list.  A time is what is left until it is reached
(`readmitIn`, `readmitSweepIn`); `Tick` lets it pass.  `Node` is a set of
objects, each with an account and an address; a constructor returns one that
nothing refers to.  One action per method: the four outcomes of `getNode()`
(each begins with the sweep `_readmitNodes`), `IncreaseBackoff`,
`DecreaseBackoff`, `SetNetwork` and its half-way failure `SetNetworkThrows`,
`SetTransportSecurity`, the setters, `Close`.  Which nodes
`_getNumberOfMostHealthyNodes` collects is left out; its effect on the pool is
not.

**Executable and Promises.**  `running` names the request whose code is at work
between two awaits, during which nobody else moves.  A request goes through
`before` (the await of `_beforeExecute`), `loop` (the head of the loop),
`making` (the await of `_makeRequestAsync`), `calling` (the call raced with the
deadline), `delay` and `settled`.  The pool's part of a step is
`ManagedNetwork`'s own action.  What a subclass decides (how an answer is
judged, whether a request can be made) is a choice.  The loop stands between two
specifications and refines both: below it the pool (`UsesNetwork`), above it
`Promises` (`KeepsPromise`), in which there are no nodes, attempts and clocks,
only a call at a time, a limit on the calls and one result for good.

**Transaction.**  A protobuf transaction is a record of the node and the ID of
its body, one field that stands for all the setters, and the keys that signed.
`List` is the lockable list with its index.  Setters, `freezeWith`, `signWith`
(one step per signature, as each is awaited), `addSignature` (which freezes
before it looks whether the key is known), `toBytes`, `toBytesAsync` and the
hooks of the retry loop are actions; so are their failures.  `Uses` says which
clients the application passes to `freezeWith` and `execute` (it stays with one
way of signing), whether it awaits a call before it makes the next one, and
whether it may call `addSignature()` for a key that is known (`readds`).

**Transactions of entities, answers, queries.**  A class is a record of
operators: `XNew` (the constructor), `XSetters`, `XChecked` (the IDs that
`_validateChecksums` looks at), `XMake` (the message), `XFrom` (decoding) and
for answers `XMessage`, `XDecode`, `XEncode`.  `EntityTransactions`, `Answers`
and `Queries` are the state machines over all classes.  A field holds one of the
few values the code tells apart: unset, zero, a value, a negative one, an ID
with the checksum of another ledger, an alias, a time after January 2038.
`Wire` says what a protobuf field does with them: a scalar that is unset reads
back as zero, a message that is unset as nothing.  What the decoders lose is
written down as data (`Lossy`, `Loose`, `LostFields`, `Faded`, `Unasked`,
`Forgotten`, `Unchecked`): the properties say that these are the only
exceptions.  `TransactionRegistry`, `QueryRegistry` and `AnswerClasses` are all
classes; which of them an instance is about is a constant.  The token transfers
of a record are counted by token and kind, which is all that their readers tell
apart.  Fields of one protobuf choice are compared as they are encoded: the node
keeps the last one.  `AccountBalanceQuery` has two such setters that do not clear
each other (`AccountBalanceQuery.js:114`, `:138`); with both set it asks for the
contract's balance (`Displaced`).

**Transfers, Allowances, ContractAbi.**  The lists with their merges and sorts
as the code performs them; the properties compare the body with a history of the
calls (`asked`, `requested`, `added`), for instance by adding up amounts or by
reading the words of a call the way a contract does.  `Sorts` gives the stable
arrangement by an order.  Approvals may be set at any time, as the methods that
set them are not guarded.  `addTokenTransferWithDecimals()` checks the decimals
entry by entry in the loop that changes them, so a call that throws may leave
the earlier entries of the token changed (`AddThrows`,
`account/TransferTransaction.js:309`).  A `function` argument is 24 bytes that the
code puts at the end of the word and the ABI reads from its front
(`contract/ContractFunctionParameters.js:1709`): what a contract finds is `Found`,
which for this type is not `Expected`.

**QueryPayments.**  One query object and several `execute()` at the same time.
A payment is awaited node by node, so another execution can run between two
entries of `_paymentTransactions`.  `overlapped` and `interrupted` are history:
whether two executions prepared at the same time, whether a signer failed
half-way.  Numbers are compared as the code compares them, as 32-bit integers
(`IntRange`).

**TransactionResponses.**  The ledger decides once; a node may answer that it is
busy, that it does not know yet, or what happened.  Each of the two queries has
its own lists of statuses for retrying, finishing and failing.  `getVerboseRecord()`
asks for the receipt first and rejects with its status.

**ChunkedTransactions.**  `ids`, `chunks` and the nodes are the three lists whose
positions must agree.  A chunk is applied or not, and its answer arrives or not;
`executeAll()` may be called again; the network refuses an ID twice and a
nanosecond beyond the second.

**Flows.**  A step succeeds, fails without effect, or fails after the network
applied it.  Executions of one flow object follow each other or overlap.  They
share one contract transaction: `SetBytecodeFile` puts a file into it, which with
a client freezes it in the same turn; with a signer the code waits for
`populateTransaction()` first (`Populated`, `PopulateRejects`), and meanwhile
another execution may put its own file there.  All of them then send one
transaction ID, which the network applies once.

**TopicMessageQuery.**  A topic is a sequence of chunks and a consensus time a
position in it; one nanosecond more is the next position.  0 stands for a start
time or a limit that is not set.  Without a start time, the default, the mirror
node begins with what is published once the request has reached it (`Opens`);
a stream that breaks before its first chunk is then followed by one that begins
later still (`StartsOver`).  Streams are kept after they are over, each with the
incomplete messages it holds.  `begin`, `wanted` and `receivedBy` are history.
The application subscribes once per query object.

**NetworkUpdate.**  An update occupies a slot: a timer, then a query, between
broken streams a delay.  `timer` is `_timer`, the only timer `close()` can
clear.  The network is the set of its nodes here.  `setNetwork()` may throw when
some nodes that are not in the new network are closed and others are not
(`UpdateThrows`, `SetNetworkThrows`); what leads it there is `ManagedNetwork`'s.

## 3. What TLC checks

Twelve runs; seven pass, five show where the code departs from what its own
comments say.

| run | what it shows |
| --- | --- |
| `network_reconfigure` | `MapWithinNodes`: `getNode(key)` returns nodes of the current network only. `UnhealthyCountCovers`: the count is never too small. `NoEarlyReadmission`. |
| `network_readmission` | `BackoffAboveMinimum` through all setters; `EventuallyReadmitted`: a node that stops failing becomes healthy. |
| `network_update_throws` (violation) | `SetNetworkCompletes`: a node that was unhealthy at one `setNetwork` is not in the map; removing it at the next one throws with part of the nodes gone. |
| `executable_loop` | `UsesNetwork`: the loop implements `ManagedNetwork`. `KeepsPromise`: it implements `Promises`. `FailedNodeAvoided`. `StaleCallHarmless`: a call that ends on a node which was replaced meanwhile changes nothing for the nodes of the network. `Settles`: `execute()` settles, unless it waits for ever for a promise of somebody else or for a call without a gRPC deadline. |
| `transaction_signing` | `RequestsAgree`: what is sent to a node is what was frozen, with that node in its body. `SignaturesSent`, `BuiltFromSigned`, `RetriedElsewhere`. |
| `transaction_expired` (violation) | `ExpiredNotResent`: signing locks the ID, so an expired transaction is sent again unchanged. |
| `transaction_known_key` (violation) | `KnownKeysHaveSigned`: a key counts as having signed although its signer failed. |
| `topic_stream` | `DeliveredOnce`, `Assembled` (whole messages only, and every one that was sent whole and whose chunks came over one stream), `HandleCancelsStream`. `LimitConserved`: chunks received and limit add up, until the limit is zero and a reconnection asks for everything. `Resumes`: what is due arrives, with and without a start time. |
| `network_update` | `UpdateComplete`: an update installs a whole address book, or `setNetwork()` threw and only nodes that are not in the book are lost. `Quiesces`: after `close()` updates come to an end. |
| `network_update_stops` (violation) | `UpdatesContinue`: one failed update ends the chain for good. |
| `requests` | The transactions: `BodyAsGiven`, `SentAsFrozen`, `IdsChecked`; `TransfersFaithful`, `AllowancesFaithful`. `AnswersFaithful`; `CallFaithful` of a contract call; `QueriesFaithful`. Payments: `PaysTheNodeAsked`, `NotSentUnpaid`, `WithinMaximum`, `ChargedOnce`. `OutcomeTruthful`; `ChunksOrdered`, `ChunksSettled`; `OneWholeContract`, `FilesCleanedUp`, `CallDataCarried`. |
| `verbose_record` (violation) | `VerboseRecordReturned`: the record is not returned when the receipt's status is not OK, which `transaction/TransactionResponse.js:107` says; the promise rejects. |

`SignaturesSent` and `RetriedElsewhere` are about applications that await each
call (`uses.awaits`).

**Bounds.**  The pool: an account with two hosts, one of which can move to
another account, and a clone of each on the TLS port: the smallest pool in
which a list of the map loses its head or its last element and a clone is
cloned back.  Backoffs are one to three units, so that doubling, halving and
both limits are reached; `CountBound` stops the drift of the unhealthy count,
which new networks never reset.  The loop: a request with a list and a gRPC
deadline and one with neither, two nodes and a spare object for the account that
a new network removes and configures again (so that a call can end on a node
that was replaced), and two attempts, which is what it takes for one request to
back off the node another one has chosen; the delay may be zero
(`setMinBackoff(0)`, `Executable.js:233`), so that a second call fits into a
request timeout of one unit.  A transaction: two nodes, up to three keys, two
generated IDs (`MaxId`), two executions (`MaxExecutes`), at most three built
transactions (`MaxBuilt`).  The topic: two messages whose chunks mix and of
which one arrives out of order, one message of one chunk, one of which the
second chunk was never sent, two reconnections, no start time, the first
chunk and one in the middle of a message (`StartTimes`), no limit and
limits that cut a message in two or not.  The updates: two slots (`Slot`),
enough for a second chain, two address books that overlap, and a client that
starts with two nodes of neither, so that one can be closed before the other
throws.

The run `requests`: two fields of a transaction set at the same time (`MaxSets`)
and again, enough for one setter to undo another; four transfers (`MaxCalls`)
over three tokens, from which a token gets two groups; three allowances
(`MaxGrants`); two fields of an answer (`MaxFilled`); four arguments of a call
(`MaxArguments`), of no, one or two words.  Of the operations in steps: two
executions of a query (`Asker`) with two attempts (`MaxAsks`) over two or three
nodes, costs below and above the maximum and beyond the integer range; three
polls; contents of one to four chunks, at most three allowed, series of IDs that
cross the end of a second (shortened to `NanosPerSecond`), two runs of
`executeAll()`; bytecode and call data around every limit of the flows, in units
of a chunk's part, and two executions.

**Deadlock** is checked except in the transaction, topic, `requests` and
`verbose_record` models, whose bounded operations really end.

**Fairness.**  Weak fairness of a timer that is due and of a promise that has
settled: the event loop comes round to them.  `ManagedNetwork` also assumes
that the application goes on calling `getNode()`, which is what starts a sweep.
`Executable` assumes that of its own timers and of its own code, and nothing
about the promises of others: not of a gRPC call, since
`channel/NodeChannel.js:93` gives a deadline to `waitForReady` only and
`_grpcDeadline` is not set by default, nor of `_beforeExecute` and
`_makeRequestAsync`, which may ask a signer.  `TopicMessageQuery` and
`NetworkUpdate` assume that a mirror node goes on with a stream it has not
closed; this is an assumption about the mirror node, without which no
subscription could bring anything.  `EventuallyReadmitted`
and `Quiesces` carry the environment's part in the formula: the node stops
failing; the application stops setting periods.

**What modelling brought to light.**  Beside the five violations, the exceptions
that the properties name are facts about the code, among them:

- a node that holds the connection and returns nothing stalls `execute()` for
  ever, whatever the request timeout, unless a gRPC deadline is set;
- `addSignature()` of a known key freezes a transaction that is signed on demand
  without a client (`transaction/Transaction.js:751`): its nodes stay unlocked, and
  the next `execute()` may send a node the body of another one;
- a subscription without a start time that breaks before its first chunk loses
  what was published in between, and one that breaks between its last chunk and
  its end goes on without a limit, as the limit is zero by then;
- an update whose `setNetwork()` throws loses nodes and installs none;
- an `addTokenTransferWithDecimals()` that throws may have moved an amount;
- a `function` argument is at the wrong end of its word;
- `AccountBalanceQuery` with both of its IDs set asks for the contract's balance;
- an account or contract ID given as text loses its checksum, so that the check
  of IDs never sees it (`account/AccountId.js:68`); `TokenNftInfoQuery` and
  several transactions check none of theirs, and the random-number transaction
  with a range is always refused, as `_validateChecksums` calls itself
  (`PrngTransaction.js:85`);
- the initial balance of an account or contract is multiplied by 10^8 on the way
  through bytes; seconds of a `Timestamp` wrap after January 2038
  (`Timestamp.js:128`);
- a record loses its token transfers when it is written, unless it moves both a
  fungible token and NFTs (`transaction/TransactionRecord.js:283`); if it moves
  several of a kind, those of the other kind come back several times; the bytes of
  a `TopicInfo`, and of a receipt without exchange rates, cannot be read;
- merging NFT allowances does not compare owners; a token gets two groups in a
  transfer when NFTs of two tokens are sorted by their parties;
- an array that cannot be encoded throws after its type entered the signature;
- `TransactionRecordQuery.setIncludeDuplicates` writes a field nobody reads
  (`:160`); `ContractCallQuery` forgets its sender in bytes;
- a query executed twice at the same time mixes two series of payments, a signer
  that fails half-way leaves a part of one, and costs beyond 31 bits escape the
  maximum (`query/Query.js:325`);
- a chunk whose answer was lost makes the next `executeAll()` end as a duplicate,
  a chunk that was not applied is skipped by it, and as the loop counts all IDs
  and not those that are left, it comes round to the first one and rejects even
  when every other chunk got through; the remaining time that
  `executeAll()` computes is not used; with signing on demand every chunk of a
  topic message is the whole message;
- `ContractCreateFlow` cannot be executed again once it is frozen, and an
  execution that fails leaves its file behind; with a signer, executions that
  overlap may make the contract from each other's file; its limit of chunks is not used.  `EthereumFlow` compares the length
  of bytes with a limit for characters, twice as many, and its second execution
  sends no call data.

## 4. What is proved

TLAPS checks the following for every value of the constants that satisfies the
assumptions named in the modules: finite sets of objects, natural numbers for
times, lengths and limits, lists of the right type, at least two slots; for the
conversions, that the classes are classes of the SDK (`ClassesAssumption`,
`QueryClassesAssumption`, `KindsAssumption`), that the calls are calls of the
allowance and of the add methods (`GrantCallsAssumption`, `AddCallsAssumption`)
that the arguments of a call are values of their types (`ArgumentsAssumption`),
and that `Null` is none of the values it is compared with (`NullAssumption`,
`GrantNullAssumption`, `AbiNullAssumption`).

| theorem | statement | argument |
| --- | --- | --- |
| `TypeCorrect` | `Spec => []TypeOK` | inductive as it stands |
| `MapCorrect` | `Spec => []MapWithinNodes` | inductive with `TypeOK`; the case that counts is `SetNetworkThrows`, where each list keeps its head, gets another element or disappears |
| `CountCorrect` | `Spec => []UnhealthyCountCovers` | the set `Troubled` instead of the unhealthy nodes, because clones are healthy by list and not by time; a clone maps back to its original by an injection |
| `BackoffCorrect` | `Spec => []BackoffAboveMinimum` | inductive with `TypeOK` |
| `ReadmissionCorrect` | `Spec => NoEarlyReadmission` | by cases on what can enlarge the healthy list |
| `LoopUsesNetwork` | `ExecSpec => UsesNetwork` (= `Spec`) | refinement: needs that a request in `making` or `calling` holds a node (`HoldsNode`) and that the index stays in its list; time that passes for a request alone is a stutter of the pool |
| `LoopKeepsMap` | `ExecSpec => [](MapWithinNodes /\ UnhealthyCountCovers)` | from the refinement and the pool's theorems |
| `StaleHarmless` | `ExecSpec => StaleCallHarmless` | only `increaseBackoff` and `decreaseBackoff` are at work when a call ends, and both change the node object of the request, which is none of the network's (`LoopTyped`, `TurnAtLoop`) |
| `LoopKeepsPromise` | `ExecSpec => KeepsPromise` (= `Promised!PromiseSpec`) | refinement: each step of a request is one of `Begin`, `Call`, `CallEnds`, `Settled` of `Promises` or a stutter, by `CallCount` (fewer calls than attempts before the call of an attempt) and `TurnAtLoop` |
| `FailedAvoided` | `ExecSpec => [](PositiveBackoffs => FailedNodeAvoided)` | backoffs stay above zero when they start there, so that the node of a failed attempt is off the healthy list, with time left, for as long as its request keeps the turn (`Remembered`) |
| `HandleCorrect` | `TopicSpec => []HandleCancelsStream` | `OneStream`: an open stream, or a timer of a reconnection, or neither |
| `LimitCorrect` | `TopicSpec => []LimitConserved` | `InStep`: the open stream's next chunk is the one at the start time, and nothing at or after it was received |
| `DeliveredCorrect` | `TopicSpec => []DeliveredOnce` | `Assembling`, by counting: a stream holds no more chunks of a message than it brought, so that all chunks of a delivered message were received, and `InStep` makes every chunk that arrives a new one |
| `AssembledCorrect` | `TopicSpec => []Assembled` | `Listing`: a stream's list of a message holds different chunks the stream brought, all of them unless the message was delivered, and fewer than the message has. The chunk that completes it makes `t` different numbers of `1..t`, and `SortedNumbers` shows by counting that sorting them gives `1, 2, ..., t`: no induction over sequences is needed |
| `UpdateTypeCorrect` | `UpdateSpec => []UpdateTypeOK` | inductive as it stands |
| `CompleteCorrect` | `UpdateSpec => UpdateComplete` | `StreamCovers`: what a query has and what its stream will still bring cover the book; what `setNetwork()` has closed when it throws is not in the new network |
| `OutcomeCorrect` | `ResponseSpec => []OutcomeTruthful` | which statuses can settle a promise is worked out once per query (`ReceiptDecides`, `RecordDecides`); an undecided transaction never settles one |
| `ChunksOrderedCorrect`, `ChunksSettledCorrect` | `ChunkSpec => []ChunksOrdered`, `[]ChunksSettled` | the inductive invariant `ChunkInv` (theorem `ChunkInvCorrect`): the signed transactions are a grid of IDs and nodes (`Grid`), the pieces are contiguous and end with the contents (`Cut`), the ledger follows the list of IDs (`OnTheLedger`), and the iterations left are at least the chunks not on the ledger, more if one was not applied (`Running`, `Holes`); places and ends of pieces are products and quotients, for which the provers need lemmas of their own |
| `ContractCorrect`, `FilesCorrect`, `CallDataCorrect` | `FlowSpec => []OneWholeContract`, `[]FilesCleanedUp`, `[]CallDataCarried` | one invariant: an execution owns the file it created (`OwnFile`), the file is complete before the contract or call is sent (`Filled`), the file set in the contract transaction holds the whole bytecode whichever execution set it (`CodeFile`), and only a file whose contract exists is deleted (`Deleted`) |
| `PaymentCorrect`, `PaidCorrect`, `MaximumCorrect`, `ChargeCorrect` | `PaySpec => []PaysTheNodeAsked`, `[]NotSentUnpaid`, `[]WithinMaximum`, `[]ChargedOnce` | without an overlap one execution at most is preparing, and the payments made so far are those of the first nodes in order (`Listed`, `InOrder`); the payment ID is chosen before the first payment and never again (`OneId`); a fee is within the maximum from the moment it is fixed (`Affordable`) |
| `TxRequestsAgree`, `TxBuiltFromSigned` | `TxSpec => [](Orderly => RequestsAgree)`, `[](Orderly => BuiltFromSigned)` | the inductive invariant `SendsInv` (theorem `TxSendsInv`): signed transactions follow the list of nodes position by position (`Aligned`), built ones follow the signed ones (`Built`), nothing is built before there is something to sign (`Backed`), and the nodes and IDs are locked before anything could come between (`Locks`) |
| `TxSignaturesSent` | `TxSpec => [](Orderly => SignaturesSent)` | `AwaitedInv` (theorem `TxAwaitedInv`): a promised signature is in every signed transaction and in everything built from one, or among the keys to sign with on demand (`Held`), because a signer at work sees nothing built and no other execution (`Exclusive`) |
| `TxRetriedElsewhere` | `DistinctNodes` implies `TxSpec /\ Orderly => RetriedElsewhere` | the index of the nodes stands one past the node that was tried last (`Positions`), and no node is twice in the list (`NodesInv`) |
| `EntityBodyAsGiven`, `EntitySentAsFrozen`, `EntityIdsChecked` | `EntitySpec => []BodyAsGiven`, `[]SentAsFrozen`, `[]IdsChecked` | five facts about a class (`Faithful`), shown for each of the 38, and one invariant `EntityInv` over any class that has them |
| `AllowancesCorrect` | `AllowanceSpec => []AllowancesFaithful` | `AllowanceInv`: every serial number in the body can be traced to a call (`Traced`) and every call that is not confused is covered (`Covers`) |
| `AnswersCorrect` | `AnswerSpec => []AnswersFaithful` | what `toBytes()` and `fromBytes()` do to a message is worked out for each of the 35 classes (`Telling`); the invariant says that object, bytes and second object come from one message |
| `QueriesCorrect` | `QuerySpec => []QueriesFaithful` | facts about a class (`Truthful`), shown for each of the 17, and the invariant `QueryInv` |
| `TransfersCorrect` | `TransferSpec => []TransfersFaithful` | `TransferInv`: while calls are made, each list has one entry for everything asked for and no other (`ListsRight`), where a call that threw counts with what it had done by then; afterwards the body was made of such lists in the order of the sort (`MadeOf`), and what was read back is alike to them (`ListsAlike`) |
| `CallsCorrect` (`LayoutProofs`) | `AbiSpec => []CallFaithful` | `AbiInv`; what the loop of `_build()` has laid out after m arguments is where the heads say (`LaidOut`), also for the values of an array inside an argument; a function is found where the code puts it (`Found`) |

**The hypothesis `Orderly`** of the theorems about `Transaction` is about the
application, which the constant `Uses` leaves open: every client it works with
signs at once and has an operator, or every one signs on demand, the
application awaits its calls, never freezes without a client and never adds the
signature of a key again.  The uses that TLC
checks are of these kinds, but for the one on demand, which may add a signature
again: `RequestsAgree` excepts the transaction that this has frozen
(`FrozenForKnownKey`).  The attempt to prove the properties without it
showed why it is needed.  A client that signs at once and has no operator signs
nothing, so `signWith()` never locks the nodes, and `Executable.js:583`
replaces the list by the one node it picks: `_makeRequestAsync()` then takes the
transaction at that list's only position, frozen for another node, and sends it
there.  With clients of both kinds, or on demand and not awaited,
`toBytesAsync()` before a freeze can lock a list of signed transactions that is
still empty.  **`DistinctNodes`** excludes networks with several addresses per account:
`_getNumberOfMostHealthyNodes()` may choose such an account once per address
(`ManagedNetwork.js:248`), and a retry then goes to the same account.

**The conversions.**  A theorem about all classes would be a case analysis of
thousands of fields if it were proved step by step of the state machine.  So the
argument is split: what has to be known of a class is a definition (`Faithful`,
`Truthful`, `Telling`), there is one lemma per class that establishes it by
computing its constructor, setters, encoder and decoder field by field, and the
induction over the steps uses nothing else.  `Faithful` says that the
constructor makes a well-formed object that holds the properties it was given,
that a setter writes its own fields only, that objects which agree on their
fields make bodies which agree but for the ones in `Loose`, that a body which is
decoded and encoded again is the same body, and that every ID is checked or named
in `Unchecked`.  Where one setter undoes another (`TokenCreate`,
`ContractCreate`, `ScheduleCreate`) the fields are named in `Entangled`: what
they end up as depends on the order of the calls, and bodies made by other orders
may differ in `Ordered` and nowhere else.  For the allowances no list
has to be folded: `Agrees` relates the allowances of the transaction to the calls
made so far, and joining a serial number to an entry, or appending an entry,
keeps it, whichever entry the loop stops at.  Of the answers, only a record needs
more than its fields: each kind of token transfers comes back once per token of
the other kind, so that it is kept, lost or repeated by the number of those
tokens (`TokensKept`).

**Loops and sums.**  `Grouped`, `Build`, `Sum` and `FlattenSeq` are recursive
functions, and what they compute is proved without a rule of induction: of the
numbers of steps after which an invariant of the loop would not hold there is a
least one (`LeastNat`, from the well-foundedness of the natural numbers), and the
step that leads to it is looked at.  The invariant of the loop that groups
transfers is `LoopState`: every transfer taken has one place among the groups
and every place has its transfer (`TokensPlaced`, `NftsPlaced`); no group is of
a token beyond the next fungible transfer (`Ahead`), which is why a
token that starts a group comes after those of all groups before it; two
groups of a token mean that there are a fungible token and NFTs of two other
tokens, all different (`Scattered`, which needs what the last group can be,
`Behind`); and
the decimals of a group are those of the token's first transfer (`DecimalsOf`).
That the body made after `fromBytes()` is the same needs a second argument.  A
list whose order tells all its entries apart has one sorted arrangement
(`UniqueOrder`), so the two sorted lists are alike entry by entry, and two loops
over such lists join the same groups at every step (`StepLoopsAlike`).

The attempt to prove it refuted what the property said before.  The order of NFTs
compares parties and serial numbers and not tokens
(`account/TransferTransaction.js:736`), so that NFTs of two tokens may tie.  The sort
leaves these as they were, which after `fromBytes()` is the order of the groups
and not that of the calls: the body made again can group them in another way.
It takes more NFTs than TLC's instances add.  `RoundTrip` therefore excludes ties
(`Tied`), and `BodyFaithful`, which does not, is proved for both bodies.

**Only model-checked**: the liveness properties `EventuallyReadmitted`,
`Settles`, `Resumes`, `Quiesces`, as fairness is out of the prover's reach.

## 5. What is not modelled

- **Transport**: channels, TLS, gRPC and HTTP codes.  The ways a call can end are
  the choices of `Executable`'s actions.
- **Keys, mnemonics, the cryptography package, RLP, hashes, the digits of
  checksums**: mathematics over bytes, out of TLC's reach.  Their word lists and
  the table of statuses make up a large part of the repository's lines.
- **`MirrorNetwork`**: what it inherits is `ManagedNetwork`; its own
  `_getNodesToRemove()` asks `Object.values()` for the values of a `Map`
  (`client/MirrorNetwork.js:86`), finds none and removes every node, so that
  there is no state to follow from one network to the next.
- **Wallet, `LocalProvider`, `Signer`**: delegate, without state of their own.
- **Text**: `toString()`, `toJSON()`, the syntax of IDs, logging.
- **The deprecated `AccountAllowanceAdjustTransaction`**, whose body is empty.
- Of the modelled components: a second `subscribe()` on one query object and the
  end time of a subscription; the loop that picks the nodes a transaction is
  built for (`client/ManagedNetwork.js:251`), which runs inside one turn and does
  not count a node it has seen as a round, so that it never ends when nothing
  else is left to pick (two healthy nodes of one account on one host); applications that mix clients that sign at
  once with clients that sign on demand; the settings of the client that are
  plain assignments; nested results of the ABI.

`PROJECT.json` lists every component with its status, and eight hazards that no
property covers, each with the reason.

## 6. What could follow

1. A module for the choice of nodes, with the termination of its loop.
2. `Transaction`'s single field replaced by the bodies of `EntityTransactions`,
   to compose the two.
