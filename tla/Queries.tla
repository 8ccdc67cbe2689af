------------------------------- MODULE Queries -------------------------------
(***************************************************************************)
(* One query of any class: the application sets fields, turns the object   *)
(* into bytes and back, and asks, with the check of checksums on or off.   *)
(* QueryPayments models how a query is paid for, TransactionResponses how  *)
(* the answers to receipts and records are waited for.                     *)
(***************************************************************************)
EXTENDS EntityQueries, FiniteSets

CONSTANTS QueryClasses,  \* the classes of the queries that are asked
          MaxQuerySets   \* bound: fields the application sets

\* The classes of QUERY_REGISTRY.
QueryRegistry ==
  {"AccountBalance", "AccountInfo", "AccountRecords", "AccountStakers",
   "LiveHash", "ContractByteCode", "ContractCall", "ContractInfo",
   "FileContents", "FileInfo", "NetworkVersionInfo", "ScheduleInfo",
   "TokenInfo", "TokenNftInfo", "TopicInfo", "TransactionReceipt",
   "TransactionRecord"}

ASSUME QueryClassesAssumption == QueryClasses \subseteq QueryRegistry
ASSUME MaxQuerySetsAssumption == MaxQuerySets \in Nat

VARIABLES queryClass,  \* the class of the query
          query,       \* its fields
          wanted,      \* what the application set, by the name of the setter
          reborn,      \* the query is the result of fromBytes()
          verdict,     \* "none", "checked" or "unchecked" when sent, "refused"
          question,    \* what the node read in the message that was sent
          reply        \* what the answer was decoded as, or "none"

queryVars == <<queryClass, query, wanted, reborn, verdict, question,
               reply>>

\* ---- The classes

NewQuery(c, p) ==
  CASE c = "AccountBalance" -> AccountBalanceQueryNew(p)
    [] c = "AccountInfo" -> AccountInfoQueryNew(p)
    [] c = "AccountRecords" -> AccountRecordsQueryNew(p)
    [] c = "AccountStakers" -> AccountStakersQueryNew(p)
    [] c = "LiveHash" -> LiveHashQueryNew(p)
    [] c = "ContractByteCode" -> ContractByteCodeQueryNew(p)
    [] c = "ContractCall" -> ContractCallQueryNew(p)
    [] c = "ContractInfo" -> ContractInfoQueryNew(p)
    [] c = "FileContents" -> FileContentsQueryNew(p)
    [] c = "FileInfo" -> FileInfoQueryNew(p)
    [] c = "NetworkVersionInfo" -> NetworkVersionInfoQueryNew(p)
    [] c = "ScheduleInfo" -> ScheduleInfoQueryNew(p)
    [] c = "TokenInfo" -> TokenInfoQueryNew(p)
    [] c = "TokenNftInfo" -> TokenNftInfoQueryNew(p)
    [] c = "TopicInfo" -> TopicInfoQueryNew(p)
    [] c = "TransactionReceipt" -> TransactionReceiptQueryNew(p)
    [] c = "TransactionRecord" -> TransactionRecordQueryNew(p)

SetQuery(c, f, v) ==
  CASE c = "AccountBalance" -> AccountBalanceQuerySet(f, v)
    [] c = "AccountInfo" -> AccountInfoQuerySet(f, v)
    [] c = "AccountRecords" -> AccountRecordsQuerySet(f, v)
    [] c = "AccountStakers" -> AccountStakersQuerySet(f, v)
    [] c = "LiveHash" -> LiveHashQuerySet(f, v)
    [] c = "ContractByteCode" -> ContractByteCodeQuerySet(f, v)
    [] c = "ContractCall" -> ContractCallQuerySet(f, v)
    [] c = "ContractInfo" -> ContractInfoQuerySet(f, v)
    [] c = "FileContents" -> FileContentsQuerySet(f, v)
    [] c = "FileInfo" -> FileInfoQuerySet(f, v)
    [] c = "ScheduleInfo" -> ScheduleInfoQuerySet(f, v)
    [] c = "TokenInfo" -> TokenInfoQuerySet(f, v)
    [] c = "TokenNftInfo" -> TokenNftInfoQuerySet(f, v)
    [] c = "TopicInfo" -> TopicInfoQuerySet(f, v)
    [] c = "TransactionReceipt" -> TransactionReceiptQuerySet(f, v)
    [] c = "TransactionRecord" -> TransactionRecordQuerySet(f, v)

\* Query._validateChecksums() does nothing where a class has none.
CheckedQuery(c) ==
  CASE c = "AccountBalance" -> AccountBalanceQueryChecked
    [] c = "AccountInfo" -> AccountInfoQueryChecked
    [] c = "AccountRecords" -> AccountRecordsQueryChecked
    [] c = "AccountStakers" -> AccountStakersQueryChecked
    [] c = "LiveHash" -> LiveHashQueryChecked
    [] c = "ContractByteCode" -> ContractByteCodeQueryChecked
    [] c = "ContractCall" -> ContractCallQueryChecked
    [] c = "ContractInfo" -> ContractInfoQueryChecked
    [] c = "FileContents" -> FileContentsQueryChecked
    [] c = "FileInfo" -> FileInfoQueryChecked
    [] c = "ScheduleInfo" -> ScheduleInfoQueryChecked
    [] c = "TokenInfo" -> TokenInfoQueryChecked
    [] c = "TopicInfo" -> TopicInfoQueryChecked
    [] c = "TransactionReceipt" -> TransactionReceiptQueryChecked
    [] c = "TransactionRecord" -> TransactionRecordQueryChecked
    [] OTHER -> {}

Request(c, q) ==
  CASE c = "AccountBalance" -> AccountBalanceQueryRequest(q)
    [] c = "AccountInfo" -> AccountInfoQueryRequest(q)
    [] c = "AccountRecords" -> AccountRecordsQueryRequest(q)
    [] c = "AccountStakers" -> AccountStakersQueryRequest(q)
    [] c = "LiveHash" -> LiveHashQueryRequest(q)
    [] c = "ContractByteCode" -> ContractByteCodeQueryRequest(q)
    [] c = "ContractCall" -> ContractCallQueryRequest(q)
    [] c = "ContractInfo" -> ContractInfoQueryRequest(q)
    [] c = "FileContents" -> FileContentsQueryRequest(q)
    [] c = "FileInfo" -> FileInfoQueryRequest(q)
    [] c = "NetworkVersionInfo" -> NetworkVersionInfoQueryRequest(q)
    [] c = "ScheduleInfo" -> ScheduleInfoQueryRequest(q)
    [] c = "TokenInfo" -> TokenInfoQueryRequest(q)
    [] c = "TokenNftInfo" -> TokenNftInfoQueryRequest(q)
    [] c = "TopicInfo" -> TopicInfoQueryRequest(q)
    [] c = "TransactionReceipt" -> TransactionReceiptQueryRequest(q)
    [] c = "TransactionRecord" -> TransactionRecordQueryRequest(q)

FromQuery(c, r) ==
  CASE c = "AccountBalance" -> AccountBalanceQueryFrom(r)
    [] c = "AccountInfo" -> AccountInfoQueryFrom(r)
    [] c = "AccountRecords" -> AccountRecordsQueryFrom(r)
    [] c = "AccountStakers" -> AccountStakersQueryFrom(r)
    [] c = "LiveHash" -> LiveHashQueryFrom(r)
    [] c = "ContractByteCode" -> ContractByteCodeQueryFrom(r)
    [] c = "ContractCall" -> ContractCallQueryFrom(r)
    [] c = "ContractInfo" -> ContractInfoQueryFrom(r)
    [] c = "FileContents" -> FileContentsQueryFrom(r)
    [] c = "FileInfo" -> FileInfoQueryFrom(r)
    [] c = "NetworkVersionInfo" -> NetworkVersionInfoQueryFrom(r)
    [] c = "ScheduleInfo" -> ScheduleInfoQueryFrom(r)
    [] c = "TokenInfo" -> TokenInfoQueryFrom(r)
    [] c = "TokenNftInfo" -> TokenNftInfoQueryFrom(r)
    [] c = "TopicInfo" -> TopicInfoQueryFrom(r)
    [] c = "TransactionReceipt" -> TransactionReceiptQueryFrom(r)
    [] c = "TransactionRecord" -> TransactionRecordQueryFrom(r)

Exchange(c) ==
  CASE c = "AccountBalance" -> AccountBalanceQueryExchange
    [] c = "AccountInfo" -> AccountInfoQueryExchange
    [] c = "AccountRecords" -> AccountRecordsQueryExchange
    [] c = "AccountStakers" -> AccountStakersQueryExchange
    [] c = "LiveHash" -> LiveHashQueryExchange
    [] c = "ContractByteCode" -> ContractByteCodeQueryExchange
    [] c = "ContractCall" -> ContractCallQueryExchange
    [] c = "ContractInfo" -> ContractInfoQueryExchange
    [] c = "FileContents" -> FileContentsQueryExchange
    [] c = "FileInfo" -> FileInfoQueryExchange
    [] c = "NetworkVersionInfo" -> NetworkVersionInfoQueryExchange
    [] c = "ScheduleInfo" -> ScheduleInfoQueryExchange
    [] c = "TokenInfo" -> TokenInfoQueryExchange
    [] c = "TokenNftInfo" -> TokenNftInfoQueryExchange
    [] c = "TopicInfo" -> TopicInfoQueryExchange
    [] c = "TransactionReceipt" -> TransactionReceiptQueryExchange
    [] c = "TransactionRecord" -> TransactionRecordQueryExchange

\* ---- Operations

\* The fields that have a setter, and the values it is called with.
Settable(c) == DOMAIN NewQuery(c, NoEffect) \ {"duplicates"}
Identifiers == {"accountId", "contractId", "fileId", "tokenId", "topicId",
                "scheduleId", "nftId", "transactionId", "senderAccountId"}
ValuesOf(f) == IF f \in Identifiers THEN {1, Foreign} ELSE {1}

QueryInit ==
  /\ queryClass \in QueryClasses
  /\ query = NewQuery(queryClass, NoEffect)
  /\ wanted = [f \in Settable(queryClass) |-> Null]
  /\ reborn = FALSE /\ verdict = "none" /\ question = Null
  /\ reply = "none"

SetQueryField(f, v) ==
  /\ verdict = "none" /\ ~reborn /\ wanted[f] = Null
  /\ Cardinality({g \in DOMAIN wanted : wanted[g] # Null}) < MaxQuerySets
  /\ LET set == SetQuery(queryClass, f, v)
     IN  query' = [query EXCEPT ![set.field] = set.value]
  /\ wanted' = [wanted EXCEPT ![f] = v]
  /\ UNCHANGED <<queryClass, reborn, verdict, question, reply>>

\* QUERY_REGISTRY: the class of a member of the message Query.
Registered(m) == CHOOSE c \in QueryClasses : Exchange(c).request = m

\* The member of the message Response that answers it.
ResponseMember(m) == IF m = "contractGetBytecode"
                     THEN "contractGetBytecodeResponse" ELSE m

\* Query.fromBytes(toBytes()).
QueryFromBytes ==
  /\ verdict = "none" /\ ~reborn
  /\ queryClass' = Registered(Exchange(queryClass).request)
  /\ query' = NewQuery(queryClass',
                       FromQuery(queryClass', Request(queryClass, query)))
  /\ reborn' = TRUE
  /\ UNCHANGED <<wanted, verdict, question, reply>>

\* What the node reads in a request: accountID and contractID are one choice of
\* the message, of which it keeps the member that comes last in the bytes.
Understood(c, r) ==
  IF c = "AccountBalance" /\ r.contractID # Null
  THEN [r EXCEPT !.accountID = Null] ELSE r

\* execute(): _beforeExecute() checks the IDs, then the request is made, which
\* the node reads.
Ask(check) ==
  /\ verdict = "none"
  /\ IF check /\ \E f \in CheckedQuery(queryClass) : query[f] = Foreign
     THEN verdict' = "refused" /\ UNCHANGED question
     ELSE /\ verdict' = IF check THEN "checked" ELSE "unchecked"
          /\ question' = Understood(queryClass, Request(queryClass, query))
  /\ UNCHANGED <<queryClass, query, wanted, reborn, reply>>

\* _mapResponseHeader() and _mapResponse() of the response.
Reply ==
  /\ question # Null /\ reply = "none"
  /\ reply' = IF Exchange(queryClass).header
                   = ResponseMember(Exchange(queryClass).request)
              THEN Exchange(queryClass).answer ELSE "TypeError"
  /\ UNCHANGED <<queryClass, query, wanted, reborn, verdict, question>>

QueryNext ==
  \/ \E f \in DOMAIN wanted : \E v \in ValuesOf(f) : SetQueryField(f, v)
  \/ QueryFromBytes
  \/ \E check \in BOOLEAN : Ask(check)
  \/ Reply

QuerySpec == QueryInit /\ [][QueryNext]_queryVars

\* ---- Properties

\* The fields that change nothing in the request: a flag of the application's
\* own side; parameters of queries that the network no longer has; and the
\* duplicates of a record, which setIncludeDuplicates() does not ask for.
Unasked == [TransactionReceipt |-> {"validateStatus"},
            TransactionRecord |-> {"validateReceiptStatus",
                                   "includeDuplicates"},
            TokenNftInfo |-> {"accountId", "tokenId", "start", "end"}]
\* The fields that are lost with the bytes.
Forgotten == [ContractCall |-> {"senderAccountId"}]

\* The setters of AccountBalanceQuery are mutually exclusive
\* (AccountBalanceQuery.js:114, :138), but neither clears the other: with both
\* set, the contract's balance is asked for.
Displaced(f) ==
  queryClass = "AccountBalance" /\ f = "accountId" /\ query.contractId # Null

\* What the application set is what the node is asked: leaving a field unset
\* would have made another request, also after the query went through bytes,
\* but for the fields of Unasked and Forgotten and one that another field
\* displaces; and the answer is looked for where the node puts it.
QuestionSent ==
  /\ reply # "TypeError"
  /\ verdict \in {"checked", "unchecked"} =>
    \A f \in DOMAIN wanted : wanted[f] # Null =>
      \/ f \in Of(Unasked, queryClass)
      \/ reborn /\ f \in Of(Forgotten, queryClass)
      \/ Displaced(f)
      \/ LET field == SetQuery(queryClass, f, 1).field
             unset == [query EXCEPT ![field]
                                      = NewQuery(queryClass, NoEffect)[f]]
         IN  question # Understood(queryClass, Request(queryClass, unset))

\* The IDs that are not checked.
UncheckedIds == [ContractCall |-> {"senderAccountId"},
                 TokenNftInfo |-> {"nftId", "accountId", "tokenId"}]

\* With the check on, a query with an ID of another ledger is not sent, if the
\* class checks it and the query did not go through bytes, which have no
\* checksums; and nothing else is refused.
ForeignQueriesRefused ==
  /\ verdict = "checked" =>
       \A f \in DOMAIN wanted : wanted[f] = Foreign =>
         reborn \/ f \in Of(UncheckedIds, queryClass)
  /\ verdict = "refused" =>
       \E f \in DOMAIN wanted : wanted[f] = Foreign /\ ~reborn

\* A query asks what the application set, but for a field that another one
\* displaces, and is refused only for an ID of another ledger.
QueriesFaithful == QuestionSent /\ ForeignQueriesRefused
=============================================================================
