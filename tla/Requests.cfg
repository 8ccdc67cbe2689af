SPECIFICATION Spec
CONSTANTS
  Null = Null
  Classes <- TransactionRegistry
  MaxSets = 2
  AddCalls <- TransferCalls
  Approvals <- ApprovalCalls
  MaxCalls = 4
  GrantCalls <- AllowanceCalls
  MaxGrants = 3
  Kinds <- AnswerClasses
  MaxFilled = 2
  Arguments <- AbiArguments
  MaxArguments = 4
  QueryClasses <- QueryRegistry
  MaxQuerySets = 3
  PayNodes <- NodeLists
  Costs = {2, 6, 9}
  Fees <- SomeFees
  Maxima = {4, 17}
  IntRange = 16
  Asker = {1, 2}
  MaxAsks = 2
  MaxPolls = 3
  Lengths = {2, 5, 7}
  ChunkSizes = {2, 3}
  MaxChunks = 3
  FirstNanos = {1, 18}
  NanosPerSecond = 20
  NodeCount = 2
  Timeouts = {1, 2}
  MaxRuns = 2
  CodeLengths = {1, 3, 5, 11}
  OtherLengths = {1, 3}
  FlowChunks = {1, 5}
  Executions = {1, 2}
INVARIANTS
  BodyAsGiven
  SentAsFrozen
  IdsChecked
  TransfersFaithful
  AllowancesFaithful
  AnswersFaithful
  CallFaithful
  QueriesFaithful
  PaysTheNodeAsked
  NotSentUnpaid
  WithinMaximum
  ChargedOnce
  OutcomeTruthful
  ChunksOrdered
  ChunksSettled
  OneWholeContract
  FilesCleanedUp
  CallDataCarried
CHECK_DEADLOCK FALSE
