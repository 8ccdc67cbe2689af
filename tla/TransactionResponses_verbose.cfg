SPECIFICATION ResponseSpec
CONSTANTS
  MaxPolls = 3
INVARIANTS
  VerboseRecordReturned
CHECK_DEADLOCK FALSE
