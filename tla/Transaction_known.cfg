SPECIFICATION TxSpec
CONSTANTS
    NodeId = {"n1", "n2"}
    SignKey = {"op", "k1"}
    NoKey = NoKey
    Memos = {"m1", "m2"}
    Client <- AllClients
    NoClient = NoClient
    Uses <- OnlyAtOnce
    ClientNodes <- BothNodes
    ExplicitNodes <- OneOrTwo
    ExplicitId = 0
    Regenerate = TRUE
    MaxId = 2
    MaxExecutes = 2
    MaxBuilt = 3
    Execution = {"e1"}
    NoTx = NoTx
CHECK_DEADLOCK FALSE
INVARIANTS
    KnownKeysHaveSigned
