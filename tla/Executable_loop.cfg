SPECIFICATION ExecFairSpec
CONSTANTS
    Node <- PoolNode
    KeyOf <- PoolKeyOf
    AddrOf <- PoolAddrOf
    Networks <- PoolNetworks
    Key = {"a", "b"}
    NoNode = NoNode
    DefaultMin = 1
    DefaultMax = 1
    MinValues = {}
    MaxValues = {}
    Periods = {}
    CountBound = 2
    Request = {"r1", "r2"}
    NodeAccountIds <- OneLocked
    NoRequest = NoRequest
    Null = Null
    ClientMaxAttempts = Null
    RequestMaxAttempts = 2
    RequestTimeout = 1
    GrpcDeadline <- OneDeadline
    DelayMin = 0
    DelayMax = 1
INVARIANTS
    FailedNodeAvoided
PROPERTIES
    UsesNetwork
    KeepsPromise
    StaleCallHarmless
    Settles
