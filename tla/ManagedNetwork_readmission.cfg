SPECIFICATION FairSpec
CONSTANTS
    Node <- PairNode
    KeyOf <- PairKeyOf
    AddrOf <- PairAddrOf
    Networks <- PairNetworks
    Key = {"a"}
    NoNode = NoNode
    DefaultMin = 1
    DefaultMax = 2
    MinValues = {2}
    MaxValues = {3}
    Periods = {}
    CountBound = 3
INVARIANTS
    BackoffAboveMinimum
PROPERTIES
    EventuallyReadmitted
