SPECIFICATION Spec
CONSTANTS
    Node <- SharedNode
    KeyOf <- SharedKeyOf
    AddrOf <- SharedAddrOf
    Networks <- SharedNetworks
    Key = {"a", "b"}
    NoNode = NoNode
    DefaultMin = 1
    DefaultMax = 1
    MinValues = {}
    MaxValues = {}
    Periods = {1}
    CountBound = 3
INVARIANTS
    TypeOK
    MapWithinNodes
    UnhealthyCountCovers
PROPERTIES
    NoEarlyReadmission
