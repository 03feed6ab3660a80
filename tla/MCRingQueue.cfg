SPECIFICATION MCSpec
CONSTANTS
    Capacity = 4
    Ids = {i1, i2}
    Empty = Empty
    None = None
    NumShards = 3
    ShardCapacity = 2
    TotalCores = 3
    NumNodes = 2
    Conns = {c1, c2}
    NoConn = NoConn
INVARIANTS
    IInv
    SlotsApart
    LenOnSafeSide
    ShardsExact
PROPERTIES
    FifoRefinement
