SPECIFICATION FairSpec
CONSTANTS
    Count = 2
    Batch = 2
    Ids = {i1, i2, i3}
    Room = 1
    NoId = NoId
INVARIANTS
    IInv
    StopsCleanly
    LateBound
PROPERTIES
    ChainRefinement
    AllStop
CHECK_DEADLOCK FALSE
