SPECIFICATION Spec
CONSTANTS
    SlabCapacity = 2
    QueueCapacity = 2
    Clients = {c1, c2, c3}
    Asks = {"root", "cut", "bare", "malformed"}
    Segments = 2
    SendBuffer = 1
    NoConn = NoConn
    NoId = NoId
SYMMETRY ClientSymmetry
INVARIANTS
    FreeListExact
    OneHolder
    HandoverReady
    ConnCountExact
PROPERTIES
    ChainRefinement
    AbandonedOnlyWhere
CHECK_DEADLOCK FALSE
