SPECIFICATION Spec
CONSTANTS
    SlabCapacity = 2
    QueueCapacity = 3
    Clients = {c1, c2}
    Asks = {"root"}
    Segments = 2
    SendBuffer = 1
    NoConn = NoConn
    NoId = NoId
SYMMETRY ClientSymmetry
INVARIANTS
    IncompleteIsQueued
CHECK_DEADLOCK FALSE
