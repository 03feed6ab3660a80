SPECIFICATION Spec
CONSTANTS
    SlabCapacity = 2
    QueueCapacity = 3
    Clients = {c1, c2}
    Asks = {"root"}
    Segments = 1
    SendBuffer = 1
    NoConn = NoConn
    NoId = NoId
SYMMETRY ClientSymmetry
INVARIANTS
    SendingIsSent
CHECK_DEADLOCK FALSE
