SPECIFICATION Spec
CONSTANTS
    SlabCapacity = 2
    QueueCapacity = 2
    Clients = {c1, c2}
    Asks = {"root"}
    Segments = 1
    SendBuffer = 1
    NoConn = NoConn
    NoId = NoId
SYMMETRY ClientSymmetry
INVARIANTS
    ProcessingIsProcessed
CHECK_DEADLOCK FALSE
