SPECIFICATION FairSpec
CONSTANTS
    SlabCapacity = 2
    QueueCapacity = 3
    Clients = {c1, c2, c3}
    Asks = {"root", "api"}
    Segments = 1
    SendBuffer = 1
    NoConn = NoConn
    NoId = NoId
INVARIANTS
    ResponseIntegrity
PROPERTIES
    FreedOnlyWhenDone
    ReadyIsAnswered
CHECK_DEADLOCK FALSE
