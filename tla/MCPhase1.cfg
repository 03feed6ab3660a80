SPECIFICATION MCSpec
CONSTANTS
    SlabCapacity = 2
    QueueCapacity = 3
    Batch = 2
    Clients = {c1, c2, c3}
    Late = c3
    Asks = {"root", "cut"}
    Segments = 2
    SendBuffer = 1
    NoConn = NoConn
    Idle = Idle
INVARIANTS
    QueuedExactlyOnce
    QueueLenExact
    ResponseIntegrity
PROPERTIES
    PatientIsAnswered
CHECK_DEADLOCK FALSE
