SPECIFICATION Spec
CONSTANTS
    StreamIds = {1, 3}
    InitialWindow = 1
    MaxWindow = 1
    WindowSizes = {}
    Budget = 0
    MaxQueue = 1
INVARIANTS
    ConnectionWindowRespected
CHECK_DEADLOCK FALSE
