SPECIFICATION Spec
CONSTANTS
    StreamIds = {1, 3}
    InitialWindow = 1
    MaxWindow = 1
    WindowSizes = {0}
    Budget = 2
    MaxQueue = 1
INVARIANTS
    TypeOK
    ViewsAgree
    EndIsLast
    AnswersInOrder
    ReceiveWindowsAgree
PROPERTIES
    StreamsAdvance
CHECK_DEADLOCK FALSE
