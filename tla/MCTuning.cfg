SPECIFICATION MCSpec
CONSTANTS
    Stages = {s1, s2}
    Instances <- MCInstances
    Latencies <- MCLatencies
    QueueLens <- MCQueueLens
    Constraints <- MCConstraints
    Target = 5
    Threshold = 500
    TrendWindow = 1
    MaxHistory = 2
    MaxLog = 2
    Workers = {w1, w2}
    Nanoseconds = {1, 2}
    MaxRecords = 3
    MaxResets = 1
    Samples <- MCSamples
    WindowSize = 2
    CacheDuration = 2
    MaxPredictions = 2
SYMMETRY StageSymmetry
INVARIANTS
    TypesOK
    ResizesGoTheirWay
    BatchingIsWarranted
    LatenciesCounted
    PredictionsFresh
PROPERTIES
    LogKeepsRecord
    BaselineFollows
