CONSTANTS
    Stops = {0, 1, 2}
    Places = {0, 1, 2}
    Apart <- OnALine
    Shapes <- Walks
    Length = 4
    Tol = 1
    MaxStops = 3
    Samples <- Forwards
    Keys = {1, 2}
    StaleMin = 2
    MinDisplacement = 1
    IdleMin = 1
    MaxRows = 6
    NumBuses = 3
    Distances = {0, 1, 3}
    MaxMove = 2
    Enter = 2
    Exit = 3
    MinDuration = 1
    MaxTick = 3
    Parts = 2
    MaxStop = 2
    Indexes = {1, 2, 3, 4}
    Starts = {0, 1}
    Steps = {1}
    Threshold = 2
    MaxBuses = 3
    MaxPoints = 6
    Tracks <- SomeTracks
    Peers = {1, 2}
    SeqLen = 3
    SampleTol = 1
    NoLeader = 7
    Legacy = 2
    RouteLength = 10
    StopSpacing = 4
    NumStops = 3
    EdgeExclude = 1
    Medians = {0, 1, 2}
    FloorSpeed = 1
    PredLen = 5
    EnvCap = 4
    History = 2
    Horizon = 3
    PersistCounts = {0, 3, 4}
    GridTicks = 5
    Reach = 3
SPECIFICATION Spec
INVARIANT
    EveryStandShown
