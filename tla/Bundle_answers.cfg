CONSTANTS
    trips = trips
    shapes = shapes
    t1 = t1
    t2 = t2
    Files = {trips, shapes}
    Shapes = shapes
    Threads = {t1, t2}
    Requests <- Mixed
    Before <- ShapesLast
    Capacity <- OneEntryEach
    MaxDownloads = 1
    MaxRequests = 2
SPECIFICATION Spec
CHECK_DEADLOCK FALSE
INVARIANTS
    EntriesFresh
PROPERTY
    AnsweredFromOneBundle
