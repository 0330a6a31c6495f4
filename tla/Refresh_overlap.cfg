SPECIFICATION FairSpec
CONSTANTS
    worker = worker
    manual = manual
    Runs = {worker, manual}
    Incremental = {worker}
    Exporting = {manual}
    Instances = {i1, i2}
    Derived <- CoarseManual
    MaxObs = 3
    MayFail = TRUE
INVARIANTS
    InstanceUnmixed
PROPERTIES
    ImplementsAtomicRefresh
    RunsEnd
CHECK_DEADLOCK FALSE
