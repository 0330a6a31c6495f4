SPECIFICATION Spec
CONSTANTS
    worker = worker
    manual = manual
    Runs = {worker, manual}
    Incremental = {worker}
    Exporting = {}
    Instances = {i1}
    Derived <- SameGrid
    MaxObs = 2
    MayFail = FALSE
INVARIANTS
    OverlapIsSafe
CHECK_DEADLOCK FALSE
