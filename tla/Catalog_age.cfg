CONSTANTS
    Threads = {t1, t2}
    Ttl = 2
    Agg = 3
    Slow = 1
    MaxTime = 8
SPECIFICATION Spec
CHECK_DEADLOCK FALSE
INVARIANTS
    CatalogAge
PROPERTY
    StoredValid
