SPECIFICATION Spec
CONSTANTS
    bus = bus
    subway = subway
    manual = manual
    r1 = r1
    r2 = r2
    detour = detour
    e1 = e1
    e2 = e2
    e3 = e3
    e4 = e4
    e5 = e5
    e6 = e6
    NoRoute = NoRoute
    NoPayload = NoPayload
    Allowlist <- BusRoutes
    Payloads <- Served
    Procs = {bus, manual}
    Loops = {bus}
    FeedOf <- BusAndManual
    Attempts = 2
    MaxPolls = 2
    MaxTime = 1
    DbMayFail = TRUE
INVARIANTS
    TypeOK
    IdsAreKeys
    SuccessHasOneSnapshot
    ProvenanceAgrees
    OutcomeMatchesDatabase
    LoopOutlivesPolls
PROPERTIES
    ImplementsLedger
CHECK_DEADLOCK FALSE
