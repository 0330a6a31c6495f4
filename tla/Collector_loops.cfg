SPECIFICATION FairSpec
CONSTANTS
    bus = bus
    subway = subway
    manual = manual
    r1 = r1
    r2 = r2
    detour = detour
    e1 = e1
    e2 = e2
    e3 = e3
    e4 = e4
    e5 = e5
    e6 = e6
    NoRoute = NoRoute
    NoPayload = NoPayload
    Allowlist <- BusRoutes
    Payloads <- ServedOffRoad
    Procs = {subway, detour}
    Loops = {subway, detour}
    FeedOf <- SubwayAndDetour
    Attempts = 3
    MaxPolls = 2
    MaxTime = 0
    DbMayFail = TRUE
INVARIANTS
    SubwayUnfiltered
PROPERTIES
    PollSettles
    SignalStops
CHECK_DEADLOCK FALSE
