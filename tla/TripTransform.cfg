SPECIFICATION Spec
CONSTANTS
    r1 = r1
    r2 = r2
    NoRoute = NoRoute
    StaticRoute = r1
    ShapeKnown = TRUE
    Samples <- Reports
    PerSecond = 2
    Resolution = 2
    MaxOff = 5
    MaxSpeed = 2
    MaxGap = 5
    MaxObs = 4
INVARIANTS
    OneRowPerInstant
    MatchesLegacyLoop
    OutagesNotBridged
    SpeedsPlausible
PROPERTIES
    UpgradesOnly
CHECK_DEADLOCK FALSE
