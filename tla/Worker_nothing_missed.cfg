SPECIFICATION Spec
CONSTANTS
    Trips = {t1}
    Interval = 2
    Day = 7
    Grace = 5
    Slack = 3
    StartDates <- Yesterdays
    Clocks <- ClockErrors
    VehicleLag = 1
    MaxLag = 1
    TickTime = 1
    DownTime = 1
    MaxFails = 1
    MaxCrashes = 1
    MaxTime = 9
    MaxObs = 2
INVARIANTS
    NothingMissed
CHECK_DEADLOCK FALSE
