SPECIFICATION Spec
CONSTANTS
    Trips = {t1}
    Interval = 2
    Day = 7
    Grace = 5
    Slack = 3
    StartDates <- Yesterdays
    Clocks <- ClockErrors
    VehicleLag = 1
    MaxLag = 0
    TickTime = 1
    DownTime = 1
    MaxFails = 1
    MaxCrashes = 0
    MaxTime = 8
    MaxObs = 1
INVARIANTS
    FailedTicksCatchUp
CHECK_DEADLOCK FALSE
