CONSTANTS
    Collectors = {c1, c2}
    Analysts = {a1}
    Readers = {r1}
    Limit = 1
    MaxPolls = 2
    MaxRuns = 1
    MaxRequests = 1
    MaxResets = 1
SPECIFICATION Spec
CHECK_DEADLOCK FALSE
INVARIANTS
    PollsWhole
    TrajectoriesTraceable
    CoherentStatus
PROPERTY
    EverythingEnds
