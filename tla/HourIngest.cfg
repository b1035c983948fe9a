SPECIFICATION FairSpec
CONSTANTS
    Jobs = {a, b}
    Hours = {1, 2}
    Workers = {u, v}
    HourLimit = 2
    Budget = 2
    InitialUse = {1}
INVARIANTS TypeOK GateCountsHolders OvershootBounded OkMeansAllIngested
PROPERTIES CallsReturn ImplementsContract
CHECK_DEADLOCK FALSE
