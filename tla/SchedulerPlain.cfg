SPECIFICATION FairSpec
CONSTANTS
    hrrr = hrrr
    hourly = hourly
    extended = extended
    MaxAttempts = 2
    Runs = {1, 2, 3}
    Models = {hrrr}
    ModelOf <- MCModelOf
    Origin <- MCOrigin
    LongHorizon <- MCLongHorizon
    Hours = {0, 1}
    Lanes = {}
    LaneModel <- MCLaneModel
    CompleteLanes = {}
    KeepLatest = 1
    JobCapacity = 2
    JobConcurrency = 2
    OriginPlan = FALSE
    Retention = TRUE
    Pids = {1}
    FaultKinds = {"ingest", "discovery", "removal", "lock"}
    MaxFaults = 2
INVARIANT AdmissionBounded
PROPERTY StateFilesBounded
