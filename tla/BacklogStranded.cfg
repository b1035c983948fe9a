SPECIFICATION FairSpec
CONSTANTS
    hrrr = hrrr
    hourly = hourly
    extended = extended
    MaxAttempts = 2
    Runs = {1, 2, 3, 4, 5}
    Models = {hrrr}
    ModelOf <- MCModelOf
    Origin <- MCOrigin
    LongHorizon <- MCEarlyLongHorizon
    Hours = {0}
    Lanes = {hourly, extended}
    LaneModel <- MCLaneModel
    CompleteLanes = {extended}
    KeepLatest = 1
    JobCapacity = 4
    JobConcurrency = 2
    OriginPlan = TRUE
    Retention = TRUE
    Pids = {1}
    FaultKinds = {"ingest"}
    MaxFaults = 1
PROPERTY ActiveJobsSettle
