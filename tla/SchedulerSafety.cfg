SPECIFICATION Spec
CONSTANTS
    hrrr = hrrr
    hourly = hourly
    extended = extended
    MaxAttempts = 2
    Runs = {1, 2, 3}
    Models = {hrrr}
    ModelOf <- MCModelOf
    Origin <- MCOrigin
    LongHorizon <- MCLongHorizon
    Hours = {0, 1}
    Lanes = {hourly, extended}
    LaneModel <- MCLaneModel
    CompleteLanes = {extended}
    KeepLatest = 1
    JobCapacity = 4
    JobConcurrency = 2
    OriginPlan = TRUE
    Retention = TRUE
    Pids = {1}
    FaultKinds = {"crash", "cancel", "discovery", "space", "ingest", "shortfall", "lock", "loss", "removal", "extra"}
    MaxFaults = 2
INVARIANTS TypeOK RunningHasThread PublishedRunsHaveState CatalogValid PublishedHoursStored
PROPERTIES RetentionSparesPublished AvailableLanesAdvance ImplementsLifecycle
