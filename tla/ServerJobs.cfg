SPECIFICATION FairSpec
CONSTANTS
    Jobs = {a, b, c}
    Earlier = {a}
    Hashes = {x, y}
    Nobody = Nobody
    MaxActive = 2
    MaxRecords = 2
    Retention = 1
    Heavy = 1
    MaxClock = 2
    MaxFaults = 2
INVARIANTS TypeOK ArtifactsKept AbandonedWorkSignalled PermitsConserved CapacityKept ActiveHasTask
PROPERTIES EndedIsFinal JobsSettle
CHECK_DEADLOCK FALSE
