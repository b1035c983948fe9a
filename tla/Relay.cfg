SPECIFICATION Spec
CONSTANTS
    ua = ua
    ub = ub
    obj = obj
    Users = {ua, ub}
    Objects = {obj}
    Size <- MCSize
    Retained <- MCRetained
    Times = {0, 2, 3}
    MonthLength = 2
    Lifetime = 3
    UploadQuota = 2
    DownloadQuota = 1
    StorageQuota = 1
    Concurrency = 1
    GlobalConcurrency = 2
    GlobalQuota = 2
    CostStop = 2
    PromoteCount = 1
    PromoteBytes = 5
    ConfigKill = FALSE
    MaxSessions = 2
    MaxFaults = 2
SYMMETRY Symmetry
INVARIANTS TypeOK LedgerAccepted RestartForgetsNothing PromotedOnce UnhealthyIsStopped DispatchesLive
