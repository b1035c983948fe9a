SPECIFICATION Spec
CONSTANTS
    g1 = g1
    g2 = g2
    a = a
    n1 = n1
    x = x
    NoGen = NoGen
    Gens = {g1, g2}
    Owners = {a}
    Namespaces = {n1}
    ChunkIds = {x}
    Owner <- MCOwner
    Ns <- MCNs
    Chunks <- MCChunks
    Size <- MCSize
    Since <- MCSince
    Retain <- MCRetain
    Shared = {n1}
    Times = {0, 1}
    Skew = 0
    UploadTtl = 1
    MonthLength = 1
    MaxOwnerUploads = 1
    MaxUploads = 2
    MaxOwnerGenerations = 2
    MaxGenerations = 2
    MaxOwnerStorage = 2
    MaxStorage = 2
    MaxOwnerMonthly = 1
    MaxMonthly = 1
    MaxDeletions = 2
    MaxRequests = 1
    MaxSweeps = 1
    MaxFaults = 0
INVARIANT OneAuthority
CHECK_DEADLOCK FALSE
