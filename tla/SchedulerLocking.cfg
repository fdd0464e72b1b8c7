SPECIFICATION Spec
CONSTANTS
    Rows = {1, 2}
    Registered = {1}
    Runners = {u1, u2}
    Keys = {k1, k2}
    LockKey <- CollidingKeys
    LastItem = 1
    PageSize = 1
    MaxPagesPerRun = 1
    MaxRunDuration = 1
    PartialRequeueDelay = 1
    JobInterval = 1
    RetryBase = 1
    RetryMax = 1
    ListLimit = 2
    FaultKinds = {"crash", "cancel", "database", "session"}
    MaxFaults = 1
    MaxFailures = 1
    k1 = k1
    k2 = k2
    NoRunner = NoRunner
SYMMETRY Symmetry
INVARIANT TypeOK
INVARIANT MutualExclusion
PROPERTY RowChangesUnderLock
