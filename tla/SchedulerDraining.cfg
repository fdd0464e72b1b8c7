SPECIFICATION FairSpec
CONSTANTS
    Rows = {1}
    Registered = {1}
    Runners = {u1}
    Keys = {k1, k2}
    LockKey <- DistinctKeys
    LastItem = 3
    PageSize = 1
    MaxPagesPerRun = 2
    MaxRunDuration = 1
    PartialRequeueDelay = 1
    JobInterval = 1
    RetryBase = 1
    RetryMax = 2
    ListLimit = 1
    FaultKinds = {"crash", "cancel", "database"}
    MaxFaults = 1
    MaxFailures = 2
    k1 = k1
    k2 = k2
    NoRunner = NoRunner
INVARIANT NothingSkipped
PROPERTY BackoffMatchesFailures
PROPERTY EligibleIsProcessed
PROPERTY RunningIsRetried
