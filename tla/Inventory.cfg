SPECIFICATION FairSpec
CONSTANTS
    Agent = {1, 2}
    Cert = {1, 2}
    Store = {1, 2}
    Batches <- AllBatches
    Caller = {p1, p2}
    maxClockSkew = 1
    MaxClock = 2
    MaxSubmits = 3
    MaxFaults = 1
    Nil = Nil
    Lists <- AllLists
    PageLimit = 1
INVARIANT TablesAgree
INVARIANT ObservationsFollowReports
INVARIANT WalkIsExact
PROPERTY KeyMaterialIsAudited
PROPERTY SubmitEnds
CHECK_DEADLOCK FALSE
