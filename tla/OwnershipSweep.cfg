SPECIFICATION FairSpec
CONSTANTS
    Cert = {1, 2}
    Service = {s1}
    OverrideId = {o1, o2}
    ExpId = {1, 2, 3, 4}
    Nil = Nil
    Operations = {"create", "sweep"}
    Caller = {p1, p2}
    RuleSets <- NoRules
    MaxClock = 2
    KeepN = 1
    MaxAge = 1
    PageSize = 1
    PruneLimit = 1
    AuditThreshold = 1
    SampleCap = 1
    Lifetimes = {1}
    s1 = s1
    s2 = s2
PROPERTY ExpiredIsCleared
