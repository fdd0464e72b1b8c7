SPECIFICATION Spec
CONSTANTS
    Cert = {1}
    Service = {s1}
    OverrideId = {o1, o2}
    ExpId = {1, 2, 3, 4}
    Nil = Nil
    Operations = {"create", "clear", "sweep", "recompute", "recompute_nowait"}
    Caller = {p1, p2}
    RuleSets <- OneRule
    MaxClock = 2
    KeepN = 1
    MaxAge = 1
    PageSize = 1
    PruneLimit = 1
    AuditThreshold = 1
    SampleCap = 1
    Lifetimes = {1, 2}
    s1 = s1
    s2 = s2
SYMMETRY Symmetry
INVARIANT OverrideGoverns
INVARIANT SnapshotIsCurrent
INVARIANT AuditTellsOverrideLife
