SPECIFICATION Spec
CONSTANTS
    Cert = {1, 2}
    Service = {s1, s2}
    OverrideId = {o1}
    ExpId = {1, 2}
    Nil = Nil
    Operations = {"recompute", "prune"}
    Caller = {p1, p2}
    RuleSets <- ManyRules
    MaxClock = 3
    KeepN = 1
    MaxAge = 1
    PageSize = 1
    PruneLimit = 1
    AuditThreshold = 1
    SampleCap = 1
    Lifetimes = {1, 2}
    s1 = s1
    s2 = s2
SYMMETRY Symmetry
INVARIANT PinnedExplanationExists
PROPERTY PruneRespectsPolicy
PROPERTY OwnerChangesAreAudited
