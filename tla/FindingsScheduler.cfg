SPECIFICATION FairSpec
CONSTANTS
    Cert = {1}
    Certificate <- OneCert
    Rules <- ExpiryRules
    IdOf <- MixedIds
    PageSize = 1
    expiringSoonWindow = 1
    longLivedThreshold = 2
    Org = {1, 2}
    OrgOf <- LastOrg
    Broken = {1}
    Operator = {p1}
    Scheduler = {s1}
    MaxClock = 3
    Lifetimes = {1}
    Nil = Nil
    s1 = s1
    p1 = p1
    p2 = p2
PROPERTY ExpiredIsReported
PROPERTY SuppressionLapses
INVARIANT RowConsistent
INVARIANT SnapshotIsCurrent
INVARIANT RecomputeIsIdempotent
INVARIANT AuditExplainsOverride
PROPERTY CountersTellTheChange
