SPECIFICATION Spec
CONSTANTS
    Cert = {1, 2, 3}
    Certificate <- Flawed
    Rules <- DefaultRules
    IdOf <- MixedIds
    PageSize = 2
    expiringSoonWindow = 1
    longLivedThreshold = 2
    Org = {1}
    OrgOf <- OneOrg
    Broken = {}
    Operator = {}
    Scheduler = {s1}
    MaxClock = 3
    Lifetimes = {1}
    Nil = Nil
    s1 = s1
    p1 = p1
    p2 = p2
INVARIANT StreamingEqualsLoadAll
