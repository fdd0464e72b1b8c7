SPECIFICATION Spec
CONSTANTS
    Packages = {p1, p2}
    Agents = {a1, a2}
    Callers = {c1, c2}
    Orgs = {o1, o2}
    InstallIds = {i1}
    NoInstall = NoInstall
    OrgOf <- OneOrg
    MaxUses = 1
    Lifetimes = {1}
    MaxClock = 2
    MaxRequests = 4
    MaxFaults = 1
    Nil = Nil
    o1 = o1
    o2 = o2
INVARIANT SeatsMatchAgents
INVARIANT RejectionsAreTrue
INVARIANT TablesAgree
PROPERTY ImplementsSeatQuota
CHECK_DEADLOCK FALSE
