SPECIFICATION Spec
CONSTANTS
    Agent = {1}
    Cert = {1, 2}
    Store = {1, 2}
    Batches <- OneAgentBatches
    Caller = {p1}
    maxClockSkew = 1
    MaxClock = 2
    MaxSubmits = 3
    MaxFaults = 0
    Nil = Nil
    Lists = {}
    PageLimit = 1
PROPERTY BatchSettlesItsStores
CHECK_DEADLOCK FALSE
