SPECIFICATION FairSpec
CONSTANTS
    Tags = {t1}
    Services = {s1}
    Groups = {g1, g2, g3}
    AgentGroups = {ag1}
    Agents = {a1}
    Certificates = {x1}
    Tagged = {x1, ag1}
    Seeded = {g1, g2, s1}
    Owners = {w1}
    Callers = {c1, c2}
    MaxDepth = 2
    MaxRequests = 3
    MaxFaults = 1
    Nil = Nil
    Kept = Kept
    Rules = {r1}
    Overrides = {o1}
    Editors = {e1, e2}
    Patterns = {v1, v2}
    Priorities = {1, 2}
INVARIANT TablesAgree
INVARIANT CyclesComeFromRaces
INVARIANT LostFieldsComeFromRaces
PROPERTY ChecksFailOnlyByRace
PROPERTY RequestEnds
CHECK_DEADLOCK FALSE
