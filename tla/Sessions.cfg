SPECIFICATION Spec
CONSTANTS
    Users = {u1}
    Sessions = {s1}
    Callers = {c1, c2}
    Idle = 2
    Absolute = 3
    MaxClock = 4
    MaxRequests = 5
    MaxFaults = 1
    Nil = Nil
INVARIANT TablesAgree
INVARIANT OverIsOver
PROPERTY SessionsEnd
CHECK_DEADLOCK FALSE
