SPECIFICATION Spec
CONSTANTS
    r1 = r1
    r2 = r2
    r3 = r3
    s1 = s1
    s2 = s2
    NoRequest = NoRequest
    Requests <- ThreeRequests
    Sessions <- TwoSessions
    MaxHistory = 1
    MaxWorkers = 1
CHECK_DEADLOCK FALSE
INVARIANTS
    TraceDelivered
