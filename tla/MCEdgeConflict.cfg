CONSTANTS
    r1 = r1
    r2 = r2
    c1 = c1
    c2 = c2
    c3 = c3
    Requests = {r1}
    Callers = {c1, c2}
    Target <- McTarget
    MaxConn = 1
SPECIFICATION Spec
INVARIANT RejectionMeansNotDispatched
CHECK_DEADLOCK FALSE
