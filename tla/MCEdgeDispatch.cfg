CONSTANTS
    r1 = r1
    r2 = r2
    c1 = c1
    c2 = c2
    c3 = c3
    Requests = {r1, r2}
    Callers = {c1, c2, c3}
    Target <- McTarget
    MaxConn = 2
SPECIFICATION Spec
SYMMETRY Symmetry
INVARIANTS DispatchedAtMostOnce AnswersAreTrue SuccessIsDurable
PROPERTY ForgetsOnlyStored
CHECK_DEADLOCK FALSE
