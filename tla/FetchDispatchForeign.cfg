SPECIFICATION Spec
CONSTANTS
    A = A
    B = B
    X = X
    N = N
    Requests <- MCRequests
    Promises = {p1}
    Responses <- MCOnlyX
    NullBody = {}
    DispatchLimit = {}
    DrainLimit = {}
    ForeignWaitUntil = TRUE
    MaxEdits = 0
PROPERTY LifetimeHonoured
CHECK_DEADLOCK FALSE
