SPECIFICATION FairSpec
CONSTANTS
    A = A
    B = B
    X = X
    N = N
    Requests <- MCRequests
    Promises = {p1}
    Responses <- MCResponses
    NullBody <- MCNull
    DispatchLimit <- MCOnlyA
    DrainLimit <- MCOnlyB
    ForeignWaitUntil = TRUE
    MaxEdits = 1
INVARIANTS SentOnce LifetimeCounted
PROPERTY AnsweredInTime
CHECK_DEADLOCK FALSE
