SPECIFICATION Spec
CONSTANTS
    Kinds = {"component"}
    Conns = {c1, c2}
    Requests = {q1, q2, q3}
    MaxTime = 2
    MaxRequests = 3
    MaxConnections = 2
    MaxSent = 5
    MaxFrame = 2
    MaxBody = 4
    Budget = 1
    MaxChunks = 3
    MaxLength = 2
    BatchLimit = 2
    Buffer = 0
INVARIANT DrivingIsDriven
CHECK_DEADLOCK FALSE
