SPECIFICATION Spec
CONSTANTS
    Kinds = {"host body"}
    Careful = FALSE
    Scopes = {s1, s2, s3}
    Handles = {h1, h2, h3}
    Pages = {p1, p2}
    Boxes = {b1, b2}
    PageSize = 2
    MaxFreeAllocs = 1
    MaxLevels = 3
    Null = Null
INVARIANT ReservedIsSent
CHECK_DEADLOCK FALSE
