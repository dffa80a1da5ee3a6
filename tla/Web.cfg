SPECIFICATION Spec
CONSTANTS
    Kinds = {"events", "signals", "listeners", "headers", "fetch", "host body", "owners", "modules", "handles"}
    Careful = TRUE
    Scopes = {s1, s2, s3}
    Handles = {h1, h2, h3}
    Pages = {p1, p2}
    Boxes = {b1, b2}
    PageSize = 2
    MaxFreeAllocs = 1
    MaxLevels = 3
    Null = Null
INVARIANTS
    DependentsFollow ListenersFollow OriginsKeptApart BodyIsWhole
    AbortTakesHold HostBodyServed BodiesReadOnce OneInstance RootsStay
PROPERTIES HeadersStaySafe OnlyListenersAreCalled
CHECK_DEADLOCK FALSE
