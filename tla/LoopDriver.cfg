SPECIFICATION Spec
CONSTANTS
    Unowned = {f2}
    A = A
    B = B
    Loops <- MCLoops
    Draining <- MCDraining
    Futures = {f1, f2}
    Handles = {h1}
    ForeignCancel = TRUE
    MaxDue = 1
    MaxTimers = 0
    Stoppable <- MCStoppable
INVARIANTS
    WokenInTime
PROPERTIES
    DoneMeansNothingLeft
    FuturesStayTheirs
CHECK_DEADLOCK FALSE
