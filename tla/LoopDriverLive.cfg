SPECIFICATION FairSpec
CONSTANTS
    Unowned = {}
    A = A
    B = B
    Loops <- MCLoops
    Draining <- MCDraining
    Stoppable = {}
    Futures = {f1}
    Handles = {}
    ForeignCancel = FALSE
    MaxDue = 1
    MaxTimers = 1
PROPERTIES
    CompletedFuturesSettle
    DueTasksRun
CHECK_DEADLOCK FALSE
