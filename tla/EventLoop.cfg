SPECIFICATION FairSpec
CONSTANTS
    Timeouts <- MCTimeouts
    MinNested = 1
    NestLimit = 1
    MaxNesting = 3
    MaxTasks = 3
    MaxTime = 2
INVARIANTS
    IndexesAgree
    TimerIdsMatchTasks
PROPERTIES
    ClearedNeverStarts
    TimersInTurn
    ReadyTasksRun
