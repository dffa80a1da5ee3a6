SPECIFICATION StreamsSpec
CONSTANTS
    Kinds = {"iteration"}
    Writers = {w1, w2}
    Chunks = {c1, c2, c3}
    Sizes <- MCSizes
    HighWaterMark = 1
    HighWaterMarks = {0, 1}
    Views <- MCViews
    AutoSizes = {0, 2}
    MaxBytes = 4
    Careful = FALSE
INVARIANT ReaderHasStream
CHECK_DEADLOCK FALSE
