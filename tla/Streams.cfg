SPECIFICATION StreamsSpec
CONSTANTS
    Kinds = {"writable", "readable", "bytes", "tee", "byte tee", "pipe", "transform", "iteration"}
    Writers = {w1, w2}
    Chunks = {c1, c2, c3}
    Sizes <- MCSizes
    HighWaterMark = 1
    HighWaterMarks = {0, 1}
    Views <- MCViews
    AutoSizes = {0, 2}
    MaxBytes = 4
    Careful = TRUE
INVARIANTS
    StreamAsserts WritesAnswered ReadsServed BytesServed
    BranchesServed NoChunkLost TransformInStep
PROPERTIES SinkCallsInOrder SourceOrder PipeSettles
CHECK_DEADLOCK FALSE
