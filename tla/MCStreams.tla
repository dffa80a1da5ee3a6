------------------------------ MODULE MCStreams ------------------------------
(***************************************************************************)
(* The streams, for TLC: writable, readable and byte streams, and what is  *)
(* built on them: tee(), pipeTo(), TransformStream and iteration.  `kind'  *)
(* says which of the specifications a behaviour follows, and Kinds picks   *)
(* those of a run.  A writable stream is this module's own (EXTENDS); the  *)
(* others share its variable s.                                            *)
(*                                                                         *)
(* A negative size stands for every value that is no size: negative, NaN   *)
(* or infinite.  MCViews has a view of two bytes that are asked for        *)
(* together and one of two elements of two bytes, so that a fill can stop  *)
(* short of the minimum, inside an element and past one.                   *)
(***************************************************************************)
EXTENDS WritableStream

CONSTANTS Kinds, HighWaterMarks, Views, AutoSizes, MaxBytes, Careful

VARIABLE kind

MCSizes == {-1, 0, 1}
MCWords == [len |-> 4, elem |-> 2, min |-> 2]
MCViews == {[len |-> 2, elem |-> 1, min |-> 2], MCWords}

R == INSTANCE ReadableStream WITH MaxReads <- 3, MaxChunks <- 3
B == INSTANCE ByteStream WITH MaxReads <- 3
T == INSTANCE Tee WITH MaxReads <- 2, MaxChunks <- 2
Y == INSTANCE ByteTee WITH MaxReads <- 2, MaxBytes <- 2, Views <- {MCWords}
P == INSTANCE PipeTo WITH MaxChunks <- 2
I == INSTANCE Iteration WITH MaxCalls <- 4, MaxIterators <- 2, MaxChunks <- 2
X == INSTANCE TransformStream WITH MaxReads <- 2, MaxWrites <- 2, MaxEnqueues <- 2

StreamsInit ==
    /\ kind \in Kinds
    /\ \/ kind = "writable" /\ Init
       \/ kind = "readable" /\ frames = <<>> /\ R!Init
       \/ kind = "bytes" /\ frames = <<>> /\ B!Init
       \/ kind = "tee" /\ frames = <<>> /\ T!Init
       \/ kind = "byte tee" /\ frames = <<>> /\ Y!Init
       \/ kind = "pipe" /\ frames = <<>> /\ P!Init
       \/ kind = "transform" /\ frames = <<>> /\ X!Init
       \/ kind = "iteration" /\ frames = <<>> /\ I!Init

StreamsNext ==
    /\ UNCHANGED kind
    /\ \/ kind = "writable" /\ Next
       \/ kind = "readable" /\ R!Next /\ UNCHANGED frames
       \/ kind = "bytes" /\ B!Next /\ UNCHANGED frames
       \/ kind = "tee" /\ T!Next /\ UNCHANGED frames
       \/ kind = "byte tee" /\ Y!Next /\ UNCHANGED frames
       \/ kind = "pipe" /\ P!Next /\ UNCHANGED frames
       \/ kind = "transform" /\ X!Next /\ UNCHANGED frames
       \/ kind = "iteration" /\ I!Next /\ UNCHANGED frames

\* Sinks and sources settle the promises that they return, and jobs are drained: see PipeTo.tla.
StreamsSpec ==
    /\ StreamsInit /\ [][StreamsNext]_<<kind, s, frames>>
    /\ WF_s(kind = "pipe" /\ P!Jobs) /\ WF_s(kind = "pipe" /\ P!SinkAuthor)

-----------------------------------------------------------------------------
(* Properties.  Each is about one of the specifications, and is stated     *)
(* there.                                                                  *)

\* The streams' fields have their types: sizes and their sums stay numbers, whatever size()
\* returns.  No debug_assert or expect of the streams' algorithms can fail, however calls, author code
\* that runs in the middle of an operation and the answers of sinks and sources interleave,
\* and no sink or source method is skipped because it was cleared too early.
StreamAsserts ==
    /\ kind = "writable" => TypeOK /\ AssertsHold /\ SinkMethodsReached
    /\ kind = "readable" => R!TypeOK /\ R!AssertsHold
    /\ kind = "bytes" => B!AssertsHold
    /\ kind = "byte tee" => Y!TeeAsserts
    /\ kind = "pipe" => P!PipeAsserts
    /\ kind = "transform" => X!TransformAsserts
    /\ kind = "iteration" => I!IterationAsserts

\* A closed stream lost no chunk, and nobody waits for a stream that is over.  A writer waits on
\* `ready' exactly while there is backpressure, which is while the queue is at its limit.
WritesAnswered ==
    kind = "writable" =>
        ClosedMeansWritten /\ NothingLeftPending /\ QueuesAgree /\ ReadyTellsBackpressure

SinkCalls == INSTANCE SinkProtocol
    WITH op <- IF kind = "writable" THEN s.sink ELSE "start",
         accepted <- IF kind = "writable" THEN s.accepted ELSE <<>>,
         written <- IF kind = "writable" THEN s.written ELSE <<>>,
         answers <- IF kind = "writable" THEN s.answers ELSE 0,
         fate <- IF kind = "writable" THEN Fate ELSE "open"

\* A writable stream implements the protocol that its sink relies on: one call at a time, each
\* chunk once and in order, close() after the last chunk, abort() instead of what was left.
SinkCallsInOrder == SinkCalls!Spec

HasSource == kind \in {"readable", "bytes"}

SourceCalls == INSTANCE SourceProtocol
    WITH start <- IF HasSource THEN s.start ELSE "pending",
         pulls <- IF HasSource THEN s.pulls ELSE 0,
         cancel <- HasSource /\ s.cancel # "none",
         fate <- CASE kind = "readable" -> R!Fate [] kind = "bytes" -> B!Fate
                   [] OTHER -> "open"

\* Readable streams, of chunks and of bytes, implement the protocol that their source relies
\* on: pull() after start(), one call at a time and while something is wanted; one cancel().
SourceOrder == SourceCalls!Spec

\* Chunks reach reads once and in order, no read is forgotten, and no demand is.  Calls of an
\* iterator get the values of an iterable in the order of the calls, bytes that are read
\* whole are complete, and both have their answers when nothing is left to run.
ReadsServed ==
    /\ kind = "readable" => R!ChunksInOrder /\ R!NoReadForgotten /\ R!DemandRemembered
    /\ kind = "iteration" => I!ValuesInOrder /\ I!IterationComesToRest /\ I!FinishedLetsGo

\* No byte is lost, given twice or out of order, whether it was enqueued or written into a
\* reader's buffer and whichever readers come and go; and every read has its buffer.
BytesServed == kind = "bytes" => B!BytesInOrder /\ B!ReadsMatchBuffers

\* tee(), of chunks and of bytes: both branches get everything that was taken, in order and
\* once, whoever's buffer it was read into; at rest no branch waits for what nobody asked the
\* source for, an error has reached both branches, and whoever canceled or read has an answer.
BranchesServed ==
    /\ kind = "tee" => T!BranchesSeeTheSame /\ T!TeeComesToRest
    /\ kind = "byte tee" =>
           Y!BranchesGetEveryByte /\ Y!ByteTeeComesToRest /\ Y!ClosedBranchesAnswer

\* pipeTo(): chunks are written in order and once, and a pipe that succeeds wrote them all
\* unless the destination failed.
NoChunkLost == kind = "pipe" => P!NoChunkLost

\* pipeTo(): a pipe with an end that is over settles its promise.
PipeSettles == (kind = "pipe" /\ P!Ending) ~> (kind = "pipe" /\ s.promise # "pending")

\* The reader that an iterator releases or reads from holds the stream, as the code expects.
ReaderHasStream == kind = "iteration" => I!IterationAsserts

\* TransformStream: one end does not go on without the other, and the identity transform hands
\* each chunk on once, in order and under backpressure unless size() itself reads.
TransformInStep == kind = "transform" => X!EndsTogether /\ X!IdentityInOrder

=============================================================================
