--------------------------- MODULE ReadableStream ---------------------------
(***************************************************************************)
(* ReadableStream with its default controller and default readers          *)
(* (builtins/web-streams/src/readable/).                                   *)
(*                                                                         *)
(* The stream is one record and each abstract operation of algorithms.rs   *)
(* an operator on it, as in WritableStream.  Three operations call the     *)
(* source's or the strategy's code in the middle and go on afterwards with *)
(* whatever it left behind: enqueue() calls size(), cancel() the source's  *)
(* cancel(), and whatever makes room calls pull() -- in the case of read() *)
(* before the chunk it took is handed over.  Such a call is a frame on a   *)
(* stack, and other calls happen above it.  Microtasks run when it is      *)
(* empty.                                                                  *)
(*                                                                         *)
(* Only one reader at a time has the lock, and a released reader's calls   *)
(* fail without touching the stream, so readers are not told apart.  Calls *)
(* of read() and enqueue() are numbered; a chunk is the number of the call *)
(* that brought it.  A getter for `then' on Object.prototype, which        *)
(* resolving a read would run, is not modelled.                            *)
(*                                                                         *)
(* Every debug_assert and expect of the functions modelled is conjoined to *)
(* `ok', and so is that a source method to be called was not cleared.      *)
(***************************************************************************)
EXTENDS Integers, Sequences

CONSTANTS
    MaxReads,       \* bound on calls of read()
    MaxChunks,      \* bound on calls of enqueue()
    Sizes,          \* what size() returns; a negative one stands for all that are no size
    HighWaterMarks  \* strategy_hwm: zero for streams over native sources, one by default

VARIABLE s   \* the stream, its controller, reader and promises, and the suspended calls

Reads == 1..MaxReads
ChunkNumbers == 1..MaxChunks
None == 0   \* no read, no chunk

-----------------------------------------------------------------------------
(* The stream.                                                             *)

Range(seq) == {seq[i] : i \in DOMAIN seq}

DebugAssert(r, cond) == [r EXCEPT !.ok = @ /\ cond]
Readable(r) == r.state = "readable"
ReadsWait(r) == r.locked /\ r.requests # <<>>
ResetQueue(r) == [r EXCEPT !.queue = <<>>, !.total = 0]
ClearAlgorithms(r) == [r EXCEPT !.algorithms = FALSE]

\* settle_request_snapshot: every waiting read gets the same answer.
SettleRequests(r, how) ==
    [r EXCEPT !.requests = <<>>,
              !.readP = [i \in Reads |->
                             IF i \in Range(r.requests) THEN how ELSE r.readP[i]]]

ErrorReadRequests(r) == SettleRequests(r, "rejected")

\* readable_stream_close and readable_stream_error, which differ in what they say.
EndStream(r, state, closed, how) ==
    LET r1 == [DebugAssert(r, Readable(r)) EXCEPT !.state = state] IN
    IF r.locked THEN SettleRequests([r1 EXCEPT !.closed = closed], how) ELSE r1

StreamClose(r) == EndStream(r, "closed", "resolved", "done")
StreamError(r) == EndStream(r, "errored", "rejected", "rejected")

ControllerError(r) ==
    IF Readable(r) THEN StreamError(ClearAlgorithms(ResetQueue(r))) ELSE r

\* The chunk steps of a read request.
ChunkSteps(r, read, chunk) ==
    IF read = None THEN r
    ELSE [r EXCEPT !.readP[read] = "chunk", !.chunkOf[read] = chunk]

DesiredSize(r) == IF Readable(r) THEN r.hwm - r.total ELSE 0
CanCloseOrEnqueue(r) == ~r.closeRequested /\ Readable(r)

\* Mutant: pull() is called while start() is under way.
ShouldCallPull_Unstarted(r) ==
    /\ CanCloseOrEnqueue(r)
    /\ ReadsWait(r) \/ DesiredSize(r) > 0

ShouldCallPull(r) ==
    /\ CanCloseOrEnqueue(r)
    /\ r.started
    /\ ReadsWait(r) \/ DesiredSize(r) > 0

PushFrame(r, call, read, chunk) ==
    [r EXCEPT !.frames = Append(@, [call |-> call, read |-> read, chunk |-> chunk])]

\* call_pull_if_needed.  The source's pull() is author code: the rest of the call, which is
\* to hand `chunk' to `read' if there are any, comes after it.
CallPullIfNeeded(r, read, chunk) ==
    IF ~ShouldCallPull(r) THEN ChunkSteps(r, read, chunk)
    ELSE IF r.pulling THEN ChunkSteps([r EXCEPT !.pullAgain = TRUE], read, chunk)
    ELSE PushFrame([DebugAssert(r, ~r.pullAgain /\ r.algorithms) EXCEPT
                        !.pulling = TRUE, !.pulls = @ + 1, !.asked = FALSE],
                   "pull", read, chunk)

-----------------------------------------------------------------------------
(* Calls from JavaScript and from native consumers.                        *)

GenericInitialize(r) ==
    [r EXCEPT !.closed = CASE r.state = "readable" -> "pending"
                           [] r.state = "closed"   -> "resolved"
                           [] r.state = "errored"  -> "rejected"]

\* set_up_readable_stream_default_reader.
GetReader ==
    /\ ~s.locked
    /\ s' = GenericInitialize([s EXCEPT !.locked = TRUE])

\* default_reader_release: reads that wait are rejected.  What becomes of the closed promise
\* no longer depends on the stream.
ReleaseLock ==
    /\ s.locked
    /\ s' = [ErrorReadRequests(s) EXCEPT !.locked = FALSE, !.closed = "none"]

\* dequeue_value.
DequeueValue(r) ==
    LET total == r.total - Head(r.queue).size IN
    [DebugAssert(r, r.queue # <<>>) EXCEPT
        !.queue = Tail(@), !.total = IF total < 0 THEN 0 ELSE total]

InSize(r) == \E f \in Range(r.frames) : f.call = "size"

\* pull_steps: a chunk from the queue, or a place in the list of requests.
PullSteps(r, read) ==
    LET r1 == [DequeueValue(r) EXCEPT !.asked = TRUE]
        chunk == Head(r.queue).chunk
        last == r.closeRequested /\ r1.queue = <<>>
    IN IF r.queue = <<>>
       THEN CallPullIfNeeded(
                [DebugAssert(r, r.locked) EXCEPT
                    !.requests = Append(@, read), !.asked = TRUE,
                    !.readInSize = @ \/ InSize(r)], None, None)
       ELSE IF last THEN ChunkSteps(StreamClose(ClearAlgorithms(r1)), read, chunk)
       ELSE CallPullIfNeeded(r1, read, chunk)

\* reader.read(), and the reads of native consumers.
Read ==
    /\ s.locked /\ s.reads < MaxReads
    /\ LET read == s.reads + 1
           r == [s EXCEPT !.reads = read, !.readP[read] = "pending"]
       IN s' = CASE s.state = "closed"   -> [r EXCEPT !.readP[read] = "done"]
                 [] s.state = "errored"  -> [r EXCEPT !.readP[read] = "rejected"]
                 [] s.state = "readable" -> PullSteps(r, read)

\* The stream takes a chunk, and owes it to the next read that has none.
Accept(r, chunk) == [r EXCEPT !.accepted = Append(@, chunk)]

\* readable_stream_fulfill_read_request.
FulfillReadRequest(r, chunk) ==
    ChunkSteps([DebugAssert(r, r.requests # <<>>) EXCEPT !.requests = Tail(@)],
               Head(r.requests), chunk)

\* controller.enqueue(): a read that waits gets the chunk, else size() is called.
Enqueue ==
    /\ CanCloseOrEnqueue(s) /\ s.chunks < MaxChunks
    /\ LET chunk == s.chunks + 1
           r == [s EXCEPT !.chunks = chunk]
       IN s' = IF ReadsWait(s)
               THEN CallPullIfNeeded(FulfillReadRequest(Accept(r, chunk), chunk), None, None)
               ELSE PushFrame(r, "size", None, chunk)

\* The rest of enqueue(), once the size is known.  The state is not looked at again: in a
\* stream that has ended meanwhile the chunk stays in a queue that nobody reads.
FinishEnqueue(r, chunk, size) ==
    LET r1 == [r EXCEPT !.queue = Append(@, [chunk |-> chunk, size |-> size]),
                        !.total = @ + size]
    IN IF size < 0 THEN ControllerError(r)
       ELSE CallPullIfNeeded(IF Readable(r) THEN Accept(r1, chunk) ELSE r1, None, None)

\* controller.close().
Close ==
    /\ CanCloseOrEnqueue(s)
    /\ LET r == [s EXCEPT !.closeRequested = TRUE] IN
       s' = IF s.queue = <<>> THEN StreamClose(ClearAlgorithms(r)) ELSE r

\* controller.error(), and ReadableStream::error.
Error ==
    /\ Readable(s)
    /\ s' = ControllerError(s)

\* readable_stream_cancel, for stream.cancel(), reader.cancel() and cancel_internal: the
\* stream is closed and its queue emptied, then the source is told.
Cancel ==
    /\ Readable(s)
    /\ LET r == ResetQueue(StreamClose(s)) IN
       s' = PushFrame([DebugAssert(r, r.algorithms) EXCEPT !.cancel = "running"],
                      "cancel", None, None)

-----------------------------------------------------------------------------
(* Author code returns.                                                    *)

Innermost == s.frames[Len(s.frames)]
InCall(call) == s.frames # <<>> /\ Innermost.call = call
Popped == [s EXCEPT !.frames = SubSeq(@, 1, Len(@) - 1)]

SizeReturns(size) ==
    /\ InCall("size")
    /\ s' = FinishEnqueue(Popped, Innermost.chunk, size)

SizeThrows ==
    /\ InCall("size")
    /\ s' = ControllerError(Popped)

\* pull() returned or threw: reactions to its promise are attached.
PullReturns ==
    /\ InCall("pull")
    /\ s' = ChunkSteps(Popped, Innermost.read, Innermost.chunk)

CancelReturns ==
    /\ InCall("cancel")
    /\ s' = ClearAlgorithms([Popped EXCEPT !.cancel = "pending"])

-----------------------------------------------------------------------------
(* Reactions to the source's promises: microtasks.                         *)

\* start_promise_fulfilled.
StartFulfilled ==
    /\ s.frames = <<>> /\ s.start = "pending"
    /\ s' = CallPullIfNeeded(
                [DebugAssert(s, ~s.pulling /\ ~s.pullAgain) EXCEPT
                    !.start = "fulfilled", !.started = TRUE], None, None)

StartRejected ==
    /\ s.frames = <<>> /\ s.start = "pending"
    /\ s' = ControllerError([s EXCEPT !.start = "rejected"])

\* Mutant: a pull asked for meanwhile is not made.
PullFulfilled_Forgets ==
    /\ s.frames = <<>> /\ s.pulls > 0
    /\ s' = [s EXCEPT !.pulls = @ - 1, !.pulling = FALSE, !.pullAgain = FALSE]

\* pull_promise_fulfilled.
PullFulfilled ==
    /\ s.frames = <<>> /\ s.pulls > 0
    /\ LET r == [s EXCEPT !.pulls = @ - 1, !.pulling = FALSE, !.pullAgain = FALSE] IN
       s' = IF s.pullAgain THEN CallPullIfNeeded(r, None, None) ELSE r

\* pull_promise_rejected: the stream is over, and the flag stays set.
PullRejected ==
    /\ s.frames = <<>> /\ s.pulls > 0
    /\ s' = ControllerError([s EXCEPT !.pulls = @ - 1])

CancelSettled ==
    /\ s.frames = <<>> /\ s.cancel = "pending"
    /\ s' = [s EXCEPT !.cancel = "settled"]

-----------------------------------------------------------------------------
\* A stream with its controller set up, before the call of the source's start().
NewStream(hwm) ==
    [hwm |-> hwm, state |-> "readable", locked |-> FALSE, closed |-> "none",
     requests |-> <<>>,
     queue |-> <<>>, total |-> 0, started |-> FALSE, pulling |-> FALSE,
     pullAgain |-> FALSE, closeRequested |-> FALSE, algorithms |-> TRUE,
     readP |-> [i \in Reads |-> "none"], chunkOf |-> [i \in Reads |-> None],
     reads |-> 0, chunks |-> 0, accepted |-> <<>>,
     start |-> "pending", pulls |-> 0, cancel |-> "none",
     asked |-> FALSE, readInSize |-> FALSE, frames |-> <<>>, ok |-> TRUE]

\* The constructor, up to the call of the source's start(), which may use the controller.
Init == \E hwm \in HighWaterMarks : s = NewStream(hwm)

Js == GetReader \/ ReleaseLock \/ Read \/ Enqueue \/ Close \/ Error \/ Cancel

AuthorCodeReturns ==
    (\E size \in Sizes : SizeReturns(size)) \/ SizeThrows \/ PullReturns \/ CancelReturns

Reaction == StartFulfilled \/ StartRejected \/ PullFulfilled \/ PullRejected \/ CancelSettled

Next == Js \/ AuthorCodeReturns \/ Reaction

Spec == Init /\ [][Next]_s

-----------------------------------------------------------------------------
(* Properties.                                                             *)

\* The fields of the stream, and the frames of suspended calls, have their types.
TypeOK ==
    /\ s.state \in {"readable", "closed", "errored"}
    /\ \A b \in {s.locked, s.started, s.pulling, s.pullAgain, s.closeRequested, s.algorithms,
                 s.asked, s.readInSize, s.ok} : b \in BOOLEAN
    /\ s.closed \in {"none", "pending", "resolved", "rejected"}
    /\ s.requests \in Seq(Reads)
    /\ s.queue \in Seq([chunk : ChunkNumbers, size : Nat]) /\ s.total \in Nat
    /\ s.hwm \in HighWaterMarks
    /\ s.readP \in [Reads -> {"none", "pending", "chunk", "done", "rejected"}]
    /\ s.chunkOf \in [Reads -> ChunkNumbers \cup {None}]
    /\ s.reads \in Reads \cup {None} /\ s.chunks \in ChunkNumbers \cup {None}
    /\ s.accepted \in Seq(ChunkNumbers)
    /\ s.start \in {"pending", "fulfilled", "rejected"} /\ s.pulls \in Nat
    /\ s.cancel \in {"none", "running", "pending", "settled"}
    /\ s.frames \in Seq([call : {"size", "pull", "cancel"}, read : Reads \cup {None},
                         chunk : ChunkNumbers \cup {None}])

\* No debug_assert of the default controller's algorithms can fail, and pull() and cancel()
\* are never skipped because they were cleared too early, whatever author code does in the
\* middle of an operation.
AssertsHold == s.ok

\* The read that has taken the chunk of a suspended pull() and is about to get it.
InHand(read) == \E f \in Range(s.frames) : f.read = read
ChunkFor(read) ==
    IF InHand(read) THEN (CHOOSE f \in Range(s.frames) : f.read = read).chunk
    ELSE s.chunkOf[read]

Given == SelectSeq([i \in 1..s.reads |-> ChunkFor(i)], LAMBDA chunk : chunk # None)
Queued == [i \in 1..Len(s.queue) |-> s.queue[i].chunk]

\* ChunkNumbers reach reads once each and in the order they were taken, by read() call and not by
\* the time it is answered, across readers; none is lost while the stream is readable, none
\* is left when the source closed it, and no read waits while there is a chunk for it.  The
\* one exception the code makes is a read() made by size() itself, which is waiting when the
\* chunk that is being measured joins the queue.
ChunksInOrder ==
    ~s.readInSize =>
        /\ Readable(s) => s.accepted = Given \o Queued
        /\ s.state = "closed" /\ s.cancel = "none" => s.accepted = Given
        /\ SubSeq(s.accepted, 1, Len(Given)) = Given
        /\ s.requests # <<>> => s.queue = <<>> \/ ~Readable(s)

\* No read is forgotten: a read that is not answered is in the list of requests of the
\* reader that has the lock, or in hand; and nobody waits for a stream that is over.
NoReadForgotten ==
    /\ \A i \in Reads :
          s.readP[i] = "pending" => InHand(i) \/ (s.locked /\ i \in Range(s.requests))
    /\ \A i \in Range(s.requests) : s.readP[i] = "pending" /\ ~InHand(i)
    /\ ~Readable(s) => s.requests = <<>> /\ s.closed # "pending"

\* Demand is not lost: when a read() came after the last call of pull() and the stream still
\* wants a chunk, pull() is under way and will be called again.
DemandRemembered == s.asked /\ ShouldCallPull(s) => s.pulling /\ s.pullAgain /\ s.pulls = 1

Fate == IF ~Readable(s) THEN "over" ELSE IF s.closeRequested THEN "closing" ELSE "open"

=============================================================================
