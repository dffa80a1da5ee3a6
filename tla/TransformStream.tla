--------------------------- MODULE TransformStream ---------------------------
(***************************************************************************)
(* TransformStream and its controller (builtins/web-streams/src/transform).*)
(*                                                                         *)
(* A transform stream ties a writable to a readable with a backpressure    *)
(* flag, a promise for its next change, and one finish promise for the     *)
(* first of close(), abort() and cancel() to come.  The two streams are    *)
(* kept as far as the transform can see them; WritableStream.tla and       *)
(* ReadableStream.tla model each in full.                                  *)
(*                                                                         *)
(* Reactions run in the order they were queued (`jobs').  The transformer  *)
(* and size() are author code that runs inside a call: a frame keeps the   *)
(* rest of it, and anything may happen meanwhile.  A transformer without   *)
(* transform() is the identity, whose enqueue of a chunk calls size() like *)
(* any other.  Chunks are numbered and each has size 1; what a transformer *)
(* makes of them is not.                                                   *)
(*                                                                         *)
(* enqueue() asserts that backpressure only ever rises under it.  It falls *)
(* when one synchronous piece of author code fills the readable, reads it  *)
(* empty and enqueues again before the reaction to the end of the last     *)
(* pull has run.  With Careful authors do not do this.                     *)
(***************************************************************************)
EXTENDS Integers, SequencesExt

CONSTANTS
    MaxWrites,          \* bound on calls of write()
    MaxReads,           \* bound on calls of read()
    MaxEnqueues,        \* bound on calls of enqueue() by a transformer
    HighWaterMarks,     \* of the readable, zero by default
    Careful             \* authors avoid what enqueue() asserts, see above

VARIABLE s              \* both streams, the controller, jobs and suspended calls

PushWith(r, job, how) == [r EXCEPT !.jobs = Append(@, <<job, how>>)]
Push(r, job) == PushWith(r, job, "done")
DebugAssert(r, cond) == [r EXCEPT !.ok = @ /\ cond]
Suspend(r, call) == [r EXCEPT !.frames = Append(@, call)]
ClearAlgorithms(r) == [r EXCEPT !.algorithms = FALSE]

-----------------------------------------------------------------------------
(* Backpressure.                                                           *)

\* transform_stream_set_backpressure: the promise of the change is resolved, and whoever
\* waits for it, a pull or a write, gets its job.
SetBackpressure(r, on) ==
    [DebugAssert(r, r.backpressure # on) EXCEPT
        !.backpressure = on, !.jobs = @ \o r.waiters, !.waiters = <<>>]

UnblockWrite(r) == IF r.backpressure THEN SetBackpressure(r, FALSE) ELSE r

\* transform_stream_default_source_pull_algorithm: the pull ends with the next change.
SourcePull(r) ==
    [SetBackpressure(DebugAssert(r, r.backpressure), FALSE) EXCEPT !.waiters = <<<<"pulled", "done">>>>]

-----------------------------------------------------------------------------
(* The readable side.                                                      *)

CanCloseOrEnqueue(r) == r.rd.state = "readable" /\ ~r.rd.closeRequested

ShouldCallPull(r) ==
    /\ CanCloseOrEnqueue(r) /\ r.rd.started
    /\ r.rd.waiting > 0 \/ r.hwm - Len(r.rd.queue) > 0

CallPullIfNeeded(r) ==
    IF ~ShouldCallPull(r) THEN r
    ELSE IF r.rd.pulling THEN [r EXCEPT !.rd.pullAgain = TRUE]
    ELSE SourcePull([r EXCEPT !.rd.pulling = TRUE])

EndReadable(r, state) ==
    [r EXCEPT !.rd.state = state, !.rd.waiting = 0,
              !.rd.queue = IF state = "errored" THEN <<>> ELSE @]

ReadableError(r) == IF r.rd.state = "readable" THEN EndReadable(r, "errored") ELSE r

ReadableClose(r) ==
    IF ~CanCloseOrEnqueue(r) THEN r
    ELSE LET r1 == [r EXCEPT !.rd.closeRequested = TRUE] IN
         IF r.rd.queue = <<>> THEN EndReadable(r1, "closed") ELSE r1

-----------------------------------------------------------------------------
(* The finish promise, shared by close(), abort() and cancel().            *)

\* The writable reacts to it if it waits for a close or an abort.
SettleFinish(r, state) ==
    LET r1 == [r EXCEPT !.finish = state] IN
    IF r.finishWaiter = "none" THEN r1
    ELSE PushWith([r1 EXCEPT !.finishWaiter = "none"], r.finishWaiter, state)

AwaitFinish(r, who) ==
    IF r.finish \in {"resolved", "rejected"} THEN PushWith(r, who, r.finish)
    ELSE [r EXCEPT !.finishWaiter = who]

\* sink_abort, sink_close and source_cancel algorithms: the first one to come calls the
\* transformer's cancel() or flush(), the others wait for it.
FinishAlgorithm(r, call) ==
    IF r.finish # "none" THEN r ELSE Suspend([r EXCEPT !.finish = "pending"], call)

-----------------------------------------------------------------------------
(* The writable side.                                                      *)

FinishErroring(r) ==
    LET r1 == [r EXCEPT !.wr.state = "errored", !.wr.writes = <<>>, !.wr.closing = FALSE] IN
    IF r.wr.abort = "requested"
    THEN AwaitFinish(FinishAlgorithm([r1 EXCEPT !.wr.abort = "running"], "abort"), "aborted")
    ELSE [r1 EXCEPT !.wr.abort = "none"]

StartErroring(r) ==
    LET r1 == [r EXCEPT !.wr.state = "erroring"] IN
    IF r.wr.inFlight = "none" /\ r.wr.started THEN FinishErroring(r1) ELSE r1

\* transform_stream_error_writable_and_unblock_write.
ErrorWritableAndUnblockWrite(r) ==
    LET r1 == ClearAlgorithms(r) IN
    UnblockWrite(IF r.wr.state = "writable" THEN StartErroring(r1) ELSE r1)

\* transform_stream_error.
TransformStreamError(r) == ErrorWritableAndUnblockWrite(ReadableError(r))

\* The rest of transform_stream_default_controller_enqueue, with the chunk in the readable.
Enqueued(r) ==
    LET backpressure == ~ShouldCallPull(r) IN
    IF backpressure = r.backpressure THEN r
    ELSE SetBackpressure(DebugAssert(r, backpressure), TRUE)

\* enqueue() is over.  The identity's transform() was no more than this.
EnqueueReturns(r) == IF r.identity THEN Push(r, "transformed") ELSE r

\* The chunk goes to a read that waits, whatever is queued, or to size() and then the queue.
ReadableEnqueue(r, chunk) ==
    IF r.rd.waiting > 0
    THEN EnqueueReturns(Enqueued(CallPullIfNeeded(
             [r EXCEPT !.rd.waiting = @ - 1, !.out = Append(@, chunk)])))
    ELSE Suspend(r, "size")

\* transform_stream_default_controller_perform_transform, whose identity is
\* ts_default_transform_native.  A transform() that was cleared does nothing.
PerformTransform(r) ==
    IF ~r.algorithms THEN Push(r, "transformed")
    ELSE IF ~r.identity THEN Suspend(r, "transform")
    ELSE IF CanCloseOrEnqueue(r) THEN ReadableEnqueue(r, Head(r.wr.writes))
    ELSE Push(r, "transformRejected")

\* transform_stream_default_sink_write_algorithm.
SinkWrite(r) ==
    LET r1 == DebugAssert(r, r.wr.state = "writable") IN
    IF r.backpressure THEN [r1 EXCEPT !.waiters = Append(@, <<"changed", "done">>)]
    ELSE PerformTransform(r1)

\* advance_queue_if_needed of the writable's controller.
AdvanceQueue(r) ==
    IF ~r.wr.started \/ r.wr.inFlight # "none" THEN r
    ELSE IF r.wr.state = "erroring" THEN FinishErroring(r)
    ELSE IF r.wr.state # "writable" THEN r
    ELSE IF r.wr.writes # <<>> THEN SinkWrite([r EXCEPT !.wr.inFlight = "write"])
    ELSE IF r.wr.closing
    THEN AwaitFinish(FinishAlgorithm([r EXCEPT !.wr.inFlight = "close"], "flush"), "closed")
    ELSE r

\* The operation in flight has failed.
DealWithRejection(r) ==
    LET r1 == [r EXCEPT !.wr.inFlight = "none"] IN
    IF r.wr.state = "writable" THEN StartErroring(r1) ELSE FinishErroring(r1)

-----------------------------------------------------------------------------
(* Author code outside the transformer.                                    *)

Write ==
    /\ s.wr.state = "writable" /\ ~s.wr.closing /\ s.written < MaxWrites
    /\ s' = AdvanceQueue([s EXCEPT !.written = @ + 1,
                                   !.wr.writes = Append(@, s.written + 1)])

CloseWritable ==
    /\ s.wr.state \in {"writable", "erroring"} /\ ~s.wr.closing
    /\ s' = AdvanceQueue([s EXCEPT !.wr.closing = TRUE])

AbortWritable ==
    /\ s.wr.state \in {"writable", "erroring"} /\ s.wr.abort = "none"
    /\ s' = IF s.wr.state = "erroring" THEN [s EXCEPT !.wr.abort = "late"]
            ELSE StartErroring([s EXCEPT !.wr.abort = "requested"])

Read ==
    /\ s.rd.state = "readable" /\ s.reads < MaxReads
    /\ LET r == [s EXCEPT !.reads = @ + 1, !.overtaken = @ \/ Contains(s.frames, "size")]
           r1 == [r EXCEPT !.rd.queue = Tail(@), !.out = Append(@, Head(s.rd.queue))]
       IN s' = IF s.rd.queue = <<>>
               THEN CallPullIfNeeded([r EXCEPT !.rd.waiting = @ + 1])
               ELSE IF s.rd.closeRequested /\ r1.rd.queue = <<>>
               THEN EndReadable(r1, "closed")
               ELSE CallPullIfNeeded(r1)

\* cancel() of the readable, and transform_stream_default_source_cancel_algorithm.
CancelReadable ==
    /\ s.rd.state = "readable"
    /\ s' = FinishAlgorithm([EndReadable(s, "closed") EXCEPT
                                 !.rd.queue = <<>>, !.canceled = TRUE], "cancel")

-----------------------------------------------------------------------------
(* The controller, and the transformer that has it.                        *)

\* The readable is empty again before the end of the last pull was noticed.
Refilled == s.backpressure /\ s.rd.pulling /\ s.rd.pullAgain

Enqueue ==
    /\ ~s.identity /\ CanCloseOrEnqueue(s) /\ s.enqueued < MaxEnqueues
    /\ Careful => ~Refilled
    /\ s' = ReadableEnqueue([s EXCEPT !.enqueued = @ + 1], 0)

\* size() returns; the state of the readable is not looked at again, nor is the queue of a
\* readable that is over.  The identity's chunk is that of the write in flight.
SizeReturns ==
    /\ s.frames # <<>> /\ Last(s.frames) = "size"
    /\ Careful => ~Refilled
    /\ LET r == [s EXCEPT !.frames = Front(@)]
           chunk == IF s.identity THEN Head(s.wr.writes) ELSE 0
       IN s' = EnqueueReturns(Enqueued(
                   IF s.rd.state = "readable"
                   THEN CallPullIfNeeded([r EXCEPT !.rd.queue = Append(@, chunk)]) ELSE r))

\* size() throws: the readable is errored, then the writable, and so is the identity's promise.
SizeThrows ==
    /\ s.frames # <<>> /\ Last(s.frames) = "size"
    /\ LET r == ErrorWritableAndUnblockWrite(ReadableError([s EXCEPT !.frames = Front(@)]))
       IN s' = IF s.identity THEN Push(r, "transformRejected") ELSE r

\* controller.error().
Error ==
    /\ ~s.identity /\ (s.rd.state = "readable" \/ s.wr.state = "writable")
    /\ s' = TransformStreamError(s)

\* controller.terminate().
Terminate ==
    /\ ~s.identity /\ (CanCloseOrEnqueue(s) \/ s.wr.state = "writable")
    /\ s' = ErrorWritableAndUnblockWrite(ReadableClose(s))

\* transform() returns a promise.
TransformReturns ==
    /\ s.frames # <<>> /\ Last(s.frames) = "transform"
    /\ s' = [s EXCEPT !.frames = Front(@), !.transforming = TRUE]

TransformSettles(fulfilled) ==
    /\ s.transforming
    /\ s' = Push([s EXCEPT !.transforming = FALSE],
                 IF fulfilled THEN "transformed" ELSE "transformRejected")

\* flush() or cancel() returns a promise, and the algorithms are cleared.
FinishReturns ==
    /\ s.frames # <<>> /\ Last(s.frames) \in {"flush", "abort", "cancel"}
    /\ s' = ClearAlgorithms([s EXCEPT !.frames = Front(@), !.finishing = Last(s.frames)])

FinishSettles(fulfilled) ==
    /\ s.finishing # "none"
    /\ s' = PushWith([s EXCEPT !.finishing = "none"],
                     s.finishing, IF fulfilled THEN "resolved" ELSE "rejected")

\* The promise of the transformer's start() settles; the writable was created first.
StartSettles(fulfilled) ==
    /\ s.start = "pending"
    /\ LET r == [s EXCEPT !.start = "settled"] IN
       s' = IF fulfilled THEN Push(Push(r, "writableStarted"), "readableStarted")
            ELSE Push(Push(r, "writableStartFails"), "readableStartFails")

-----------------------------------------------------------------------------
(* Jobs.                                                                   *)

JobWith(name, how) == s.frames = <<>> /\ s.jobs # <<>> /\ Head(s.jobs) = <<name, how>>
Job(name) == JobWith(name, "done")
Rest == [s EXCEPT !.jobs = Tail(@)]

WritableStarted ==
    /\ Job("writableStarted")
    /\ s' = AdvanceQueue([Rest EXCEPT !.wr.started = TRUE])

WritableStartFails ==
    /\ Job("writableStartFails")
    /\ s' = LET r == [Rest EXCEPT !.wr.started = TRUE] IN
            IF s.wr.state = "writable" THEN StartErroring(r)
            ELSE IF s.wr.state = "erroring" THEN FinishErroring(r) ELSE r

ReadableStarted ==
    /\ Job("readableStarted")
    /\ s' = CallPullIfNeeded([Rest EXCEPT !.rd.started = TRUE])

ReadableStartFails ==
    /\ Job("readableStartFails")
    /\ s' = ReadableError(Rest)

\* The readable's pull is over: pull_promise_fulfilled.
Pulled ==
    /\ Job("pulled")
    /\ LET r == [Rest EXCEPT !.rd.pulling = FALSE, !.rd.pullAgain = FALSE] IN
       s' = IF s.rd.pullAgain THEN CallPullIfNeeded(r) ELSE r

\* ts_sink_write_after_backpressure.
WriteAfterBackpressure ==
    /\ Job("changed")
    /\ s' = IF s.wr.state = "erroring" THEN DealWithRejection(Rest)
            ELSE PerformTransform(DebugAssert(Rest, s.wr.state = "writable"))

\* The write is done, and the next operation starts.
Transformed ==
    /\ Job("transformed")
    /\ s' = AdvanceQueue([Rest EXCEPT !.wr.inFlight = "none", !.wr.writes = Tail(@)])

\* ts_perform_transform_rejected, and the rejection of the write that follows.
TransformRejected ==
    /\ Job("transformRejected")
    /\ s' = DealWithRejection(TransformStreamError(Rest))

\* ts_sink_close_fulfilled.
FlushFulfilled ==
    /\ JobWith("flush", "resolved")
    /\ s' = IF s.rd.state = "errored" THEN SettleFinish(Rest, "rejected")
            ELSE SettleFinish(ReadableClose(Rest), "resolved")

\* ts_sink_close_rejected.
FlushRejected ==
    /\ JobWith("flush", "rejected")
    /\ s' = SettleFinish(ReadableError(Rest), "rejected")

\* ts_sink_abort_fulfilled.
AbortFulfilled ==
    /\ JobWith("abort", "resolved")
    /\ s' = IF s.rd.state = "errored" THEN SettleFinish(Rest, "rejected")
            ELSE SettleFinish(ReadableError(Rest), "resolved")

\* ts_sink_abort_rejected.
AbortRejected ==
    /\ JobWith("abort", "rejected")
    /\ s' = SettleFinish(ReadableError(Rest), "rejected")

ErrorIfNeeded(r) == IF r.wr.state = "writable" THEN StartErroring(r) ELSE r

\* Mutant: who cancels the readable leaves the writer to wait.
CancelFulfilled_KeepsWritable ==
    /\ JobWith("cancel", "resolved")
    /\ s' = SettleFinish(UnblockWrite(Rest), "resolved")

\* ts_source_cancel_fulfilled.
CancelFulfilled ==
    /\ JobWith("cancel", "resolved")
    /\ s' = IF s.wr.state = "errored" THEN SettleFinish(Rest, "rejected")
            ELSE SettleFinish(UnblockWrite(ErrorIfNeeded(Rest)), "resolved")

\* ts_source_cancel_rejected.
CancelRejected ==
    /\ JobWith("cancel", "rejected")
    /\ s' = SettleFinish(UnblockWrite(ErrorIfNeeded(Rest)), "rejected")

\* The writable's close is over.
SinkClosed ==
    /\ \/ /\ JobWith("closed", "resolved")
          /\ s' = [Rest EXCEPT !.wr.state = "closed", !.wr.inFlight = "none",
                               !.wr.closing = FALSE, !.wr.abort = "none"]
       \/ /\ JobWith("closed", "rejected")
          /\ s' = DealWithRejection([Rest EXCEPT !.wr.abort = "none"])

\* The writable's abort is over.
SinkAborted ==
    /\ JobWith("aborted", "resolved") \/ JobWith("aborted", "rejected")
    /\ s' = [Rest EXCEPT !.wr.abort = "none"]

-----------------------------------------------------------------------------
\* initialize_transform_stream: backpressure is on until the readable pulls.
NewStream(hwm) ==
    [identity |-> TRUE, hwm |-> hwm, backpressure |-> TRUE, waiters |-> <<>>,
     algorithms |-> FALSE, finish |-> "none", finishWaiter |-> "none",
     finishing |-> "none", transforming |-> FALSE, start |-> "pending",
     rd |-> [state |-> "readable", queue |-> <<>>, waiting |-> 0, started |-> FALSE,
             pulling |-> FALSE, pullAgain |-> FALSE, closeRequested |-> FALSE],
     wr |-> [state |-> "writable", writes |-> <<>>, inFlight |-> "none",
             closing |-> FALSE, started |-> FALSE, abort |-> "none"],
     jobs |-> <<>>, frames |-> <<>>, written |-> 0, reads |-> 0, enqueued |-> 0,
     out |-> <<>>, overtaken |-> FALSE, canceled |-> FALSE, ok |-> TRUE]

\* The controller gets the transformer's algorithms; without a transform() it is an identity.
SetUpController(r, identity) == [r EXCEPT !.algorithms = TRUE, !.identity = identity]

\* The constructor, up to the call of the transformer's start().
Init == \E hwm \in HighWaterMarks, identity \in BOOLEAN :
    s = SetUpController(NewStream(hwm), identity)

Author ==
    \/ Write \/ CloseWritable \/ AbortWritable \/ Read \/ CancelReadable
    \/ Enqueue \/ SizeReturns \/ SizeThrows \/ Error \/ Terminate
    \/ TransformReturns \/ FinishReturns
    \/ \E b \in BOOLEAN : TransformSettles(b) \/ FinishSettles(b) \/ StartSettles(b)

Jobs ==
    \/ WritableStarted \/ WritableStartFails \/ ReadableStarted \/ ReadableStartFails
    \/ Pulled \/ WriteAfterBackpressure \/ Transformed \/ TransformRejected
    \/ FlushFulfilled \/ FlushRejected \/ AbortFulfilled \/ AbortRejected
    \/ CancelFulfilled \/ CancelRejected \/ SinkClosed \/ SinkAborted

Next == Author \/ Jobs

Spec == Init /\ [][Next]_s

-----------------------------------------------------------------------------
(* Properties.                                                             *)

\* No debug_assert of the transform's algorithms can fail: backpressure is only switched when
\* it changes, a pull finds it on, and a write reaches a stream that is still writable.
TransformAsserts == s.ok

\* The author owes nothing: no call, no promise, no job.
Quiet ==
    /\ s.frames = <<>> /\ s.jobs = <<>> /\ ~s.transforming /\ s.finishing = "none"
    /\ s.start = "settled"

\* When everything has settled, one end does not go on without the other: a readable that is
\* over leaves no writable open, and the other way round; a write that waits, and an
\* abort that waits for it, is waiting for a reader; and the finish promise is settled.
EndsTogether ==
    Quiet =>
        /\ s.rd.state # "readable" => s.wr.state \in {"closed", "errored"}
        /\ s.wr.state \in {"closed", "errored"} => ~CanCloseOrEnqueue(s)
        /\ s.wr.inFlight # "none" =>
              s.wr.inFlight = "write" /\ s.backpressure /\ ~ShouldCallPull(s)
        /\ s.wr.state = "erroring" => s.wr.inFlight = "write"
        /\ s.finish # "pending"

\* An identity transform hands chunks on once each, skips none while the readable goes on, and
\* loses none when it is closed and read to the end.  It keeps their order and takes no chunk
\* that the readable has no room for, unless a read() from within size() makes the next chunk
\* overtake the one being measured.
IdentityInOrder ==
    s.identity =>
        LET passed == s.out \o s.rd.queue IN
        /\ IsInjective(passed) /\ (s.rd.state = "readable" => ToSet(passed) = 1..Len(passed))
        /\ ~s.overtaken => /\ passed = [i \in 1..Len(passed) |-> i]
                           /\ Len(s.rd.queue) <= s.hwm
        /\ s.wr.state = "closed" /\ s.rd.state = "closed" /\ ~s.canceled =>
               Len(s.out) = s.written

=============================================================================
