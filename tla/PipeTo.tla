------------------------------- MODULE PipeTo -------------------------------
(***************************************************************************)
(* ReadableStream.pipeTo() (PipeState and the functions around it in       *)
(* builtins/web-streams/src/readable/algorithms.rs).                       *)
(*                                                                         *)
(* A pipe holds the reader of its source and the writer of its             *)
(* destination, and lives in reactions and microtasks: the ready promise   *)
(* of the writer, a deferred write for every chunk, the settlement of each *)
(* write, the closed promises of both ends, the abort signal, and the      *)
(* action of a shutdown.  Its jobs run in the order they were queued;      *)
(* author code (source, sink, signal) runs between any two of them, and    *)
(* inside the source's pull() and the sink's abort(), where a frame keeps  *)
(* what is left of the call.                                               *)
(*                                                                         *)
(* Of the source and of the destination only what the pipe can see is      *)
(* kept: ReadableStream.tla and WritableStream.tla model each in full.     *)
(* Chunks are numbered in the order in which the source gives them and     *)
(* each has size one.                                                      *)
(***************************************************************************)
EXTENDS Integers, SequencesExt

CONSTANTS
    MaxChunks,          \* bound on the chunks the source gives
    HighWaterMark       \* of the destination

VARIABLE s              \* PipeState, both ends, the jobs and the suspended calls

None == 0
Push(r, job) == [r EXCEPT !.jobs = Append(@, job)]
DebugAssert(r, cond) == [r EXCEPT !.ok = @ /\ cond]

\* A reaction that the pipe attached fires, once.
Fire(r, job) ==
    IF job \in r.watch THEN Push([r EXCEPT !.watch = @ \ {job}], job) ELSE r

Writable(r) == r.dest.state = "writable"
ShuttingDown(r) == r.shutdown # "none"

-----------------------------------------------------------------------------
(* The action of a shutdown: the promises it waits for.                    *)

\* wait_for_all: the first rejection counts, or that nothing is left.  Nobody listens while
\* the actions are still being started.
Conclude(r) ==
    CASE r.action = "pending" /\ r.actFailed ->
             Push([r EXCEPT !.action = "settled"], "actionRejected")
      [] r.action = "pending" /\ ~r.actFailed /\ r.acts = {} ->
             Push([r EXCEPT !.action = "settled"], "actionFulfilled")
      [] OTHER -> r

ActionDone(r, act, fulfilled) ==
    IF act \notin r.acts THEN r
    ELSE Conclude([r EXCEPT !.acts = @ \ {act}, !.actFailed = @ \/ ~fulfilled])

-----------------------------------------------------------------------------
(* The destination, as the pipe sees it.                                   *)

\* writable_stream_finish_erroring: waiting writes are rejected, and the closed promise
\* unless the sink's abort() has to be called first.
FinishErroring(r) ==
    LET settled == [i \in 1..Len(r.dest.writes) |-> "settled"]
        r1 == [r EXCEPT !.dest.state = "errored", !.dest.writes = <<>>,
                        !.jobs = @ \o settled]
        closed(r2) == Fire(ActionDone([r2 EXCEPT !.dest.closing = FALSE], "close", FALSE),
                           "bwdError")
    IN CASE r.dest.abort = "requested" -> [r1 EXCEPT !.dest.abort = "running"]
         [] r.dest.abort = "late"      -> closed(ActionDone(r1, "abort", FALSE))
         [] r.dest.abort = "none"      -> closed(r1)

InFlight(r) == r.dest.writes # <<>> \/ r.dest.closing

\* writable_stream_start_erroring: the ready promise is rejected.
StartErroring(r) ==
    LET r1 == [r EXCEPT !.dest.state = "erroring", !.awaitsReady = FALSE] IN
    IF InFlight(r) THEN r1 ELSE FinishErroring(r1)

DestAbort(r) ==
    IF r.dest.state = "erroring"
    THEN [r EXCEPT !.dest.abort = "late"]
    ELSE StartErroring([r EXCEPT !.dest.abort = "requested"])

\* The ready promise is fulfilled while there is no backpressure.
Ready(r) == Writable(r) /\ Len(r.dest.writes) < HighWaterMark

SignalReady(r) ==
    IF r.awaitsReady /\ (Ready(r) \/ (Writable(r) /\ r.dest.closing))
    THEN Push([r EXCEPT !.awaitsReady = FALSE], "ready") ELSE r

\* writable_stream_default_writer_write.  A destination that takes no writes rejects.
WriterWrite(r, chunk) ==
    IF Writable(r) /\ ~r.dest.closing
    THEN [r EXCEPT !.dest.writes = Append(@, chunk), !.written = Append(@, chunk)]
    ELSE Push([r EXCEPT !.refused = @ \cup {chunk}], "settled")

-----------------------------------------------------------------------------
(* The loop.                                                               *)

\* pipe_step: wait until the writer is ready.
PipeStep(r) ==
    IF ShuttingDown(r) THEN r
    ELSE IF Ready(r) THEN Push(r, "ready")
    ELSE [r EXCEPT !.awaitsReady = Writable(r)]

\* Mutant: the write is not counted before it is made.
PipeChunkSteps_CountsLate(r, chunk) ==
    Push([r EXCEPT !.pendingChunk = chunk, !.taken = @ + 1], "write")

\* pipe_read_request_chunk_steps.
PipeChunkSteps(r, chunk) ==
    Push([r EXCEPT !.pendingChunk = chunk, !.taken = @ + 1, !.pendingWrites = @ + 1], "write")

Suspend(r, call, chunk) ==
    [r EXCEPT !.frames = Append(@, [call |-> call, chunk |-> chunk])]

SourceClosed(r) == Fire([r EXCEPT !.src.state = "closed", !.src.request = FALSE], "fwdClose")

\* readable_stream_default_reader_read.  The close and error steps of a pipe do nothing.
\* The source's pull() may run before a chunk that was queued is handed over.
SourceRead(r) ==
    LET src == r.src
        r1 == [r EXCEPT !.src.queue = Tail(@)]
    IN CASE src.state # "readable" -> r
         [] src.state = "readable" /\ src.queue = <<>> ->
                Suspend([r EXCEPT !.src.request = TRUE], "pull", None)
         [] src.state = "readable" /\ src.queue # <<>> /\ src.closeRequested
                                   /\ Len(src.queue) = 1 ->
                PipeChunkSteps(SourceClosed(r1), Head(src.queue))
         [] OTHER -> Suspend(r1, "pull", Head(src.queue))

-----------------------------------------------------------------------------
(* Shutdown.                                                               *)

\* pipe_finalize: both ends are released, and their closed promises rejected.
Finalize(r, outcome) ==
    LET r1 == DebugAssert(r, r.promise = "pending")
        r2 == IF r.dest.state \in {"writable", "erroring"} \/ r.dest.abort = "running"
              THEN Fire(r1, "bwdError") ELSE r1
        r3 == IF r.src.state = "readable" THEN Fire(r2, "fwdError") ELSE r2
    IN [r3 EXCEPT !.promise = outcome, !.src.request = FALSE, !.awaitsReady = FALSE]

ReadableStreamCancel(r) ==
    [SourceClosed(r) EXCEPT !.src.queue = <<>>, !.src.canceled = TRUE]

\* Actions that have something to wait for are pending, others are fulfilled.
AbortPart(r) ==
    IF r.dest.state \in {"closed", "errored"} THEN r
    ELSE DestAbort([r EXCEPT !.acts = @ \cup {"abort"}])

CancelPart(r) ==
    IF r.src.state # "readable" THEN r
    ELSE ReadableStreamCancel([r EXCEPT !.acts = @ \cup {"cancel"}])

\* writable_stream_default_writer_close_with_error_propagation.
ClosePart(r) ==
    IF r.dest.closing \/ r.dest.state = "closed" THEN r
    ELSE IF r.dest.state = "errored" THEN [r EXCEPT !.actFailed = TRUE]
    ELSE SignalReady([r EXCEPT !.acts = @ \cup {"close"}, !.dest.closing = TRUE])

Started(r) == Conclude([r EXCEPT !.action = "pending"])

\* pipe_run_action.  The abort algorithm looks at the destination first, and at the source
\* when the sink's abort() has returned.
RunAction(r) ==
    CASE r.shutdown = "abortDest"    -> Started(AbortPart(r))
      [] r.shutdown = "cancelSource" -> Started(CancelPart(r))
      [] r.shutdown = "closeWriter"  -> Started(ClosePart(r))
      [] r.shutdown = "abortAlgorithm" ->
             Suspend(IF r.preventAbort \/ ~Writable(r) THEN r ELSE AbortPart(r), "abort", None)

\* pipe_shutdown_do_proceed.
Proceed(r) ==
    LET r1 == [DebugAssert(r, ~r.proceeded) EXCEPT !.proceeded = TRUE] IN
    IF r.shutdown = "plain"
    THEN Finalize(r1, IF r.error THEN "rejected" ELSE "resolved")
    ELSE RunAction(r1)

\* pipe_shutdown_wait_then_proceed.
WaitThenProceed(r) ==
    IF Writable(r) /\ ~r.dest.closing
    THEN IF r.pendingWrites > 0 THEN [r EXCEPT !.waits = TRUE] ELSE Push(r, "proceed")
    ELSE Proceed(r)

\* pipe_begin_shutdown_with_action, and pipe_shutdown with the action "plain".
BeginShutdown(r, action, error) ==
    IF ShuttingDown(r) THEN r
    ELSE WaitThenProceed([r EXCEPT !.shutdown = action, !.error = error])

FwdError(r) == BeginShutdown(r, IF r.preventAbort THEN "plain" ELSE "abortDest", TRUE)
BwdError(r) == BeginShutdown(r, IF r.preventCancel THEN "plain" ELSE "cancelSource", TRUE)
FwdClose(r) == BeginShutdown(r, IF r.preventClose THEN "plain" ELSE "closeWriter", FALSE)

-----------------------------------------------------------------------------
(* Author code: source, sink and signal.                                   *)

Give ==
    /\ s.src.state = "readable" /\ ~s.src.closeRequested /\ s.given < MaxChunks
    /\ LET r == [s EXCEPT !.given = @ + 1] IN
       s' = IF s.src.request
            THEN PipeChunkSteps([r EXCEPT !.src.request = FALSE], r.given)
            ELSE [r EXCEPT !.src.queue = Append(@, r.given)]

CloseSource ==
    /\ s.src.state = "readable" /\ ~s.src.closeRequested
    /\ LET r == [s EXCEPT !.src.closeRequested = TRUE] IN
       s' = IF s.src.queue = <<>> THEN SourceClosed(r) ELSE r

ErrorSource ==
    /\ s.src.state = "readable"
    /\ s' = Fire([s EXCEPT !.src.state = "errored", !.src.queue = <<>>, !.src.request = FALSE],
                 "fwdError")

\* The write in flight is done; writes behind it, a close, or the end of erroring follow.
SinkWrites ==
    /\ s.dest.state \in {"writable", "erroring"} /\ s.dest.writes # <<>>
    /\ LET r == Push([s EXCEPT !.dest.writes = Tail(@), !.completed = @ + 1], "settled") IN
       s' = IF Writable(s) THEN SignalReady(r) ELSE FinishErroring(r)

\* The write in flight fails, and the destination with it.
SinkFails ==
    /\ s.dest.state \in {"writable", "erroring"} /\ s.dest.writes # <<>>
    /\ s' = FinishErroring(Push([s EXCEPT !.dest.writes = Tail(@), !.dest.state = "erroring",
                                          !.awaitsReady = FALSE], "settled"))

\* The sink's controller.error().
ErrorDest ==
    /\ Writable(s)
    /\ s' = StartErroring(s)

\* The sink has closed: an abort that was asked for meanwhile is fulfilled.
SinkCloses ==
    /\ s.dest.state \in {"writable", "erroring"} /\ s.dest.writes = <<>> /\ s.dest.closing
    /\ LET r == [s EXCEPT !.dest.state = "closed", !.dest.closing = FALSE, !.dest.abort = "none"]
       IN s' = ActionDone(ActionDone(r, "close", TRUE), "abort", TRUE)

SinkCloseFails ==
    /\ s.dest.state \in {"writable", "erroring"} /\ s.dest.writes = <<>> /\ s.dest.closing
    /\ LET r == ActionDone([s EXCEPT !.dest.closing = FALSE, !.dest.abort = "none",
                                     !.dest.state = "erroring", !.awaitsReady = FALSE],
                           "close", FALSE)
       IN s' = FinishErroring(ActionDone(r, "abort", FALSE))

\* The promise of the sink's abort() settles; then the closed promise is rejected.
AbortSettles(fulfilled) ==
    /\ s.dest.abort = "running"
    /\ s' = Fire(ActionDone([s EXCEPT !.dest.abort = "none", !.dest.closing = FALSE],
                            "abort", fulfilled), "bwdError")

CancelSettles(fulfilled) ==
    /\ "cancel" \in s.acts
    /\ s' = ActionDone(s, "cancel", fulfilled)

\* The abort signal runs pipe_abort_algorithm, which pipe_finalize takes off it.
SignalAborts ==
    /\ s.signal = "live"
    /\ LET r == [s EXCEPT !.signal = "aborted"] IN
       s' = IF s.promise = "pending" THEN BeginShutdown(r, "abortAlgorithm", TRUE) ELSE r

\* pull() returns and the chunk is handed over; abort() returns and the source is next.
AuthorReturns ==
    /\ s.frames # <<>>
    /\ LET f == Last(s.frames)
           r == [s EXCEPT !.frames = Front(@)]
       IN s' = CASE f.call = "abort" -> Started(
                                            IF r.preventCancel THEN r ELSE CancelPart(r))
                 [] f.call = "pull" /\ f.chunk = None -> r
                 [] f.call = "pull" /\ f.chunk # None -> PipeChunkSteps(r, f.chunk)

-----------------------------------------------------------------------------
(* Jobs.                                                                   *)

Job(name) == s.frames = <<>> /\ s.jobs # <<>> /\ Head(s.jobs) = name
Rest == [s EXCEPT !.jobs = Tail(@)]

\* pipe_ready_fulfilled.
ReadyFulfilled ==
    /\ Job("ready")
    /\ s' = IF ShuttingDown(s) THEN Rest
            ELSE SourceRead(Rest)

\* pipe_deferred_write.
DeferredWrite ==
    /\ Job("write")
    /\ LET r == [Rest EXCEPT !.pendingChunk = None] IN
       s' = IF s.promise # "pending"
            THEN [DebugAssert(r, s.pendingWrites > 0) EXCEPT
                     !.pendingWrites = @ - 1, !.refused = @ \cup {s.pendingChunk}]
            ELSE PipeStep(WriterWrite(r, s.pendingChunk))

\* Mutant: whoever waits for the last write is not told.
WriteSettled_Forgets ==
    /\ Job("settled")
    /\ s' = [DebugAssert(Rest, s.pendingWrites > 0) EXCEPT !.pendingWrites = @ - 1]

\* pipe_write_settled.
WriteSettled ==
    /\ Job("settled")
    /\ LET r == [DebugAssert(Rest, s.pendingWrites > 0) EXCEPT !.pendingWrites = @ - 1] IN
       s' = IF r.pendingWrites = 0 /\ s.waits THEN Proceed([r EXCEPT !.waits = FALSE]) ELSE r

\* pipe_shutdown_proceed_deferred.
ShutdownProceedDeferred ==
    /\ Job("proceed")
    /\ s' = IF s.pendingWrites > 0 THEN [Rest EXCEPT !.waits = TRUE] ELSE Proceed(Rest)

FwdErrorRejected == Job("fwdError") /\ s' = FwdError(Rest)
BwdErrorRejected == Job("bwdError") /\ s' = BwdError(Rest)
FwdCloseFulfilled == Job("fwdClose") /\ s' = FwdClose(Rest)

ActionFulfilled ==
    /\ Job("actionFulfilled")
    /\ s' = Finalize(Rest, IF s.error THEN "rejected" ELSE "resolved")

ActionRejected ==
    /\ Job("actionRejected")
    /\ s' = Finalize(Rest, "rejected")

-----------------------------------------------------------------------------
\* pipe_setup_propagation_and_start: reactions are attached to what has not ended yet, and
\* the rest is acted upon, in this order.
SetupPropagationAndStart(r) ==
    LET r1 == IF r.src.state = "errored" THEN FwdError(r)
              ELSE [r EXCEPT !.watch = @ \cup {"fwdError"}]
        r2 == IF r.dest.state = "errored" THEN BwdError(r1)
              ELSE [r1 EXCEPT !.watch = @ \cup {"bwdError"}]
        r3 == IF r.src.state = "closed" THEN FwdClose(r2)
              ELSE [r2 EXCEPT !.watch = @ \cup {"fwdClose"}]
        r4 == IF r.dest.closing \/ r.dest.state = "closed" THEN BwdError(r3) ELSE r3
    IN PipeStep(r4)

\* A destination that was given up by its writer with writes or a close under way.
Destinations ==
    [state : {"writable", "closed", "errored"}, writes : {<<>>}, closing : {FALSE},
     abort : {"none"}]
    \cup [state : {"writable", "erroring"}, writes : {<<>>}, closing : {TRUE}, abort : {"none"}]

\* The options of pipeTo(), whose signal may have aborted before.
Options == [preventClose : BOOLEAN, preventAbort : BOOLEAN, preventCancel : BOOLEAN,
            signal : {"none", "live", "aborted"}]

\* PipeState::new: with a signal that is aborted, the abort algorithm runs at once.
NewPipe(src, dest, options) ==
    LET r == [src |-> [state |-> src, queue |-> <<>>, request |-> FALSE,
                       closeRequested |-> FALSE, canceled |-> FALSE],
              dest |-> dest, preventClose |-> options.preventClose,
              preventAbort |-> options.preventAbort,
              preventCancel |-> options.preventCancel, signal |-> options.signal,
              shutdown |-> "none", error |-> FALSE, waits |-> FALSE,
              action |-> "none", acts |-> {}, actFailed |-> FALSE,
              pendingChunk |-> None, pendingWrites |-> 0, promise |-> "pending",
              awaitsReady |-> FALSE, watch |-> {}, jobs |-> <<>>, frames |-> <<>>,
              given |-> 0, taken |-> 0, written |-> <<>>, completed |-> 0, refused |-> {},
              wasEnding |-> dest.state # "writable" \/ dest.closing,
              proceeded |-> FALSE, ok |-> TRUE]
    IN IF options.signal = "aborted" THEN BeginShutdown(r, "abortAlgorithm", TRUE) ELSE r

\* readable_stream_pipe_to.
Init == \E src \in {"readable", "closed", "errored"}, dest \in Destinations,
           options \in Options :
    LET pipe == NewPipe(src, dest, options) IN
    s = IF options.signal = "aborted" THEN pipe ELSE SetupPropagationAndStart(pipe)

SourceAuthor == Give \/ CloseSource \/ ErrorSource \/ ErrorDest \/ SignalAborts

SinkAuthor ==
    \/ SinkWrites \/ SinkFails \/ SinkCloses \/ SinkCloseFails \/ AuthorReturns
    \/ \E b \in BOOLEAN : AbortSettles(b) \/ CancelSettles(b)

Jobs ==
    \/ ReadyFulfilled \/ DeferredWrite \/ WriteSettled \/ ShutdownProceedDeferred
    \/ FwdErrorRejected \/ BwdErrorRejected \/ FwdCloseFulfilled
    \/ ActionFulfilled \/ ActionRejected

Next == SourceAuthor \/ SinkAuthor \/ Jobs

Spec == Init /\ [][Next]_s

\* Jobs are drained, and sinks and sources settle the promises that they return.
Fairness == WF_s(Jobs) /\ WF_s(SinkAuthor)
FairSpec == Spec /\ Fairness

-----------------------------------------------------------------------------
(* Properties.                                                             *)

FirstChunks(n) == [k \in 1..n |-> k]

\* No debug_assert or expect of the pipe can fail: writes are counted once each, the ends are
\* released once, and a shutdown proceeds once, whichever of its two ways it takes.
PipeAsserts == s.ok /\ (s.promise # "pending" => s.proceeded)

\* Chunks reach the destination in order and once.  A pipe that succeeds has closed the
\* destination behind the source, unless it must not; it has written all it took and all
\* the source had, with the sink done, unless the destination failed.  A chunk is dropped
\* only if the destination took no more writes or the pipe was aborted.
NoChunkLost ==
    /\ s.refused = {} => s.written = FirstChunks(Len(s.written))
    /\ s.promise = "resolved" =>
          /\ s.src.state = "closed" /\ (s.src.canceled \/ s.given = s.taken)
          /\ s.dest.state \in {"erroring", "errored"} \/ s.completed = s.taken
          /\ s.preventClose \/ s.wasEnding \/ s.dest.state = "closed"
    /\ s.refused # {} => s.dest.state # "writable" \/ s.shutdown = "abortAlgorithm"

Ending == s.src.state # "readable" \/ s.dest.state \in {"errored", "closed"}
              \/ s.signal = "aborted" \/ s.dest.closing

\* A pipe with an end that is over, or that was aborted, settles its promise.
PipeSettles == Ending ~> s.promise # "pending"

=============================================================================
