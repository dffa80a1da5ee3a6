--------------------------- MODULE WritableStream ---------------------------
(***************************************************************************)
(* WritableStream, its default writer and its default controller           *)
(* (builtins/web-streams/src/writable/).                                   *)
(*                                                                         *)
(* The stream is one record; each abstract operation of algorithms.rs is   *)
(* an operator from the record before it to the record after it, composed  *)
(* the way the functions call each other, so that one call from JavaScript *)
(* or one promise reaction is one step.  Two calls run author code in the  *)
(* middle, after which they look at the stream again: write() calls the    *)
(* strategy's size(), and abort() signals the controller's AbortSignal.    *)
(* Such a call is a frame on a stack, and other calls happen above it.     *)
(* Author code run by a sink method comes last in its call, so that what   *)
(* it does is the same as what is done right after.  abort() is only ever  *)
(* called with script on the stack, so no microtask runs in the middle.    *)
(*                                                                         *)
(* Every debug_assert of the functions modelled is conjoined to `ok'.      *)
(***************************************************************************)
EXTENDS Integers, Sequences

CONSTANTS
    Writers,        \* the writers programs ever acquire
    Chunks,         \* the chunks programs ever write, each once
    Sizes,          \* the sizes the strategy's size() returns
    HighWaterMark   \* strategy_hwm

ASSUME ConstantsAssumption ==
    /\ Sizes \subseteq Int
    /\ HighWaterMark \in Nat

NoWriter == "none"
NoChunk  == "none"
CloseSentinel == "close"
ASSUME NamesAssumption ==
    /\ NoWriter \notin Writers
    /\ NoChunk \notin Chunks /\ CloseSentinel \notin Chunks

VARIABLES
    s,       \* the stream, its controller, its writers and the promises they hand out
    frames   \* calls suspended in author code, the innermost last

vars == <<s, frames>>

-----------------------------------------------------------------------------
(* Helpers.                                                                *)

Range(seq) == {seq[i] : i \in DOMAIN seq}

DebugAssert(r, cond) == [r EXCEPT !.ok = @ /\ cond]
Active(r) == r.state \in {"writable", "erroring"}
Settle(status, how) == IF status = "pending" THEN how ELSE status
Locked(r) == r.writer # NoWriter
CloseQueuedOrInFlight(r) == r.closeRequest \/ r.inFlightClose
OperationInFlight(r) == r.inFlightWrite # NoChunk \/ r.inFlightClose

GetDesiredSize(r) == HighWaterMark - r.total
GetBackpressure(r) == GetDesiredSize(r) <= 0

\* A reaction to the promise of the outstanding sink call.
SinkAnswered(r) == [r EXCEPT !.sink = "idle", !.answers = @ + 1]

ClearAlgorithms(r) == [r EXCEPT !.algorithms = FALSE]

\* dequeue_value: the total cannot go below zero.
DequeueValue(r) ==
    LET total == r.total - Head(r.queue).size IN
    [DebugAssert(r, r.queue # <<>>) EXCEPT
        !.queue = Tail(@), !.total = IF total < 0 THEN 0 ELSE total]

ResetQueue(r) == [r EXCEPT !.queue = <<>>, !.total = 0]

\* The writer's ready promise: rejected in place if pending, replaced if not.
EnsureReadyRejected(r, w) == [r EXCEPT !.ready[w] = "rejected"]
EnsureClosedRejected(r, w) == [r EXCEPT !.closed[w] = "rejected"]

-----------------------------------------------------------------------------
(* Erroring.                                                               *)

RejectCloseAndClosedIfNeeded(r) ==
    LET r1 == DebugAssert(r, r.state = "errored" /\ (r.closeRequest => ~r.inFlightClose))
        r2 == IF r.closeRequest
              THEN [r1 EXCEPT !.closeRequest = FALSE, !.closeP = "rejected"] ELSE r1
    IN IF Locked(r)
       THEN [r2 EXCEPT !.closed[r.writer] = Settle(@, "rejected")] ELSE r2

\* Every queued write's promise is rejected.
RejectWriteRequests(r) ==
    [r EXCEPT !.writeRequests = <<>>,
              !.writeP = [c \in Chunks |->
                  IF c \in Range(r.writeRequests) THEN "rejected" ELSE r.writeP[c]]]

\* The sink's abort is called, and its algorithms are let go.
AbortSteps(r) ==
    ClearAlgorithms([r EXCEPT !.sink = "abort", !.ended = TRUE, !.skipped = @ \/ ~r.algorithms])

\* writable_stream_finish_erroring.  A pending abort that found the stream writable calls
\* the sink's abort, and its promise waits for the sink's.
FinishErroring(r) ==
    LET r1 == DebugAssert(r, r.state = "erroring" /\ ~OperationInFlight(r))
        r2 == RejectWriteRequests([ResetQueue(r1) EXCEPT !.state = "errored"])
    IN CASE r.pendingAbort = "none" -> RejectCloseAndClosedIfNeeded(r2)
         [] r.pendingAbort = "already" ->
              RejectCloseAndClosedIfNeeded(
                  [r2 EXCEPT !.pendingAbort = "none", !.abortP = "rejected"])
         [] r.pendingAbort = "fresh" -> AbortSteps([r2 EXCEPT !.pendingAbort = "none"])

\* Mutant: erroring is finished at once, not after the call in flight.
StartErroring_Eager(r) ==
    LET r1 == DebugAssert(r, r.storedError = "undefined" /\ r.state = "writable")
        r2 == [r1 EXCEPT !.state = "erroring", !.storedError = "error"]
        r3 == IF Locked(r) THEN EnsureReadyRejected(r2, r.writer) ELSE r2
    IN IF r.started THEN FinishErroring(r3) ELSE r3

StartErroring(r) ==
    LET r1 == DebugAssert(r, r.storedError = "undefined" /\ r.state = "writable")
        r2 == [r1 EXCEPT !.state = "erroring", !.storedError = "error"]
        r3 == IF Locked(r) THEN EnsureReadyRejected(r2, r.writer) ELSE r2
    IN IF ~OperationInFlight(r) /\ r.started THEN FinishErroring(r3) ELSE r3

DealWithRejection(r) ==
    IF r.state = "writable" THEN StartErroring(r)
    ELSE FinishErroring(DebugAssert(r, r.state = "erroring"))

ControllerError(r) == StartErroring(ClearAlgorithms(DebugAssert(r, r.state = "writable")))
ControllerErrorIfNeeded(r) == IF r.state = "writable" THEN ControllerError(r) ELSE r

-----------------------------------------------------------------------------
(* The controller's queue.                                                 *)

MarkFirstWriteRequestInFlight(r) ==
    [DebugAssert(r, r.inFlightWrite = NoChunk /\ r.writeRequests # <<>>) EXCEPT
        !.inFlightWrite = Head(r.writeRequests), !.writeRequests = Tail(@)]

MarkCloseRequestInFlight(r) ==
    [DebugAssert(r, ~r.inFlightClose /\ r.closeRequest) EXCEPT
        !.inFlightClose = TRUE, !.closeRequest = FALSE]

\* process_write: the chunk stays in the queue until its write succeeds.
ProcessWrite(r) ==
    [MarkFirstWriteRequestInFlight(r) EXCEPT
        !.sink = "write", !.skipped = @ \/ ~r.algorithms,
        !.written = Append(@, Head(r.queue).chunk)]

ProcessClose(r) ==
    LET r1 == DequeueValue(MarkCloseRequestInFlight(r)) IN
    ClearAlgorithms([DebugAssert(r1, r1.queue = <<>>) EXCEPT
        !.sink = "close", !.ended = TRUE, !.skipped = @ \/ ~r.algorithms])

AdvanceQueueIfNeeded(r) ==
    IF ~r.started \/ r.inFlightWrite # NoChunk THEN r
    ELSE LET r1 == DebugAssert(r, Active(r)) IN
         IF r.state = "erroring" THEN FinishErroring(r1)
         ELSE IF r.queue = <<>> THEN r1
         ELSE IF Head(r.queue).chunk = CloseSentinel THEN ProcessClose(r1)
         ELSE ProcessWrite(r1)

\* update_backpressure: a change replaces the ready promise, or resolves it.
UpdateBackpressure(r) ==
    LET bp == GetBackpressure(r)
        r1 == DebugAssert(r, r.state = "writable" /\ ~CloseQueuedOrInFlight(r))
        r2 == IF Locked(r) /\ bp # r.backpressure
              THEN [r1 EXCEPT !.ready[r.writer] =
                        IF bp THEN "pending" ELSE Settle(@, "resolved")]
              ELSE r1
    IN [r2 EXCEPT !.backpressure = bp]

UpdateBackpressureIfOpen(r) ==
    IF ~CloseQueuedOrInFlight(r) /\ r.state = "writable" THEN UpdateBackpressure(r) ELSE r

\* controller_write: a size that is no size errors the stream instead.
ControllerWrite(r, c, size) ==
    IF size < 0 THEN ControllerErrorIfNeeded(r)
    ELSE AdvanceQueueIfNeeded(UpdateBackpressureIfOpen(
             [r EXCEPT !.queue = Append(@, [chunk |-> c, size |-> size]),
                       !.total = @ + size]))

\* Mutant: the close overtakes the chunks that wait.
ControllerClose_Overtakes(r) ==
    AdvanceQueueIfNeeded(
        [r EXCEPT !.queue = <<[chunk |-> CloseSentinel, size |-> 0]>> \o @])

ControllerClose(r) ==
    AdvanceQueueIfNeeded(
        [r EXCEPT !.queue = Append(@, [chunk |-> CloseSentinel, size |-> 0])])

-----------------------------------------------------------------------------
(* Calls from JavaScript.                                                  *)

\* set_up_writable_stream_default_writer.
SetUpWriter(r, w) ==
    LET open == r.state \in {"writable", "erroring"} IN
    [r EXCEPT
        !.writer = w,
        !.owned[w] = "yes",
        !.ready[w] = CASE r.state = "writable" /\ ~CloseQueuedOrInFlight(r) /\ r.backpressure
                            -> "pending"
                       [] r.state \in {"erroring", "errored"} -> "rejected"
                       [] OTHER -> "resolved",
        !.closed[w] = CASE open -> "pending"
                        [] r.state = "closed" -> "resolved"
                        [] r.state = "errored" -> "rejected"]

GetWriter(w) ==
    /\ s.owned[w] = "never" /\ ~Locked(s)
    /\ s' = SetUpWriter(s, w)
    /\ UNCHANGED frames

ReleaseLock(w) ==
    /\ s.owned[w] = "yes"
    /\ s' = [EnsureClosedRejected(EnsureReadyRejected(s, w), w) EXCEPT
                 !.writer = NoWriter, !.owned[w] = "no"]
    /\ UNCHANGED frames

AddWriteRequest(r, c) ==
    [DebugAssert(r, Locked(r) /\ r.state = "writable") EXCEPT
        !.writeP[c] = "pending", !.writeRequests = Append(@, c)]

\* The rest of writer_write, once the size is known.
FinishWrite(r, w, c, size) ==
    LET fail == [r EXCEPT !.writeP[c] = "rejected"] IN
    IF r.owned[w] # "yes" \/ r.state = "errored" \/ CloseQueuedOrInFlight(r)
       \/ r.state = "closed" \/ r.state = "erroring"
    THEN fail
    ELSE ControllerWrite(
             [AddWriteRequest(r, c) EXCEPT
                 !.accepted = IF size < 0 THEN @ ELSE Append(@, c)], c, size)

\* writer.write(c): get_chunk_size calls size(), which is author code, unless the algorithms
\* were cleared: then the size is one.
Write(w, c) ==
    /\ s.owned[w] = "yes" /\ s.writeP[c] = "none"
    /\ IF s.algorithms
       THEN /\ s' = [s EXCEPT !.writeP[c] = "called"]
            /\ frames' = Append(frames, [call |-> "write", writer |-> w, chunk |-> c])
       ELSE s' = FinishWrite(s, w, c, 1) /\ UNCHANGED frames

Innermost == frames[Len(frames)]
InCall(call) == frames # <<>> /\ Innermost.call = call
PopFrame == frames' = SubSeq(frames, 1, Len(frames) - 1)

SizeReturns(size) ==
    /\ InCall("write")
    /\ s' = FinishWrite(s, Innermost.writer, Innermost.chunk, size)
    /\ PopFrame

\* size() threw: the stream is errored and the write goes on with a size of one.
SizeThrows ==
    /\ InCall("write")
    /\ s' = FinishWrite(ControllerErrorIfNeeded(s), Innermost.writer, Innermost.chunk, 1)
    /\ PopFrame

\* stream.abort() on an unlocked stream, writer.abort() by its writer.  The signal is
\* aborted first, once, which runs its listeners.
Abort ==
    /\ Active(s)
    /\ ~s.signalled
    /\ s' = [s EXCEPT !.signalled = TRUE]
    /\ frames' = Append(frames, [call |-> "abort", writer |-> NoWriter, chunk |-> NoChunk])

\* Mutant: the state is not read again after the signal's listeners ran.
FinishAbort_StaleState(r) ==
    LET r1 == [r EXCEPT !.abortP = "pending", !.pendingAbort = "fresh"] IN StartErroring(r1)

\* The rest of writable_stream_abort: the state is read again.
FinishAbort(r) ==
    IF ~Active(r) \/ r.pendingAbort # "none" THEN r
    ELSE LET was == r.state = "erroring"
             r1 == [r EXCEPT !.abortP = "pending",
                             !.pendingAbort = IF was THEN "already" ELSE "fresh"]
         IN IF was THEN r1 ELSE StartErroring(r1)

SignalReturns ==
    /\ InCall("abort")
    /\ s' = FinishAbort(s)
    /\ PopFrame

\* A later abort finds the signal aborted and runs no author code.
AbortAgain ==
    /\ Active(s) /\ s.signalled
    /\ s' = FinishAbort(s)
    /\ UNCHANGED frames

\* writable_stream_close: no write is waited for any more, so ready resolves.
CloseStream(r) ==
    LET r1 == [DebugAssert(r, Active(r) /\ ~CloseQueuedOrInFlight(r)) EXCEPT
                   !.closeRequest = TRUE, !.closeP = "pending"]
        r2 == IF Locked(r) /\ r.backpressure /\ r.state = "writable"
              THEN [r1 EXCEPT !.ready[r.writer] = Settle(@, "resolved")] ELSE r1
    IN ControllerClose(r2)

\* stream.close(), writer.close() and close_with_error_propagation, which differ in the
\* promise they return for a stream that is closing, closed or errored.
Close ==
    /\ Active(s) /\ ~CloseQueuedOrInFlight(s)
    /\ s' = CloseStream(s)
    /\ UNCHANGED frames

\* controller.error(), and error_if_needed from a transform.
Error ==
    /\ s.state = "writable"
    /\ s' = ControllerError(s)
    /\ UNCHANGED frames

-----------------------------------------------------------------------------
(* Reactions to the sink's promises: microtasks, so no call is suspended.  *)

StartFulfilled ==
    /\ frames = <<>> /\ s.sink = "start"
    /\ s' = AdvanceQueueIfNeeded(
                [SinkAnswered(DebugAssert(s, Active(s))) EXCEPT !.started = TRUE])
    /\ UNCHANGED frames

StartRejected ==
    /\ frames = <<>> /\ s.sink = "start"
    /\ s' = DealWithRejection(
                [SinkAnswered(DebugAssert(s, Active(s))) EXCEPT !.started = TRUE])
    /\ UNCHANGED frames

FinishInFlightWrite(r) ==
    [DebugAssert(r, r.inFlightWrite # NoChunk) EXCEPT
        !.writeP[r.inFlightWrite] = "resolved", !.inFlightWrite = NoChunk]

\* ws_write_promise_fulfilled.
WriteFulfilled ==
    /\ frames = <<>> /\ s.sink = "write"
    /\ LET r1 == FinishInFlightWrite(SinkAnswered(DebugAssert(s, Active(s)))) IN
       s' = AdvanceQueueIfNeeded(UpdateBackpressureIfOpen(DequeueValue(r1)))
    /\ UNCHANGED frames

ClearIfWritable(r) == IF r.state = "writable" THEN ClearAlgorithms(r) ELSE r

WriteRejected ==
    /\ frames = <<>> /\ s.sink = "write"
    /\ LET r1 == ClearIfWritable(s)
           r2 == [SinkAnswered(DebugAssert(r1, s.inFlightWrite # NoChunk /\ Active(s))) EXCEPT
                      !.writeP[s.inFlightWrite] = "rejected", !.inFlightWrite = NoChunk]
       IN s' = DealWithRejection(r2)
    /\ UNCHANGED frames

\* finish_in_flight_close: a close that succeeds wins over an error meanwhile.
CloseFulfilled ==
    /\ frames = <<>> /\ s.sink = "close"
    /\ LET r1 == [SinkAnswered(DebugAssert(s, s.inFlightClose /\ Active(s))) EXCEPT
                      !.inFlightClose = FALSE, !.closeP = "resolved"]
           r2 == IF s.state = "erroring"
                 THEN [r1 EXCEPT !.storedError = "undefined", !.pendingAbort = "none",
                                 !.abortP = Settle(@, "resolved")]
                 ELSE r1
           r3 == [r2 EXCEPT !.state = "closed"]
           r4 == IF Locked(s) THEN [r3 EXCEPT !.closed[s.writer] = Settle(@, "resolved")]
                 ELSE r3
       IN s' = DebugAssert(r4, r4.pendingAbort = "none" /\ r4.storedError = "undefined")
    /\ UNCHANGED frames

CloseRejected ==
    /\ frames = <<>> /\ s.sink = "close"
    /\ LET r1 == [SinkAnswered(DebugAssert(s, s.inFlightClose /\ Active(s))) EXCEPT
                      !.inFlightClose = FALSE, !.closeP = "rejected"]
           r2 == IF s.pendingAbort # "none"
                 THEN [r1 EXCEPT !.pendingAbort = "none", !.abortP = "rejected"] ELSE r1
       IN s' = DealWithRejection(r2)
    /\ UNCHANGED frames

AbortSettled(how) ==
    /\ frames = <<>> /\ s.sink = "abort"
    /\ s' = RejectCloseAndClosedIfNeeded([SinkAnswered(s) EXCEPT !.abortP = how])
    /\ UNCHANGED frames

-----------------------------------------------------------------------------
\* initialize_writable_stream, with a new controller and before any call.
NewStream ==
    [state |-> "writable", storedError |-> "undefined", writer |-> NoWriter,
     backpressure |-> FALSE, closeRequest |-> FALSE,
     inFlightClose |-> FALSE, inFlightWrite |-> NoChunk, writeRequests |-> <<>>,
     pendingAbort |-> "none", queue |-> <<>>, total |-> 0, started |-> FALSE,
     algorithms |-> TRUE, signalled |-> FALSE,
     owned |-> [w \in Writers |-> "never"],
     ready |-> [w \in Writers |-> "none"], closed |-> [w \in Writers |-> "none"],
     writeP |-> [c \in Chunks |-> "none"], closeP |-> "none", abortP |-> "none",
     sink |-> "start", answers |-> 0, accepted |-> <<>>, written |-> <<>>,
     ended |-> FALSE, skipped |-> FALSE, ok |-> TRUE]

\* The controller is set up: a stream with a high water mark of 0 has backpressure at once.
SetUpController(r) == UpdateBackpressure(r)

\* The constructor, up to the call of the sink's start(), which may use the controller.
Init ==
    /\ s = SetUpController(NewStream)
    /\ frames = <<>>

Js ==
    \/ \E w \in Writers : GetWriter(w) \/ ReleaseLock(w) \/ \E c \in Chunks : Write(w, c)
    \/ Abort \/ AbortAgain \/ Close \/ Error

AuthorCodeReturns == (\E size \in Sizes : SizeReturns(size)) \/ SizeThrows \/ SignalReturns

Reaction ==
    \/ StartFulfilled \/ StartRejected
    \/ WriteFulfilled \/ WriteRejected
    \/ CloseFulfilled \/ CloseRejected
    \/ \E how \in {"resolved", "rejected"} : AbortSettled(how)

Next == Js \/ AuthorCodeReturns \/ Reaction

Spec == Init /\ [][Next]_vars

\* Author code returns, and the sink's promises settle.
FairSpec == Spec /\ WF_vars(AuthorCodeReturns) /\ WF_vars(Reaction)

-----------------------------------------------------------------------------
(* Properties.                                                             *)

Status == {"none", "called", "pending", "resolved", "rejected"}
Items == [chunk : Chunks \cup {CloseSentinel}, size : Nat]

\* Types of the stream's fields.  Sizes and their sum stay natural numbers, whatever
\* size() returns.
TypeOK ==
    /\ s.state \in {"writable", "erroring", "errored", "closed"}
    /\ s.storedError \in {"undefined", "error"}
    /\ s.writer \in Writers \cup {NoWriter}
    /\ s.inFlightWrite \in Chunks \cup {NoChunk}
    /\ s.writeRequests \in Seq(Chunks)
    /\ s.pendingAbort \in {"none", "fresh", "already"}
    /\ s.queue \in Seq(Items) /\ s.total \in Nat
    /\ \A b \in {s.backpressure, s.closeRequest, s.inFlightClose, s.started,
                 s.algorithms, s.signalled, s.skipped, s.ok} : b \in BOOLEAN
    /\ s.ready \in [Writers -> Status] /\ s.closed \in [Writers -> Status]
    /\ s.writeP \in [Chunks -> Status] /\ s.closeP \in Status /\ s.abortP \in Status
    /\ s.sink \in {"start", "idle", "write", "close", "abort"} /\ s.answers \in Nat
    /\ s.accepted \in Seq(Chunks) /\ s.written \in Seq(Chunks)
    /\ frames \in Seq([call : {"write", "abort"}, writer : Writers \cup {NoWriter},
                       chunk : Chunks \cup {NoChunk}])

\* No debug_assert of the writable algorithms can fail, however calls, author code and
\* the sink's answers interleave.
AssertsHold == s.ok

\* The chunks whose write() promises wait, the one in flight first.
Waiting == IF s.inFlightWrite = NoChunk THEN s.writeRequests
           ELSE <<s.inFlightWrite>> \o s.writeRequests

\* While the stream is writable its two queues agree: the controller holds the chunks whose
\* write() promises wait, in the same order, and after them the close that was asked for.
QueuesAgree ==
    s.state = "writable" =>
        /\ Len(s.queue) = Len(Waiting) + (IF s.closeRequest THEN 1 ELSE 0)
        /\ \A i \in 1..Len(Waiting) : s.queue[i].chunk = Waiting[i]
        /\ s.closeRequest => s.queue[Len(s.queue)].chunk = CloseSentinel

\* A writer waits on `ready' exactly while there is backpressure, and there is backpressure
\* exactly while the queue is at its limit, as long as the stream accepts chunks.
ReadyTellsBackpressure ==
    s.state = "writable" /\ ~CloseQueuedOrInFlight(s) =>
        /\ s.backpressure <=> (s.total >= HighWaterMark)
        /\ Locked(s) => (s.ready[s.writer] = "pending" <=> s.backpressure)

\* Nobody waits for a stream that is over: once it is closed or errored and the sink has
\* answered, every promise that write(), close() and abort() handed out is settled, and so
\* are the ready and closed promises of the writer.
NothingLeftPending ==
    s.state \in {"closed", "errored"} /\ s.sink = "idle" =>
        /\ \A c \in Chunks : s.writeP[c] # "pending"
        /\ s.closeP # "pending" /\ s.abortP # "pending"
        /\ Locked(s) => s.ready[s.writer] # "pending" /\ s.closed[s.writer] # "pending"

\* A closed stream lost nothing: every chunk the controller took was written, although an
\* abort() or an error may have come while the sink was closing.
ClosedMeansWritten ==
    s.state = "closed" => \A c \in Range(s.accepted) : s.writeP[c] = "resolved"

\* A sink method is never skipped because its algorithm was cleared too early: an abort()
\* that found the stream writable reaches the sink's abort().
SinkMethodsReached == ~s.skipped

Fate == IF s.ended THEN "over" ELSE IF s.state = "writable" THEN "open" ELSE "broken"

=============================================================================
