----------------------------- MODULE ByteStream -----------------------------
(***************************************************************************)
(* ReadableStream with a byte controller, default and BYOB readers         *)
(* (builtins/web-streams/src/readable/: the byte half of algorithms.rs,    *)
(* byte_stream_controller.rs, byob_reader.rs, byob_request.rs).            *)
(*                                                                         *)
(* Bytes are numbered in the order in which the source gives them, with    *)
(* enqueue() or by writing into the buffer of a byobRequest.  A queue      *)
(* entry is the sequence of its bytes.  A pull-into descriptor keeps the   *)
(* bytes written into it, the length of its view, the element size and the *)
(* fill that is asked for; byte offsets inside a buffer are left out.      *)
(*                                                                         *)
(* As in ReadableStream, pull() and cancel() are author code that runs in  *)
(* the middle of an operation: a frame on a stack keeps the rest of it.    *)
(* enqueue() serves reads in a loop, and every turn of the loop can call   *)
(* pull(): its loop is the frame "serve", which runs by itself when it is  *)
(* on top.  A view whose element size does not divide its length, an empty *)
(* view or chunk and `min' out of range are refused before anything is     *)
(* touched.  Running out of memory is not modelled.                        *)
(*                                                                         *)
(* When a BYOB reader leaves its buffer behind and a default reader takes  *)
(* over, asserts do not hold if the stream allocates buffers itself        *)
(* (autoAllocateChunkSize), if the source responds with the buffer that    *)
(* was left while default reads wait, or if pull() releases the reader     *)
(* that enqueue() is serving.  With Careful authors do none of these.      *)
(***************************************************************************)
EXTENDS Integers, SequencesExt

CONSTANTS
    MaxReads,       \* bound on calls of read()
    MaxBytes,       \* bound on the bytes the source gives
    Views,          \* views that read(view, {min}) gets: records of len, elem and min, in bytes
    AutoSizes,      \* autoAllocateChunkSize, 0 for none
    HighWaterMarks, \* strategy_hwm, in bytes
    Careful         \* authors avoid what the asserts rule out, see above

VARIABLE s   \* the stream, its controller, reader and promises, and the suspended calls

Reads == 1..MaxReads
None == 0

-----------------------------------------------------------------------------
(* The stream.                                                             *)

DebugAssert(r, cond) == [r EXCEPT !.ok = @ /\ cond]
Readable(r) == r.state = "readable"
Open(r) == Readable(r) /\ ~r.closeRequested
ResetByteQueue(r) == [r EXCEPT !.queue = <<>>, !.total = 0]
ClearAlgorithms(r) == [r EXCEPT !.algorithms = FALSE]
InvalidateByobRequest(r) == [r EXCEPT !.byob = FALSE]
ClearPendingPullIntos(r) == [InvalidateByobRequest(r) EXCEPT !.pending = <<>>]

SettleRequests(r, how) ==
    [r EXCEPT !.requests = <<>>,
              !.readP = [i \in Reads |-> IF i \in ToSet(r.requests) THEN how ELSE r.readP[i]]]

\* readable_stream_close: read-into requests of a BYOB reader go on waiting.
StreamClose(r) ==
    LET r1 == [DebugAssert(r, Readable(r)) EXCEPT !.state = "closed"] IN
    IF r.reader = "default" THEN SettleRequests(r1, "done") ELSE r1

StreamError(r) ==
    SettleRequests([DebugAssert(r, Readable(r)) EXCEPT !.state = "errored"], "rejected")

ControllerError(r) ==
    IF Readable(r)
    THEN StreamError(ClearAlgorithms(ResetByteQueue(ClearPendingPullIntos(r))))
    ELSE r

\* Mutant: pull() is called while start() is under way.
ShouldCallPull_Unstarted(r) ==
    /\ Open(r)
    /\ r.requests # <<>> \/ r.hwm - r.total > 0

ShouldCallPull(r) ==
    /\ Open(r) /\ r.started
    /\ r.requests # <<>> \/ r.hwm - r.total > 0

\* The chunk steps, or with `done' the close steps, of a request that gets a view.
Answer(r, read, bytes, done) ==
    IF read = None THEN r
    ELSE [r EXCEPT !.readP[read] = IF done THEN "done" ELSE "chunk", !.got[read] = bytes]

PushFrame(r, call, read, bytes) ==
    [r EXCEPT !.frames =
        Append(@, [call |-> call, read |-> read, bytes |-> bytes, gone |-> FALSE])]

\* call_pull_if_needed.  What is left to do afterwards is to hand `bytes' to `read', if any.
CallPullIfNeeded(r, read, bytes) ==
    IF ~ShouldCallPull(r) THEN Answer(r, read, bytes, FALSE)
    ELSE IF r.pulling THEN Answer([r EXCEPT !.pullAgain = TRUE], read, bytes, FALSE)
    ELSE PushFrame([DebugAssert(r, ~r.pullAgain /\ r.algorithms) EXCEPT
                        !.pulling = TRUE, !.pulls = @ + 1],
                   "pull", read, bytes)

HandleQueueDrain(r, read, bytes) ==
    LET r1 == DebugAssert(r, Readable(r)) IN
    IF r.total = 0 /\ r.closeRequested
    THEN Answer(StreamClose(ClearAlgorithms(r1)), read, bytes, FALSE)
    ELSE CallPullIfNeeded(r1, read, bytes)

-----------------------------------------------------------------------------
(* Queue and pull-into descriptors.                                        *)

EnqueueChunkToQueue(r, bytes) ==
    [r EXCEPT !.queue = Append(@, bytes), !.total = @ + Len(bytes)]

\* fill_read_request_from_queue: a default read takes a whole entry.
FillReadRequest(r, read) ==
    LET entry == Head(r.queue)
        r1 == [DebugAssert(r, r.total > 0) EXCEPT
                  !.queue = Tail(@), !.total = @ - Len(entry)]
    IN HandleQueueDrain(r1, read, entry)

ShiftPendingPullInto(r) ==
    [DebugAssert(r, ~r.byob /\ r.pending # <<>>) EXCEPT !.pending = Tail(@)]

\* Mutant: what was written into the buffer is dropped with the descriptor.
EnqueueDetachedPullInto_Drops(r) == ShiftPendingPullInto(r)

\* enqueue_detached_pull_into_to_queue: bytes for a reader that is gone go to the queue.
EnqueueDetachedPullInto(r) ==
    LET d == Head(r.pending)
        r1 == DebugAssert(r, d.reader = "none")
    IN ShiftPendingPullInto(
           IF d.filled = <<>> THEN r1 ELSE EnqueueChunkToQueue(r1, d.filled))

\* The queue without its first n bytes.
DropBytes(queue, n) ==
    LET rest[k \in 0..n] ==
            IF k = 0 THEN queue
            ELSE LET q == rest[k - 1] IN
                 IF Len(Head(q)) = 1 THEN Tail(q) ELSE <<Tail(Head(q))>> \o Tail(q)
    IN rest[n]

\* fill_pull_into_descriptor_from_queue: as many whole elements as fit, or everything when
\* the minimum is not reached.
FillFromQueue(r, d) ==
    LET free == d.len - Len(d.filled)
        maxCopy == IF r.total < free THEN r.total ELSE free
        maxFilled == Len(d.filled) + maxCopy
        aligned == maxFilled - (maxFilled % d.elem)
        ready == aligned >= d.min
        n == IF ready THEN aligned - Len(d.filled) ELSE maxCopy
        d1 == [d EXCEPT !.filled = @ \o SubSeq(FlattenSeq(r.queue), 1, n)]
        r1 == [r EXCEPT !.queue = DropBytes(@, n), !.total = @ - n]
    IN [r |-> DebugAssert(r1,
                  /\ ~d.detached /\ Len(d.filled) < d.min
                  /\ n > 0 => ~r.byob
                  /\ ~ready => r1.total = 0 /\ d1.filled # <<>> /\ Len(d1.filled) < d.min),
        d |-> d1, ready |-> ready]

\* process_pull_into_descriptors_using_queue: the descriptors that are filled leave the list.
ProcessPullIntos(r) ==
    LET p[k \in 0..Len(r.pending)] ==
            IF k = 0 THEN [r |-> DebugAssert(r, ~r.closeRequested), filled |-> <<>>]
            ELSE LET q == p[k - 1]
                     f == FillFromQueue([q.r EXCEPT !.pending = Tail(@)], Head(q.r.pending))
                 IN IF q.r.pending = <<>> \/ q.r.total = 0 THEN q
                    ELSE IF f.ready THEN [r |-> f.r, filled |-> Append(q.filled, f.d)]
                    ELSE [q EXCEPT !.r = [f.r EXCEPT !.pending = <<f.d>> \o @]]
    IN p[Len(r.pending)]

\* fulfill_read_request and fulfill_read_into_request.
FulfillRequest(r, kind, bytes, done) ==
    LET r1 == DebugAssert(r, r.reader = kind /\ r.requests # <<>>) IN
    IF r.requests = <<>> THEN r1
    ELSE Answer([r1 EXCEPT !.requests = Tail(@)], Head(r.requests), bytes, done)

\* commit_pull_into_descriptor.
Commit(r, d) ==
    LET r1 == DebugAssert(r, /\ r.state # "errored" /\ d.reader # "none"
                             /\ Len(d.filled) <= d.len /\ Len(d.filled) % d.elem = 0)
    IN FulfillRequest(r1, d.reader, d.filled, r.state = "closed")

CommitAll(p, before) == FoldLeft(Commit, p.r, before \o p.filled)

-----------------------------------------------------------------------------
(* Readers.                                                                *)

GetReader(kind) ==
    /\ s.reader = "none"
    /\ s' = [s EXCEPT !.reader = kind]

\* byte_release_steps: the first descriptor stays for the source to write into.
ByteReleaseSteps(r) ==
    IF r.pending = <<>> THEN r
    ELSE [r EXCEPT !.pending = <<[Head(@) EXCEPT !.reader = "none"]>>]

InEnqueue(r) == \E i \in DOMAIN r.frames : r.frames[i].call = "serve"

\* The release of either reader: reads that wait are rejected, and a loop of enqueue() that
\* served this reader finds nothing more to serve.
ReleaseReader(r) ==
    [SettleRequests(ByteReleaseSteps(r), "rejected") EXCEPT
        !.reader = "none",
        !.frames = [i \in DOMAIN @ |-> [@[i] EXCEPT !.gone = TRUE]]]

ReleaseLock ==
    /\ s.reader # "none"
    /\ Careful => ~InEnqueue(s)
    /\ s' = ReleaseReader(s)

Descriptor(kind, view) ==
    [reader |-> kind, len |-> view.len, elem |-> view.elem, min |-> view.min,
     filled |-> <<>>, detached |-> FALSE]

\* byte_pull_steps.
BytePullSteps(r, read) ==
    LET d == Descriptor("default", [len |-> r.auto, elem |-> 1, min |-> 1])
        r1 == IF r.auto = 0 THEN r ELSE [r EXCEPT !.pending = Append(@, d)]
    IN IF r.total > 0 THEN FillReadRequest(DebugAssert(r, r.requests = <<>>), read)
       ELSE CallPullIfNeeded([r1 EXCEPT !.requests = Append(@, read)], None, <<>>)

NewRead(r) ==
    [r EXCEPT !.reads = @ + 1, !.readP[r.reads + 1] = "pending"]

\* readable_stream_default_reader_read.
DefaultReaderRead(r) ==
    LET r1 == NewRead(r) IN
    CASE r.state = "closed"   -> [r1 EXCEPT !.readP[r1.reads] = "done"]
      [] r.state = "errored"  -> [r1 EXCEPT !.readP[r1.reads] = "rejected"]
      [] r.state = "readable" -> BytePullSteps(r1, r1.reads)

\* read() of a default reader.
Read ==
    /\ s.reader = "default" /\ s.reads < MaxReads
    /\ s' = DefaultReaderRead(s)

Wait(r, read, d) ==
    [r EXCEPT !.pending = Append(@, d), !.requests = Append(@, read)]

\* The rest of pull_into, when the queue had something: f is what was made of it.
AfterFill(f, read) ==
    IF f.ready THEN HandleQueueDrain(f.r, read, f.d.filled)
    ELSE IF f.r.closeRequested THEN [ControllerError(f.r) EXCEPT !.readP[read] = "rejected"]
    ELSE CallPullIfNeeded(Wait(f.r, read, f.d), None, <<>>)

\* pull_into.
PullInto(r, read, d) ==
    IF r.pending # <<>> THEN Wait(r, read, d)
    ELSE IF r.state = "closed" THEN Answer(r, read, <<>>, TRUE)
    ELSE IF r.total = 0 THEN CallPullIfNeeded(Wait(r, read, d), None, <<>>)
    ELSE AfterFill(FillFromQueue(r, d), read)

\* readable_stream_byob_reader_read.
ByobReaderRead(r, view) ==
    LET r1 == NewRead(r) IN
    IF r.state = "errored" THEN [r1 EXCEPT !.readP[r1.reads] = "rejected"]
    ELSE PullInto(r1, r1.reads, Descriptor("byob", view))

\* read(view) of a BYOB reader.
ReadInto(view) ==
    /\ s.reader = "byob" /\ s.reads < MaxReads
    /\ Careful => s.auto = 0
    /\ s' = ByobReaderRead(s, view)

\* byte_cancel_steps, up to the call of the source's cancel().
ByteCancelSteps(r) ==
    PushFrame([DebugAssert(ResetByteQueue(ClearPendingPullIntos(r)), r.algorithms)
                  EXCEPT !.cancel = "running"], "cancel", None, <<>>)

\* readable_stream_cancel: reads of either reader are told that there is nothing more.
StreamCancel(r) == ByteCancelSteps(SettleRequests(StreamClose(r), "done"))

Cancel ==
    /\ Readable(s)
    /\ s' = StreamCancel(s)

-----------------------------------------------------------------------------
(* The source.                                                             *)

Top(r) == Last(r.frames)
Pop(r) == [r EXCEPT !.frames = Front(@)]
InCall(call) == s.frames # <<>> /\ Top(s).call = call
InAuthorCode == ~InCall("serve")

NewBytes(r, n) == [i \in 1..n |-> r.given + i]

\* The source gives n bytes; `nested' when it does so inside an enqueue() of its own.
Give(r, n) ==
    [r EXCEPT !.given = @ + n,
              !.nested = @ \/ InEnqueue(r)]

\* enqueue() refuses when the buffer that it would write into is gone.
MayEnqueue(r) == Open(r) /\ (r.pending # <<>> => ~Head(r.pending).detached)

\* readable_byte_stream_controller_enqueue: bytes in a buffer whose reader left go to the
\* queue before.
ControllerEnqueue(r, chunk) ==
    LET r1 == Give(r, Len(chunk))
        r2 == IF r.pending = <<>> THEN r1
              ELSE IF Head(r.pending).reader = "none"
                   THEN EnqueueDetachedPullInto(InvalidateByobRequest(r1))
              ELSE InvalidateByobRequest(r1)
        queued == EnqueueChunkToQueue(r2, chunk)
    IN IF r.reader = "default" THEN PushFrame(r2, "serve", None, chunk)
       ELSE CallPullIfNeeded(IF r.reader = "byob" THEN CommitAll(ProcessPullIntos(queued), <<>>)
                             ELSE queued,
                             None, <<>>)

\* controller.enqueue().
Enqueue(n) ==
    /\ MayEnqueue(s) /\ s.given + n <= MaxBytes
    /\ s' = ControllerEnqueue(s, NewBytes(s, n))

\* enqueue() after process_read_requests_using_queue.
FinishEnqueue(r, chunk) ==
    LET r1 == DebugAssert(r, r.reader = "default")
        r2 == DebugAssert(r1, r.queue = <<>>)
        r3 == IF r.pending = <<>> THEN r2
              ELSE ShiftPendingPullInto(DebugAssert(r2, Head(r.pending).reader = "default"))
    IN CallPullIfNeeded(
           IF r.requests = <<>>
           THEN EnqueueChunkToQueue(DebugAssert(r1, r.pending = <<>>), chunk)
           ELSE FulfillRequest(r3, "default", chunk, FALSE),
           None, <<>>)

\* process_read_requests_using_queue: one turn of its loop, or the rest of enqueue().
ServeTurn(r) ==
    IF ~Top(r).gone /\ r.requests # <<>> /\ r.total > 0
    THEN FillReadRequest([r EXCEPT !.requests = Tail(@)], Head(r.requests))
    ELSE FinishEnqueue(Pop(r), Top(r).bytes)

ServeReads ==
    /\ InCall("serve")
    /\ s' = ServeTurn(s)

\* Whether close() errors the stream and throws: the first buffer ends inside an element.
Insufficient(r) ==
    /\ Open(r) /\ r.total = 0 /\ r.pending # <<>>
    /\ Len(Head(r.pending).filled) % Head(r.pending).elem # 0

\* readable_byte_stream_controller_close.
ControllerClose(r) ==
    IF ~Open(r) THEN r
    ELSE IF r.total > 0 THEN [r EXCEPT !.closeRequested = TRUE]
    ELSE IF Insufficient(r) THEN ControllerError(r)
    ELSE StreamClose(ClearAlgorithms(r))

\* controller.close().
Close ==
    /\ Open(s)
    /\ s' = ControllerClose(s)

\* controller.error().
Error ==
    /\ Readable(s)
    /\ s' = ControllerError(s)

\* get_byob_request.
GetByobRequest ==
    /\ ~s.byob /\ s.pending # <<>>
    /\ s' = [DebugAssert(s, ~Head(s.pending).detached) EXCEPT !.byob = TRUE]

\* Author code takes the buffer away from the view of the byobRequest.
DetachView ==
    /\ s.byob /\ ~Head(s.pending).detached
    /\ s' = [s EXCEPT !.pending = [@ EXCEPT ![1].detached = TRUE]]

\* respond_in_closed_state: every read of a BYOB reader gets back its buffer.
RespondInClosedState(r) ==
    LET d == Head(r.pending)
        r1 == DebugAssert(r, Len(d.filled) % d.elem = 0)
        r2 == IF d.reader = "none" THEN ShiftPendingPullInto(r1) ELSE r1
        committed[k \in 0..Len(r.requests)] ==
            IF k = 0 THEN r2
            ELSE Commit(ShiftPendingPullInto(committed[k - 1]), Head(committed[k - 1].pending))
    IN IF r.reader = "byob" THEN committed[Len(r.requests)] ELSE r2

\* respond_in_readable_state, with the first buffer as it is now: bytes of a reader that left
\* go to the queue, and so do those past the last whole element.
AfterResponse(r, d) ==
    LET whole == Len(d.filled) - (Len(d.filled) % d.elem)
        rest == SubSeq(d.filled, whole + 1, Len(d.filled))
        shifted == [r EXCEPT !.pending = Tail(@)]
        left == d.reader = "none"
    IN IF ~left /\ Len(d.filled) < d.min THEN r
       ELSE CommitAll(ProcessPullIntos(IF left THEN EnqueueDetachedPullInto(r)
                                       ELSE IF rest = <<>> THEN shifted
                                       ELSE EnqueueChunkToQueue(shifted, rest)),
                      IF left THEN <<>> ELSE <<[d EXCEPT !.filled = SubSeq(@, 1, whole)]>>)

RespondInReadableState(r, bytes) ==
    LET d == [Head(r.pending) EXCEPT !.filled = @ \o bytes] IN
    AfterResponse([Give(DebugAssert(r, ~r.byob /\ Len(d.filled) <= d.len), Len(bytes)) EXCEPT
                      !.pending[1] = d],
                  d)

\* respond_internal, for the bytes that were written into the buffer.
RespondInternal(r, bytes) ==
    LET r1 == DebugAssert(InvalidateByobRequest(r), r.state # "errored") IN
    CallPullIfNeeded(IF r.state = "closed" THEN RespondInClosedState(r1)
                     ELSE RespondInReadableState(r1, bytes), None, <<>>)

\* What respond() and respondWithNewView() ask of the byobRequest and of the byte count.
MayRespond(n) ==
    /\ s.byob
    /\ IF s.state = "closed" THEN n = 0
       ELSE n \in 1..(Head(s.pending).len - Len(Head(s.pending).filled)) /\ s.given + n <= MaxBytes
    /\ Careful => ~(s.reader = "default" /\ s.requests # <<>> /\ Head(s.pending).reader = "none")

\* byobRequest.respond(n).
Respond(n) ==
    /\ MayRespond(n) /\ ~Head(s.pending).detached
    /\ s' = RespondInternal(s, NewBytes(s, n))

\* byobRequest.respondWithNewView(): the view brings a buffer of its own.
RespondWithNewView(n) ==
    /\ MayRespond(n)
    /\ s' = RespondInternal([s EXCEPT !.pending = [@ EXCEPT ![1].detached = FALSE]],
                            NewBytes(s, n))

-----------------------------------------------------------------------------
(* Author code returns; reactions to the source's promises.                *)

PullReturned(r) == Answer(Pop(r), Top(r).read, Top(r).bytes, FALSE)

PullReturns ==
    /\ InCall("pull")
    /\ s' = PullReturned(s)

CancelReturned(r) == ClearAlgorithms([Pop(r) EXCEPT !.cancel = "settled"])

CancelReturns ==
    /\ InCall("cancel")
    /\ s' = CancelReturned(s)

\* byte_start_promise_fulfilled.
AfterStart(r) ==
    CallPullIfNeeded([DebugAssert(r, ~r.pulling /\ ~r.pullAgain) EXCEPT
                         !.start = "fulfilled", !.started = TRUE], None, <<>>)

StartFulfilled ==
    /\ s.frames = <<>> /\ s.start = "pending"
    /\ s' = AfterStart(s)

StartRejected ==
    /\ s.frames = <<>> /\ s.start = "pending"
    /\ s' = ControllerError([s EXCEPT !.start = "rejected"])

\* byte_pull_promise_fulfilled.
AfterPull(r) ==
    LET r1 == [r EXCEPT !.pulls = @ - 1, !.pulling = FALSE, !.pullAgain = FALSE] IN
    IF r.pullAgain THEN CallPullIfNeeded(r1, None, <<>>) ELSE r1

PullFulfilled ==
    /\ s.frames = <<>> /\ s.pulls > 0
    /\ s' = AfterPull(s)

PullRejected ==
    /\ s.frames = <<>> /\ s.pulls > 0
    /\ s' = ControllerError([s EXCEPT !.pulls = @ - 1])

-----------------------------------------------------------------------------
\* set_up_readable_byte_stream_controller, up to the call of start().
NewStream(hwm, auto) ==
    [hwm |-> hwm, auto |-> auto, state |-> "readable", reader |-> "none",
     requests |-> <<>>, queue |-> <<>>, total |-> 0, pending |-> <<>>, byob |-> FALSE,
     started |-> FALSE, pulling |-> FALSE, pullAgain |-> FALSE, closeRequested |-> FALSE,
     algorithms |-> TRUE, readP |-> [i \in Reads |-> "none"],
     got |-> [i \in Reads |-> <<>>], reads |-> 0, given |-> 0,
     start |-> "pending", pulls |-> 0, cancel |-> "none",
     nested |-> FALSE, frames |-> <<>>, ok |-> TRUE]

\* set_up_readable_byte_stream_controller_from_underlying_source, and native byte streams.
Init == \E hwm \in HighWaterMarks, auto \in AutoSizes : s = NewStream(hwm, auto)

Js ==
    /\ InAuthorCode
    /\ \/ \E kind \in {"default", "byob"} : GetReader(kind)
       \/ ReleaseLock \/ Read \/ Cancel \/ Close \/ Error \/ GetByobRequest \/ DetachView
       \/ \E view \in Views : ReadInto(view)
       \/ \E n \in 1..MaxBytes : Enqueue(n)
       \/ \E n \in 0..MaxBytes : Respond(n) \/ RespondWithNewView(n)

Reaction == StartFulfilled \/ StartRejected \/ PullFulfilled \/ PullRejected

Next == Js \/ ServeReads \/ PullReturns \/ CancelReturns \/ Reaction

Spec == Init /\ [][Next]_s

-----------------------------------------------------------------------------
(* Properties.                                                             *)

\* No debug_assert or expect of the byte controller can fail, and pull() and cancel() are
\* never skipped because they were cleared too early.
AssertsHold == s.ok

BytesOf(read) ==
    LET hand == {i \in DOMAIN s.frames : s.frames[i].read = read} IN
    IF hand = {} THEN s.got[read] ELSE s.frames[CHOOSE i \in hand : TRUE].bytes

Delivered == FlattenSeq([i \in 1..s.reads |-> BytesOf(i)])
Written == FlattenSeq([i \in DOMAIN s.pending |-> s.pending[i].filled])
Serving == FlattenSeq([i \in DOMAIN s.frames |->
                           IF s.frames[i].call = "serve" THEN s.frames[i].bytes ELSE <<>>])

\* No byte is lost, given twice or out of order while the stream is readable, whichever
\* readers come and go and whether a byte was enqueued or written into a reader's buffer:
\* what reads got, what is in a buffer half filled, the queue and the chunk being enqueued
\* follow each other.  Only a source that enqueues inside pull() inside enqueue() overtakes
\* itself.
BytesInOrder ==
    Readable(s) /\ ~s.nested =>
        Delivered \o Written \o FlattenSeq(s.queue) \o Serving = [i \in 1..s.given |-> i]

InHand(read) == \E i \in DOMAIN s.frames : s.frames[i].read = read
Count(kind) == Len(SelectSeq(s.pending, LAMBDA d : d.reader = kind))

\* Every read that waits is in the reader's list or in hand, every read of a BYOB reader has
\* its buffer in the list of descriptors, nobody else's buffer is there but the one being
\* filled when a reader left, and that one is first.
ReadsMatchBuffers ==
    /\ \A i \in Reads : s.readP[i] = "pending" <=> InHand(i) \/ i \in ToSet(s.requests)
    /\ s.reader = "byob" => Count("byob") = Len(s.requests)
    /\ s.reader # "byob" => Count("byob") = 0
    /\ s.reader = "none" => s.requests = <<>>
    /\ \A i \in DOMAIN s.pending : s.pending[i].reader = "none" => i = 1
    /\ s.state = "errored" => s.pending = <<>> /\ s.requests = <<>>

Fate == IF ~Readable(s) THEN "over" ELSE IF s.closeRequested THEN "closing" ELSE "open"

=============================================================================
