------------------------------ MODULE Iteration ------------------------------
(***************************************************************************)
(* ReadableStream.from(iterable), read by the stream's own async iterator  *)
(* or by `read all bytes' (readable/async_iterator.rs,                     *)
(* readable/read_all_bytes.rs, js/src/iteration.rs and                     *)
(* readable_stream_from_iterable in readable/algorithms.rs).               *)
(*                                                                         *)
(* The stream has no room of its own: it asks the iterable for a value     *)
(* when a read waits.  While the iterable's next() runs (`source' is       *)
(* "calling") nothing else does: code that calls the stream from there is  *)
(* not modelled.  The iterable is asynchronous, or synchronous and wrapped *)
(* by the code: a primitive value is then parked until the next microtask. *)
(*                                                                         *)
(* Calls of an iterator's next() and return() are numbered.  A call that   *)
(* finds an ongoing promise waits behind the call it belongs to; when it   *)
(* has run, its own promise adopts the one it got (`inner'), which takes   *)
(* microtasks of their own.  Microtasks are `jobs', in order.  A call may  *)
(* come between any two.  Chunks are numbered; the negative number says    *)
(* that the chunk is no Uint8Array.  Resolving a promise with a chunk that *)
(* has a `then' is not modelled.                                           *)
(*                                                                         *)
(* Careful authors do not call an iterator whose ongoing promise was       *)
(* forgotten while one of its calls is still on its way.                   *)
(***************************************************************************)
EXTENDS Integers, SequencesExt

CONSTANTS
    MaxCalls,      \* bound on the calls of next() and return()
    MaxIterators,  \* bound on the iterators of the stream
    MaxChunks,     \* bound on the values of the iterable
    Careful        \* authors avoid what the asserts rule out, see above

VARIABLE s  \* the stream, the iterable, the iterators and their calls, and the jobs

Calls == 1..MaxCalls
Iterators == 1..MaxIterators
None == 0

Expect(r, cond) == [r EXCEPT !.ok = @ /\ cond]
Push(r, job) == [r EXCEPT !.jobs = Append(@, job)]
Readable(r) == r.state = "readable"
CanCloseOrEnqueue(r) == Readable(r) /\ ~r.closeRequested

-----------------------------------------------------------------------------
(* Reads.                                                                  *)

\* default_reader_release: the error steps of a read that waits would release once more.
ReleaseReader(r, i) ==
    [Expect(r, r.it[i].held /\ r.requests = <<>>) EXCEPT
        !.it[i].held = FALSE, !.locked = FALSE]

\* read_all_bytes_chunk_steps: the next read is made by a microtask.
ConsumeChunk(r, chunk) ==
    IF chunk < 0 THEN [r EXCEPT !.promise = "rejected"]
    ELSE Push([r EXCEPT !.bytes = Append(@, chunk)], <<"read">>)

\* The chunk steps of a read by call k, or by `read all bytes'.
ChunkSteps(r, k, chunk) ==
    IF k = None THEN ConsumeChunk(r, chunk)
    ELSE Push([r EXCEPT !.call[k].chunk = chunk], <<"fulfilled", k>>)

\* async_iter_close_steps and async_iter_error_steps; read_all_bytes_close_steps and
\* read_all_bytes_error_steps.
EndSteps(r, k) ==
    IF k = None
    THEN [r EXCEPT !.promise = IF r.state = "closed" THEN "resolved" ELSE "rejected"]
    ELSE Push(ReleaseReader(r, r.call[k].it),
              <<IF r.state = "closed" THEN "fulfilled" ELSE "rejected", k>>)

\* readable_stream_close and readable_stream_error: the requests are taken, then told.
EndStream(r, state) ==
    FoldLeft(EndSteps, [r EXCEPT !.state = state, !.requests = <<>>], r.requests)

\* The iterable is asked for a value only when it has answered the time before.
CallPullIfNeeded(r) ==
    IF ~(CanCloseOrEnqueue(r) /\ r.started /\ r.locked /\ r.requests # <<>>) THEN r
    ELSE IF r.pulling THEN [r EXCEPT !.pullAgain = TRUE]
    ELSE [Expect(r, ~r.pullAgain /\ r.source = "idle" /\ r.parked = None) EXCEPT
             !.pulling = TRUE, !.source = "calling"]

PullSteps(r, k) ==
    LET r1 == [r EXCEPT !.queue = Tail(@)] IN
    IF r.queue = <<>> THEN CallPullIfNeeded([r EXCEPT !.requests = Append(@, k)])
    ELSE ChunkSteps(IF r.closeRequested /\ r1.queue = <<>> THEN EndStream(r1, "closed")
                    ELSE CallPullIfNeeded(r1),
                    k, Head(r.queue))

\* default_reader_read, for the reader of call k.
ReaderRead(r, k) ==
    LET held == k = None \/ r.it[r.call[k].it].held IN
    IF ~held THEN Expect(r, FALSE)
    ELSE IF Readable(r) THEN PullSteps(r, k)
    ELSE EndSteps(r, k)

ControllerClose(r) ==
    IF ~CanCloseOrEnqueue(r) THEN r
    ELSE IF r.queue = <<>> THEN EndStream([r EXCEPT !.closeRequested = TRUE], "closed")
    ELSE [r EXCEPT !.closeRequested = TRUE]

ControllerEnqueue(r, chunk) ==
    LET r1 == [r EXCEPT !.accepted = Append(@, chunk)] IN
    IF ~CanCloseOrEnqueue(r) THEN r
    ELSE IF r.locked /\ r.requests # <<>>
         THEN CallPullIfNeeded(ChunkSteps([r1 EXCEPT !.requests = Tail(@)],
                                          Head(r.requests), chunk))
    ELSE CallPullIfNeeded([r1 EXCEPT !.queue = Append(@, chunk)])

ControllerError(r) ==
    IF Readable(r) THEN EndStream([r EXCEPT !.queue = <<>>], "errored") ELSE r

-----------------------------------------------------------------------------
(* The async iterator.                                                     *)

Waiting(r, k) == SelectSeq([j \in Calls |-> j], LAMBDA j : r.call[j].behind = k)

\* The promise of call k is settled: calls that wait behind it run, each in its microtask.
AnswerCall(r, k, answer) ==
    FoldLeft(LAMBDA acc, j : Push(acc, <<"after", j>>),
             [r EXCEPT !.call[k].answer = answer], Waiting(r, k))

\* The promise that the steps of call k returned is settled.
SettleInner(r, k, answer) ==
    LET r1 == [r EXCEPT !.call[k].inner = answer] IN
    IF r.call[k].behind = None THEN AnswerCall(r1, k, answer)
    ELSE IF r.call[k].adopted THEN Push(r1, <<"adopted", k>>)
    ELSE r1

\* run_next_steps and get_next_iteration_result.
RunNextSteps(r, k) ==
    IF r.it[r.call[k].it].finished THEN SettleInner(r, k, "done") ELSE ReaderRead(r, k)

\* readable_stream_cancel, and from_cancel_native: iterator.return() is called.
StreamCancel(r, k) ==
    CASE r.state = "closed"   -> SettleInner(r, k, "done")
      [] r.state = "errored"  -> SettleInner(r, k, "rejected")
      [] r.state = "readable" ->
             [EndStream(r, "closed") EXCEPT !.queue = <<>>, !.canceler = k]

\* run_return_steps and asynchronous_iterator_return.
RunReturnSteps(r, k) ==
    LET i == r.call[k].it
        r1 == [r EXCEPT !.it[i].finished = TRUE]
    IN IF r.it[i].finished THEN SettleInner(r, k, "done")
       ELSE IF r.it[i].preventCancel THEN SettleInner(ReleaseReader(r1, i), k, "done")
       ELSE ReleaseReader(StreamCancel(Expect(r1, r.it[i].held), k), i)

RunSteps(r, k) == IF r.call[k].kind = "next" THEN RunNextSteps(r, k) ELSE RunReturnSteps(r, k)

\* A call was made, and waits or runs; what is set last is the ongoing promise.
MakeCall(r, i, kind) ==
    LET k == r.calls + 1
        behind == r.it[i].ongoing
        r1 == [r EXCEPT !.calls = k, !.it[i].ongoing = k,
                        !.call[k] = [it |-> i, kind |-> kind, behind |-> behind,
                                     adopted |-> FALSE, inner |-> "pending",
                                     answer |-> "pending", chunk |-> None]]
    IN IF behind = None THEN RunSteps(r1, k)
       ELSE IF r.call[behind].answer # "pending" THEN Push(r1, <<"after", k>>)
       ELSE r1

\* next_fulfilled: the end of the iteration is a read that brought no chunk.
NextFulfilled(r, k) ==
    LET i == r.call[k].it
        ended == r.call[k].chunk = None
    IN SettleInner([r EXCEPT !.it[i].ongoing = None, !.it[i].finished = @ \/ ended],
                   k, IF ended THEN "done" ELSE "chunk")

NextRejected(r, k) ==
    LET i == r.call[k].it IN
    SettleInner([r EXCEPT !.it[i].ongoing = None, !.it[i].finished = TRUE], k, "rejected")

-----------------------------------------------------------------------------
(* Calls from JavaScript, and of the body that is read whole.              *)

Running == s.source = "calling"

\* values(), and for await: the stream is locked.
Values(preventCancel) ==
    /\ ~Running /\ s.consumer = "iterator" /\ ~s.locked /\ s.iterators < MaxIterators
    /\ s' = [s EXCEPT !.iterators = @ + 1, !.locked = TRUE,
                      !.it[s.iterators + 1] = [held |-> TRUE, preventCancel |-> preventCancel,
                                               finished |-> FALSE, ongoing |-> None]]

OnItsWay(i) == \E k \in 1..s.calls : s.call[k].it = i /\ s.call[k].answer = "pending"

Call(i, kind) ==
    /\ ~Running /\ i <= s.iterators /\ s.calls < MaxCalls
    /\ Careful /\ s.it[i].ongoing = None => ~OnItsWay(i)
    /\ s' = MakeCall(s, i, kind)

-----------------------------------------------------------------------------
(* The iterable.                                                           *)

\* A value that is no Uint8Array makes a difference to `read all bytes' only.
NewValues == {s.given + 1} \cup IF s.consumer = "bytes" THEN {0 - (s.given + 1)} ELSE {}

\* from_pull_native: what next() returned or threw.
NextReturns ==
    /\ Running
    /\ \/ s' = [s EXCEPT !.source = "asked"]
       \/ s' = Push([s EXCEPT !.source = "idle"],
                    IF s.sync THEN <<"from", "rejects", None>> ELSE <<"pulled", FALSE>>)

\* afs_next: a synchronous iterable brought a primitive value, or its end.
NextReturnsAtOnce ==
    /\ Running /\ s.sync
    /\ \/ /\ s.given < MaxChunks
          /\ \E value \in NewValues :
                s' = Push([s EXCEPT !.source = "idle", !.given = @ + 1, !.parked = value],
                          <<"wrap", "value">>)
       \/ s' = Push([s EXCEPT !.source = "idle"], <<"wrap", "done">>)

\* The promise of an asynchronous next() settles, or the one a synchronous next() yielded.
NextSettles ==
    /\ s.source = "asked"
    /\ \/ /\ s.given < MaxChunks
          /\ \E value \in NewValues :
                s' = Push([s EXCEPT !.source = "idle", !.given = @ + 1],
                          <<"from", "value", value>>)
       \/ /\ ~s.sync
          /\ \E answer \in {"done", "no object"} :
                s' = Push([s EXCEPT !.source = "idle"], <<"from", answer, None>>)
       \/ s' = Push([s EXCEPT !.source = "idle"], <<"from", "rejects", None>>)

\* The promise of the iterable's return() settles.
ReturnSettles(ok) ==
    /\ ~Running /\ s.canceler # None
    /\ s' = Push([s EXCEPT !.canceler = None], <<"canceled", s.canceler, ok>>)

-----------------------------------------------------------------------------
(* Microtasks.                                                             *)

\* from_pull_fulfilled; the promise of pull() settles with what it says.
PullAnswered(r, answer, chunk) ==
    CASE answer = "value" -> Push(ControllerEnqueue(r, chunk), <<"pulled", TRUE>>)
      [] answer = "done"  -> Push(ControllerClose(r), <<"pulled", TRUE>>)
      [] OTHER            -> Push(r, <<"pulled", FALSE>>)

\* afs_wrap_parked.
WrapParked(r, answer) ==
    Push([Expect(r, answer = "value" => r.parked # None) EXCEPT !.parked = None],
         <<"from", answer, r.parked>>)

\* pull_promise_fulfilled and pull_promise_rejected.
PullSettled(r, ok) ==
    LET r1 == [r EXCEPT !.pulling = FALSE, !.pullAgain = FALSE] IN
    IF ~ok THEN ControllerError(r)
    ELSE IF r.pullAgain THEN CallPullIfNeeded(r1)
    ELSE r1

\* A call that waited has run: its promise adopts the one that its steps returned.
AfterOngoing(r, k) == Push(RunSteps(r, k), <<"adopt", k>>)

Adopt(r, k) ==
    LET r1 == [r EXCEPT !.call[k].adopted = TRUE] IN
    IF r.call[k].inner = "pending" THEN r1 ELSE Push(r1, <<"adopted", k>>)

RunJob(r, job) ==
    CASE job[1] = "start"     -> CallPullIfNeeded([r EXCEPT !.started = TRUE])
      [] job[1] = "read"      -> ReaderRead(r, None)
      [] job[1] = "wrap"      -> WrapParked(r, job[2])
      [] job[1] = "from"      -> PullAnswered(r, job[2], job[3])
      [] job[1] = "pulled"    -> PullSettled(r, job[2])
      [] job[1] = "fulfilled" -> NextFulfilled(r, job[2])
      [] job[1] = "rejected"  -> NextRejected(r, job[2])
      [] job[1] = "after"     -> AfterOngoing(r, job[2])
      [] job[1] = "adopt"     -> Adopt(r, job[2])
      [] job[1] = "adopted"   -> AnswerCall(r, job[2], r.call[job[2]].inner)
      [] job[1] = "canceled"  -> SettleInner(r, job[2], IF job[3] THEN "done" ELSE "rejected")

Job ==
    /\ ~Running /\ s.jobs # <<>>
    /\ s' = RunJob([s EXCEPT !.jobs = Tail(@)], Head(s.jobs))

-----------------------------------------------------------------------------
\* What makes an object iterable, and GetIterator's choice: only without an asynchronous
\* iterator is a synchronous one wrapped.  What has neither is refused, and there is no stream.
Iterables == SUBSET {"async", "sync"} \ {{}}

IsWrapped(iterable) == "async" \notin iterable

\* read_all_bytes: a reader that is never released, and its first read.
ReadAllBytes(r) ==
    [r EXCEPT !.consumer = "bytes", !.locked = TRUE, !.requests = <<None>>, !.promise = "pending"]

\* readable_stream_from_iterable: no room, and a start that has nothing to wait for.
FromIterable(iterable) ==
    [consumer |-> "iterator", sync |-> IsWrapped(iterable),
     state |-> "readable", locked |-> FALSE, started |-> FALSE, requests |-> <<>>,
     queue |-> <<>>, closeRequested |-> FALSE, pulling |-> FALSE, pullAgain |-> FALSE,
     source |-> "idle", parked |-> None, given |-> 0, accepted |-> <<>>, canceler |-> None,
     promise |-> "none", bytes |-> <<>>,
     iterators |-> 0, calls |-> 0,
     it |-> [i \in Iterators |-> [held |-> FALSE, preventCancel |-> FALSE,
                                  finished |-> FALSE, ongoing |-> None]],
     call |-> [k \in Calls |-> [it |-> None, kind |-> "none", behind |-> None,
                                adopted |-> FALSE, inner |-> "none", answer |-> "none",
                                chunk |-> None]],
     jobs |-> << <<"start">> >>, ok |-> TRUE]

Init == \E iterable \in Iterables :
    LET stream == FromIterable(iterable) IN s \in {stream, ReadAllBytes(stream)}

Next ==
    \/ \E preventCancel \in BOOLEAN : Values(preventCancel)
    \/ \E i \in Iterators, kind \in {"next", "return"} : Call(i, kind)
    \/ NextReturns \/ NextReturnsAtOnce \/ NextSettles
    \/ \E ok \in BOOLEAN : ReturnSettles(ok)
    \/ Job

Spec == Init /\ [][Next]_s

-----------------------------------------------------------------------------
(* Properties.                                                             *)

\* No assert or expect fails: a reader is released once and with no read waiting, reads and
\* cancels only while it holds the stream, and a parked value is taken before the next one
\* is parked, since the iterable is not asked again before.
IterationAsserts == s.ok

Taken == SelectSeq([k \in 1..s.calls |-> s.call[k].chunk], LAMBDA c : c # None)

\* Calls get the iterable's values in the order in which the calls were made, whichever of
\* them waited behind another; what was left when an iterator went without canceling is for
\* the next one; and once a call was told that it is over no later one gets a value.  The
\* bytes that are read whole are all there are, in order, when the promise is resolved.
ValuesInOrder ==
    /\ s.consumer = "iterator" =>
          /\ Readable(s) => Taken \o s.queue = s.accepted
          /\ IsPrefix(Taken, s.accepted)
          /\ \A k \in 1..s.calls : \A j \in 1..(k - 1) :
                s.call[j].it = s.call[k].it /\ s.call[j].answer \in {"done", "rejected"}
                => s.call[k].chunk = None
    /\ s.consumer = "bytes" =>
          /\ IsPrefix(s.bytes, s.accepted)
          /\ s.promise = "resolved" => s.bytes = s.accepted /\ s.state = "closed"

AtRest == s.jobs = <<>> /\ s.source = "idle" /\ s.canceler = None

\* When there is nothing left to run and the iterable owes no answer, every call is answered
\* and the bytes have been delivered or refused: nobody waits behind a call that is over, for
\* a value that was never asked for, or for the end of a stream that was released.
IterationComesToRest ==
    AtRest => /\ \A k \in 1..s.calls : s.call[k].answer # "pending"
              /\ s.promise # "pending"

\* An iterator that is over has let go of the stream, so that the next reader can have it.
FinishedLetsGo == \A i \in Iterators : s.it[i].finished => ~s.it[i].held

=============================================================================
