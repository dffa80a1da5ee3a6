------------------------------ MODULE HostBody ------------------------------
(***************************************************************************)
(* A body that is still on the host (incoming_body.rs, body_mixin.rs,      *)
(* response.rs, body_proxy.rs): it is handed from one holder to the next,  *)
(* read whole by text() and its kin, streamed chunk by chunk through       *)
(* `.body', proxied into another Request, piped through an identity        *)
(* transform, sent on as it is, canceled or aborted.                       *)
(*                                                                         *)
(* The host has the chunks 1..Chunks.  `host' says who holds the body: the *)
(* Request or Response that was given it ("owner"), the source of its      *)
(* stream ("source"), the future of a chunk read ("read") or of a read of  *)
(* everything ("all"), the transport ("wire"), or nobody.  `st' is the     *)
(* `.body' stream, whose high water mark is 0, and `px' a proxy of it.     *)
(* What the transport pumps from a stream is in BodyPump, what a tee does  *)
(* in Tee: here they are readers like the others.                          *)
(*                                                                         *)
(* A chunk read is done in one step, which leaves its result, and settled  *)
(* in another, which delivers it: author code that an earlier settlement   *)
(* of the same turn runs comes between, microtasks do not.  Author code    *)
(* that a poll runs comes while the poll holds all futures.  The loop is   *)
(* away while a synchronous export runs (without_event_loop).              *)
(*                                                                         *)
(* s.out, s.ended, s.canceled, s.stolen, s.wired and s.late are history.   *)
(***************************************************************************)
EXTENDS Integers, Sequences, SequencesExt

CONSTANTS
    Chunks,    \* how many chunks the host has for this body
    MaxReads,  \* bound on the reads of each stream
    Careful    \* TRUE: author code leaves a reserved body alone, and does not ask for the
               \* text of a body that it reads already

VARIABLE s

-----------------------------------------------------------------------------
Push(r, job) == [r EXCEPT !.jobs = Append(@, job)]
Readable(r) == r.st.state = "readable"

\* A chunk comes to whoever reads in the end: author code, a tee, a pump or text().
Deliver(r, chunk) == [r EXCEPT !.out = Append(@, chunk)]

\* AbortFetchState::detach.
Detach(r) == [r EXCEPT !.algorithm = FALSE]

\* The host is asked for the next chunk, and a loop polls the future.
Reading == s.host = "read" /\ s.result = "none" /\ s.loop

\* BodyMixin::is_unusable.
IsUnusable(r) == r.disturbed \/ (r.st.state # "none" /\ (r.st.used \/ r.st.lock # "none"))

-----------------------------------------------------------------------------
(* The proxy's stream: proxy_body_stream and its steps.                    *)

\* settle_pull: the stream machinery hears of the end of the pull.
SettlePull(r) == IF r.px.pull THEN Push([r EXCEPT !.px.pull = FALSE], "proxyPulled") ELSE r

\* controller.close() and controller.error() of the proxy, which fail if it has ended.
EndProxy(r, state) ==
    SettlePull(IF r.px.state = "readable"
               THEN [r EXCEPT !.px.state = state, !.px.waiting = 0] ELSE r)

ProxyWants(r) == r.px.state = "readable" /\ r.px.started /\ r.px.waiting > 0

\* proxy_chunk_step: a proxy that was canceled drops the chunk.
ProxyChunkStep(r, chunk) ==
    LET r1 == IF r.px.waiting > 0 THEN Deliver([r EXCEPT !.px.waiting = @ - 1], chunk)
              ELSE [r EXCEPT !.px.queue = Append(@, chunk)]
        r2 == IF ProxyWants(r1) THEN [r1 EXCEPT !.px.pullAgain = TRUE] ELSE r1
    IN SettlePull(IF r.px.state = "readable" THEN r2 ELSE r)

-----------------------------------------------------------------------------
(* The `.body' stream.                                                     *)

\* The reads that wait are answered: a read that the proxy made ends the proxy.
EndReads(r, state) ==
    LET r1 == [r EXCEPT !.st.waiting = 0] IN
    IF r.st.lock = "proxy" /\ r.st.waiting > 0 THEN EndProxy(r1, state) ELSE r1

EndStream(r, state) ==
    IF Readable(r) THEN EndReads([r EXCEPT !.st.state = state], state) ELSE r

ShouldCallPull(r) == Readable(r) /\ r.st.started /\ r.st.lock # "none" /\ r.st.waiting > 0

\* start_host_read: the body goes into the future of the read.  Without one the stream ends.
StartHostRead(r) ==
    IF r.host = "source"
    THEN [r EXCEPT !.pulled = TRUE, !.host = "read", !.currentPull = TRUE]
    ELSE Push(EndStream([r EXCEPT !.pulled = TRUE], "closed"), "pulled")

\* host_pull: it is refused where no loop would drive the read, and a body that feeds an
\* identity transform nobody reads yet is left whole.
HostPull(r) ==
    CASE ~r.loop -> Push(r, "pullRejected")
      [] r.loop /\ r.pipe = "idle" -> [r EXCEPT !.deferred = TRUE]
      [] OTHER -> StartHostRead(r)

\* readable_stream_default_controller_call_pull_if_needed.
CallPullIfNeeded(r) ==
    IF ~ShouldCallPull(r) THEN r
    ELSE IF r.st.pulling THEN [r EXCEPT !.st.pullAgain = TRUE]
    ELSE HostPull([r EXCEPT !.st.pulling = TRUE])

\* settle_deferred_pull: the stream hears that the read it waits for will not come.
SettleDeferredPull(r, close) ==
    IF ~r.deferred THEN r
    ELSE LET r1 == [r EXCEPT !.deferred = FALSE] IN
         Push(IF close THEN EndStream(r1, "closed") ELSE r1, "pulled")

\* One read from the stream, by whoever holds its lock.
ReadStream(r) ==
    LET r1 == [r EXCEPT !.st.used = TRUE]
        proxied == r.st.lock = "proxy"
    IN CASE r.st.state # "readable" -> IF proxied THEN EndProxy(r1, r.st.state) ELSE r1
         [] r.st.state = "readable" /\ r.st.queue # <<>> ->
                LET r2 == [r1 EXCEPT !.st.queue = Tail(@)] IN
                CallPullIfNeeded(IF proxied THEN ProxyChunkStep(r2, Head(r.st.queue))
                                 ELSE Deliver(r2, Head(r.st.queue)))
         [] OTHER -> CallPullIfNeeded([r1 EXCEPT !.st.waiting = @ + 1])

\* host_cancel, the cancel algorithm of the stream.
HostCancel(r) ==
    SettleDeferredPull(IF r.host = "source" THEN [r EXCEPT !.host = "gone"] ELSE r, FALSE)

\* readable_stream_cancel: reads that wait get their close steps first.
CancelStream(r) ==
    LET r1 == [r EXCEPT !.st.used = TRUE] IN
    IF ~Readable(r) THEN r1
    ELSE HostCancel([EndStream(r1, "closed") EXCEPT !.st.queue = <<>>, !.canceled = TRUE])

\* HostBodySource::abort: the future of a read under way is dropped, and the body with it.  A
\* future that is done, or held by a poll, is not found, and keeps the body.
SourceAbort(r, held) ==
    LET lost == held \/ r.result # "none" IN
    [SettleDeferredPull([r EXCEPT !.currentPull = FALSE], FALSE) EXCEPT
        !.host = IF @ = "source" \/ (@ = "read" /\ ~lost) THEN "gone" ELSE @,
        !.late = lost]

\* HostBodySource::take_host_body: a body nobody has read from goes to the transport.
TakeHostBody(r) ==
    IF r.pulled \/ r.currentPull \/ r.host # "source" THEN r
    ELSE SettleDeferredPull([r EXCEPT !.host = "wire"], TRUE)

\* materialize_host_body: the body moves into the source of a new stream.
Materialize(r) ==
    IF r.host # "owner" THEN r
    ELSE Push([r EXCEPT !.host = "source", !.st.state = "readable", !.ownsStream = TRUE], "start")

-----------------------------------------------------------------------------
(* What the author does with the Response or Request.                      *)

\* `.body'.
Body ==
    /\ s.host = "owner" /\ (Careful => ~s.reserved)
    /\ s' = Materialize(s)

GetReader ==
    /\ s.st.state # "none" /\ s.st.lock = "none" /\ s.ownsStream
    /\ s' = [s EXCEPT !.st.lock = "author"]

\* A reader that waits for nothing gives the stream back.
ReleaseLock ==
    /\ s.st.lock = "author"
    /\ s' = [s EXCEPT !.st.lock = "none", !.st.waiting = 0]

\* read() of a reader of the stream, a tee's or a pump's.
Read ==
    /\ s.st.lock \in {"author", "tee", "pump", "text"} /\ Readable(s) /\ s.reads < MaxReads
    /\ s' = ReadStream([s EXCEPT !.reads = @ + 1])

Cancel ==
    /\ Readable(s) /\ s.st.lock \in {"author", "none"} /\ s.ownsStream
    /\ s' = CancelStream(s)

\* text() and its kin: the body is read whole from the host if it is still there, and lost if no
\* loop would drive that, else through the stream.
Consume ==
    /\ s.text = "none" /\ (s.ownsStream \/ s.st.state = "none")
    /\ Careful => ~s.reserved /\ s.st.lock = "none"
    /\ LET r == Detach(s) IN
       s' = IF s.host = "owner"
            THEN [r EXCEPT !.host = IF s.loop THEN "all" ELSE "gone", !.disturbed = TRUE,
                           !.text = IF s.loop THEN "pending" ELSE "rejected",
                           !.stolen = s.reserved]
            ELSE IF IsUnusable(s) THEN [r EXCEPT !.text = "rejected"]
            ELSE ReadStream([r EXCEPT !.disturbed = TRUE, !.st.lock = "text", !.reads = @ + 1,
                                      !.text = "stream"])

\* clone(): the stream is materialized and teed, and the owner keeps a branch of it.
Clone ==
    /\ ~IsUnusable(s) /\ s.host \in {"owner", "source"}
    /\ s' = [Materialize(s) EXCEPT !.st.lock = "tee", !.ownsStream = FALSE]

\* new Request(request): the stream is materialized, locked and proxied.
Proxy ==
    /\ ~IsUnusable(s) /\ s.host \in {"owner", "source"} /\ ~s.signal
    /\ s' = Push([Materialize(s) EXCEPT !.st.lock = "proxy", !.px.state = "readable"],
                 "proxyStart")

\* proxy_pull.
ProxyPull(r) ==
    IF ~ProxyWants(r) THEN r
    ELSE IF r.px.pulling THEN [r EXCEPT !.px.pullAgain = TRUE]
    ELSE ReadStream([r EXCEPT !.px.pulling = TRUE, !.px.pull = TRUE])

ReadProxy ==
    /\ s.px.state = "readable" /\ s.reads < MaxReads
    /\ LET r == [s EXCEPT !.reads = @ + 1] IN
       s' = IF s.px.queue # <<>>
            THEN ProxyPull(Deliver([r EXCEPT !.px.queue = Tail(@)], Head(s.px.queue)))
            ELSE ProxyPull([r EXCEPT !.px.waiting = @ + 1])

\* Canceling the proxy, as an abort of its fetch() does: proxy_cancel.
CancelProxy ==
    /\ s.px.state = "readable"
    /\ s' = SettlePull(CancelStream([s EXCEPT !.px.state = "closed", !.px.waiting = 0,
                                              !.px.queue = <<>>]))

\* pipeThrough() an identity transform: the pipe's first read is deferred, and the native
\* source handed on to the transform's readable end.
Pipe ==
    /\ s.host = "source" /\ s.st.lock = "none" /\ s.ownsStream
    /\ s' = ReadStream([s EXCEPT !.st.lock = "pipe", !.pipe = "idle"])

\* Somebody reads the transform's readable end: its backpressure is gone.
Demand ==
    /\ s.pipe = "idle" /\ ~s.piped
    /\ s' = IF s.deferred THEN Push([s EXCEPT !.pipe = "wanted"], "resume")
            ELSE [s EXCEPT !.pipe = "wanted"]

\* The pipe goes on to read, while the transform has room.
PipeReads ==
    /\ s.pipe = "wanted" /\ Readable(s) /\ s.st.waiting = 0 /\ s.result = "none"
    /\ s' = ReadStream(s)

\* The readable end is sent: whole if nobody has read, else it is pumped.
SendPiped ==
    /\ s.pipe # "none" /\ ~s.piped
    /\ LET r == TakeHostBody([s EXCEPT !.piped = TRUE]) IN
       s' = IF r.host = "wire" \/ s.pipe = "wanted" THEN r
            ELSE IF s.deferred THEN Push([r EXCEPT !.pipe = "wanted"], "resume")
            ELSE [r EXCEPT !.pipe = "wanted"]

-----------------------------------------------------------------------------
(* The response is sent.                                                   *)

\* on_respond_fulfilled and Response::reserve_body_for_sending.
ReserveBodyForSending ==
    /\ ~s.reserved /\ ~IsUnusable(s) /\ (s.ownsStream \/ s.st.state = "none")
    /\ s' = [s EXCEPT !.reserved = TRUE, !.disturbed = TRUE,
                      !.st.lock = IF s.st.state = "none" THEN @ ELSE "send"]

\* consume_outgoing_body.  Without reading (the answer to a HEAD request) what is not handed
\* over is canceled; a stream that somebody else locked fails the body.
TakeSendBody(startReading) ==
    /\ s.reserved /\ ~s.taken /\ s.loop
    /\ LET r == TakeHostBody([s EXCEPT !.taken = TRUE]) IN
       s' = IF s.host = "owner" THEN [r EXCEPT !.host = "wire"]
            ELSE IF s.st.state = "none" THEN r
            ELSE IF r.host = "wire"
            THEN [r EXCEPT !.st.used = TRUE, !.st.lock = IF @ = "none" THEN "wire" ELSE @]
            ELSE IF ~startReading THEN CancelStream(r)
            ELSE IF s.st.lock \in {"send", "none"} THEN [r EXCEPT !.st.lock = "pump"]
            ELSE r

\* The transport sends what the host has left.
WireSends ==
    /\ s.host = "wire"
    /\ s' = [s EXCEPT !.host = "gone", !.wired = TRUE,
                      !.out = @ \o [i \in 1..(Chunks + 1 - s.next) |-> s.next + i - 1]]

\* on_abort and Response::abort_body: the body is dropped wherever it is, and the stream of
\* the response errored, if the algorithm is still registered.  A poll may hold the future of a
\* read when another future's poll runs the author code that aborts.
Abort(held) ==
    /\ s.signal /\ ~s.aborted
    /\ held => Reading
    /\ LET r == [s EXCEPT !.aborted = TRUE, !.host = IF @ = "owner" THEN "gone" ELSE @] IN
       s' = IF ~s.algorithm THEN [s EXCEPT !.aborted = TRUE]
            ELSE Detach(IF s.ownsStream THEN EndStream(SourceAbort(r, held), "errored") ELSE r)

-----------------------------------------------------------------------------
(* The host.  A turn of the loop polls the reads, then settles those that  *)
(* are done.                                                               *)

\* next_chunk() is done.
ChunkRead ==
    /\ Reading
    /\ \/ s.next <= Chunks /\ s' = [s EXCEPT !.result = "chunk"]
       \/ s.next > Chunks /\ s' = [s EXCEPT !.result = "end"]

ReadFails == Reading /\ s' = [s EXCEPT !.result = "error"]

Settling(result) == s.result = result /\ result # "none"
Settled(host) == [s EXCEPT !.result = "none", !.currentPull = FALSE, !.host = host]

\* deliver_chunk: the body goes back to the source, and the chunk to the first read that waits.
\* A stream that has ended refuses it, and the promise of the pull is rejected.
DeliverChunk ==
    /\ Settling("chunk")
    /\ LET r == [Settled("source") EXCEPT !.next = @ + 1]
           r1 == [r EXCEPT !.st.waiting = @ - 1]
       IN s' = IF ~Readable(s) THEN Push(r, "pullRejected")
               ELSE Push(CallPullIfNeeded(
                        IF s.st.waiting = 0 THEN [r EXCEPT !.st.queue = Append(@, s.next)]
                        ELSE IF s.st.lock = "proxy" THEN ProxyChunkStep(r1, s.next)
                        ELSE Deliver(r1, s.next)), "pulled")

DeliverEnd ==
    /\ Settling("end")
    /\ LET r == Settled("gone") IN
       s' = IF Readable(s) THEN Push(EndStream([r EXCEPT !.ended = TRUE], "closed"), "pulled")
            ELSE Push(r, "pullRejected")

DeliverError ==
    /\ Settling("error")
    /\ s' = Push(EndStream(Settled("gone"), "errored"), "pulled")

\* consume_host_body's future, which nothing cancels: everything that is left, or an error.
ReadAll ==
    /\ s.host = "all" /\ s.loop
    /\ \/ s' = [s EXCEPT !.host = "gone", !.text = "rejected"]
       \/ s' = [s EXCEPT !.host = "gone", !.text = "resolved",
                         !.out = @ \o [i \in 1..(Chunks + 1 - s.next) |-> s.next + i - 1]]

\* A synchronous export is called between two turns, and returns.
LoopLeaves ==
    /\ s.loop /\ ~s.left /\ s.jobs = <<>> /\ s.result = "none"
    /\ s' = [s EXCEPT !.loop = FALSE, !.left = TRUE]

LoopReturns == ~s.loop /\ s' = [s EXCEPT !.loop = TRUE]

-----------------------------------------------------------------------------
(* Jobs: they run when all that is done has been settled.                  *)

Drains == s.result = "none"
Job(name) == Drains /\ s.jobs # <<>> /\ Head(s.jobs) = name
Rest == [s EXCEPT !.jobs = Tail(@)]

Started ==
    \/ Job("start") /\ s' = CallPullIfNeeded([Rest EXCEPT !.st.started = TRUE])
    \/ Job("proxyStart") /\ s' = ProxyPull([Rest EXCEPT !.px.started = TRUE])

\* pull_promise_fulfilled.
Pulled ==
    /\ Job("pulled")
    /\ LET r == [Rest EXCEPT !.st.pulling = FALSE, !.st.pullAgain = FALSE] IN
       s' = IF s.st.pullAgain THEN CallPullIfNeeded(r) ELSE r

\* pull_promise_rejected: the stream has ended already, or no loop was there.
PullRejected ==
    /\ Job("pullRejected")
    /\ s' = EndStream(Rest, "errored")

ProxyPulled ==
    /\ Job("proxyPulled")
    /\ LET r == [Rest EXCEPT !.px.pulling = FALSE, !.px.pullAgain = FALSE] IN
       s' = IF s.px.pullAgain THEN ProxyPull(r) ELSE r

\* Mutant: demand is not passed on to the pull that was deferred.
HostPullResume_Forgets == Job("resume") /\ s' = [Rest EXCEPT !.deferred = FALSE]

\* host_pull_resume: unless the deferred pull was settled in the meantime.
HostPullResume ==
    /\ Job("resume")
    /\ LET r == [Rest EXCEPT !.deferred = FALSE] IN
       s' = IF ~s.deferred THEN Rest
            ELSE IF s.loop THEN StartHostRead(r) ELSE Push(r, "pullRejected")

-----------------------------------------------------------------------------
\* response_from_platform, with an abort algorithm if its fetch() had a signal, or
\* Request::from_incoming.
Init == \E signal \in BOOLEAN :
    s = [host |-> "owner", next |-> 1, disturbed |-> FALSE, ownsStream |-> FALSE,
         st |-> [state |-> "none", queue |-> <<>>, waiting |-> 0, started |-> FALSE,
                 pulling |-> FALSE, pullAgain |-> FALSE, lock |-> "none", used |-> FALSE],
         px |-> [state |-> "none", queue |-> <<>>, waiting |-> 0, started |-> FALSE,
                 pulling |-> FALSE, pullAgain |-> FALSE, pull |-> FALSE],
         pulled |-> FALSE, currentPull |-> FALSE, result |-> "none", deferred |-> FALSE,
         pipe |-> "none", piped |-> FALSE, reserved |-> FALSE, taken |-> FALSE,
         signal |-> signal, algorithm |-> signal, aborted |-> FALSE, canceled |-> FALSE, ended |-> FALSE,
         text |-> "none", stolen |-> FALSE, wired |-> FALSE, late |-> FALSE,
         loop |-> TRUE, left |-> FALSE, reads |-> 0, out |-> <<>>, jobs |-> <<>>]

Author ==
    \/ Body \/ GetReader \/ ReleaseLock \/ Read \/ Cancel \/ Consume \/ Clone \/ Proxy
    \/ ReadProxy \/ CancelProxy \/ Pipe \/ Demand \/ SendPiped
    \/ ReserveBodyForSending \/ (\E b \in BOOLEAN : TakeSendBody(b) \/ Abort(b))

Host ==
    \/ ChunkRead \/ ReadFails \/ DeliverChunk \/ DeliverEnd \/ DeliverError
    \/ ReadAll \/ WireSends \/ LoopLeaves \/ LoopReturns

Jobs == Started \/ Pulled \/ PullRejected \/ ProxyPulled \/ HostPullResume \/ PipeReads

Next == Author \/ Host \/ Jobs

Spec == Init /\ [][Next]_s

-----------------------------------------------------------------------------
(* Properties.                                                             *)

FirstChunks(n) == [i \in 1..n |-> i]

\* Bytes come out in order and once, whichever way the body takes and wherever it was
\* taken over; and they are all there where the body is said to have been read to its end:
\* at a reader that saw the host end, in a text() that resolved, on the wire.
BytesOnce ==
    /\ s.out = FirstChunks(Len(s.out))
    /\ s.wired \/ s.text = "resolved" => Len(s.out) = Chunks
    /\ s.ended /\ ~s.canceled => Len(s.out \o s.st.queue \o s.px.queue) = Chunks

Quiet == s.jobs = <<>>

\* At rest nobody waits in vain: a read that waits has a read of the host under way, or
\* waits for the demand that starts it.
NoReadHangs ==
    Quiet => /\ s.st.waiting > 0 => s.host = "read" \/ (s.deferred /\ s.pipe = "idle")
             /\ s.px.waiting > 0 => s.st.waiting > 0

\* A stream that was aborted, or whose reader canceled it, keeps no connection but that of
\* a read that was in flight when it was canceled, or that the abort did not find: the host's
\* body is dropped, and whoever reads is told.
Released ==
    /\ s.aborted /\ s.ownsStream /\ s.text = "none" =>
          /\ ~Readable(s)
          /\ ~s.late => s.host \notin {"owner", "source", "read"}
    /\ s.canceled /\ ~s.pulled => s.host = "gone"
    /\ s.px.state = "closed" => ~Readable(s)

\* "stop the host read, cancelling an in-flight chunk read and dropping any unread host body,
\* which closes the connection".  This does not hold, nor do the next two: see README.md,
\* Findings.
AbortDropsBody ==
    s.aborted /\ s.ownsStream /\ s.text = "none" /\ s.result = "none" =>
        s.host \notin {"owner", "source", "read"}

\* "Underlying-source `cancel`: drop the host body, ending the host read."
CancelEndsRead == s.canceled => s.host = "gone"

\* "aborting mid-read must still error the stream".
AbortErrorsStream == s.aborted /\ s.ownsStream => ~Readable(s)

\* "author code can no longer read from it": a body that is reserved for the response is
\* not read by anybody else.
ReservedIsSent == ~s.stolen /\ (s.reserved => s.st.lock # "author")

=============================================================================
