------------------------------ MODULE BodyPump ------------------------------
(***************************************************************************)
(* A body that is streamed out: the pump that reads a ReadableStream into  *)
(* batches and sends them through a bounded channel (outgoing_body.rs),    *)
(* and the writer that takes them out, joins what is queued, trims it to   *)
(* the declared length and hands it to the host (platform/http.rs and      *)
(* http_wasm.rs), while the request's event loop is driven                 *)
(* (drive_body_send of serve_wasm.rs).                                     *)
(*                                                                         *)
(* A chunk is one unit long and chunks are numbered as author code         *)
(* enqueues them.  `pc' is where the pump's run() is: not on the stack     *)
(* ("idle"), in its loop ("loop"), or suspended in a pull() that its read  *)
(* called ("pull", then `held' is the chunk that the read took before).    *)
(* The writer, and the transport behind it, run between any two of these.  *)
(***************************************************************************)
EXTENDS Integers, Sequences, SequencesExt

CONSTANTS
    MaxChunks,  \* bound on the chunks author code enqueues
    BatchLimit, \* BATCH_LIMIT and COALESCE_LIMIT, in chunks
    Buffer,     \* BODY_CHANNEL_CAPACITY: a channel takes one item more than this
    MaxLength   \* bound on the declared length

VARIABLE s

Undeclared == -1
NoItem == [kind |-> "none", bytes |-> <<>>]
Batch(bytes) == [kind |-> "chunk", bytes |-> bytes]
ErrorItem == [kind |-> "error", bytes |-> <<>>]

-----------------------------------------------------------------------------
(* The channel and its sending end.                                        *)

\* Whether try_send() and poll_ready() go through.
HasRoom(r) == r.receiver /\ Len(r.chan) <= Buffer

\* BodySender::fail: an error that finds the channel full is not queued.
Fail(r) ==
    [r EXCEPT !.sender = "gone", !.chan = IF HasRoom(r) THEN Append(@, ErrorItem) ELSE @]

\* Mutant: a send that waits does not keep the loop alive.
SpawnSend_NoInterest(r, item) == [r EXCEPT !.sender = "out", !.item = item]

\* spawn_send: the sender goes into the future, with an interest in the loop.
SpawnSend(r, item) ==
    IF r.oom THEN Fail(r) ELSE [r EXCEPT !.sender = "out", !.item = item, !.interest = TRUE]

\* send_batch: the loop goes on if the channel took the batch.
SendBatch(r) ==
    LET ready == r.reading \/ r.end # "none" \/ Len(r.batch) >= BatchLimit
        idle == [r EXCEPT !.pc = "idle"]
    IN CASE r.sender # "here" -> idle
         [] r.sender = "here" /\ r.batch # <<>> /\ ready ->
                IF HasRoom(r) THEN [r EXCEPT !.chan = Append(@, Batch(r.batch)), !.batch = <<>>]
                ELSE SpawnSend([idle EXCEPT !.batch = <<>>], Batch(r.batch))
         [] r.sender = "here" /\ r.batch = <<>> /\ r.end = "closed" ->
                [idle EXCEPT !.sender = "gone", !.end = "none"]
         [] r.sender = "here" /\ r.batch = <<>> /\ r.end = "errored" ->
                SpawnSend([idle EXCEPT !.end = "none"], ErrorItem)
         [] OTHER -> idle

\* run: nothing, if it is on the stack already.
Run(r) == IF r.pc = "idle" THEN [r EXCEPT !.pc = "loop"] ELSE r

CanRead(r) ==
    r.sender = "here" /\ r.end = "none" /\ ~r.reading /\ Len(r.batch) < BatchLimit

-----------------------------------------------------------------------------
(* The pump's read request.                                                *)

\* pump_chunk_step: a chunk that is no Uint8Array (0) fails the body.
PumpChunkStep(r, chunk) ==
    Run(IF chunk = 0 THEN [r EXCEPT !.reading = FALSE, !.end = "errored", !.bad = TRUE]
        ELSE [r EXCEPT !.reading = FALSE, !.batch = Append(@, chunk), !.read = @ + 1])

\* pump_close_step and pump_error_step.
PumpEndStep(r, end) == Run([r EXCEPT !.reading = FALSE, !.end = end])

\* The end of the stream, which answers a read request that waits.
EndStream(r, state) ==
    LET r1 == [r EXCEPT !.st = state, !.queue = <<>>, !.request = FALSE] IN
    IF r.request THEN PumpEndStep(r1, state) ELSE r1

\* read_next: native_reader_read.  The read may call the source's pull().
ReadNext(r) ==
    LET r1 == [r EXCEPT !.reading = TRUE] IN
    CASE r.st # "readable" -> PumpEndStep(r1, r.st)
      [] r.st = "readable" /\ r.queue = <<>> -> [r1 EXCEPT !.request = TRUE, !.pc = "pull"]
      [] OTHER ->
            LET r2 == [r1 EXCEPT !.queue = Tail(@)] IN
            IF r.closing /\ r2.queue = <<>>
            THEN PumpChunkStep([r2 EXCEPT !.st = "closed"], Head(r.queue))
            ELSE [r2 EXCEPT !.pc = "pull", !.held = <<Head(r.queue)>>]

-----------------------------------------------------------------------------
(* Author code: the underlying source.                                     *)

Author == s.pc = "pull" \/ (s.pc = "idle" /\ s.live)
Open == s.st = "readable" /\ ~s.closing

Enqueue(good) ==
    /\ Author /\ Open /\ s.made < MaxChunks
    /\ LET chunk == IF good THEN s.made + 1 ELSE 0
           r == [s EXCEPT !.made = @ + 1]
       IN s' = IF s.request THEN PumpChunkStep([r EXCEPT !.request = FALSE], chunk)
               ELSE [r EXCEPT !.queue = Append(@, chunk)]

Close ==
    /\ Author /\ Open
    /\ s' = IF s.queue = <<>> THEN EndStream(s, "closed") ELSE [s EXCEPT !.closing = TRUE]

Error ==
    /\ Author /\ s.st = "readable"
    /\ s' = EndStream(s, "errored")

\* pull() is done, and the read that called it hands over what it took before.
PullReturns ==
    /\ s.pc = "pull"
    /\ LET r == [s EXCEPT !.pc = "loop", !.held = <<>>] IN
       s' = IF s.held = <<>> THEN r ELSE PumpChunkStep(r, s.held[1])

\* Nothing that author code waits for is left.
AuthorDone ==
    /\ s.live /\ s.pc = "idle"
    /\ s' = [s EXCEPT !.live = FALSE]

-----------------------------------------------------------------------------
(* The pump's loop and its sends.                                          *)

\* One round of run(): a read, or what can be sent.
PumpStep ==
    /\ s.pc = "loop"
    /\ s' = IF CanRead(s) THEN ReadNext(s) ELSE SendBatch(s)

\* send_on: the channel takes the item, or its other end is gone.
SendFuture ==
    /\ s.sender = "out" /\ s.sent = "waits"
    /\ \/ HasRoom(s) /\ s' = [s EXCEPT !.chan = Append(@, s.item), !.sent = "accepted"]
       \/ ~s.receiver /\ s' = [s EXCEPT !.sent = "refused"]

\* The outcome of the send: the pump runs again, or cancels a stream whose chunk was refused.
SendOutcome ==
    /\ s.sender = "out" /\ s.sent # "waits" /\ s.pc = "idle"
    /\ LET r == [s EXCEPT !.interest = FALSE, !.item = NoItem, !.sent = "waits",
                          !.sender = "gone"]
       IN s' = CASE s.item.kind = "error" -> r
                 [] s.item.kind = "chunk" /\ s.sent = "accepted" ->
                        Run([r EXCEPT !.sender = "here"])
                 [] OTHER -> IF s.st = "readable"
                             THEN EndStream([r EXCEPT !.canceled = TRUE], "closed") ELSE r

-----------------------------------------------------------------------------
(* The writer.                                                             *)

\* coalesce_queued_chunks: what is queued behind the first chunk, up to the limit or an error.
CoalesceQueuedChunks(r) ==
    LET Bytes(n) == FlattenSeq([i \in 1..n |-> r.chan[i].bytes])
        Joined(n) == \A i \in 2..n : r.chan[i].kind = "chunk" /\ Len(Bytes(i - 1)) < BatchLimit
        n == CHOOSE i \in 1..Len(r.chan) :
                 Joined(i) /\ \A j \in 1..Len(r.chan) : Joined(j) => j <= i
        error == Len(Bytes(n)) < BatchLimit /\ n < Len(r.chan)
    IN [r EXCEPT !.chan = SubSeq(@, n + 1 + (IF error THEN 1 ELSE 0), Len(@)),
                 !.wbuf = Bytes(n), !.werror = error]

\* The writer is done: it drops the receiver.
Done(r, outcome) ==
    [r EXCEPT !.writer = "done", !.outcome = outcome, !.receiver = FALSE, !.wbuf = <<>>]

\* outcome_at_end, with Remaining::is_unfilled.
OutcomeAtEnd(r) == IF r.remaining > 0 THEN "truncated" ELSE "sent"

\* Remaining::take: the chunk is cut to what the declared length has room for.
Take(r) ==
    IF r.remaining = Undeclared THEN [r EXCEPT !.writer = "write"]
    ELSE IF r.remaining = 0 THEN Done(r, "sent")
    ELSE LET n == IF Len(r.wbuf) < r.remaining THEN Len(r.wbuf) ELSE r.remaining IN
         [r EXCEPT !.writer = "write", !.remaining = @ - n, !.wbuf = SubSeq(@, 1, n)]

\* A round of write_stream_body.
WriterNext ==
    /\ s.writer = "next" /\ s.chan # <<>>
    /\ s' = IF Head(s.chan).kind = "error" THEN Done([s EXCEPT !.chan = Tail(@)], "failed")
            ELSE Take(CoalesceQueuedChunks(s))

\* The channel is closed and empty.
WriterEnd ==
    /\ s.writer = "next" /\ s.chan = <<>> /\ s.sender = "gone"
    /\ s' = Done(s, OutcomeAtEnd(s))

\* finish_abandoned_body: the signal of AbandonBody is only looked at when nothing is queued,
\* and nothing can be queued after it.
WriterAbandoned ==
    /\ s.writer = "next" /\ s.chan = <<>> /\ s.sender # "gone"
    /\ s.abandoned
    /\ s' = Done(s, "failed")

\* write_all: the host takes the bytes.
HostTakes ==
    /\ s.writer = "write"
    /\ LET r == [s EXCEPT !.wire = @ \o s.wbuf, !.wbuf = <<>>, !.writer = "next"]
       IN s' = IF s.werror THEN Done(r, "failed") ELSE r

\* write_all: the connection is gone, and what it took of this chunk is not known.
HostStops ==
    /\ s.writer = "write"
    /\ \E n \in 0..(Len(s.wbuf) - 1) :
          s' = Done([s EXCEPT !.wire = @ \o SubSeq(s.wbuf, 1, n)], "failed")

\* The timeout of spawn_body_writer.
TimedOut ==
    /\ s.writer # "done"
    /\ s' = Done(s, "timedOut")

-----------------------------------------------------------------------------
\* Mutant: the writer is not told.
LoopRunsOut_Silent ==
    /\ ~s.abandoned /\ s.writer # "done"
    /\ s.pc = "idle" /\ ~s.live /\ ~s.interest
    /\ s' = [s EXCEPT !.interest = TRUE]

\* drive_body_send: the loop has run out of work while the body is being sent.
LoopRunsOut ==
    /\ ~s.abandoned /\ s.writer # "done"
    /\ s.pc = "idle" /\ ~s.live /\ ~s.interest
    /\ s' = [s EXCEPT !.abandoned = TRUE]

\* pump_body_from_stream: the pump runs at once.  `oom' is whether the engine will be out of
\* memory when a send that waits needs its promise.
Init ==
    \E declared \in {Undeclared} \cup 0..MaxLength, oom \in BOOLEAN :
        s = [st |-> "readable", closing |-> FALSE, queue |-> <<>>, request |-> FALSE, live |-> TRUE,
             pc |-> "loop", held |-> <<>>, reading |-> FALSE, batch |-> <<>>, end |-> "none",
             sender |-> "here", item |-> NoItem, sent |-> "waits", interest |-> FALSE,
             chan |-> <<>>, receiver |-> TRUE,
             writer |-> "next", wbuf |-> <<>>, werror |-> FALSE, abandoned |-> FALSE,
             remaining |-> declared, outcome |-> "none",
             declared |-> declared, oom |-> oom,
             made |-> 0, read |-> 0, bad |-> FALSE, canceled |-> FALSE, wire |-> <<>>]

Source == (\E good \in BOOLEAN : Enqueue(good)) \/ Close \/ Error \/ PullReturns \/ AuthorDone
Pump == PumpStep \/ SendFuture \/ SendOutcome
Writer == WriterNext \/ WriterEnd \/ WriterAbandoned \/ HostTakes \/ HostStops

Next == Source \/ Pump \/ Writer \/ TimedOut \/ LoopRunsOut

\* The loop's driver polls, the host goes on reading or says that it stopped, and a pull()
\* returns.  Nothing else is fair: the clock may never run out.
Fairness == WF_s(Pump) /\ WF_s(Writer) /\ WF_s(PullReturns) /\ WF_s(LoopRunsOut)

Spec == Init /\ [][Next]_s /\ Fairness

-----------------------------------------------------------------------------
(* Properties.                                                             *)

FirstChunks(n) == [i \in 1..n |-> i]
Queued == FlattenSeq([i \in 1..Len(s.chan) |-> s.chan[i].bytes])
Waiting == IF s.sent = "waits" THEN s.item.bytes ELSE <<>>

\* Chunks reach the wire in order and once: what was read is on it, in the writer's hands, in
\* the channel, in a send that waits or in the batch, unless the transport is gone or the
\* declared length cut it off.
PumpInOrder ==
    /\ s.wire = FirstChunks(Len(s.wire))
    /\ s.receiver /\ ~s.oom /\ s.remaining # 0 =>
          s.wire \o s.wbuf \o Queued \o Waiting \o s.batch = FirstChunks(s.read)
    /\ s.declared # Undeclared => Len(s.wire) <= s.declared

\* A body that counts as sent is complete: its stream was closed and all of it went out, or
\* the declared length is full.  One that counts as truncated is short of that length.  (Out
\* of memory, an error that finds the channel full is lost, and the body looks complete.)
SentIsComplete ==
    /\ s.outcome = "sent" /\ ~s.oom =>
          \/ s.declared # Undeclared /\ Len(s.wire) = s.declared
          \/ s.declared = Undeclared /\ s.st = "closed" /\ ~s.bad /\ ~s.canceled
             /\ Len(s.wire) = s.made
    /\ s.outcome = "truncated" => Len(s.wire) < s.declared

\* A pump at rest waits for a chunk or for the channel, or it is done; and when it is done
\* the stream is over, or failed the body.  So a stream whose peer is gone is canceled as
\* soon as it has something to send.
PumpGoesOn ==
    s.pc = "idle" =>
        /\ s.sender = "here" => s.reading /\ s.request /\ s.batch = <<>>
        /\ s.sender = "out" => s.item # NoItem
        /\ s.sender = "gone" /\ ~s.oom => s.st # "readable" \/ s.bad

\* A body is only given up when nothing can complete it: no batch waits for room in the
\* channel, and a stream that is still open has a read that nobody will answer.
AbandonedIsHopeless ==
    s.abandoned /\ ~s.oom => s.item = NoItem /\ s.batch = <<>> /\ (s.sender = "here" => s.request)

\* "until the stream ends, one of them fails, the declared length is full, or AbandonBody is
\* signaled": a body that filled its declared length was sent, though its stream is open.  This does not
\* always hold: see README.md, Findings.
FullBodyIsSent ==
    s.outcome # "none" /\ s.abandoned /\ s.st = "readable" /\ ~s.bad /\ s.declared > 0
    /\ Len(s.wire) = s.declared => s.outcome = "sent"

=============================================================================
