----------------------------- MODULE RequestBody -----------------------------
(***************************************************************************)
(* The body of a request that the native server reads off its connection   *)
(* (serve_native.rs: pump_request_body, BodySink): frames are split into   *)
(* pieces and sent through a bounded channel to whoever reads the Request, *)
(* or discarded up to a budget, so that the connection can be used again.  *)
(* The pump runs beside the dispatch and the response, and finish_request  *)
(* waits for it at last.                                                   *)
(*                                                                         *)
(* A piece is one unit; pieces are numbered as the client sends them.      *)
(***************************************************************************)
EXTENDS Integers, Sequences

CONSTANTS
    MaxSent,   \* bound on the pieces the client sends
    MaxFrame,  \* bound on the pieces of one frame
    MaxBody,   \* max_request_body_bytes, in pieces
    Budget,    \* max_body_drain_bytes, in pieces
    Buffer     \* BODY_CHANNEL_CAPACITY: a channel takes one item more than this

VARIABLE s

ErrorItem == 0

-----------------------------------------------------------------------------
HasRoom(r) == r.receiver /\ Len(r.chan) <= Buffer

\* Mutant: the connection is kept although its next bytes belong to this body.
Fail_KeepsConnection(r) == [r EXCEPT !.pc = IF r.sink = "reading" THEN "error" ELSE "done"]

\* BodySink::fail: the connection is closed after this request, and who reads is told.
Fail(r) == [r EXCEPT !.close = TRUE, !.pc = IF r.sink = "reading" THEN "error" ELSE "done"]

\* The rest of a frame is sent or discarded piece by piece, then the next frame is read.
NextPiece(r) == [r EXCEPT !.frame = Tail(@), !.pc = IF Len(r.frame) = 1 THEN "frame" ELSE "piece"]

\* A discarding BodySink takes one piece out of its budget.
Discard(r) ==
    IF r.budget = 0 THEN Fail(r) ELSE NextPiece([r EXCEPT !.budget = @ - 1])

\* BodySink::accept, when the channel is closed or its reader too slow: the piece is lost, and
\* the sender dropped, which ends the reader's body.
StartDiscarding(r) == Discard([r EXCEPT !.sink = "discarding"])

-----------------------------------------------------------------------------
(* pump_request_body: the next frame.                                      *)

Frame(n) ==
    /\ s.pc = "frame" /\ s.client = "sending" /\ s.sent + n <= MaxSent
    /\ LET r == [s EXCEPT !.sent = @ + n] IN
       s' = IF r.sent > MaxBody THEN Fail(r)
            ELSE [r EXCEPT !.frame = [i \in 1..n |-> s.sent + i], !.pc = "piece"]

\* The end of the body: the pump is done, and drops its sender.
FrameEnd ==
    /\ s.pc = "frame" /\ s.client = "sending"
    /\ s' = [s EXCEPT !.client = "ended", !.pc = "done"]

\* The connection fails, or the client stalls for request_read_timeout.
FrameFails ==
    /\ s.pc = "frame" /\ s.client = "sending"
    /\ s' = Fail([s EXCEPT !.client = "failed"])

FrameStalls ==
    /\ s.pc = "frame" /\ s.timeouts
    /\ s' = Fail(s)

-----------------------------------------------------------------------------
(* BodySink::accept and BodySink::fail.                                    *)

Accept ==
    /\ s.pc = "piece"
    /\ IF s.sink = "discarding" THEN s' = Discard(s)
       ELSE \/ HasRoom(s) /\ s' = NextPiece([s EXCEPT !.chan = Append(@, s.frame[1])])
            \/ ~s.receiver /\ s' = StartDiscarding(s)

\* The wait for the reader lasts request_read_timeout.
AcceptTimesOut ==
    /\ s.pc = "piece" /\ s.sink = "reading" /\ s.timeouts
    /\ s.receiver /\ ~HasRoom(s)
    /\ s' = StartDiscarding([s EXCEPT !.late = TRUE])

\* IncomingBodySender::send_error, without a limit on the wait.
SendError ==
    /\ s.pc = "error"
    /\ \/ HasRoom(s) /\ s' = [s EXCEPT !.chan = Append(@, ErrorItem), !.pc = "done"]
       \/ ~s.receiver /\ s' = [s EXCEPT !.pc = "done"]

-----------------------------------------------------------------------------
(* The reader: the Request's body, IncomingBody::next_chunk.               *)

SenderGone == s.sink = "discarding" \/ s.pc = "done"

Read ==
    /\ s.receiver /\ s.seen = "none" /\ s.chan # <<>>
    /\ s' = IF Head(s.chan) = ErrorItem THEN [s EXCEPT !.chan = <<>>, !.seen = "error"]
            ELSE [s EXCEPT !.chan = Tail(@), !.got = Append(@, Head(s.chan))]

ReadEnd ==
    /\ s.receiver /\ s.seen = "none" /\ s.chan = <<>> /\ SenderGone
    /\ s' = [s EXCEPT !.seen = "end"]

\* The body is canceled, or the Request collected.
Drop ==
    /\ s.receiver
    /\ s' = [s EXCEPT !.receiver = FALSE, !.chan = <<>>]

-----------------------------------------------------------------------------
\* request_body_and_pump.  `timeouts': request_read_timeout is not 0.
Init == \E timeouts \in BOOLEAN :
    s = [timeouts |-> timeouts, client |-> "sending", sent |-> 0, frame |-> <<>>, pc |-> "frame",
         sink |-> "reading", budget |-> Budget, chan |-> <<>>, receiver |-> TRUE,
         close |-> FALSE, got |-> <<>>, seen |-> "none", late |-> FALSE]

Client == (\E n \in 1..MaxFrame : Frame(n)) \/ FrameEnd \/ FrameFails
Clock == FrameStalls \/ AcceptTimesOut
Pump == Accept \/ SendError
Reader == Read \/ ReadEnd \/ Drop

Next == Client \/ Clock \/ Pump \/ Reader

\* The pump is polled and the clock runs.  Neither the client nor the reader owes anything.
Fairness == WF_s(Pump) /\ WF_s(Clock)

Spec == Init /\ [][Next]_s /\ Fairness

-----------------------------------------------------------------------------
(* Properties.                                                             *)

FirstPieces(n) == [i \in 1..n |-> i]

\* A connection that is kept is at the end of this body: the next request's head is read from
\* the right place, and no more was read than the limits allow.
ConnectionInStep ==
    /\ s.pc = "done" /\ ~s.close => s.client = "ended"
    /\ s.sent > MaxBody => s.close
    /\ s.pc \in {"frame", "piece"} => Len(s.got) + Len(s.chan) <= MaxBody

\* A reader gets the pieces in order and once, and is told of the end of a body when all of
\* it was delivered, unless it kept the pump waiting for too long.
EndIsHonest ==
    /\ s.got = FirstPieces(Len(s.got))
    /\ s.seen = "end" /\ ~s.late => s.client = "ended" /\ Len(s.got) = s.sent

\* "so a truncated or over-long upload errors the consumer's stream instead of looking like a
\* clean end of body".
NoSilentTruncation == s.seen = "end" => s.client = "ended" /\ Len(s.got) = s.sent

\* "The --max limits, --request-read-timeout and --keepalive-timeout bound guest controlled
\* allocation and wait times": with a limit, the pump is done in the end.  This
\* does not hold: see README.md, Findings.
PumpIsBounded == s.timeouts ~> s.pc = "done"

=============================================================================
