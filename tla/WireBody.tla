------------------------------ MODULE WireBody ------------------------------
(***************************************************************************)
(* The body of a response on its way through the native server             *)
(* (serve_native.rs: send_response_body, forward_stream, forward_body,     *)
(* WireBody): a producer forwards the handler's chunks, under the declared *)
(* length and a time limit, to a body that hyper polls and may drop, and   *)
(* each tells the other how it ended.                                      *)
(*                                                                         *)
(* `up' is where the chunks come from: the channel of the body pump        *)
(* (kind "stream", see BodyPump) or a host body or bytes in memory ("own") *)
(* that the event loop has no part in.  A chunk is one unit, and 0 stands  *)
(* for an error.  `client' is what the peer makes of the message: it is    *)
(* "open", "complete", or "broken", its framing left unfinished, and      *)
(* `told' the Content-Length that it saw.                                  *)
(***************************************************************************)
EXTENDS Integers, Sequences, SequencesExt

CONSTANTS
    MaxChunks,  \* bound on the chunks of the body
    MaxLength   \* bound on the declared length

VARIABLE s

Undeclared == -1
ErrorItem == 0
ConnectionLost == "connectionLost"

-----------------------------------------------------------------------------
(* Where the chunks come from.                                             *)

Produce ==
    /\ ~s.loopDone /\ ~s.upEnded /\ s.made < MaxChunks
    /\ s' = [s EXCEPT !.made = @ + 1, !.up = Append(@, s.made + 1)]

ProduceError ==
    /\ ~s.loopDone /\ ~s.upEnded
    /\ s' = [s EXCEPT !.up = Append(@, ErrorItem), !.upEnded = TRUE, !.upFailed = TRUE]

ProduceEnd ==
    /\ ~s.loopDone /\ ~s.upEnded
    /\ s' = [s EXCEPT !.upEnded = TRUE]

\* The event loop that feeds a stream has run out of work.
LoopDone ==
    /\ s.kind = "stream" /\ ~s.loopDone /\ s.pc \in {"next", "send", "failing"}
    /\ s' = [s EXCEPT !.loopDone = TRUE]

-----------------------------------------------------------------------------
(* The producer.                                                           *)

\* Mutant: a body that cannot be completed ends like one that is.
Failed_Clean(r, outcome) == [r EXCEPT !.pc = "done", !.result = outcome, !.closed = TRUE]

\* send_response_body is over: unless hyper told how the body ended, it ends with an error.
Failed(r, outcome) == [r EXCEPT !.pc = "done", !.result = outcome, !.abort = TRUE, !.closed = TRUE]

\* The drain is over, and hyper is to say how the body ended.
Drained(r) == [r EXCEPT !.pc = "outcome", !.closed = TRUE]

\* send_chunk, with Remaining::take.
SendChunk(r, chunk) ==
    IF r.remaining = 0 THEN Drained(r)
    ELSE [r EXCEPT !.pc = "send", !.piece = <<chunk>>,
                   !.remaining = IF @ = Undeclared THEN @ ELSE @ - 1]

\* forward_stream and forward_body: the next chunk, an error, or the end.
Forward ==
    /\ s.pc = "next" /\ s.up # <<>>
    /\ LET r == [s EXCEPT !.up = Tail(@)] IN
       s' = IF Head(s.up) # ErrorItem THEN SendChunk(r, Head(s.up))
            ELSE IF s.kind = "stream" THEN [r EXCEPT !.pc = "failing"]
            ELSE Failed(r, ConnectionLost)

ForwardEnd ==
    /\ s.pc = "next" /\ s.up = <<>> /\ s.upEnded
    /\ s' = Drained(s)

\* An empty channel that is still open when the loop is done.
ForwardAbandoned ==
    /\ s.pc = "next" /\ s.up = <<>> /\ ~s.upEnded /\ s.loopDone
    /\ s' = Failed(s, ConnectionLost)

\* A chunk is handed to hyper when it has taken the one before.
HandOver ==
    /\ s.pc = "send"
    /\ \/ s.hyper # "gone" /\ s.chan = <<>>
          /\ s' = [s EXCEPT !.chan = s.piece, !.piece = <<>>, !.pc = "next"]
       \/ s.hyper = "gone" /\ s' = Failed([s EXCEPT !.piece = <<>>], ConnectionLost)

\* fail_after_sent_chunks: the error waits until the chunks before it are taken.
FailAfterSentChunks ==
    /\ s.pc = "failing" /\ (s.chan = <<>> \/ s.hyper = "gone")
    /\ s' = Failed(s, ConnectionLost)

\* The outcome, once hyper has reported it.
OutcomeKnown ==
    /\ s.pc = "outcome" /\ s.reported # "none"
    /\ s' = [s EXCEPT !.pc = "done", !.result = s.reported]

\* The bound of the body, for work that is not ready when the time is up.
TimedOut ==
    /\ s.pc # "done" /\ (s.pc = "outcome" => s.reported = "none")
    /\ s' = Failed([s EXCEPT !.piece = <<>>], "timedOut")

-----------------------------------------------------------------------------
(* WireBody, as hyper polls and drops it.                                  *)

Report(r, outcome) == [r EXCEPT !.reported = IF @ = "none" THEN outcome ELSE @]

\* poll_frame: a chunk, of which hyper writes what the declared length allows.
PollFrame ==
    /\ s.hyper = "polling" /\ s.chan # <<>>
    /\ s' = [s EXCEPT !.wire = Append(@, s.chan[1]), !.chan = <<>>, !.delivered = @ + 1]

\* Whether hyper is left in the middle of a message.
Short(r) == r.declared # Undeclared /\ r.delivered < r.declared

\* What a body that ends without an error reports.
EndOutcome(r) == IF Short(r) THEN "truncated" ELSE "sent"

\* poll_frame: the end.  An abort reason makes it an error, upon which hyper closes the
\* connection and drops the body.
PollEnd ==
    /\ s.hyper = "polling" /\ s.chan = <<>> /\ s.closed
    /\ s' = IF s.abort
            THEN Report([s EXCEPT !.hyper = "gone", !.client = "broken"], ConnectionLost)
            ELSE Report([s EXCEPT !.hyper = "gone",
                                  !.client = IF Short(s) THEN "broken" ELSE "complete"],
                        EndOutcome(s))

\* Drop: hyper has all of the declared length and polls no further.
DropFull ==
    /\ s.hyper = "polling" /\ s.declared # Undeclared /\ s.delivered >= s.declared
    /\ s' = Report([s EXCEPT !.hyper = "gone", !.chan = <<>>, !.client = "complete"], "sent")

\* Drop: the connection is lost.
DropLost ==
    /\ s.hyper = "polling" /\ (s.declared = Undeclared \/ s.delivered < s.declared)
    /\ s' = Report([s EXCEPT !.hyper = "gone", !.chan = <<>>, !.client = "broken"], ConnectionLost)

-----------------------------------------------------------------------------
(* The response that the handler gave, and what goes on the wire of it     *)
(* (serve_common.rs: prepare_wire_response).                               *)

\* What a handler may respond with: a stream, a host body, bytes, or what was sent before.
Bodies == [kind : {"stream", "host", "consumed"}, size : {Undeclared}]
          \cup [kind : {"bytes"}, size : 0..MaxChunks]
NoContent == [kind |-> "bytes", size |-> 0]

\* The values of its Content-Length fields; one that is not a number counts as undeclared.
Lengths == SeqOf({Undeclared} \cup 0..MaxLength, 2)

DeclaredContentLength(lengths) == IF Len(lengths) = 1 THEN lengths[1] ELSE Undeclared

Or(length, other) == IF length = Undeclared THEN other ELSE length

\* The length that frames the response.  A status that has no content outranks everything.
DeclaredLength(head, bodiless, lengths, body) ==
    CASE bodiless -> Undeclared
      [] ~bodiless /\ head -> Or(DeclaredContentLength(lengths), body.size)
      [] ~bodiless /\ ~head /\ body.kind = "bytes" -> body.size
      [] ~bodiless /\ ~head /\ body.kind = "consumed" -> Undeclared
      [] OTHER -> DeclaredContentLength(lengths)

PreparedBody(head, bodiless, body) == IF head \/ bodiless THEN NoContent ELSE body

\* Only a body that has content gets a producer.
IsEmpty(body) == body.kind = "consumed" \/ body.size = 0

\* The Content-Length of the message: build_response inserts it for a HEAD, and hyper takes it
\* from the body's size hint otherwise.
ContentLength(head, bodiless, body, declared) ==
    IF head \/ bodiless \/ ~IsEmpty(body) THEN declared ELSE 0

FirstChunks(n) == [i \in 1..n |-> i]

\* create_body_channel, for what prepare_wire_response made of the handler's response.
Respond(head, bodiless, lengths, given) ==
    LET declared == DeclaredLength(head, bodiless, lengths, given)
        body == PreparedBody(head, bodiless, given)
        empty == IsEmpty(body)
        held == IF body.kind = "bytes" THEN body.size ELSE 0
    IN [kind |-> IF body.kind = "stream" THEN "stream" ELSE "own",
        declared |-> declared, remaining |-> declared, size |-> body.size,
        told |-> ContentLength(head, bodiless, body, declared), head |-> head,
        up |-> FirstChunks(held), upEnded |-> body.kind \in {"bytes", "consumed"},
        upFailed |-> FALSE, made |-> held, loopDone |-> FALSE,
        pc |-> IF empty THEN "done" ELSE "next", piece |-> <<>>, result |-> "none",
        chan |-> <<>>, closed |-> FALSE, abort |-> FALSE,
        hyper |-> IF empty THEN "gone" ELSE "polling", delivered |-> 0, reported |-> "none",
        wire |-> <<>>, client |-> IF empty THEN "complete" ELSE "open"]

Init == \E head, bodiless \in BOOLEAN, lengths \in Lengths, body \in Bodies :
    s = Respond(head, bodiless, lengths, body)

Up == Produce \/ ProduceError \/ ProduceEnd
Producer ==
    \/ Forward \/ ForwardEnd \/ ForwardAbandoned \/ HandOver \/ FailAfterSentChunks
    \/ OutcomeKnown
Hyper == PollFrame \/ PollEnd \/ DropFull \/ DropLost

Next == Up \/ LoopDone \/ Producer \/ TimedOut \/ Hyper

\* The serve loop polls the producer, and hyper the body until it drops it.
Fairness == WF_s(Producer) /\ WF_s(Hyper)

Spec == Init /\ [][Next]_s /\ Fairness

-----------------------------------------------------------------------------
(* Properties.                                                             *)

\* The client is never told that a body is complete that is not: one whose stream failed, was
\* left open or was cut off, or bytes that are not the length the message gives; and what it
\* gets of it is in order.
CompleteIsComplete ==
    /\ s.wire = FirstChunks(Len(s.wire))
    /\ s.client = "complete" /\ ~s.head =>
          /\ IF s.told = Undeclared THEN s.upEnded /\ ~s.upFailed /\ Len(s.wire) = s.made
             ELSE Len(s.wire) = s.told
          /\ s.size # Undeclared => Len(s.wire) = s.size

\* The handler is told that its body was sent only if the client has all of it.
SentWasReceived == s.result = "sent" => s.client = "complete"

=============================================================================
