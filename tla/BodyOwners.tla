----------------------------- MODULE BodyOwners -----------------------------
(***************************************************************************)
(* Who owns a body (web-fetch/src: algorithms.rs, body_mixin.rs,           *)
(* incoming_body.rs, request.rs, response.rs): Requests and Responses that *)
(* author code makes from bytes, from a stream, from each other, or was    *)
(* given by the host.                                                      *)
(*                                                                         *)
(* A body is in up to three places, of which the code keeps in mind which  *)
(* one holds: the bytes it was extracted from, the host, and a stream that *)
(* is materialized when somebody asks for it, and that several owners may  *)
(* share.  What is in it, a document, is whole or gone: how chunks travel  *)
(* is in HostBody, ReadableStream, Tee and BodyPump.  `given' counts how   *)
(* often each document was handed out, `copies' how often it may be.       *)
(***************************************************************************)
EXTENDS Integers, Sequences

CONSTANTS
    MaxOwners,   \* bound on the Requests and Responses
    MaxCalls,    \* bound on the author's calls
    Careful      \* TRUE: author code leaves a host body alone that counts as used

VARIABLE s

OwnerKinds == {"request", "response"}

\* What a body is extracted from: nothing, bytes, or a stream, by its number.
NoBody == 0
SomeBytes == -1
Inits == {NoBody, SomeBytes} \cup DOMAIN s.streams

NoStream == 0

NewOwner(kind, doc, source, stream, host) ==
    [kind |-> kind, doc |-> doc, source |-> source, stream |-> stream, host |-> host,
     disturbed |-> FALSE, reserved |-> FALSE, sent |-> FALSE]

AddOwner(r, owner) == [r EXCEPT !.owners = Append(@, owner)]

\* A stream with a whole document, or an empty one that is locked and disturbed for ever.
WholeStream(doc) == [doc |-> doc, whole |-> TRUE, lock |-> "none", disturbed |-> FALSE]
ConsumedStream(doc) == [doc |-> doc, whole |-> FALSE, lock |-> "native", disturbed |-> TRUE]

AddStream(r, stream) == [r EXCEPT !.streams = Append(@, stream)]

\* The document goes to somebody, or there is nothing in what should hold it.
Deliver(r, doc, whole) ==
    IF whole THEN [r EXCEPT !.given[doc] = @ + 1] ELSE [r EXCEPT !.short = TRUE]

\* fully_read_stream_to_value, or the pump: the reader is never released.
ReadToEnd(r, i) ==
    LET st == r.streams[i] IN
    Deliver([r EXCEPT !.streams[i] = ConsumedStream(st.doc)], st.doc, st.whole)

\* An internal reader takes over what is in the stream, and keeps its lock.
TakeOver(r, i) == [r EXCEPT !.streams[i].lock = "native", !.streams[i].whole = FALSE]

\* BodyMixin::is_unusable.
IsUnusable(r, o) ==
    \/ r.owners[o].disturbed
    \/ /\ r.owners[o].stream # NoStream
       /\ LET st == r.streams[r.owners[o].stream] IN st.disturbed \/ st.lock # "none"

-----------------------------------------------------------------------------
(* The operations on a body.                                               *)

\* extract_body: bytes are a document of their own, a stream is taken as it is.
CanExtract(r, init) ==
    init \in DOMAIN r.streams => r.streams[init].lock = "none" /\ ~r.streams[init].disturbed

ExtractBody(r, kind, init) ==
    IF init = SomeBytes
    THEN AddOwner([r EXCEPT !.given = Append(@, 0), !.copies = Append(@, 1)],
                  NewOwner(kind, Len(r.given) + 1, "bytes", NoStream, FALSE))
    ELSE AddOwner(r, NewOwner(kind, r.streams[init].doc, "null", init, FALSE))

\* materialize_host_body.
MaterializeHostBody(r, o) ==
    IF ~r.owners[o].host THEN r
    ELSE AddStream([r EXCEPT !.owners[o].host = FALSE, !.owners[o].stream = Len(r.streams) + 1],
                   WholeStream(r.owners[o].doc))

\* The `body' getter: bytes that were read already are a stream that was read already.
Materialize(r, o) ==
    LET b == r.owners[o]
        r1 == [r EXCEPT !.owners[o].stream = Len(r.streams) + 1]
    IN CASE b.stream # NoStream \/ b.host -> MaterializeHostBody(r, o)
         [] b.stream = NoStream /\ ~b.host /\ b.source = "null" -> r
         [] OTHER -> AddStream(r1, IF b.disturbed THEN ConsumedStream(b.doc)
                                   ELSE WholeStream(b.doc))

\* take_byte_source: what is left stays a byte source, and an empty one.
TakeByteSource(r, o) ==
    IF r.owners[o].source = "null" THEN r
    ELSE [r EXCEPT !.owners[o].source = "emptied", !.owners[o].disturbed = TRUE]

\* clone_a_body: the stream is teed, and the owner keeps a branch.
CloneABody(r, o) ==
    LET b == r.owners[o]
        n == Len(r.streams)
        branch == [r.streams[b.stream] EXCEPT !.lock = "none", !.disturbed = FALSE]
        teed == AddStream(AddStream(TakeOver(r, b.stream), branch), branch)
    IN AddOwner([teed EXCEPT !.owners[o].stream = n + 1, !.owners[o].source = "null",
                             !.owners[o].host = FALSE],
                NewOwner(b.kind, b.doc, "null", n + 2, FALSE))

\* clone_body_onto: without a stream the record is copied.
CloneBodyOnto(r, o) ==
    LET r1 == MaterializeHostBody(r, o) IN
    IF r1.owners[o].stream = NoStream THEN AddOwner(r1, r1.owners[o]) ELSE CloneABody(r1, o)

\* proxy_body_stream.
ProxyBodyStream(r, i) == AddStream(TakeOver(r, i), WholeStream(r.streams[i].doc))

\* Mutant: the owner that a Request is made from keeps its body.
TakeInput_Leaves(r, o) == r

\* Request::new, last: the input has given its body away, also when it was not taken.
TakeInput(r, o) == [TakeByteSource(r, o) EXCEPT !.owners[o].disturbed = TRUE]

\* Steps 36 to 42 of Request::new with a Request as input.
FromInput(r, o, init) ==
    LET r1 == MaterializeHostBody(r, o)
        b == r1.owners[o]
        proxied == IF b.stream = NoStream THEN r1 ELSE ProxyBodyStream(r1, b.stream)
        stream == IF b.stream = NoStream THEN NoStream ELSE Len(proxied.streams)
    IN TakeInput(IF init # NoBody THEN ExtractBody(r, "request", init)
                 ELSE AddOwner(proxied, NewOwner("request", b.doc, b.source, stream, FALSE)),
                 o)

\* Step 41.1: only a body that is taken must be there.
CanDerive(r, o, init) ==
    /\ r.owners[o].kind = "request"
    /\ IF init = NoBody THEN ~IsUnusable(r, o) ELSE CanExtract(r, init)

\* consume_outgoing_body: the bytes, the host's body, or what the stream has.  A stream that
\* somebody else holds makes a body that fails.
ConsumeOutgoingBody(r, o) ==
    LET b == r.owners[o] IN
    CASE b.source # "null" -> Deliver(TakeByteSource(r, o), b.doc, b.source = "bytes")
      [] b.source = "null" /\ b.host -> Deliver([r EXCEPT !.owners[o].host = FALSE], b.doc, TRUE)
      [] b.source = "null" /\ ~b.host /\ b.stream # NoStream ->
            IF r.streams[b.stream].lock \in {"none", "send"} THEN ReadToEnd(r, b.stream) ELSE r
      [] OTHER -> Deliver(r, b.doc, FALSE)

-----------------------------------------------------------------------------
(* Author code.                                                            *)

Owners == DOMAIN s.owners
Streams == DOMAIN s.streams

Call(r) == s.calls < MaxCalls /\ s' = [r EXCEPT !.calls = @ + 1]
Room == Len(s.owners) < MaxOwners

\* new Response(body), and initialize_a_response.
NewResponse(init) == Room /\ CanExtract(s, init) /\ Call(ExtractBody(s, "response", init))

\* new Request(url, {body}).
NewRequest(init) == Room /\ CanExtract(s, init) /\ Call(ExtractBody(s, "request", init))

\* new Request(request, {body}).
NewRequestFrom(o, init) == Room /\ CanDerive(s, o, init) /\ Call(FromInput(s, o, init))

\* clone() of a Request or of a Response.
Clone(o) ==
    /\ Room /\ ~IsUnusable(s, o)
    /\ Call([CloneBodyOnto(s, o) EXCEPT !.copies[s.owners[o].doc] = @ + 1])

\* `.body'.
Body(o) ==
    /\ s.owners[o].stream = NoStream
    /\ Careful => ~(s.owners[o].host /\ IsUnusable(s, o))
    /\ Call(Materialize(s, o))

\* BodyMixin::consume: a body on the host is read from there without another look.
Consume(o) ==
    LET b == s.owners[o]
        used == [s EXCEPT !.owners[o].disturbed = TRUE]
    IN IF b.host
       THEN /\ Careful => ~IsUnusable(s, o)
            /\ Call(Deliver([used EXCEPT !.owners[o].host = FALSE], b.doc, TRUE))
       ELSE /\ ~IsUnusable(s, o)
            /\ Call(IF b.stream # NoStream THEN ReadToEnd(used, b.stream)
                    ELSE Deliver(used, b.doc, b.source = "bytes"))

\* fetch(request, {body}): what is sent is a Request made of it, that nobody else has.
Fetch(o, init) ==
    /\ CanDerive(s, o, init)
    /\ LET r == FromInput(s, o, init)
           n == Len(r.owners)
           own == init = NoBody /\ r.owners[n].stream # NoStream
           sent == ConsumeOutgoingBody(r, n)
           rest == [sent EXCEPT !.owners = SubSeq(@, 1, n - 1)]
       IN Call(IF own THEN TakeOver(rest, r.owners[n].stream) ELSE rest)

\* on_respond_fulfilled and reserve_body_for_sending.
ReserveBodyForSending(o) ==
    LET b == s.owners[o]
        r == [s EXCEPT !.owners[o].disturbed = TRUE, !.owners[o].reserved = TRUE]
    IN /\ b.kind = "response" /\ ~b.reserved /\ ~IsUnusable(s, o)
       /\ Call(IF b.stream = NoStream THEN r ELSE [r EXCEPT !.streams[b.stream].lock = "send"])

\* Response::take_send_body, when the response goes out.
TakeSendBody(o) ==
    /\ s.owners[o].reserved /\ ~s.owners[o].sent
    /\ Call(ConsumeOutgoingBody([s EXCEPT !.owners[o].sent = TRUE], o))

GetReader(i) == s.streams[i].lock = "none" /\ Call([s EXCEPT !.streams[i].lock = "author"])
ReleaseLock(i) == s.streams[i].lock = "author" /\ Call([s EXCEPT !.streams[i].lock = "none"])

\* read() gives what there is, if anything.
Read(i) ==
    LET st == s.streams[i]
        r == [s EXCEPT !.streams[i].disturbed = TRUE, !.streams[i].whole = FALSE]
    IN st.lock = "author" /\ Call(IF st.whole THEN Deliver(r, st.doc, TRUE) ELSE r)

Cancel(i) ==
    /\ s.streams[i].lock = "none"
    /\ Call([s EXCEPT !.streams[i].disturbed = TRUE, !.streams[i].whole = FALSE])

\* The author has a stream, and the host gave a Request or a Response.
Init == \E kind \in OwnerKinds :
    s = [owners |-> <<NewOwner(kind, 2, "null", NoStream, TRUE)>>,
         streams |-> <<WholeStream(1)>>,
         given |-> <<0, 0>>, copies |-> <<1, 1>>, short |-> FALSE, calls |-> 0]

Next ==
    \/ \E init \in Inits \ {NoBody} : NewResponse(init) \/ NewRequest(init)
    \/ \E o \in Owners, init \in Inits : NewRequestFrom(o, init) \/ Fetch(o, init)
    \/ \E o \in Owners :
          Clone(o) \/ Body(o) \/ Consume(o) \/ ReserveBodyForSending(o) \/ TakeSendBody(o)
    \/ \E i \in Streams : GetReader(i) \/ ReleaseLock(i) \/ Read(i) \/ Cancel(i)

Spec == Init /\ [][Next]_s

-----------------------------------------------------------------------------
(* Properties.                                                             *)

\* A document is handed out once for each time it was cloned and once more: a Request that
\* gave its body to another one, a Response that is sent, two owners of one stream, bytes
\* with a stream of their own never let it be read twice.
NoDocumentTwice == \A d \in DOMAIN s.given : s.given[d] <= s.copies[d]

\* An owner whose body counts as unused has all of it, wherever it would be read from.
UsableIsWhole ==
    \A o \in Owners : ~IsUnusable(s, o) =>
        LET b == s.owners[o] IN
        \/ b.host
        \/ IF b.stream = NoStream THEN b.source = "bytes"
           ELSE s.streams[b.stream].whole /\ b.source # "emptied"

\* Whoever is told that a body was read or sent got the body, and not what was left of it.
NothingShort == ~s.short

=============================================================================
