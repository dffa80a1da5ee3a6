----------------------------- MODULE WritableProofs -----------------------------
(***************************************************************************)
(* Proof of what the run Streams checks of a writable stream, for any      *)
(* writers, chunks, sizes and high-water mark: no assertion of its         *)
(* algorithms fails, the controller's queue is the queue of the waiting    *)
(* writes, nobody waits for a stream that is over, a closed stream wrote   *)
(* everything, and the calls of the sink follow SinkProtocol.              *)
(*                                                                         *)
(* Always holds of the stream between any two operations of a call, Open   *)
(* as long as the stream is writable, and AtRest when the call is over.    *)
(***************************************************************************)
EXTENDS WritableStream, TLAPS

WStates ==
    [state : {"writable", "erroring", "errored", "closed"}, storedError : {"undefined", "error"},
     writer : Writers \cup {NoWriter}, backpressure : BOOLEAN, closeRequest : BOOLEAN,
     inFlightClose : BOOLEAN, inFlightWrite : Chunks \cup {NoChunk}, writeRequests : Seq(Chunks),
     pendingAbort : {"none", "fresh", "already"}, queue : Seq(Items), total : Nat,
     started : BOOLEAN, algorithms : BOOLEAN, signalled : BOOLEAN,
     owned : [Writers -> {"never", "yes", "no"}],
     ready : [Writers -> Status], closed : [Writers -> Status],
     writeP : [Chunks -> Status], closeP : Status, abortP : Status,
     sink : {"start", "idle", "write", "close", "abort"}, answers : Nat,
     accepted : Seq(Chunks), written : Seq(Chunks),
     ended : BOOLEAN, skipped : BOOLEAN, ok : BOOLEAN]
Frames == Seq([call : {"write", "abort"}, writer : Writers \cup {NoWriter},
               chunk : Chunks \cup {NoChunk}])

Holds(seq, x) == \E i \in 1..Len(seq) : seq[i] = x
Over(r) == r.state \in {"errored", "closed"}

\* The writer of the stream, and no other, owns it.
Owners(r) ==
    /\ Locked(r) => r.owned[r.writer] = "yes"
    /\ \A w \in Writers : r.owned[w] = "yes" => r.writer = w

\* The call that the sink works on, and whether it was the last.
SinkCall(r) ==
    /\ r.sink = "start" <=> ~r.started
    /\ r.sink = "write" <=> r.inFlightWrite # NoChunk
    /\ r.sink = "close" <=> r.inFlightClose
    /\ r.sink \in {"start", "write", "close"} => Active(r)
    /\ r.sink = "abort" => r.state = "errored"
    /\ r.inFlightClose \/ r.sink = "abort" \/ r.state = "closed" => r.ended
    /\ r.sink \in {"start", "write"} => ~r.ended
    /\ r.ended /\ r.pendingAbort # "none" => r.inFlightClose

\* An abort that waits will find the sink's abort() in place.
Erring(r) ==
    /\ r.state \in {"erroring", "errored"} => r.storedError = "error"
    /\ r.pendingAbort = "fresh" /\ ~r.inFlightClose => r.algorithms
    /\ Over(r) => r.pendingAbort = "none"

\* What waits in the stream.
Requests(r) ==
    /\ r.closeRequest => ~r.inFlightClose /\ (Active(r) \/ r.sink = "abort")
    /\ r.inFlightClose \/ Over(r) => r.writeRequests = <<>>
    /\ r.inFlightWrite # NoChunk => r.queue # <<>> /\ ~Holds(r.writeRequests, r.inFlightWrite)
    /\ \A i, j \in 1..Len(r.writeRequests) :
         r.writeRequests[i] = r.writeRequests[j] => i = j

\* A promise is pending while what it stands for waits, and no longer.
Pending(r) ==
    /\ \A c \in Chunks :
         r.writeP[c] = "pending" <=> c = r.inFlightWrite \/ Holds(r.writeRequests, c)
    /\ \A i \in 1..Len(r.accepted) : r.writeP[r.accepted[i]] \notin {"none", "called"}
    /\ r.closeP = "pending" => r.closeRequest \/ r.inFlightClose
    /\ r.abortP = "pending" => r.pendingAbort # "none" \/ r.sink = "abort"
    /\ r.inFlightClose \/ r.state = "closed" =>
         \A i \in 1..Len(r.accepted) : r.writeP[r.accepted[i]] = "resolved"

WriterWaits(r) ==
    Locked(r) =>
        /\ r.ready[r.writer] = "pending" => r.state = "writable" /\ ~CloseQueuedOrInFlight(r)
        /\ r.closed[r.writer] = "pending" => Active(r) \/ r.sink = "abort"

NothingFailed(r) == r.ok = TRUE /\ r.skipped = FALSE

Always(r) ==
    /\ Owners(r) /\ SinkCall(r) /\ Erring(r) /\ Requests(r)
    /\ Pending(r) /\ WriterWaits(r) /\ NothingFailed(r)

\* A writable stream has no error, and its sink's algorithms until close() is called.
NoError(r) ==
    /\ r.storedError = "undefined" /\ r.pendingAbort = "none"
    /\ r.inFlightClose \/ (r.algorithms /\ ~r.ended)

\* How many of the chunks in the queue are in flight.
Ahead(r) == IF r.inFlightWrite = NoChunk THEN 0 ELSE 1

\* The queue holds the chunk in flight, those that wait, and the close that was asked for.
Queued(r) ==
    /\ Len(r.queue) = Ahead(r) + Len(r.writeRequests) + (IF r.closeRequest THEN 1 ELSE 0)
    /\ r.inFlightWrite # NoChunk => r.queue[1].chunk = r.inFlightWrite
    /\ \A i \in 1..Len(r.writeRequests) : r.queue[Ahead(r) + i].chunk = r.writeRequests[i]
    /\ r.closeRequest => r.queue[Len(r.queue)].chunk = CloseSentinel

\* What was accepted was written, and what follows waits.
InOrder(r) ==
    /\ Len(r.accepted) = Len(r.written) + Len(r.writeRequests)
    /\ \A i \in 1..Len(r.written) : r.written[i] = r.accepted[i]
    /\ \A i \in 1..Len(r.writeRequests) : r.accepted[Len(r.written) + i] = r.writeRequests[i]

\* What was accepted and does not wait was written without an error.
Resolved(r) ==
    \A i \in 1..Len(r.accepted) :
        \/ r.writeP[r.accepted[i]] = "resolved"
        \/ r.accepted[i] = r.inFlightWrite
        \/ Holds(r.writeRequests, r.accepted[i])

Backpressure(r) ==
    ~CloseQueuedOrInFlight(r) =>
        /\ r.backpressure <=> (r.total >= HighWaterMark)
        /\ Locked(r) => (r.ready[r.writer] = "pending" <=> r.backpressure)

Open(r) ==
    r.state = "writable" =>
        NoError(r) /\ Queued(r) /\ InOrder(r) /\ Resolved(r) /\ Backpressure(r)

\* Whatever could go on went on.
AtRest(r) ==
    /\ r.state = "erroring" => r.sink # "idle"
    /\ r.state = "writable" /\ r.sink = "idle" => r.queue = <<>>

WInv(r) == r \in WStates /\ Always(r) /\ Open(r) /\ AtRest(r)

\* Writes that wait for their size() are of different chunks, and have not been accepted.
Suspended ==
    /\ frames \in Frames
    /\ \A i \in 1..Len(frames) :
         frames[i].call = "write" =>
             frames[i].writer \in Writers /\ frames[i].chunk \in Chunks
             /\ s.writeP[frames[i].chunk] = "called"
    /\ \A i, j \in 1..Len(frames) :
         frames[i].call = "write" /\ frames[j].call = "write" /\ frames[i].chunk = frames[j].chunk
             => i = j

StreamInv == WInv(s) /\ Suspended

-----------------------------------------------------------------------------
(* What the operators on sequences return.                                 *)

LEMMA TailOf ==
    ASSUME NEW S, NEW q \in Seq(S), q # <<>>
    PROVE  /\ Tail(q) \in Seq(S) /\ Len(q) \in Nat /\ Len(q) >= 1 /\ Len(Tail(q)) = Len(q) - 1
           /\ \A i \in 1..Len(q) - 1 : Tail(q)[i] = q[i + 1]
           /\ Head(q) = q[1] /\ q[1] \in S
OBVIOUS

LEMMA AppendOf ==
    ASSUME NEW S, NEW q \in Seq(S), NEW x \in S
    PROVE  /\ Append(q, x) \in Seq(S) /\ Len(q) \in Nat /\ Len(Append(q, x)) = Len(q) + 1
           /\ Append(q, x)[Len(q) + 1] = x /\ Append(q, x) # <<>>
           /\ \A i \in 1..Len(q) : Append(q, x)[i] = q[i]
OBVIOUS

LEMMA Lengths ==
    ASSUME NEW S, NEW q \in Seq(S)
    PROVE  /\ Len(q) \in Nat /\ (Len(q) = 0 <=> q = <<>>)
           /\ \A i \in 1..Len(q) : q[i] \in S
OBVIOUS

LEMMA Shift ==
    ASSUME NEW n \in Nat, NEW k \in Nat, k >= 1
    PROVE  n + k = (n + 1) + (k - 1) /\ n < n + k
OBVIOUS

LEMMA Placing ==
    ASSUME NEW n \in Nat, NEW k \in Nat, NEW a \in Nat, a = n + k
    PROVE  /\ a + 1 = n + (k + 1) /\ n # a + 1
           /\ \A i \in 1..n : i \in 1..a
           /\ \A i \in 1..k : n + i \in 1..a
OBVIOUS

LEMMA NoneHeld == \A x : ~Holds(<<>>, x)
BY DEF Holds

-----------------------------------------------------------------------------
(* What the operations leave as it is.                                     *)

SameState(r, t) ==
    t.state = r.state /\ t.storedError = r.storedError /\ t.pendingAbort = r.pendingAbort
SameWriter(r, t) ==
    t.writer = r.writer /\ t.owned = r.owned /\ t.ready = r.ready /\ t.closed = r.closed
SameQueue(r, t) ==
    /\ t.inFlightWrite = r.inFlightWrite /\ t.writeRequests = r.writeRequests
    /\ t.queue = r.queue /\ t.total = r.total
SamePromises(r, t) == t.writeP = r.writeP /\ t.closeP = r.closeP /\ t.abortP = r.abortP
SameSink(r, t) ==
    /\ t.sink = r.sink /\ t.started = r.started /\ t.ended = r.ended
    /\ t.inFlightClose = r.inFlightClose /\ t.algorithms = r.algorithms
SameCalls(r, t) ==
    t.answers = r.answers /\ t.accepted = r.accepted /\ t.written = r.written
SameFlags(r, t) == t.backpressure = r.backpressure /\ t.signalled = r.signalled
StillOk(r, t) == t.ok = r.ok /\ t.skipped = r.skipped

LEMMA QueuedSame ==
    ASSUME NEW r, NEW t, SameQueue(r, t), t.closeRequest = r.closeRequest, Queued(r)
    PROVE  Queued(t)
<1>1. Ahead(t) = Ahead(r)
  BY DEF Ahead, SameQueue
<1> QED BY <1>1 DEF Queued, SameQueue

LEMMA InOrderSame ==
    ASSUME NEW r, NEW t, t.accepted = r.accepted, t.written = r.written,
           t.writeRequests = r.writeRequests, InOrder(r)
    PROVE  InOrder(t)
BY DEF InOrder

-----------------------------------------------------------------------------
(* Erroring.                                                               *)

\* writable_stream_start_erroring, up to the call of finish_erroring.
Broken(r, t) ==
    /\ t.state = "erroring" /\ t.storedError = "error" /\ t.pendingAbort = r.pendingAbort
    /\ t.writer = r.writer /\ t.owned = r.owned /\ t.closed = r.closed
    /\ t.ready = IF Locked(r) THEN [r.ready EXCEPT ![r.writer] = "rejected"] ELSE r.ready
    /\ SameQueue(r, t) /\ SamePromises(r, t) /\ SameSink(r, t) /\ SameCalls(r, t)
    /\ SameFlags(r, t) /\ t.closeRequest = r.closeRequest /\ StillOk(r, t)

LEMMA Breaking ==
    ASSUME NEW r \in WStates, Always(r), r.state = "writable", r.storedError = "undefined"
    PROVE  \E t \in WStates :
              /\ Broken(r, t)
              /\ StartErroring(r) = IF ~OperationInFlight(r) /\ r.started
                                    THEN FinishErroring(t) ELSE t
<1>1. r.ok = TRUE /\ DebugAssert(r, r.storedError = "undefined" /\ r.state = "writable") = r
  BY DEF Always, NothingFailed, DebugAssert, WStates
<1>2. PICK u : u = [r EXCEPT !.state = "erroring", !.storedError = "error"]
  OBVIOUS
<1>3. u \in WStates /\ u.ready = r.ready
  BY <1>2 DEF WStates
<1>4. PICK t : t = IF Locked(r) THEN EnsureReadyRejected(u, r.writer) ELSE u
  OBVIOUS
<1>5. StartErroring(r) = IF ~OperationInFlight(r) /\ r.started THEN FinishErroring(t) ELSE t
  BY <1>1, <1>2, <1>4 DEF StartErroring
<1>6. CASE Locked(r)
  <2>1. r.writer \in Writers /\ r.ready \in [Writers -> Status]
    BY <1>6 DEF Locked, WStates
  <2>2. PICK ready : ready = [r.ready EXCEPT ![r.writer] = "rejected"]
    OBVIOUS
  <2>3. ready \in [Writers -> Status]
    BY <2>1, <2>2 DEF Status
  <2>4. t = [r EXCEPT !.state = "erroring", !.storedError = "error", !.ready = ready]
    BY <1>2, <1>3, <1>4, <1>6, <2>2 DEF EnsureReadyRejected, WStates
  <2>5. t \in WStates /\ Broken(r, t)
    BY <1>6, <2>2, <2>3, <2>4
       DEF WStates, Broken, SameQueue, SamePromises, SameSink, SameCalls, SameFlags, StillOk
  <2> QED BY <1>5, <2>5
<1>7. CASE ~Locked(r)
  <2>1. t \in WStates /\ Broken(r, t)
    BY <1>2, <1>4, <1>7
       DEF WStates, Broken, SameQueue, SamePromises, SameSink, SameCalls, SameFlags, StillOk
  <2> QED BY <1>5, <2>1
<1> QED BY <1>6, <1>7

LEMMA BrokenAlways ==
    ASSUME NEW r \in WStates, NEW t \in WStates, Broken(r, t), Always(r), r.state = "writable"
    PROVE  Always(t)
<1> USE DEF Broken, SameQueue, SamePromises, SameSink, SameCalls, SameFlags, StillOk
<1>1. Owners(t)
  BY DEF Always, Owners, Locked
<1>2. SinkCall(t)
  BY DEF Always, SinkCall, Active
<1>3. Erring(t)
  BY DEF Always, Erring, Over
<1>4. Requests(t)
  BY DEF Always, Requests, Over, Active, Holds
<1>5. Pending(t)
  BY DEF Always, Pending, Holds
<1>6. WriterWaits(t)
  <2>1. Locked(t) => t.ready[t.writer] = "rejected"
    BY DEF Locked, WStates
  <2> QED BY <2>1 DEF Always, WriterWaits, Active, Locked
<1>7. NothingFailed(t)
  BY DEF Always, NothingFailed
<1> QED BY <1>1, <1>2, <1>3, <1>4, <1>5, <1>6, <1>7 DEF Always

\* writable_stream_finish_erroring, when it calls the sink's abort() and when it does not.
Emptied(r, t) ==
    /\ t.state = "errored" /\ t.storedError = r.storedError /\ t.pendingAbort = "none"
    /\ t.writeRequests = <<>> /\ t.inFlightWrite = r.inFlightWrite /\ t.queue = <<>> /\ t.total = 0
    /\ \A c \in Chunks :
         t.writeP[c] = IF Holds(r.writeRequests, c) THEN "rejected" ELSE r.writeP[c]
    /\ t.writer = r.writer /\ t.owned = r.owned /\ t.ready = r.ready
    /\ t.started = r.started /\ t.inFlightClose = r.inFlightClose
    /\ SameCalls(r, t) /\ SameFlags(r, t) /\ t.ok = r.ok
Aborts(r, t) ==
    /\ r.pendingAbort = "fresh"
    /\ Emptied(r, t)
    /\ t.sink = "abort" /\ t.ended /\ t.skipped = (r.skipped \/ ~r.algorithms) /\ ~t.algorithms
    /\ t.closeRequest = r.closeRequest /\ t.closeP = r.closeP /\ t.abortP = r.abortP
    /\ t.closed = r.closed
GivesUp(r, t) ==
    /\ r.pendingAbort # "fresh"
    /\ Emptied(r, t)
    /\ t.sink = r.sink /\ t.ended = r.ended /\ t.skipped = r.skipped /\ t.algorithms = r.algorithms
    /\ ~t.closeRequest /\ t.closeP = IF r.closeRequest THEN "rejected" ELSE r.closeP
    /\ t.abortP = IF r.pendingAbort = "already" THEN "rejected" ELSE r.abortP
    /\ t.closed = IF Locked(r)
                  THEN [r.closed EXCEPT ![r.writer] = Settle(r.closed[r.writer], "rejected")]
                  ELSE r.closed

\* writable_stream_reject_close_and_closed_promise_if_needed.
ClosedRejected(r) ==
    IF Locked(r) THEN [r.closed EXCEPT ![r.writer] = Settle(r.closed[r.writer], "rejected")]
    ELSE r.closed

LEMMA Rejecting ==
    ASSUME NEW r \in WStates, r.ok = TRUE, r.state = "errored", ~r.inFlightClose
    PROVE  LET t == RejectCloseAndClosedIfNeeded(r)
           IN /\ t \in WStates
              /\ ~t.closeRequest /\ t.closeP = (IF r.closeRequest THEN "rejected" ELSE r.closeP)
              /\ t.closed = ClosedRejected(r)
              /\ SameState(r, t) /\ SameQueue(r, t) /\ SameSink(r, t) /\ SameCalls(r, t)
              /\ SameFlags(r, t) /\ StillOk(r, t)
              /\ t.writer = r.writer /\ t.owned = r.owned /\ t.ready = r.ready
              /\ t.writeP = r.writeP /\ t.abortP = r.abortP
<1>1. DebugAssert(r, r.state = "errored" /\ (r.closeRequest => ~r.inFlightClose)) = r
  BY DEF DebugAssert, WStates
<1>2. PICK u : u = IF r.closeRequest
                   THEN [r EXCEPT !.closeRequest = FALSE, !.closeP = "rejected"] ELSE r
  OBVIOUS
<1>3. /\ u \in WStates
      /\ ~u.closeRequest /\ u.closeP = (IF r.closeRequest THEN "rejected" ELSE r.closeP)
      /\ SameState(r, u) /\ SameQueue(r, u) /\ SameSink(r, u) /\ SameCalls(r, u)
      /\ SameFlags(r, u) /\ StillOk(r, u) /\ SameWriter(r, u)
      /\ u.writeP = r.writeP /\ u.abortP = r.abortP
  <2>1. CASE r.closeRequest
    BY <1>2, <2>1, ZenonT(60) DEF WStates, Status, SameState, SameQueue, SameSink, SameCalls,
                                  SameFlags,
                      StillOk, SameWriter
  <2>2. CASE ~r.closeRequest
    BY <1>2, <2>2 DEF SameState, SameQueue, SameSink, SameCalls, SameFlags, StillOk, SameWriter
  <2> QED BY <2>1, <2>2
<1>4. PICK closed : closed = ClosedRejected(r)
  OBVIOUS
<1>5. closed \in [Writers -> Status]
  BY <1>4 DEF ClosedRejected, Locked, Settle, Status, WStates
<1>6. RejectCloseAndClosedIfNeeded(r) = IF Locked(r) THEN [u EXCEPT !.closed = closed] ELSE u
  <2>1. RejectCloseAndClosedIfNeeded(r) =
            IF Locked(r) THEN [u EXCEPT !.closed[r.writer] = Settle(@, "rejected")] ELSE u
    BY <1>1, <1>2 DEF RejectCloseAndClosedIfNeeded
  <2> QED BY <1>3, <1>4, <2>1 DEF ClosedRejected, SameWriter, WStates
<1>7. PICK v : v = [u EXCEPT !.closed = closed]
  OBVIOUS
<1>8. CASE Locked(r)
  <2>1. v \in WStates
    BY <1>3, <1>5, <1>7 DEF WStates
  <2>2. /\ v.closed = closed /\ v.closeRequest = u.closeRequest /\ v.closeP = u.closeP
        /\ SameState(u, v) /\ SameQueue(u, v) /\ SameSink(u, v) /\ SameCalls(u, v)
        /\ SameFlags(u, v) /\ StillOk(u, v)
        /\ v.writer = u.writer /\ v.owned = u.owned /\ v.ready = u.ready
        /\ v.writeP = u.writeP /\ v.abortP = u.abortP
    BY <1>3, <1>7 DEF WStates, SameState, SameQueue, SameSink, SameCalls, SameFlags, StillOk
  <2>3. RejectCloseAndClosedIfNeeded(r) = v
    BY <1>6, <1>7, <1>8
  <2> QED
    BY <1>3, <1>4, <2>1, <2>2, <2>3
       DEF SameState, SameQueue, SameSink, SameCalls, SameFlags, StillOk, SameWriter
<1>9. CASE ~Locked(r)
  BY <1>3, <1>4, <1>6, <1>9
     DEF SameState, SameQueue, SameSink, SameCalls, SameFlags, StillOk, SameWriter,
         ClosedRejected
<1> QED BY <1>8, <1>9

LEMMA Emptying ==
    ASSUME NEW r \in WStates, Always(r), r.state = "erroring", ~OperationInFlight(r)
    PROVE  LET t == RejectWriteRequests([ResetQueue(DebugAssert(r, r.state = "erroring"
                                                        /\ ~OperationInFlight(r)))
                                         EXCEPT !.state = "errored"])
           IN /\ t \in WStates /\ Emptied(r, [t EXCEPT !.pendingAbort = "none"])
              /\ t.sink = r.sink /\ t.ended = r.ended /\ t.skipped = r.skipped
              /\ t.algorithms = r.algorithms /\ t.closeRequest = r.closeRequest
              /\ t.closeP = r.closeP /\ t.abortP = r.abortP /\ t.closed = r.closed
              /\ t.pendingAbort = r.pendingAbort
<1>1. DebugAssert(r, r.state = "erroring" /\ ~OperationInFlight(r)) = r
  BY DEF Always, NothingFailed, DebugAssert, WStates
<1>2. PICK u : u = [ResetQueue(r) EXCEPT !.state = "errored"]
  OBVIOUS
<1>3. /\ u \in WStates
      /\ u.state = "errored" /\ u.storedError = r.storedError /\ u.pendingAbort = r.pendingAbort
      /\ u.writeRequests = r.writeRequests /\ u.inFlightWrite = r.inFlightWrite
      /\ u.queue = <<>> /\ u.total = 0 /\ SamePromises(r, u) /\ SameWriter(r, u)
      /\ SameSink(r, u) /\ SameCalls(r, u) /\ SameFlags(r, u) /\ StillOk(r, u)
      /\ u.closeRequest = r.closeRequest
  <2>1. <<>> \in Seq(Items) /\ 0 \in Nat
    OBVIOUS
  <2> QED
    BY <1>2, <2>1 DEF ResetQueue, WStates, SamePromises, SameWriter, SameSink, SameCalls,
                      SameFlags, StillOk
<1>4. PICK writeP : writeP = [c \in Chunks |->
          IF c \in Range(u.writeRequests) THEN "rejected" ELSE u.writeP[c]]
  OBVIOUS
<1>5. /\ writeP \in [Chunks -> Status]
      /\ \A c \in Chunks : writeP[c] = IF Holds(r.writeRequests, c) THEN "rejected"
                                       ELSE r.writeP[c]
  <2>1. DOMAIN u.writeRequests = 1..Len(r.writeRequests)
    BY <1>3 DEF WStates
  <2>2. \A c : c \in Range(u.writeRequests) <=> Holds(r.writeRequests, c)
    BY <1>3, <2>1 DEF Range, Holds
  <2> QED BY <1>3, <1>4, <2>2 DEF WStates, Status, SamePromises
<1>6. PICK t : t = [u EXCEPT !.writeRequests = <<>>, !.writeP = writeP]
  OBVIOUS
<1>7. t = RejectWriteRequests([ResetQueue(DebugAssert(r, r.state = "erroring"
                                              /\ ~OperationInFlight(r)))
                               EXCEPT !.state = "errored"])
  BY <1>1, <1>2, <1>4, <1>6 DEF RejectWriteRequests
<1>8. /\ t \in WStates /\ t.writeRequests = <<>> /\ t.writeP = writeP
      /\ t.state = u.state /\ t.storedError = u.storedError /\ t.pendingAbort = u.pendingAbort
      /\ t.inFlightWrite = u.inFlightWrite /\ t.queue = u.queue /\ t.total = u.total
      /\ t.closeP = u.closeP /\ t.abortP = u.abortP /\ SameWriter(u, t)
      /\ SameSink(u, t) /\ SameCalls(u, t) /\ SameFlags(u, t) /\ StillOk(u, t)
      /\ t.closeRequest = u.closeRequest
  <2>1. <<>> \in Seq(Chunks)
    OBVIOUS
  <2> QED
    BY <1>3, <1>5, <1>6, <2>1
       DEF WStates, SameWriter, SameSink, SameCalls, SameFlags, StillOk
<1>9. PICK v : v = [t EXCEPT !.pendingAbort = "none"]
  OBVIOUS
<1>10. /\ v.pendingAbort = "none" /\ v.writeRequests = <<>> /\ v.writeP = writeP
       /\ v.state = t.state /\ v.storedError = t.storedError
       /\ v.inFlightWrite = t.inFlightWrite /\ v.queue = t.queue /\ v.total = t.total
       /\ v.closeP = t.closeP /\ v.abortP = t.abortP /\ SameWriter(t, v)
       /\ SameSink(t, v) /\ SameCalls(t, v) /\ SameFlags(t, v) /\ StillOk(t, v)
       /\ v.closeRequest = t.closeRequest
  BY <1>8, <1>9 DEF WStates, SameWriter, SameSink, SameCalls, SameFlags, StillOk
<1>11. Emptied(r, v)
  BY <1>3, <1>5, <1>8, <1>10
     DEF Emptied, SamePromises, SameWriter, SameSink, SameCalls, SameFlags, StillOk
<1> QED
  BY <1>3, <1>7, <1>8, <1>9, <1>11 DEF SamePromises, SameWriter, SameSink, StillOk

LEMMA Finishing ==
    ASSUME NEW r \in WStates, Always(r), r.state = "erroring", ~OperationInFlight(r)
    PROVE  \E t \in WStates : t = FinishErroring(r) /\ (Aborts(r, t) \/ GivesUp(r, t))
<1> DEFINE u == RejectWriteRequests([ResetQueue(DebugAssert(r, r.state = "erroring"
                                                    /\ ~OperationInFlight(r)))
                                     EXCEPT !.state = "errored"])
<1>1. PICK v : v = u
  OBVIOUS
<1>2. PICK e : e = [v EXCEPT !.pendingAbort = "none"]
  OBVIOUS
<1>3. /\ v \in WStates /\ Emptied(r, e)
      /\ v.sink = r.sink /\ v.ended = r.ended /\ v.skipped = r.skipped
      /\ v.algorithms = r.algorithms /\ v.closeRequest = r.closeRequest
      /\ v.closeP = r.closeP /\ v.abortP = r.abortP /\ v.closed = r.closed
      /\ v.pendingAbort = r.pendingAbort
  BY <1>1, <1>2, Emptying
<1>4. r.ok = TRUE /\ ~r.inFlightClose
  BY DEF Always, NothingFailed, OperationInFlight
<1>5. FinishErroring(r) =
          CASE r.pendingAbort = "none" -> RejectCloseAndClosedIfNeeded(v)
            [] r.pendingAbort = "already" ->
                 RejectCloseAndClosedIfNeeded(
                     [v EXCEPT !.pendingAbort = "none", !.abortP = "rejected"])
            [] r.pendingAbort = "fresh" -> AbortSteps([v EXCEPT !.pendingAbort = "none"])
  BY <1>1 DEF FinishErroring
<1> HIDE DEF u
<1>6. /\ e \in WStates /\ e.sink = v.sink /\ e.ended = v.ended /\ e.skipped = v.skipped
      /\ e.algorithms = v.algorithms /\ e.closeRequest = v.closeRequest
      /\ e.closeP = v.closeP /\ e.abortP = v.abortP /\ e.closed = v.closed
  BY <1>2, <1>3 DEF WStates
<1>7. CASE r.pendingAbort = "fresh"
  <2>1. PICK t : t = [e EXCEPT !.sink = "abort", !.ended = TRUE,
                               !.skipped = e.skipped \/ ~e.algorithms, !.algorithms = FALSE]
    OBVIOUS
  <2>2. t = AbortSteps(e)
    BY <1>6, <2>1 DEF AbortSteps, ClearAlgorithms, WStates
  <2>3. t = FinishErroring(r)
    BY <1>2, <1>5, <1>7, <2>2
  <2>4. t \in WStates
    <3>1. PICK skipped : skipped = (e.skipped \/ ~e.algorithms)
      OBVIOUS
    <3>2. skipped \in BOOLEAN
      BY <3>1
    <3>3. t = [e EXCEPT !.sink = "abort", !.ended = TRUE, !.skipped = skipped, !.algorithms = FALSE]
      BY <2>1, <3>1
    <3>4. PICK x : x = [e EXCEPT !.sink = "abort", !.ended = TRUE]
      OBVIOUS
    <3>5. x \in WStates
      BY <1>6, <3>4 DEF WStates
    <3>6. t = [x EXCEPT !.skipped = skipped, !.algorithms = FALSE]
      BY <1>6, <3>3, <3>4 DEF WStates
    <3> QED BY <3>2, <3>5, <3>6, ZenonT(60) DEF WStates
  <2>5. /\ t.sink = "abort" /\ t.ended /\ t.skipped = (e.skipped \/ ~e.algorithms) /\ ~t.algorithms
        /\ SameState(e, t) /\ SameQueue(e, t) /\ SamePromises(e, t) /\ SameWriter(e, t)
        /\ t.started = e.started /\ t.inFlightClose = e.inFlightClose
        /\ SameCalls(e, t) /\ SameFlags(e, t) /\ t.ok = e.ok /\ t.closeRequest = e.closeRequest
    BY <1>6, <2>1
       DEF WStates, SameState, SameQueue, SamePromises, SameWriter, SameCalls, SameFlags
  <2>6. Emptied(r, t)
    BY <1>3, <2>5
       DEF Emptied, SameState, SameQueue, SamePromises, SameWriter, SameCalls, SameFlags
  <2>7. Aborts(r, t)
    BY <1>3, <1>6, <1>7, <2>5, <2>6 DEF Aborts, SamePromises, SameWriter
  <2> QED BY <2>3, <2>4, <2>7
<1>8. CASE r.pendingAbort # "fresh"
  <2>1. PICK w : w = IF r.pendingAbort = "already"
                     THEN [v EXCEPT !.pendingAbort = "none", !.abortP = "rejected"] ELSE v
    OBVIOUS
  <2>2. /\ w \in WStates
        /\ w.abortP = (IF r.pendingAbort = "already" THEN "rejected" ELSE r.abortP)
        /\ SameState(e, w) /\ SameQueue(e, w) /\ SameWriter(e, w) /\ SameSink(e, w)
        /\ SameCalls(e, w) /\ SameFlags(e, w) /\ StillOk(e, w)
        /\ w.writeP = e.writeP /\ w.closeP = e.closeP /\ w.closeRequest = e.closeRequest
    <3>1. CASE r.pendingAbort = "already"
      <4>1. w = [v EXCEPT !.pendingAbort = "none", !.abortP = "rejected"]
        BY <2>1, <3>1
      <4>2. w \in WStates
        BY <1>3, <4>1, ZenonT(60) DEF WStates, Status
      <4>3. SameState(e, w) /\ SameQueue(e, w) /\ SameWriter(e, w) /\ SameSink(e, w)
        BY <1>2, <1>3, <4>1 DEF WStates, SameState, SameQueue, SameWriter, SameSink
      <4> QED
        BY <1>2, <1>3, <3>1, <4>1, <4>2, <4>3 DEF WStates, SameCalls, SameFlags, StillOk
    <3>2. CASE r.pendingAbort = "none"
      BY <1>2, <1>3, <2>1, <3>2
         DEF WStates, SameState, SameQueue, SameWriter, SameSink, SameCalls, SameFlags, StillOk
    <3> QED BY <1>8, <3>1, <3>2 DEF WStates
  <2>3. w.ok = TRUE /\ w.state = "errored" /\ ~w.inFlightClose
    BY <1>3, <1>4, <2>2 DEF Emptied, SameState, SameSink, StillOk
  <2>4. PICK t : t = RejectCloseAndClosedIfNeeded(w)
    OBVIOUS
  <2>5. t = FinishErroring(r)
    BY <1>5, <1>8, <2>1, <2>4 DEF WStates
  <2>6. /\ t \in WStates
        /\ ~t.closeRequest /\ t.closeP = (IF w.closeRequest THEN "rejected" ELSE w.closeP)
        /\ t.closed = ClosedRejected(w)
        /\ SameState(w, t) /\ SameQueue(w, t) /\ SameSink(w, t) /\ SameCalls(w, t)
        /\ SameFlags(w, t) /\ StillOk(w, t)
        /\ t.writer = w.writer /\ t.owned = w.owned /\ t.ready = w.ready
        /\ t.writeP = w.writeP /\ t.abortP = w.abortP
    BY <2>2, <2>3, <2>4, Rejecting
  <2>7. Emptied(r, t)
    BY <1>3, <2>2, <2>6
       DEF Emptied, SameState, SameQueue, SameSink, SameWriter, SameCalls, SameFlags, StillOk
  <2>8. w.writer = r.writer /\ w.closed = r.closed /\ e.skipped = r.skipped
    BY <1>3, <1>6, <2>2 DEF Emptied, SameWriter
  <2>9. GivesUp(r, t)
    BY <1>3, <1>6, <1>8, <2>2, <2>6, <2>7, <2>8
       DEF GivesUp, ClosedRejected, Locked, SameSink, StillOk
  <2> QED BY <2>5, <2>6, <2>9
<1> QED BY <1>7, <1>8

\* The end of erroring keeps the invariant: the stream is over, and only the sink's abort() may
\* still be waited for.
LEMMA ErroredHolds ==
    ASSUME NEW r \in WStates, NEW t \in WStates, Always(r), r.state = "erroring",
           ~OperationInFlight(r), r.started, Aborts(r, t) \/ GivesUp(r, t)
    PROVE  WInv(t)
<1> USE DEF Aborts, GivesUp, Emptied, SameCalls, SameFlags
<1>1. /\ r.inFlightWrite = NoChunk /\ ~r.inFlightClose /\ r.sink = "idle"
      /\ t.inFlightWrite = NoChunk /\ ~t.inFlightClose /\ t.state = "errored"
  BY DEF Always, SinkCall, OperationInFlight, WStates
<1>2. Owners(t)
  BY DEF Always, Owners, Locked
<1>3. SinkCall(t)
  BY <1>1 DEF Always, SinkCall, Active
<1>4. Erring(t)
  BY <1>1 DEF Always, Erring, Over
<1>5. Requests(t)
  <2>1. Len(t.writeRequests) = 0 /\ Over(t)
    BY <1>1 DEF Over
  <2>2. t.closeRequest => t.sink = "abort"
    OBVIOUS
  <2> QED BY <1>1, <2>1, <2>2 DEF Requests
<1>6. Pending(t)
  <2>1. ASSUME NEW c \in Chunks
        PROVE  t.writeP[c] # "pending"
    <3>1. c # r.inFlightWrite
      BY <1>1, NamesAssumption
    <3>2. r.writeP[c] = "pending" => Holds(r.writeRequests, c)
      BY <3>1 DEF Always, Pending
    <3> QED BY <3>2
  <2>2. \A i \in 1..Len(t.accepted) : t.accepted[i] \in Chunks
    BY DEF WStates
  <2>3. ASSUME NEW i \in 1..Len(t.accepted)
        PROVE  t.writeP[t.accepted[i]] \notin {"none", "called"}
    <3>1. PICK c : c = t.accepted[i]
      OBVIOUS
    <3>2. c \in Chunks /\ r.writeP[c] \notin {"none", "called"}
      BY <2>2, <3>1 DEF Always, Pending
    <3> QED BY <3>1, <3>2
  <2>4. \A c \in Chunks : c # t.inFlightWrite /\ ~Holds(t.writeRequests, c)
    BY <1>1, NoneHeld, NamesAssumption
  <2>5. t.closeP = "pending" => t.closeRequest
    BY <1>1 DEF Always, Pending
  <2>6. t.abortP = "pending" => t.sink = "abort"
    BY <1>1 DEF Always, Pending, WStates
  <2> QED BY <1>1, <2>1, <2>3, <2>4, <2>5, <2>6 DEF Pending
<1>7. WriterWaits(t)
  <2>1. Locked(t) => r.writer \in Writers /\ Locked(r) /\ t.writer = r.writer
    BY DEF Locked, WStates
  <2>2. Locked(t) => t.ready[t.writer] # "pending"
    BY <2>1 DEF Always, WriterWaits
  <2>3. Locked(t) /\ GivesUp(r, t) => t.closed[t.writer] # "pending"
    BY <2>1 DEF Settle, WStates
  <2> QED BY <2>2, <2>3 DEF WriterWaits
<1>8. NothingFailed(t)
  BY <1>1 DEF Always, NothingFailed, Erring
<1>9. Always(t)
  BY <1>2, <1>3, <1>4, <1>5, <1>6, <1>7, <1>8 DEF Always
<1> QED BY <1>1, <1>9 DEF WInv, Open, AtRest

\* The stream accepts no more, and either the sink goes on as it was or its abort() is called;
\* writes that wait for their size() still do.
Stopped(r, t) ==
    /\ SameCalls(r, t) /\ t.state \in {"erroring", "errored"} /\ t.owned = r.owned
    /\ \A c \in Chunks : r.writeP[c] = "called" => t.writeP[c] = "called"
    /\ \/ t.sink = r.sink /\ t.ended = r.ended
       \/ r.sink = "idle" /\ ~r.ended /\ t.sink = "abort" /\ t.ended

LEMMA FinishErroringHolds ==
    ASSUME NEW r \in WStates, Always(r), r.state = "erroring", ~OperationInFlight(r), r.started
    PROVE  WInv(FinishErroring(r)) /\ Stopped(r, FinishErroring(r))
<1>1. PICK t \in WStates : t = FinishErroring(r) /\ (Aborts(r, t) \/ GivesUp(r, t))
  BY Finishing
<1>2. WInv(t)
  BY <1>1, ErroredHolds
<1>3. SameCalls(r, t) /\ t.state = "errored" /\ t.owned = r.owned
  BY <1>1 DEF Aborts, GivesUp, Emptied
<1>4. ASSUME NEW c \in Chunks, r.writeP[c] = "called"
      PROVE  t.writeP[c] = "called"
  <2>1. ~Holds(r.writeRequests, c)
    BY <1>4 DEF Always, Pending
  <2> QED BY <1>1, <1>4, <2>1 DEF Aborts, GivesUp, Emptied
<1>5. CASE GivesUp(r, t)
  BY <1>1, <1>2, <1>3, <1>4, <1>5 DEF Stopped, GivesUp
<1>6. CASE Aborts(r, t)
  <2>1. r.sink = "idle" /\ ~r.ended /\ t.sink = "abort" /\ t.ended
    BY <1>6 DEF Always, SinkCall, OperationInFlight, Aborts, WStates
  <2> QED BY <1>1, <1>2, <1>3, <1>4, <2>1 DEF Stopped
<1> QED BY <1>1, <1>5, <1>6

LEMMA StartErroringHolds ==
    ASSUME NEW r \in WStates, Always(r), r.state = "writable", r.storedError = "undefined"
    PROVE  WInv(StartErroring(r)) /\ Stopped(r, StartErroring(r))
<1>1. PICK t \in WStates :
         /\ Broken(r, t)
         /\ StartErroring(r) = IF ~OperationInFlight(r) /\ r.started THEN FinishErroring(t) ELSE t
  BY Breaking
<1>2. /\ Always(t) /\ t.state = "erroring" /\ t.owned = r.owned /\ t.writeP = r.writeP
      /\ t.sink = r.sink /\ t.ended = r.ended /\ t.started = r.started /\ SameCalls(r, t)
      /\ OperationInFlight(t) = OperationInFlight(r)
  BY <1>1, BrokenAlways DEF Broken, SameSink, SamePromises, SameQueue, OperationInFlight
<1>3. CASE ~OperationInFlight(r) /\ r.started
  <2>1. WInv(FinishErroring(t)) /\ Stopped(t, FinishErroring(t))
    BY <1>2, <1>3, FinishErroringHolds
  <2> QED BY <1>1, <1>2, <1>3, <2>1 DEF Stopped, SameCalls
<1>4. CASE OperationInFlight(r) \/ ~r.started
  <2>1. t.sink # "idle"
    BY <1>2, <1>4 DEF Always, SinkCall, OperationInFlight
  <2>2. WInv(t)
    BY <1>2, <2>1 DEF WInv, Open, AtRest
  <2> QED BY <1>1, <1>2, <1>4, <2>2 DEF Stopped
<1> QED BY <1>3, <1>4

LEMMA DealWithRejectionHolds ==
    ASSUME NEW r \in WStates, Always(r), Active(r), r.state = "writable" => r.storedError = "undefined",
           ~OperationInFlight(r), r.started
    PROVE  WInv(DealWithRejection(r)) /\ Stopped(r, DealWithRejection(r))
<1>1. CASE r.state = "writable"
  BY <1>1, StartErroringHolds DEF DealWithRejection
<1>2. CASE r.state = "erroring"
  <2>1. DebugAssert(r, r.state = "erroring") = r
    BY <1>2 DEF Always, NothingFailed, DebugAssert, WStates
  <2> QED BY <1>2, <2>1, FinishErroringHolds DEF DealWithRejection
<1> QED BY <1>1, <1>2 DEF Active

-----------------------------------------------------------------------------
(* The controller's queue.                                                 *)

LEMMA Dequeuing ==
    ASSUME NEW r \in WStates, r.ok = TRUE, r.queue # <<>>
    PROVE  LET t == DequeueValue(r)
           IN /\ t \in WStates /\ t.queue = Tail(r.queue)
              /\ t.inFlightWrite = r.inFlightWrite /\ t.writeRequests = r.writeRequests
              /\ SameState(r, t) /\ SameWriter(r, t) /\ SamePromises(r, t) /\ SameSink(r, t)
              /\ SameCalls(r, t) /\ SameFlags(r, t) /\ StillOk(r, t)
              /\ t.closeRequest = r.closeRequest
<1>1. DebugAssert(r, r.queue # <<>>) = r
  BY DEF DebugAssert, WStates
<1>2. PICK n : n = IF r.total - Head(r.queue).size < 0 THEN 0 ELSE r.total - Head(r.queue).size
  OBVIOUS
<1>3. r.queue \in Seq(Items) /\ r.total \in Nat
  BY DEF WStates
<1>4. Head(r.queue) \in Items /\ Tail(r.queue) \in Seq(Items)
  BY <1>3, TailOf
<1>5. n \in Nat
  BY <1>2, <1>3, <1>4 DEF Items
<1>6. PICK q : q = Tail(r.queue)
  OBVIOUS
<1>7. PICK t : t = [r EXCEPT !.queue = q, !.total = n]
  OBVIOUS
<1>8. t = DequeueValue(r)
  BY <1>1, <1>2, <1>6, <1>7 DEF DequeueValue, WStates
<1>9. t \in WStates
  BY <1>4, <1>5, <1>6, <1>7 DEF WStates
<1>10. /\ t.queue = q
       /\ t.inFlightWrite = r.inFlightWrite /\ t.writeRequests = r.writeRequests
       /\ SameState(r, t) /\ SameWriter(r, t) /\ SamePromises(r, t) /\ SameSink(r, t)
       /\ SameCalls(r, t) /\ SameFlags(r, t) /\ StillOk(r, t)
       /\ t.closeRequest = r.closeRequest
  BY <1>7 DEF WStates, SameState, SameWriter, SamePromises, SameSink, SameCalls, SameFlags,
              StillOk
<1> QED BY <1>6, <1>8, <1>9, <1>10

\* writable_stream_default_controller_process_write: the first write that waits is in flight,
\* and its chunk, which is the next one that was accepted, is given to the sink.
Writes(r, t) ==
    /\ r.writeRequests # <<>> /\ t.inFlightWrite = r.writeRequests[1]
    /\ t.writeRequests = Tail(r.writeRequests) /\ t.queue = r.queue /\ t.total = r.total
    /\ t.sink = "write" /\ t.started = r.started /\ t.ended = r.ended
    /\ t.inFlightClose = r.inFlightClose /\ t.algorithms = r.algorithms
    /\ t.answers = r.answers /\ t.accepted = r.accepted
    /\ t.written = Append(r.written, r.writeRequests[1])
    /\ SameState(r, t) /\ SameWriter(r, t) /\ SamePromises(r, t) /\ SameFlags(r, t)
    /\ t.closeRequest = r.closeRequest /\ StillOk(r, t)

\* The next call of the sink can be made.
Ready(r) ==
    /\ Always(r) /\ Open(r) /\ r.state = "writable" /\ r.started
    /\ r.inFlightWrite = NoChunk /\ ~r.inFlightClose /\ r.queue # <<>>

LEMMA FirstQueued ==
    ASSUME NEW r \in WStates, Ready(r)
    PROVE  /\ r.writeRequests # <<>> =>
                  r.queue[1].chunk = r.writeRequests[1] /\ r.writeRequests[1] \in Chunks
           /\ r.writeRequests = <<>> =>
                  r.closeRequest /\ Len(r.queue) = 1 /\ r.queue[1].chunk = CloseSentinel
           /\ Head(r.queue) = r.queue[1]
<1>1. r.queue \in Seq(Items) /\ r.writeRequests \in Seq(Chunks) /\ r.closeRequest \in BOOLEAN
  BY DEF WStates
<1>2. Queued(r) /\ Ahead(r) = 0 /\ r.queue # <<>>
  BY DEF Ready, Open, Ahead
<1>3. PICK n, k \in Nat : n = Len(r.queue) /\ k = Len(r.writeRequests)
  BY <1>1, Lengths
<1>4. (n = 0 <=> r.queue = <<>>) /\ (k = 0 <=> r.writeRequests = <<>>)
  BY <1>1, <1>3, Lengths
<1>5. n = k + (IF r.closeRequest THEN 1 ELSE 0)
  BY <1>2, <1>3 DEF Queued
<1>6. ASSUME r.writeRequests # <<>>
      PROVE  r.queue[1].chunk = r.writeRequests[1] /\ r.writeRequests[1] \in Chunks
  <2>1. 1 \in 1..k
    BY <1>4, <1>6
  <2>2. r.queue[0 + 1].chunk = r.writeRequests[1]
    BY <1>2, <1>3, <2>1 DEF Queued
  <2> QED BY <1>1, <1>3, <2>1, <2>2, Lengths
<1>7. ASSUME r.writeRequests = <<>>
      PROVE  r.closeRequest /\ Len(r.queue) = 1 /\ r.queue[1].chunk = CloseSentinel
  <2>1. r.closeRequest /\ n = 1
    BY <1>2, <1>4, <1>5, <1>7
  <2> QED BY <1>2, <1>3, <2>1 DEF Queued
<1>8. Head(r.queue) = r.queue[1]
  BY <1>1, <1>2, TailOf
<1> QED BY <1>6, <1>7, <1>8

LEMMA Writing ==
    ASSUME NEW r \in WStates, Ready(r), r.writeRequests # <<>>
    PROVE  ProcessWrite(r) \in WStates /\ Writes(r, ProcessWrite(r))
<1>1. /\ r.ok = TRUE /\ r.skipped = FALSE /\ r.algorithms = TRUE
  BY DEF Ready, Always, Open, NoError, NothingFailed, WStates
<1>2. DebugAssert(r, r.inFlightWrite = NoChunk /\ r.writeRequests # <<>>) = r
  BY <1>1 DEF Ready, DebugAssert, WStates
<1>3. r.writeRequests \in Seq(Chunks) /\ r.written \in Seq(Chunks)
  BY DEF WStates
<1>4. PICK c \in Chunks, rest \in Seq(Chunks) :
         c = r.writeRequests[1] /\ c = Head(r.writeRequests) /\ rest = Tail(r.writeRequests)
  BY <1>3, TailOf
<1>5. c = Head(r.queue).chunk
  BY <1>4, FirstQueued
<1>6. PICK written \in Seq(Chunks) : written = Append(r.written, c)
  BY <1>3, AppendOf
<1>7. PICK u : u = [r EXCEPT !.inFlightWrite = c, !.writeRequests = rest]
  OBVIOUS
<1>8. u = MarkFirstWriteRequestInFlight(r)
  BY <1>2, <1>4, <1>7 DEF MarkFirstWriteRequestInFlight
<1>9. /\ u \in WStates /\ u.inFlightWrite = c /\ u.writeRequests = rest
      /\ u.queue = r.queue /\ u.total = r.total /\ u.closeRequest = r.closeRequest
      /\ SameState(r, u) /\ SameWriter(r, u) /\ SamePromises(r, u) /\ SameSink(r, u)
      /\ SameCalls(r, u) /\ SameFlags(r, u) /\ StillOk(r, u)
  BY <1>7 DEF WStates, SameState, SameWriter, SamePromises, SameSink, SameCalls, SameFlags,
              StillOk
<1>10. PICK t : t = [u EXCEPT !.sink = "write", !.written = written]
  OBVIOUS
<1>11. t = ProcessWrite(r)
  <2>1. u.skipped = (u.skipped \/ ~r.algorithms) /\ u.written = r.written
    BY <1>1, <1>9 DEF StillOk, SameCalls
  <2>2. ProcessWrite(r) = [u EXCEPT !.sink = "write", !.skipped = @ \/ ~r.algorithms,
                                    !.written = Append(@, Head(r.queue).chunk)]
    BY <1>8 DEF ProcessWrite
  <2>3. ProcessWrite(r) = [u EXCEPT !.sink = "write", !.skipped = u.skipped, !.written = written]
    BY <1>5, <1>6, <1>9, <2>1, <2>2 DEF WStates
  <2> QED BY <1>9, <1>10, <2>3, ZenonT(60) DEF WStates
<1>12. /\ t \in WStates /\ t.sink = "write" /\ t.written = written
       /\ SameState(u, t) /\ SameWriter(u, t) /\ SamePromises(u, t) /\ SameQueue(u, t)
       /\ SameFlags(u, t) /\ StillOk(u, t) /\ t.closeRequest = u.closeRequest
       /\ t.started = u.started /\ t.ended = u.ended /\ t.inFlightClose = u.inFlightClose
       /\ t.algorithms = u.algorithms /\ t.answers = u.answers /\ t.accepted = u.accepted
  BY <1>9, <1>10 DEF WStates, SameState, SameWriter, SamePromises, SameQueue, SameFlags, StillOk
<1>13. Writes(r, t)
  BY <1>4, <1>6, <1>9, <1>12
     DEF Writes, SameState, SameWriter, SamePromises, SameQueue, SameSink, SameCalls, SameFlags,
         StillOk
<1> QED BY <1>11, <1>12, <1>13

LEMMA WritingHolds ==
    ASSUME NEW r \in WStates, NEW t \in WStates, Ready(r), Writes(r, t)
    PROVE  /\ WInv(t)
           /\ Len(r.written) < Len(r.accepted)
           /\ r.writeRequests[1] = r.accepted[Len(r.written) + 1]
<1> USE DEF Writes, SameState, SameWriter, SamePromises, SameFlags, StillOk
<1>1. /\ r.state = "writable" /\ r.inFlightWrite = NoChunk /\ ~r.inFlightClose /\ r.started
      /\ Always(r) /\ NoError(r) /\ Queued(r) /\ InOrder(r) /\ Resolved(r) /\ Backpressure(r)
      /\ r.sink = "idle"
  BY DEF Ready, Open, Always, SinkCall, WStates
<1>2. /\ r.writeRequests \in Seq(Chunks) /\ r.accepted \in Seq(Chunks) /\ r.written \in Seq(Chunks)
      /\ r.queue \in Seq(Items) /\ r.closeRequest \in BOOLEAN
      /\ t.writeRequests \in Seq(Chunks)
  BY DEF WStates
<1>3. PICK n, k, a, q \in Nat :
         /\ n = Len(r.written) /\ k = Len(r.writeRequests) /\ a = Len(r.accepted)
         /\ q = Len(r.queue) /\ k >= 1
  BY <1>2, Lengths
<1>4. /\ Len(t.writeRequests) = k - 1
      /\ \A i \in 1..k - 1 : t.writeRequests[i] = r.writeRequests[i + 1]
      /\ r.writeRequests[1] \in Chunks
  BY <1>2, <1>3, TailOf
<1>5. /\ Len(t.written) = n + 1 /\ t.written[n + 1] = r.writeRequests[1]
      /\ \A i \in 1..n : t.written[i] = r.written[i]
  BY <1>2, <1>3, <1>4, AppendOf
<1>6. a = n + k /\ r.accepted[n + 1] = r.writeRequests[1]
  BY <1>1, <1>3 DEF InOrder
<1>7. \A c : Holds(r.writeRequests, c) <=> c = r.writeRequests[1] \/ Holds(t.writeRequests, c)
  <2>1. ASSUME NEW c, NEW i \in 1..k, r.writeRequests[i] = c
        PROVE  c = r.writeRequests[1] \/ Holds(t.writeRequests, c)
    <3>1. CASE i = 1
      BY <2>1, <3>1
    <3>2. CASE i # 1
      <4>1. i - 1 \in 1..k - 1 /\ t.writeRequests[i - 1] = r.writeRequests[i - 1 + 1]
        BY <1>4, <3>2
      <4> QED BY <1>4, <2>1, <4>1 DEF Holds
    <3> QED BY <3>1, <3>2
  <2>2. ASSUME NEW c, NEW i \in 1..k - 1, t.writeRequests[i] = c
        PROVE  Holds(r.writeRequests, c)
    <3>1. i + 1 \in 1..k /\ r.writeRequests[i + 1] = c
      BY <1>4, <2>2
    <3> QED BY <1>3, <3>1 DEF Holds
  <2>3. 1 \in 1..k
    BY <1>3
  <2> QED BY <1>3, <1>4, <2>1, <2>2, <2>3 DEF Holds
<1>8. r.writeRequests[1] # NoChunk /\ t.inFlightWrite \in Chunks
  BY <1>4, NamesAssumption
<1>9. \A i, j \in 1..k : r.writeRequests[i] = r.writeRequests[j] => i = j
  BY <1>1, <1>3 DEF Always, Requests
<1>10. Owners(t)
  BY <1>1 DEF Always, Owners, Locked
<1>11. SinkCall(t)
  BY <1>1, <1>8 DEF Always, SinkCall, Active, NoError
<1>12. Erring(t)
  BY <1>1 DEF Always, Erring, Over
<1>13. Requests(t)
  <2>1. ~Holds(t.writeRequests, t.inFlightWrite)
    <3>1. ASSUME NEW i \in 1..k - 1, t.writeRequests[i] = r.writeRequests[1]
          PROVE  FALSE
      <4>1. i + 1 \in 1..k /\ 1 \in 1..k /\ r.writeRequests[i + 1] = r.writeRequests[1]
        BY <1>3, <1>4, <3>1
      <4>2. i + 1 = 1
        BY <1>9, <4>1
      <4> QED BY <4>2
    <3> QED BY <1>4, <3>1 DEF Holds
  <2>2. ASSUME NEW i \in 1..k - 1, NEW j \in 1..k - 1, t.writeRequests[i] = t.writeRequests[j]
        PROVE  i = j
    <3>1. i + 1 \in 1..k /\ j + 1 \in 1..k /\ r.writeRequests[i + 1] = r.writeRequests[j + 1]
      BY <1>4, <2>2
    <3>2. i + 1 = j + 1
      BY <1>9, <3>1
    <3> QED BY <3>2
  <2>3. r.queue # <<>> /\ t.state = "writable" /\ ~t.inFlightClose
    BY <1>1 DEF Ready
  <2> QED BY <1>1, <1>4, <2>1, <2>2, <2>3 DEF Always, Requests, Over, Active
<1>14. Pending(t)
  <2>1. ASSUME NEW c \in Chunks
        PROVE  t.writeP[c] = "pending" <=> c = t.inFlightWrite \/ Holds(t.writeRequests, c)
    <3>1. c # r.inFlightWrite
      BY <1>1, NamesAssumption
    <3>2. r.writeP[c] = "pending" <=> Holds(r.writeRequests, c)
      BY <1>1, <3>1 DEF Always, Pending
    <3> QED BY <1>7, <3>2
  <2> QED BY <1>1, <2>1 DEF Always, Pending, NoError
<1>15. WriterWaits(t)
  BY <1>1 DEF Always, WriterWaits, Locked, CloseQueuedOrInFlight, Active
<1>16. NothingFailed(t)
  BY <1>1 DEF Always, NothingFailed
<1>17. NoError(t)
  BY <1>1 DEF NoError
<1>18. Queued(t)
  <2>1. Ahead(r) = 0 /\ Ahead(t) = 1
    BY <1>1, <1>8, NamesAssumption DEF Ahead
  <2>2. q = k + (IF r.closeRequest THEN 1 ELSE 0)
    BY <1>1, <1>3, <2>1 DEF Queued
  <2>3. Len(t.queue) = 1 + (k - 1) + (IF t.closeRequest THEN 1 ELSE 0)
    BY <1>3, <2>2
  <2>4. t.queue[1].chunk = t.inFlightWrite
    <3>1. 1 \in 1..k
      BY <1>3
    <3>2. r.queue[0 + 1].chunk = r.writeRequests[1]
      BY <1>1, <1>3, <2>1, <3>1 DEF Queued
    <3> QED BY <3>2
  <2>5. ASSUME NEW i \in 1..k - 1
        PROVE  t.queue[1 + i].chunk = t.writeRequests[i]
    <3>1. i + 1 \in 1..k /\ 0 + (i + 1) = 1 + i
      OBVIOUS
    <3>2. r.queue[0 + (i + 1)].chunk = r.writeRequests[i + 1]
      BY <1>1, <1>3, <2>1, <3>1 DEF Queued
    <3> QED BY <1>4, <3>1, <3>2
  <2>6. t.closeRequest => t.queue[Len(t.queue)].chunk = CloseSentinel
    BY <1>1 DEF Queued
  <2> QED BY <1>4, <2>1, <2>3, <2>4, <2>5, <2>6 DEF Queued
<1>19. InOrder(t)
  <2>1. Len(t.accepted) = (n + 1) + (k - 1)
    <3>1. n + k = (n + 1) + (k - 1)
      BY <1>3, Shift
    <3>2. Len(t.accepted) = n + k
      BY <1>3, <1>6
    <3> QED BY <3>1, <3>2
  <2>2. ASSUME NEW i \in 1..n + 1
        PROVE  t.written[i] = t.accepted[i]
    <3>1. CASE i = n + 1
      BY <1>5, <1>6, <3>1
    <3>2. CASE i \in 1..n
      <4>1. r.written[i] = r.accepted[i]
        BY <1>1, <1>3, <3>2 DEF InOrder
      <4> QED BY <1>5, <3>2, <4>1
    <3>3. i = n + 1 \/ i \in 1..n
      BY <1>3
    <3> QED BY <3>1, <3>2, <3>3
  <2>3. ASSUME NEW i \in 1..k - 1
        PROVE  t.accepted[(n + 1) + i] = t.writeRequests[i]
    <3>1. i + 1 \in 1..k /\ n + (i + 1) = (n + 1) + i
      OBVIOUS
    <3>2. r.accepted[n + (i + 1)] = r.writeRequests[i + 1]
      BY <1>1, <1>3, <3>1 DEF InOrder
    <3> QED BY <1>4, <3>1, <3>2
  <2> QED BY <1>4, <1>5, <2>1, <2>2, <2>3 DEF InOrder
<1>20. Resolved(t)
  BY <1>1, <1>2, <1>7, Lengths, NamesAssumption DEF Resolved
<1>21. Backpressure(t)
  BY <1>1 DEF Backpressure, CloseQueuedOrInFlight, Locked
<1>22. Always(t) /\ Open(t)
  BY <1>10, <1>11, <1>12, <1>13, <1>14, <1>15, <1>16, <1>17, <1>18, <1>19, <1>20, <1>21
     DEF Always, Open
<1>23. AtRest(t)
  BY <1>1 DEF AtRest
<1>24. n < a
  BY <1>3, <1>6, Shift
<1> QED BY <1>3, <1>6, <1>22, <1>23, <1>24 DEF WInv

\* writable_stream_default_controller_process_close: only the close is left.
Closes(r, t) ==
    /\ t.inFlightClose /\ ~t.closeRequest /\ t.queue = <<>>
    /\ t.sink = "close" /\ t.started = r.started /\ t.ended /\ ~t.algorithms
    /\ t.inFlightWrite = r.inFlightWrite /\ t.writeRequests = r.writeRequests
    /\ SameState(r, t) /\ SameWriter(r, t) /\ SamePromises(r, t) /\ SameCalls(r, t)
    /\ SameFlags(r, t) /\ StillOk(r, t)

LEMMA Closing ==
    ASSUME NEW r \in WStates, Ready(r), r.writeRequests = <<>>
    PROVE  ProcessClose(r) \in WStates /\ Closes(r, ProcessClose(r))
<1>1. /\ r.ok = TRUE /\ r.skipped = FALSE /\ r.algorithms = TRUE /\ r.queue # <<>>
      /\ r.inFlightClose = FALSE
  BY DEF Ready, Always, Open, NoError, NothingFailed, WStates
<1>2. r.closeRequest = TRUE /\ Len(r.queue) = 1
  BY FirstQueued DEF WStates
<1>3. DebugAssert(r, ~r.inFlightClose /\ r.closeRequest) = r
  BY <1>1, <1>2 DEF DebugAssert, WStates
<1>4. PICK u : u = MarkCloseRequestInFlight(r)
  OBVIOUS
<1>5. /\ u \in WStates /\ u.inFlightClose /\ ~u.closeRequest /\ SameQueue(r, u)
      /\ u.sink = r.sink /\ u.started = r.started /\ u.ended = r.ended
      /\ u.algorithms = r.algorithms
      /\ SameState(r, u) /\ SameWriter(r, u) /\ SamePromises(r, u) /\ SameCalls(r, u)
      /\ SameFlags(r, u) /\ StillOk(r, u)
  BY <1>3, <1>4, ZenonT(60) DEF MarkCloseRequestInFlight, WStates, SameQueue, SameState, SameWriter,
                    SamePromises, SameCalls, SameFlags, StillOk
<1>6. PICK v : v = DequeueValue(u)
  OBVIOUS
<1>7. /\ v \in WStates /\ v.queue = Tail(u.queue)
      /\ v.inFlightWrite = u.inFlightWrite /\ v.writeRequests = u.writeRequests
      /\ SameState(u, v) /\ SameWriter(u, v) /\ SamePromises(u, v) /\ SameSink(u, v)
      /\ SameCalls(u, v) /\ SameFlags(u, v) /\ StillOk(u, v)
      /\ v.closeRequest = u.closeRequest
  BY <1>1, <1>5, <1>6, Dequeuing DEF StillOk, SameQueue
<1>8. v.queue = <<>>
  <2>1. u.queue = r.queue /\ r.queue \in Seq(Items)
    BY <1>5 DEF SameQueue, WStates
  <2> QED BY <1>1, <1>2, <1>7, <2>1, TailOf, Lengths
<1>9. DebugAssert(v, v.queue = <<>>) = v /\ v.skipped = FALSE
  BY <1>1, <1>5, <1>7, <1>8, ZenonT(60) DEF DebugAssert, StillOk, WStates
<1>10. PICK t : t = [v EXCEPT !.sink = "close", !.ended = TRUE, !.algorithms = FALSE]
  OBVIOUS
<1>11. t = ProcessClose(r)
  <2>1. ProcessClose(r) =
            ClearAlgorithms([v EXCEPT !.sink = "close", !.ended = TRUE,
                                      !.skipped = @ \/ ~r.algorithms])
    BY <1>4, <1>6, <1>9 DEF ProcessClose
  <2>2. (v.skipped \/ ~r.algorithms) = v.skipped
    BY <1>1, <1>9
  <2>3. [v EXCEPT !.sink = "close", !.ended = TRUE, !.skipped = @ \/ ~r.algorithms]
            = [v EXCEPT !.sink = "close", !.ended = TRUE]
    BY <1>7, <2>2 DEF WStates
  <2> QED BY <1>7, <1>10, <2>1, <2>3 DEF ClearAlgorithms, WStates
<1>12. /\ t \in WStates /\ t.sink = "close" /\ t.ended /\ ~t.algorithms
       /\ SameState(v, t) /\ SameWriter(v, t) /\ SamePromises(v, t) /\ SameQueue(v, t)
       /\ SameCalls(v, t) /\ SameFlags(v, t) /\ StillOk(v, t)
       /\ t.closeRequest = v.closeRequest /\ t.started = v.started
       /\ t.inFlightClose = v.inFlightClose
  BY <1>7, <1>10, ZenonT(60) DEF WStates, SameState, SameWriter, SamePromises, SameQueue, SameCalls,
                     SameFlags, StillOk
<1>13. Closes(r, t)
  BY <1>5, <1>7, <1>8, <1>12
     DEF Closes, SameState, SameWriter, SamePromises, SameQueue, SameSink, SameCalls, SameFlags,
         StillOk
<1> QED BY <1>11, <1>12, <1>13

LEMMA ClosingHolds ==
    ASSUME NEW r \in WStates, NEW t \in WStates, Ready(r), r.writeRequests = <<>>, Closes(r, t)
    PROVE  WInv(t) /\ r.written = r.accepted
<1> USE DEF Closes, SameState, SameWriter, SamePromises, SameCalls, SameFlags, StillOk
<1>1. /\ r.state = "writable" /\ r.inFlightWrite = NoChunk /\ ~r.inFlightClose /\ r.started
      /\ Always(r) /\ NoError(r) /\ Queued(r) /\ InOrder(r) /\ Resolved(r)
      /\ r.sink = "idle" /\ r.closeRequest
  BY FirstQueued DEF Ready, Open, Always, SinkCall, WStates
<1>2. /\ r.accepted \in Seq(Chunks) /\ r.written \in Seq(Chunks)
      /\ Len(r.writeRequests) = 0 /\ Len(t.queue) = 0
  BY DEF WStates
<1>3. \A c : ~Holds(r.writeRequests, c)
  BY NoneHeld
<1>4. r.written = r.accepted
  <2>1. PICK n \in Nat : n = Len(r.written)
    BY <1>2, Lengths
  <2>2. Len(r.accepted) = n /\ \A i \in 1..n : r.written[i] = r.accepted[i]
    BY <1>1, <1>2, <2>1 DEF InOrder
  <2> QED BY <1>2, <2>1, <2>2
<1>5. Owners(t)
  BY <1>1 DEF Always, Owners, Locked
<1>6. SinkCall(t)
  BY <1>1 DEF Always, SinkCall, Active, NoError
<1>7. Erring(t)
  BY <1>1 DEF Always, Erring, Over, NoError
<1>8. Requests(t)
  BY <1>1, <1>2 DEF Requests, Over, Active
<1>9. Pending(t)
  <2>1. ASSUME NEW i \in 1..Len(r.accepted)
        PROVE  r.writeP[r.accepted[i]] = "resolved"
    <3>1. r.accepted[i] \in Chunks /\ r.accepted[i] # r.inFlightWrite
      BY <1>1, <1>2, NamesAssumption, Lengths
    <3> QED BY <1>1, <1>3, <3>1 DEF Resolved
  <2> QED BY <1>1, <2>1 DEF Always, Pending, NoError
<1>10. WriterWaits(t)
  BY <1>1 DEF Always, WriterWaits, Locked, CloseQueuedOrInFlight, Active
<1>11. NothingFailed(t)
  BY <1>1 DEF Always, NothingFailed
<1>12. NoError(t) /\ Backpressure(t)
  BY <1>1 DEF NoError, Backpressure, CloseQueuedOrInFlight
<1>13. Queued(t)
  BY <1>1, <1>2 DEF Queued, Ahead
<1>14. InOrder(t) /\ Resolved(t)
  BY <1>1 DEF InOrder, Resolved
<1>15. Always(t) /\ Open(t)
  BY <1>5, <1>6, <1>7, <1>8, <1>9, <1>10, <1>11, <1>12, <1>13, <1>14 DEF Always, Open
<1>16. AtRest(t)
  BY <1>1 DEF AtRest
<1> QED BY <1>4, <1>15, <1>16 DEF WInv

\* What a step of the queue means to the sink: nothing, the end of its work, the next chunk that
\* was accepted, or close() after all that were.
NextChunk(r, t) ==
    /\ r.sink = "idle" /\ r.state = "writable" /\ ~r.ended
    /\ t.sink = "write" /\ t.state = "writable" /\ ~t.ended
    /\ t.answers = r.answers /\ t.accepted = r.accepted
    /\ Len(r.written) < Len(r.accepted)
    /\ t.written = Append(r.written, r.accepted[Len(r.written) + 1])
AfterLast(r, t) ==
    /\ r.sink = "idle" /\ r.state = "writable" /\ ~r.ended
    /\ t.sink = "close" /\ t.ended /\ SameCalls(r, t) /\ r.written = r.accepted
Advanced(r, t) ==
    /\ \A c \in Chunks : r.writeP[c] = "called" => t.writeP[c] = "called"
    /\ \/ t = r
       \/ r.state = "erroring" /\ Stopped(r, t)
       \/ NextChunk(r, t)
       \/ AfterLast(r, t)

LEMMA AdvanceHolds ==
    ASSUME NEW r \in WStates, Always(r), Open(r),
           r.started /\ r.inFlightWrite = NoChunk => Active(r) /\ ~r.inFlightClose
    PROVE  WInv(AdvanceQueueIfNeeded(r)) /\ Advanced(r, AdvanceQueueIfNeeded(r))
<1>1. CASE ~r.started \/ r.inFlightWrite # NoChunk
  <2>1. AdvanceQueueIfNeeded(r) = r
    BY <1>1 DEF AdvanceQueueIfNeeded
  <2>2. AtRest(r)
    BY <1>1 DEF AtRest, Always, SinkCall
  <2> QED BY <2>1, <2>2 DEF WInv, Advanced
<1>2. CASE r.started /\ r.inFlightWrite = NoChunk
  <2>1. /\ Active(r) /\ ~r.inFlightClose /\ ~OperationInFlight(r) /\ r.sink = "idle"
        /\ DebugAssert(r, Active(r)) = r
    BY <1>2 DEF Always, SinkCall, NothingFailed, OperationInFlight, DebugAssert, WStates, Active
  <2>2. CASE r.state = "erroring"
    <3>1. AdvanceQueueIfNeeded(r) = FinishErroring(r)
      BY <1>2, <2>1, <2>2 DEF AdvanceQueueIfNeeded
    <3>2. WInv(FinishErroring(r)) /\ Stopped(r, FinishErroring(r))
      BY <1>2, <2>1, <2>2, FinishErroringHolds
    <3> QED BY <2>2, <3>1, <3>2 DEF Advanced, Stopped
  <2>3. CASE r.state = "writable" /\ r.queue = <<>>
    <3>1. AdvanceQueueIfNeeded(r) = r
      BY <1>2, <2>1, <2>3 DEF AdvanceQueueIfNeeded
    <3>2. WInv(r)
      BY <2>3 DEF WInv, AtRest
    <3> QED BY <3>1, <3>2 DEF Advanced
  <2>4. CASE r.state = "writable" /\ r.queue # <<>>
    <3>1. Ready(r) /\ ~r.ended
      BY <1>2, <2>1, <2>4 DEF Ready, Open, NoError
    <3>2. AdvanceQueueIfNeeded(r) =
              IF r.queue[1].chunk = CloseSentinel THEN ProcessClose(r) ELSE ProcessWrite(r)
      BY <1>2, <2>1, <2>4, <3>1, FirstQueued DEF AdvanceQueueIfNeeded
    <3>3. CASE r.writeRequests # <<>>
      <4>1. PICK t \in WStates : t = ProcessWrite(r) /\ Writes(r, t)
        BY <3>1, <3>3, Writing
      <4>2. AdvanceQueueIfNeeded(r) = t
        BY <3>1, <3>2, <3>3, <4>1, FirstQueued, NamesAssumption
      <4>3. WInv(t) /\ Len(r.written) < Len(r.accepted)
            /\ r.writeRequests[1] = r.accepted[Len(r.written) + 1]
        BY <3>1, <4>1, WritingHolds
      <4>4. NextChunk(r, t)
        BY <2>1, <2>4, <3>1, <4>1, <4>3 DEF NextChunk, Writes, SameState
      <4>5. t.writeP = r.writeP
        BY <4>1 DEF Writes, SamePromises
      <4> QED BY <4>2, <4>3, <4>4, <4>5 DEF Advanced
    <3>4. CASE r.writeRequests = <<>>
      <4>1. PICK t \in WStates : t = ProcessClose(r) /\ Closes(r, t)
        BY <3>1, <3>4, Closing
      <4>2. AdvanceQueueIfNeeded(r) = t
        BY <3>1, <3>2, <3>4, <4>1, FirstQueued
      <4>3. WInv(t) /\ r.written = r.accepted
        BY <3>1, <3>4, <4>1, ClosingHolds
      <4>4. AfterLast(r, t) /\ t.writeP = r.writeP
        BY <2>1, <2>4, <3>1, <4>1, <4>3 DEF AfterLast, Closes, SamePromises
      <4> QED BY <4>2, <4>3, <4>4 DEF Advanced
    <3> QED BY <3>3, <3>4
  <2> QED BY <2>1, <2>2, <2>3, <2>4 DEF Active
<1> QED BY <1>1, <1>2 DEF WStates

-----------------------------------------------------------------------------
(* Backpressure.                                                           *)

\* writable_stream_update_backpressure, if the stream still takes chunks.
Updated(r, t) ==
    /\ SameState(r, t) /\ SameQueue(r, t) /\ SamePromises(r, t) /\ SameSink(r, t)
    /\ SameCalls(r, t) /\ t.signalled = r.signalled /\ StillOk(r, t)
    /\ t.closeRequest = r.closeRequest
    /\ t.writer = r.writer /\ t.owned = r.owned /\ t.closed = r.closed
    /\ Locked(r) /\ t.ready[r.writer] = "pending" =>
         (r.state = "writable" /\ ~CloseQueuedOrInFlight(r)) \/ r.ready[r.writer] = "pending"
    /\ r.state = "writable" => Backpressure(t)

LEMMA Updating ==
    ASSUME NEW r \in WStates, r.ok = TRUE,
           r.state = "writable" /\ ~CloseQueuedOrInFlight(r) /\ Locked(r) =>
               (r.ready[r.writer] = "pending" <=> r.backpressure)
    PROVE  LET t == UpdateBackpressureIfOpen(r) IN t \in WStates /\ Updated(r, t)
<1>1. CASE ~(~CloseQueuedOrInFlight(r) /\ r.state = "writable")
  <2>1. UpdateBackpressureIfOpen(r) = r
    BY <1>1 DEF UpdateBackpressureIfOpen
  <2>2. r.state = "writable" => Backpressure(r)
    BY <1>1 DEF Backpressure
  <2> QED
    BY <2>1, <2>2 DEF Updated, SameState, SameQueue, SamePromises, SameSink, SameCalls, StillOk
<1>2. CASE ~CloseQueuedOrInFlight(r) /\ r.state = "writable"
  <2>1. DebugAssert(r, r.state = "writable" /\ ~CloseQueuedOrInFlight(r)) = r
    BY <1>2 DEF DebugAssert, WStates
  <2>2. PICK bp \in BOOLEAN : bp = GetBackpressure(r) /\ (bp <=> r.total >= HighWaterMark)
    <3>1. PICK n \in Nat : n = r.total
      BY DEF WStates
    <3>2. (HighWaterMark - n <= 0) \in BOOLEAN /\ (HighWaterMark - n <= 0 <=> n >= HighWaterMark)
      BY ConstantsAssumption
    <3> QED BY <3>1, <3>2 DEF GetBackpressure, GetDesiredSize
  <2>3. PICK ready : ready = IF Locked(r) /\ bp # r.backpressure
                             THEN [r.ready EXCEPT ![r.writer] =
                                       IF bp THEN "pending" ELSE Settle(@, "resolved")]
                             ELSE r.ready
    OBVIOUS
  <2>4. ready \in [Writers -> Status]
    BY <2>3 DEF Locked, Settle, Status, WStates
  <2>5. PICK t : t = [r EXCEPT !.ready = ready, !.backpressure = bp]
    OBVIOUS
  <2>6. UpdateBackpressureIfOpen(r) = t
    <3>1. UpdateBackpressureIfOpen(r) =
              [(IF Locked(r) /\ bp # r.backpressure
                THEN [r EXCEPT !.ready[r.writer] =
                          IF bp THEN "pending" ELSE Settle(@, "resolved")]
                ELSE r) EXCEPT !.backpressure = bp]
      BY <1>2, <2>1, <2>2 DEF UpdateBackpressureIfOpen, UpdateBackpressure
    <3>2. CASE Locked(r) /\ bp # r.backpressure
      <4>1. UpdateBackpressureIfOpen(r) = [[r EXCEPT !.ready = ready] EXCEPT !.backpressure = bp]
        BY <2>3, <3>1, <3>2 DEF WStates
      <4> QED BY <2>5, <4>1 DEF WStates
    <3>3. CASE ~(Locked(r) /\ bp # r.backpressure)
      <4>1. UpdateBackpressureIfOpen(r) = [r EXCEPT !.backpressure = bp] /\ ready = r.ready
        BY <2>3, <3>1, <3>3
      <4> QED BY <2>5, <4>1, ZenonT(60) DEF WStates
    <3> QED BY <3>2, <3>3
  <2>7. /\ t \in WStates /\ t.ready = ready /\ t.backpressure = bp
        /\ SameState(r, t) /\ SameQueue(r, t) /\ SamePromises(r, t) /\ SameSink(r, t)
        /\ SameCalls(r, t) /\ t.signalled = r.signalled /\ StillOk(r, t)
        /\ t.closeRequest = r.closeRequest
        /\ t.writer = r.writer /\ t.owned = r.owned /\ t.closed = r.closed
    BY <2>2, <2>4, <2>5
       DEF WStates, SameState, SameQueue, SamePromises, SameSink, SameCalls, StillOk
  <2>8. Locked(r) => (ready[r.writer] = "pending" <=> bp)
    <3>1. CASE Locked(r) /\ bp # r.backpressure
      BY <2>2, <2>3, <3>1 DEF Locked, Settle, WStates
    <3>2. CASE Locked(r) /\ bp = r.backpressure
      BY <1>2, <2>3, <3>2
    <3> QED BY <3>1, <3>2
  <2>9. Backpressure(t)
    BY <2>2, <2>7, <2>8 DEF Backpressure, Locked, SameQueue
  <2> QED BY <1>2, <2>6, <2>7, <2>9 DEF Updated
<1> QED BY <1>1, <1>2


-----------------------------------------------------------------------------
(* What a step means to the sink.                                          *)

FateOf(r) == IF r.ended THEN "over" ELSE IF r.state = "writable" THEN "open" ELSE "broken"
Answers(r, t) ==
    IF r.sink = "idle" THEN t.answers = r.answers ELSE t.answers = r.answers + 1

Unseen(r, t) == t.sink = r.sink /\ SameCalls(r, t) /\ FateOf(t) = FateOf(r)
Accepts(r, t) ==
    /\ FateOf(r) = "open" /\ FateOf(t) = "open" /\ t.sink = r.sink
    /\ t.written = r.written /\ t.answers = r.answers
    /\ \E c \in Chunks : ~Holds(r.accepted, c) /\ t.accepted = Append(r.accepted, c)
Breaks(r, t) ==
    /\ FateOf(r) = "open" /\ FateOf(t) = "broken"
    /\ t.accepted = r.accepted /\ t.written = r.written
    /\ \/ t.sink = r.sink /\ t.answers = r.answers
       \/ r.sink # "idle" /\ t.sink = "idle" /\ t.answers = r.answers + 1
BeginsWrite(r, t) ==
    /\ FateOf(r) = "open" /\ FateOf(t) = "open" /\ Answers(r, t) /\ t.sink = "write"
    /\ \/ t.accepted = r.accepted
       \/ r.sink = "idle" /\ \E c \in Chunks : t.accepted = Append(r.accepted, c)
    /\ Len(r.written) < Len(t.accepted)
    /\ t.written = Append(r.written, t.accepted[Len(r.written) + 1])
BeginsClose(r, t) ==
    /\ FateOf(r) = "open" /\ FateOf(t) = "over" /\ Answers(r, t) /\ t.sink = "close"
    /\ r.written = r.accepted /\ t.accepted = r.accepted /\ t.written = r.written
BeginsAbort(r, t) ==
    /\ FateOf(r) \in {"open", "broken"} /\ FateOf(t) = "over" /\ Answers(r, t)
    /\ t.sink = "abort" /\ t.accepted = r.accepted /\ t.written = r.written
Returns(r, t) ==
    /\ r.sink # "idle" /\ t.sink = "idle" /\ t.answers = r.answers + 1
    /\ t.accepted = r.accepted /\ t.written = r.written /\ FateOf(t) = FateOf(r)

Serves(r, t) ==
    \/ Unseen(r, t) \/ Accepts(r, t) \/ Breaks(r, t) \/ BeginsWrite(r, t)
    \/ BeginsClose(r, t) \/ BeginsAbort(r, t) \/ Returns(r, t)

Keeps(r, t) == \A c \in Chunks : r.writeP[c] = "called" => t.writeP[c] = "called"

\* The sink's answer is there, and nothing else has been called yet.
Answered(r, t) ==
    /\ r.sink # "idle" /\ t.sink = "idle" /\ t.answers = r.answers + 1
    /\ t.accepted = r.accepted /\ t.written = r.written
    /\ t.state = r.state /\ t.ended = r.ended

LEMMA StoppedServes ==
    ASSUME NEW r, NEW p, NEW t, Active(r), Stopped(p, t), p.state = r.state,
           Unseen(r, p) \/ Answered(r, p)
    PROVE  Serves(r, t)
<1>1. CASE t.sink = p.sink /\ t.ended = p.ended
  BY <1>1 DEF Active, Stopped, Unseen, Answered, SameCalls, Serves, Breaks, Returns, FateOf
<1>2. CASE p.sink = "idle" /\ ~p.ended /\ t.sink = "abort" /\ t.ended
  BY <1>2 DEF Active, Stopped, Unseen, Answered, SameCalls, Serves, BeginsAbort, Answers, FateOf
<1> QED BY <1>1, <1>2 DEF Stopped

LEMMA AdvancedServes ==
    ASSUME NEW r, NEW p, NEW t, Active(r), Advanced(p, t), p.state = r.state,
           Unseen(r, p) \/ Answered(r, p)
    PROVE  Serves(r, t) /\ Keeps(p, t)
<1>1. Keeps(p, t)
  BY DEF Advanced, Keeps
<1>2. CASE t = p
  BY <1>1, <1>2 DEF Unseen, Answered, Serves, Returns, SameCalls, FateOf
<1>3. CASE Stopped(p, t)
  BY <1>1, <1>3, StoppedServes
<1>4. CASE NextChunk(p, t)
  BY <1>1, <1>4 DEF NextChunk, Unseen, Answered, Serves, BeginsWrite, Answers, SameCalls, FateOf
<1>5. CASE AfterLast(p, t)
  BY <1>1, <1>5 DEF AfterLast, Unseen, Answered, Serves, BeginsClose, Answers, SameCalls, FateOf
<1> QED BY <1>1, <1>2, <1>3, <1>4, <1>5 DEF Advanced

-----------------------------------------------------------------------------
(* Writers come and go.                                                    *)

\* All but the writer is as it was.
Alike(r, t) ==
    /\ SameState(r, t) /\ SameQueue(r, t) /\ SamePromises(r, t) /\ SameSink(r, t)
    /\ SameCalls(r, t) /\ SameFlags(r, t) /\ StillOk(r, t) /\ t.closeRequest = r.closeRequest

LEMMA AlikeHolds ==
    ASSUME NEW r \in WStates, WInv(r), NEW t \in WStates, Alike(r, t)
    PROVE  /\ SinkCall(t) /\ Erring(t) /\ Requests(t) /\ Pending(t) /\ NothingFailed(t)
           /\ r.state = "writable" => NoError(t) /\ Queued(t) /\ InOrder(t) /\ Resolved(t)
           /\ AtRest(t) /\ Serves(r, t) /\ Keeps(r, t)
<1> USE DEF Alike, SameState, SameQueue, SamePromises, SameSink, SameCalls, SameFlags, StillOk
<1>1. SinkCall(t) /\ Erring(t) /\ NothingFailed(t)
  BY DEF WInv, Always, SinkCall, Erring, NothingFailed, Active, Over
<1>2. Requests(t)
  BY DEF WInv, Always, Requests, Over, Active, Holds
<1>3. Pending(t)
  BY DEF WInv, Always, Pending, Holds
<1>4. ASSUME r.state = "writable"
      PROVE  NoError(t) /\ Queued(t) /\ InOrder(t) /\ Resolved(t)
  <2>1. NoError(r) /\ Queued(r) /\ InOrder(r) /\ Resolved(r)
    BY <1>4 DEF WInv, Open
  <2>2. NoError(t)
    BY <2>1 DEF NoError
  <2>3. Queued(t)
    BY <2>1 DEF Queued, Ahead
  <2>4. InOrder(t)
    BY <2>1 DEF InOrder
  <2>5. Resolved(t)
    BY <2>1 DEF Resolved, Holds
  <2> QED BY <2>2, <2>3, <2>4, <2>5
<1>5. AtRest(t)
  BY DEF WInv, AtRest
<1>6. Serves(r, t) /\ Keeps(r, t)
  BY DEF Serves, Unseen, FateOf, Keeps
<1> QED BY <1>1, <1>2, <1>3, <1>4, <1>5, <1>6

LEMMA SettingUpWriter ==
    ASSUME NEW r \in WStates, WInv(r), NEW w \in Writers, r.owned[w] = "never", ~Locked(r)
    PROVE  LET t == SetUpWriter(r, w) IN WInv(t) /\ Serves(r, t) /\ Keeps(r, t)
<1>1. PICK ready : ready = CASE r.state = "writable" /\ ~CloseQueuedOrInFlight(r) /\ r.backpressure
                                    -> "pending"
                             [] r.state \in {"erroring", "errored"} -> "rejected"
                             [] OTHER -> "resolved"
  OBVIOUS
<1>2. PICK closed : closed = CASE r.state \in {"writable", "erroring"} -> "pending"
                               [] r.state = "closed" -> "resolved"
                               [] r.state = "errored" -> "rejected"
  OBVIOUS
<1>3. /\ ready \in Status /\ closed \in Status
      /\ ready = "pending" <=> r.state = "writable" /\ ~CloseQueuedOrInFlight(r) /\ r.backpressure
      /\ closed = "pending" <=> Active(r)
  <2>1. ready \in Status /\ (ready = "pending" <=>
            r.state = "writable" /\ ~CloseQueuedOrInFlight(r) /\ r.backpressure)
    BY <1>1 DEF Status
  <2>2. closed \in Status /\ (closed = "pending" <=> Active(r))
    BY <1>2 DEF Status, Active, WStates
  <2> QED BY <2>1, <2>2
<1>4. PICK owned, readys, closeds :
         /\ owned = [r.owned EXCEPT ![w] = "yes"] /\ readys = [r.ready EXCEPT ![w] = ready]
         /\ closeds = [r.closed EXCEPT ![w] = closed]
  OBVIOUS
<1>5. /\ owned \in [Writers -> {"never", "yes", "no"}] /\ owned[w] = "yes"
      /\ \A x \in Writers : x # w => owned[x] = r.owned[x]
  BY <1>4 DEF WStates
<1>6. readys \in [Writers -> Status] /\ readys[w] = ready
  BY <1>3, <1>4 DEF WStates
<1>7. closeds \in [Writers -> Status] /\ closeds[w] = closed
  BY <1>3, <1>4 DEF WStates
<1>8. PICK t : t = [r EXCEPT !.writer = w, !.owned = owned, !.ready = readys, !.closed = closeds]
  OBVIOUS
<1>9. t = SetUpWriter(r, w)
  BY <1>1, <1>2, <1>4, <1>8 DEF SetUpWriter, WStates
<1>10. /\ t \in WStates /\ t.writer = w /\ t.owned = owned /\ t.ready = readys
       /\ t.closed = closeds
       /\ Alike(r, t)
  BY <1>5, <1>6, <1>7, <1>8
     DEF WStates, Alike, SameState, SameQueue, SamePromises, SameSink, SameCalls, SameFlags, StillOk
<1>11. /\ SinkCall(t) /\ Erring(t) /\ Requests(t) /\ Pending(t) /\ NothingFailed(t)
       /\ r.state = "writable" => NoError(t) /\ Queued(t) /\ InOrder(t) /\ Resolved(t)
       /\ AtRest(t) /\ Serves(r, t) /\ Keeps(r, t)
  BY <1>10, AlikeHolds
<1>12. /\ t.state = r.state /\ t.closeRequest = r.closeRequest /\ t.total = r.total
       /\ t.inFlightClose = r.inFlightClose /\ t.backpressure = r.backpressure
  BY <1>10 DEF Alike, SameState, SameQueue, SameSink, SameFlags
<1>13. Owners(t)
  <2>1. \A x \in Writers : r.owned[x] # "yes"
    BY NamesAssumption DEF WInv, Always, Owners, Locked
  <2> QED BY <1>5, <1>10, <2>1 DEF Owners
<1>14. WriterWaits(t)
  BY <1>3, <1>6, <1>7, <1>10, <1>12 DEF WriterWaits, CloseQueuedOrInFlight, Active
<1>15. r.state = "writable" => Backpressure(t)
  BY <1>3, <1>6, <1>10, <1>12 DEF WInv, Open, Backpressure, CloseQueuedOrInFlight
<1>16. WInv(t)
  BY <1>10, <1>11, <1>12, <1>13, <1>14, <1>15 DEF WInv, Always, Open
<1> QED BY <1>9, <1>11, <1>16

LEMMA Releasing ==
    ASSUME NEW r \in WStates, WInv(r), NEW w \in Writers, r.owned[w] = "yes"
    PROVE  LET t == [EnsureClosedRejected(EnsureReadyRejected(r, w), w) EXCEPT
                         !.writer = NoWriter, !.owned[w] = "no"]
           IN WInv(t) /\ Serves(r, t) /\ Keeps(r, t)
<1>1. PICK owned, ready, closed :
         /\ owned = [r.owned EXCEPT ![w] = "no"] /\ ready = [r.ready EXCEPT ![w] = "rejected"]
         /\ closed = [r.closed EXCEPT ![w] = "rejected"]
  OBVIOUS
<1>2. /\ owned \in [Writers -> {"never", "yes", "no"}] /\ owned[w] = "no"
      /\ \A x \in Writers : x # w => owned[x] = r.owned[x]
  BY <1>1 DEF WStates
<1>3. ready \in [Writers -> Status] /\ closed \in [Writers -> Status]
  BY <1>1 DEF WStates, Status
<1>4. PICK t : t = [r EXCEPT !.writer = NoWriter, !.owned = owned, !.ready = ready,
                             !.closed = closed]
  OBVIOUS
<1>5. t = [EnsureClosedRejected(EnsureReadyRejected(r, w), w) EXCEPT
               !.writer = NoWriter, !.owned[w] = "no"]
  BY <1>1, <1>4 DEF EnsureClosedRejected, EnsureReadyRejected, WStates
<1>6. /\ t \in WStates /\ t.writer = NoWriter /\ t.owned = owned
      /\ Alike(r, t)
  BY <1>2, <1>3, <1>4
     DEF WStates, Alike, SameState, SameQueue, SamePromises, SameSink, SameCalls, SameFlags, StillOk
<1>7. /\ SinkCall(t) /\ Erring(t) /\ Requests(t) /\ Pending(t) /\ NothingFailed(t)
      /\ r.state = "writable" => NoError(t) /\ Queued(t) /\ InOrder(t) /\ Resolved(t)
      /\ AtRest(t) /\ Serves(r, t) /\ Keeps(r, t)
  BY <1>6, AlikeHolds
<1>8. /\ t.state = r.state /\ t.closeRequest = r.closeRequest /\ t.total = r.total
      /\ t.inFlightClose = r.inFlightClose /\ t.backpressure = r.backpressure
  BY <1>6 DEF Alike, SameState, SameQueue, SameSink, SameFlags
<1>9. Owners(t) /\ WriterWaits(t)
  BY <1>2, <1>6 DEF WInv, Always, Owners, WriterWaits, Locked
<1>10. r.state = "writable" => Backpressure(t)
  BY <1>6, <1>8 DEF WInv, Open, Backpressure, CloseQueuedOrInFlight, Locked
<1>11. WInv(t)
  BY <1>6, <1>7, <1>8, <1>9, <1>10 DEF WInv, Always, Open
<1> QED BY <1>5, <1>7, <1>11

-----------------------------------------------------------------------------
(* Writes.                                                                 *)

KeepsBut(c, r, t) == \A x \in Chunks : x # c /\ r.writeP[x] = "called" => t.writeP[x] = "called"
NotYet(r, c) == r.writeP[c] \in {"none", "called"}

LEMMA NotYetHeld ==
    ASSUME NEW r \in WStates, Pending(r), NEW c \in Chunks, NotYet(r, c)
    PROVE  c # r.inFlightWrite /\ ~Holds(r.writeRequests, c) /\ ~Holds(r.accepted, c)
<1>1. r.writeP[c] # "pending"
  BY DEF NotYet
<1>2. c # r.inFlightWrite /\ ~Holds(r.writeRequests, c)
  BY <1>1 DEF Pending
<1>3. \A i \in 1..Len(r.accepted) : r.accepted[i] # c
  BY DEF Pending, NotYet
<1> QED BY <1>2, <1>3 DEF Holds

LEMMA UnseenAfter ==
    ASSUME NEW r, NEW p, NEW t, Serves(r, p), Unseen(p, t)
    PROVE  Serves(r, t)
<1>1. /\ t.sink = p.sink /\ t.answers = p.answers /\ t.accepted = p.accepted
      /\ t.written = p.written /\ FateOf(t) = FateOf(p)
  BY DEF Unseen, SameCalls
<1>2. CASE Unseen(r, p)
  BY <1>1, <1>2 DEF Serves, Unseen, SameCalls
<1>3. CASE Accepts(r, p)
  BY <1>1, <1>3 DEF Serves, Accepts
<1>4. CASE Breaks(r, p)
  BY <1>1, <1>4 DEF Serves, Breaks
<1>5. CASE BeginsWrite(r, p)
  BY <1>1, <1>5 DEF Serves, BeginsWrite, Answers
<1>6. CASE BeginsClose(r, p)
  BY <1>1, <1>6 DEF Serves, BeginsClose, Answers
<1>7. CASE BeginsAbort(r, p)
  BY <1>1, <1>7 DEF Serves, BeginsAbort, Answers
<1>8. CASE Returns(r, p)
  BY <1>1, <1>8 DEF Serves, Returns
<1> QED BY <1>2, <1>3, <1>4, <1>5, <1>6, <1>7, <1>8 DEF Serves

\* A write that is called, or refused, changes its promise and nothing else.
LEMMA Settling ==
    ASSUME NEW r \in WStates, WInv(r), NEW c \in Chunks, NotYet(r, c),
           NEW how \in {"called", "rejected"}
    PROVE  LET t == [r EXCEPT !.writeP[c] = how]
           IN WInv(t) /\ Unseen(r, t) /\ KeepsBut(c, r, t) /\ t.writeP[c] = how
<1>1. PICK writeP : writeP = [r.writeP EXCEPT ![c] = how]
  OBVIOUS
<1>2. /\ writeP \in [Chunks -> Status] /\ writeP[c] = how
      /\ \A x \in Chunks : x # c => writeP[x] = r.writeP[x]
  BY <1>1 DEF WStates, Status
<1>3. PICK t : t = [r EXCEPT !.writeP = writeP]
  OBVIOUS
<1>4. t = [r EXCEPT !.writeP[c] = how]
  BY <1>1, <1>3 DEF WStates
<1>5. /\ t \in WStates /\ t.writeP = writeP
      /\ SameState(r, t) /\ SameWriter(r, t) /\ SameQueue(r, t) /\ SameSink(r, t)
      /\ SameCalls(r, t) /\ SameFlags(r, t) /\ StillOk(r, t) /\ t.closeRequest = r.closeRequest
      /\ t.closeP = r.closeP /\ t.abortP = r.abortP
  BY <1>2, <1>3 DEF WStates, SameState, SameWriter, SameQueue, SameSink, SameCalls, SameFlags,
                    StillOk
<1>6. Pending(r) /\ c # r.inFlightWrite /\ ~Holds(r.writeRequests, c) /\ ~Holds(r.accepted, c)
  BY NotYetHeld DEF WInv, Always
<1> USE DEF SameState, SameWriter, SameQueue, SameSink, SameCalls, SameFlags, StillOk
<1>7. Owners(t) /\ SinkCall(t) /\ Erring(t) /\ NothingFailed(t)
  BY <1>5 DEF WInv, Always, Owners, SinkCall, Erring, NothingFailed, Active, Over, Locked
<1>8. Requests(t)
  BY <1>5 DEF WInv, Always, Requests, Over, Active, Holds
<1>9. WriterWaits(t)
  BY <1>5 DEF WInv, Always, WriterWaits, Locked, CloseQueuedOrInFlight, Active
<1>10. \A i \in 1..Len(r.accepted) : r.accepted[i] \in Chunks /\ r.accepted[i] # c
  BY <1>6 DEF Holds, WStates
<1>11. Pending(t)
  <2>1. \A x \in Chunks : t.writeP[x] = "pending" <=> x = t.inFlightWrite \/ Holds(t.writeRequests, x)
    BY <1>2, <1>5, <1>6 DEF Pending
  <2>2. \A i \in 1..Len(r.accepted) : t.writeP[r.accepted[i]] = r.writeP[r.accepted[i]]
    BY <1>2, <1>5, <1>10
  <2> QED BY <1>5, <1>6, <2>1, <2>2 DEF Pending
<1>12. Open(t)
  <2>1. ASSUME r.state = "writable"
        PROVE  NoError(t) /\ Queued(t) /\ InOrder(t) /\ Resolved(t) /\ Backpressure(t)
    <3>1. NoError(r) /\ Queued(r) /\ InOrder(r) /\ Resolved(r) /\ Backpressure(r)
      BY <2>1 DEF WInv, Open
    <3>2. NoError(t)
      BY <1>5, <3>1 DEF NoError
    <3>3. Queued(t)
      BY <1>5, <3>1 DEF Queued, Ahead
    <3>4. InOrder(t)
      BY <1>5, <3>1 DEF InOrder
    <3>5. Resolved(t)
      BY <1>2, <1>5, <1>10, <3>1 DEF Resolved
    <3>6. Backpressure(t)
      BY <1>5, <3>1 DEF Backpressure, CloseQueuedOrInFlight, Locked
    <3> QED BY <3>2, <3>3, <3>4, <3>5, <3>6
  <2> QED BY <1>5, <2>1 DEF Open
<1>13. AtRest(t)
  BY <1>5 DEF WInv, AtRest
<1>14. WInv(t)
  BY <1>5, <1>7, <1>8, <1>9, <1>11, <1>12, <1>13 DEF WInv, Always
<1>15. Unseen(r, t) /\ KeepsBut(c, r, t)
  BY <1>2, <1>5 DEF Unseen, FateOf, KeepsBut
<1> QED BY <1>2, <1>4, <1>5, <1>14, <1>15

\* writable_stream_add_write_request.
Joins(c, r, u) ==
    /\ u.writeP = [r.writeP EXCEPT ![c] = "pending"]
    /\ u.writeRequests = Append(r.writeRequests, c)
    /\ u.inFlightWrite = r.inFlightWrite /\ u.written = r.written /\ u.answers = r.answers
    /\ SameState(r, u) /\ SameWriter(r, u) /\ SameSink(r, u) /\ SameFlags(r, u) /\ StillOk(r, u)
    /\ u.closeRequest = r.closeRequest /\ u.closeP = r.closeP /\ u.abortP = r.abortP

LEMMA JoinsAlways ==
    ASSUME NEW r \in WStates, NEW u \in WStates, Always(r), r.state = "writable",
           ~CloseQueuedOrInFlight(r), NEW c \in Chunks, NotYet(r, c), Joins(c, r, u),
           u.accepted = r.accepted \/ u.accepted = Append(r.accepted, c),
           r.queue # <<>> => u.queue # <<>>
    PROVE  Always(u)
<1> USE DEF Joins, SameState, SameWriter, SameSink, SameFlags, StillOk
<1>1. c # r.inFlightWrite /\ ~Holds(r.writeRequests, c) /\ ~Holds(r.accepted, c)
  BY NotYetHeld DEF Always
<1>2. r.writeRequests \in Seq(Chunks) /\ r.accepted \in Seq(Chunks) /\ r.writeP \in [Chunks -> Status]
  BY DEF WStates
<1>3. PICK k, a \in Nat : k = Len(r.writeRequests) /\ a = Len(r.accepted)
  BY <1>2, Lengths
<1>4. /\ Len(u.writeRequests) = k + 1 /\ u.writeRequests[k + 1] = c
      /\ \A i \in 1..k : u.writeRequests[i] = r.writeRequests[i]
  BY <1>2, <1>3, AppendOf
<1>5. \A i \in 1..k + 1 : i \in 1..k \/ i = k + 1
  BY <1>3
<1>6. k + 1 \in 1..k + 1 /\ \A i \in 1..k : i \in 1..k + 1
  BY <1>3
<1>7. \A x : Holds(u.writeRequests, x) <=> x = c \/ Holds(r.writeRequests, x)
  <2>1. ASSUME NEW x, NEW i \in 1..k + 1, u.writeRequests[i] = x
        PROVE  x = c \/ Holds(r.writeRequests, x)
    BY <1>3, <1>4, <1>5, <2>1 DEF Holds
  <2>2. ASSUME NEW x, x = c \/ Holds(r.writeRequests, x)
        PROVE  Holds(u.writeRequests, x)
    BY <1>3, <1>4, <1>6, <2>2 DEF Holds
  <2> QED BY <1>4, <2>1, <2>2 DEF Holds
<1>8. u.writeP[c] = "pending" /\ \A x \in Chunks : x # c => u.writeP[x] = r.writeP[x]
  BY <1>2
<1>9. Owners(u) /\ SinkCall(u) /\ Erring(u) /\ NothingFailed(u)
  BY DEF Always, Owners, SinkCall, Erring, NothingFailed, Active, Over, Locked
<1>10. WriterWaits(u)
  BY DEF Always, WriterWaits, Locked, CloseQueuedOrInFlight, Active
<1>11. Requests(u)
  <2>1. \A i, j \in 1..k : r.writeRequests[i] = r.writeRequests[j] => i = j
    BY <1>3 DEF Always, Requests
  <2>2. \A i \in 1..k : r.writeRequests[i] # c
    BY <1>1, <1>3 DEF Holds
  <2>3. ASSUME NEW i \in 1..k + 1, NEW j \in 1..k + 1, u.writeRequests[i] = u.writeRequests[j]
        PROVE  i = j
    BY <1>4, <1>5, <2>1, <2>2, <2>3
  <2>4. u.inFlightWrite # NoChunk => u.queue # <<>> /\ ~Holds(u.writeRequests, u.inFlightWrite)
    BY <1>1, <1>7 DEF Always, Requests
  <2>5. ~u.closeRequest /\ ~u.inFlightClose /\ ~Over(u)
    BY DEF CloseQueuedOrInFlight, Over
  <2> QED BY <1>4, <2>3, <2>4, <2>5 DEF Requests
<1>12. Pending(u)
  <2>1. \A x \in Chunks : u.writeP[x] = "pending" <=> x = u.inFlightWrite \/ Holds(u.writeRequests, x)
    BY <1>1, <1>7, <1>8 DEF Always, Pending
  <2>2. ASSUME NEW i \in 1..Len(u.accepted)
        PROVE  u.writeP[u.accepted[i]] \notin {"none", "called"}
    <3>1. CASE u.accepted[i] = c
      BY <1>8, <3>1
    <3>2. CASE u.accepted[i] # c
      <4>1. i \in 1..a /\ u.accepted[i] = r.accepted[i]
        <5>1. CASE u.accepted = r.accepted
          BY <1>3, <5>1
        <5>2. CASE u.accepted = Append(r.accepted, c)
          <6>1. /\ Len(u.accepted) = a + 1 /\ u.accepted[a + 1] = c
                /\ \A j \in 1..a : u.accepted[j] = r.accepted[j]
            BY <1>2, <1>3, <5>2, AppendOf
          <6>2. i \in 1..a + 1 /\ i # a + 1
            BY <3>2, <6>1
          <6>3. i \in 1..a
            BY <1>3, <6>2
          <6> QED BY <6>1, <6>3
        <5> QED BY <5>1, <5>2
      <4>2. r.accepted[i] \in Chunks /\ r.writeP[r.accepted[i]] \notin {"none", "called"}
        BY <1>2, <1>3, <4>1, Lengths DEF Always, Pending
      <4> QED BY <1>8, <3>2, <4>1, <4>2
    <3> QED BY <3>1, <3>2
  <2>3. u.closeP # "pending" /\ (u.abortP = "pending" => u.pendingAbort # "none" \/ u.sink = "abort")
    BY DEF Always, Pending, CloseQueuedOrInFlight
  <2> QED BY <2>1, <2>2, <2>3 DEF Pending, CloseQueuedOrInFlight
<1> QED BY <1>9, <1>10, <1>11, <1>12 DEF Always

LEMMA JoinsOpen ==
    ASSUME NEW r \in WStates, NEW u \in WStates, Always(r), Open(r), r.state = "writable",
           ~CloseQueuedOrInFlight(r), NEW c \in Chunks, NotYet(r, c), Joins(c, r, u),
           u.accepted = Append(r.accepted, c),
           NEW item \in Items, item.chunk = c, u.queue = Append(r.queue, item)
    PROVE  NoError(u) /\ Queued(u) /\ InOrder(u) /\ Resolved(u) /\ Len(u.written) # Len(u.accepted)
<1> USE DEF Joins, SameState, SameSink
<1>1. NoError(r) /\ Queued(r) /\ InOrder(r) /\ Resolved(r)
  BY DEF Open
<1>2. /\ r.writeRequests \in Seq(Chunks) /\ r.accepted \in Seq(Chunks) /\ r.written \in Seq(Chunks)
      /\ r.writeP \in [Chunks -> Status] /\ r.queue \in Seq(Items)
  BY DEF WStates
<1>3. PICK k, a, q, n, h \in Nat :
         /\ k = Len(r.writeRequests) /\ a = Len(r.accepted) /\ q = Len(r.queue)
         /\ n = Len(r.written) /\ h = Ahead(r)
  BY <1>2, Lengths DEF Ahead
<1>4. /\ Len(u.writeRequests) = k + 1 /\ u.writeRequests[k + 1] = c
      /\ \A i \in 1..k : u.writeRequests[i] = r.writeRequests[i]
  BY <1>2, <1>3, AppendOf
<1>5. /\ Len(u.accepted) = a + 1 /\ u.accepted[a + 1] = c
      /\ \A i \in 1..a : u.accepted[i] = r.accepted[i]
  BY <1>2, <1>3, AppendOf
<1>6. /\ Len(u.queue) = q + 1 /\ u.queue[q + 1] = item
      /\ \A i \in 1..q : u.queue[i] = r.queue[i]
  BY <1>2, <1>3, AppendOf
<1>7. Ahead(u) = h /\ ~r.closeRequest /\ ~u.closeRequest
  BY <1>3 DEF Ahead, CloseQueuedOrInFlight
<1>8. q = h + k /\ a = n + k
  BY <1>1, <1>3, <1>7 DEF Queued, InOrder
<1>9. /\ \A i \in 1..k + 1 : i \in 1..k \/ i = k + 1
      /\ q + 1 = h + (k + 1) /\ \A i \in 1..k : h + i \in 1..q
      /\ a + 1 = n + (k + 1) /\ n # a + 1
      /\ \A i \in 1..n : i \in 1..a
      /\ \A i \in 1..k : n + i \in 1..a
  <2>1. n \in Nat /\ k \in Nat /\ a \in Nat /\ q \in Nat /\ h \in Nat
    BY <1>3
  <2>2. q + 1 = h + (k + 1) /\ \A i \in 1..k : h + i \in 1..q
    BY ONLY <1>8, <2>1, Placing
  <2>3. /\ a + 1 = n + (k + 1) /\ n # a + 1
        /\ \A i \in 1..n : i \in 1..a
        /\ \A i \in 1..k : n + i \in 1..a
    BY ONLY <1>8, <2>1, Placing
  <2> QED BY <2>1, <2>2, <2>3
<1>10. NoError(u)
  BY <1>1 DEF NoError
<1>11. Queued(u)
  <2>1. u.inFlightWrite # NoChunk => u.queue[1].chunk = u.inFlightWrite
    <3>1. u.inFlightWrite # NoChunk => h = 1 /\ r.queue[1].chunk = u.inFlightWrite
      BY <1>1, <1>3 DEF Queued, Ahead
    <3>2. h = 1 => 1 \in 1..q
      BY <1>3, <1>8
    <3> QED BY <1>6, <3>1, <3>2
  <2>2. ASSUME NEW i \in 1..k + 1
        PROVE  u.queue[h + i].chunk = u.writeRequests[i]
    <3>1. CASE i = k + 1
      <4>1. h + i = q + 1
        BY <3>1, <1>9
      <4> QED BY <1>4, <1>6, <3>1, <4>1
    <3>2. CASE i \in 1..k
      <4>1. h + i \in 1..q
        BY <3>2, <1>9
      <4>2. r.queue[h + i].chunk = r.writeRequests[i]
        BY <1>1, <1>3, <3>2 DEF Queued
      <4> QED BY <1>4, <1>6, <3>2, <4>1, <4>2
    <3> QED BY <1>9, <3>1, <3>2
  <2>3. q + 1 = h + (k + 1)
    BY <1>9
  <2>4. Len(u.queue) = Ahead(u) + Len(u.writeRequests) + (IF u.closeRequest THEN 1 ELSE 0)
    BY <1>3, <1>4, <1>6, <1>7, <2>3
  <2> QED BY <1>4, <1>7, <2>1, <2>2, <2>4 DEF Queued
<1>12. InOrder(u)
  <2>1. \A i \in 1..n : i \in 1..a
    BY <1>9
  <2>2. ASSUME NEW i \in 1..k + 1
        PROVE  u.accepted[n + i] = u.writeRequests[i]
    <3>1. CASE i = k + 1
      <4>1. n + i = a + 1
        BY <3>1, <1>9
      <4> QED BY <1>4, <1>5, <3>1, <4>1
    <3>2. CASE i \in 1..k
      <4>1. n + i \in 1..a
        BY <3>2, <1>9
      <4>2. r.accepted[n + i] = r.writeRequests[i]
        BY <1>1, <1>3, <3>2 DEF InOrder
      <4> QED BY <1>4, <1>5, <3>2, <4>1, <4>2
    <3> QED BY <1>9, <3>1, <3>2
  <2>3. Len(u.accepted) = Len(u.written) + Len(u.writeRequests)
    <3>1. a + 1 = n + (k + 1)
      BY <1>9
    <3> QED BY <1>3, <1>4, <1>5, <3>1
  <2>4. \A i \in 1..Len(u.written) : u.written[i] = u.accepted[i]
    BY <1>1, <1>3, <1>5, <2>1 DEF InOrder
  <2> QED BY <1>3, <1>4, <2>2, <2>3, <2>4 DEF InOrder
<1>13. Resolved(u)
  <2>1. k + 1 \in 1..k + 1 /\ \A i \in 1..k : i \in 1..k + 1
    BY <1>3
  <2>2. \A x : x = c \/ Holds(r.writeRequests, x) => Holds(u.writeRequests, x)
    BY <1>3, <1>4, <2>1 DEF Holds
  <2>3. \A x \in Chunks : x # c => u.writeP[x] = r.writeP[x]
    BY <1>2
  <2>4. ASSUME NEW i \in 1..Len(u.accepted), u.accepted[i] # c
        PROVE  u.writeP[u.accepted[i]] = "resolved" \/ u.accepted[i] = u.inFlightWrite
               \/ Holds(u.writeRequests, u.accepted[i])
    <3>1. i \in 1..a /\ u.accepted[i] = r.accepted[i] /\ r.accepted[i] \in Chunks
      BY <1>2, <1>3, <1>5, <2>4, Lengths
    <3>2. r.writeP[r.accepted[i]] = "resolved" \/ r.accepted[i] = r.inFlightWrite
          \/ Holds(r.writeRequests, r.accepted[i])
      BY <1>1, <1>3, <3>1 DEF Resolved
    <3> QED BY <2>2, <2>3, <2>4, <3>1, <3>2
  <2> QED BY <2>2, <2>4 DEF Resolved
<1>14. Len(u.written) # Len(u.accepted)
  <2>1. n # a + 1
    BY <1>9
  <2> QED BY <1>3, <1>5, <2>1
<1> QED BY <1>10, <1>11, <1>12, <1>13, <1>14

LEMMA UpdatedHolds ==
    ASSUME NEW p \in WStates, NEW t \in WStates, Always(p), Updated(p, t),
           p.state = "writable" => NoError(p) /\ Queued(p) /\ InOrder(p) /\ Resolved(p)
    PROVE  Always(t) /\ Open(t)
<1> USE DEF Updated, SameState, SameQueue, SamePromises, SameSink, SameCalls, StillOk
<1>1. Owners(t)
  BY DEF Always, Owners, Locked
<1>2. SinkCall(t) /\ Erring(t) /\ NothingFailed(t)
  BY DEF Always, SinkCall, Erring, NothingFailed, Active, Over
<1>3. Requests(t)
  BY DEF Always, Requests, Over, Active, Holds
<1>4. Pending(t)
  BY DEF Always, Pending, Holds
<1>5. WriterWaits(t)
  BY DEF Always, WriterWaits, Locked, CloseQueuedOrInFlight, Active
<1>6. ASSUME p.state = "writable"
      PROVE  NoError(t) /\ Queued(t) /\ InOrder(t) /\ Resolved(t)
  <2>1. NoError(t)
    BY <1>6 DEF NoError
  <2>2. Queued(t)
    BY <1>6 DEF Queued, Ahead
  <2>3. InOrder(t)
    BY <1>6 DEF InOrder
  <2>4. Resolved(t)
    BY <1>6 DEF Resolved, Holds
  <2> QED BY <2>1, <2>2, <2>3, <2>4
<1> QED BY <1>1, <1>2, <1>3, <1>4, <1>5, <1>6 DEF Always, Open

LEMMA AddingWriteRequest ==
    ASSUME NEW r \in WStates, r.ok = TRUE, r.state = "writable", Locked(r), NEW c \in Chunks
    PROVE  LET u == AddWriteRequest(r, c)
           IN u \in WStates /\ Joins(c, r, u) /\ u.accepted = r.accepted
              /\ u.queue = r.queue /\ u.total = r.total
<1>1. DebugAssert(r, Locked(r) /\ r.state = "writable") = r
  BY DEF DebugAssert, WStates
<1>2. PICK writeP, requests : writeP = [r.writeP EXCEPT ![c] = "pending"]
                              /\ requests = Append(r.writeRequests, c)
  OBVIOUS
<1>3. writeP \in [Chunks -> Status] /\ requests \in Seq(Chunks)
  BY <1>2 DEF WStates, Status
<1>4. PICK u : u = [r EXCEPT !.writeP = writeP, !.writeRequests = requests]
  OBVIOUS
<1>5. u = AddWriteRequest(r, c)
  BY <1>1, <1>2, <1>4 DEF AddWriteRequest, WStates
<1>6. /\ u \in WStates /\ u.writeP = writeP /\ u.writeRequests = requests
      /\ u.inFlightWrite = r.inFlightWrite /\ u.written = r.written /\ u.answers = r.answers
      /\ SameState(r, u) /\ SameWriter(r, u) /\ SameSink(r, u) /\ SameFlags(r, u)
      /\ StillOk(r, u)
      /\ u.closeRequest = r.closeRequest /\ u.closeP = r.closeP /\ u.abortP = r.abortP
      /\ u.accepted = r.accepted /\ u.queue = r.queue /\ u.total = r.total
  BY <1>3, <1>4 DEF WStates, SameState, SameWriter, SameSink, SameFlags, StillOk
<1> QED BY <1>2, <1>5, <1>6 DEF Joins

\* controller.error(), and a size that is no size: the algorithms are cleared first.
LEMMA ControllerErrorHolds ==
    ASSUME NEW r \in WStates, Always(r), r.state = "writable",
           r.storedError = "undefined", r.pendingAbort = "none"
    PROVE  WInv(ControllerError(r)) /\ Stopped(r, ControllerError(r))
<1>1. DebugAssert(r, r.state = "writable") = r
  BY DEF Always, NothingFailed, DebugAssert, WStates
<1>2. PICK p : p = ClearAlgorithms(r)
  OBVIOUS
<1>3. /\ p \in WStates /\ p.sink = r.sink /\ p.started = r.started /\ p.ended = r.ended
      /\ p.inFlightClose = r.inFlightClose /\ p.closeRequest = r.closeRequest
      /\ SameState(r, p) /\ SameWriter(r, p) /\ SameQueue(r, p) /\ SamePromises(r, p)
      /\ SameCalls(r, p) /\ SameFlags(r, p) /\ StillOk(r, p)
  BY <1>2 DEF ClearAlgorithms, WStates, SameState, SameWriter, SameQueue, SamePromises, SameCalls,
              SameFlags, StillOk
<1> USE DEF SameState, SameWriter, SameQueue, SamePromises, SameCalls, SameFlags, StillOk
<1>4. Owners(p) /\ SinkCall(p) /\ Erring(p) /\ NothingFailed(p)
  BY <1>3 DEF Always, Owners, SinkCall, Erring, NothingFailed, Active, Over, Locked
<1>5. Requests(p)
  BY <1>3 DEF Always, Requests, Over, Active, Holds
<1>6. Pending(p)
  BY <1>3 DEF Always, Pending, Holds
<1>7. WriterWaits(p)
  BY <1>3 DEF Always, WriterWaits, Locked, CloseQueuedOrInFlight, Active
<1>8. ControllerError(r) = StartErroring(p)
  BY <1>1, <1>2 DEF ControllerError
<1>9. WInv(StartErroring(p)) /\ Stopped(p, StartErroring(p))
  BY <1>3, <1>4, <1>5, <1>6, <1>7, StartErroringHolds DEF Always
<1> QED BY <1>3, <1>8, <1>9 DEF Stopped

LEMMA ErrorIfNeededHolds ==
    ASSUME NEW r \in WStates, WInv(r)
    PROVE  LET t == ControllerErrorIfNeeded(r)
           IN WInv(t) /\ Serves(r, t) /\ Keeps(r, t) /\ t.state # "writable"
<1>1. CASE r.state = "writable"
  <2>1. PICK t : t = ControllerErrorIfNeeded(r)
    OBVIOUS
  <2>2. t = ControllerError(r) /\ Always(r) /\ NoError(r)
    BY <1>1, <2>1 DEF ControllerErrorIfNeeded, WInv, Open
  <2>3. WInv(t) /\ Stopped(r, t)
    BY <1>1, <2>2, ControllerErrorHolds DEF NoError
  <2>4. Serves(r, t)
    BY <1>1, <2>3, StoppedServes DEF Unseen, SameCalls, Active
  <2> QED BY <2>1, <2>3, <2>4 DEF Stopped, Keeps
<1>2. CASE r.state # "writable"
  BY <1>2 DEF ControllerErrorIfNeeded, Serves, Unseen, SameCalls, Keeps
<1> QED BY <1>1, <1>2

\* A write that is taken: its chunk is in both queues, or its size was no size.
LEMMA TakingWrite ==
    ASSUME NEW r \in WStates, WInv(r), NEW c \in Chunks, NotYet(r, c), NEW size \in Int,
           r.state = "writable", ~CloseQueuedOrInFlight(r), Locked(r)
    PROVE  LET t == ControllerWrite(
                        [AddWriteRequest(r, c) EXCEPT
                            !.accepted = IF size < 0 THEN @ ELSE Append(@, c)], c, size)
           IN WInv(t) /\ Serves(r, t) /\ KeepsBut(c, r, t)
<1>1. Always(r) /\ Open(r) /\ NoError(r) /\ r.ok = TRUE /\ ~Holds(r.accepted, c)
  BY NotYetHeld DEF WInv, Always, Open, NothingFailed
<1>2. PICK u \in WStates :
         /\ u = AddWriteRequest(r, c) /\ Joins(c, r, u) /\ u.accepted = r.accepted
         /\ u.queue = r.queue /\ u.total = r.total
  BY <1>1, AddingWriteRequest
<1>3. /\ u.state = "writable" /\ u.storedError = "undefined" /\ u.pendingAbort = "none"
      /\ KeepsBut(c, r, u)
  BY <1>1, <1>2 DEF Joins, SameState, NoError, KeepsBut, WStates
<1>4. CASE size < 0
  <2>1. [u EXCEPT !.accepted = IF size < 0 THEN @ ELSE Append(@, c)] = u
    BY <1>4 DEF WStates
  <2>2. Always(u)
    BY <1>1, <1>2, JoinsAlways
  <2>3. PICK t : t = ControllerError(u)
    OBVIOUS
  <2>4. WInv(t) /\ Stopped(u, t)
    BY <1>3, <2>2, <2>3, ControllerErrorHolds
  <2>5. Serves(r, t)
    <3>1. Unseen(r, u) /\ u.state = r.state
      BY <1>2, <1>3 DEF Joins, SameSink, SameCalls, Unseen, FateOf
    <3> QED BY <2>4, <3>1, StoppedServes DEF Active
  <2>6. KeepsBut(c, r, t)
    BY <1>3, <2>4 DEF KeepsBut, Stopped
  <2>7. t = ControllerWrite(u, c, size)
    BY <1>3, <1>4, <2>3 DEF ControllerWrite, ControllerErrorIfNeeded
  <2> QED BY <1>2, <2>1, <2>4, <2>5, <2>6, <2>7
<1>5. CASE ~(size < 0)
  <2>1. PICK item \in Items : item = [chunk |-> c, size |-> size]
    <3>1. size \in Nat
      BY <1>5
    <3> QED BY <3>1 DEF Items
  <2>2. PICK accepted, queue, total : /\ accepted = Append(r.accepted, c)
                                      /\ queue = Append(r.queue, item)
                                      /\ total = r.total + size
    OBVIOUS
  <2>3. accepted \in Seq(Chunks) /\ queue \in Seq(Items) /\ total \in Nat
    <3>1. accepted \in Seq(Chunks) /\ queue \in Seq(Items)
      BY <2>2 DEF WStates
    <3>2. r.total \in Nat
      BY DEF WStates
    <3> QED BY <1>5, <2>2, <3>1, <3>2
  <2>4. PICK v : v = [u EXCEPT !.accepted = accepted]
    OBVIOUS
  <2>5. v = [AddWriteRequest(r, c) EXCEPT !.accepted = IF size < 0 THEN @ ELSE Append(@, c)]
    BY <1>2, <1>5, <2>2, <2>4 DEF WStates
  <2>6. PICK p : p = [u EXCEPT !.accepted = accepted, !.queue = queue, !.total = total]
    OBVIOUS
  <2>7. p = [v EXCEPT !.queue = Append(@, [chunk |-> c, size |-> size]), !.total = @ + size]
    BY <1>2, <2>1, <2>2, <2>4, <2>6 DEF WStates
  <2>8. /\ p \in WStates /\ p.accepted = accepted /\ p.queue = queue
        /\ p.writeP = u.writeP /\ p.writeRequests = u.writeRequests
        /\ p.inFlightWrite = u.inFlightWrite /\ p.written = u.written /\ p.answers = u.answers
        /\ SameState(u, p) /\ SameWriter(u, p) /\ SameSink(u, p) /\ SameFlags(u, p)
        /\ StillOk(u, p)
        /\ p.closeRequest = u.closeRequest /\ p.closeP = u.closeP /\ p.abortP = u.abortP
    BY <2>3, <2>6 DEF WStates, SameState, SameWriter, SameSink, SameFlags, StillOk
  <2>9. Joins(c, r, p)
    BY <1>2, <2>8 DEF Joins, SameState, SameWriter, SameSink, SameFlags, StillOk
  <2>10. Always(p)
    <3>1. p.queue # <<>>
      <4>1. r.queue \in Seq(Items)
        BY DEF WStates
      <4> QED BY <2>2, <2>8, <4>1, AppendOf
    <3> QED BY <1>1, <2>2, <2>8, <2>9, <3>1, JoinsAlways
  <2>11. NoError(p) /\ Queued(p) /\ InOrder(p) /\ Resolved(p) /\ Len(p.written) # Len(p.accepted)
    <3>1. item.chunk = c /\ p.accepted = Append(r.accepted, c) /\ p.queue = Append(r.queue, item)
      BY <2>1, <2>2, <2>8
    <3> QED BY <1>1, <2>8, <2>9, <3>1, JoinsOpen
  <2>12. p.state = "writable" /\ ~CloseQueuedOrInFlight(p) /\ KeepsBut(c, r, p) /\ p.ok = TRUE
    BY <1>1, <1>3, <2>8, <2>9
       DEF Joins, SameState, SameSink, StillOk, KeepsBut, CloseQueuedOrInFlight
  <2>13. Locked(p) => (p.ready[p.writer] = "pending" <=> p.backpressure)
    BY <1>1, <2>9 DEF Open, Backpressure, Joins, SameWriter, SameFlags, Locked
  <2>14. PICK q \in WStates : q = UpdateBackpressureIfOpen(p) /\ Updated(p, q)
    BY <2>8, <2>12, <2>13, Updating
  <2>15. Always(q) /\ Open(q)
    BY <2>8, <2>10, <2>11, <2>14, UpdatedHolds
  <2>16. /\ q.state = "writable" /\ ~q.inFlightClose /\ KeepsBut(c, r, q)
         /\ q.sink = r.sink /\ q.ended = r.ended /\ q.answers = r.answers
         /\ q.written = r.written /\ q.accepted = Append(r.accepted, c) /\ q.written # q.accepted
    BY <2>2, <2>8, <2>9, <2>11, <2>12, <2>14
       DEF Updated, Joins, SameState, SameSink, SamePromises, SameCalls, KeepsBut,
           CloseQueuedOrInFlight
  <2>17. PICK t : t = AdvanceQueueIfNeeded(q)
    OBVIOUS
  <2>18. WInv(t) /\ Advanced(q, t)
    BY <2>15, <2>16, <2>17, AdvanceHolds DEF Active
  <2>19. Serves(r, t)
    <3>1. FateOf(r) = "open"
      BY <1>1 DEF NoError, CloseQueuedOrInFlight, FateOf
    <3>2. CASE t = q
      BY <1>1, <2>16, <3>1, <3>2 DEF Serves, Accepts, FateOf
    <3>3. CASE NextChunk(q, t)
      BY <2>16, <3>1, <3>3 DEF NextChunk, Serves, BeginsWrite, Answers, FateOf
    <3>4. CASE AfterLast(q, t)
      BY <2>16, <3>4 DEF AfterLast
    <3> QED BY <2>16, <2>18, <3>2, <3>3, <3>4 DEF Advanced
  <2>20. KeepsBut(c, r, t)
    BY <2>16, <2>18 DEF KeepsBut, Advanced
  <2>21. t = ControllerWrite(v, c, size)
    BY <1>5, <2>7, <2>14, <2>17 DEF ControllerWrite
  <2> QED BY <2>5, <2>18, <2>19, <2>20, <2>21
<1> QED BY <1>4, <1>5

LEMMA FinishWriteHolds ==
    ASSUME NEW r \in WStates, WInv(r), NEW c \in Chunks, NotYet(r, c), NEW size \in Int,
           NEW w \in Writers
    PROVE  LET t == FinishWrite(r, w, c, size)
           IN WInv(t) /\ Serves(r, t) /\ KeepsBut(c, r, t)
              /\ (r.state # "writable" => Unseen(r, t))
<1>1. CASE r.owned[w] # "yes" \/ r.state = "errored" \/ CloseQueuedOrInFlight(r)
           \/ r.state = "closed" \/ r.state = "erroring"
  <2>1. PICK t : t = [r EXCEPT !.writeP[c] = "rejected"]
    OBVIOUS
  <2>2. WInv(t) /\ Unseen(r, t) /\ KeepsBut(c, r, t)
    BY <2>1, Settling
  <2>3. FinishWrite(r, w, c, size) = t
    BY <1>1, <2>1 DEF FinishWrite
  <2> QED BY <2>2, <2>3 DEF Serves
<1>2. CASE ~(r.owned[w] # "yes" \/ r.state = "errored" \/ CloseQueuedOrInFlight(r)
             \/ r.state = "closed" \/ r.state = "erroring")
  <2>1. r.state = "writable" /\ ~CloseQueuedOrInFlight(r) /\ r.writer = w /\ Locked(r)
    BY <1>2, NamesAssumption DEF WStates, WInv, Always, Owners, Locked
  <2>2. PICK t : t = ControllerWrite(
                        [AddWriteRequest(r, c) EXCEPT
                            !.accepted = IF size < 0 THEN @ ELSE Append(@, c)], c, size)
    OBVIOUS
  <2>3. FinishWrite(r, w, c, size) = t
    BY <1>2, <2>2 DEF FinishWrite
  <2>4. WInv(t) /\ Serves(r, t) /\ KeepsBut(c, r, t)
    BY <2>1, <2>2, TakingWrite
  <2> QED BY <2>1, <2>3, <2>4
<1> QED BY <1>1, <1>2

\* size() threw.
LEMMA ThrowingHolds ==
    ASSUME NEW r \in WStates, WInv(r), NEW c \in Chunks, r.writeP[c] = "called", NEW w \in Writers
    PROVE  LET t == FinishWrite(ControllerErrorIfNeeded(r), w, c, 1)
           IN WInv(t) /\ Serves(r, t) /\ KeepsBut(c, r, t)
<1>1. PICK p : p = ControllerErrorIfNeeded(r)
  OBVIOUS
<1>2. WInv(p) /\ Serves(r, p) /\ Keeps(r, p) /\ p.state # "writable"
  BY <1>1, ErrorIfNeededHolds
<1>3. p \in WStates /\ NotYet(p, c)
  BY <1>2 DEF WInv, Keeps, NotYet
<1>4. PICK t : t = FinishWrite(p, w, c, 1)
  OBVIOUS
<1>5. WInv(t) /\ KeepsBut(c, p, t) /\ Unseen(p, t)
  BY <1>2, <1>3, <1>4, FinishWriteHolds
<1>6. Serves(r, t) /\ KeepsBut(c, r, t)
  BY <1>2, <1>5, UnseenAfter DEF Keeps, KeepsBut
<1> QED BY <1>1, <1>4, <1>5, <1>6

-----------------------------------------------------------------------------
(* close() and abort().                                                    *)

\* writable_stream_close, up to the queue's next step.
LEMMA AskingForClose ==
    ASSUME NEW r \in WStates, WInv(r), Active(r), ~CloseQueuedOrInFlight(r)
    PROVE  \E p \in WStates :
              /\ CloseStream(r) = AdvanceQueueIfNeeded(p)
              /\ p.closeRequest /\ p.closeP = "pending"
              /\ \E item \in Items : item.chunk = CloseSentinel /\ p.queue = Append(r.queue, item)
              /\ p.writer = r.writer /\ p.owned = r.owned /\ p.closed = r.closed
              /\ Locked(r) => p.ready[r.writer] # "pending"
              /\ p.inFlightWrite = r.inFlightWrite /\ p.writeRequests = r.writeRequests
              /\ p.writeP = r.writeP /\ p.abortP = r.abortP
              /\ SameState(r, p) /\ SameSink(r, p) /\ SameCalls(r, p) /\ SameFlags(r, p)
              /\ StillOk(r, p)
<1>1. DebugAssert(r, Active(r) /\ ~CloseQueuedOrInFlight(r)) = r
  BY DEF WInv, Always, NothingFailed, DebugAssert, WStates
<1>2. PICK ready : ready = IF Locked(r) /\ r.backpressure /\ r.state = "writable"
                           THEN [r.ready EXCEPT ![r.writer] = Settle(@, "resolved")]
                           ELSE r.ready
  OBVIOUS
<1>3. ready \in [Writers -> Status]
  BY <1>2 DEF Locked, Settle, Status, WStates
<1>4. Locked(r) => ready[r.writer] # "pending"
  <2>1. CASE Locked(r) /\ r.backpressure /\ r.state = "writable"
    BY <1>2, <2>1 DEF Locked, Settle, WStates
  <2>2. CASE Locked(r) /\ ~r.backpressure /\ r.state = "writable"
    BY <1>2, <2>2 DEF WInv, Open, Backpressure
  <2>3. CASE Locked(r) /\ r.state # "writable"
    BY <1>2, <2>3 DEF WInv, Always, WriterWaits
  <2> QED BY <2>1, <2>2, <2>3
<1>5. PICK u : u = [r EXCEPT !.closeRequest = TRUE, !.closeP = "pending", !.ready = ready]
  OBVIOUS
<1>6. CloseStream(r) = ControllerClose(u)
  <2>1. CloseStream(r) = ControllerClose(
            IF Locked(r) /\ r.backpressure /\ r.state = "writable"
            THEN [[r EXCEPT !.closeRequest = TRUE, !.closeP = "pending"]
                      EXCEPT !.ready[r.writer] = Settle(@, "resolved")]
            ELSE [r EXCEPT !.closeRequest = TRUE, !.closeP = "pending"])
    BY <1>1 DEF CloseStream
  <2>2. CASE Locked(r) /\ r.backpressure /\ r.state = "writable"
    BY <1>2, <1>5, <2>1, <2>2 DEF WStates
  <2>3. CASE ~(Locked(r) /\ r.backpressure /\ r.state = "writable")
    <3>1. u = [r EXCEPT !.closeRequest = TRUE, !.closeP = "pending"]
      BY <1>2, <1>5, <2>3 DEF WStates
    <3> QED BY <2>1, <2>3, <3>1
  <2> QED BY <2>2, <2>3
<1>7. /\ u \in WStates /\ u.closeRequest /\ u.closeP = "pending" /\ u.ready = ready
      /\ u.queue = r.queue
      /\ u.writer = r.writer /\ u.owned = r.owned /\ u.closed = r.closed
      /\ u.inFlightWrite = r.inFlightWrite /\ u.writeRequests = r.writeRequests
      /\ u.writeP = r.writeP /\ u.abortP = r.abortP
      /\ SameState(r, u) /\ SameSink(r, u) /\ SameCalls(r, u) /\ SameFlags(r, u)
      /\ StillOk(r, u)
  BY <1>3, <1>5 DEF WStates, Status, SameState, SameSink, SameCalls, SameFlags, StillOk
<1>8. PICK item \in Items : item = [chunk |-> CloseSentinel, size |-> 0]
  BY DEF Items
<1>9. PICK queue \in Seq(Items) : queue = Append(r.queue, item)
  <2>1. r.queue \in Seq(Items)
    BY DEF WStates
  <2> QED BY <1>8, <2>1, AppendOf
<1>10. PICK p : p = [u EXCEPT !.queue = queue]
  OBVIOUS
<1>11. p = [u EXCEPT !.queue = Append(@, [chunk |-> CloseSentinel, size |-> 0])]
  BY <1>7, <1>8, <1>9, <1>10 DEF WStates
<1>12. CloseStream(r) = AdvanceQueueIfNeeded(p)
  BY <1>6, <1>11 DEF ControllerClose
<1>13. /\ p \in WStates /\ p.closeRequest = u.closeRequest /\ p.closeP = u.closeP
       /\ p.ready = u.ready /\ p.queue = queue
       /\ p.writer = u.writer /\ p.owned = u.owned /\ p.closed = u.closed
       /\ p.inFlightWrite = u.inFlightWrite /\ p.writeRequests = u.writeRequests
       /\ p.writeP = u.writeP /\ p.abortP = u.abortP
       /\ SameState(u, p) /\ SameSink(u, p) /\ SameCalls(u, p) /\ SameFlags(u, p)
       /\ StillOk(u, p)
  BY <1>7, <1>9, <1>10 DEF WStates, SameState, SameSink, SameCalls, SameFlags, StillOk
<1>14. SameState(r, p) /\ SameSink(r, p) /\ SameCalls(r, p) /\ SameFlags(r, p) /\ StillOk(r, p)
  BY <1>7, <1>13 DEF SameState, SameSink, SameCalls, SameFlags, StillOk
<1>15. item.chunk = CloseSentinel
  BY <1>8
<1> QED BY <1>4, <1>7, <1>9, <1>12, <1>13, <1>14, <1>15

LEMMA CloseHolds ==
    ASSUME NEW r \in WStates, WInv(r), Active(r), ~CloseQueuedOrInFlight(r)
    PROVE  LET t == CloseStream(r) IN WInv(t) /\ Serves(r, t) /\ Keeps(r, t)
<1>1. PICK p \in WStates :
         /\ CloseStream(r) = AdvanceQueueIfNeeded(p)
         /\ p.closeRequest /\ p.closeP = "pending"
         /\ \E item \in Items : item.chunk = CloseSentinel /\ p.queue = Append(r.queue, item)
         /\ p.writer = r.writer /\ p.owned = r.owned /\ p.closed = r.closed
         /\ Locked(r) => p.ready[r.writer] # "pending"
         /\ p.inFlightWrite = r.inFlightWrite /\ p.writeRequests = r.writeRequests
         /\ p.writeP = r.writeP /\ p.abortP = r.abortP
         /\ SameState(r, p) /\ SameSink(r, p) /\ SameCalls(r, p) /\ SameFlags(r, p)
         /\ StillOk(r, p)
  BY AskingForClose
<1>2. PICK item \in Items : item.chunk = CloseSentinel /\ p.queue = Append(r.queue, item)
  BY <1>1
<1> USE DEF SameState, SameSink, SameCalls, SameFlags, StillOk
<1>3. /\ r.queue \in Seq(Items) /\ r.writeRequests \in Seq(Chunks)
      /\ ~r.closeRequest /\ ~r.inFlightClose /\ Always(r)
  BY DEF WStates, CloseQueuedOrInFlight, WInv
<1>4. PICK q, k, h \in Nat : q = Len(r.queue) /\ k = Len(r.writeRequests) /\ h = Ahead(r)
  BY <1>3, Lengths DEF Ahead
<1>5. /\ Len(p.queue) = q + 1 /\ p.queue[q + 1] = item /\ p.queue # <<>>
      /\ \A i \in 1..q : p.queue[i] = r.queue[i]
  BY <1>2, <1>3, <1>4, AppendOf
<1>6. Owners(p) /\ SinkCall(p) /\ Erring(p) /\ NothingFailed(p)
  BY <1>1, <1>3 DEF Always, Owners, SinkCall, Erring, NothingFailed, Active, Over, Locked
<1>7. Requests(p)
  BY <1>1, <1>3, <1>5 DEF Always, Requests, Over, Active, Holds
<1>8. Pending(p)
  BY <1>1, <1>3 DEF Always, Pending, Holds
<1>9. WriterWaits(p)
  BY <1>1, <1>3 DEF Always, WriterWaits, Locked, Active
<1>10. Always(p)
  BY <1>6, <1>7, <1>8, <1>9 DEF Always
<1>11. Open(p)
  <2>1. ASSUME r.state = "writable"
        PROVE  NoError(p) /\ Queued(p) /\ InOrder(p) /\ Resolved(p) /\ Backpressure(p)
    <3>1. NoError(r) /\ Queued(r) /\ InOrder(r) /\ Resolved(r)
      BY <2>1 DEF WInv, Open
    <3>2. NoError(p)
      BY <1>1, <3>1 DEF NoError
    <3>3. Queued(p)
      <4>1. Ahead(p) = h /\ q = h + k
        BY <1>1, <1>3, <1>4, <3>1 DEF Queued, Ahead
      <4>2. h = (IF p.inFlightWrite = NoChunk THEN 0 ELSE 1)
        BY <1>1, <1>4 DEF Ahead
      <4>3. /\ \A i \in 1..k : h + i \in 1..q
            /\ h = 1 => 1 \in 1..q
        <5>1. h \in Nat /\ k \in Nat /\ q \in Nat
          BY <1>4
        <5> QED BY ONLY <4>1, <5>1
      <4>4. \A i \in 1..k : p.queue[h + i].chunk = p.writeRequests[i]
        BY <1>1, <1>4, <1>5, <3>1, <4>3 DEF Queued
      <4>5. p.inFlightWrite # NoChunk => p.queue[1].chunk = p.inFlightWrite
        BY <1>1, <1>5, <3>1, <4>2, <4>3 DEF Queued
      <4>6. p.queue[Len(p.queue)].chunk = CloseSentinel
        BY <1>2, <1>5
      <4>7. Len(p.queue) = h + k + 1
        BY <1>5, <4>1
      <4> QED BY <1>1, <1>4, <4>1, <4>4, <4>5, <4>6, <4>7, ZenonT(60) DEF Queued
    <3>4. InOrder(p)
      BY <1>1, <3>1 DEF InOrder
    <3>5. Resolved(p)
      BY <1>1, <3>1 DEF Resolved, Holds
    <3>6. Backpressure(p)
      BY <1>1 DEF Backpressure, CloseQueuedOrInFlight
    <3> QED BY <3>2, <3>3, <3>4, <3>5, <3>6
  <2> QED BY <1>1, <2>1 DEF Open
<1>12. Active(p) /\ ~p.inFlightClose /\ p.state = r.state /\ Keeps(r, p) /\ Unseen(r, p)
  BY <1>1, <1>3 DEF Active, Keeps, Unseen, FateOf
<1>13. PICK t : t = AdvanceQueueIfNeeded(p)
  OBVIOUS
<1>14. WInv(t) /\ Advanced(p, t)
  BY <1>10, <1>11, <1>12, <1>13, AdvanceHolds
<1>15. Serves(r, t) /\ Keeps(r, t)
  BY <1>12, <1>14, AdvancedServes DEF Keeps
<1> QED BY <1>1, <1>13, <1>14, <1>15

\* The controller's signal is aborted.
LEMMA SignalHolds ==
    ASSUME NEW r \in WStates, WInv(r)
    PROVE  LET t == [r EXCEPT !.signalled = TRUE] IN WInv(t) /\ Serves(r, t) /\ Keeps(r, t)
<1>1. PICK t : t = [r EXCEPT !.signalled = TRUE]
  OBVIOUS
<1>2. /\ t \in WStates /\ t.backpressure = r.backpressure
      /\ SameState(r, t) /\ SameWriter(r, t) /\ SameQueue(r, t) /\ SamePromises(r, t)
      /\ SameSink(r, t) /\ SameCalls(r, t) /\ StillOk(r, t) /\ t.closeRequest = r.closeRequest
  BY <1>1 DEF WStates, SameState, SameWriter, SameQueue, SamePromises, SameSink, SameCalls, StillOk
<1> USE DEF SameState, SameWriter, SameQueue, SamePromises, SameSink, SameCalls, StillOk
<1>3. Owners(t) /\ SinkCall(t) /\ Erring(t) /\ NothingFailed(t)
  BY <1>2 DEF WInv, Always, Owners, SinkCall, Erring, NothingFailed, Active, Over, Locked
<1>4. Requests(t)
  BY <1>2 DEF WInv, Always, Requests, Over, Active, Holds
<1>5. Pending(t)
  BY <1>2 DEF WInv, Always, Pending, Holds
<1>6. WriterWaits(t)
  BY <1>2 DEF WInv, Always, WriterWaits, Locked, CloseQueuedOrInFlight, Active
<1>7. ASSUME r.state = "writable"
      PROVE  NoError(t) /\ Queued(t) /\ InOrder(t) /\ Resolved(t) /\ Backpressure(t)
  <2>1. NoError(r) /\ Queued(r) /\ InOrder(r) /\ Resolved(r) /\ Backpressure(r)
    BY <1>7 DEF WInv, Open
  <2>2. NoError(t)
    BY <1>2, <2>1 DEF NoError
  <2>3. Queued(t)
    BY <1>2, <2>1 DEF Queued, Ahead
  <2>4. InOrder(t)
    BY <1>2, <2>1 DEF InOrder
  <2>5. Resolved(t)
    BY <1>2, <2>1 DEF Resolved, Holds
  <2>6. Backpressure(t)
    BY <1>2, <2>1 DEF Backpressure, CloseQueuedOrInFlight, Locked
  <2> QED BY <2>2, <2>3, <2>4, <2>5, <2>6
<1>8. AtRest(t)
  BY <1>2 DEF WInv, AtRest
<1>9. WInv(t)
  BY <1>2, <1>3, <1>4, <1>5, <1>6, <1>7, <1>8 DEF WInv, Always, Open
<1>10. Serves(r, t) /\ Keeps(r, t)
  BY <1>2 DEF Serves, Unseen, FateOf, Keeps
<1> QED BY <1>1, <1>9, <1>10

\* The rest of writable_stream_abort.
LEMMA AbortHolds ==
    ASSUME NEW r \in WStates, WInv(r)
    PROVE  LET t == FinishAbort(r) IN WInv(t) /\ Serves(r, t) /\ Keeps(r, t)
<1>1. CASE ~Active(r) \/ r.pendingAbort # "none"
  BY <1>1 DEF FinishAbort, Serves, Unseen, SameCalls, Keeps
<1>2. CASE Active(r) /\ r.pendingAbort = "none"
  <2>1. PICK p : p = [r EXCEPT !.abortP = "pending",
                               !.pendingAbort = IF r.state = "erroring" THEN "already" ELSE "fresh"]
    OBVIOUS
  <2>a. PICK a \in {"fresh", "already"} : 
           /\ a = (IF r.state = "erroring" THEN "already" ELSE "fresh")
           /\ p = [r EXCEPT !.abortP = "pending", !.pendingAbort = a]
    BY <2>1
  <2>b. p \in WStates /\ p.pendingAbort = a
    <3>1. p = [r EXCEPT !.abortP = "pending", !.pendingAbort = a]
      BY <2>a
    <3> QED BY <3>1 DEF WStates, Status
  <2>2. /\ p \in WStates /\ p.abortP = "pending"
        /\ p.pendingAbort = (IF r.state = "erroring" THEN "already" ELSE "fresh")
        /\ p.state = r.state /\ p.storedError = r.storedError
        /\ SameWriter(r, p) /\ SameQueue(r, p) /\ SameSink(r, p) /\ SameCalls(r, p)
        /\ SameFlags(r, p) /\ StillOk(r, p) /\ p.closeRequest = r.closeRequest
        /\ p.writeP = r.writeP /\ p.closeP = r.closeP
    <3>1. p.abortP = "pending" /\ p.state = r.state /\ p.storedError = r.storedError
      BY <2>a DEF WStates
    <3>2. SameWriter(r, p) /\ SameQueue(r, p) /\ SameSink(r, p) /\ SameCalls(r, p)
      BY <2>a DEF WStates, SameWriter, SameQueue, SameSink, SameCalls
    <3>3. /\ SameFlags(r, p) /\ StillOk(r, p) /\ p.closeRequest = r.closeRequest
          /\ p.writeP = r.writeP /\ p.closeP = r.closeP
      BY <2>a DEF WStates, SameFlags, StillOk
    <3> QED BY <2>a, <2>b, <3>1, <3>2, <3>3
  <2>3. FinishAbort(r) = IF r.state = "erroring" THEN p ELSE StartErroring(p)
    BY <1>2, <2>1 DEF FinishAbort
  <2> USE DEF SameWriter, SameQueue, SameSink, SameCalls, SameFlags, StillOk
  <2>4. Owners(p) /\ NothingFailed(p)
    BY <2>2 DEF WInv, Always, Owners, NothingFailed, Locked
  <2>5. r.state = "writable" => NoError(r)
    BY DEF WInv, Open
  <2>6. SinkCall(p)
    <3>1. r.ended => r.inFlightClose
      BY <1>2, <2>5 DEF WInv, Always, AtRest, SinkCall, NoError, Active, WStates
    <3> QED BY <2>2, <3>1 DEF WInv, Always, SinkCall, Active
  <2>7. Erring(p)
    BY <1>2, <2>2, <2>5 DEF WInv, Always, Erring, Over, Active, NoError
  <2>8. Requests(p)
    BY <2>2 DEF WInv, Always, Requests, Over, Active, Holds
  <2>9. Pending(p)
    BY <2>2 DEF WInv, Always, Pending, Holds
  <2>10. WriterWaits(p)
    BY <2>2 DEF WInv, Always, WriterWaits, Locked, CloseQueuedOrInFlight, Active
  <2>11. Always(p)
    BY <2>4, <2>6, <2>7, <2>8, <2>9, <2>10 DEF Always
  <2>12. Unseen(r, p) /\ Keeps(r, p)
    BY <2>2 DEF Unseen, FateOf, Keeps
  <2>13. CASE r.state = "erroring"
    <3>1. WInv(p)
      BY <2>2, <2>11, <2>13 DEF WInv, Open, AtRest
    <3> QED BY <2>3, <2>12, <2>13, <3>1 DEF Serves
  <2>14. CASE r.state = "writable"
    <3>1. PICK t : t = StartErroring(p)
      OBVIOUS
    <3>2. WInv(t) /\ Stopped(p, t)
      BY <2>2, <2>5, <2>11, <2>14, <3>1, StartErroringHolds DEF NoError
    <3>3. Serves(r, t) /\ Keeps(r, t)
      BY <1>2, <2>2, <2>12, <3>2, StoppedServes DEF Stopped, Keeps
    <3> QED BY <2>3, <2>14, <3>1, <3>2, <3>3
  <2> QED BY <1>2, <2>13, <2>14 DEF Active
<1> QED BY <1>1, <1>2

-----------------------------------------------------------------------------
(* The sink answers.                                                       *)

LEMMA AnsweringStart ==
    ASSUME NEW r \in WStates, WInv(r), r.sink = "start"
    PROVE  LET p == [SinkAnswered(DebugAssert(r, Active(r))) EXCEPT !.started = TRUE]
           IN /\ p \in WStates /\ Always(p) /\ Open(p) /\ Answered(r, p) /\ Keeps(r, p)
              /\ Active(p) /\ ~OperationInFlight(p) /\ p.started
              /\ p.state = "writable" => p.storedError = "undefined"
<1>1. /\ DebugAssert(r, Active(r)) = r /\ Always(r) /\ Active(r)
      /\ r.inFlightWrite = NoChunk /\ ~r.inFlightClose /\ ~r.ended
  BY DEF WInv, Always, NothingFailed, SinkCall, DebugAssert, WStates
<1>2. PICK p : p = [r EXCEPT !.sink = "idle", !.answers = @ + 1, !.started = TRUE]
  OBVIOUS
<1>3. p = [SinkAnswered(DebugAssert(r, Active(r))) EXCEPT !.started = TRUE]
  BY <1>1, <1>2 DEF SinkAnswered, WStates
<1>4. PICK n \in Nat : /\ n = r.answers + 1
                     /\ p = [r EXCEPT !.sink = "idle", !.answers = n, !.started = TRUE]
  <2>1. PICK n : n = r.answers + 1
    OBVIOUS
  <2>2. n \in Nat
    BY <2>1 DEF WStates
  <2>3. p = [r EXCEPT !.sink = "idle", !.answers = n, !.started = TRUE]
    BY <1>2, <2>1 DEF WStates
  <2> QED BY <2>1, <2>2, <2>3
<1>5. /\ p \in WStates /\ p.sink = "idle" /\ p.answers = r.answers + 1 /\ p.started = TRUE
      /\ p.accepted = r.accepted /\ p.written = r.written
      /\ p.ended = r.ended /\ p.inFlightClose = r.inFlightClose /\ p.algorithms = r.algorithms
      /\ SameState(r, p) /\ SameWriter(r, p) /\ SameQueue(r, p) /\ SamePromises(r, p)
      /\ SameFlags(r, p) /\ StillOk(r, p) /\ p.closeRequest = r.closeRequest
  <2>1. p = [r EXCEPT !.sink = "idle", !.answers = n, !.started = TRUE]
    BY <1>4
  <2>2. p \in WStates
    BY <1>4, <2>1, ZenonT(60) DEF WStates
  <2>3. /\ p.sink = "idle" /\ p.answers = r.answers + 1 /\ p.started = TRUE
        /\ p.accepted = r.accepted /\ p.written = r.written
        /\ p.ended = r.ended /\ p.inFlightClose = r.inFlightClose /\ p.algorithms = r.algorithms
    BY <1>4, <2>1 DEF WStates
  <2>4. SameState(r, p) /\ SameWriter(r, p) /\ SameQueue(r, p) /\ SamePromises(r, p)
    BY <2>1 DEF WStates, SameState, SameWriter, SameQueue, SamePromises
  <2>5. SameFlags(r, p) /\ StillOk(r, p) /\ p.closeRequest = r.closeRequest
    BY <2>1 DEF WStates, SameFlags, StillOk
  <2> QED BY <2>2, <2>3, <2>4, <2>5
<1> USE DEF SameState, SameWriter, SameQueue, SamePromises, SameFlags, StillOk
<1>6. Owners(p) /\ Erring(p) /\ NothingFailed(p)
  BY <1>1, <1>5 DEF Always, Owners, Erring, NothingFailed, Over, Locked
<1>7. SinkCall(p)
  BY <1>1, <1>5 DEF Always, SinkCall, Active
<1>8. Requests(p)
  BY <1>1, <1>5 DEF Always, Requests, Over, Active, Holds
<1>9. Pending(p)
  BY <1>1, <1>5 DEF Always, Pending, Holds
<1>10. WriterWaits(p)
  BY <1>1, <1>5 DEF Always, WriterWaits, Locked, CloseQueuedOrInFlight, Active
<1>11. ASSUME r.state = "writable"
       PROVE  NoError(p) /\ Queued(p) /\ InOrder(p) /\ Resolved(p) /\ Backpressure(p)
  <2>1. NoError(r) /\ Queued(r) /\ InOrder(r) /\ Resolved(r) /\ Backpressure(r)
    BY <1>11 DEF WInv, Open
  <2>2. NoError(p)
    BY <1>5, <2>1 DEF NoError
  <2>3. Queued(p)
    BY <1>5, <2>1, QueuedSame
  <2>4. InOrder(p)
    BY <1>5, <2>1 DEF InOrder
  <2>5. Resolved(p)
    BY <1>5, <2>1 DEF Resolved, Holds
  <2>6. Backpressure(p)
    BY <1>5, <2>1 DEF Backpressure, CloseQueuedOrInFlight, Locked
  <2> QED BY <2>2, <2>3, <2>4, <2>5, <2>6
<1>12. Always(p) /\ Open(p)
  BY <1>5, <1>6, <1>7, <1>8, <1>9, <1>10, <1>11 DEF Always, Open
<1>13. Answered(r, p) /\ Keeps(r, p) /\ Active(p) /\ ~OperationInFlight(p)
  BY <1>1, <1>5 DEF Answered, Keeps, Active, OperationInFlight
<1>14. p.state = "writable" => p.storedError = "undefined"
  BY <1>5, <1>11 DEF NoError
<1> QED BY <1>3, <1>5, <1>12, <1>13, <1>14

LEMMA StartedHolds ==
    ASSUME NEW r \in WStates, WInv(r), r.sink = "start", NEW p, NEW t,
           p = [SinkAnswered(DebugAssert(r, Active(r))) EXCEPT !.started = TRUE],
           t = AdvanceQueueIfNeeded(p) \/ t = DealWithRejection(p)
    PROVE  WInv(t) /\ Serves(r, t)
<1>1. /\ p \in WStates /\ Always(p) /\ Open(p) /\ Answered(r, p)
      /\ Active(p) /\ ~OperationInFlight(p) /\ p.started
      /\ p.state = "writable" => p.storedError = "undefined"
  BY AnsweringStart
<1>2. p.state = r.state /\ Active(r) /\ ~p.inFlightClose
  BY <1>1 DEF Answered, Active, OperationInFlight
<1>3. CASE t = AdvanceQueueIfNeeded(p)
  <2>1. WInv(t) /\ Advanced(p, t)
    BY <1>1, <1>2, <1>3, AdvanceHolds
  <2> QED BY <1>1, <1>2, <2>1, AdvancedServes
<1>4. CASE t = DealWithRejection(p)
  <2>1. WInv(t) /\ Stopped(p, t)
    BY <1>1, <1>2, <1>4, DealWithRejectionHolds
  <2> QED BY <1>1, <1>2, <2>1, StoppedServes
<1> QED BY <1>3, <1>4

\* The write in flight is over: its promise is settled, and the first chunk leaves the queue if
\* it was written.
LEMMA AnsweringWrite ==
    ASSUME NEW r \in WStates, WInv(r), r.sink = "write",
           NEW how \in {"resolved", "rejected"}, NEW p \in WStates,
           p.sink = "idle", p.answers = r.answers + 1, p.inFlightWrite = NoChunk,
           p.writeP = [r.writeP EXCEPT ![r.inFlightWrite] = how],
           p.accepted = r.accepted, p.written = r.written, p.writeRequests = r.writeRequests,
           p.ended = r.ended, p.inFlightClose = r.inFlightClose, p.started = r.started,
           p.algorithms = r.algorithms \/ (r.state = "writable" /\ ~p.algorithms),
           SameState(r, p), SameWriter(r, p), StillOk(r, p),
           p.closeRequest = r.closeRequest, p.closeP = r.closeP, p.abortP = r.abortP
    PROVE  /\ Always(p) /\ Answered(r, p) /\ Active(p) /\ ~OperationInFlight(p) /\ p.started
           /\ p.state = "writable" => p.storedError = "undefined"
           /\ how = "resolved" /\ p.algorithms = r.algorithms /\ p.queue = Tail(r.queue)
              /\ r.state = "writable" =>
                   NoError(p) /\ Queued(p) /\ InOrder(p) /\ Resolved(p)
<1> USE DEF SameState, SameWriter, StillOk
<1>1. /\ Always(r) /\ Active(r) /\ r.started /\ r.inFlightWrite \in Chunks
      /\ r.inFlightWrite # NoChunk /\ ~r.inFlightClose /\ ~r.ended /\ r.queue # <<>>
      /\ ~Holds(r.writeRequests, r.inFlightWrite)
  BY DEF WInv, Always, SinkCall, Requests, WStates
<1>2. /\ p.writeP[r.inFlightWrite] = how
      /\ \A c \in Chunks : c # r.inFlightWrite => p.writeP[c] = r.writeP[c]
  BY <1>1 DEF WStates
<1>3. r.state = "writable" => NoError(r) /\ Queued(r) /\ InOrder(r) /\ Resolved(r)
  BY DEF WInv, Open
<1>4. Owners(p) /\ NothingFailed(p)
  BY <1>1 DEF Always, Owners, NothingFailed, Locked
<1>5. Erring(p)
  BY <1>1, <1>3 DEF Always, Erring, Over, NoError
<1>6. SinkCall(p)
  BY <1>1 DEF Always, SinkCall, Active
<1>7. Requests(p)
  BY <1>1 DEF Always, Requests, Over, Active, Holds
<1>8. Pending(p)
  <2>1. ASSUME NEW c \in Chunks
        PROVE  p.writeP[c] = "pending" <=> c = p.inFlightWrite \/ Holds(p.writeRequests, c)
    <3>1. c # p.inFlightWrite
      BY NamesAssumption
    <3>2. CASE c = r.inFlightWrite
      BY <1>1, <1>2, <3>1, <3>2
    <3>3. CASE c # r.inFlightWrite
      BY <1>1, <1>2, <3>1, <3>3 DEF Always, Pending
    <3> QED BY <3>2, <3>3
  <2>2. ASSUME NEW i \in 1..Len(p.accepted)
        PROVE  p.writeP[p.accepted[i]] \notin {"none", "called"}
    <3>1. r.accepted[i] \in Chunks /\ r.writeP[r.accepted[i]] \notin {"none", "called"}
      BY <1>1 DEF Always, Pending, WStates
    <3> QED BY <1>2, <3>1
  <2>3. ~p.inFlightClose /\ p.state # "closed"
    BY <1>1 DEF Active
  <2> QED BY <1>1, <2>1, <2>2, <2>3 DEF Always, Pending
<1>9. WriterWaits(p)
  BY <1>1 DEF Always, WriterWaits, Locked, CloseQueuedOrInFlight, Active
<1>10. Always(p)
  BY <1>4, <1>5, <1>6, <1>7, <1>8, <1>9 DEF Always
<1>11. ASSUME how = "resolved", p.algorithms = r.algorithms, p.queue = Tail(r.queue),
              r.state = "writable"
       PROVE  NoError(p) /\ Queued(p) /\ InOrder(p) /\ Resolved(p)
  <2>1. NoError(p)
    BY <1>3, <1>11 DEF NoError
  <2>2. InOrder(p)
    BY <1>3, <1>11, InOrderSame
  <2>3. Resolved(p)
    <3>1. ASSUME NEW i \in 1..Len(p.accepted)
          PROVE  p.writeP[p.accepted[i]] = "resolved" \/ Holds(p.writeRequests, p.accepted[i])
      <4>1. r.accepted[i] \in Chunks
        BY DEF WStates
      <4>2. r.writeP[r.accepted[i]] = "resolved" \/ r.accepted[i] = r.inFlightWrite
            \/ Holds(r.writeRequests, r.accepted[i])
        BY <1>3, <1>11 DEF Resolved
      <4> QED BY <1>2, <1>11, <4>1, <4>2
    <3> QED BY <3>1 DEF Resolved
  <2>4. Queued(p)
    <3>1. r.queue \in Seq(Items) /\ r.writeRequests \in Seq(Chunks)
      BY DEF WStates
    <3>2. PICK q, k, e \in Nat : q = Len(r.queue) /\ k = Len(r.writeRequests)
                                 /\ e = IF r.closeRequest THEN 1 ELSE 0
      BY <3>1, Lengths
    <3>3. Ahead(r) = 1 /\ Ahead(p) = 0
      BY <1>1 DEF Ahead
    <3>4. q = 1 + k + e
      BY <1>3, <1>11, <3>2, <3>3 DEF Queued
    <3>5. /\ Len(p.queue) = q - 1
          /\ \A i \in 1..q - 1 : p.queue[i] = r.queue[i + 1]
      BY <1>1, <1>11, <3>1, <3>2, TailOf
    <3>6. q - 1 = 0 + k + e /\ \A i \in 1..k : 0 + i \in 1..q - 1 /\ 0 + i = i /\ i + 1 = 1 + i
      <4>1. q \in Nat /\ k \in Nat /\ e \in Nat
        BY <3>2
      <4> QED BY ONLY <3>4, <4>1
    <3>7. ASSUME NEW i \in 1..k
          PROVE  p.queue[0 + i].chunk = p.writeRequests[i]
      <4>1. r.queue[1 + i].chunk = r.writeRequests[i]
        BY <1>3, <1>11, <3>2, <3>3 DEF Queued
      <4> QED BY <3>5, <3>6, <4>1
    <3>8. ASSUME p.closeRequest
          PROVE  p.queue[Len(p.queue)].chunk = CloseSentinel
      <4>1. r.queue[q].chunk = CloseSentinel /\ e = 1
        BY <1>3, <1>11, <3>2, <3>8 DEF Queued
      <4>2. q - 1 \in 1..q - 1 /\ (q - 1) + 1 = q
        <5>1. q \in Nat /\ k \in Nat
          BY <3>2
        <5> QED BY ONLY <3>4, <4>1, <5>1
      <4> QED BY <3>5, <4>1, <4>2
    <3> QED BY <3>2, <3>3, <3>5, <3>6, <3>7, <3>8 DEF Queued
  <2> QED BY <2>1, <2>2, <2>3, <2>4
<1>12. Answered(r, p) /\ Active(p) /\ ~OperationInFlight(p) /\ p.started
  BY <1>1 DEF Answered, Active, OperationInFlight
<1>13. p.state = "writable" => p.storedError = "undefined"
  BY <1>3 DEF NoError
<1> QED BY <1>10, <1>11, <1>12, <1>13

LEMMA WriteFulfilledHolds ==
    ASSUME NEW r \in WStates, WInv(r), r.sink = "write"
    PROVE  LET t == AdvanceQueueIfNeeded(UpdateBackpressureIfOpen(DequeueValue(
                        FinishInFlightWrite(SinkAnswered(DebugAssert(r, Active(r)))))))
           IN WInv(t) /\ Serves(r, t)
<1>1. /\ r.ok = TRUE /\ Active(r) /\ r.inFlightWrite \in Chunks /\ r.inFlightWrite # NoChunk
      /\ r.queue # <<>>
  BY DEF WInv, Always, SinkCall, Requests, NothingFailed, WStates
<1>2. DebugAssert(r, Active(r)) = r
  BY <1>1 DEF DebugAssert, WStates
<1>3. PICK writeP, n : writeP = [r.writeP EXCEPT ![r.inFlightWrite] = "resolved"]
                       /\ n = r.answers + 1
  OBVIOUS
<1>4. writeP \in [Chunks -> Status] /\ n \in Nat
  BY <1>1, <1>3 DEF WStates, Status
<1>5. PICK u : u = [r EXCEPT !.sink = "idle", !.answers = n]
  OBVIOUS
<1>6. u \in WStates /\ u.ok = r.ok /\ u.inFlightWrite = r.inFlightWrite /\ u.writeP = r.writeP
  BY <1>4, <1>5 DEF WStates
<1>7. PICK v : v = [u EXCEPT !.writeP = writeP, !.inFlightWrite = NoChunk]
  OBVIOUS
<1>8. v = FinishInFlightWrite(SinkAnswered(r))
  <2>1. u = SinkAnswered(r)
    BY <1>3, <1>5 DEF SinkAnswered, WStates
  <2>2. DebugAssert(u, u.inFlightWrite # NoChunk) = u
    BY <1>1, <1>6 DEF DebugAssert, WStates
  <2>3. FinishInFlightWrite(u) =
            [u EXCEPT !.writeP[u.inFlightWrite] = "resolved", !.inFlightWrite = NoChunk]
    BY <2>2 DEF FinishInFlightWrite
  <2>4. writeP = [u.writeP EXCEPT ![u.inFlightWrite] = "resolved"]
    BY <1>3, <1>6
  <2> QED BY <1>6, <1>7, <2>1, <2>3, <2>4 DEF WStates
<1>9. /\ v \in WStates /\ v.sink = "idle" /\ v.answers = r.answers + 1
      /\ v.inFlightWrite = NoChunk /\ v.writeP = writeP
      /\ v.accepted = r.accepted /\ v.written = r.written /\ v.writeRequests = r.writeRequests
      /\ v.queue = r.queue
      /\ v.ended = r.ended /\ v.inFlightClose = r.inFlightClose /\ v.started = r.started
      /\ v.algorithms = r.algorithms
      /\ SameState(r, v) /\ SameWriter(r, v) /\ SameFlags(r, v) /\ StillOk(r, v)
      /\ v.closeRequest = r.closeRequest /\ v.closeP = r.closeP /\ v.abortP = r.abortP
  <2>1. /\ u.sink = "idle" /\ u.answers = r.answers + 1
        /\ u.accepted = r.accepted /\ u.written = r.written
        /\ u.writeRequests = r.writeRequests /\ u.queue = r.queue
        /\ u.ended = r.ended /\ u.inFlightClose = r.inFlightClose /\ u.started = r.started
        /\ u.algorithms = r.algorithms
    BY <1>3, <1>5 DEF WStates
  <2>2. /\ SameState(r, u) /\ SameWriter(r, u) /\ SameFlags(r, u) /\ StillOk(r, u)
        /\ u.closeRequest = r.closeRequest /\ u.closeP = r.closeP /\ u.abortP = r.abortP
    BY <1>5 DEF WStates, SameState, SameWriter, SameFlags, StillOk
  <2>3. v \in WStates
    BY <1>4, <1>6, <1>7 DEF WStates
  <2>4. /\ v.inFlightWrite = NoChunk /\ v.writeP = writeP
        /\ v.sink = u.sink /\ v.answers = u.answers
        /\ v.accepted = u.accepted /\ v.written = u.written
        /\ v.writeRequests = u.writeRequests /\ v.queue = u.queue
        /\ v.ended = u.ended /\ v.inFlightClose = u.inFlightClose /\ v.started = u.started
        /\ v.algorithms = u.algorithms
    BY <1>6, <1>7 DEF WStates
  <2>5. /\ SameState(u, v) /\ SameWriter(u, v) /\ SameFlags(u, v) /\ StillOk(u, v)
        /\ v.closeRequest = u.closeRequest /\ v.closeP = u.closeP /\ v.abortP = u.abortP
    BY <1>6, <1>7 DEF WStates, SameState, SameWriter, SameFlags, StillOk
  <2> QED BY <2>1, <2>2, <2>3, <2>4, <2>5 DEF SameState, SameWriter, SameFlags, StillOk
<1>10. PICK p \in WStates :
         /\ p = DequeueValue(v) /\ p.queue = Tail(v.queue)
         /\ p.inFlightWrite = v.inFlightWrite /\ p.writeRequests = v.writeRequests
         /\ SameState(v, p) /\ SameWriter(v, p) /\ SamePromises(v, p) /\ SameSink(v, p)
         /\ SameCalls(v, p) /\ SameFlags(v, p) /\ StillOk(v, p)
         /\ p.closeRequest = v.closeRequest
  <2>1. v.ok = TRUE /\ v.queue # <<>>
    BY <1>1, <1>9 DEF StillOk
  <2> QED BY <1>9, <2>1, Dequeuing
<1>11. /\ p.sink = "idle" /\ p.answers = r.answers + 1 /\ p.inFlightWrite = NoChunk
       /\ p.writeP = [r.writeP EXCEPT ![r.inFlightWrite] = "resolved"]
       /\ p.accepted = r.accepted /\ p.written = r.written /\ p.writeRequests = r.writeRequests
       /\ p.ended = r.ended /\ p.inFlightClose = r.inFlightClose /\ p.started = r.started
       /\ p.algorithms = r.algorithms /\ p.queue = Tail(r.queue)
       /\ SameState(r, p) /\ SameWriter(r, p) /\ SameFlags(r, p) /\ StillOk(r, p)
       /\ p.closeRequest = r.closeRequest /\ p.closeP = r.closeP /\ p.abortP = r.abortP
  BY <1>3, <1>9, <1>10
     DEF SameState, SameWriter, SamePromises, SameSink, SameCalls, SameFlags, StillOk
<1>12. /\ Always(p) /\ Answered(r, p) /\ Active(p) /\ ~OperationInFlight(p) /\ p.started
       /\ r.state = "writable" => NoError(p) /\ Queued(p) /\ InOrder(p) /\ Resolved(p)
  BY <1>11, AnsweringWrite
<1>13. p.state = r.state
  BY <1>11 DEF SameState
<1>14. PICK q \in WStates : q = UpdateBackpressureIfOpen(p) /\ Updated(p, q)
  <2>1. p.ok = TRUE
    BY <1>12 DEF Always, NothingFailed
  <2>2. p.state = "writable" /\ ~CloseQueuedOrInFlight(p) /\ Locked(p) =>
            (p.ready[p.writer] = "pending" <=> p.backpressure)
    BY <1>11, <1>13 DEF WInv, Open, Backpressure, CloseQueuedOrInFlight, Locked, SameWriter,
                        SameFlags
  <2> QED BY <2>1, <2>2, Updating
<1>15. Always(q) /\ Open(q)
  BY <1>12, <1>13, <1>14, UpdatedHolds
<1>16. /\ q.state = p.state /\ Answered(r, q) /\ Active(q) /\ ~q.inFlightClose
  BY <1>12, <1>14
     DEF Updated, Answered, Active, OperationInFlight, SameState, SameSink, SameCalls, SameQueue
<1>17. PICK t : t = AdvanceQueueIfNeeded(q)
  OBVIOUS
<1>18. WInv(t) /\ Advanced(q, t)
  BY <1>15, <1>16, <1>17, AdvanceHolds
<1>19. Serves(r, t)
  BY <1>1, <1>13, <1>16, <1>18, AdvancedServes
<1> QED BY <1>2, <1>8, <1>10, <1>14, <1>17, <1>18, <1>19

LEMMA WriteRejectedHolds ==
    ASSUME NEW r \in WStates, WInv(r), r.sink = "write"
    PROVE  LET t == DealWithRejection(
                        [SinkAnswered(DebugAssert(ClearIfWritable(r),
                                                  r.inFlightWrite # NoChunk /\ Active(r)))
                         EXCEPT !.writeP[r.inFlightWrite] = "rejected", !.inFlightWrite = NoChunk])
           IN WInv(t) /\ Serves(r, t)
<1>1. r.ok = TRUE /\ Active(r) /\ r.inFlightWrite \in Chunks /\ r.inFlightWrite # NoChunk
  BY DEF WInv, Always, SinkCall, NothingFailed, WStates
<1>2. PICK u : u = ClearIfWritable(r)
  OBVIOUS
<1>3. /\ u \in WStates
      /\ u.algorithms = r.algorithms \/ (r.state = "writable" /\ ~u.algorithms)
      /\ u.accepted = r.accepted /\ u.written = r.written /\ u.writeRequests = r.writeRequests
      /\ u.answers = r.answers /\ u.writeP = r.writeP /\ u.inFlightWrite = r.inFlightWrite
      /\ u.ended = r.ended /\ u.inFlightClose = r.inFlightClose /\ u.started = r.started
      /\ SameState(r, u) /\ SameWriter(r, u) /\ StillOk(r, u)
      /\ u.closeRequest = r.closeRequest /\ u.closeP = r.closeP /\ u.abortP = r.abortP
  <2>1. CASE r.state = "writable"
    <3>1. u = [r EXCEPT !.algorithms = FALSE]
      BY <1>2, <2>1 DEF ClearIfWritable, ClearAlgorithms
    <3> QED BY <2>1, <3>1 DEF WStates, SameState, SameWriter, StillOk
  <2>2. CASE r.state # "writable"
    BY <1>2, <2>2 DEF ClearIfWritable, SameState, SameWriter, StillOk
  <2> QED BY <2>1, <2>2
<1>4. DebugAssert(u, r.inFlightWrite # NoChunk /\ Active(r)) = u
  BY <1>1, <1>3 DEF DebugAssert, StillOk, WStates
<1>5. PICK writeP, n : writeP = [r.writeP EXCEPT ![r.inFlightWrite] = "rejected"]
                       /\ n = r.answers + 1
  OBVIOUS
<1>6. writeP \in [Chunks -> Status] /\ n \in Nat
  BY <1>1, <1>5 DEF WStates, Status
<1>7. PICK v : v = [u EXCEPT !.sink = "idle", !.answers = n]
  OBVIOUS
<1>8. /\ v \in WStates /\ v.sink = "idle" /\ v.answers = n /\ v.algorithms = u.algorithms
      /\ v.accepted = u.accepted /\ v.written = u.written /\ v.writeRequests = u.writeRequests
      /\ v.writeP = u.writeP
      /\ v.ended = u.ended /\ v.inFlightClose = u.inFlightClose /\ v.started = u.started
      /\ SameState(u, v) /\ SameWriter(u, v) /\ StillOk(u, v)
      /\ v.closeRequest = u.closeRequest /\ v.closeP = u.closeP /\ v.abortP = u.abortP
  BY <1>3, <1>6, <1>7 DEF WStates, SameState, SameWriter, StillOk
<1>9. v = SinkAnswered(u)
  BY <1>3, <1>5, <1>7 DEF SinkAnswered, WStates
<1>10. PICK p : p = [v EXCEPT !.writeP = writeP, !.inFlightWrite = NoChunk]
  OBVIOUS
<1>11. p = [SinkAnswered(u) EXCEPT !.writeP[r.inFlightWrite] = "rejected",
                                   !.inFlightWrite = NoChunk]
  <2>1. writeP = [v.writeP EXCEPT ![r.inFlightWrite] = "rejected"]
    BY <1>3, <1>5, <1>8
  <2> QED BY ONLY <1>8, <1>9, <1>10, <2>1 DEF WStates
<1>12. /\ p \in WStates /\ p.writeP = writeP /\ p.inFlightWrite = NoChunk
       /\ p.sink = v.sink /\ p.answers = v.answers /\ p.algorithms = v.algorithms
       /\ p.accepted = v.accepted /\ p.written = v.written /\ p.writeRequests = v.writeRequests
       /\ p.ended = v.ended /\ p.inFlightClose = v.inFlightClose /\ p.started = v.started
       /\ SameState(v, p) /\ SameWriter(v, p) /\ StillOk(v, p)
       /\ p.closeRequest = v.closeRequest /\ p.closeP = v.closeP /\ p.abortP = v.abortP
  BY <1>6, <1>8, <1>10 DEF WStates, SameState, SameWriter, StillOk
<1>13. /\ p.algorithms = r.algorithms \/ (r.state = "writable" /\ ~p.algorithms)
       /\ p.accepted = r.accepted /\ p.written = r.written /\ p.writeRequests = r.writeRequests
       /\ p.sink = "idle" /\ p.answers = r.answers + 1
       /\ p.writeP = [r.writeP EXCEPT ![r.inFlightWrite] = "rejected"]
       /\ p.ended = r.ended /\ p.inFlightClose = r.inFlightClose /\ p.started = r.started
       /\ SameState(r, p) /\ SameWriter(r, p) /\ StillOk(r, p)
       /\ p.closeRequest = r.closeRequest /\ p.closeP = r.closeP /\ p.abortP = r.abortP
  BY <1>3, <1>5, <1>8, <1>12 DEF SameState, SameWriter, StillOk
<1>14. /\ Always(p) /\ Answered(r, p) /\ Active(p) /\ ~OperationInFlight(p) /\ p.started
       /\ p.state = "writable" => p.storedError = "undefined"
  BY <1>12, <1>13, AnsweringWrite
<1>15. PICK t : t = DealWithRejection(p)
  OBVIOUS
<1>16. WInv(t) /\ Stopped(p, t)
  BY <1>12, <1>14, <1>15, DealWithRejectionHolds
<1>17. Serves(r, t)
  BY <1>1, <1>13, <1>14, <1>16, StoppedServes DEF SameState
<1> QED BY <1>2, <1>4, <1>11, <1>15, <1>16, <1>17

\* What holds while the sink closes.
LEMMA WhileClosing ==
    ASSUME NEW r \in WStates, WInv(r), r.sink = "close"
    PROVE  /\ Always(r) /\ Active(r) /\ r.inFlightClose = TRUE /\ r.inFlightWrite = NoChunk
           /\ r.started = TRUE /\ r.ended = TRUE /\ r.closeRequest = FALSE
           /\ r.writeRequests = <<>>
           /\ r.ok = TRUE /\ DebugAssert(r, r.inFlightClose /\ Active(r)) = r
           /\ r.state = "writable" => r.storedError = "undefined" /\ r.pendingAbort = "none"
           /\ r.state # "writable" => r.state = "erroring"
<1>1. Always(r) /\ Active(r) /\ r.inFlightClose = TRUE
  BY DEF WInv, Always, SinkCall, WStates
<1>2. r.inFlightWrite = NoChunk /\ r.started = TRUE /\ r.ended = TRUE
  BY <1>1 DEF Always, SinkCall, WStates
<1>3. r.closeRequest = FALSE /\ r.writeRequests = <<>>
  BY <1>1 DEF Always, Requests, WStates
<1>4. r.ok = TRUE /\ DebugAssert(r, r.inFlightClose /\ Active(r)) = r
  BY <1>1 DEF Always, NothingFailed, DebugAssert, WStates
<1>5. r.state = "writable" => r.storedError = "undefined" /\ r.pendingAbort = "none"
  BY DEF WInv, Open, NoError
<1> QED BY <1>1, <1>2, <1>3, <1>4, <1>5 DEF Active

LEMMA CloseRejectedHolds ==
    ASSUME NEW r \in WStates, WInv(r), r.sink = "close", NEW u, NEW p,
           u = [SinkAnswered(DebugAssert(r, r.inFlightClose /\ Active(r))) EXCEPT
                    !.inFlightClose = FALSE, !.closeP = "rejected"],
           p = IF r.pendingAbort # "none"
               THEN [u EXCEPT !.pendingAbort = "none", !.abortP = "rejected"] ELSE u
    PROVE  WInv(DealWithRejection(p)) /\ Serves(r, DealWithRejection(p))
<1>1. /\ Always(r) /\ Active(r) /\ r.inFlightClose = TRUE /\ r.inFlightWrite = NoChunk
      /\ r.started = TRUE /\ r.ended = TRUE /\ r.closeRequest = FALSE /\ r.writeRequests = <<>>
      /\ r.ok = TRUE /\ DebugAssert(r, r.inFlightClose /\ Active(r)) = r
      /\ r.state = "writable" => r.storedError = "undefined"
  BY WhileClosing
<1>2. PICK n : n = r.answers + 1
  OBVIOUS
<1>3. n \in Nat
  BY <1>2 DEF WStates
<1>4. u = [r EXCEPT !.sink = "idle", !.answers = n, !.inFlightClose = FALSE, !.closeP = "rejected"]
  BY <1>1, <1>2 DEF SinkAnswered, WStates
<1>5. /\ u \in WStates /\ u.sink = "idle" /\ u.answers = n /\ u.inFlightClose = FALSE
      /\ u.closeP = "rejected" /\ u.abortP = r.abortP /\ u.writeP = r.writeP
      /\ u.accepted = r.accepted /\ u.written = r.written
      /\ u.ended = r.ended /\ u.started = r.started /\ u.closeRequest = r.closeRequest
  <2>1. r \in WStates
    OBVIOUS
  <2>2. u \in WStates
    <3>1. PICK e : e = [r EXCEPT !.sink = "idle", !.answers = n]
      OBVIOUS
    <3>2. e \in WStates
      BY ONLY <1>3, <2>1, <3>1 DEF WStates
    <3>3. u = [e EXCEPT !.inFlightClose = FALSE, !.closeP = "rejected"]
      BY ONLY <1>4, <2>1, <3>1 DEF WStates
    <3> QED BY ONLY <3>2, <3>3, ZenonT(60) DEF WStates, Status
  <2> QED BY ONLY <1>4, <2>1, <2>2 DEF WStates
<1>6. SameState(r, u) /\ SameWriter(r, u) /\ SameQueue(r, u) /\ StillOk(r, u)
  BY <1>4 DEF WStates, SameState, SameWriter, SameQueue, StillOk
<1>7. /\ p \in WStates /\ p.pendingAbort = "none"
      /\ p.abortP = (IF r.pendingAbort # "none" THEN "rejected" ELSE r.abortP)
      /\ p.state = u.state /\ p.storedError = u.storedError
      /\ p.sink = "idle" /\ p.answers = n /\ p.inFlightClose = FALSE
      /\ p.closeP = "rejected" /\ p.writeP = u.writeP
      /\ p.accepted = u.accepted /\ p.written = u.written
      /\ p.ended = u.ended /\ p.started = u.started /\ p.closeRequest = u.closeRequest
      /\ SameWriter(u, p) /\ SameQueue(u, p) /\ StillOk(u, p)
  <2>1. CASE r.pendingAbort # "none"
    <3>1. p = [u EXCEPT !.pendingAbort = "none", !.abortP = "rejected"]
      BY <2>1
    <3>2. p \in WStates
      BY ONLY <1>5, <3>1, ZenonT(60) DEF WStates, Status
    <3>3. /\ p.pendingAbort = "none" /\ p.abortP = "rejected"
          /\ p.state = u.state /\ p.storedError = u.storedError
          /\ p.sink = u.sink /\ p.answers = u.answers /\ p.inFlightClose = u.inFlightClose
          /\ p.closeP = u.closeP /\ p.writeP = u.writeP
          /\ p.accepted = u.accepted /\ p.written = u.written
          /\ p.ended = u.ended /\ p.started = u.started /\ p.closeRequest = u.closeRequest
      BY ONLY <1>5, <3>1 DEF WStates
    <3>4. SameWriter(u, p) /\ SameQueue(u, p) /\ StillOk(u, p)
      BY ONLY <1>5, <3>1 DEF WStates, SameWriter, SameQueue, StillOk
    <3> QED BY <1>5, <2>1, <3>2, <3>3, <3>4
  <2>2. CASE r.pendingAbort = "none"
    BY <1>5, <1>6, <2>2 DEF SameState, SameWriter, SameQueue, StillOk
  <2> QED BY <2>1, <2>2
<1> USE DEF SameState, SameWriter, SameQueue, StillOk
<1>8. Owners(p) /\ Erring(p) /\ NothingFailed(p)
  BY <1>1, <1>5, <1>6, <1>7 DEF Always, Owners, Erring, NothingFailed, Over, Active, Locked
<1>9. SinkCall(p)
  BY <1>1, <1>5, <1>6, <1>7 DEF Always, SinkCall, Active
<1>10. Requests(p)
  BY <1>1, <1>5, <1>6, <1>7 DEF Always, Requests, Over, Active, Holds
<1>11. Pending(p)
  <2>1. p.abortP # "pending"
    BY <1>1, <1>7 DEF Always, Pending
  <2>2. /\ p.inFlightWrite = r.inFlightWrite /\ p.writeRequests = r.writeRequests
        /\ p.writeP = r.writeP /\ p.accepted = r.accepted
        /\ p.closeP = "rejected" /\ p.inFlightClose = FALSE /\ p.state # "closed"
    BY <1>1, <1>5, <1>6, <1>7 DEF Active
  <2> QED BY <1>1, <2>1, <2>2 DEF Always, Pending, Holds
<1>12. WriterWaits(p)
  BY <1>1, <1>5, <1>6, <1>7 DEF Always, WriterWaits, Locked, CloseQueuedOrInFlight, Active
<1>13. Always(p)
  BY <1>8, <1>9, <1>10, <1>11, <1>12 DEF Always
<1>14. /\ Active(p) /\ ~OperationInFlight(p) /\ p.started /\ p.state = r.state /\ Answered(r, p)
       /\ p.state = "writable" => p.storedError = "undefined"
  BY <1>1, <1>2, <1>5, <1>6, <1>7 DEF Active, OperationInFlight, Answered
<1>15. PICK t : t = DealWithRejection(p)
  OBVIOUS
<1>16. WInv(t) /\ Stopped(p, t)
  BY <1>7, <1>13, <1>14, <1>15, DealWithRejectionHolds
<1>17. Serves(r, t)
  BY <1>1, <1>14, <1>16, StoppedServes
<1> QED BY <1>15, <1>16, <1>17

LEMMA CloseFulfilledHolds ==
    ASSUME NEW r \in WStates, WInv(r), r.sink = "close"
    PROVE  LET u == [SinkAnswered(DebugAssert(r, r.inFlightClose /\ Active(r))) EXCEPT
                         !.inFlightClose = FALSE, !.closeP = "resolved"]
               v == IF r.state = "erroring"
                    THEN [u EXCEPT !.storedError = "undefined", !.pendingAbort = "none",
                                   !.abortP = Settle(@, "resolved")]
                    ELSE u
               x == [v EXCEPT !.state = "closed"]
               y == IF Locked(r) THEN [x EXCEPT !.closed[r.writer] = Settle(@, "resolved")]
                    ELSE x
               t == DebugAssert(y, y.pendingAbort = "none" /\ y.storedError = "undefined")
           IN WInv(t) /\ Serves(r, t)
<1>u. PICK u : u = [SinkAnswered(DebugAssert(r, r.inFlightClose /\ Active(r))) EXCEPT
                        !.inFlightClose = FALSE, !.closeP = "resolved"]
  OBVIOUS
<1>v. PICK v : v = IF r.state = "erroring"
                   THEN [u EXCEPT !.storedError = "undefined", !.pendingAbort = "none",
                                  !.abortP = Settle(@, "resolved")]
                   ELSE u
  OBVIOUS
<1>x. PICK x : x = [v EXCEPT !.state = "closed"]
  OBVIOUS
<1>y. PICK y : y = IF Locked(r) THEN [x EXCEPT !.closed[r.writer] = Settle(@, "resolved")] ELSE x
  OBVIOUS
<1>1. /\ Always(r) /\ Active(r) /\ r.inFlightClose = TRUE /\ r.inFlightWrite = NoChunk
      /\ r.started = TRUE /\ r.ended = TRUE /\ r.closeRequest = FALSE /\ r.writeRequests = <<>>
      /\ r.ok = TRUE /\ DebugAssert(r, r.inFlightClose /\ Active(r)) = r
      /\ r.state = "writable" => r.storedError = "undefined" /\ r.pendingAbort = "none"
      /\ r.state # "writable" => r.state = "erroring"
  BY WhileClosing
<1>2. PICK n : n = r.answers + 1
  OBVIOUS
<1>3. n \in Nat
  BY <1>2 DEF WStates
<1>4. u = [r EXCEPT !.sink = "idle", !.answers = n, !.inFlightClose = FALSE, !.closeP = "resolved"]
  BY <1>1, <1>2, <1>u DEF SinkAnswered, WStates
<1>5. /\ u \in WStates /\ u.sink = "idle" /\ u.answers = n /\ u.inFlightClose = FALSE
      /\ u.closeP = "resolved" /\ u.abortP = r.abortP /\ u.writeP = r.writeP
      /\ u.accepted = r.accepted /\ u.written = r.written
      /\ u.ended = r.ended /\ u.started = r.started /\ u.closeRequest = r.closeRequest
  <2>1. r \in WStates
    OBVIOUS
  <2>2. u \in WStates
    <3>1. PICK e : e = [r EXCEPT !.sink = "idle", !.answers = n]
      OBVIOUS
    <3>2. e \in WStates
      BY ONLY <1>3, <2>1, <3>1 DEF WStates
    <3>3. u = [e EXCEPT !.inFlightClose = FALSE, !.closeP = "resolved"]
      BY ONLY <1>4, <2>1, <3>1 DEF WStates
    <3> QED BY ONLY <3>2, <3>3, ZenonT(60) DEF WStates, Status
  <2> QED BY ONLY <1>4, <2>1, <2>2 DEF WStates
<1>6. SameState(r, u) /\ SameWriter(r, u) /\ SameQueue(r, u) /\ StillOk(r, u)
  BY <1>4 DEF WStates, SameState, SameWriter, SameQueue, StillOk
<1>7. /\ v \in WStates /\ v.pendingAbort = "none" /\ v.storedError = "undefined"
      /\ v.abortP # "pending"
      /\ v.sink = "idle" /\ v.answers = n /\ v.inFlightClose = FALSE
      /\ v.closeP = "resolved" /\ v.writeP = u.writeP
      /\ v.accepted = u.accepted /\ v.written = u.written
      /\ v.ended = u.ended /\ v.started = u.started /\ v.closeRequest = u.closeRequest
      /\ SameWriter(u, v) /\ SameQueue(u, v) /\ StillOk(u, v)
  <2>1. CASE r.state = "erroring"
    <3>1. PICK b \in Status : b = Settle(u.abortP, "resolved") /\ b # "pending"
      BY <1>5 DEF Settle, Status, WStates
    <3>2. v = [u EXCEPT !.storedError = "undefined", !.pendingAbort = "none", !.abortP = b]
      BY <1>5, <1>v, <2>1, <3>1 DEF WStates
    <3>3. v \in WStates
      BY ONLY <1>5, <3>1, <3>2, ZenonT(60) DEF WStates
    <3>4. /\ v.pendingAbort = "none" /\ v.storedError = "undefined" /\ v.abortP = b
          /\ v.sink = u.sink /\ v.answers = u.answers /\ v.inFlightClose = u.inFlightClose
          /\ v.closeP = u.closeP /\ v.writeP = u.writeP
          /\ v.accepted = u.accepted /\ v.written = u.written
          /\ v.ended = u.ended /\ v.started = u.started /\ v.closeRequest = u.closeRequest
      BY ONLY <1>5, <3>2 DEF WStates
    <3>5. SameWriter(u, v) /\ SameQueue(u, v) /\ StillOk(u, v)
      BY ONLY <1>5, <3>2 DEF WStates, SameWriter, SameQueue, StillOk
    <3> QED BY <1>5, <3>1, <3>3, <3>4, <3>5
  <2>2. CASE r.state = "writable"
    <3>1. r.abortP # "pending"
      BY <1>1, <2>2 DEF Always, Pending
    <3> QED BY <1>1, <1>5, <1>6, <1>v, <2>2, <3>1 DEF SameState, SameWriter, SameQueue, StillOk
  <2> QED BY <1>1, <2>1, <2>2
<1>8. /\ x \in WStates /\ x.state = "closed" /\ x.pendingAbort = "none"
      /\ x.storedError = "undefined" /\ x.abortP # "pending"
      /\ x.sink = "idle" /\ x.answers = n /\ x.inFlightClose = FALSE
      /\ x.closeP = "resolved" /\ x.writeP = v.writeP
      /\ x.accepted = v.accepted /\ x.written = v.written
      /\ x.ended = v.ended /\ x.started = v.started /\ x.closeRequest = v.closeRequest
      /\ SameWriter(v, x) /\ SameQueue(v, x) /\ StillOk(v, x)
  <2>1. x = [v EXCEPT !.state = "closed"]
    BY <1>x
  <2>2. x \in WStates
    BY ONLY <1>7, <2>1 DEF WStates
  <2>3. /\ x.state = "closed" /\ x.pendingAbort = v.pendingAbort
        /\ x.storedError = v.storedError /\ x.abortP = v.abortP
        /\ x.sink = v.sink /\ x.answers = v.answers /\ x.inFlightClose = v.inFlightClose
        /\ x.closeP = v.closeP /\ x.writeP = v.writeP
        /\ x.accepted = v.accepted /\ x.written = v.written
        /\ x.ended = v.ended /\ x.started = v.started /\ x.closeRequest = v.closeRequest
    BY ONLY <1>7, <2>1 DEF WStates
  <2>4. SameWriter(v, x) /\ SameQueue(v, x) /\ StillOk(v, x)
    BY ONLY <1>7, <2>1 DEF WStates, SameWriter, SameQueue, StillOk
  <2> QED BY <1>7, <2>2, <2>3, <2>4
<1>9. /\ y \in WStates /\ y.state = "closed" /\ y.pendingAbort = "none"
      /\ y.storedError = "undefined" /\ y.abortP # "pending"
      /\ y.sink = "idle" /\ y.answers = n /\ y.inFlightClose = FALSE
      /\ y.closeP = "resolved" /\ y.writeP = x.writeP
      /\ y.accepted = x.accepted /\ y.written = x.written
      /\ y.ended = x.ended /\ y.started = x.started /\ y.closeRequest = x.closeRequest
      /\ y.writer = x.writer /\ y.owned = x.owned /\ y.ready = x.ready
      /\ SameQueue(x, y) /\ StillOk(x, y)
      /\ Locked(r) => y.closed[r.writer] # "pending"
  <2>1. CASE Locked(r)
    <3>1. PICK closed : closed = [x.closed EXCEPT ![r.writer] = Settle(x.closed[r.writer], "resolved")]
      OBVIOUS
    <3>2. r.writer \in Writers /\ x.closed \in [Writers -> Status]
      BY <1>8, <2>1 DEF Locked, WStates
    <3>3. closed \in [Writers -> Status] /\ closed[r.writer] # "pending"
      BY <3>1, <3>2 DEF Settle, Status
    <3>4. y = [x EXCEPT !.closed = closed]
      BY <1>8, <1>y, <2>1, <3>1 DEF WStates
    <3>5. y \in WStates /\ y.closed = closed
      BY ONLY <1>8, <3>3, <3>4 DEF WStates
    <3>6. /\ y.state = x.state /\ y.pendingAbort = x.pendingAbort
          /\ y.storedError = x.storedError /\ y.abortP = x.abortP
          /\ y.sink = x.sink /\ y.answers = x.answers /\ y.inFlightClose = x.inFlightClose
          /\ y.closeP = x.closeP /\ y.writeP = x.writeP
          /\ y.accepted = x.accepted /\ y.written = x.written
          /\ y.ended = x.ended /\ y.started = x.started /\ y.closeRequest = x.closeRequest
          /\ y.writer = x.writer /\ y.owned = x.owned /\ y.ready = x.ready
      BY ONLY <1>8, <3>4 DEF WStates
    <3>7. SameQueue(x, y) /\ StillOk(x, y)
      BY ONLY <1>8, <3>4 DEF WStates, SameQueue, StillOk
    <3> QED BY <1>8, <3>3, <3>5, <3>6, <3>7
  <2>2. CASE ~Locked(r)
    BY <1>8, <1>y, <2>2 DEF SameQueue, StillOk
  <2> QED BY <2>1, <2>2
<1>10. /\ y.writer = r.writer /\ y.owned = r.owned /\ y.ready = r.ready /\ y.writeP = r.writeP
       /\ y.accepted = r.accepted /\ y.written = r.written /\ y.answers = r.answers + 1
       /\ y.ended = TRUE /\ y.started = TRUE /\ y.closeRequest = FALSE /\ y.writeRequests = <<>>
       /\ y.inFlightWrite = NoChunk /\ y.ok = TRUE /\ y.skipped = r.skipped
  BY <1>1, <1>2, <1>5, <1>6, <1>7, <1>8, <1>9 DEF SameWriter, SameQueue, StillOk
<1>11. DebugAssert(y, y.pendingAbort = "none" /\ y.storedError = "undefined") = y
  BY ONLY <1>9, <1>10 DEF DebugAssert, WStates
<1>12. Owners(y) /\ Erring(y) /\ NothingFailed(y)
  BY <1>1, <1>9, <1>10 DEF Always, Owners, Erring, NothingFailed, Locked
<1>13. SinkCall(y)
  BY <1>9, <1>10 DEF SinkCall
<1>14. Requests(y)
  BY <1>1, <1>9, <1>10 DEF Always, Requests, Over
<1>15. Pending(y)
  BY <1>1, <1>9, <1>10 DEF Always, Pending
<1>16. WriterWaits(y)
  BY <1>1, <1>9, <1>10 DEF Always, WriterWaits, Locked, CloseQueuedOrInFlight
<1>17. WInv(y)
  BY <1>9, <1>12, <1>13, <1>14, <1>15, <1>16 DEF WInv, Always, Open, AtRest
<1>18. Serves(r, y)
  BY <1>1, <1>9, <1>10 DEF Serves, Returns, FateOf
<1> QED BY <1>u, <1>v, <1>x, <1>y, <1>11, <1>17, <1>18

\* The sink's abort() was the last call.
LEMMA AbortSettledHolds ==
    ASSUME NEW r \in WStates, WInv(r), r.sink = "abort", NEW how \in {"resolved", "rejected"}
    PROVE  LET t == RejectCloseAndClosedIfNeeded([SinkAnswered(r) EXCEPT !.abortP = how])
           IN WInv(t) /\ Serves(r, t)
<1>1. /\ Always(r) /\ r.state = "errored" /\ r.ended = TRUE /\ r.started = TRUE
      /\ r.inFlightClose = FALSE /\ r.inFlightWrite = NoChunk /\ r.ok = TRUE
      /\ r.writeRequests = <<>> /\ r.pendingAbort = "none" /\ r.storedError = "error"
  BY DEF WInv, Always, SinkCall, Erring, Requests, NothingFailed, Over, WStates
<1>2. PICK n : n = r.answers + 1
  OBVIOUS
<1>3. n \in Nat
  BY <1>2 DEF WStates
<1>4. PICK p : p = [r EXCEPT !.sink = "idle", !.answers = n, !.abortP = how]
  OBVIOUS
<1>5. p = [SinkAnswered(r) EXCEPT !.abortP = how]
  BY <1>2, <1>4 DEF SinkAnswered, WStates
<1>6. p \in WStates /\ p.sink = "idle" /\ p.answers = n /\ p.abortP = how
  BY <1>3, <1>4 DEF WStates, Status
<1>7. /\ SameState(r, p) /\ SameQueue(r, p) /\ StillOk(r, p) /\ SameWriter(r, p)
      /\ p.accepted = r.accepted /\ p.written = r.written
      /\ p.ended = r.ended /\ p.started = r.started /\ p.inFlightClose = r.inFlightClose
      /\ p.writeP = r.writeP /\ p.closeP = r.closeP /\ p.closeRequest = r.closeRequest
  BY <1>4 DEF WStates, SameState, SameQueue, StillOk, SameWriter
<1>8. PICK t : t = RejectCloseAndClosedIfNeeded(p)
  OBVIOUS
<1>9. /\ t \in WStates
      /\ ~t.closeRequest /\ t.closeP = (IF p.closeRequest THEN "rejected" ELSE p.closeP)
      /\ t.closed = ClosedRejected(p)
      /\ SameState(p, t) /\ SameQueue(p, t) /\ SameSink(p, t) /\ SameCalls(p, t)
      /\ SameFlags(p, t) /\ StillOk(p, t)
      /\ t.writer = p.writer /\ t.owned = p.owned /\ t.ready = p.ready
      /\ t.writeP = p.writeP /\ t.abortP = p.abortP
  <2>1. p.ok = TRUE /\ p.state = "errored" /\ ~p.inFlightClose
    BY <1>1, <1>7 DEF SameState, StillOk
  <2> QED BY <1>6, <1>8, <2>1, Rejecting
<1>10. /\ t.state = "errored" /\ t.ended = TRUE /\ t.started = TRUE /\ t.sink = "idle"
       /\ t.inFlightClose = FALSE /\ t.inFlightWrite = NoChunk /\ t.ok = TRUE
       /\ t.skipped = r.skipped
       /\ t.writeRequests = <<>> /\ t.pendingAbort = "none" /\ t.storedError = "error"
       /\ t.accepted = r.accepted /\ t.written = r.written /\ t.answers = r.answers + 1
       /\ t.writer = r.writer /\ t.owned = r.owned /\ t.ready = r.ready /\ t.writeP = r.writeP
       /\ t.abortP = how /\ t.closeP = (IF r.closeRequest THEN "rejected" ELSE r.closeP)
  BY <1>1, <1>2, <1>6, <1>7, <1>9
     DEF SameState, SameQueue, SameSink, SameCalls, StillOk, SameWriter
<1>11. Locked(t) => t.closed[t.writer] # "pending"
  <2>1. p.writer = r.writer /\ p.closed \in [Writers -> Status] /\ r.writer \in Writers \cup {NoWriter}
    BY <1>6, <1>7 DEF SameWriter, WStates
  <2> QED BY <1>9, <1>10, <2>1 DEF ClosedRejected, Locked, Settle
<1>12. Owners(t) /\ Erring(t) /\ NothingFailed(t)
  BY <1>1, <1>10 DEF Always, Owners, Erring, NothingFailed, Locked
<1>13. SinkCall(t)
  BY <1>10 DEF SinkCall
<1>14. Requests(t)
  BY <1>1, <1>9, <1>10 DEF Always, Requests, Over
<1>15. Pending(t)
  BY <1>1, <1>9, <1>10 DEF Always, Pending
<1>16. WriterWaits(t)
  BY <1>1, <1>10, <1>11 DEF Always, WriterWaits, Locked
<1>17. WInv(t)
  BY <1>9, <1>10, <1>12, <1>13, <1>14, <1>15, <1>16 DEF WInv, Always, Open, AtRest
<1>18. Serves(r, t)
  BY <1>1, <1>10 DEF Serves, Returns, FateOf
<1> QED BY <1>5, <1>8, <1>17, <1>18

-----------------------------------------------------------------------------
(* Calls suspended in author code.                                         *)

FrameSet == [call : {"write", "abort"}, writer : Writers \cup {NoWriter},
             chunk : Chunks \cup {NoChunk}]

LEMMA FramesKept ==
    ASSUME Suspended, UNCHANGED frames, Keeps(s, s')
    PROVE  Suspended'
BY DEF Suspended, Keeps

LEMMA FramePushed ==
    ASSUME Suspended, NEW f \in FrameSet, frames' = Append(frames, f), Keeps(s, s'),
           f.call = "write" =>
               /\ f.writer \in Writers /\ f.chunk \in Chunks
               /\ s.writeP[f.chunk] # "called" /\ s'.writeP[f.chunk] = "called"
    PROVE  Suspended'
<1>1. frames \in Seq(FrameSet) /\ frames' \in Seq(FrameSet)
  BY DEF Suspended, Frames, FrameSet
<1>2. PICK n \in Nat : n = Len(frames)
  BY <1>1, Lengths
<1>3. /\ Len(frames') = n + 1 /\ frames'[n + 1] = f
      /\ \A i \in 1..n : frames'[i] = frames[i]
  BY <1>1, <1>2, AppendOf
<1>4. \A i \in 1..n + 1 : i \in 1..n \/ i = n + 1
  BY <1>2
<1>5. \A i \in 1..n : frames[i].call = "write" =>
          /\ frames[i].writer \in Writers /\ frames[i].chunk \in Chunks
          /\ s.writeP[frames[i].chunk] = "called"
  BY <1>2 DEF Suspended
<1>6. \A i, j \in 1..n :
          frames[i].call = "write" /\ frames[j].call = "write" /\ frames[i].chunk = frames[j].chunk
              => i = j
  BY <1>2 DEF Suspended
<1>7. \A i \in 1..n + 1 : frames'[i].call = "write" =>
          /\ frames'[i].writer \in Writers /\ frames'[i].chunk \in Chunks
          /\ s'.writeP[frames'[i].chunk] = "called"
  BY <1>3, <1>4, <1>5 DEF Keeps
<1>8. \A i, j \in 1..n + 1 :
          frames'[i].call = "write" /\ frames'[j].call = "write"
          /\ frames'[i].chunk = frames'[j].chunk => i = j
  BY <1>3, <1>4, <1>5, <1>6
<1> QED BY <1>1, <1>3, <1>7, <1>8 DEF Suspended, Frames, FrameSet

LEMMA FramePopped ==
    ASSUME Suspended, frames # <<>>, PopFrame,
           Keeps(s, s') \/ (Innermost.call = "write" /\ KeepsBut(Innermost.chunk, s, s'))
    PROVE  Suspended'
<1>1. frames \in Seq(FrameSet)
  BY DEF Suspended, Frames, FrameSet
<1>2. PICK n \in Nat : n = Len(frames) /\ n >= 1
  BY <1>1, Lengths
<1>3. /\ frames' \in Seq(FrameSet) /\ Len(frames') = n - 1
      /\ \A i \in 1..n - 1 : frames'[i] = frames[i]
  BY <1>1, <1>2 DEF PopFrame
<1>4. /\ \A i \in 1..n - 1 : i \in 1..n /\ i # n
      /\ n \in 1..n
  BY <1>2
<1>5. \A i \in 1..n : frames[i].call = "write" =>
          /\ frames[i].writer \in Writers /\ frames[i].chunk \in Chunks
          /\ s.writeP[frames[i].chunk] = "called"
  BY <1>2 DEF Suspended
<1>6. \A i, j \in 1..n :
          frames[i].call = "write" /\ frames[j].call = "write" /\ frames[i].chunk = frames[j].chunk
              => i = j
  BY <1>2 DEF Suspended
<1>7. Innermost = frames[n]
  BY <1>2 DEF Innermost
<1>8. ASSUME NEW i \in 1..n - 1, frames[i].call = "write"
      PROVE  s'.writeP[frames[i].chunk] = "called"
  BY <1>4, <1>5, <1>6, <1>7, <1>8 DEF Keeps, KeepsBut
<1>9. \A i \in 1..n - 1 : frames'[i].call = "write" =>
          /\ frames'[i].writer \in Writers /\ frames'[i].chunk \in Chunks
          /\ s'.writeP[frames'[i].chunk] = "called"
  BY <1>3, <1>4, <1>5, <1>8
<1>10. \A i, j \in 1..n - 1 :
          frames'[i].call = "write" /\ frames'[j].call = "write"
          /\ frames'[i].chunk = frames'[j].chunk => i = j
  BY <1>3, <1>4, <1>6
<1> QED BY <1>3, <1>9, <1>10 DEF Suspended, Frames, FrameSet

LEMMA NoFrames ==
    ASSUME Suspended, frames = <<>>, UNCHANGED frames
    PROVE  Suspended'
<1>1. Len(frames') = 0
  OBVIOUS
<1> QED BY <1>1 DEF Suspended

-----------------------------------------------------------------------------
(* Every step.                                                             *)

Follows == WInv(s') /\ Suspended' /\ Serves(s, s')

LEMMA JsHolds ==
    ASSUME WInv(s), Suspended, Js
    PROVE  Follows
<1>1. s \in WStates
  BY DEF WInv
<1>2. ASSUME NEW w \in Writers, GetWriter(w)
      PROVE  Follows
  BY <1>1, <1>2, SettingUpWriter, FramesKept DEF GetWriter, Follows
<1>3. ASSUME NEW w \in Writers, ReleaseLock(w)
      PROVE  Follows
  BY <1>1, <1>3, Releasing, FramesKept DEF ReleaseLock, Follows
<1>4. ASSUME NEW w \in Writers, NEW c \in Chunks, Write(w, c)
      PROVE  Follows
  <2>1. s.writeP[c] = "none" /\ NotYet(s, c)
    BY <1>4 DEF Write, NotYet
  <2>2. CASE s.algorithms
    <3>1. s' = [s EXCEPT !.writeP[c] = "called"]
          /\ frames' = Append(frames, [call |-> "write", writer |-> w, chunk |-> c])
      BY <1>4, <2>2 DEF Write
    <3>2. WInv(s') /\ Unseen(s, s') /\ KeepsBut(c, s, s') /\ s'.writeP[c] = "called"
      BY <1>1, <2>1, <3>1, Settling
    <3>3. Keeps(s, s')
      BY <2>1, <3>2 DEF Keeps, KeepsBut
    <3>4. PICK f \in FrameSet : f = [call |-> "write", writer |-> w, chunk |-> c]
      BY DEF FrameSet
    <3>5. Suspended'
      BY <2>1, <3>1, <3>2, <3>3, <3>4, FramePushed
    <3> QED BY <3>2, <3>5 DEF Follows, Serves
  <2>3. CASE ~s.algorithms
    <3>1. s' = FinishWrite(s, w, c, 1) /\ UNCHANGED frames
      BY <1>4, <2>3 DEF Write
    <3>2. WInv(s') /\ Serves(s, s') /\ KeepsBut(c, s, s')
      BY <1>1, <2>1, <3>1, FinishWriteHolds
    <3>3. Keeps(s, s')
      BY <2>1, <3>2 DEF Keeps, KeepsBut
    <3> QED BY <3>1, <3>2, <3>3, FramesKept DEF Follows
  <2> QED BY <2>2, <2>3
<1>5. CASE Abort
  <2>1. WInv(s') /\ Serves(s, s') /\ Keeps(s, s')
    BY <1>1, <1>5, SignalHolds DEF Abort
  <2>2. PICK f \in FrameSet : f = [call |-> "abort", writer |-> NoWriter, chunk |-> NoChunk]
    BY DEF FrameSet
  <2>3. frames' = Append(frames, f) /\ f.call = "abort"
    BY <1>5, <2>2 DEF Abort
  <2> QED BY <2>1, <2>3, FramePushed DEF Follows
<1>6. CASE AbortAgain
  BY <1>1, <1>6, AbortHolds, FramesKept DEF AbortAgain, Follows
<1>7. CASE Close
  BY <1>1, <1>7, CloseHolds, FramesKept DEF Close, Follows
<1>8. CASE Error
  <2>1. s' = ControllerErrorIfNeeded(s) /\ UNCHANGED frames
    BY <1>8 DEF Error, ControllerErrorIfNeeded
  <2> QED BY <1>1, <2>1, ErrorIfNeededHolds, FramesKept DEF Follows
<1> QED BY <1>2, <1>3, <1>4, <1>5, <1>6, <1>7, <1>8 DEF Js

LEMMA AuthorCodeHolds ==
    ASSUME WInv(s), Suspended, AuthorCodeReturns
    PROVE  Follows
<1>1. s \in WStates
  BY DEF WInv
<1>2. ASSUME InCall("write")
      PROVE  /\ frames # <<>> /\ Innermost.call = "write"
             /\ Innermost.writer \in Writers /\ Innermost.chunk \in Chunks
             /\ s.writeP[Innermost.chunk] = "called" /\ NotYet(s, Innermost.chunk)
  <2>1. frames \in Seq(FrameSet) /\ frames # <<>> /\ Innermost.call = "write"
    BY <1>2 DEF Suspended, Frames, FrameSet, InCall
  <2>2. Len(frames) \in 1..Len(frames)
    <3>1. PICK n \in Nat : n = Len(frames) /\ n # 0
      BY <2>1, Lengths
    <3> QED BY <3>1
  <2> QED BY <2>1, <2>2 DEF Suspended, Innermost, NotYet
<1>3. ASSUME NEW size \in Sizes, SizeReturns(size)
      PROVE  Follows
  <2>1. InCall("write") /\ PopFrame /\ size \in Int
        /\ s' = FinishWrite(s, Innermost.writer, Innermost.chunk, size)
    BY <1>3, ConstantsAssumption DEF SizeReturns
  <2>2. WInv(s') /\ Serves(s, s') /\ KeepsBut(Innermost.chunk, s, s')
    BY <1>1, <1>2, <2>1, FinishWriteHolds
  <2> QED BY <1>2, <2>1, <2>2, FramePopped DEF Follows
<1>4. CASE SizeThrows
  <2>1. InCall("write") /\ PopFrame
        /\ s' = FinishWrite(ControllerErrorIfNeeded(s), Innermost.writer, Innermost.chunk, 1)
    BY <1>4 DEF SizeThrows
  <2>2. WInv(s') /\ Serves(s, s') /\ KeepsBut(Innermost.chunk, s, s')
    BY <1>1, <1>2, <2>1, ThrowingHolds
  <2> QED BY <1>2, <2>1, <2>2, FramePopped DEF Follows
<1>5. CASE SignalReturns
  <2>1. frames # <<>> /\ PopFrame /\ s' = FinishAbort(s)
    BY <1>5 DEF SignalReturns, InCall
  <2> QED BY <1>1, <2>1, AbortHolds, FramePopped DEF Follows
<1> QED BY <1>3, <1>4, <1>5 DEF AuthorCodeReturns

LEMMA ReactionHolds ==
    ASSUME WInv(s), Suspended, Reaction
    PROVE  Follows
<1>1. s \in WStates
  BY DEF WInv
<1>2. frames = <<>> /\ UNCHANGED frames
  BY DEF Reaction, StartFulfilled, StartRejected, WriteFulfilled, WriteRejected, CloseFulfilled,
         CloseRejected, AbortSettled
<1>3. Suspended'
  BY <1>2, NoFrames
<1>4. CASE StartFulfilled \/ StartRejected
  <2>1. PICK p : p = [SinkAnswered(DebugAssert(s, Active(s))) EXCEPT !.started = TRUE]
    OBVIOUS
  <2>2. s.sink = "start" /\ (s' = AdvanceQueueIfNeeded(p) \/ s' = DealWithRejection(p))
    BY <1>4, <2>1 DEF StartFulfilled, StartRejected
  <2> QED BY <1>1, <1>3, <2>1, <2>2, StartedHolds DEF Follows
<1>5. CASE WriteFulfilled
  BY <1>1, <1>3, <1>5, WriteFulfilledHolds DEF WriteFulfilled, Follows
<1>6. CASE WriteRejected
  BY <1>1, <1>3, <1>6, WriteRejectedHolds DEF WriteRejected, Follows
<1>7. CASE CloseFulfilled
  BY <1>1, <1>3, <1>7, CloseFulfilledHolds DEF CloseFulfilled, Follows
<1>8. CASE CloseRejected
  BY <1>1, <1>3, <1>8, CloseRejectedHolds DEF CloseRejected, Follows
<1>9. ASSUME NEW how \in {"resolved", "rejected"}, AbortSettled(how)
      PROVE  Follows
  BY <1>1, <1>3, <1>9, AbortSettledHolds DEF AbortSettled, Follows
<1> QED BY <1>4, <1>5, <1>6, <1>7, <1>8, <1>9 DEF Reaction

LEMMA StepHolds ==
    ASSUME StreamInv, Next
    PROVE  Follows
BY JsHolds, AuthorCodeHolds, ReactionHolds DEF StreamInv, Next

-----------------------------------------------------------------------------
(* What follows for the stream.                                            *)

LEMMA NewStreamHolds ==
    ASSUME Init
    PROVE  /\ WInv(s) /\ Suspended
           /\ s.sink = "start" /\ s.answers = 0 /\ s.accepted = <<>> /\ s.written = <<>>
           /\ FateOf(s) = "open"
<1>1. PICK r : r = NewStream
  OBVIOUS
<1>2. r \in WStates
  <2>1. /\ [w \in Writers |-> "never"] \in [Writers -> {"never", "yes", "no"}]
        /\ [w \in Writers |-> "none"] \in [Writers -> Status]
        /\ [c \in Chunks |-> "none"] \in [Chunks -> Status]
        /\ <<>> \in Seq(Chunks) /\ <<>> \in Seq(Items)
    BY DEF Status
  <2> QED BY <1>1, <2>1 DEF NewStream, WStates, Status
<1>3. /\ r.state = "writable" /\ r.storedError = "undefined" /\ r.writer = NoWriter
      /\ r.closeRequest = FALSE /\ r.inFlightClose = FALSE /\ r.inFlightWrite = NoChunk
      /\ r.writeRequests = <<>> /\ r.pendingAbort = "none" /\ r.queue = <<>>
      /\ r.started = FALSE /\ r.algorithms = TRUE
      /\ r.owned = [w \in Writers |-> "never"] /\ r.writeP = [c \in Chunks |-> "none"]
      /\ r.closeP = "none" /\ r.abortP = "none" /\ r.sink = "start" /\ r.answers = 0
      /\ r.accepted = <<>> /\ r.written = <<>> /\ r.ended = FALSE /\ r.skipped = FALSE
      /\ r.ok = TRUE
  BY <1>1 DEF NewStream
<1>4. Len(r.writeRequests) = 0 /\ Len(r.queue) = 0 /\ Len(r.accepted) = 0 /\ Len(r.written) = 0
  BY <1>3
<1>5. Owners(r) /\ WriterWaits(r)
  BY <1>3 DEF Owners, WriterWaits, Locked
<1>6. SinkCall(r) /\ Erring(r) /\ NothingFailed(r)
  BY <1>3 DEF SinkCall, Erring, NothingFailed, Active, Over
<1>7. Requests(r) /\ Pending(r)
  BY <1>3, <1>4, NamesAssumption, NoneHeld DEF Requests, Pending
<1>8. NoError(r) /\ Queued(r) /\ InOrder(r) /\ Resolved(r)
  BY <1>3, <1>4 DEF NoError, Queued, Ahead, InOrder, Resolved
<1>9. UpdateBackpressureIfOpen(r) = UpdateBackpressure(r)
  BY <1>3 DEF UpdateBackpressureIfOpen, CloseQueuedOrInFlight
<1>10. s = UpdateBackpressureIfOpen(r) /\ frames = <<>>
  BY <1>1, <1>9 DEF Init, SetUpController
<1>11. s \in WStates /\ Updated(r, s)
  BY <1>2, <1>3, <1>10, Updating DEF Locked
<1>12. Always(s) /\ Open(s)
  BY <1>2, <1>5, <1>6, <1>7, <1>8, <1>11, UpdatedHolds DEF Always
<1>13. /\ s.state = "writable" /\ s.sink = "start" /\ s.answers = 0 /\ s.accepted = <<>>
       /\ s.written = <<>> /\ s.ended = FALSE
  BY <1>3, <1>11 DEF Updated, SameState, SameSink, SameCalls
<1>14. WInv(s)
  BY <1>11, <1>12, <1>13 DEF WInv, AtRest
<1>15. Suspended
  <2>1. Len(frames) = 0 /\ frames \in Frames
    BY <1>10 DEF Frames
  <2> QED BY <2>1 DEF Suspended
<1> QED BY <1>13, <1>14, <1>15 DEF FateOf

\* StreamInv is an invariant: the stream's record is consistent after every call, whatever
\* author code, other calls and the sink's answers came in between.
THEOREM StreamStaysConsistent == Spec => []StreamInv
<1>1. Init => StreamInv
  BY NewStreamHolds DEF StreamInv
<1>2. StreamInv /\ [Next]_vars => StreamInv'
  <2>1. StreamInv /\ Next => StreamInv'
    BY StepHolds DEF Follows, StreamInv
  <2>2. StreamInv /\ UNCHANGED vars => StreamInv'
    BY DEF vars, StreamInv, Suspended
  <2> QED BY <2>1, <2>2
<1> QED BY <1>1, <1>2, PTL DEF Spec

LEMMA EverybodyAnswered ==
    ASSUME StreamInv
    PROVE  ClosedMeansWritten /\ NothingLeftPending /\ QueuesAgree /\ ReadyTellsBackpressure
<1>1. s \in WStates /\ Always(s) /\ Open(s) /\ AtRest(s)
  BY DEF StreamInv, WInv
<1>2. ClosedMeansWritten
  <2>1. DOMAIN s.accepted = 1..Len(s.accepted)
    BY <1>1 DEF WStates
  <2> QED BY <1>1, <2>1 DEF ClosedMeansWritten, Always, Pending, Range
<1>3. NothingLeftPending
  <2>1. ASSUME Over(s), s.sink = "idle"
        PROVE  /\ \A c \in Chunks : s.writeP[c] # "pending"
               /\ s.closeP # "pending" /\ s.abortP # "pending"
               /\ Locked(s) => s.ready[s.writer] # "pending" /\ s.closed[s.writer] # "pending"
    <3>1. s.inFlightWrite = NoChunk /\ ~s.inFlightClose /\ s.writeRequests = <<>> /\ ~Active(s)
          /\ ~s.closeRequest /\ s.pendingAbort = "none" /\ s.state # "writable"
      BY <1>1, <2>1 DEF Always, SinkCall, Requests, Erring, Over, Active
    <3>2. \A c \in Chunks : s.writeP[c] # "pending"
      BY <1>1, <3>1, NoneHeld, NamesAssumption DEF Always, Pending
    <3>3. s.closeP # "pending" /\ s.abortP # "pending"
      BY <1>1, <2>1, <3>1 DEF Always, Pending
    <3>4. Locked(s) => s.ready[s.writer] # "pending" /\ s.closed[s.writer] # "pending"
      BY <1>1, <2>1, <3>1 DEF Always, WriterWaits
    <3> QED BY <3>2, <3>3, <3>4
  <2> QED BY <2>1 DEF NothingLeftPending, Over
<1>4. QueuesAgree
  <2>1. ASSUME s.state = "writable"
        PROVE  /\ Len(s.queue) = Len(Waiting) + (IF s.closeRequest THEN 1 ELSE 0)
               /\ \A i \in 1..Len(Waiting) : s.queue[i].chunk = Waiting[i]
               /\ s.closeRequest => s.queue[Len(s.queue)].chunk = CloseSentinel
    <3>1. Queued(s)
      BY <1>1, <2>1 DEF Open
    <3>2. s.writeRequests \in Seq(Chunks) /\ s.inFlightWrite \in Chunks \cup {NoChunk}
      BY <1>1 DEF WStates
    <3>3. PICK k \in Nat : k = Len(s.writeRequests)
      BY <3>2, Lengths
    <3>4. CASE s.inFlightWrite = NoChunk
      <4>1. Waiting = s.writeRequests /\ Ahead(s) = 0
        BY <3>4 DEF Waiting, Ahead
      <4>2. \A i \in 1..k : 0 + i = i
        BY <3>3
      <4>3. \A i \in 1..k : s.queue[i].chunk = Waiting[i]
        BY <3>1, <3>3, <4>1, <4>2 DEF Queued
      <4>4. Len(s.queue) = k + (IF s.closeRequest THEN 1 ELSE 0)
        BY <3>1, <3>3, <4>1 DEF Queued
      <4> QED BY <3>1, <3>3, <4>1, <4>3, <4>4 DEF Queued
    <3>5. CASE s.inFlightWrite # NoChunk
      <4>1. Waiting = <<s.inFlightWrite>> \o s.writeRequests /\ Ahead(s) = 1
        BY <3>5 DEF Waiting, Ahead
      <4>2. /\ Len(Waiting) = 1 + k /\ Waiting[1] = s.inFlightWrite
            /\ \A i \in 2..1 + k : Waiting[i] = s.writeRequests[i - 1]
        BY <3>2, <3>3, <3>5, <4>1
      <4>3. ASSUME NEW i \in 1..1 + k
            PROVE  s.queue[i].chunk = Waiting[i]
        <5>1. CASE i = 1
          BY <3>1, <3>5, <4>2, <5>1 DEF Queued
        <5>2. CASE i # 1
          <6>1. i - 1 \in 1..k /\ 1 + (i - 1) = i /\ i \in 2..1 + k
            BY <3>3, <5>2
          <6>2. s.queue[1 + (i - 1)].chunk = s.writeRequests[i - 1]
            BY <3>1, <3>3, <4>1, <6>1 DEF Queued
          <6> QED BY <4>2, <6>1, <6>2
        <5> QED BY <5>1, <5>2
      <4> QED BY <3>1, <3>3, <4>1, <4>2, <4>3 DEF Queued
    <3> QED BY <3>4, <3>5
  <2> QED BY <2>1 DEF QueuesAgree
<1>5. ReadyTellsBackpressure
  BY <1>1 DEF Open, Backpressure, ReadyTellsBackpressure
<1> QED BY <1>2, <1>3, <1>4, <1>5

LEMMA NothingFails ==
    ASSUME StreamInv
    PROVE  TypeOK /\ AssertsHold /\ SinkMethodsReached
<1>1. s \in WStates /\ NothingFailed(s) /\ frames \in Frames
  BY DEF StreamInv, WInv, Always, Suspended
<1>2. TypeOK
  BY <1>1 DEF WStates, Frames, TypeOK
<1>3. AssertsHold /\ SinkMethodsReached
  BY <1>1 DEF NothingFailed, AssertsHold, SinkMethodsReached
<1> QED BY <1>2, <1>3

=============================================================================
