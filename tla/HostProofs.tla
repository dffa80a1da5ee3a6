------------------------------ MODULE HostProofs ------------------------------
(***************************************************************************)
(* Proof of the servers' invariants that the runs check, for any clients,  *)
(* requests, limits and clock readings: each is lifted from the            *)
(* specification of its component (NativeServerProofs, WasmServerProofs)   *)
(* to the behaviours of MCHost that follow that component.                 *)
(***************************************************************************)
EXTENDS MCHost, TLAPS

\* The servers are steps of their own specifications.
LEMMA Follows ==
    ASSUME [Next]_<<kind, s, frames>>
    PROVE  /\ kind' = "native" => kind = "native" /\ [N!Next]_s
           /\ kind' = "component" => kind = "component" /\ [C!Next]_s
           /\ kind' = "request body" => kind = "request body" /\ [Q!Next]_s
           /\ kind' = "wire body" => kind = "wire body" /\ [W!Next]_s
           /\ kind' = "pump" => kind = "pump" /\ [P!Next]_s
BY DEF Next

\* Realms are left in the reverse of the order in which they were entered, no request starts on
\* a connection that its last request's work gave up, and a connection that ends, whichever way,
\* leaves neither a loop nor a slot behind (serve_native.rs: run_server, drive_connection).
THEOREM ServerKeepsItsOrder == Spec => []ServerKeepsOrder
<1> DEFINE Inv == kind = "native" => N!IInv
<1>1. Init => Inv
  BY ServerAssumption, N!Initially DEF Init
<1>2. Inv /\ [Next]_<<kind, s, frames>> => Inv'
  <2> SUFFICES ASSUME Inv, [Next]_<<kind, s, frames>>, kind' = "native"
               PROVE  N!IInv'
    OBVIOUS
  <2>1. N!IInv /\ [N!Next]_s
    BY Follows
  <2> QED BY <2>1, ServerAssumption, N!Inductive
<1>3. Inv => ServerKeepsOrder
  BY ServerAssumption, N!InvariantHolds DEF ServerKeepsOrder
<1> HIDE DEF Inv
<1> QED BY <1>1, <1>2, <1>3, PTL DEF Spec

\* A request that waits for the top level is never left without one that drives it, no handler
\* runs before the top level is done, and no clock that script code saw goes back over a
\* snapshot (lib.rs: ensure_started, STARTUP, fix_up_after_resume).
THEOREM StartupIsAlwaysDriven == Spec => []StartupIsDriven
<1> DEFINE Inv == kind = "component" => C!IInv
<1>1. Init => Inv
  BY C!Initially DEF Init
<1>2. Inv /\ [Next]_<<kind, s, frames>> => Inv'
  <2> SUFFICES ASSUME Inv, [Next]_<<kind, s, frames>>, kind' = "component"
               PROVE  C!IInv'
    OBVIOUS
  <2>1. C!IInv /\ [C!Next]_s
    BY Follows
  <2> QED BY <2>1, C!Inductive
<1>3. Inv => StartupIsDriven
  BY C!InvariantHolds DEF StartupIsDriven
<1> HIDE DEF Inv
<1> QED BY <1>1, <1>2, <1>3, PTL DEF Spec

-----------------------------------------------------------------------------
(* The body of a request.                                                  *)

Pieces == Seq(Nat)
RequestBodyStates ==
    [timeouts : BOOLEAN, client : {"sending", "ended", "failed"}, sent : Nat, frame : Pieces,
     pc : {"frame", "piece", "error", "done"}, sink : {"reading", "discarding"}, budget : Nat,
     chan : Pieces, receiver : BOOLEAN, close : BOOLEAN, got : Pieces,
     seen : {"none", "error", "end"}, late : BOOLEAN]
RequestBodyType == s \in RequestBodyStates

\* The pump reads as long as nothing went wrong.
Pumping == s.pc \in {"frame", "piece"}

\* What is left of a frame is the last that was sent.
FrameIsRest ==
    /\ s.pc = "frame" => s.frame = <<>>
    /\ s.pc = "piece" =>
         /\ Len(s.frame) \in 1..s.sent
         /\ \A i \in 1..Len(s.frame) : s.frame[i] = s.sent - Len(s.frame) + i
    /\ Pumping => s.client = "sending" /\ s.sent <= MaxBody

\* The reader has a prefix of the body and the channel what follows, or the error at its end.
ChannelFollows ==
    /\ \A i \in 1..Len(s.got) : s.got[i] = i
    /\ \A i \in 1..Len(s.chan) :
         \/ s.chan[i] = Len(s.got) + i
         \/ i = Len(s.chan) /\ s.chan[i] = Q!ErrorItem /\ s.pc = "done" /\ s.sink = "reading"
    /\ ~s.receiver => s.chan = <<>>
    /\ Pumping => Len(s.got) + Len(s.chan) + Len(s.frame) <= s.sent
    /\ Pumping /\ s.sink = "reading" /\ s.receiver =>
         Len(s.got) + Len(s.chan) + Len(s.frame) = s.sent

\* How the pump ends, and what the reader is told of it.
EndsHonestly ==
    /\ ~Pumping /\ ~s.close => s.pc = "done" /\ s.client = "ended" /\ s.sent <= MaxBody
    /\ s.pc = "error" => s.sink = "reading"
    /\ s.seen = "none" /\ s.receiver /\ s.sink = "discarding" => s.late
    /\ s.seen = "none" /\ s.receiver /\ s.sink = "reading" /\ s.pc = "done" =>
         \/ s.client = "ended" /\ Len(s.got) + Len(s.chan) = s.sent
         \/ s.chan # <<>> /\ s.chan[Len(s.chan)] = Q!ErrorItem
    /\ s.seen = "end" /\ ~s.late => s.pc = "done" /\ s.client = "ended" /\ Len(s.got) = s.sent
    /\ s.seen = "error" => s.pc = "done"

RequestBodyInv == RequestBodyType /\ FrameIsRest /\ ChannelFollows /\ EndsHonestly

\* What the operators on sequences return: q is p without its first piece, or with x at its end.
IsTail(q, p) ==
    /\ q \in Pieces /\ Len(q) = Len(p) - 1
    /\ \A i \in 1..Len(p) - 1 : q[i] = p[i + 1]
IsAppended(q, p, x) ==
    /\ q \in Pieces /\ Len(q) = Len(p) + 1 /\ q[Len(p) + 1] = x
    /\ \A i \in 1..Len(p) : q[i] = p[i]

LEMMA TailOf ==
    ASSUME NEW p \in Pieces, p # <<>>
    PROVE  IsTail(Tail(p), p) /\ Head(p) = p[1] /\ p[1] \in Nat
BY DEF Pieces, IsTail

LEMMA AppendOf ==
    ASSUME NEW p \in Pieces, NEW x \in Nat
    PROVE  IsAppended(Append(p, x), p, x)
BY DEF Pieces, IsAppended

LEMMA LengthOf ==
    /\ <<>> \in Pieces /\ Len(<<>>) = 0
    /\ \A p \in Pieces : Len(p) \in Nat /\ (Len(p) = 0 <=> p = <<>>)
BY DEF Pieces

\* Every field but those of the pump is as it was.
ReaderSame == s'.receiver = s.receiver /\ s'.got = s.got /\ s'.seen = s.seen

\* The pump fails, or goes on to the next piece.
PumpFails(client, sent, sink, late) ==
    /\ s' \in RequestBodyStates
    /\ s'.close /\ s'.pc = IF sink = "reading" THEN "error" ELSE "done"
    /\ s'.client = client /\ s'.sent = sent /\ s'.sink = sink /\ s'.late = late
    /\ s'.frame = s.frame /\ s'.chan = s.chan /\ ReaderSame
PumpGoesOn(sink, late) ==
    /\ s' \in RequestBodyStates
    /\ IsTail(s'.frame, s.frame) /\ s'.pc = IF Len(s.frame) = 1 THEN "frame" ELSE "piece"
    /\ s'.sink = sink /\ s'.late = late
    /\ s'.client = s.client /\ s'.sent = s.sent /\ s'.close = s.close /\ ReaderSame

LEMMA Failing ==
    ASSUME NEW r \in RequestBodyStates
    PROVE  /\ Q!Fail(r) \in RequestBodyStates
           /\ Q!Fail(r).close /\ Q!Fail(r).pc = (IF r.sink = "reading" THEN "error" ELSE "done")
           /\ Q!Fail(r).client = r.client /\ Q!Fail(r).sent = r.sent /\ Q!Fail(r).sink = r.sink
           /\ Q!Fail(r).late = r.late /\ Q!Fail(r).frame = r.frame /\ Q!Fail(r).chan = r.chan
           /\ Q!Fail(r).receiver = r.receiver /\ Q!Fail(r).got = r.got /\ Q!Fail(r).seen = r.seen
BY DEF Q!Fail, RequestBodyStates

LEMMA GoingOn ==
    ASSUME NEW r \in RequestBodyStates, r.frame # <<>>
    PROVE  LET t == Q!NextPiece(r)
           IN /\ t \in RequestBodyStates
              /\ IsTail(t.frame, r.frame) /\ t.pc = (IF Len(r.frame) = 1 THEN "frame" ELSE "piece")
              /\ t.client = r.client /\ t.sent = r.sent /\ t.sink = r.sink /\ t.close = r.close
              /\ t.late = r.late /\ t.chan = r.chan
              /\ t.receiver = r.receiver /\ t.got = r.got /\ t.seen = r.seen
<1>1. PICK q : q = Tail(r.frame)
  OBVIOUS
<1>2. q \in Pieces /\ IsTail(q, r.frame)
  BY <1>1, TailOf DEF RequestBodyStates, IsTail
<1> QED BY <1>1, <1>2 DEF Q!NextPiece, RequestBodyStates

LEMMA Discarding ==
    ASSUME NEW r \in RequestBodyStates, r.frame # <<>>, r.frame = s.frame, r.chan = s.chan,
           r.client = s.client, r.sent = s.sent, r.receiver = s.receiver, r.got = s.got,
           r.seen = s.seen, r.close = s.close, r.sink = "discarding", s' = Q!Discard(r)
    PROVE  \/ PumpFails(s.client, s.sent, "discarding", r.late)
           \/ (s'.chan = s.chan /\ PumpGoesOn("discarding", r.late))
<1>1. CASE r.budget = 0
  BY <1>1, Failing DEF Q!Discard, PumpFails, ReaderSame
<1>2. CASE r.budget # 0
  <2>1. PICK t : t = [r EXCEPT !.budget = r.budget - 1]
    OBVIOUS
  <2>2. /\ t \in RequestBodyStates /\ t.frame = r.frame /\ t.chan = r.chan
        /\ t.client = r.client /\ t.sent = r.sent /\ t.receiver = r.receiver /\ t.got = r.got
        /\ t.seen = r.seen /\ t.close = r.close /\ t.sink = "discarding" /\ t.late = r.late
    BY <1>2, <2>1 DEF RequestBodyStates
  <2>3. s' = Q!NextPiece(t)
    BY <1>2, <2>1 DEF Q!Discard
  <2> QED BY <2>2, <2>3, GoingOn DEF PumpGoesOn, ReaderSame
<1> QED BY <1>1, <1>2

\* A frame is too much, fails, or is taken; the body ends.
TooMuch(sent) ==
    s.pc = "frame" /\ sent > MaxBody /\ sent \in Nat /\ PumpFails(s.client, sent, s.sink, s.late)
NoFrame(client) ==
    s.pc = "frame" /\ PumpFails(client, s.sent, s.sink, s.late)
Takes(n) ==
    /\ s.pc = "frame" /\ s' \in RequestBodyStates
    /\ s'.sent = s.sent + n /\ n \in 1..s'.sent /\ s'.sent <= MaxBody
    /\ s'.pc = "piece" /\ Len(s'.frame) = n /\ \A i \in 1..n : s'.frame[i] = s.sent + i
    /\ s'.client = s.client /\ s'.sink = s.sink /\ s'.chan = s.chan
    /\ s'.close = s.close /\ s'.late = s.late /\ ReaderSame
\* A piece is discarded, because others were or the reader is gone or late; or it is sent.
Discards(late) ==
    /\ s.pc = "piece"
    /\ \/ late = s.late /\ s.sink = "discarding"
       \/ late = s.late /\ ~s.receiver
       \/ late = TRUE
    /\ \/ PumpFails(s.client, s.sent, "discarding", late)
       \/ s'.chan = s.chan /\ PumpGoesOn("discarding", late)
Sends ==
    /\ s.pc = "piece" /\ s.sink = "reading" /\ s.receiver
    /\ IsAppended(s'.chan, s.chan, s.frame[1]) /\ PumpGoesOn("reading", s.late)
\* The error is sent, or nobody is there for it; it is read, or a piece is.
PumpSame ==
    /\ s' \in RequestBodyStates
    /\ s'.client = s.client /\ s'.sent = s.sent /\ s'.frame = s.frame /\ s'.sink = s.sink
    /\ s'.close = s.close /\ s'.late = s.late
SendsError ==
    /\ s.pc = "error" /\ s.receiver /\ s'.pc = "done" /\ PumpSame /\ ReaderSame
    /\ IsAppended(s'.chan, s.chan, Q!ErrorItem)
GivesUp ==
    s.pc = "error" /\ ~s.receiver /\ s'.pc = "done" /\ PumpSame /\ ReaderSame /\ s'.chan = s.chan
ReadsError ==
    /\ s.receiver /\ s.seen = "none" /\ s.chan # <<>> /\ s.chan[1] = Q!ErrorItem
    /\ s'.chan = <<>> /\ s'.seen = "error" /\ s'.pc = s.pc /\ s'.receiver /\ s'.got = s.got /\ PumpSame
ReadsPiece ==
    /\ s.receiver /\ s.seen = "none" /\ s.chan # <<>> /\ s.chan[1] # Q!ErrorItem
    /\ IsTail(s'.chan, s.chan) /\ IsAppended(s'.got, s.got, s.chan[1])
    /\ s'.pc = s.pc /\ s'.seen = "none" /\ s'.receiver /\ PumpSame

RequestBodySteps ==
    \/ (\E sent \in Nat : TooMuch(sent)) \/ (\E client \in {"sending", "failed"} : NoFrame(client))
    \/ (\E n \in Nat : Takes(n)) \/ Q!FrameEnd
    \/ (\E late \in BOOLEAN : Discards(late)) \/ Sends \/ SendsError \/ GivesUp
    \/ ReadsError \/ ReadsPiece \/ Q!ReadEnd \/ Q!Drop

LEMMA NextRequestBodySteps ==
    ASSUME RequestBodyInv, Q!Next
    PROVE  RequestBodySteps
<1>1. /\ s \in RequestBodyStates
      /\ s.pc = "piece" => s.frame # <<>>
      /\ Pumping => s.client = "sending"
  BY LengthOf DEF RequestBodyInv, RequestBodyType, FrameIsRest, RequestBodyStates
<1>2. ASSUME NEW n \in 1..MaxFrame, Q!Frame(n)
      PROVE  RequestBodySteps
  <2>1. PICK r : r = [s EXCEPT !.sent = s.sent + n]
    OBVIOUS
  <2>2. n \in Nat /\ s.sent + n \in Nat
    BY <1>1 DEF RequestBodyStates
  <2>3. /\ r \in RequestBodyStates /\ r.sent = s.sent + n
        /\ r.sink = s.sink /\ r.client = s.client /\ r.late = s.late /\ r.frame = s.frame
        /\ r.chan = s.chan /\ r.receiver = s.receiver /\ r.got = s.got /\ r.seen = s.seen
    BY <1>1, <2>1, <2>2 DEF RequestBodyStates
  <2>4. s.pc = "frame" /\ s' = IF r.sent > MaxBody THEN Q!Fail(r)
                               ELSE [r EXCEPT !.frame = [i \in 1..n |-> s.sent + i], !.pc = "piece"]
    BY <1>2, <2>1 DEF Q!Frame
  <2>5. CASE r.sent > MaxBody
    <3>1. PumpFails(s.client, s.sent + n, s.sink, s.late)
      BY <2>3, <2>4, <2>5, Failing DEF PumpFails, ReaderSame
    <3> QED BY <2>2, <2>3, <2>4, <2>5, <3>1 DEF RequestBodySteps, TooMuch
  <2>6. CASE ~(r.sent > MaxBody)
    <3>1. s.sent + n <= MaxBody /\ n \in 1..s.sent + n /\ s.sent \in Nat
      BY <1>1, <2>2, <2>3, <2>6, BodyAssumption DEF RequestBodyStates
    <3>2. PICK frame : frame = [i \in 1..n |-> s.sent + i]
      OBVIOUS
    <3>3. frame \in Pieces /\ Len(frame) = n /\ \A i \in 1..n : frame[i] = s.sent + i
      <4>1. frame \in [1..n -> Nat]
        BY <3>1, <3>2
      <4> QED BY <2>2, <3>2, <4>1 DEF Pieces
    <3>4. s' = [s EXCEPT !.sent = s.sent + n, !.frame = frame, !.pc = "piece"]
      BY <1>1, <2>1, <2>4, <2>6, <3>2 DEF RequestBodyStates
    <3>5. /\ s' \in RequestBodyStates /\ s'.sent = s.sent + n /\ s'.frame = frame /\ s'.pc = "piece"
          /\ s'.client = s.client /\ s'.sink = s.sink /\ s'.chan = s.chan /\ s'.close = s.close
          /\ s'.late = s.late /\ ReaderSame
      BY <1>1, <2>2, <3>3, <3>4 DEF RequestBodyStates, ReaderSame
    <3>6. Takes(n)
      BY <2>4, <3>1, <3>3, <3>5 DEF Takes
    <3> QED BY <2>2, <3>6 DEF RequestBodySteps
  <2> QED BY <2>5, <2>6
<1>3. ASSUME Q!FrameFails
      PROVE  NoFrame("failed")
  <2>1. PICK r : r = [s EXCEPT !.client = "failed"]
    OBVIOUS
  <2>2. /\ r \in RequestBodyStates /\ r.client = "failed" /\ r.sent = s.sent
        /\ r.sink = s.sink /\ r.late = s.late /\ r.frame = s.frame
        /\ r.chan = s.chan /\ r.receiver = s.receiver /\ r.got = s.got /\ r.seen = s.seen
    BY <1>1, <2>1 DEF RequestBodyStates
  <2>3. s.pc = "frame" /\ s' = Q!Fail(r)
    BY <1>3, <2>1 DEF Q!FrameFails
  <2> QED BY <2>2, <2>3, Failing DEF NoFrame, PumpFails, ReaderSame
<1>4. ASSUME Q!FrameStalls
      PROVE  NoFrame("sending")
  BY <1>1, <1>4, Failing DEF Q!FrameStalls, NoFrame, PumpFails, ReaderSame, Pumping
<1>5. ASSUME NEW late \in BOOLEAN, s.pc = "piece", late = s.late \/ late = TRUE,
             s' = Q!StartDiscarding([s EXCEPT !.late = late])
      PROVE  \/ PumpFails(s.client, s.sent, "discarding", late)
             \/ (s'.chan = s.chan /\ PumpGoesOn("discarding", late))
  <2>1. PICK r : r = [[s EXCEPT !.late = late] EXCEPT !.sink = "discarding"]
    OBVIOUS
  <2>2. /\ r \in RequestBodyStates /\ r.frame = s.frame /\ r.chan = s.chan
        /\ r.client = s.client /\ r.sent = s.sent /\ r.receiver = s.receiver /\ r.got = s.got
        /\ r.seen = s.seen /\ r.close = s.close /\ r.sink = "discarding" /\ r.late = late
    BY <1>1, <2>1 DEF RequestBodyStates
  <2>3. s' = Q!Discard(r) /\ r.frame # <<>>
    BY <1>1, <1>5, <2>1, <2>2 DEF Q!StartDiscarding
  <2> QED BY <2>2, <2>3, Discarding
<1>6. ASSUME Q!Accept
      PROVE  Discards(s.late) \/ Sends
  <2>1. s.pc = "piece" /\ s.frame # <<>> /\ s.late \in BOOLEAN /\ s.chan \in Pieces
        /\ s.sink \in {"reading", "discarding"}
    BY <1>1, <1>6 DEF Q!Accept, RequestBodyStates
  <2>2. CASE s.sink = "discarding"
    <3>1. s' = Q!Discard(s)
      BY <1>6, <2>2 DEF Q!Accept
    <3>2. \/ PumpFails(s.client, s.sent, "discarding", s.late)
          \/ (s'.chan = s.chan /\ PumpGoesOn("discarding", s.late))
      BY <1>1, <2>1, <2>2, <3>1, Discarding
    <3> QED BY <2>1, <2>2, <3>2 DEF Discards
  <2>3. CASE s.sink = "reading" /\ Q!HasRoom(s) /\ s' = Q!NextPiece([s EXCEPT !.chan = Append(@, s.frame[1])])
    <3>1. PICK chan : chan = Append(s.chan, s.frame[1])
      OBVIOUS
    <3>2. s.frame[1] \in Nat
      BY <1>1, <2>1, TailOf DEF RequestBodyStates
    <3>3. chan \in Pieces /\ IsAppended(chan, s.chan, s.frame[1])
      BY <2>1, <3>1, <3>2, AppendOf DEF IsAppended
    <3>4. PICK r : r = [s EXCEPT !.chan = chan]
      OBVIOUS
    <3>5. /\ r \in RequestBodyStates /\ r.frame = s.frame /\ r.chan = chan
          /\ r.client = s.client /\ r.sent = s.sent /\ r.receiver = s.receiver /\ r.got = s.got
          /\ r.seen = s.seen /\ r.close = s.close /\ r.sink = "reading" /\ r.late = s.late
      BY <1>1, <2>3, <3>3, <3>4 DEF RequestBodyStates
    <3>6. s' = Q!NextPiece(r) /\ s.receiver
      BY <2>3, <3>1, <3>4 DEF Q!HasRoom
    <3>7. PumpGoesOn("reading", s.late) /\ s'.chan = chan
      BY <2>1, <3>5, <3>6, GoingOn DEF PumpGoesOn, ReaderSame
    <3> QED BY <2>1, <2>3, <3>3, <3>6, <3>7 DEF Sends
  <2>4. CASE s.sink = "reading" /\ ~s.receiver /\ s' = Q!StartDiscarding(s)
    <3>1. [s EXCEPT !.late = s.late] = s
      BY <1>1 DEF RequestBodyStates
    <3> QED BY <1>5, <2>1, <2>4, <3>1 DEF Discards
  <2> QED BY <1>6, <2>1, <2>2, <2>3, <2>4 DEF Q!Accept
<1>7. ASSUME Q!AcceptTimesOut
      PROVE  Discards(TRUE)
  BY <1>5, <1>7 DEF Q!AcceptTimesOut, Discards
<1>8. ASSUME Q!SendError
      PROVE  SendsError \/ GivesUp
  <2>1. PICK chan : chan = Append(s.chan, Q!ErrorItem)
    OBVIOUS
  <2>2. chan \in Pieces /\ IsAppended(chan, s.chan, Q!ErrorItem)
    BY <1>1, <2>1, AppendOf DEF RequestBodyStates, IsAppended, Q!ErrorItem
  <2>3. CASE s.receiver /\ s' = [s EXCEPT !.chan = chan, !.pc = "done"]
    BY <1>1, <1>8, <2>2, <2>3 DEF Q!SendError, SendsError, PumpSame, ReaderSame, RequestBodyStates
  <2>4. CASE ~s.receiver /\ s' = [s EXCEPT !.pc = "done"]
    BY <1>1, <1>8, <2>4 DEF Q!SendError, GivesUp, PumpSame, ReaderSame, RequestBodyStates
  <2> QED BY <1>8, <2>1, <2>3, <2>4 DEF Q!SendError, Q!HasRoom
<1>9. ASSUME Q!Read
      PROVE  ReadsError \/ ReadsPiece
  <2>1. /\ s.receiver /\ s.seen = "none" /\ s.chan # <<>> /\ Head(s.chan) = s.chan[1]
        /\ s.chan[1] \in Nat
    BY <1>1, <1>9, TailOf DEF RequestBodyStates, Q!Read
  <2>2. PICK chan, got : chan = Tail(s.chan) /\ got = Append(s.got, s.chan[1])
    OBVIOUS
  <2>3. IsTail(chan, s.chan) /\ IsAppended(got, s.got, s.chan[1]) /\ chan \in Pieces /\ got \in Pieces
    <3>1. s.chan \in Pieces /\ s.got \in Pieces
      BY <1>1 DEF RequestBodyStates
    <3>2. IsTail(chan, s.chan) /\ IsAppended(got, s.got, s.chan[1])
      BY <2>1, <2>2, <3>1, TailOf, AppendOf
    <3> QED BY <3>2 DEF IsTail, IsAppended
  <2>4. CASE s.chan[1] = Q!ErrorItem
    <3>1. s' = [s EXCEPT !.chan = <<>>, !.seen = "error"]
      BY <1>9, <2>1, <2>4 DEF Q!Read
    <3> QED BY <1>1, <2>1, <2>4, <3>1, LengthOf DEF ReadsError, PumpSame, RequestBodyStates
  <2>5. CASE s.chan[1] # Q!ErrorItem
    <3>1. s' = [s EXCEPT !.chan = chan, !.got = got]
      BY <1>9, <2>1, <2>2, <2>5 DEF Q!Read
    <3> QED BY <1>1, <2>1, <2>3, <2>5, <3>1 DEF ReadsPiece, PumpSame, RequestBodyStates
  <2> QED BY <2>4, <2>5
<1>10. s.late \in BOOLEAN
  BY <1>1 DEF RequestBodyStates
<1> QED BY <1>2, <1>3, <1>4, <1>6, <1>7, <1>8, <1>9, <1>10
        DEF Q!Next, Q!Client, Q!Clock, Q!Pump, Q!Reader, RequestBodySteps

\* The rest of a frame, when a piece of it is done.
LEMMA RestOfFrame ==
    ASSUME RequestBodyInv, s.pc = "piece", IsTail(s'.frame, s.frame),
           s'.pc = IF Len(s.frame) = 1 THEN "frame" ELSE "piece",
           s'.client = s.client, s'.sent = s.sent
    PROVE  /\ FrameIsRest' /\ Len(s'.frame) = Len(s.frame) - 1 /\ Len(s.frame) \in Nat \ {0}
           /\ s.frame[1] = s.sent - Len(s.frame) + 1
<1>1. PICK n : n = Len(s.frame)
  OBVIOUS
<1>2. /\ s.sent \in Nat /\ n \in 1..s.sent
      /\ \A i \in 1..n : s.frame[i] = s.sent - n + i
      /\ s.client = "sending" /\ s.sent <= MaxBody
  BY <1>1 DEF RequestBodyInv, RequestBodyType, RequestBodyStates, FrameIsRest, Pumping
<1>3. n \in Nat \ {0} /\ 1 \in 1..n
  BY <1>2
<1>4. /\ s'.frame \in Pieces /\ Len(s'.frame) = n - 1
      /\ \A i \in 1..n - 1 : s'.frame[i] = s.frame[i + 1]
  BY <1>1 DEF IsTail
<1>5. ASSUME NEW i \in 1..n - 1
      PROVE  s'.frame[i] = s.sent - (n - 1) + i
  <2>1. i + 1 \in 1..n
    BY <1>3
  <2>2. s'.frame[i] = s.sent - n + (i + 1)
    BY <1>2, <1>4, <2>1
  <2> QED BY <1>2, <1>3, <2>2
<1>6. n = 1 => s'.frame = <<>>
  <2>1. n = 1 => Len(s'.frame) = 0
    BY <1>4
  <2> QED BY <1>4, <2>1, LengthOf
<1>7. n # 1 => n - 1 \in 1..s.sent
  BY <1>2
<1>8. FrameIsRest'
  <2>1. s'.pc = IF n = 1 THEN "frame" ELSE "piece"
    BY <1>1
  <2>2. \A i \in 1..Len(s'.frame) : s'.frame[i] = s'.sent - Len(s'.frame) + i
    BY <1>4, <1>5
  <2> QED BY <1>2, <1>4, <1>6, <1>7, <2>1, <2>2 DEF FrameIsRest, Pumping
<1> QED BY <1>1, <1>2, <1>3, <1>4, <1>8

\* What is left when a piece is read.
LEMMA ChannelPops ==
    ASSUME s \in RequestBodyStates, s.chan # <<>>, ChannelFollows, s.chan[1] # Q!ErrorItem,
           IsTail(s'.chan, s.chan), IsAppended(s'.got, s.got, s.chan[1]), s'.pc = s.pc, s'.sink = s.sink
    PROVE  /\ Len(s'.chan) = Len(s.chan) - 1 /\ Len(s'.got) = Len(s.got) + 1
           /\ \A i \in 1..Len(s'.got) : s'.got[i] = i
           /\ \A i \in 1..Len(s'.chan) :
                \/ s'.chan[i] = Len(s'.got) + i
                \/ i = Len(s'.chan) /\ s'.chan[i] = Q!ErrorItem /\ s'.pc = "done" /\ s'.sink = "reading"
           /\ s.chan[Len(s.chan)] = Q!ErrorItem =>
                s'.chan # <<>> /\ s'.chan[Len(s'.chan)] = Q!ErrorItem
<1>1. PICK n, m : n = Len(s.got) /\ m = Len(s.chan)
  OBVIOUS
<1>2. n \in Nat /\ m \in Nat /\ m # 0
  BY <1>1, LengthOf DEF RequestBodyStates
<1>3. /\ s'.chan \in Pieces /\ Len(s'.chan) = m - 1
      /\ \A i \in 1..m - 1 : s'.chan[i] = s.chan[i + 1]
  BY <1>1 DEF IsTail
<1>4. /\ Len(s'.got) = n + 1 /\ s'.got[n + 1] = s.chan[1]
      /\ \A i \in 1..n : s'.got[i] = s.got[i]
  BY <1>1 DEF IsAppended
<1>5. /\ \A i \in 1..n : s.got[i] = i
      /\ \A i \in 1..m :
           \/ s.chan[i] = n + i
           \/ i = m /\ s.chan[i] = Q!ErrorItem /\ s.pc = "done" /\ s.sink = "reading"
  BY <1>1 DEF ChannelFollows
<1>6. s.chan[1] = n + 1
  <2>1. 1 \in 1..m
    BY <1>2
  <2> QED BY <1>5, <2>1
<1>7. ASSUME NEW i \in 1..n + 1
      PROVE  s'.got[i] = i
  <2>1. i = n + 1 \/ i \in 1..n
    BY <1>2
  <2> QED BY <1>4, <1>5, <1>6, <2>1
<1>8. ASSUME NEW i \in 1..m - 1
      PROVE  \/ s'.chan[i] = n + 1 + i
             \/ i = m - 1 /\ s'.chan[i] = Q!ErrorItem /\ s'.pc = "done" /\ s'.sink = "reading"
  <2>1. i + 1 \in 1..m /\ (i + 1 = m => i = m - 1) /\ n + (i + 1) = n + 1 + i
    BY <1>2
  <2>2. \/ s.chan[i + 1] = n + (i + 1)
        \/ i + 1 = m /\ s.chan[i + 1] = Q!ErrorItem /\ s.pc = "done" /\ s.sink = "reading"
    BY <1>5, <2>1
  <2> QED BY <1>3, <2>1, <2>2
<1>9. ASSUME s.chan[m] = Q!ErrorItem
      PROVE  s'.chan # <<>> /\ s'.chan[m - 1] = Q!ErrorItem
  <2>1. m # 1
    BY <1>9
  <2>2. m - 1 \in 1..m - 1 /\ m - 1 + 1 = m /\ m - 1 # 0
    BY <1>2, <2>1
  <2>3. s'.chan[m - 1] = s.chan[m - 1 + 1]
    BY <1>3, <2>2
  <2>4. s'.chan[m - 1] = Q!ErrorItem
    BY <1>9, <2>2, <2>3
  <2>5. s'.chan # <<>>
    BY <1>3, <2>2, LengthOf
  <2> QED BY <2>4, <2>5
<1> QED BY <1>1, <1>3, <1>4, <1>7, <1>8, <1>9

\* While the pump has no error to tell, the channel holds none.
LEMMA NoErrorYet ==
    ASSUME ChannelFollows, s.pc # "done" \/ s.sink = "discarding"
    PROVE  \A i \in 1..Len(s.chan) : s.chan[i] = Len(s.got) + i
BY DEF ChannelFollows

LEMMA ErrorIsLast ==
    ASSUME s \in RequestBodyStates, ChannelFollows, s.chan # <<>>, s.chan[1] = Q!ErrorItem
    PROVE  s.pc = "done"
<1>1. PICK n, m : n = Len(s.got) /\ m = Len(s.chan)
  OBVIOUS
<1>2. n \in Nat /\ m \in Nat /\ m # 0
  BY <1>1, LengthOf DEF RequestBodyStates
<1>3. 1 \in 1..m /\ 0 # n + 1
  BY <1>2
<1> QED BY <1>1, <1>3 DEF ChannelFollows, Q!ErrorItem


LEMMA RequestBodyTypeStep ==
    ASSUME RequestBodyInv, RequestBodySteps
    PROVE  RequestBodyType'
<1> USE BodyAssumption, LengthOf
    DEF RequestBodyInv, RequestBodyType, RequestBodyStates, FrameIsRest, ChannelFollows,
        EndsHonestly, Pumping, Q!ErrorItem
<1>1. ASSUME NEW sent \in Nat, TooMuch(sent)
      PROVE  RequestBodyType'
  BY <1>1 DEF TooMuch, PumpFails, ReaderSame
<1>2. ASSUME NEW client \in {"sending", "failed"}, NoFrame(client)
      PROVE  RequestBodyType'
  BY <1>2 DEF NoFrame, PumpFails, ReaderSame
<1>3. ASSUME NEW n \in Nat, Takes(n)
      PROVE  RequestBodyType'
  BY <1>3 DEF Takes, ReaderSame
<1>4. ASSUME Q!FrameEnd
      PROVE  RequestBodyType'
  BY <1>4 DEF Q!FrameEnd
<1>5. ASSUME NEW late \in BOOLEAN, Discards(late)
      PROVE  RequestBodyType'
  BY <1>5 DEF Discards, PumpFails, PumpGoesOn, ReaderSame
<1>6. ASSUME Sends
      PROVE  RequestBodyType'
  BY <1>6 DEF Sends, PumpGoesOn, ReaderSame
<1>7. ASSUME SendsError
      PROVE  RequestBodyType'
  BY <1>7 DEF SendsError, PumpSame, ReaderSame
<1>8. ASSUME GivesUp
      PROVE  RequestBodyType'
  BY <1>8 DEF GivesUp, PumpSame, ReaderSame
<1>9. ASSUME ReadsError
      PROVE  RequestBodyType'
  BY <1>9 DEF ReadsError, PumpSame
<1>10. ASSUME ReadsPiece
      PROVE  RequestBodyType'
  BY <1>10 DEF ReadsPiece, PumpSame
<1>11. ASSUME Q!ReadEnd
      PROVE  RequestBodyType'
  BY <1>11 DEF Q!ReadEnd, Q!SenderGone
<1>12. ASSUME Q!Drop
      PROVE  RequestBodyType'
  BY <1>12 DEF Q!Drop
<1> QED BY <1>1, <1>2, <1>3, <1>4, <1>5, <1>6, <1>7, <1>8, <1>9, <1>10, <1>11,
               <1>12 DEF RequestBodySteps

LEMMA FrameIsRestStep ==
    ASSUME RequestBodyInv, RequestBodySteps
    PROVE  FrameIsRest'
<1> USE BodyAssumption, LengthOf
    DEF RequestBodyInv, RequestBodyType, RequestBodyStates, FrameIsRest, ChannelFollows,
        EndsHonestly, Pumping, Q!ErrorItem
<1>1. ASSUME NEW sent \in Nat, TooMuch(sent)
      PROVE  FrameIsRest'
  BY <1>1 DEF TooMuch, PumpFails, ReaderSame
<1>2. ASSUME NEW client \in {"sending", "failed"}, NoFrame(client)
      PROVE  FrameIsRest'
  BY <1>2 DEF NoFrame, PumpFails, ReaderSame
<1>3. ASSUME NEW n \in Nat, Takes(n)
      PROVE  FrameIsRest'
  <2>1. \A i \in 1..n : s'.frame[i] = s'.sent - n + i
    BY <1>3 DEF Takes
  <2> QED BY <1>3, <2>1 DEF Takes
<1>4. ASSUME Q!FrameEnd
      PROVE  FrameIsRest'
  BY <1>4 DEF Q!FrameEnd
<1>5. ASSUME NEW late \in BOOLEAN, Discards(late)
      PROVE  FrameIsRest'
  <2>1. CASE PumpFails(s.client, s.sent, "discarding", late)
    BY <2>1 DEF PumpFails
  <2>2. CASE PumpGoesOn("discarding", late)
    BY <1>5, <2>2, RestOfFrame DEF Discards, PumpGoesOn
  <2> QED BY <1>5, <2>1, <2>2 DEF Discards
<1>6. ASSUME Sends
      PROVE  FrameIsRest'
  BY <1>6, RestOfFrame DEF Sends, PumpGoesOn
<1>7. ASSUME SendsError
      PROVE  FrameIsRest'
  BY <1>7 DEF SendsError, PumpSame, ReaderSame
<1>8. ASSUME GivesUp
      PROVE  FrameIsRest'
  BY <1>8 DEF GivesUp, PumpSame, ReaderSame
<1>9. ASSUME ReadsError
      PROVE  FrameIsRest'
  BY <1>9 DEF ReadsError, PumpSame
<1>10. ASSUME ReadsPiece
      PROVE  FrameIsRest'
  BY <1>10 DEF ReadsPiece, PumpSame
<1>11. ASSUME Q!ReadEnd
      PROVE  FrameIsRest'
  BY <1>11 DEF Q!ReadEnd, Q!SenderGone
<1>12. ASSUME Q!Drop
      PROVE  FrameIsRest'
  BY <1>12 DEF Q!Drop
<1> QED BY <1>1, <1>2, <1>3, <1>4, <1>5, <1>6, <1>7, <1>8, <1>9, <1>10, <1>11,
               <1>12 DEF RequestBodySteps

LEMMA ChannelFollowsStep ==
    ASSUME RequestBodyInv, RequestBodySteps
    PROVE  ChannelFollows'
<1> USE BodyAssumption, LengthOf
    DEF RequestBodyInv, RequestBodyType, RequestBodyStates, FrameIsRest, ChannelFollows,
        EndsHonestly, Pumping, Q!ErrorItem
<1>1. ASSUME NEW sent \in Nat, TooMuch(sent)
      PROVE  ChannelFollows'
  BY <1>1 DEF TooMuch, PumpFails, ReaderSame
<1>2. ASSUME NEW client \in {"sending", "failed"}, NoFrame(client)
      PROVE  ChannelFollows'
  BY <1>2 DEF NoFrame, PumpFails, ReaderSame
<1>3. ASSUME NEW n \in Nat, Takes(n)
      PROVE  ChannelFollows'
  <2>1. Len(s.frame) = 0
    BY <1>3 DEF Takes
  <2>2. Len(s.got) \in Nat /\ Len(s.chan) \in Nat
    OBVIOUS
  <2> QED BY <1>3, <2>1, <2>2 DEF Takes, ReaderSame
<1>4. ASSUME Q!FrameEnd
      PROVE  ChannelFollows'
  BY <1>4 DEF Q!FrameEnd
<1>5. ASSUME NEW late \in BOOLEAN, Discards(late)
      PROVE  ChannelFollows'
  <2>1. CASE PumpFails(s.client, s.sent, "discarding", late)
    BY <1>5, <2>1, NoErrorYet DEF Discards, PumpFails, ReaderSame
  <2>2. CASE s'.chan = s.chan /\ PumpGoesOn("discarding", late)
    <3>1. Len(s'.frame) = Len(s.frame) - 1 /\ Len(s.frame) \in Nat
      BY <1>5, <2>2, RestOfFrame DEF Discards, PumpGoesOn
    <3>2. \A i \in 1..Len(s.chan) : s.chan[i] = Len(s.got) + i
      BY <1>5, NoErrorYet DEF Discards
    <3>3. Len(s.got) + Len(s.chan) + Len(s.frame) <= s.sent /\ Len(s.got) \in Nat /\ Len(s.chan) \in Nat
      BY <1>5 DEF Discards
    <3>4. Len(s.got) + Len(s.chan) + Len(s'.frame) <= s.sent
      BY <3>1, <3>3
    <3> QED BY <1>5, <2>2, <3>2, <3>4 DEF Discards, PumpGoesOn, ReaderSame
  <2> QED BY <1>5, <2>1, <2>2 DEF Discards
<1>6. ASSUME Sends
      PROVE  ChannelFollows'
  <2>1. PICK n, m, f : n = Len(s.got) /\ m = Len(s.chan) /\ f = Len(s.frame)
    OBVIOUS
  <2>2. n \in Nat /\ m \in Nat /\ f \in Nat
    BY <2>1
  <2>3. /\ Len(s'.frame) = f - 1 /\ s.frame[1] = s.sent - f + 1
    BY <1>6, <2>1, RestOfFrame DEF Sends, PumpGoesOn
  <2>4. n + m + f = s.sent
    BY <1>6, <2>1 DEF Sends
  <2>5. s.frame[1] = n + (m + 1) /\ n + (m + 1) + (f - 1) = s.sent
    BY <2>2, <2>3, <2>4
  <2>6. /\ Len(s'.chan) = m + 1 /\ s'.chan[m + 1] = s.frame[1]
        /\ \A i \in 1..m : s'.chan[i] = s.chan[i]
    BY <1>6, <2>1 DEF Sends, IsAppended
  <2>7. s'.got = s.got /\ s'.sent = s.sent /\ s.receiver /\ s'.receiver = s.receiver
    BY <1>6 DEF Sends, PumpGoesOn, ReaderSame
  <2>8. \A i \in 1..m : s.chan[i] = n + i
    BY <1>6, <2>1, NoErrorYet DEF Sends
  <2>9. ASSUME NEW i \in 1..m + 1
        PROVE  s'.chan[i] = n + i
    <3>1. i = m + 1 \/ i \in 1..m
      BY <2>2
    <3> QED BY <2>5, <2>6, <2>8, <3>1
  <2>10. \A i \in 1..Len(s'.chan) : s'.chan[i] = Len(s'.got) + i
    BY <2>1, <2>6, <2>7, <2>9
  <2>11. /\ Len(s'.got) = n /\ Len(s'.chan) = m + 1 /\ Len(s'.frame) = f - 1 /\ s'.sent = s.sent
         /\ n + (m + 1) + (f - 1) = s.sent /\ n + (m + 1) + (f - 1) <= s.sent
    BY <2>1, <2>2, <2>3, <2>5, <2>6, <2>7
  <2>12. \A i \in 1..Len(s'.got) : s'.got[i] = i
    BY <2>7
  <2> HIDE DEF Pumping, RequestBodyInv
  <2> QED BY <2>7, <2>10, <2>11, <2>12
<1>7. ASSUME SendsError
      PROVE  ChannelFollows'
  <2>1. /\ s'.pc = "done" /\ s'.got = s.got /\ s'.receiver /\ s'.sink = "reading"
        /\ s.pc = "error" /\ s.sink = "reading"
    BY <1>7 DEF SendsError, PumpSame, ReaderSame
  <2>2. PICK m : m = Len(s.chan) /\ m \in Nat
    OBVIOUS
  <2>3. /\ Len(s'.chan) = m + 1 /\ s'.chan[m + 1] = Q!ErrorItem
        /\ \A i \in 1..m : s'.chan[i] = s.chan[i]
    BY <1>7, <2>2 DEF SendsError, IsAppended
  <2>4. \A i \in 1..m : s.chan[i] = Len(s.got) + i
    BY <2>1, <2>2, NoErrorYet
  <2>5. ASSUME NEW i \in 1..m + 1
        PROVE  s'.chan[i] = Len(s.got) + i \/ (i = m + 1 /\ s'.chan[i] = Q!ErrorItem)
    <3>1. i = m + 1 \/ i \in 1..m
      BY <2>2
    <3> QED BY <2>3, <2>4, <3>1
  <2> QED BY <2>1, <2>3, <2>5
<1>8. ASSUME GivesUp
      PROVE  ChannelFollows'
  BY <1>8 DEF GivesUp, PumpSame, ReaderSame
<1>9. ASSUME ReadsError
      PROVE  ChannelFollows'
  <2>1. s'.chan = <<>> /\ Len(s'.chan) = 0 /\ s'.got = s.got /\ s'.pc = s.pc
    BY <1>9, LengthOf DEF ReadsError
  <2>2. s.pc = "done"
    BY <1>9, ErrorIsLast DEF ReadsError
  <2> QED BY <2>1, <2>2
<1>10. ASSUME ReadsPiece
      PROVE  ChannelFollows'
  <2>1. /\ s'.pc = s.pc /\ s'.sink = s.sink /\ s'.frame = s.frame /\ s'.sent = s.sent
        /\ s'.receiver /\ s.receiver
    BY <1>10 DEF ReadsPiece, PumpSame
  <2>2. PICK n, m : n = Len(s.got) /\ m = Len(s.chan) /\ n \in Nat /\ m \in Nat
    OBVIOUS
  <2>3. Len(s'.chan) = m - 1 /\ Len(s'.got) = n + 1 /\ (n + 1) + (m - 1) = n + m
    BY <1>10, <2>1, <2>2, ChannelPops DEF ReadsPiece
  <2>4. /\ \A i \in 1..Len(s'.got) : s'.got[i] = i
        /\ \A i \in 1..Len(s'.chan) :
             \/ s'.chan[i] = Len(s'.got) + i
             \/ i = Len(s'.chan) /\ s'.chan[i] = Q!ErrorItem /\ s'.pc = "done" /\ s'.sink = "reading"
    BY <1>10, <2>1, ChannelPops DEF ReadsPiece
  <2>5. Len(s'.got) + Len(s'.chan) = Len(s.got) + Len(s.chan)
    BY <2>2, <2>3
  <2> QED BY <2>1, <2>4, <2>5
<1>11. ASSUME Q!ReadEnd
      PROVE  ChannelFollows'
  BY <1>11 DEF Q!ReadEnd, Q!SenderGone
<1>12. ASSUME Q!Drop
      PROVE  ChannelFollows'
  BY <1>12 DEF Q!Drop
<1> QED BY <1>1, <1>2, <1>3, <1>4, <1>5, <1>6, <1>7, <1>8, <1>9, <1>10, <1>11,
               <1>12 DEF RequestBodySteps

LEMMA EndsHonestlyStep ==
    ASSUME RequestBodyInv, RequestBodySteps
    PROVE  EndsHonestly'
<1> USE BodyAssumption, LengthOf
    DEF RequestBodyInv, RequestBodyType, RequestBodyStates, FrameIsRest, ChannelFollows,
        EndsHonestly, Pumping, Q!ErrorItem
<1>1. ASSUME NEW sent \in Nat, TooMuch(sent)
      PROVE  EndsHonestly'
  BY <1>1 DEF TooMuch, PumpFails, ReaderSame
<1>2. ASSUME NEW client \in {"sending", "failed"}, NoFrame(client)
      PROVE  EndsHonestly'
  BY <1>2 DEF NoFrame, PumpFails, ReaderSame
<1>3. ASSUME NEW n \in Nat, Takes(n)
      PROVE  EndsHonestly'
  BY <1>3 DEF Takes, ReaderSame
<1>4. ASSUME Q!FrameEnd
      PROVE  EndsHonestly'
  <2>1. s.pc = "frame" /\ s' = [s EXCEPT !.client = "ended", !.pc = "done"]
    BY <1>4 DEF Q!FrameEnd
  <2>2. s.frame = <<>> /\ Len(s.frame) = 0 /\ s.sent <= MaxBody
    BY <2>1, LengthOf
  <2>3. Len(s.got) \in Nat /\ Len(s.chan) \in Nat /\ s.sent \in Nat
    OBVIOUS
  <2>4. s.sink = "reading" /\ s.receiver => Len(s.got) + Len(s.chan) = s.sent
    BY <2>1, <2>2, <2>3
  <2>5. /\ s'.client = "ended" /\ s'.pc = "done" /\ s'.sent = s.sent /\ s'.got = s.got
        /\ s'.chan = s.chan /\ s'.seen = s.seen /\ s'.receiver = s.receiver /\ s'.sink = s.sink
        /\ s'.late = s.late /\ s'.close = s.close
    BY <2>1
  <2> HIDE LengthOf
  <2> QED BY <2>1, <2>2, <2>4, <2>5
<1>5. ASSUME NEW late \in BOOLEAN, Discards(late)
      PROVE  EndsHonestly'
  BY <1>5 DEF Discards, PumpFails, PumpGoesOn, ReaderSame
<1>6. ASSUME Sends
      PROVE  EndsHonestly'
  BY <1>6 DEF Sends, PumpGoesOn, ReaderSame
<1>7. ASSUME SendsError
      PROVE  EndsHonestly'
  <2>1. /\ s'.pc = "done" /\ s'.got = s.got
        /\ s'.close = s.close /\ s'.seen = s.seen /\ s'.late = s.late /\ s'.sink = s.sink
        /\ s'.client = s.client /\ s'.sent = s.sent /\ s'.receiver = s.receiver
    BY <1>7 DEF SendsError, PumpSame, ReaderSame
  <2>2. s'.chan # <<>> /\ s'.chan[Len(s'.chan)] = Q!ErrorItem
    <3>1. /\ s'.chan \in Pieces /\ Len(s'.chan) = Len(s.chan) + 1
          /\ s'.chan[Len(s.chan) + 1] = Q!ErrorItem
      BY <1>7 DEF SendsError, IsAppended
    <3>2. Len(s'.chan) # 0
      BY <3>1
    <3> QED BY <3>1, <3>2, LengthOf
  <2>3. s.close /\ s.pc = "error" /\ s.sink = "reading"
    BY <1>7 DEF SendsError
  <2> QED BY <2>1, <2>2, <2>3
<1>8. ASSUME GivesUp
      PROVE  EndsHonestly'
  BY <1>8 DEF GivesUp, PumpSame, ReaderSame
<1>9. ASSUME ReadsError
      PROVE  EndsHonestly'
  <2>1. s.pc = "done"
    BY <1>9, ErrorIsLast DEF ReadsError
  <2> QED BY <1>9, <2>1 DEF ReadsError, PumpSame
<1>10. ASSUME ReadsPiece
      PROVE  EndsHonestly'
  <2>1. /\ s'.pc = s.pc
        /\ s'.sink = s.sink /\ s'.client = s.client /\ s'.sent = s.sent /\ s'.receiver = s.receiver
        /\ s'.close = s.close /\ s'.seen = s.seen /\ s'.late = s.late /\ s.seen = "none"
    BY <1>10 DEF ReadsPiece, PumpSame
  <2>2. PICK n, m : n = Len(s.got) /\ m = Len(s.chan) /\ n \in Nat /\ m \in Nat
    OBVIOUS
  <2>3. Len(s'.chan) = m - 1 /\ Len(s'.got) = n + 1 /\ (n + 1) + (m - 1) = n + m
    BY <1>10, <2>1, <2>2, ChannelPops DEF ReadsPiece
  <2>4. s.chan[Len(s.chan)] = Q!ErrorItem => s'.chan # <<>> /\ s'.chan[Len(s'.chan)] = Q!ErrorItem
    BY <1>10, <2>1, ChannelPops DEF ReadsPiece
  <2>5. Len(s'.got) + Len(s'.chan) = Len(s.got) + Len(s.chan)
    BY <2>2, <2>3
  <2> QED BY <2>1, <2>4, <2>5
<1>11. ASSUME Q!ReadEnd
      PROVE  EndsHonestly'
  BY <1>11 DEF Q!ReadEnd, Q!SenderGone
<1>12. ASSUME Q!Drop
      PROVE  EndsHonestly'
  BY <1>12 DEF Q!Drop
<1> QED BY <1>1, <1>2, <1>3, <1>4, <1>5, <1>6, <1>7, <1>8, <1>9, <1>10, <1>11,
               <1>12 DEF RequestBodySteps

LEMMA RequestBodyInitially == Q!Init => RequestBodyInv
<1> SUFFICES ASSUME Q!Init
             PROVE  RequestBodyInv
  OBVIOUS
<1>1. PICK timeouts \in BOOLEAN :
         s = [timeouts |-> timeouts, client |-> "sending", sent |-> 0, frame |-> <<>>, pc |-> "frame",
              sink |-> "reading", budget |-> Budget, chan |-> <<>>, receiver |-> TRUE,
              close |-> FALSE, got |-> <<>>, seen |-> "none", late |-> FALSE]
  BY DEF Q!Init
<1>2. RequestBodyType
  BY <1>1, LengthOf, BodyAssumption DEF RequestBodyType, RequestBodyStates
<1>3. FrameIsRest /\ ChannelFollows /\ EndsHonestly
  BY <1>1, LengthOf, BodyAssumption DEF FrameIsRest, ChannelFollows, EndsHonestly, Pumping
<1> QED BY <1>2, <1>3 DEF RequestBodyInv

LEMMA RequestBodyInductive == RequestBodyInv /\ [Q!Next]_s => RequestBodyInv'
<1>1. RequestBodyInv /\ Q!Next => RequestBodyInv'
  BY NextRequestBodySteps, RequestBodyTypeStep, FrameIsRestStep, ChannelFollowsStep, EndsHonestlyStep
     DEF RequestBodyInv
<1>2. RequestBodyInv /\ UNCHANGED s => RequestBodyInv'
  <2> SUFFICES ASSUME RequestBodyInv, s' = s
               PROVE  RequestBodyInv'
    OBVIOUS
  <2>1. RequestBodyType' /\ FrameIsRest'
    BY DEF RequestBodyInv, RequestBodyType, FrameIsRest, Pumping
  <2>2. ChannelFollows' /\ EndsHonestly'
    BY DEF RequestBodyInv, ChannelFollows, EndsHonestly, Pumping
  <2> QED BY <2>1, <2>2 DEF RequestBodyInv
<1> QED BY <1>1, <1>2

\* Every piece is in its place, so who has them has a prefix of the body.
LEMMA RequestBodyHolds == RequestBodyInv => Q!ConnectionInStep /\ Q!EndIsHonest
<1> SUFFICES ASSUME RequestBodyInv
             PROVE  Q!ConnectionInStep /\ Q!EndIsHonest
  OBVIOUS
<1>1. s \in RequestBodyStates
  BY DEF RequestBodyInv, RequestBodyType
<1>2. s.got \in Pieces /\ s.chan \in Pieces /\ s.frame \in Pieces /\ s.sent \in Nat
  BY <1>1 DEF RequestBodyStates
<1>3. PICK n, m, f \in Nat : n = Len(s.got) /\ m = Len(s.chan) /\ f = Len(s.frame)
  BY <1>2, LengthOf
<1>4. s.got = Q!FirstPieces(n)
  <2>1. s.got = [i \in 1..n |-> s.got[i]]
    BY <1>2, <1>3 DEF Pieces
  <2>2. \A i \in 1..n : s.got[i] = i
    BY <1>3 DEF RequestBodyInv, ChannelFollows
  <2> QED BY <2>1, <2>2 DEF Q!FirstPieces
<1>5. ASSUME Pumping
      PROVE  n + m <= MaxBody
  <2>1. PICK sent \in Nat : sent = s.sent
    BY <1>2
  <2>2. n + m + f <= sent /\ sent <= MaxBody
    BY <1>3, <1>5, <2>1 DEF RequestBodyInv, ChannelFollows, FrameIsRest
  <2>3. MaxBody \in Nat
    BY BodyAssumption
  <2> QED BY <2>2, <2>3
<1>6. s.sent > MaxBody => s.close
  <2>1. Pumping \/ s.close \/ s.sent <= MaxBody
    BY DEF RequestBodyInv, EndsHonestly
  <2>2. Pumping => s.sent <= MaxBody
    BY DEF RequestBodyInv, FrameIsRest
  <2> QED BY <1>2, <2>1, <2>2, BodyAssumption
<1>7. Q!ConnectionInStep
  <2>1. s.pc = "done" /\ ~s.close => s.client = "ended"
    BY DEF RequestBodyInv, EndsHonestly, Pumping
  <2> QED BY <1>3, <1>5, <1>6, <2>1 DEF Q!ConnectionInStep, Pumping
<1>8. Q!EndIsHonest
  BY <1>3, <1>4 DEF Q!EndIsHonest, RequestBodyInv, EndsHonestly
<1> QED BY <1>7, <1>8

\* A connection that is kept is at the end of the request's body and no more was read than the
\* limits allow; a reader has the pieces in order and once, and is told of the end only when
\* all of the body was delivered, unless it was too slow (pump_request_body, BodySink).
THEOREM RequestBodyStaysInStep == Spec => []RequestBodyInStep
<1> DEFINE Inv == kind = "request body" => RequestBodyInv
<1>1. Init => Inv
  BY RequestBodyInitially DEF Init
<1>2. Inv /\ [Next]_<<kind, s, frames>> => Inv'
  <2> SUFFICES ASSUME Inv, [Next]_<<kind, s, frames>>, kind' = "request body"
               PROVE  RequestBodyInv'
    OBVIOUS
  <2>1. RequestBodyInv /\ [Q!Next]_s
    BY Follows
  <2> QED BY <2>1, RequestBodyInductive
<1>3. Inv => RequestBodyInStep
  BY RequestBodyHolds DEF RequestBodyInStep
<1> HIDE DEF Inv
<1> QED BY <1>1, <1>2, <1>3, PTL DEF Spec

-----------------------------------------------------------------------------
(* The body of a response.                                                 *)

WireStates ==
    [kind : {"stream", "own"}, declared : Int, remaining : Int, size : Int, told : Int,
     head : BOOLEAN, up : Pieces, upEnded : BOOLEAN, upFailed : BOOLEAN, made : Nat,
     loopDone : BOOLEAN, pc : {"next", "send", "failing", "outcome", "done"}, piece : Pieces,
     result : {"none", "connectionLost", "timedOut", "sent", "truncated"}, chan : Pieces,
     closed : BOOLEAN, abort : BOOLEAN, hyper : {"polling", "gone"}, delivered : Nat,
     reported : {"none", "sent", "truncated", "connectionLost"}, wire : Pieces,
     client : {"open", "complete", "broken"}]
WireType == s \in WireStates

Polling == s.hyper = "polling"
Forwarding == s.pc \in {"next", "send"}
\* The chunks that were taken from the source, without one that is dropped.
Taken == Len(s.wire) + Len(s.chan) + Len(s.piece)

\* The chunks that the source has, which may end with an error, follow the ones taken.
SourceInOrder ==
    /\ \A i \in 1..Len(s.up) :
         \/ s.up[i] = Taken + i
         \/ i = Len(s.up) /\ s.up[i] = W!ErrorItem /\ s.upFailed
    /\ s.upFailed => s.up # <<>> /\ s.up[Len(s.up)] = W!ErrorItem
    /\ ~s.upFailed => s.made = Taken + Len(s.up)

\* The chunks are on their way in order: on the wire, in the channel, with the producer, and
\* with the source.
WireInOrder ==
    /\ \A i \in 1..Len(s.wire) : s.wire[i] = i
    /\ Len(s.chan) <= 1 /\ (s.chan # <<>> => Polling /\ s.chan[1] = Len(s.wire) + 1)
    /\ IF s.pc = "send" THEN Len(s.piece) = 1 ELSE s.piece = <<>>
    /\ Polling /\ s.pc = "send" => s.piece[1] = Len(s.wire) + Len(s.chan) + 1
    /\ Polling => s.delivered = Len(s.wire)
    /\ Polling /\ Forwarding => SourceInOrder

\* No more goes out than was declared, and less only after a failure.
WireInLength ==
    /\ s.declared = W!Undeclared <=> s.remaining = W!Undeclared
    /\ s.declared # W!Undeclared => s.remaining \in Nat /\ s.declared \in Nat
    /\ Polling /\ s.declared # W!Undeclared =>
         /\ Taken + s.remaining <= s.declared
         /\ s.pc \in {"next", "send", "outcome"} => Taken + s.remaining = s.declared
    /\ Polling /\ s.pc = "outcome" /\ s.declared = W!Undeclared =>
         s.upEnded /\ ~s.upFailed /\ s.made = Taken
    /\ Polling => ~s.head /\ s.told = s.declared /\ (s.size # W!Undeclared => s.size = s.declared)

\* What hyper, the producer and the client know of the end.
WireEnds ==
    /\ Polling => s.reported = "none" /\ s.client = "open" /\ (s.closed <=> s.pc \in {"outcome", "done"})
    /\ Polling /\ s.pc = "done" => s.abort
    /\ s.reported = "sent" \/ s.result = "sent" => s.client = "complete"
    /\ s.upFailed => s.upEnded
    /\ s.client = "complete" /\ ~s.head =>
         /\ s.told = W!Undeclared => s.upEnded /\ ~s.upFailed /\ Len(s.wire) = s.made
         /\ s.told # W!Undeclared => Len(s.wire) = s.told
         /\ s.size # W!Undeclared => Len(s.wire) = s.size
    /\ s.client # "open" => ~Polling

WireInv == WireType /\ WireInOrder /\ WireInLength /\ WireEnds

\* The steps, told by what they do to the fields.
ResponseSame ==
    /\ s' \in WireStates /\ s'.kind = s.kind /\ s'.declared = s.declared /\ s'.size = s.size
    /\ s'.told = s.told /\ s'.head = s.head
EndSame == s'.upEnded = s.upEnded /\ s'.upFailed = s.upFailed /\ s'.made = s.made
ProducerSame ==
    /\ s'.remaining = s.remaining /\ s'.pc = s.pc /\ s'.piece = s.piece /\ s'.result = s.result
    /\ s'.closed = s.closed /\ s'.abort = s.abort
HyperSame ==
    /\ s'.hyper = s.hyper /\ s'.delivered = s.delivered /\ s'.reported = s.reported
    /\ s'.wire = s.wire /\ s'.client = s.client

Produces ==
    /\ ~s.upEnded /\ IsAppended(s'.up, s.up, s.made + 1) /\ s'.made = s.made + 1
    /\ s'.upEnded = s.upEnded /\ s'.upFailed = s.upFailed
    /\ ResponseSame /\ ProducerSame /\ HyperSame /\ s'.chan = s.chan
ProducesError ==
    /\ ~s.upEnded /\ IsAppended(s'.up, s.up, W!ErrorItem) /\ s'.upEnded /\ s'.upFailed /\ s'.made = s.made
    /\ ResponseSame /\ ProducerSame /\ HyperSame /\ s'.chan = s.chan
\* The source ends, or its loop does.
SourceEnds ==
    /\ s'.up = s.up /\ s'.upFailed = s.upFailed /\ s'.made = s.made
    /\ s'.upEnded = s.upEnded \/ s'.upEnded
    /\ ResponseSame /\ ProducerSame /\ HyperSame /\ s'.chan = s.chan
\* A chunk is taken and prepared, or it is more than was declared, or it is an error.
ForwardsChunk ==
    /\ s.pc = "next" /\ s.up # <<>> /\ IsTail(s'.up, s.up) /\ s.up[1] # W!ErrorItem
    /\ s.remaining # 0 /\ s'.pc = "send" /\ IsAppended(s'.piece, <<>>, s.up[1])
    /\ s'.remaining = IF s.remaining = W!Undeclared THEN s.remaining ELSE s.remaining - 1
    /\ s'.result = s.result /\ s'.closed = s.closed /\ s'.abort = s.abort
    /\ ResponseSame /\ EndSame /\ HyperSame /\ s'.chan = s.chan
ForwardsTooMuch ==
    /\ s.pc = "next" /\ s.remaining = 0 /\ s'.pc = "outcome" /\ s'.closed
    /\ s'.remaining = s.remaining /\ s'.piece = s.piece /\ s'.result = s.result /\ s'.abort = s.abort
    /\ ResponseSame /\ EndSame /\ HyperSame /\ s'.chan = s.chan
ForwardsError ==
    /\ s.pc = "next" /\ s'.pc = "failing"
    /\ s'.remaining = s.remaining /\ s'.piece = s.piece /\ s'.result = s.result
    /\ s'.closed = s.closed /\ s'.abort = s.abort
    /\ ResponseSame /\ EndSame /\ HyperSame /\ s'.chan = s.chan
ForwardsEnd ==
    /\ s.pc = "next" /\ s.up = <<>> /\ s.upEnded /\ s'.pc = "outcome" /\ s'.closed
    /\ s'.remaining = s.remaining /\ s'.piece = s.piece /\ s'.result = s.result /\ s'.abort = s.abort
    /\ ResponseSame /\ EndSame /\ HyperSame /\ s'.chan = s.chan
\* The producer fails.
ProducerFails(outcome) ==
    /\ s'.pc = "done" /\ s'.result = outcome /\ s'.abort /\ s'.closed /\ s'.piece = <<>>
    /\ s'.remaining = s.remaining
    /\ ResponseSame /\ EndSame /\ HyperSame /\ s'.chan = s.chan
HandsOver ==
    /\ s.pc = "send" /\ s.hyper = "polling" /\ s.chan = <<>> /\ s'.chan = s.piece /\ s'.piece = <<>>
    /\ s'.pc = "next"
    /\ s'.remaining = s.remaining /\ s'.result = s.result /\ s'.closed = s.closed /\ s'.abort = s.abort
    /\ ResponseSame /\ EndSame /\ HyperSame /\ s'.up = s.up
KnowsOutcome ==
    /\ s.pc = "outcome" /\ s.reported # "none" /\ s'.pc = "done" /\ s'.result = s.reported
    /\ s'.remaining = s.remaining /\ s'.piece = s.piece /\ s'.closed = s.closed /\ s'.abort = s.abort
    /\ ResponseSame /\ EndSame /\ HyperSame /\ s'.chan = s.chan
\* Hyper takes a chunk, or is done with the body.
TakesChunk ==
    /\ s.hyper = "polling" /\ s'.hyper = "polling" /\ s.chan # <<>> /\ s'.chan = <<>>
    /\ IsAppended(s'.wire, s.wire, s.chan[1])
    /\ s'.delivered = s.delivered + 1 /\ s'.reported = s.reported /\ s'.client = s.client
    /\ ResponseSame /\ EndSame /\ ProducerSame /\ s'.up = s.up
HyperGoes(client, reported) ==
    /\ s.hyper = "polling" /\ s'.hyper = "gone" /\ s'.chan = <<>> /\ s'.wire = s.wire
    /\ s'.delivered = s.delivered
    /\ s'.client = client /\ (s.reported = "none" => s'.reported = reported)
    /\ client = "complete" =>
         \/ s.declared # W!Undeclared /\ s.delivered >= s.declared
         \/ s.declared = W!Undeclared /\ s.chan = <<>> /\ s.closed /\ ~s.abort
    /\ reported = "sent" => client = "complete"
    /\ ResponseSame /\ EndSame /\ ProducerSame /\ s'.up = s.up

WireSteps ==
    \/ Produces \/ ProducesError \/ SourceEnds
    \/ ForwardsChunk \/ ForwardsTooMuch \/ ForwardsError \/ ForwardsEnd
    \/ (\E outcome \in {"connectionLost", "timedOut"} : ProducerFails(outcome))
    \/ HandsOver \/ KnowsOutcome \/ TakesChunk
    \/ \E client \in {"complete", "broken"}, reported \in {"sent", "truncated", "connectionLost"} :
         HyperGoes(client, reported)

LEMMA NextWireSteps ==
    ASSUME WireInv, W!Next
    PROVE  WireSteps
<1> USE DEF ResponseSame, EndSame, ProducerSame, HyperSame
<1>1. /\ s \in WireStates /\ s.up \in Pieces /\ s.chan \in Pieces /\ s.wire \in Pieces
      /\ s.piece \in Pieces /\ s.made \in Nat
      /\ s.pc # "send" => s.piece = <<>>
      /\ <<>> \in Pieces /\ W!ErrorItem \in Nat
  BY LengthOf DEF WireInv, WireType, WireInOrder, WireStates, W!ErrorItem
<1>2. ASSUME W!Produce
      PROVE  Produces
  <2>1. PICK up : up = Append(s.up, s.made + 1)
    OBVIOUS
  <2>2. up \in Pieces /\ IsAppended(up, s.up, s.made + 1)
    BY <1>1, <2>1, AppendOf DEF IsAppended
  <2>3. s' = [s EXCEPT !.made = s.made + 1, !.up = up] /\ ~s.upEnded
    BY <1>2, <2>1 DEF W!Produce
  <2>4. PICK made \in Nat : made = s.made + 1
    BY <1>1
  <2>5. s' = [s EXCEPT !.made = made, !.up = up]
    BY <2>3, <2>4
  <2>6. s' \in WireStates /\ s'.made = made /\ s'.up = up
    BY <1>1, <2>2, <2>5 DEF WireStates
  <2>7. ResponseSame /\ ProducerSame /\ HyperSame /\ s'.chan = s.chan
        /\ s'.upEnded = s.upEnded /\ s'.upFailed = s.upFailed
    BY <1>1, <2>5, <2>6 DEF WireStates
  <2> QED BY <2>2, <2>3, <2>4, <2>6, <2>7 DEF Produces
<1>3. ASSUME W!ProduceError
      PROVE  ProducesError
  <2>1. PICK up : up = Append(s.up, W!ErrorItem)
    OBVIOUS
  <2>2. up \in Pieces /\ IsAppended(up, s.up, W!ErrorItem)
    BY <1>1, <2>1, AppendOf DEF IsAppended
  <2>3. s' = [s EXCEPT !.up = up, !.upEnded = TRUE, !.upFailed = TRUE] /\ ~s.upEnded
    BY <1>3, <2>1 DEF W!ProduceError
  <2> QED BY <1>1, <2>2, <2>3 DEF ProducesError, WireStates
<1>4. ASSUME W!ProduceEnd \/ W!LoopDone
      PROVE  SourceEnds
  <2>1. s' = [s EXCEPT !.upEnded = TRUE] \/ s' = [s EXCEPT !.loopDone = TRUE]
    BY <1>4 DEF W!ProduceEnd, W!LoopDone
  <2>2. CASE s' = [s EXCEPT !.upEnded = TRUE]
    BY <1>1, <2>2 DEF SourceEnds, WireStates
  <2>3. CASE s' = [s EXCEPT !.loopDone = TRUE]
    BY <1>1, <2>3 DEF SourceEnds, WireStates
  <2> QED BY <2>1, <2>2, <2>3
<1>5. ASSUME W!Forward
      PROVE  WireSteps
  <2>1. PICK up : up = Tail(s.up)
    OBVIOUS
  <2>2. s.pc = "next" /\ s.up # <<>>
    BY <1>5 DEF W!Forward
  <2>3. up \in Pieces /\ IsTail(up, s.up) /\ Head(s.up) = s.up[1] /\ s.up[1] \in Nat
    BY <1>1, <2>1, <2>2, TailOf DEF IsTail
  <2>4. PICK r : r = [s EXCEPT !.up = up]
    OBVIOUS
  <2>5. s' = IF s.up[1] # W!ErrorItem THEN W!SendChunk(r, s.up[1])
             ELSE IF s.kind = "stream" THEN [r EXCEPT !.pc = "failing"]
             ELSE W!Failed(r, W!ConnectionLost)
    BY <1>5, <2>1, <2>3, <2>4 DEF W!Forward
  <2>6. r \in WireStates /\ r.remaining = s.remaining
    BY <1>1, <2>3, <2>4 DEF WireStates
  <2>7. CASE s.up[1] # W!ErrorItem /\ s.remaining = 0
    <3>1. s' = [s EXCEPT !.up = up, !.pc = "outcome", !.closed = TRUE]
      BY <1>1, <2>4, <2>5, <2>6, <2>7 DEF W!SendChunk, W!Drained, WireStates
    <3>2. ForwardsTooMuch
      BY <1>1, <2>2, <2>3, <2>7, <3>1 DEF ForwardsTooMuch, WireStates
    <3> QED BY <3>2 DEF WireSteps
  <2>8. CASE s.up[1] # W!ErrorItem /\ s.remaining # 0
    <3>1. PICK piece : piece = <<s.up[1]>>
      OBVIOUS
    <3>2. piece \in Pieces /\ IsAppended(piece, <<>>, s.up[1])
      <4>1. piece = Append(<<>>, s.up[1])
        BY <3>1
      <4> QED BY <1>1, <2>3, <4>1, AppendOf DEF IsAppended
    <3>3. PICK remaining \in Int :
             remaining = IF s.remaining = W!Undeclared THEN s.remaining ELSE s.remaining - 1
      BY <1>1 DEF WireStates
    <3>4. s' = [s EXCEPT !.up = up, !.pc = "send", !.piece = piece, !.remaining = remaining]
      BY <1>1, <2>4, <2>5, <2>6, <2>8, <3>1, <3>3 DEF W!SendChunk, WireStates
    <3>5. ForwardsChunk
      BY <1>1, <2>2, <2>3, <2>8, <3>2, <3>3, <3>4 DEF ForwardsChunk, WireStates
    <3> QED BY <3>5 DEF WireSteps
  <2>9. CASE s.up[1] = W!ErrorItem /\ s.kind = "stream"
    <3>1. s' = [s EXCEPT !.up = up, !.pc = "failing"]
      BY <1>1, <2>4, <2>5, <2>9 DEF WireStates
    <3>2. ForwardsError
      BY <1>1, <2>2, <2>3, <3>1 DEF ForwardsError, WireStates
    <3> QED BY <3>2 DEF WireSteps
  <2>10. CASE s.up[1] = W!ErrorItem /\ s.kind # "stream"
    <3>1. s' = [s EXCEPT !.up = up, !.pc = "done", !.result = "connectionLost", !.abort = TRUE,
                         !.closed = TRUE]
      BY <1>1, <2>4, <2>5, <2>10 DEF W!Failed, W!ConnectionLost, WireStates
    <3>2. ProducerFails("connectionLost")
      BY <1>1, <2>2, <2>3, <3>1 DEF ProducerFails, WireStates
    <3> QED BY <3>2 DEF WireSteps
  <2> QED BY <2>7, <2>8, <2>9, <2>10
<1>6. ASSUME W!ForwardEnd
      PROVE  ForwardsEnd
  <2>1. /\ s' = [s EXCEPT !.pc = "outcome", !.closed = TRUE]
        /\ s.pc = "next" /\ s.up = <<>> /\ s.upEnded
    BY <1>6 DEF W!ForwardEnd, W!Drained
  <2>2. /\ s' \in WireStates /\ s'.pc = "outcome" /\ s'.closed
        /\ ResponseSame /\ EndSame /\ HyperSame /\ s'.chan = s.chan
    BY <1>1, <2>1 DEF WireStates
  <2>3. /\ s'.remaining = s.remaining /\ s'.piece = s.piece /\ s'.result = s.result
        /\ s'.abort = s.abort
    BY <1>1, <2>1 DEF WireStates
  <2> QED BY <2>1, <2>2, <2>3 DEF ForwardsEnd
<1>7. ASSUME NEW outcome \in {"connectionLost", "timedOut"},
             \/ s' = W!Failed([s EXCEPT !.piece = <<>>], outcome)
             \/ s' = W!Failed(s, outcome) /\ s.piece = <<>>
      PROVE  ProducerFails(outcome)
  <2>1. s' = [s EXCEPT !.piece = <<>>, !.pc = "done", !.result = outcome, !.abort = TRUE,
                       !.closed = TRUE]
    <3>1. CASE s' = W!Failed([s EXCEPT !.piece = <<>>], outcome)
      BY <1>1, <3>1 DEF W!Failed, WireStates
    <3>2. CASE s' = W!Failed(s, outcome) /\ s.piece = <<>>
      <4>1. s = [s EXCEPT !.piece = <<>>]
        BY <1>1, <3>2 DEF WireStates
      <4> QED BY <3>1, <3>2, <4>1
    <3> QED BY <1>7, <3>1, <3>2
  <2>2. /\ s' \in WireStates /\ s'.pc = "done" /\ s'.result = outcome /\ s'.abort /\ s'.closed
        /\ s'.piece = <<>>
    BY <1>1, <2>1 DEF WireStates
  <2>3. ResponseSame /\ EndSame /\ HyperSame /\ s'.chan = s.chan /\ s'.remaining = s.remaining
    BY <1>1, <2>1, <2>2 DEF WireStates
  <2> QED BY <2>2, <2>3 DEF ProducerFails
<1>8. /\ W!ForwardAbandoned \/ W!FailAfterSentChunks => ProducerFails("connectionLost")
      /\ W!TimedOut => ProducerFails("timedOut")
  BY <1>1, <1>7 DEF W!ForwardAbandoned, W!FailAfterSentChunks, W!TimedOut, W!ConnectionLost
<1>9. ASSUME W!HandOver
      PROVE  HandsOver \/ ProducerFails("connectionLost")
  <2>1. CASE /\ s.hyper # "gone" /\ s.chan = <<>>
             /\ s' = [s EXCEPT !.chan = s.piece, !.piece = <<>>, !.pc = "next"]
    <3>1. s.hyper = "polling" /\ s.pc = "send"
      BY <1>1, <1>9, <2>1 DEF W!HandOver, WireStates
    <3> QED BY <1>1, <2>1, <3>1 DEF HandsOver, WireStates
  <2>2. CASE s' = W!Failed([s EXCEPT !.piece = <<>>], "connectionLost")
    <3>1. s' = [s EXCEPT !.piece = <<>>, !.pc = "done", !.result = "connectionLost", !.abort = TRUE,
                         !.closed = TRUE]
      BY <1>1, <2>2 DEF W!Failed, WireStates
    <3> QED BY <1>1, <3>1 DEF ProducerFails, WireStates
  <2> QED BY <1>9, <2>1, <2>2 DEF W!HandOver, W!ConnectionLost
<1>10. ASSUME W!OutcomeKnown
       PROVE  KnowsOutcome
  <2>1. /\ s' = [s EXCEPT !.pc = "done", !.result = s.reported]
        /\ s.pc = "outcome" /\ s.reported # "none"
    BY <1>10 DEF W!OutcomeKnown
  <2>2. s.reported \in {"sent", "truncated", "connectionLost"}
    BY <1>1, <2>1 DEF WireStates
  <2>3. s' \in WireStates /\ s'.pc = "done" /\ s'.result = s.reported
    BY <1>1, <2>1, <2>2 DEF WireStates
  <2>4. /\ ResponseSame /\ EndSame /\ HyperSame /\ s'.chan = s.chan
        /\ s'.remaining = s.remaining /\ s'.piece = s.piece /\ s'.closed = s.closed
        /\ s'.abort = s.abort
    BY <1>1, <2>1, <2>3 DEF WireStates
  <2> QED BY <2>1, <2>3, <2>4 DEF KnowsOutcome
<1>11. ASSUME W!PollFrame
       PROVE  TakesChunk
  <2>1. PICK wire : wire = Append(s.wire, s.chan[1])
    OBVIOUS
  <2>2. s.hyper = "polling" /\ s.chan # <<>> /\ s.chan[1] \in Nat
    BY <1>1, <1>11, TailOf DEF W!PollFrame
  <2>3. wire \in Pieces /\ IsAppended(wire, s.wire, s.chan[1])
    BY SMTT(30), <1>1, <2>1, <2>2, AppendOf DEF IsAppended
  <2>4. s' = [s EXCEPT !.wire = wire, !.chan = <<>>, !.delivered = s.delivered + 1]
    BY <1>11, <2>1 DEF W!PollFrame
  <2>5. PICK delivered \in Nat : delivered = s.delivered + 1
    BY <1>1 DEF WireStates
  <2>6. s' = [s EXCEPT !.wire = wire, !.chan = <<>>, !.delivered = delivered]
    BY <2>4, <2>5
  <2>7. /\ s' \in WireStates /\ s'.wire = wire /\ s'.chan = <<>> /\ s'.delivered = delivered
        /\ s'.hyper = s.hyper /\ s'.reported = s.reported /\ s'.client = s.client
    BY <1>1, <2>3, <2>6 DEF WireStates
  <2>8. ResponseSame /\ EndSame /\ ProducerSame /\ s'.up = s.up
    BY <1>1, <2>6, <2>7 DEF WireStates
  <2> QED BY <2>2, <2>3, <2>5, <2>7, <2>8 DEF TakesChunk
<1>12. ASSUME NEW client \in {"complete", "broken"},
              NEW reported \in {"sent", "truncated", "connectionLost"},
              s.hyper = "polling", NEW chan, chan = <<>>,
              s' = W!Report([s EXCEPT !.hyper = "gone", !.chan = chan, !.client = client], reported),
              client = "complete" =>
                \/ s.declared # W!Undeclared /\ s.delivered >= s.declared
                \/ s.declared = W!Undeclared /\ s.chan = <<>> /\ s.closed /\ ~s.abort,
              reported = "sent" => client = "complete"
       PROVE  WireSteps
  <2>1. s' = [s EXCEPT !.hyper = "gone", !.chan = <<>>, !.client = client,
                       !.reported = IF s.reported = "none" THEN reported ELSE s.reported]
    BY <1>1, <1>12 DEF W!Report, WireStates
  <2>2. PICK r : r = IF s.reported = "none" THEN reported ELSE s.reported
    OBVIOUS
  <2>3. r \in {"none", "sent", "truncated", "connectionLost"}
    BY <1>1, <2>2 DEF WireStates
  <2>4. s' = [s EXCEPT !.hyper = "gone", !.chan = <<>>, !.client = client, !.reported = r]
    BY <2>1, <2>2
  <2>5. /\ s' \in WireStates /\ s'.hyper = "gone" /\ s'.chan = <<>> /\ s'.client = client
        /\ s'.reported = r
    <3>1. s' \in WireStates
      BY ZenonT(40), <1>1, <2>3, <2>4 DEF WireStates
    <3> QED BY <1>1, <2>4, <3>1 DEF WireStates
  <2>6. /\ s'.wire = s.wire /\ s'.delivered = s.delivered /\ s'.up = s.up
        /\ ResponseSame /\ EndSame /\ ProducerSame
    BY <1>1, <2>4, <2>5 DEF WireStates
  <2>7. HyperGoes(client, reported)
    BY <1>12, <2>2, <2>5, <2>6 DEF HyperGoes
  <2> QED BY <2>7 DEF WireSteps
<1>13. ASSUME W!PollEnd
       PROVE  WireSteps
  <2>1. PICK client \in {"complete", "broken"}, reported \in {"sent", "truncated", "connectionLost"} :
           /\ client = (IF s.abort \/ W!Short(s) THEN "broken" ELSE "complete")
           /\ reported = (IF s.abort THEN "connectionLost" ELSE IF W!Short(s) THEN "truncated" ELSE "sent")
    OBVIOUS
  <2>2. s.hyper = "polling" /\ s.chan = <<>> /\ s.closed
    BY <1>13 DEF W!PollEnd
  <2>3. [s EXCEPT !.hyper = "gone", !.chan = s.chan, !.client = client]
           = [s EXCEPT !.hyper = "gone", !.client = client]
    BY <1>1 DEF WireStates
  <2>5. s' = W!Report([s EXCEPT !.hyper = "gone", !.client = client], reported)
    BY <1>13, <2>1 DEF W!PollEnd, W!EndOutcome, W!ConnectionLost
  <2>6. client = "complete" =>
                \/ s.declared # W!Undeclared /\ s.delivered >= s.declared
                \/ s.declared = W!Undeclared /\ s.chan = <<>> /\ s.closed /\ ~s.abort
    BY <1>1, <2>1, <2>2 DEF W!Short, WireStates
  <2>7. reported = "sent" => client = "complete"
    BY <2>1
  <2> QED BY <1>12, <2>2, <2>3, <2>5, <2>6, <2>7
<1>14. W!DropFull => WireSteps
  BY <1>12 DEF W!DropFull
<1>15. W!DropLost => WireSteps
  BY <1>12 DEF W!DropLost, W!ConnectionLost
<1> QED BY <1>2, <1>3, <1>4, <1>5, <1>6, <1>7, <1>8, <1>9, <1>10, <1>11, <1>13, <1>14, <1>15
        DEF W!Next, W!Up, W!Producer, W!Hyper, WireSteps

\* How many chunks are where.
LEMMA WireCounts ==
    ASSUME s \in WireStates
    PROVE  /\ Len(s.wire) \in Nat /\ Len(s.chan) \in Nat /\ Len(s.piece) \in Nat /\ Len(s.up) \in Nat
           /\ s.made \in Nat /\ Taken \in Nat
BY LengthOf DEF WireStates, Taken

\* The source's chunks, when it gets one more.
LEMMA SourceGains ==
    ASSUME WireInv, SourceInOrder, ~s.upFailed, NEW item \in Nat, IsAppended(s'.up, s.up, item),
           Taken' = Taken,
           \/ item = s.made + 1 /\ s'.made = s.made + 1 /\ ~s'.upFailed
           \/ item = W!ErrorItem /\ s'.upFailed
    PROVE  SourceInOrder'
<1>1. PICK n, t, made \in Nat : n = Len(s.up) /\ t = Taken /\ made = s.made
  BY WireCounts DEF WireInv, WireType
<1>2. /\ made = t + n
      /\ \A i \in 1..n : s.up[i] = t + i
  BY <1>1 DEF SourceInOrder
<1>3. /\ s'.up \in Pieces /\ Len(s'.up) = n + 1 /\ s'.up[n + 1] = item
      /\ \A i \in 1..n : s'.up[i] = s.up[i]
  BY <1>1 DEF IsAppended
<1>4. n + 1 \in 1..n + 1 /\ n + 1 # 0
  BY <1>1
<1>5. s'.up # <<>>
  BY <1>3, <1>4, LengthOf
<1>6. ASSUME NEW i \in 1..n + 1
      PROVE  \/ s'.up[i] = t + i
             \/ i = n + 1 /\ s'.up[i] = W!ErrorItem /\ s'.upFailed
  <2>1. i = n + 1 \/ i \in 1..n
    BY <1>1
  <2>2. item = t + (n + 1) \/ (item = W!ErrorItem /\ s'.upFailed)
    BY <1>1, <1>2
  <2> QED BY <1>2, <1>3, <2>1, <2>2
<1>7. ~s'.upFailed => s'.made = t + (n + 1)
  BY <1>1, <1>2
<1> QED BY <1>1, <1>3, <1>5, <1>6, <1>7 DEF SourceInOrder

\* The source's chunks, when the first is taken.
LEMMA SourceGives ==
    ASSUME WireInv, SourceInOrder, s.up # <<>>, s.up[1] # W!ErrorItem, IsTail(s'.up, s.up),
           Taken' = Taken + 1, s'.upFailed = s.upFailed, s'.made = s.made
    PROVE  SourceInOrder' /\ s.up[1] = Taken + 1
<1>1. PICK n, t, made \in Nat : n = Len(s.up) /\ t = Taken /\ made = s.made
  BY WireCounts DEF WireInv, WireType
<1>2. n # 0
  BY <1>1, LengthOf DEF WireInv, WireType, WireStates
<1>3. /\ \A i \in 1..n : s.up[i] = t + i \/ (i = n /\ s.up[i] = W!ErrorItem /\ s.upFailed)
      /\ s.upFailed => s.up[n] = W!ErrorItem
      /\ ~s.upFailed => made = t + n
  BY <1>1 DEF SourceInOrder
<1>4. /\ s'.up \in Pieces /\ Len(s'.up) = n - 1
      /\ \A i \in 1..n - 1 : s'.up[i] = s.up[i + 1]
  BY <1>1 DEF IsTail
<1>5. s.up[1] = t + 1
  <2>1. 1 \in 1..n
    BY <1>2
  <2> QED BY <1>3, <2>1
<1>6. ASSUME NEW i \in 1..n - 1
      PROVE  \/ s'.up[i] = t + 1 + i
             \/ i = n - 1 /\ s'.up[i] = W!ErrorItem /\ s'.upFailed
  <2>1. i + 1 \in 1..n /\ (i + 1 = n => i = n - 1) /\ t + (i + 1) = t + 1 + i
    BY <1>1
  <2>2. s.up[i + 1] = t + (i + 1) \/ (i + 1 = n /\ s.up[i + 1] = W!ErrorItem /\ s.upFailed)
    BY <1>3, <2>1
  <2> QED BY <1>4, <2>1, <2>2
<1>7. ASSUME s.upFailed
      PROVE  s'.up # <<>> /\ s'.up[n - 1] = W!ErrorItem
  <2>1. n # 1
    BY <1>3, <1>7
  <2>2. n - 1 \in 1..n - 1 /\ n - 1 + 1 = n /\ n - 1 # 0
    BY <1>2, <2>1
  <2>3. s'.up[n - 1] = s.up[n]
    BY <1>4, <2>2
  <2>4. s'.up # <<>>
    BY <1>4, <2>2, LengthOf
  <2> QED BY <1>3, <1>7, <2>3, <2>4
<1>8. ~s'.upFailed => s'.made = t + 1 + (n - 1)
  <2>1. t + 1 + (n - 1) = t + n
    OBVIOUS
  <2> QED BY <1>1, <1>3, <2>1
<1>9. Taken' = t + 1
  BY <1>1
<1> QED BY <1>1, <1>4, <1>5, <1>6, <1>7, <1>8, <1>9 DEF SourceInOrder

\* The source's chunks, when nothing changes.
LEMMA SourceStays ==
    ASSUME SourceInOrder, s'.up = s.up, s'.upFailed = s.upFailed, s'.made = s.made, Taken' = Taken
    PROVE  SourceInOrder'
BY DEF SourceInOrder


LEMMA WireTypeStep ==
    ASSUME WireSteps
    PROVE  WireType'
BY DEF WireSteps, WireType, ResponseSame, Produces, ProducesError, SourceEnds, ForwardsChunk,
       ForwardsTooMuch,
       ForwardsError, ForwardsEnd, ProducerFails, HandsOver, KnowsOutcome, TakesChunk, HyperGoes


LEMMA WireInOrderStep ==
    ASSUME WireInv, WireSteps
    PROVE  WireInOrder'
<1> USE LengthOf
    DEF WireInv, WireType, WireStates, WireInOrder, SourceInOrder, WireInLength, WireEnds, Polling,
        Forwarding, Taken,
        W!ErrorItem, W!Undeclared, ResponseSame
<1>1. ASSUME Produces
      PROVE  WireInOrder'
  <2>1. /\ s'.wire = s.wire /\ s'.chan = s.chan /\ s'.piece = s.piece /\ s'.pc = s.pc
        /\ s'.hyper = s.hyper /\ s'.delivered = s.delivered /\ ~s.upEnded /\ ~s.upFailed
        /\ s'.upFailed = s.upFailed /\ s'.made = s.made + 1 /\ IsAppended(s'.up, s.up, s.made + 1)
    BY <1>1 DEF Produces, ProducerSame, HyperSame
  <2>2. Taken' = Taken /\ s.made + 1 \in Nat
    BY <2>1
  <2>3. WireInOrder /\ (Polling /\ Forwarding => SourceInOrder)
    OBVIOUS
  <2> HIDE DEF SourceInOrder, WireInv, Taken
  <2>4. (Polling /\ Forwarding => SourceInOrder)'
    BY <2>1, <2>2, <2>3, SourceGains
  <2> QED BY <2>1, <2>3, <2>4
<1>2. ASSUME ProducesError
      PROVE  WireInOrder'
  <2>1. /\ s'.wire = s.wire /\ s'.chan = s.chan /\ s'.piece = s.piece /\ s'.pc = s.pc
        /\ s'.hyper = s.hyper /\ s'.delivered = s.delivered /\ ~s.upEnded /\ ~s.upFailed
        /\ s'.upFailed /\ IsAppended(s'.up, s.up, W!ErrorItem)
    BY <1>2 DEF ProducesError, ProducerSame, HyperSame
  <2>2. Taken' = Taken /\ W!ErrorItem \in Nat
    BY <2>1
  <2>3. WireInOrder /\ (Polling /\ Forwarding => SourceInOrder)
    OBVIOUS
  <2> HIDE DEF SourceInOrder, WireInv, Taken
  <2>4. (Polling /\ Forwarding => SourceInOrder)'
    BY <2>1, <2>2, <2>3, SourceGains
  <2> QED BY <2>1, <2>3, <2>4
<1>3. ASSUME SourceEnds
      PROVE  WireInOrder'
  BY <1>3 DEF SourceEnds, ProducerSame, HyperSame
<1>4. ASSUME ForwardsChunk
      PROVE  WireInOrder'
  <2>1. /\ s'.wire = s.wire /\ s'.chan = s.chan /\ s.piece = <<>> /\ s'.pc = "send" /\ s.pc = "next"
        /\ s'.hyper = s.hyper /\ s'.delivered = s.delivered /\ s'.upFailed = s.upFailed
        /\ s'.made = s.made /\ IsTail(s'.up, s.up) /\ s.up # <<>> /\ s.up[1] # W!ErrorItem
    BY <1>4 DEF ForwardsChunk, EndSame, HyperSame
  <2>2. Len(s'.piece) = 1 /\ s'.piece[1] = s.up[1]
    BY <1>4 DEF ForwardsChunk, IsAppended
  <2>3. /\ Taken' = Taken + 1 /\ Taken = Len(s.wire) + Len(s.chan)
        /\ (Polling => SourceInOrder) /\ Taken \in Nat /\ WireInOrder
    BY <2>1, <2>2
  <2> HIDE DEF SourceInOrder, WireInv, Taken
  <2>4. Polling => SourceInOrder' /\ s.up[1] = Taken + 1
    BY <2>1, <2>3, SourceGives
  <2> QED BY <2>1, <2>2, <2>3, <2>4
<1>5. ASSUME ForwardsTooMuch
      PROVE  WireInOrder'
  BY <1>5 DEF ForwardsTooMuch, EndSame, HyperSame
<1>6. ASSUME ForwardsError
      PROVE  WireInOrder'
  BY <1>6 DEF ForwardsError, EndSame, HyperSame
<1>7. ASSUME ForwardsEnd
      PROVE  WireInOrder'
  BY <1>7 DEF ForwardsEnd, EndSame, HyperSame
<1>8. ASSUME NEW outcome \in {"connectionLost", "timedOut"}, ProducerFails(outcome)
      PROVE  WireInOrder'
  BY <1>8 DEF ProducerFails, EndSame, HyperSame
<1>9. ASSUME HandsOver
      PROVE  WireInOrder'
  <2>1. /\ s'.wire = s.wire /\ s.chan = <<>> /\ s'.chan = s.piece /\ s'.piece = <<>>
        /\ s.pc = "send" /\ s'.pc = "next" /\ Polling /\ s'.hyper = s.hyper
        /\ s'.delivered = s.delivered /\ s'.upFailed = s.upFailed
        /\ s'.made = s.made /\ s'.up = s.up
    BY <1>9 DEF HandsOver, EndSame, HyperSame
  <2>2. /\ Len(s.chan) = 0 /\ Len(s'.piece) = 0 /\ Len(s.piece) = 1 /\ Len(s.wire) \in Nat
        /\ s.piece[1] = Len(s.wire) + Len(s.chan) + 1
    BY <2>1
  <2>3. Taken' = Taken /\ Len(s'.chan) = 1 /\ s'.chan[1] = Len(s'.wire) + 1
    BY <2>1, <2>2
  <2>4. SourceInOrder'
    BY <2>1, <2>3
  <2> HIDE DEF SourceInOrder
  <2> QED BY <2>1, <2>3, <2>4
<1>10. ASSUME KnowsOutcome
      PROVE  WireInOrder'
  BY <1>10 DEF KnowsOutcome, EndSame, HyperSame
<1>11. ASSUME TakesChunk
      PROVE  WireInOrder'
  <2>1. /\ s'.chan = <<>> /\ s.chan # <<>> /\ s'.piece = s.piece /\ s'.pc = s.pc
        /\ Polling /\ Polling' /\ s'.delivered = s.delivered + 1 /\ s'.upFailed = s.upFailed
        /\ s'.made = s.made /\ s'.up = s.up
    BY <1>11 DEF TakesChunk, EndSame, ProducerSame
  <2>2. PICK n \in Nat : n = Len(s.wire)
    OBVIOUS
  <2>3. Len(s.chan) = 1 /\ s.chan[1] = n + 1 /\ Len(s'.chan) = 0
    <3>1. PICK m \in Nat : m = Len(s.chan)
      OBVIOUS
    <3>2. m # 0 /\ m <= 1 /\ s.chan[1] = n + 1 /\ Len(s'.chan) = 0
      BY <2>1, <2>2, <3>1
    <3>3. m = 1
      BY <3>2
    <3> QED BY <3>1, <3>2, <3>3
  <2>4. /\ Len(s'.wire) = n + 1 /\ s'.wire[n + 1] = n + 1
        /\ \A i \in 1..n : s'.wire[i] = s.wire[i]
    BY <1>11, <2>2, <2>3 DEF TakesChunk, IsAppended
  <2>5. ASSUME NEW i \in 1..n + 1
        PROVE  s'.wire[i] = i
    <3>1. i = n + 1 \/ i \in 1..n
      BY <2>2
    <3> QED BY <2>2, <2>4, <3>1
  <2>6. Taken' = Taken
    BY <2>1, <2>2, <2>3, <2>4
  <2>7. Forwarding' => SourceInOrder'
    <3>1. Forwarding' => SourceInOrder
      BY <2>1
    <3> HIDE DEF SourceInOrder, WireInv, Taken
    <3> QED BY <2>1, <2>6, <3>1, SourceStays
  <2>8. s'.pc = "send" => s'.piece[1] = Len(s'.wire) + Len(s'.chan) + 1
    BY <2>1, <2>2, <2>3, <2>4
  <2>9. \A i \in 1..Len(s'.wire) : s'.wire[i] = i
    BY <2>4, <2>5
  <2>10. s'.delivered = Len(s'.wire)
    BY <2>1, <2>2, <2>4
  <2>11. IF s'.pc = "send" THEN Len(s'.piece) = 1 ELSE s'.piece = <<>>
    BY <2>1
  <2> HIDE DEF SourceInOrder, WireInv, Taken
  <2> QED BY <2>1, <2>3, <2>7, <2>8, <2>9, <2>10, <2>11
<1>12. ASSUME NEW client \in {"complete", "broken"}, NEW reported \in {"sent", "truncated", "connectionLost"},
             HyperGoes(client, reported)
      PROVE  WireInOrder'
  BY <1>12 DEF HyperGoes, EndSame, ProducerSame
<1> QED BY <1>1, <1>2, <1>3, <1>4, <1>5, <1>6, <1>7, <1>8, <1>9, <1>10, <1>11, <1>12 DEF WireSteps

LEMMA WireInLengthStep ==
    ASSUME WireInv, WireSteps
    PROVE  WireInLength'
<1> USE LengthOf
    DEF WireInv, WireType, WireStates, WireInOrder, SourceInOrder, WireInLength, WireEnds, Polling,
        Forwarding, Taken,
        W!ErrorItem, W!Undeclared, ResponseSame
<1>1. ASSUME Produces
      PROVE  WireInLength'
  BY <1>1 DEF Produces, ProducerSame, HyperSame
<1>2. ASSUME ProducesError
      PROVE  WireInLength'
  BY <1>2 DEF ProducesError, ProducerSame, HyperSame
<1>3. ASSUME SourceEnds
      PROVE  WireInLength'
  BY <1>3 DEF SourceEnds, ProducerSame, HyperSame
<1>4. ASSUME ForwardsChunk
      PROVE  WireInLength'
  <2>1. /\ s'.wire = s.wire /\ s'.chan = s.chan /\ s.piece = <<>> /\ s'.pc = "send" /\ s.pc = "next"
        /\ s'.hyper = s.hyper /\ s.remaining # 0
        /\ s'.remaining = IF s.remaining = W!Undeclared THEN s.remaining ELSE s.remaining - 1
        /\ s'.declared = s.declared /\ s'.told = s.told /\ s'.head = s.head /\ s'.size = s.size
    BY <1>4 DEF ForwardsChunk, EndSame, HyperSame
  <2>2. Len(s'.piece) = 1
    BY <1>4 DEF ForwardsChunk, IsAppended
  <2>3. Taken' = Taken + 1 /\ Taken \in Nat
    BY <2>1, <2>2
  <2>4. s.declared # W!Undeclared => s.remaining - 1 \in Nat
    BY <2>1
  <2> HIDE DEF Taken
  <2> QED BY <2>1, <2>3, <2>4
<1>5. ASSUME ForwardsTooMuch
      PROVE  WireInLength'
  BY <1>5 DEF ForwardsTooMuch, EndSame, HyperSame
<1>6. ASSUME ForwardsError
      PROVE  WireInLength'
  BY <1>6 DEF ForwardsError, EndSame, HyperSame
<1>7. ASSUME ForwardsEnd
      PROVE  WireInLength'
  BY <1>7 DEF ForwardsEnd, EndSame, HyperSame
<1>8. ASSUME NEW outcome \in {"connectionLost", "timedOut"}, ProducerFails(outcome)
      PROVE  WireInLength'
  BY <1>8 DEF ProducerFails, EndSame, HyperSame
<1>9. ASSUME HandsOver
      PROVE  WireInLength'
  BY <1>9 DEF HandsOver, EndSame, HyperSame
<1>10. ASSUME KnowsOutcome
      PROVE  WireInLength'
  BY <1>10 DEF KnowsOutcome, EndSame, HyperSame
<1>11. ASSUME TakesChunk
      PROVE  WireInLength'
  <2>1. /\ s'.chan = <<>> /\ s.chan # <<>> /\ s'.piece = s.piece /\ s'.pc = s.pc
        /\ Polling /\ s'.upFailed = s.upFailed /\ s'.upEnded = s.upEnded
        /\ s'.made = s.made /\ s'.remaining = s.remaining
        /\ s'.declared = s.declared /\ s'.told = s.told /\ s'.head = s.head /\ s'.size = s.size
    BY <1>11 DEF TakesChunk, EndSame, ProducerSame
  <2>2. Len(s.chan) = 1 /\ Len(s'.chan) = 0
    <3>1. PICK m \in Nat : m = Len(s.chan)
      OBVIOUS
    <3>2. m # 0 /\ m <= 1 /\ Len(s'.chan) = 0
      BY <2>1, <3>1
    <3>3. m = 1
      BY <3>2
    <3> QED BY <3>1, <3>2, <3>3
  <2>3. Len(s'.wire) = Len(s.wire) + 1
    BY <1>11 DEF TakesChunk, IsAppended
  <2>4. Taken' = Taken
    BY <2>1, <2>2, <2>3
  <2> HIDE DEF Taken
  <2> QED BY <2>1, <2>4
<1>12. ASSUME NEW client \in {"complete", "broken"}, NEW reported \in {"sent", "truncated", "connectionLost"},
             HyperGoes(client, reported)
      PROVE  WireInLength'
  BY <1>12 DEF HyperGoes, EndSame, ProducerSame
<1> QED BY <1>1, <1>2, <1>3, <1>4, <1>5, <1>6, <1>7, <1>8, <1>9, <1>10, <1>11, <1>12 DEF WireSteps

LEMMA WireEndsStep ==
    ASSUME WireInv, WireSteps
    PROVE  WireEnds'
<1> USE LengthOf
    DEF WireInv, WireType, WireStates, WireInOrder, SourceInOrder, WireInLength, WireEnds, Polling,
        Forwarding, Taken,
        W!ErrorItem, W!Undeclared, ResponseSame
<1>1. ASSUME Produces
      PROVE  WireEnds'
  BY <1>1 DEF Produces, ProducerSame, HyperSame
<1>2. ASSUME ProducesError
      PROVE  WireEnds'
  BY <1>2 DEF ProducesError, ProducerSame, HyperSame
<1>3. ASSUME SourceEnds
      PROVE  WireEnds'
  BY <1>3 DEF SourceEnds, ProducerSame, HyperSame
<1>4. ASSUME ForwardsChunk
      PROVE  WireEnds'
  BY <1>4 DEF ForwardsChunk, EndSame, HyperSame
<1>5. ASSUME ForwardsTooMuch
      PROVE  WireEnds'
  BY <1>5 DEF ForwardsTooMuch, EndSame, HyperSame
<1>6. ASSUME ForwardsError
      PROVE  WireEnds'
  BY <1>6 DEF ForwardsError, EndSame, HyperSame
<1>7. ASSUME ForwardsEnd
      PROVE  WireEnds'
  BY <1>7 DEF ForwardsEnd, EndSame, HyperSame
<1>8. ASSUME NEW outcome \in {"connectionLost", "timedOut"}, ProducerFails(outcome)
      PROVE  WireEnds'
  BY <1>8 DEF ProducerFails, EndSame, HyperSame
<1>9. ASSUME HandsOver
      PROVE  WireEnds'
  BY <1>9 DEF HandsOver, EndSame, HyperSame
<1>10. ASSUME KnowsOutcome
      PROVE  WireEnds'
  BY <1>10 DEF KnowsOutcome, EndSame, HyperSame
<1>11. ASSUME TakesChunk
      PROVE  WireEnds'
  BY <1>11 DEF TakesChunk, EndSame, ProducerSame
<1>12. ASSUME NEW client \in {"complete", "broken"}, NEW reported \in {"sent", "truncated", "connectionLost"},
             HyperGoes(client, reported)
      PROVE  WireEnds'
  BY <1>12 DEF HyperGoes, EndSame, ProducerSame
<1> QED BY <1>1, <1>2, <1>3, <1>4, <1>5, <1>6, <1>7, <1>8, <1>9, <1>10, <1>11, <1>12 DEF WireSteps

\* What frames a response is a length or nothing.
LEMMA LengthsAreLengths ==
    ASSUME NEW lengths \in W!Lengths
    PROVE  W!DeclaredContentLength(lengths) \in Int /\ W!DeclaredContentLength(lengths) >= W!Undeclared
<1>1. PICK n \in 0..2 : lengths \in [1..n -> {W!Undeclared} \cup 0..MaxLength]
  BY DEF W!Lengths, W!SeqOf
<1>2. Len(lengths) = n
  BY <1>1
<1>3. n = 1 => lengths[1] \in {W!Undeclared} \cup 0..MaxLength
  BY <1>1
<1>4. W!DeclaredContentLength(lengths) \in {W!Undeclared} \cup 0..MaxLength
  BY <1>2, <1>3 DEF W!DeclaredContentLength
<1> QED BY <1>4, BodyAssumption DEF W!Undeclared

LEMMA WireInitially == W!Init => WireInv
<1> SUFFICES ASSUME W!Init
             PROVE  WireInv
  OBVIOUS
<1> USE DEF W!Undeclared
<1>1. PICK head, bodiless \in BOOLEAN, lengths \in W!Lengths, given \in W!Bodies :
         s = W!Respond(head, bodiless, lengths, given)
  BY DEF W!Init
<1>2. /\ given.kind \in {"stream", "host", "consumed", "bytes"}
      /\ given.kind = "bytes" => given.size \in Nat
      /\ given.kind # "bytes" => given.size = -1
  BY BodyAssumption DEF W!Bodies
<1>3. PICK declared : declared = W!DeclaredLength(head, bodiless, lengths, given)
  OBVIOUS
<1>4. /\ declared \in Int /\ (declared # -1 => declared \in Nat)
      /\ bodiless => declared = -1
      /\ ~bodiless /\ ~head /\ given.kind = "bytes" => declared = given.size
  <2>1. PICK length \in Int : length = W!DeclaredContentLength(lengths) /\ length >= -1
    BY LengthsAreLengths
  <2>2. declared = CASE bodiless -> -1
                     [] ~bodiless /\ head -> IF length = -1 THEN given.size ELSE length
                     [] ~bodiless /\ ~head /\ given.kind = "bytes" -> given.size
                     [] ~bodiless /\ ~head /\ given.kind = "consumed" -> -1
                     [] OTHER -> length
    BY <1>3, <2>1 DEF W!DeclaredLength, W!Or
  <2>3. CASE bodiless
    BY <2>2, <2>3
  <2>4. CASE ~bodiless /\ head
    BY <1>2, <2>1, <2>2, <2>4
  <2>5. CASE ~bodiless /\ ~head /\ given.kind \in {"bytes", "consumed"}
    BY <1>2, <2>1, <2>2, <2>5
  <2>6. CASE ~bodiless /\ ~head /\ given.kind \in {"stream", "host"}
    BY <1>2, <2>1, <2>2, <2>6
  <2> QED BY <1>2, <2>3, <2>4, <2>5, <2>6
<1>5. PICK body : body = W!PreparedBody(head, bodiless, given)
  OBVIOUS
<1>6. /\ body.kind \in {"stream", "host", "consumed", "bytes"}
      /\ body.kind = "bytes" => body.size \in Nat
      /\ body.kind # "bytes" => body.size = -1
      /\ head \/ bodiless => body.kind = "bytes" /\ body.size = 0
      /\ ~head /\ ~bodiless => body = given
  BY <1>2, <1>5 DEF W!PreparedBody, W!NoContent
<1>7. PICK empty \in BOOLEAN : empty <=> body.kind = "consumed" \/ body.size = 0
  OBVIOUS
<1>8. PICK held \in Nat : held = IF body.kind = "bytes" THEN body.size ELSE 0
  BY <1>6
<1>9. PICK up : up = [i \in 1..held |-> i]
  OBVIOUS
<1>10. up \in Pieces /\ Len(up) = held /\ \A i \in 1..held : up[i] = i
  BY <1>9 DEF Pieces
<1>11. PICK told : told = IF head \/ bodiless \/ ~empty THEN declared ELSE 0
  OBVIOUS
<1>12. s = [kind |-> IF body.kind = "stream" THEN "stream" ELSE "own",
            declared |-> declared, remaining |-> declared, size |-> body.size, told |-> told,
            head |-> head, up |-> up, upEnded |-> body.kind \in {"bytes", "consumed"},
            upFailed |-> FALSE, made |-> held, loopDone |-> FALSE,
            pc |-> IF empty THEN "done" ELSE "next", piece |-> <<>>, result |-> "none",
            chan |-> <<>>, closed |-> FALSE, abort |-> FALSE,
            hyper |-> IF empty THEN "gone" ELSE "polling", delivered |-> 0, reported |-> "none",
            wire |-> <<>>, client |-> IF empty THEN "complete" ELSE "open"]
  <2>1. W!IsEmpty(body) <=> empty
    BY <1>7 DEF W!IsEmpty
  <2>2. W!ContentLength(head, bodiless, body, declared) = told
    BY <1>11, <2>1 DEF W!ContentLength
  <2>3. W!FirstChunks(held) = up
    BY <1>9 DEF W!FirstChunks
  <2> QED BY <1>1, <1>3, <1>5, <1>8, <2>1, <2>2, <2>3 DEF W!Respond
<1>13. /\ s.declared = declared /\ s.remaining = declared /\ s.size = body.size /\ s.told = told
       /\ s.head = head /\ s.up = up /\ s.made = held /\ s.piece = <<>> /\ s.chan = <<>> /\ s.wire = <<>>
       /\ (s.upEnded <=> body.kind \in {"bytes", "consumed"}) /\ ~s.upFailed /\ ~s.closed
       /\ s.result = "none" /\ s.reported = "none" /\ s.delivered = 0
       /\ empty => s.pc = "done" /\ s.hyper = "gone" /\ s.client = "complete"
       /\ ~empty => s.pc = "next" /\ s.hyper = "polling" /\ s.client = "open"
  BY <1>12
<1>14. body.size \in Int /\ told \in Int
  BY <1>4, <1>6, <1>11
<1>15. WireType
  BY <1>4, <1>10, <1>12, <1>14, LengthOf DEF WireType, WireStates
<1>16. Taken = 0
  BY <1>13, LengthOf DEF Taken
<1>17. WireInOrder
  BY <1>10, <1>13, <1>16, LengthOf DEF WireInOrder, SourceInOrder, Polling, Forwarding
<1>18. ~empty => ~head /\ ~bodiless /\ body = given /\ told = declared /\ body.size # 0
  BY <1>6, <1>7, <1>11
<1>19. WireInLength
  BY <1>4, <1>6, <1>13, <1>16, <1>18 DEF WireInLength, Polling
<1>20. WireEnds
  <2>1. Len(s.wire) = 0
    BY <1>13, LengthOf
  <2>2. CASE ~empty
    BY <1>13, <2>2 DEF WireEnds, Polling
  <2>3. CASE empty
    <3>1. held = 0 /\ s.upEnded /\ (body.size # -1 => body.size = 0)
      <4>1. body.kind = "consumed" \/ (body.kind = "bytes" /\ body.size = 0)
        BY <1>6, <1>7, <2>3
      <4>2. s.upEnded
        BY <1>13, <4>1
      <4> QED BY <1>6, <1>8, <4>1, <4>2
    <3>2. ~head => told = 0 \/ told = -1
      BY <1>4, <1>11, <2>3
    <3> QED BY <1>13, <2>1, <2>3, <3>1, <3>2 DEF WireEnds, Polling
  <2> QED BY <2>2, <2>3
<1> QED BY <1>15, <1>17, <1>19, <1>20 DEF WireInv

LEMMA WireInductive == WireInv /\ [W!Next]_s => WireInv'
<1>1. WireInv /\ W!Next => WireInv'
  BY NextWireSteps, WireTypeStep, WireInOrderStep, WireInLengthStep, WireEndsStep DEF WireInv
<1>2. WireInv /\ UNCHANGED s => WireInv'
  <2> SUFFICES ASSUME WireInv, s' = s
               PROVE  WireInv'
    OBVIOUS
  <2>1. WireType' /\ Taken' = Taken
    BY DEF WireInv, WireType, Taken
  <2>2. SourceInOrder' <=> SourceInOrder
    BY <2>1 DEF SourceInOrder
  <2>3. WireInOrder'
    BY <2>1, <2>2 DEF WireInv, WireInOrder, Polling, Forwarding
  <2>4. WireInLength' /\ WireEnds'
    BY <2>1 DEF WireInv, WireInLength, WireEnds, Polling
  <2> QED BY <2>1, <2>3, <2>4 DEF WireInv
<1> QED BY <1>1, <1>2

LEMMA WireHolds == WireInv => W!CompleteIsComplete /\ W!SentWasReceived
<1> SUFFICES ASSUME WireInv
             PROVE  W!CompleteIsComplete /\ W!SentWasReceived
  OBVIOUS
<1>1. s.wire \in Pieces
  BY DEF WireInv, WireType, WireStates
<1>2. s.wire = W!FirstChunks(Len(s.wire))
  <2>1. s.wire = [i \in 1..Len(s.wire) |-> s.wire[i]]
    BY <1>1 DEF Pieces
  <2>2. \A i \in 1..Len(s.wire) : s.wire[i] = i
    BY DEF WireInv, WireInOrder
  <2> QED BY <2>1, <2>2 DEF W!FirstChunks
<1> QED BY <1>2 DEF W!CompleteIsComplete, W!SentWasReceived, WireInv, WireEnds

\* No response looks complete to its client that is not: all of it was sent, in order and once,
\* and no more than was declared; and a handler that is told its response was sent has a
\* client that got it (send_response_body, forward_stream, forward_body, WireBody).
THEOREM ResponseBodyStaysHonest == Spec => []ResponseBodyHonest
<1> DEFINE Inv == kind = "wire body" => WireInv
<1>1. Init => Inv
  BY WireInitially DEF Init
<1>2. Inv /\ [Next]_<<kind, s, frames>> => Inv'
  <2> SUFFICES ASSUME Inv, [Next]_<<kind, s, frames>>, kind' = "wire body"
               PROVE  WireInv'
    OBVIOUS
  <2>1. WireInv /\ [W!Next]_s
    BY Follows
  <2> QED BY <2>1, WireInductive
<1>3. Inv => ResponseBodyHonest
  BY WireHolds DEF ResponseBodyHonest
<1> HIDE DEF Inv
<1> QED BY <1>1, <1>2, <1>3, PTL DEF Spec

=============================================================================
