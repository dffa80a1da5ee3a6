----------------------------- MODULE StreamsProofs -----------------------------
(***************************************************************************)
(* What the run Streams checks of a writable stream, among the behaviours  *)
(* of all streams, holds for any writers, chunks, sizes and high-water     *)
(* mark.  The invariant and the steps are those of WritableProofs.         *)
(***************************************************************************)
EXTENDS MCStreams, WritableProofs

WritableInv == kind = "writable" => StreamInv

LEMMA WritableStep ==
    ASSUME WritableInv, StreamsNext, kind = "writable"
    PROVE  kind' = "writable" /\ Follows
<1>1. kind' = "writable" /\ Next
  BY DEF StreamsNext
<1> QED BY <1>1, StepHolds DEF WritableInv

LEMMA StreamsStayConsistent == StreamsSpec => []WritableInv
<1>1. StreamsInit => WritableInv
  BY NewStreamHolds DEF StreamsInit, WritableInv, StreamInv
<1>2. WritableInv /\ [StreamsNext]_<<kind, s, frames>> => WritableInv'
  <2>1. CASE StreamsNext /\ kind = "writable" /\ WritableInv
    BY <2>1, WritableStep DEF WritableInv, StreamInv, Follows
  <2>2. CASE StreamsNext /\ kind # "writable"
    BY <2>2 DEF StreamsNext, WritableInv
  <2>3. CASE UNCHANGED <<kind, s, frames>> /\ WritableInv
    BY <2>3 DEF WritableInv, StreamInv, Suspended
  <2> QED BY <2>1, <2>2, <2>3
<1> QED BY <1>1, <1>2, PTL DEF StreamsSpec

\* writable_stream_finish_erroring, finish_in_flight_close and the controller's queue: a closed
\* stream wrote every chunk, nobody waits for a stream that is over, the two queues agree, and
\* `ready' tells backpressure.
THEOREM WritesAreAnswered == StreamsSpec => []WritesAnswered
<1>1. WritableInv => WritesAnswered
  BY EverybodyAnswered DEF WritableInv, WritesAnswered
<1> QED BY <1>1, StreamsStayConsistent, PTL

\* What StreamAsserts says of a writable stream: no debug_assert of algorithms.rs fails, and no
\* sink method is skipped because its algorithm was cleared too early.
WritableAsserts == kind = "writable" => TypeOK /\ AssertsHold /\ SinkMethodsReached

THEOREM NoWritableAssertFails == StreamsSpec => []WritableAsserts
<1>1. WritableInv => WritableAsserts
  BY NothingFails DEF WritableInv, WritableAsserts
<1> QED BY <1>1, StreamsStayConsistent, PTL

LEMMA ServingIsProtocol ==
    ASSUME kind = "writable", kind' = "writable", Serves(s, s')
    PROVE  SinkCalls!Next \/ UNCHANGED SinkCalls!sinkVars
<1>1. Fate = FateOf(s) /\ Fate' = FateOf(s')
  BY DEF Fate, FateOf
<1>2. CASE Unseen(s, s')
  BY <1>1, <1>2 DEF Unseen, SameCalls, SinkCalls!sinkVars
<1>3. CASE Accepts(s, s')
  BY <1>1, <1>3 DEF Accepts, Holds, SinkCalls!Next, SinkCalls!Accept
<1>4. CASE Breaks(s, s')
  BY <1>1, <1>4 DEF Breaks, SinkCalls!Next, SinkCalls!Break, SinkCalls!Answered
<1>5. CASE BeginsWrite(s, s')
  BY <1>1, <1>5 DEF BeginsWrite, Answers, SinkCalls!Next, SinkCalls!Write, SinkCalls!Begin,
                    SinkCalls!Answered
<1>6. CASE BeginsClose(s, s')
  BY <1>1, <1>6 DEF BeginsClose, Answers, SinkCalls!Next, SinkCalls!Close, SinkCalls!Begin,
                    SinkCalls!Answered
<1>7. CASE BeginsAbort(s, s')
  BY <1>1, <1>7 DEF BeginsAbort, Answers, SinkCalls!Next, SinkCalls!Abort, SinkCalls!Begin,
                    SinkCalls!Answered
<1>8. CASE Returns(s, s')
  BY <1>1, <1>8 DEF Returns, SinkCalls!Next, SinkCalls!Return, SinkCalls!Answered
<1> QED BY <1>2, <1>3, <1>4, <1>5, <1>6, <1>7, <1>8 DEF Serves

\* The writable stream implements SinkProtocol: the sink is called once at a time, with each
\* accepted chunk once and in order, closed after the last of them and never after an abort().
THEOREM StreamImplementsSinkProtocol == StreamsSpec => SinkCallsInOrder
<1>1. StreamsInit => SinkCalls!Init
  <2>1. ASSUME StreamsInit, kind = "writable"
        PROVE  SinkCalls!Init
    <3>1. Init
      BY <2>1 DEF StreamsInit
    <3>2. /\ s.sink = "start" /\ s.answers = 0 /\ s.accepted = <<>> /\ s.written = <<>>
          /\ FateOf(s) = "open"
      BY <3>1, NewStreamHolds
    <3> QED BY <2>1, <3>2 DEF SinkCalls!Init, Fate, FateOf
  <2>2. kind # "writable" => SinkCalls!Init
    BY DEF SinkCalls!Init
  <2> QED BY <2>1, <2>2
<1>2. WritableInv /\ [StreamsNext]_<<kind, s, frames>> => [SinkCalls!Next]_SinkCalls!sinkVars
  <2>1. CASE StreamsNext /\ kind = "writable" /\ WritableInv
    BY <2>1, WritableStep, ServingIsProtocol DEF Follows
  <2>2. CASE StreamsNext /\ kind # "writable"
    <3>1. kind' # "writable"
      BY <2>2 DEF StreamsNext
    <3> QED BY <2>2, <3>1 DEF SinkCalls!sinkVars
  <2>3. CASE UNCHANGED <<kind, s, frames>>
    BY <2>3 DEF SinkCalls!sinkVars, Fate
  <2> QED BY <2>1, <2>2, <2>3
<1> QED BY <1>1, <1>2, StreamsStayConsistent, PTL DEF StreamsSpec, SinkCallsInOrder, SinkCalls!Spec
=============================================================================
