------------------------------- MODULE MCHost -------------------------------
(***************************************************************************)
(* The servers and the bodies on their way, for TLC: the pump of a body    *)
(* that author code writes and the component's body writer, the native     *)
(* server's request and response bodies, its connections, the component's  *)
(* startup, and the writable stream under its sink.  `kind' says which of  *)
(* the specifications a behaviour follows, and Kinds picks those of a run. *)
(***************************************************************************)
EXTENDS Integers, Sequences

CONSTANTS
    Kinds,
    MaxChunks, MaxLength, BatchLimit, Buffer,   \* of the pump and the bodies
    MaxSent, MaxFrame, MaxBody, Budget,         \* of a request body
    Conns, MaxRequests, MaxConnections,         \* of the native server
    Requests, MaxTime                           \* of the component

VARIABLES kind, s, frames

\* The two servers come with the facts that are proved of them (see HostProofs).
P == INSTANCE BodyPump
Q == INSTANCE RequestBody
W == INSTANCE WireBody
N == INSTANCE NativeServerProofs
C == INSTANCE WasmServerProofs
S == INSTANCE WritableStream WITH Writers <- {"w"}, Chunks <- {"c1", "c2"}, Sizes <- {-1, 0, 1},
                                  HighWaterMark <- 1

ASSUME ServerAssumption == N!ConstantsAssumption
ASSUME BodyAssumption ==
    /\ MaxBody \in Nat /\ Budget \in Nat /\ Buffer \in Nat
    /\ MaxChunks \in Nat /\ MaxLength \in Nat

Init ==
    /\ kind \in Kinds
    /\ \/ kind = "pump" /\ frames = <<>> /\ P!Init
       \/ kind = "request body" /\ frames = <<>> /\ Q!Init
       \/ kind = "wire body" /\ frames = <<>> /\ W!Init
       \/ kind = "native" /\ frames = <<>> /\ N!Init
       \/ kind = "component" /\ frames = <<>> /\ C!Init
       \/ kind = "writable" /\ S!Init

Next ==
    /\ UNCHANGED kind
    /\ \/ kind = "pump" /\ P!Next /\ UNCHANGED frames
       \/ kind = "request body" /\ Q!Next /\ UNCHANGED frames
       \/ kind = "wire body" /\ W!Next /\ UNCHANGED frames
       \/ kind = "native" /\ N!Next /\ UNCHANGED frames
       \/ kind = "component" /\ C!Next /\ UNCHANGED frames
       \/ kind = "writable" /\ S!Next

\* Each specification has the fairness that its module gives it.
Spec ==
    /\ Init /\ [][Next]_<<kind, s, frames>>
    /\ WF_s(kind = "pump" /\ P!Pump) /\ WF_s(kind = "pump" /\ P!Writer)
    /\ WF_s(kind = "pump" /\ P!PullReturns) /\ WF_s(kind = "pump" /\ P!LoopRunsOut)
    /\ WF_s(kind = "request body" /\ Q!Pump) /\ WF_s(kind = "request body" /\ Q!Clock)
    /\ WF_s(kind = "wire body" /\ W!Producer) /\ WF_s(kind = "wire body" /\ W!Hyper)
    /\ WF_<<s, frames>>(kind = "writable" /\ S!AuthorCodeReturns)
    /\ WF_<<s, frames>>(kind = "writable" /\ S!Reaction)

-----------------------------------------------------------------------------
(* Properties.  Each is about one of the specifications, and is stated     *)
(* there.                                                                  *)

\* The chunks of a body go out in order and once, a body that counts as sent is complete, and
\* the pump stops only where something will wake it or nothing is left to do.
PumpedInOrder ==
    kind = "pump" => P!PumpInOrder /\ P!SentIsComplete /\ P!PumpGoesOn /\ P!AbandonedIsHopeless

\* A connection that is kept is at the end of the request's body, and a reader is told of the
\* end of a body that was all delivered.
RequestBodyInStep == kind = "request body" => Q!ConnectionInStep /\ Q!EndIsHonest

\* "so a truncated or over-long upload errors the consumer's stream instead of looking like a
\* clean end of body".
NoSilentTruncation == kind = "request body" => Q!NoSilentTruncation

\* A client is told that a body is complete, and the handler that it was sent, only if it is.
ResponseBodyHonest == kind = "wire body" => W!CompleteIsComplete /\ W!SentWasReceived

\* Realms nest, no request starts on a connection that was given up, and whoever is gone left
\* neither a loop nor a slot behind.
ServerKeepsOrder ==
    kind = "native" =>
        N!RealmsNest /\ N!NoRequestAfterClose /\ N!LoopsReleased /\ N!NoSlotForgotten

\* While requests wait for the top level one of them drives it, no handler runs before it is
\* done, and no clock goes back over a snapshot.
StartupIsDriven ==
    kind = "component" => C!WaitersHaveADriver /\ C!ServedAfterStartup /\ C!ClockGoesOn

\* Startup::Driving: "A request is currently driving it. Concurrent requests wait."
DrivingIsDriven == kind = "component" => C!DrivingIsDriven

In(k, fact) == kind = k /\ fact

\* Whoever has nothing more to wait for comes to an end: a body whose author is done, a request
\* body with a limit on its waits, a response body whose stream ended or whose loop is done.
\* And whoever wrote to, closed or aborted a writable stream gets an answer, as does a writer
\* that waits for `ready', provided that author code returns and sinks answer.
NobodyWaitsForever ==
    /\ In("pump", ~s.live) ~> In("pump", s.writer = "done")
    /\ In("request body", s.timeouts) ~> In("request body", s.pc \in {"done", "error"})
    /\ In("wire body", s.upEnded \/ s.loopDone) ~>
           In("wire body", s.pc = "done" /\ s.hyper = "gone")
    /\ \A c \in {"c1", "c2"} : In("writable", s.writeP[c] = "pending") ~>
                                   In("writable", s.writeP[c] # "pending")
    /\ In("writable", s.closeP = "pending") ~> In("writable", s.closeP # "pending")
    /\ In("writable", s.abortP = "pending") ~> In("writable", s.abortP # "pending")
    /\ In("writable", s.ready["w"] = "pending") ~> In("writable", s.ready["w"] # "pending")

=============================================================================
