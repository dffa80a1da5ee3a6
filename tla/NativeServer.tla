---------------------------- MODULE NativeServer ----------------------------
(***************************************************************************)
(* The native server's loop (serve_native.rs: run_server,                  *)
(* serve_connection, drive_connection, serve_request, finish_request):     *)
(* connections are accepted up to a limit, each dispatches its requests in *)
(* turn, and the work that a request leaves behind its response head is    *)
(* registered with the loop.  In isolated mode a request has a realm of    *)
(* its own, entered from before its script is evaluated until its last     *)
(* work is done.                                                           *)
(*                                                                         *)
(* One turn of the loop polls its arms in order: a new connection          *)
(* ("accept"), the registered work ("work"), the connections ("conns"); an *)
(* arm that completes ends the step, and the capacity is computed again.   *)
(* What a body does on its way is in RequestBody and WireBody, the         *)
(* dispatch itself in FetchDispatch.                                       *)
(***************************************************************************)
EXTENDS Integers, Sequences, FiniteSets, SequencesExt

CONSTANTS
    Conns,           \* the connections clients make
    MaxRequests,     \* bound on the requests of one connection
    MaxConnections   \* max_connections

VARIABLE s

NoConn == [st |-> "none", ending |-> FALSE, signal |-> FALSE, left |-> MaxRequests, body |-> "none"]
InFlight(r) == {c \in Conns : r.conns[c].st \notin {"none", "gone"}}

-----------------------------------------------------------------------------
(* The loop.                                                               *)

\* The work that was registered is taken over first; isolated mode waits for all of it.
AtCapacity(r) ==
    \/ Cardinality(InFlight(r)) >= IF r.isolated THEN 1 ELSE MaxConnections
    \/ r.isolated /\ r.work # {}

\* Mutant: the loop goes on with the capacity it computed before.
Step_Stale(r) == [r EXCEPT !.arm = "accept"]

\* The step is over: the next one starts with a look at the capacity.
Step(r) == [r EXCEPT !.arm = "accept", !.atCapacity = AtCapacity(r)]

Accept(c) ==
    /\ s.phase = "serving" /\ s.arm = "accept" /\ ~s.atCapacity
    /\ s.conns[c].st = "none"
    /\ s' = Step([s EXCEPT !.conns[c].st = "idle"])

\* listener.accept() fails: the loop sleeps, and goes on.
AcceptFails ==
    /\ s.phase = "serving" /\ s.arm = "accept" /\ ~s.atCapacity
    /\ s' = Step(s)

\* Nothing is ready in an arm, and the next is polled; then the loop waits to be woken.
NextArm ==
    /\ s.phase = "serving"
    /\ s' = [s EXCEPT !.arm = CASE s.arm = "accept" -> "work" [] s.arm = "work" -> "conns"
                                [] s.arm = "conns" -> "accept"]

-----------------------------------------------------------------------------
(* Requests.                                                               *)

\* The request that a connection serves: its number counts down.
Current(r, c) == <<c, r.conns[c].left>>

\* A realm is left, for the one that was entered before: the realms have to be left in the
\* reverse of the order of entry.
LeaveRealm(r, q) ==
    IF ~r.isolated THEN r
    ELSE [r EXCEPT !.nested = @ /\ Last(r.realms) = q,
                   !.realms = Front(@)]

\* RequestLoop::drop: cancel_pending_futures, while its realm is still entered.
DropLoop(r, q) == LeaveRealm([r EXCEPT !.futures = @ \ {q}], q)

\* status_response: a body that is complete.
Status(r, c) == [r EXCEPT !.conns[c].st = "writing", !.conns[c].body = "complete"]

\* serve_request up to the first wait: the head is refused, or the request gets a loop and,
\* in isolated mode, a realm in which the script is evaluated.
StartRequest(r, c, refused) ==
    LET q == <<c, r.conns[c].left - 1>>
        r1 == [r EXCEPT !.conns[c].left = @ - 1, !.late = @ \/ r.conns[c].signal]
    IN IF refused THEN Status(r1, c)
       ELSE [r1 EXCEPT !.conns[c].st = IF r.isolated THEN "evaluating" ELSE "dispatching",
                       !.conns[c].body = "none",
                       !.futures = @ \cup {q},
                       !.realms = IF r.isolated THEN Append(@, q) ELSE @]

\* evaluate_into_request_global fails or takes too long.
EvaluateFails(c) ==
    /\ s.arm = "conns" /\ s.conns[c].st = "evaluating"
    /\ s' = Status(DropLoop(s, Current(s, c)), c)

Evaluated(c) ==
    /\ s.arm = "conns" /\ s.conns[c].st = "evaluating"
    /\ s' = [s EXCEPT !.conns[c].st = "dispatching"]

\* The response is known: its head goes to hyper, and what is left to do to the loop.
Dispatched(c, streamed) ==
    /\ s.arm = "conns" /\ s.conns[c].st = "dispatching"
    /\ s' = [s EXCEPT !.conns[c].st = "writing",
                      !.conns[c].body = IF streamed THEN "streaming" ELSE "complete",
                      !.work = @ \cup {[req |-> Current(s, c),
                                         phase |-> IF streamed THEN "send" ELSE "drain"]}]

-----------------------------------------------------------------------------
(* finish_request.                                                         *)

\* The response body is sent, or cut off: then the connection is not to be used again.
WorkSent(w, ok) ==
    /\ s.arm = "work" /\ w.phase = "send"
    /\ LET c == w.req[1] IN
       /\ ok => s.conns[c].st = "writing"
       /\ s' = [s EXCEPT !.work = (@ \ {w}) \cup {[w EXCEPT !.phase = "drain"]},
                         !.conns[c].body = IF ok THEN "complete" ELSE "failed",
                         !.conns[c].signal = @ \/ ~ok]

\* The rest of the request body goes over its budget, or fails: BodySink::fail.
WorkDrainFails(w) ==
    /\ s.arm = "work" /\ w.phase = "drain"
    /\ s' = [s EXCEPT !.conns[w.req[1]].signal = TRUE]

\* waitUntil work and the request body are done: the loop is released, and the step is over.
WorkDone(w) ==
    /\ s.arm = "work" /\ w.phase = "drain"
    /\ s' = Step(DropLoop([s EXCEPT !.work = @ \ {w}], w.req))

-----------------------------------------------------------------------------
(* A connection is polled.                                                 *)

\* The connection is over; hyper drops the body it holds.
Close(r, c) == Step([r EXCEPT !.conns[c].st = "gone"])

\* What hyper does with an idle connection, or one whose response is written.
Hyper(r, c, refused) ==
    LET conn == r.conns[c]
        done == conn.st = "writing" /\ conn.body = "complete"
        broken == conn.st = "writing" /\ conn.body = "failed"
        over == conn.ending \/ r.isolated \/ conn.left = 0
    IN CASE broken -> Close(r, c)
         [] done -> IF over THEN Close(r, c) ELSE StartRequest(r, c, refused)
         [] conn.st = "idle" -> IF conn.ending \/ conn.left = 0 THEN Close(r, c)
                                ELSE StartRequest(r, c, refused)
         [] OTHER -> r

\* drive_connection: a signal to close is looked at before hyper is polled.
DriveConnection(r, c, refused) ==
    LET conn == r.conns[c] IN
    Hyper(IF conn.signal /\ ~conn.ending
          THEN [r EXCEPT !.conns[c].signal = FALSE, !.conns[c].ending = TRUE] ELSE r, c, refused)

PollConnection(c) ==
    /\ s.phase = "serving" /\ s.arm = "conns" /\ s.conns[c].st \in {"idle", "writing"}
    /\ \E refused \in BOOLEAN : s' = DriveConnection(s, c, refused)

\* The client is gone, or silent for too long: hyper drops the request it serves.
ConnectionLost(c) ==
    /\ s.phase = "serving" /\ s.arm = "conns" /\ c \in InFlight(s)
    /\ s' = Close(IF s.conns[c].st \in {"evaluating", "dispatching"} THEN DropLoop(s, Current(s, c))
                  ELSE s, c)

-----------------------------------------------------------------------------
\* The script is evaluated before anything is accepted; it may fail, or have no listener.
Startup(ok) ==
    /\ s.phase = "startup"
    /\ s' = IF ok THEN Step([s EXCEPT !.phase = "serving"]) ELSE [s EXCEPT !.phase = "failed"]

\* Shutdown drops the connections and the work, and with them the loops of the requests.
Shutdown ==
    /\ s.phase = "serving" /\ s.arm = "accept"
    /\ s' = [s EXCEPT !.phase = "stopped", !.work = {}, !.realms = <<>>, !.futures = {},
                      !.conns = [c \in Conns |-> [s.conns[c] EXCEPT !.st = "gone"]]]

Init == \E isolated \in BOOLEAN :
    s = [isolated |-> isolated, phase |-> IF isolated THEN "serving" ELSE "startup",
         arm |-> "accept", atCapacity |-> FALSE,
         conns |-> [c \in Conns |-> NoConn], work |-> {},
         realms |-> <<>>, nested |-> TRUE, futures |-> {}, late |-> FALSE]

RequestsOf(c) ==
    \/ EvaluateFails(c) \/ Evaluated(c) \/ (\E b \in BOOLEAN : Dispatched(c, b))
    \/ PollConnection(c) \/ ConnectionLost(c)

Work ==
    \E w \in s.work :
        (\E ok \in BOOLEAN : WorkSent(w, ok)) \/ WorkDrainFails(w) \/ WorkDone(w)

Loop == (\E ok \in BOOLEAN : Startup(ok)) \/ (\E c \in Conns : Accept(c)) \/ AcceptFails \/ NextArm

Next == Loop \/ (\E c \in Conns : RequestsOf(c)) \/ Work \/ Shutdown

Spec == Init /\ [][Next]_s

-----------------------------------------------------------------------------
(* Properties.                                                             *)

\* Realms are left in the reverse of the order in which they were entered, and a request of
\* isolated mode overlaps no other; no more connections are open than the limit allows.
RealmsNest ==
    /\ s.nested /\ Len(s.realms) <= 1
    /\ ~s.isolated => s.realms = <<>>
    /\ Cardinality(InFlight(s)) <= IF s.isolated THEN 1 ELSE MaxConnections

\* A request is not started on a connection that its last request's work has given up.
NoRequestAfterClose == ~s.late

\* The loop of a request is released when nothing will drive it again, whichever way the
\* request ended.
LoopsReleased ==
    \A q \in s.futures :
        \/ q \in {w.req : w \in s.work}
        \/ q = Current(s, q[1]) /\ s.conns[q[1]].st \in {"evaluating", "dispatching"}

\* A loop that accepts nobody is really full: it does not wait for a slot that is free.
NoSlotForgotten == s.phase = "serving" /\ s.atCapacity => AtCapacity(s)

=============================================================================
