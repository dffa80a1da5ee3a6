-------------------------- MODULE NativeServerProofs --------------------------
(***************************************************************************)
(* Proof that the native server keeps its order, for any connections and   *)
(* any limits: realms nest, no request starts on a connection that was     *)
(* given up, the loop of a request is released when nothing drives it any  *)
(* more, and no slot is forgotten.  The inductive invariant relates the    *)
(* capacity that the loop remembers to the connections and the work, and   *)
(* says whose loop, realm and work there are in isolated mode.             *)
(***************************************************************************)
EXTENDS NativeServer, FiniteSetTheorems, SequenceTheorems, TLAPS

\* What the constants have to be.
ConstantsAssumption == IsFiniteSet(Conns) /\ MaxRequests \in Nat /\ MaxConnections \in Nat

ConnType ==
    [st : {"none", "idle", "evaluating", "dispatching", "writing", "gone"},
     ending : BOOLEAN, signal : BOOLEAN, left : Nat,
     body : {"none", "streaming", "complete", "failed"}]
RequestIds == Conns \X Int
WorkType == [req : RequestIds, phase : {"send", "drain"}]
State ==
    [isolated : BOOLEAN, phase : {"startup", "serving", "failed", "stopped"},
     arm : {"accept", "work", "conns"}, atCapacity : BOOLEAN,
     conns : [Conns -> ConnType], work : SUBSET WorkType,
     realms : Seq(RequestIds), nested : BOOLEAN, futures : SUBSET RequestIds, late : BOOLEAN]
TypeOK == s \in State

Limit == IF s.isolated THEN 1 ELSE MaxConnections

\* The loop remembers whether it is at capacity, and serves no more connections than its limit.
CapacityKnown ==
    /\ s.phase = "serving" => (s.atCapacity <=> AtCapacity(s))
    /\ Cardinality(InFlight(s)) <= Limit
    /\ s.phase # "serving" => InFlight(s) = {} /\ s.work = {} /\ s.futures = {}

\* A connection that runs a script has its request's loop.
Running(c) == s.conns[c].st \in {"evaluating", "dispatching"}

\* In isolated mode there is at most one request, with its realm, its loop and its work.
RealmsOfLoops ==
    \/ s.realms = <<>> /\ s.futures = {}
    \/ \E q \in RequestIds : s.realms = <<q>> /\ s.futures = {q}
WorkOfLoops ==
    /\ \A c \in Conns : s.conns[c].st = "idle" => s.work = {} /\ s.futures = {}
    /\ \A c \in Conns : Running(c) => s.work = {} /\ s.futures = {Current(s, c)}
    /\ \A w \in s.work : s.futures = {w.req} /\ s.work = {w}
OneRequest ==
    /\ s.isolated => RealmsOfLoops /\ WorkOfLoops
    /\ ~s.isolated => s.realms = <<>>

IInv ==
    /\ TypeOK /\ CapacityKnown /\ OneRequest /\ LoopsReleased
    /\ s.nested /\ ~s.late

-----------------------------------------------------------------------------
(* What the operations do to the state.                                    *)

\* A step about connection c leaves it as conn; the loop goes on with the work, the realms and
\* the loops of requests that are given.
Effect(c, conn, work, realms, futures) ==
    /\ s' \in State
    /\ s'.isolated = s.isolated /\ s'.phase = s.phase
    /\ s'.conns = [s.conns EXCEPT ![c] = conn]
    /\ s'.work = work /\ s'.realms = realms /\ s'.futures = futures
    /\ s'.nested /\ ~s'.late

\* The capacity is as it was computed before, or it is computed again.
Kept == s'.atCapacity = s.atCapacity
Looked == s'.atCapacity <=> AtCapacity(s')

Replaced(c, conn, work, realms, futures) ==
    [s EXCEPT !.conns = [s.conns EXCEPT ![c] = conn], !.work = work, !.realms = realms,
              !.futures = futures]

LEMMA Stepped ==
    ASSUME NEW r \in State
    PROVE  /\ Step(r) \in State
           /\ Step(r).isolated = r.isolated /\ Step(r).phase = r.phase
           /\ Step(r).conns = r.conns /\ Step(r).work = r.work
           /\ Step(r).realms = r.realms /\ Step(r).futures = r.futures
           /\ Step(r).nested = r.nested /\ Step(r).late = r.late
           /\ Step(r).atCapacity <=> AtCapacity(Step(r))
<1>1. AtCapacity(r) \in BOOLEAN
  BY DEF AtCapacity
<1>2. ASSUME NEW b \in BOOLEAN
      PROVE  LET t == [r EXCEPT !.arm = "accept", !.atCapacity = b]
             IN /\ t \in State
                /\ t.isolated = r.isolated /\ t.phase = r.phase
                /\ t.conns = r.conns /\ t.work = r.work
                /\ t.realms = r.realms /\ t.futures = r.futures
                /\ t.nested = r.nested /\ t.late = r.late /\ t.atCapacity = b
  BY DEF State
<1>3. PICK t : t = Step(r)
  OBVIOUS
<1>4. /\ t \in State
      /\ t.isolated = r.isolated /\ t.phase = r.phase
      /\ t.conns = r.conns /\ t.work = r.work
      /\ t.realms = r.realms /\ t.futures = r.futures
      /\ t.nested = r.nested /\ t.late = r.late /\ t.atCapacity = AtCapacity(r)
  BY <1>1, <1>2, <1>3 DEF Step
<1>5. AtCapacity(t) = AtCapacity(r)
  BY <1>4 DEF AtCapacity, InFlight
<1> QED BY <1>3, <1>4, <1>5

LEMMA Effects ==
    ASSUME IInv, NEW c \in Conns, NEW conn \in ConnType, NEW work \in SUBSET WorkType,
           NEW realms \in Seq(RequestIds), NEW futures \in SUBSET RequestIds
    PROVE  LET t == Replaced(c, conn, work, realms, futures)
           IN /\ t \in State
              /\ s' = t => Effect(c, conn, work, realms, futures) /\ Kept
              /\ s' = Step(t) => Effect(c, conn, work, realms, futures) /\ Looked
<1>1. PICK t : t = Replaced(c, conn, work, realms, futures)
  OBVIOUS
<1>2. s \in State /\ s.nested /\ ~s.late
  BY DEF IInv, TypeOK
<1>3. /\ t \in State
      /\ t.isolated = s.isolated /\ t.phase = s.phase
      /\ t.conns = [s.conns EXCEPT ![c] = conn]
      /\ t.work = work /\ t.realms = realms /\ t.futures = futures
      /\ t.nested /\ ~t.late /\ t.atCapacity = s.atCapacity
  BY <1>1, <1>2 DEF Replaced, State
<1>4. s' = t => Effect(c, conn, work, realms, futures) /\ Kept
  BY <1>3 DEF Effect, Kept
<1>5. s' = Step(t) => Effect(c, conn, work, realms, futures) /\ Looked
  BY <1>3, Stepped DEF Effect, Looked
<1> QED BY <1>1, <1>3, <1>4, <1>5

\* The loop of a request that ends is the last whose realm was entered.
LEMMA LoopDropped ==
    ASSUME NEW r \in State, NEW q \in RequestIds, r.nested,
           r.realms = IF r.isolated THEN <<q>> ELSE <<>>
    PROVE  DropLoop(r, q) = [r EXCEPT !.realms = <<>>, !.futures = r.futures \ {q}]
<1>1. Last(<<q>>) = q /\ Front(<<q>>) = <<>>
  BY DEF Last, Front
<1>2. PICK u : u = [r EXCEPT !.futures = r.futures \ {q}]
  OBVIOUS
<1>3. u \in State /\ u.nested = TRUE /\ u.isolated = r.isolated /\ u.realms = r.realms
  BY <1>2 DEF State
<1>4. LeaveRealm(u, q) = [u EXCEPT !.realms = <<>>]
  <2>1. CASE r.isolated
    BY <1>1, <1>3, <2>1 DEF LeaveRealm, State
  <2>2. CASE ~r.isolated
    BY <1>3, <2>2 DEF LeaveRealm, State
  <2> QED BY <2>1, <2>2
<1>5. DropLoop(r, q) = LeaveRealm(u, q)
  BY <1>2 DEF DropLoop
<1>6. [u EXCEPT !.realms = <<>>] = [r EXCEPT !.realms = <<>>, !.futures = r.futures \ {q}]
  BY <1>2 DEF State
<1> QED BY <1>4, <1>5, <1>6

LEMMA RunningLoops ==
    ASSUME IInv
    PROVE  /\ \A c \in Conns : Running(c) =>
                /\ s.phase = "serving" /\ Current(s, c) \in RequestIds
                /\ s.realms = IF s.isolated THEN <<Current(s, c)>> ELSE <<>>
           /\ \A w \in s.work :
                /\ s.phase = "serving" /\ w.req \in RequestIds /\ w.req[1] \in Conns
                /\ w.phase \in {"send", "drain"}
                /\ s.realms = IF s.isolated THEN <<w.req>> ELSE <<>>
<1> USE DEF IInv, TypeOK, State
<1>1. ASSUME NEW q, s.isolated, s.futures = {q}
      PROVE  s.realms = <<q>>
  BY <1>1 DEF OneRequest, RealmsOfLoops, WorkOfLoops
<1>2. ASSUME NEW c \in Conns, Running(c)
      PROVE  /\ s.phase = "serving" /\ Current(s, c) \in RequestIds
             /\ s.realms = IF s.isolated THEN <<Current(s, c)>> ELSE <<>>
  <2>1. c \in InFlight(s)
    BY <1>2 DEF Running, InFlight
  <2>2. Current(s, c) \in RequestIds
    BY DEF Current, ConnType, RequestIds
  <2> QED BY <1>1, <1>2, <2>1, <2>2 DEF CapacityKnown, OneRequest, RealmsOfLoops, WorkOfLoops
<1>3. ASSUME NEW w \in s.work
      PROVE  /\ s.phase = "serving" /\ w.req \in RequestIds /\ w.req[1] \in Conns
             /\ w.phase \in {"send", "drain"}
             /\ s.realms = IF s.isolated THEN <<w.req>> ELSE <<>>
  <2>1. w \in WorkType
    OBVIOUS
  <2>2. w.req \in RequestIds /\ w.req[1] \in Conns /\ w.phase \in {"send", "drain"}
    BY <2>1 DEF WorkType, RequestIds
  <2> QED BY <1>1, <1>3, <2>2 DEF CapacityKnown, OneRequest, RealmsOfLoops, WorkOfLoops
<1> QED BY <1>2, <1>3

\* The steps that are about a connection, told by what they do.
Accepts(c) ==
    /\ s.phase = "serving" /\ ~s.atCapacity /\ s.conns[c].st = "none"
    /\ Effect(c, [s.conns[c] EXCEPT !.st = "idle"], s.work, s.realms, s.futures) /\ Looked
Fails(c) ==
    /\ s.conns[c].st = "evaluating"
    /\ Effect(c, [s.conns[c] EXCEPT !.st = "writing", !.body = "complete"], s.work, <<>>,
              s.futures \ {Current(s, c)})
    /\ Kept
Runs(c) ==
    /\ s.conns[c].st = "evaluating"
    /\ Effect(c, [s.conns[c] EXCEPT !.st = "dispatching"], s.work, s.realms, s.futures) /\ Kept
Answers(c, body, phase) ==
    /\ s.conns[c].st = "dispatching"
    /\ Effect(c, [s.conns[c] EXCEPT !.st = "writing", !.body = body],
              s.work \cup {[req |-> Current(s, c), phase |-> phase]}, s.realms, s.futures)
    /\ Kept
Sends(w, c, body, signal) ==
    /\ w \in s.work /\ w.phase = "send" /\ c = w.req[1]
    /\ Effect(c, [s.conns[c] EXCEPT !.body = body, !.signal = signal],
              (s.work \ {w}) \cup {[w EXCEPT !.phase = "drain"]}, s.realms, s.futures)
    /\ Kept
Signals(c, signal, ending) ==
    /\ Effect(c, [s.conns[c] EXCEPT !.signal = signal, !.ending = ending], s.work, s.realms, s.futures)
    /\ Kept
Drained(w, c) ==
    /\ w \in s.work /\ c = w.req[1]
    /\ Effect(c, s.conns[c], s.work \ {w}, <<>>, s.futures \ {w.req}) /\ Looked
Refuses(c, conn) ==
    /\ s.conns[c].st \in {"idle", "writing"} /\ conn.st = "writing"
    /\ Effect(c, conn, s.work, s.realms, s.futures) /\ Kept
Starts(c, conn) ==
    /\ s.conns[c].st = "idle" \/ (s.conns[c].st = "writing" /\ ~s.isolated)
    /\ conn.st = IF s.isolated THEN "evaluating" ELSE "dispatching"
    /\ LET q == <<c, conn.left>>
       IN Effect(c, conn, s.work, IF s.isolated THEN Append(s.realms, q) ELSE s.realms,
                 s.futures \cup {q})
    /\ Kept
Closes(c, conn) ==
    /\ s.conns[c].st \in {"idle", "writing"} /\ conn.st = "gone"
    /\ Effect(c, conn, s.work, s.realms, s.futures) /\ Looked
Lost(c) ==
    /\ Running(c)
    /\ Effect(c, [s.conns[c] EXCEPT !.st = "gone"], s.work, <<>>, s.futures \ {Current(s, c)})
    /\ Looked

LEMMA PollingDoes ==
    ASSUME IInv, NEW c \in Conns, PollConnection(c)
    PROVE  \/ \E conn \in ConnType : Refuses(c, conn) \/ Starts(c, conn) \/ Closes(c, conn)
           \/ \E signal, ending \in BOOLEAN : Signals(c, signal, ending)
<1>1. s \in State /\ s.conns[c] \in ConnType /\ s.conns[c].st \in {"idle", "writing"}
      /\ s.nested = TRUE /\ s.late = FALSE
      /\ s.work \in SUBSET WorkType /\ s.realms \in Seq(RequestIds)
      /\ s.futures \in SUBSET RequestIds
  BY DEF IInv, TypeOK, State, PollConnection
<1>2. PICK refused \in BOOLEAN : s' = DriveConnection(s, c, refused)
  BY DEF PollConnection
<1> DEFINE turns == s.conns[c].signal /\ ~s.conns[c].ending
<1>3. PICK conn :
         /\ conn \in ConnType /\ conn.st = s.conns[c].st /\ conn.body = s.conns[c].body
         /\ conn = [s.conns[c] EXCEPT !.signal = conn.signal, !.ending = conn.ending]
         /\ conn.left = s.conns[c].left
         /\ conn.signal => conn.ending
         /\ conn.signal = (IF turns THEN FALSE ELSE s.conns[c].signal)
         /\ conn.ending = (IF turns THEN TRUE ELSE s.conns[c].ending)
  <2> DEFINE conn == [s.conns[c] EXCEPT !.signal = IF turns THEN FALSE ELSE s.conns[c].signal,
                                        !.ending = IF turns THEN TRUE ELSE s.conns[c].ending]
  <2>1. /\ conn \in ConnType /\ conn.st = s.conns[c].st /\ conn.body = s.conns[c].body
        /\ conn = [s.conns[c] EXCEPT !.signal = conn.signal, !.ending = conn.ending]
        /\ conn.left = s.conns[c].left
        /\ conn.signal => conn.ending
        /\ conn.signal = (IF turns THEN FALSE ELSE s.conns[c].signal)
        /\ conn.ending = (IF turns THEN TRUE ELSE s.conns[c].ending)
    BY <1>1 DEF ConnType
  <2> QED BY <2>1
<1>4. PICK r : r = [s EXCEPT !.conns = [s.conns EXCEPT ![c] = conn]]
  OBVIOUS
<1>5. s' = Hyper(r, c, refused)
  <2>1. r = IF turns THEN [s EXCEPT !.conns[c].signal = FALSE, !.conns[c].ending = TRUE] ELSE s
    <3>1. CASE turns
      BY <1>1, <1>3, <1>4, <3>1 DEF State, ConnType
    <3>2. CASE ~turns
      <4>1. conn = s.conns[c]
        BY <1>1, <1>3, <3>2 DEF ConnType
      <4> QED BY <1>1, <1>4, <3>2, <4>1 DEF State
    <3> QED BY <3>1, <3>2
  <2> QED BY <1>2, <2>1 DEF DriveConnection
<1> HIDE DEF turns
<1>6. r \in State /\ r.conns[c] = conn /\ r.isolated = s.isolated /\ r.nested = TRUE /\ r.late = FALSE
  BY <1>1, <1>3, <1>4 DEF State
<1>7. CASE s' = r
  <2>1. s' = Replaced(c, conn, s.work, s.realms, s.futures)
    BY <1>1, <1>4, <1>7 DEF Replaced, State
  <2>2. Effect(c, conn, s.work, s.realms, s.futures) /\ Kept
    BY <1>1, <1>3, <2>1, Effects
  <2>3. Signals(c, conn.signal, conn.ending)
    BY <1>3, <2>2 DEF Signals
  <2> QED BY <1>3, <2>3 DEF ConnType
<1>8. CASE s' = Close(r, c)
  <2>1. PICK gone : gone = [conn EXCEPT !.st = "gone"]
    OBVIOUS
  <2>2. gone \in ConnType /\ gone.st = "gone"
    BY <1>3, <2>1 DEF ConnType
  <2>3. [r EXCEPT !.conns[c].st = "gone"] = Replaced(c, gone, s.work, s.realms, s.futures)
    BY <1>1, <1>3, <1>4, <2>1 DEF Replaced, State
  <2>4. Effect(c, gone, s.work, s.realms, s.futures) /\ Looked
    BY <1>1, <1>8, <2>2, <2>3, Effects DEF Close
  <2>5. Closes(c, gone)
    BY <1>1, <2>2, <2>4 DEF Closes
  <2> QED BY <2>2, <2>5
<1>9. CASE s' = StartRequest(r, c, refused) /\ ~conn.ending /\ conn.left # 0
           /\ (conn.st = "idle" \/ (conn.st = "writing" /\ ~s.isolated))
  <2>1. ~conn.signal /\ conn.left - 1 \in Nat /\ Conns \X Int = RequestIds
    BY <1>3, <1>9 DEF ConnType, RequestIds
  <2>2. (r.late \/ r.conns[c].signal) = FALSE
    BY <1>3, <1>6, <2>1 DEF ConnType
  <2>3. PICK r1 : r1 = [r EXCEPT !.conns[c].left = conn.left - 1]
    OBVIOUS
  <2>4. r1 = [r EXCEPT !.conns[c].left = @ - 1, !.late = @ \/ r.conns[c].signal]
    BY <1>6, <2>2, <2>3 DEF State
  <2>5. CASE refused
    <3>1. PICK busy : busy = [conn EXCEPT !.left = conn.left - 1, !.st = "writing", !.body = "complete"]
      OBVIOUS
    <3>2. busy \in ConnType /\ busy.st = "writing"
      BY <1>3, <2>1, <3>1 DEF ConnType
    <3>3. s' = Status(r1, c)
      BY <1>9, <2>4, <2>5 DEF StartRequest
    <3>4. s' = Replaced(c, busy, s.work, s.realms, s.futures)
      <4>1. PICK conn1 : conn1 = [conn EXCEPT !.left = conn.left - 1]
        OBVIOUS
      <4>2. r1 = [s EXCEPT !.conns = [s.conns EXCEPT ![c] = conn1]]
        BY <1>1, <1>3, <1>4, <2>3, <4>1 DEF State
      <4>3. busy = [conn1 EXCEPT !.st = "writing", !.body = "complete"]
        BY <1>3, <3>1, <4>1 DEF ConnType
      <4>4. s' = [s EXCEPT !.conns = [s.conns EXCEPT ![c] = busy]]
        BY <1>1, <3>3, <4>2, <4>3 DEF State, Status
      <4> QED BY <1>1, <4>4 DEF Replaced, State
    <3>5. Effect(c, busy, s.work, s.realms, s.futures) /\ Kept
      BY <1>1, <3>2, <3>4, Effects
    <3>6. Refuses(c, busy)
      BY <1>1, <3>2, <3>5 DEF Refuses
    <3> QED BY <3>2, <3>6
  <2>6. CASE ~refused
    <3> DEFINE st == IF s.isolated THEN "evaluating" ELSE "dispatching"
    <3>1. PICK busy : busy = [conn EXCEPT !.left = conn.left - 1, !.st = st, !.body = "none"]
      OBVIOUS
    <3>2. busy \in ConnType /\ busy.st = st /\ busy.left = conn.left - 1
      BY <1>3, <2>1, <3>1 DEF ConnType
    <3>3. PICK q : q = <<c, busy.left>>
      OBVIOUS
    <3>4. q \in RequestIds
      BY <2>1, <3>2, <3>3 DEF RequestIds
    <3>5. PICK realms : realms = IF s.isolated THEN Append(s.realms, q) ELSE s.realms
      OBVIOUS
    <3>6. realms \in Seq(RequestIds)
      BY <1>1, <3>4, <3>5
    <3>7. s' = [r1 EXCEPT !.conns[c].st = st, !.conns[c].body = "none",
                         !.futures = @ \cup {q},
                         !.realms = IF r.isolated THEN Append(@, q) ELSE @]
      BY <1>6, <1>9, <2>4, <2>6, <3>2, <3>3 DEF StartRequest
    <3>8. s' = Replaced(c, busy, s.work, realms, s.futures \cup {q})
      <4>1. PICK conn1 : conn1 = [conn EXCEPT !.left = conn.left - 1]
        OBVIOUS
      <4>2. r1 = [s EXCEPT !.conns = [s.conns EXCEPT ![c] = conn1]]
        BY <1>1, <1>3, <1>4, <2>3, <4>1 DEF State
      <4>3. busy = [conn1 EXCEPT !.st = st, !.body = "none"]
        BY <1>3, <3>1, <4>1 DEF ConnType
      <4>4. PICK conns : conns = [s.conns EXCEPT ![c] = busy]
        OBVIOUS
      <4>5. r1.conns = [s.conns EXCEPT ![c] = conn1] /\ r1.futures = s.futures
            /\ r1.realms = s.realms
        BY <1>1, <4>2 DEF State
      <4>6. [[r1.conns EXCEPT ![c].st = st] EXCEPT ![c].body = "none"] = conns
        BY <1>1, <4>3, <4>4, <4>5 DEF State
      <4>7. s' = [r1 EXCEPT !.conns = conns, !.futures = s.futures \cup {q}, !.realms = realms]
        <5>1. r1 \in State
          BY <1>1, <4>2, <4>5, <1>3, <2>1, <4>1 DEF State, ConnType
        <5> HIDE DEF st
        <5> QED BY <1>6, <3>5, <3>7, <4>5, <4>6, <5>1 DEF State
      <4> QED BY <1>1, <4>2, <4>4, <4>7 DEF Replaced, State
    <3>9. Effect(c, busy, s.work, realms, s.futures \cup {q}) /\ Kept
      BY <1>1, <3>2, <3>4, <3>6, <3>8, Effects
    <3>10. Starts(c, busy)
      BY <1>3, <1>9, <3>2, <3>3, <3>5, <3>9 DEF Starts
    <3> QED BY <3>2, <3>10
  <2> QED BY <2>5, <2>6
<1>10. \/ s' = r \/ s' = Close(r, c)
       \/ /\ s' = StartRequest(r, c, refused) /\ ~conn.ending /\ conn.left # 0
          /\ (conn.st = "idle" \/ (conn.st = "writing" /\ ~s.isolated))
  <2> DEFINE done == conn.st = "writing" /\ conn.body = "complete"
             broken == conn.st = "writing" /\ conn.body = "failed"
             over == conn.ending \/ s.isolated \/ conn.left = 0
  <2>1. s' = CASE broken -> Close(r, c)
               [] done -> IF over THEN Close(r, c) ELSE StartRequest(r, c, refused)
               [] conn.st = "idle" -> IF conn.ending \/ conn.left = 0 THEN Close(r, c)
                                      ELSE StartRequest(r, c, refused)
               [] OTHER -> r
    BY <1>5, <1>6 DEF Hyper
  <2>2. CASE broken
    BY <2>1, <2>2
  <2>3. CASE done
    BY <2>1, <2>3
  <2>4. CASE conn.st = "idle"
    <3>1. ~broken /\ ~done
      BY <2>4
    <3>2. s' = IF conn.ending \/ conn.left = 0 THEN Close(r, c) ELSE StartRequest(r, c, refused)
      BY <2>1, <2>4, <3>1
    <3> QED BY <2>4, <3>2
  <2>5. CASE ~broken /\ ~done /\ conn.st # "idle"
    BY <2>1, <2>5
  <2> QED BY <2>2, <2>3, <2>4, <2>5
<1> QED BY <1>7, <1>8, <1>9, <1>10

\* Nothing changes but the arm, the capacity, and the phase.
Idles(phase) ==
    /\ s' \in State
    /\ s'.isolated = s.isolated /\ s'.phase = phase /\ s'.conns = s.conns /\ s'.work = s.work
    /\ s'.realms = s.realms /\ s'.futures = s.futures /\ s'.nested /\ ~s'.late
    /\ \/ s'.phase = s.phase /\ Kept
       \/ s'.phase # "serving" /\ s.phase # "serving"
       \/ Looked

\* The steps, told by what they do.
Steps ==
    \/ \E c \in Conns :
         \/ Accepts(c) \/ Fails(c) \/ Runs(c) \/ Lost(c)
         \/ Answers(c, "streaming", "send") \/ Answers(c, "complete", "drain")
         \/ \E conn \in ConnType : Refuses(c, conn) \/ Starts(c, conn) \/ Closes(c, conn)
         \/ \E signal, ending \in BOOLEAN : Signals(c, signal, ending)
    \/ \E w \in s.work, c \in Conns :
         \/ \E body \in {"complete", "failed"}, signal \in BOOLEAN : Sends(w, c, body, signal)
         \/ Drained(w, c)
    \/ Idles(s.phase)
    \/ \E phase \in {"serving", "failed"} : s.phase = "startup" /\ Idles(phase)
    \/ Shutdown

LEMMA NextSteps ==
    ASSUME IInv, Next
    PROVE  Steps
<1>1. /\ s \in State /\ s.nested = TRUE /\ s.late = FALSE
      /\ s.work \in SUBSET WorkType /\ s.realms \in Seq(RequestIds)
      /\ s.futures \in SUBSET RequestIds /\ s.conns \in [Conns -> ConnType]
      /\ <<>> \in Seq(RequestIds)
  BY DEF IInv, TypeOK, State
<1>2. ASSUME NEW c \in Conns, Accept(c)
      PROVE  Accepts(c)
  <2>1. PICK conn : conn = [s.conns[c] EXCEPT !.st = "idle"]
    OBVIOUS
  <2>2. conn \in ConnType
    BY <1>1, <2>1 DEF ConnType
  <2>3. [s EXCEPT !.conns[c].st = "idle"] = Replaced(c, conn, s.work, s.realms, s.futures)
    BY <1>1, <2>1 DEF Replaced, State
  <2>4. Effect(c, conn, s.work, s.realms, s.futures) /\ Looked
    BY <1>1, <1>2, <2>2, <2>3, Effects DEF Accept
  <2> QED BY <1>2, <2>1, <2>4 DEF Accept, Accepts
<1>3. ASSUME NEW c \in Conns, EvaluateFails(c)
      PROVE  Fails(c)
  <2>1. PICK conn : conn = [s.conns[c] EXCEPT !.st = "writing", !.body = "complete"]
    OBVIOUS
  <2>2. conn \in ConnType
    BY <1>1, <2>1 DEF ConnType
  <2>3. s.conns[c].st = "evaluating" /\ Running(c)
    BY <1>3 DEF EvaluateFails, Running
  <2>4. PICK q : q = Current(s, c)
    OBVIOUS
  <2>5. DropLoop(s, q) = [s EXCEPT !.realms = <<>>, !.futures = s.futures \ {q}]
    BY <1>1, <2>3, <2>4, RunningLoops, LoopDropped
  <2>6. s' = Status([s EXCEPT !.realms = <<>>, !.futures = s.futures \ {q}], c)
    BY <1>3, <2>4, <2>5 DEF EvaluateFails
  <2>7. s' = Replaced(c, conn, s.work, <<>>, s.futures \ {q})
    BY <1>1, <2>1, <2>6 DEF Status, Replaced, State
  <2>8. Effect(c, conn, s.work, <<>>, s.futures \ {q}) /\ Kept
    BY <1>1, <2>2, <2>7, Effects
  <2> QED BY <2>1, <2>3, <2>4, <2>8 DEF Fails
<1>4. ASSUME NEW c \in Conns, Evaluated(c)
      PROVE  Runs(c)
  <2>1. PICK conn : conn = [s.conns[c] EXCEPT !.st = "dispatching"]
    OBVIOUS
  <2>2. conn \in ConnType
    BY <1>1, <2>1 DEF ConnType
  <2>3. s' = Replaced(c, conn, s.work, s.realms, s.futures)
    BY <1>1, <1>4, <2>1 DEF Evaluated, Replaced, State
  <2>4. Effect(c, conn, s.work, s.realms, s.futures) /\ Kept
    BY <1>1, <2>2, <2>3, Effects
  <2> QED BY <1>4, <2>1, <2>4 DEF Evaluated, Runs
<1>5. ASSUME NEW c \in Conns, NEW streamed \in BOOLEAN, Dispatched(c, streamed)
      PROVE  Answers(c, "streaming", "send") \/ Answers(c, "complete", "drain")
  <2>1. PICK body \in {"streaming", "complete"}, phase \in {"send", "drain"} :
          /\ body = (IF streamed THEN "streaming" ELSE "complete")
          /\ phase = (IF streamed THEN "send" ELSE "drain")
    OBVIOUS
  <2>2. PICK conn : conn = [s.conns[c] EXCEPT !.st = "writing", !.body = body]
    OBVIOUS
  <2>3. conn \in ConnType
    BY <1>1, <2>2 DEF ConnType
  <2>4. s.conns[c].st = "dispatching" /\ Running(c)
    BY <1>5 DEF Dispatched, Running
  <2>5. PICK w : w = [req |-> Current(s, c), phase |-> phase]
    OBVIOUS
  <2>6. w \in WorkType
    BY <2>4, <2>5, RunningLoops DEF WorkType
  <2>7. s' = Replaced(c, conn, s.work \cup {w}, s.realms, s.futures)
    <3>1. s' = [s EXCEPT !.conns[c].st = "writing", !.conns[c].body = body,
                         !.work = @ \cup {w}]
      BY <1>5, <2>1, <2>5 DEF Dispatched
    <3>2. PICK conns : conns = [s.conns EXCEPT ![c] = conn]
      OBVIOUS
    <3>3. conns = [[s.conns EXCEPT ![c].st = "writing"] EXCEPT ![c].body = body]
      BY <1>1, <2>2, <3>2
    <3>4. s' = [s EXCEPT !.conns = conns, !.work = s.work \cup {w}]
      BY <1>1, <3>1, <3>3 DEF State
    <3> QED BY <1>1, <3>2, <3>4 DEF Replaced, State
  <2>8. Effect(c, conn, s.work \cup {w}, s.realms, s.futures) /\ Kept
    BY <1>1, <2>3, <2>6, <2>7, Effects
  <2>9. Answers(c, body, phase)
    BY <2>2, <2>4, <2>5, <2>8 DEF Answers
  <2> QED BY <2>1, <2>9
<1>6. ASSUME NEW c \in Conns, ConnectionLost(c)
      PROVE  Lost(c) \/ \E conn \in ConnType : Closes(c, conn)
  <2>1. PICK conn : conn = [s.conns[c] EXCEPT !.st = "gone"]
    OBVIOUS
  <2>2. conn \in ConnType /\ conn.st = "gone"
    BY <1>1, <2>1 DEF ConnType
  <2>3. CASE Running(c)
    <3>1. PICK q : q = Current(s, c)
      OBVIOUS
    <3>2. DropLoop(s, q) = [s EXCEPT !.realms = <<>>, !.futures = s.futures \ {q}]
      BY <1>1, <2>3, <3>1, RunningLoops, LoopDropped
    <3>3. s' = Step([[s EXCEPT !.realms = <<>>, !.futures = s.futures \ {q}]
                        EXCEPT !.conns[c].st = "gone"])
      BY <1>6, <2>3, <3>1, <3>2 DEF ConnectionLost, Close, Running
    <3>4. [[s EXCEPT !.realms = <<>>, !.futures = s.futures \ {q}] EXCEPT !.conns[c].st = "gone"]
            = Replaced(c, conn, s.work, <<>>, s.futures \ {q})
      BY <1>1, <2>1 DEF Replaced, State
    <3>5. Effect(c, conn, s.work, <<>>, s.futures \ {q}) /\ Looked
      <4>1. s.futures \ {q} \in SUBSET RequestIds
        BY <1>1
      <4>2. s' = Step(Replaced(c, conn, s.work, <<>>, s.futures \ {q}))
        BY <3>3, <3>4
      <4> QED BY <1>1, <2>2, <4>1, <4>2, Effects
    <3> QED BY <2>1, <2>3, <3>1, <3>5 DEF Lost
  <2>4. CASE ~Running(c)
    <3>1. s.conns[c].st \in {"idle", "writing"}
      BY <1>1, <1>6, <2>4 DEF ConnectionLost, InFlight, Running, ConnType
    <3>2. s' = Step([s EXCEPT !.conns[c].st = "gone"])
      BY <1>6, <2>4 DEF ConnectionLost, Close, Running
    <3>3. [s EXCEPT !.conns[c].st = "gone"] = Replaced(c, conn, s.work, s.realms, s.futures)
      BY <1>1, <2>1 DEF Replaced, State
    <3>4. Effect(c, conn, s.work, s.realms, s.futures) /\ Looked
      BY <1>1, <2>2, <3>2, <3>3, Effects
    <3>5. Closes(c, conn)
      BY <2>2, <3>1, <3>4 DEF Closes
    <3> QED BY <2>2, <3>5
  <2> QED BY <2>3, <2>4
<1>7. ASSUME NEW w \in s.work, NEW ok \in BOOLEAN, WorkSent(w, ok)
      PROVE  \E c \in Conns, body \in {"complete", "failed"}, signal \in BOOLEAN :
               Sends(w, c, body, signal)
  <2>1. PICK c \in Conns : c = w.req[1]
    BY RunningLoops
  <2>2. PICK body \in {"complete", "failed"}, signal \in BOOLEAN :
          body = (IF ok THEN "complete" ELSE "failed") /\ signal = (s.conns[c].signal \/ ~ok)
    OBVIOUS
  <2>3. PICK conn : conn = [s.conns[c] EXCEPT !.body = body, !.signal = signal]
    OBVIOUS
  <2>4. conn \in ConnType
    <3>1. body \in {"complete", "failed"} /\ signal \in BOOLEAN /\ s.conns[c] \in ConnType
      BY <1>1, <2>2
    <3> QED BY <2>3, <3>1 DEF ConnType
  <2>5. PICK work : work = (s.work \ {w}) \cup {[w EXCEPT !.phase = "drain"]}
    OBVIOUS
  <2>6. work \in SUBSET WorkType
    BY <1>1, <2>5 DEF WorkType
  <2>7. s' = Replaced(c, conn, work, s.realms, s.futures)
    <3>1. s' = [s EXCEPT !.work = (s.work \ {w}) \cup {[w EXCEPT !.phase = "drain"]},
                         !.conns[c].body = IF ok THEN "complete" ELSE "failed",
                         !.conns[c].signal = @ \/ ~ok]
      BY <1>7, <2>1 DEF WorkSent
    <3>2. s' = [s EXCEPT !.work = work, !.conns[c].body = body, !.conns[c].signal = signal]
      BY <1>1, <2>2, <2>5, <3>1 DEF State, ConnType
    <3>3. PICK conns : conns = [s.conns EXCEPT ![c] = conn]
      OBVIOUS
    <3>4. conns = [[s.conns EXCEPT ![c].body = body] EXCEPT ![c].signal = signal]
      BY <1>1, <2>3, <3>3
    <3>5. s' = [s EXCEPT !.work = work, !.conns = conns]
      BY <1>1, <3>2, <3>4 DEF State
    <3> QED BY <1>1, <3>3, <3>5 DEF Replaced, State
  <2>8. Effect(c, conn, work, s.realms, s.futures) /\ Kept
    BY <1>1, <2>4, <2>6, <2>7, Effects
  <2>9. Sends(w, c, body, signal)
    BY <1>7, <2>1, <2>3, <2>5, <2>8 DEF Sends, WorkSent
  <2> QED BY <2>9
<1>8. ASSUME NEW w \in s.work, WorkDrainFails(w)
      PROVE  \E c \in Conns, signal, ending \in BOOLEAN : Signals(c, signal, ending)
  <2>1. PICK c \in Conns : c = w.req[1]
    BY RunningLoops
  <2>2. PICK ending \in BOOLEAN : ending = s.conns[c].ending
    BY <1>1 DEF ConnType
  <2>3. PICK conn : conn = [s.conns[c] EXCEPT !.signal = TRUE, !.ending = ending]
    OBVIOUS
  <2>4. conn \in ConnType /\ conn = [s.conns[c] EXCEPT !.signal = TRUE]
    BY <1>1, <2>2, <2>3 DEF ConnType
  <2>5. s' = Replaced(c, conn, s.work, s.realms, s.futures)
    BY <1>1, <1>8, <2>1, <2>4 DEF WorkDrainFails, Replaced, State
  <2>6. Effect(c, conn, s.work, s.realms, s.futures) /\ Kept
    BY <1>1, <2>4, <2>5, Effects
  <2> QED BY <2>3, <2>6 DEF Signals
<1>9. ASSUME NEW w \in s.work, WorkDone(w)
      PROVE  \E c \in Conns : Drained(w, c)
  <2>1. PICK c \in Conns : c = w.req[1]
    BY RunningLoops
  <2>2. PICK r : r = [s EXCEPT !.work = s.work \ {w}]
    OBVIOUS
  <2>3. r \in State /\ r.nested = TRUE /\ r.isolated = s.isolated /\ r.realms = s.realms
        /\ r.futures = s.futures
    BY <1>1, <2>2 DEF State
  <2>4. DropLoop(r, w.req) = [r EXCEPT !.realms = <<>>, !.futures = r.futures \ {w.req}]
    <3>1. w.req \in RequestIds /\ s.realms = IF s.isolated THEN <<w.req>> ELSE <<>>
      BY RunningLoops
    <3>2. r.realms = IF r.isolated THEN <<w.req>> ELSE <<>>
      BY <2>3, <3>1
    <3> QED BY <2>3, <3>1, <3>2, LoopDropped
  <2>5. DropLoop(r, w.req) = Replaced(c, s.conns[c], s.work \ {w}, <<>>, s.futures \ {w.req})
    <3>1. [s.conns EXCEPT ![c] = s.conns[c]] = s.conns
      BY <1>1
    <3>2. DropLoop(r, w.req) = [s EXCEPT !.work = s.work \ {w}, !.realms = <<>>,
                                         !.futures = s.futures \ {w.req}]
      BY <1>1, <2>2, <2>3, <2>4 DEF State
    <3> QED BY ZenonT(40), <1>1, <3>1, <3>2 DEF Replaced, State
  <2>6. s' = Step(DropLoop(r, w.req))
    BY <1>9, <2>2 DEF WorkDone
  <2>7. Effect(c, s.conns[c], s.work \ {w}, <<>>, s.futures \ {w.req}) /\ Looked
    BY <1>1, <2>5, <2>6, Effects
  <2> QED BY <2>1, <2>7 DEF Drained
<1>10. ASSUME s' = Step(s)
       PROVE  Idles(s.phase)
  BY <1>1, <1>10, Stepped DEF Idles, Looked
<1>11. NextArm => Idles(s.phase)
  BY <1>1 DEF NextArm, Idles, State, Kept
<1>12. ASSUME NEW ok \in BOOLEAN, Startup(ok)
       PROVE  \E phase \in {"serving", "failed"} : s.phase = "startup" /\ Idles(phase)
  <2>1. CASE ok
    <3>1. PICK r : r = [s EXCEPT !.phase = "serving"]
      OBVIOUS
    <3>2. /\ r \in State /\ r.isolated = s.isolated /\ r.phase = "serving" /\ r.conns = s.conns
          /\ r.work = s.work /\ r.realms = s.realms /\ r.futures = s.futures
          /\ r.nested = TRUE /\ r.late = FALSE
      BY <1>1, <3>1 DEF State
    <3>3. s' = Step(r)
      BY <1>12, <2>1, <3>1 DEF Startup
    <3>4. Idles("serving")
      BY <3>2, <3>3, Stepped DEF Idles, Looked
    <3> QED BY <1>12, <3>4 DEF Startup
  <2>2. CASE ~ok
    <3>1. s.phase = "startup" /\ s' = [s EXCEPT !.phase = "failed"]
      BY <1>12, <2>2 DEF Startup
    <3>2. Idles("failed")
      BY <1>1, <3>1 DEF Idles, State
    <3> QED BY <3>1, <3>2
  <2> QED BY <2>1, <2>2
<1>13. AcceptFails => Idles(s.phase)
  BY <1>10 DEF AcceptFails
<1>14. CASE Loop
  BY <1>2, <1>11, <1>12, <1>13, <1>14 DEF Loop, Steps
<1>15. CASE \E c \in Conns : RequestsOf(c)
  BY <1>3, <1>4, <1>5, <1>6, <1>15, PollingDoes DEF RequestsOf, Steps
<1>16. CASE Work
  BY <1>7, <1>8, <1>9, <1>16 DEF Work, Steps
<1> QED BY <1>14, <1>15, <1>16 DEF Next, Steps

-----------------------------------------------------------------------------
(* Connections in flight.                                                  *)

InOrOut(c, conn) == IF conn.st \in {"none", "gone"} THEN InFlight(s) \ {c} ELSE InFlight(s) \cup {c}

LEMMA FlightFinite ==
    ASSUME ConstantsAssumption
    PROVE  /\ IsFiniteSet(InFlight(s)) /\ Cardinality(InFlight(s)) \in Nat
           /\ \A c \in Conns :
                /\ IsFiniteSet(InFlight(s) \ {c}) /\ IsFiniteSet(InFlight(s) \cup {c})
                /\ Cardinality(InFlight(s) \ {c}) <= Cardinality(InFlight(s))
                /\ Cardinality(InFlight(s) \cup {c}) <= Cardinality(InFlight(s)) + 1
<1>1. InFlight(s) \subseteq Conns
  BY DEF InFlight
<1>2. IsFiniteSet(InFlight(s))
  BY <1>1, FS_Subset DEF ConstantsAssumption
<1> QED BY <1>2, FS_CardinalityType, FS_AddElement, FS_RemoveElement

LEMMA FlightMoves ==
    ASSUME IInv, NEW c \in Conns, NEW conn, NEW work, NEW realms, NEW futures,
           Effect(c, conn, work, realms, futures)
    PROVE  /\ InFlight(s') = InOrOut(c, conn)
           /\ c \in InFlight(s) /\ conn.st \notin {"none", "gone"} => InFlight(s') = InFlight(s)
<1>1. s.conns \in [Conns -> ConnType]
  BY DEF IInv, TypeOK, State
<1> QED BY <1>1 DEF Effect, InFlight, InOrOut

\* In isolated mode a connection in flight is the only one.
LEMMA Alone ==
    ASSUME ConstantsAssumption, IInv, s.isolated, NEW c \in InFlight(s)
    PROVE  InFlight(s) = {c}
<1>1. Cardinality(InFlight(s)) <= 1 /\ IsFiniteSet(InFlight(s)) /\ Cardinality(InFlight(s)) \in Nat
  BY FlightFinite DEF IInv, CapacityKnown, Limit
<1>2. Cardinality(InFlight(s) \ {c}) = 0 /\ IsFiniteSet(InFlight(s) \ {c})
  <2>1. Cardinality(InFlight(s) \ {c}) = Cardinality(InFlight(s)) - 1 /\ IsFiniteSet(InFlight(s) \ {c})
    BY <1>1, FS_RemoveElement
  <2>2. Cardinality(InFlight(s) \ {c}) \in Nat
    BY <2>1, FS_CardinalityType
  <2> QED BY <1>1, <2>1, <2>2
<1>3. InFlight(s) \ {c} = {}
  BY <1>2, FS_EmptySet
<1> QED BY <1>3

\* A loop that takes a connection has room for it, and in isolated mode nothing to do.
LEMMA RoomForOne ==
    ASSUME ConstantsAssumption, IInv, s.phase = "serving", ~s.atCapacity
    PROVE  /\ Cardinality(InFlight(s)) + 1 <= Limit
           /\ s.isolated => InFlight(s) = {} /\ s.work = {} /\ s.futures = {}
<1>1. ~AtCapacity(s) /\ Limit \in Nat /\ Cardinality(InFlight(s)) \in Nat /\ IsFiniteSet(InFlight(s))
  BY FlightFinite DEF IInv, CapacityKnown, Limit, ConstantsAssumption
<1>2. Cardinality(InFlight(s)) < Limit
  BY <1>1 DEF AtCapacity, Limit
<1>3. ASSUME s.isolated
      PROVE  InFlight(s) = {} /\ s.work = {} /\ s.futures = {}
  <2>1. s.work = {}
    BY <1>1, <1>3 DEF AtCapacity
  <2>2. Cardinality(InFlight(s)) = 0
    BY <1>1, <1>2, <1>3 DEF Limit
  <2>3. InFlight(s) = {}
    BY <1>1, <2>2, FS_EmptySet
  <2>4. ASSUME NEW q \in s.futures
        PROVE  FALSE
    <3>1. q \in RequestIds
      BY DEF IInv, TypeOK, State
    <3>2. q[1] \in Conns
      BY <3>1 DEF RequestIds
    <3>3. s.conns[q[1]].st \in {"evaluating", "dispatching"}
      BY <2>1, <2>4 DEF IInv, LoopsReleased
    <3> QED BY <2>3, <3>2, <3>3 DEF InFlight
  <2> QED BY <2>1, <2>3, <2>4
<1> QED BY <1>1, <1>2, <1>3

-----------------------------------------------------------------------------
(* The invariant is inductive.                                             *)

\* The capacity is computed again, or nothing that it depends on changes.
SameCapacity ==
    /\ InFlight(s') = InFlight(s)
    /\ s.isolated => InFlight(s) # {} \/ (s'.work = {} <=> s.work = {})
CapacityStays ==
    /\ s'.isolated = s.isolated /\ s'.phase = s.phase /\ s'.phase = "serving"
    /\ Cardinality(InFlight(s')) <= Limit
    /\ Looked \/ (Kept /\ SameCapacity)

LEMMA CapacityStaysKnown ==
    ASSUME ConstantsAssumption, IInv, CapacityStays
    PROVE  CapacityKnown'
<1>1. /\ Cardinality(InFlight(s')) <= Limit' /\ s'.phase = "serving"
  BY DEF CapacityStays, Limit
<1>2. s'.atCapacity <=> AtCapacity(s')
  <2>1. CASE Looked
    BY <2>1 DEF Looked
  <2>2. CASE Kept /\ SameCapacity
    <3>1. s'.atCapacity <=> AtCapacity(s)
      BY <2>2 DEF CapacityStays, Kept, IInv, CapacityKnown
    <3>2. CASE ~s.isolated \/ (s'.work = {} <=> s.work = {})
      BY <2>2, <3>1, <3>2 DEF CapacityStays, SameCapacity, AtCapacity
    <3>3. CASE s.isolated /\ InFlight(s) # {}
      <4>1. Cardinality(InFlight(s)) >= 1
        BY <3>3, FlightFinite, FS_EmptySet
      <4> QED BY <2>2, <3>1, <3>3, <4>1 DEF CapacityStays, SameCapacity, AtCapacity
    <3> QED BY <2>2, <3>2, <3>3 DEF SameCapacity
  <2> QED BY <2>1, <2>2 DEF CapacityStays
<1> QED BY <1>1, <1>2 DEF CapacityKnown

\* Whoever has work or a request is served while the loop is.
LEMMA ServingOnly ==
    ASSUME IInv
    PROVE  /\ \A c \in InFlight(s) : s.phase = "serving"
           /\ \A w \in s.work : s.phase = "serving"
           /\ s.phase = "startup" =>
                InFlight(s) = {} /\ s.work = {} /\ s.futures = {}
BY DEF IInv, CapacityKnown

LEMMA CapacityStep ==
    ASSUME ConstantsAssumption, IInv, Steps
    PROVE  CapacityKnown'
<1> USE FlightFinite
<1>1. Cardinality(InFlight(s)) <= Limit /\ Limit \in Nat
  BY DEF IInv, CapacityKnown, Limit, ConstantsAssumption
<1>2. ASSUME NEW c \in InFlight(s), NEW conn, conn.st \notin {"none", "gone"},
             NEW work, NEW realms, NEW futures, Effect(c, conn, work, realms, futures),
             s.isolated => InFlight(s) # {} \/ (work = {} <=> s.work = {}), Kept
      PROVE  CapacityKnown'
  <2>1. c \in Conns /\ s.phase = "serving"
    BY ServingOnly DEF InFlight
  <2>2. InFlight(s') = InFlight(s)
    BY <1>2, <2>1, FlightMoves
  <2> QED BY <1>1, <1>2, <2>1, <2>2, CapacityStaysKnown DEF Effect, CapacityStays, SameCapacity
<1>3. ASSUME NEW c \in InFlight(s), NEW conn, conn.st = "gone",
             NEW work, NEW realms, NEW futures, Effect(c, conn, work, realms, futures), Looked
      PROVE  CapacityKnown'
  <2>1. c \in Conns /\ s.phase = "serving"
    BY ServingOnly DEF InFlight
  <2>2. InFlight(s') = InFlight(s) \ {c}
    BY <1>3, <2>1, FlightMoves DEF InOrOut
  <2>3. Cardinality(InFlight(s')) <= Limit
    <3>1. PICK n : n = Cardinality(InFlight(s)) /\ n \in Nat
      OBVIOUS
    <3>2. PICK m : m = Cardinality(InFlight(s) \ {c})
      OBVIOUS
    <3>3. m \in Nat /\ m <= n
      BY <2>1, <3>1, <3>2, FS_CardinalityType
    <3> QED BY <1>1, <2>2, <3>1, <3>2, <3>3
  <2> QED BY <1>3, <2>1, <2>3, CapacityStaysKnown DEF Effect, CapacityStays
<1>4. ASSUME NEW c \in Conns, s.conns[c].st \in {"idle", "evaluating", "dispatching", "writing"}
      PROVE  c \in InFlight(s)
  BY <1>4 DEF InFlight
<1>5. ASSUME NEW c \in Conns, Accepts(c)
      PROVE  CapacityKnown'
  <2>1. PICK conn : conn = [s.conns[c] EXCEPT !.st = "idle"]
    OBVIOUS
  <2>2. conn.st = "idle"
    BY <2>1 DEF IInv, TypeOK, State, ConnType
  <2>3. Effect(c, conn, s.work, s.realms, s.futures) /\ Looked /\ s.phase = "serving" /\ ~s.atCapacity
    BY <1>5, <2>1 DEF Accepts
  <2>4. InFlight(s') = InFlight(s) \cup {c}
    BY <2>2, <2>3, FlightMoves DEF InOrOut
  <2>5. Cardinality(InFlight(s')) <= Limit
    <3>1. PICK n : n = Cardinality(InFlight(s)) /\ n \in Nat
      OBVIOUS
    <3>2. PICK m : m = Cardinality(InFlight(s) \cup {c})
      OBVIOUS
    <3>3. m \in Nat /\ m <= n + 1 /\ n + 1 <= Limit
      BY <2>3, <3>1, <3>2, RoomForOne, FS_CardinalityType
    <3> QED BY <1>1, <2>4, <3>1, <3>2, <3>3
  <2> QED BY <2>3, <2>5, CapacityStaysKnown DEF Effect, CapacityStays
<1>6. ASSUME NEW c \in Conns, Fails(c) \/ Runs(c)
      PROVE  CapacityKnown'
  <2>1. s.conns[c].st = "evaluating" /\ s.conns[c] \in ConnType
    BY <1>6 DEF Fails, Runs, IInv, TypeOK, State
  <2>2. c \in InFlight(s)
    BY <1>4, <2>1
  <2>3. CASE Fails(c)
    <3>1. PICK conn : conn = [s.conns[c] EXCEPT !.st = "writing", !.body = "complete"]
      OBVIOUS
    <3>2. conn.st = "writing"
      BY <2>1, <3>1 DEF ConnType
    <3> QED BY <1>2, <2>2, <2>3, <3>1, <3>2 DEF Fails
  <2>4. CASE Runs(c)
    <3>1. PICK conn : conn = [s.conns[c] EXCEPT !.st = "dispatching"]
      OBVIOUS
    <3>2. conn.st = "dispatching"
      BY <2>1, <3>1 DEF ConnType
    <3> QED BY <1>2, <2>2, <2>4, <3>1, <3>2 DEF Runs
  <2> QED BY <1>6, <2>3, <2>4
<1>7. ASSUME NEW c \in Conns, NEW body, NEW phase, Answers(c, body, phase)
      PROVE  CapacityKnown'
  <2>1. s.conns[c].st = "dispatching" /\ s.conns[c] \in ConnType
    BY <1>7 DEF Answers, IInv, TypeOK, State
  <2>2. c \in InFlight(s)
    BY <1>4, <2>1
  <2>3. PICK conn : conn = [s.conns[c] EXCEPT !.st = "writing", !.body = body]
    OBVIOUS
  <2>4. conn.st = "writing"
    BY <2>1, <2>3 DEF ConnType
  <2> QED BY <1>2, <1>7, <2>2, <2>3, <2>4 DEF Answers
<1>8. ASSUME NEW c \in Conns, NEW conn, Refuses(c, conn) \/ Starts(c, conn)
      PROVE  CapacityKnown'
  <2>1. c \in InFlight(s) /\ conn.st \notin {"none", "gone"}
    BY <1>4, <1>8 DEF Refuses, Starts
  <2> QED BY <1>2, <1>8, <2>1 DEF Refuses, Starts
<1>9. ASSUME NEW c \in Conns, NEW conn, Closes(c, conn)
      PROVE  CapacityKnown'
  BY <1>3, <1>4, <1>9 DEF Closes
<1>10. ASSUME NEW c \in Conns, Lost(c)
       PROVE  CapacityKnown'
  <2>1. c \in InFlight(s) /\ s.conns[c] \in ConnType
    BY <1>4, <1>10 DEF Lost, Running, IInv, TypeOK, State
  <2>2. PICK conn : conn = [s.conns[c] EXCEPT !.st = "gone"]
    OBVIOUS
  <2>3. conn.st = "gone"
    BY <2>1, <2>2 DEF ConnType
  <2> QED BY <1>3, <1>10, <2>1, <2>2, <2>3 DEF Lost
<1>11. ASSUME NEW c \in Conns, NEW conn, NEW work, NEW realms, NEW futures,
              Effect(c, conn, work, realms, futures), conn.st = s.conns[c].st,
              s.phase = "serving", Looked \/ (Kept /\ (work = {} <=> s.work = {}))
       PROVE  CapacityKnown'
  <2>1. InFlight(s') = InFlight(s)
    BY <1>11, FlightMoves DEF InFlight, InOrOut
  <2> QED BY <1>1, <1>11, <2>1, CapacityStaysKnown DEF Effect, CapacityStays, SameCapacity
<1>12. ASSUME NEW w \in s.work, NEW c \in Conns, NEW body, NEW signal, Sends(w, c, body, signal)
       PROVE  CapacityKnown'
  <2>1. PICK conn : conn = [s.conns[c] EXCEPT !.body = body, !.signal = signal]
    OBVIOUS
  <2>2. conn.st = s.conns[c].st
    BY <2>1 DEF IInv, TypeOK, State, ConnType
  <2>3. PICK work : work = (s.work \ {w}) \cup {[w EXCEPT !.phase = "drain"]}
    OBVIOUS
  <2>4. Effect(c, conn, work, s.realms, s.futures) /\ Kept /\ s.phase = "serving"
    BY <1>12, <2>1, <2>3, ServingOnly DEF Sends
  <2>5. work # {} /\ s.work # {}
    BY <2>3
  <2> QED BY <1>11, <2>2, <2>4, <2>5
<1>13. ASSUME NEW w \in s.work, NEW c \in Conns, Drained(w, c)
       PROVE  CapacityKnown'
  BY <1>11, <1>13, ServingOnly DEF Drained
<1>14. ASSUME NEW c \in Conns, NEW signal, NEW ending, Signals(c, signal, ending)
       PROVE  CapacityKnown'
  <2>1. PICK conn : conn = [s.conns[c] EXCEPT !.signal = signal, !.ending = ending]
    OBVIOUS
  <2>2. conn.st = s.conns[c].st
    BY <2>1 DEF IInv, TypeOK, State, ConnType
  <2>3. Effect(c, conn, s.work, s.realms, s.futures) /\ Kept
    BY <1>14, <2>1 DEF Signals
  <2>4. CASE s.phase = "serving"
    BY <1>11, <2>2, <2>3, <2>4
  <2>5. CASE s.phase # "serving"
    <3>1. InFlight(s') = InFlight(s)
      BY <2>2, <2>3, FlightMoves DEF InFlight, InOrOut
    <3> QED BY <2>3, <2>5, <3>1 DEF Effect, IInv, CapacityKnown, Limit
  <2> QED BY <2>4, <2>5
<1>15. ASSUME NEW phase, Idles(phase), s.phase = phase \/ s.phase = "startup"
       PROVE  CapacityKnown'
  <2>1. InFlight(s') = InFlight(s) /\ s'.isolated = s.isolated /\ s'.work = s.work
        /\ s'.futures = s.futures /\ s'.phase = phase
    BY <1>15 DEF Idles, InFlight
  <2>2. AtCapacity(s') = AtCapacity(s)
    BY <2>1 DEF AtCapacity
  <2> QED BY <1>1, <1>15, <2>1, <2>2 DEF Idles, CapacityKnown, IInv, Limit, Looked, Kept
<1>16. ASSUME Shutdown
       PROVE  CapacityKnown'
  <2>1. s \in State
    BY DEF IInv, TypeOK
  <2>2. /\ s'.phase = "stopped" /\ s'.work = {} /\ s'.futures = {}
        /\ s'.conns = [c \in Conns |-> [s.conns[c] EXCEPT !.st = "gone"]]
        /\ s'.isolated = s.isolated
    BY <1>16, <2>1 DEF Shutdown, State
  <2>3. InFlight(s') = {}
    BY <2>1, <2>2 DEF InFlight, State, ConnType
  <2>4. Cardinality({}) = 0
    BY FS_EmptySet
  <2> QED BY <1>1, <2>2, <2>3, <2>4 DEF CapacityKnown, Limit
<1> QED BY <1>5, <1>6, <1>7, <1>8, <1>9, <1>10, <1>12, <1>13, <1>14, <1>15, <1>16 DEF Steps

\* In isolated mode what is in flight after a step is the connection that the step is about.
LEMMA OnlyOne ==
    ASSUME ConstantsAssumption, IInv, s.isolated,
           NEW c \in Conns, NEW conn, NEW work, NEW realms, NEW futures,
           Effect(c, conn, work, realms, futures),
           c \in InFlight(s) \/ InFlight(s) = {}
    PROVE  /\ s'.conns[c] = conn
           /\ \A d \in Conns : d # c => s'.conns[d].st \in {"none", "gone"}
<1>1. s.conns \in [Conns -> ConnType]
  BY DEF IInv, TypeOK, State
<1>2. InFlight(s) \subseteq {c}
  BY Alone
<1>3. \A d \in Conns : d # c => s'.conns[d] = s.conns[d] /\ d \notin InFlight(s)
  BY <1>1, <1>2 DEF Effect
<1> QED BY <1>1, <1>3 DEF InFlight, Effect

LEMMA OneRequestStep ==
    ASSUME ConstantsAssumption, IInv, Steps
    PROVE  OneRequest'
<1>1. /\ s \in State /\ s.conns \in [Conns -> ConnType]
      /\ OneRequest /\ s.work \in SUBSET WorkType
  BY DEF IInv, TypeOK, State
<1>2. ASSUME NEW c \in Conns, s.conns[c].st \in {"idle", "evaluating", "dispatching", "writing"}
      PROVE  c \in InFlight(s)
  BY <1>2 DEF InFlight
\* Without isolation there are no realms.
<1>3. ASSUME ~s.isolated, s'.isolated = s.isolated, s'.realms = <<>> \/ s'.realms = s.realms
      PROVE  OneRequest'
  BY <1>1, <1>3 DEF OneRequest, RealmsOfLoops, WorkOfLoops
\* Nothing changes that is told apart here.
<1>4. ASSUME NEW c \in Conns, NEW conn, s.conns[c].st # "idle", ~Running(c),
             conn.st \in {"writing", "gone"},
             Effect(c, conn, s.work, s.realms, s.futures)
      PROVE  OneRequest'
  <2>1. RealmsOfLoops => RealmsOfLoops'
    BY <1>4 DEF Effect, RealmsOfLoops
  <2>2. WorkOfLoops => WorkOfLoops'
    BY <1>1, <1>4 DEF Effect, WorkOfLoops, Running, Current
  <2> QED BY <1>1, <1>4, <2>1, <2>2 DEF Effect, OneRequest
<1>5. ASSUME NEW c \in Conns, NEW conn, s.conns[c].st = "idle", conn.st \in {"writing", "gone"},
             Effect(c, conn, s.work, s.realms, s.futures)
      PROVE  OneRequest'
  <2>1. RealmsOfLoops => RealmsOfLoops'
    BY <1>5 DEF Effect, RealmsOfLoops
  <2>2. WorkOfLoops => WorkOfLoops'
    BY <1>1, <1>5 DEF Effect, WorkOfLoops, Running, Current
  <2> QED BY <1>1, <1>5, <2>1, <2>2 DEF Effect, OneRequest
<1>6. ASSUME NEW c \in Conns, NEW conn, conn.st = s.conns[c].st, conn.left = s.conns[c].left,
             Effect(c, conn, s.work, s.realms, s.futures)
      PROVE  OneRequest'
  <2>1. RealmsOfLoops => RealmsOfLoops'
    BY <1>6 DEF Effect, RealmsOfLoops
  <2>2. WorkOfLoops => WorkOfLoops'
    BY <1>1, <1>6 DEF Effect, WorkOfLoops, Running, Current
  <2> QED BY <1>1, <1>6, <2>1, <2>2 DEF Effect, OneRequest
\* A request that ends before its response leaves nothing.
<1>7. ASSUME NEW c \in Conns, NEW conn, Running(c), conn.st \in {"writing", "gone"},
             Effect(c, conn, s.work, <<>>, s.futures \ {Current(s, c)})
      PROVE  OneRequest'
  <2>1. CASE s.isolated
    <3>1. s.work = {} /\ s.futures = {Current(s, c)}
      BY <1>1, <1>7, <2>1 DEF OneRequest, RealmsOfLoops, WorkOfLoops
    <3>2. c \in InFlight(s)
      BY <1>2, <1>7 DEF Running
    <3>3. s'.work = {} /\ s'.futures = {} /\ s'.realms = <<>> /\ s'.isolated
      BY <1>7, <2>1, <3>1 DEF Effect
    <3>4. \A d \in Conns : ~Running(d)'
      BY <1>7, <2>1, <3>2, OnlyOne DEF Running
    <3> QED BY <3>3, <3>4 DEF OneRequest, RealmsOfLoops, WorkOfLoops
  <2> QED BY <1>3, <1>7, <2>1 DEF Effect
<1>8. ASSUME NEW c \in Conns, Accepts(c)
      PROVE  OneRequest'
  <2>1. CASE s.isolated
    <3>1. InFlight(s) = {} /\ s.work = {} /\ s.futures = {}
      BY <1>8, <2>1, RoomForOne DEF Accepts
    <3>2. PICK conn : conn = [s.conns[c] EXCEPT !.st = "idle"]
      OBVIOUS
    <3>3. conn.st = "idle"
      BY <1>1, <3>2 DEF ConnType
    <3>4. Effect(c, conn, s.work, s.realms, s.futures)
      BY <1>8, <3>2 DEF Accepts
    <3>5. \A d \in Conns : ~Running(d)'
      BY <2>1, <3>1, <3>3, <3>4, OnlyOne DEF Running
    <3> QED BY <1>1, <2>1, <3>1, <3>4, <3>5 DEF Effect, OneRequest, RealmsOfLoops, WorkOfLoops
  <2> QED BY <1>3, <1>8, <2>1 DEF Accepts, Effect
<1>9. ASSUME NEW c \in Conns, Fails(c)
      PROVE  OneRequest'
  <2>1. PICK conn : conn = [s.conns[c] EXCEPT !.st = "writing", !.body = "complete"]
    OBVIOUS
  <2>2. conn.st = "writing" /\ Running(c)
    BY <1>1, <1>9, <2>1 DEF ConnType, Fails, Running
  <2> QED BY <1>7, <1>9, <2>1, <2>2 DEF Fails
<1>10. ASSUME NEW c \in Conns, Lost(c)
       PROVE  OneRequest'
  <2>1. PICK conn : conn = [s.conns[c] EXCEPT !.st = "gone"]
    OBVIOUS
  <2>2. conn.st = "gone"
    BY <1>1, <2>1 DEF ConnType
  <2> QED BY <1>7, <1>10, <2>1, <2>2 DEF Lost
<1>11. ASSUME NEW c \in Conns, Runs(c)
       PROVE  OneRequest'
  <2>1. PICK conn : conn = [s.conns[c] EXCEPT !.st = "dispatching"]
    OBVIOUS
  <2>2. conn.st = "dispatching" /\ conn.left = s.conns[c].left /\ Running(c)
    BY <1>1, <1>11, <2>1 DEF ConnType, Runs, Running
  <2>3. Effect(c, conn, s.work, s.realms, s.futures)
    BY <1>11, <2>1 DEF Runs
  <2>4. RealmsOfLoops => RealmsOfLoops'
    BY <2>3 DEF Effect, RealmsOfLoops
  <2>5. WorkOfLoops => WorkOfLoops'
    BY <1>1, <2>2, <2>3 DEF Effect, WorkOfLoops, Running, Current
  <2> QED BY <1>1, <2>3, <2>4, <2>5 DEF Effect, OneRequest
<1>12. ASSUME NEW c \in Conns, NEW body, NEW phase, Answers(c, body, phase)
       PROVE  OneRequest'
  <2>1. PICK conn : conn = [s.conns[c] EXCEPT !.st = "writing", !.body = body]
    OBVIOUS
  <2>2. conn.st = "writing" /\ Running(c) /\ c \in InFlight(s)
    BY <1>1, <1>2, <1>12, <2>1 DEF ConnType, Answers, Running
  <2>3. PICK w : w = [req |-> Current(s, c), phase |-> phase]
    OBVIOUS
  <2>4. Effect(c, conn, s.work \cup {w}, s.realms, s.futures)
    BY <1>12, <2>1, <2>3 DEF Answers
  <2>5. CASE s.isolated
    <3>1. s.work = {} /\ s.futures = {w.req}
      BY <1>1, <2>2, <2>3, <2>5 DEF OneRequest, RealmsOfLoops, WorkOfLoops
    <3>2. \A d \in Conns : ~Running(d)' /\ s'.conns[d].st # "idle"
      BY <2>2, <2>4, <2>5, OnlyOne DEF Running
    <3>3. s'.work = {w} /\ s'.futures = {w.req} /\ s'.realms = s.realms /\ s'.isolated
      BY <2>4, <2>5, <3>1 DEF Effect
    <3> QED BY <1>1, <2>5, <3>1, <3>2, <3>3 DEF OneRequest, RealmsOfLoops, WorkOfLoops
  <2> QED BY <1>3, <2>4, <2>5 DEF Effect
<1>13. ASSUME NEW c \in Conns, NEW conn \in ConnType, Starts(c, conn)
       PROVE  OneRequest'
  <2>1. PICK q : q = <<c, conn.left>>
    OBVIOUS
  <2>2. CASE s.isolated
    <3>1. /\ s.conns[c].st = "idle" /\ conn.st = "evaluating"
          /\ Effect(c, conn, s.work, Append(s.realms, q), s.futures \cup {q})
      BY <1>13, <2>1, <2>2 DEF Starts
    <3>2. s.work = {} /\ s.futures = {} /\ s.realms = <<>>
      BY <1>1, <2>2, <3>1 DEF OneRequest, RealmsOfLoops, WorkOfLoops
    <3>3. s'.work = {} /\ s'.futures = {q} /\ s'.realms = <<q>> /\ s'.isolated
      <4>1. Append(<<>>, q) = <<q>>
        OBVIOUS
      <4> QED BY <2>2, <3>1, <3>2, <4>1 DEF Effect
    <3>4. q \in RequestIds
      BY <2>1 DEF RequestIds, ConnType
    <3>5. \A d \in Conns : (Running(d)' => d = c) /\ s'.conns[d].st # "idle"
      BY <1>2, <2>2, <3>1, OnlyOne DEF Running
    <3>6. Current(s, c)' = q
      BY <2>1, <3>1, <1>1 DEF Current, Effect
    <3> QED BY <3>3, <3>4, <3>5, <3>6 DEF OneRequest, RealmsOfLoops, WorkOfLoops
  <2> QED BY <1>3, <1>13, <2>2 DEF Starts, Effect
<1>14. ASSUME NEW w \in s.work, NEW c \in Conns, NEW body, NEW signal, Sends(w, c, body, signal)
       PROVE  OneRequest'
  <2>1. PICK conn : conn = [s.conns[c] EXCEPT !.body = body, !.signal = signal]
    OBVIOUS
  <2>2. conn.st = s.conns[c].st /\ conn.left = s.conns[c].left
    BY <1>1, <2>1 DEF ConnType
  <2>3. PICK v : v = [w EXCEPT !.phase = "drain"]
    OBVIOUS
  <2>4. v.req = w.req
    BY <1>1, <2>3 DEF WorkType
  <2>5. Effect(c, conn, (s.work \ {w}) \cup {v}, s.realms, s.futures)
    BY <1>14, <2>1, <2>3 DEF Sends
  <2>6. CASE s.isolated
    <3>1. s.futures = {w.req} /\ s.work = {w}
      BY <1>1, <2>6 DEF OneRequest, RealmsOfLoops, WorkOfLoops
    <3>2. \A d \in Conns : s.conns[d].st # "idle" /\ ~Running(d)
      BY <1>1, <2>6, <3>1 DEF OneRequest, RealmsOfLoops, WorkOfLoops
    <3>3. s'.work = {v} /\ s'.futures = {v.req} /\ s'.realms = s.realms /\ s'.isolated
      BY <2>4, <2>5, <2>6, <3>1 DEF Effect
    <3>4. \A d \in Conns : s'.conns[d].st # "idle" /\ ~Running(d)'
      BY <1>1, <2>2, <2>5, <3>2 DEF Effect, Running
    <3>5. s'.realms = s.realms /\ s'.futures = s.futures
      BY <2>5 DEF Effect
    <3> QED BY <1>1, <2>6, <3>3, <3>4, <3>5 DEF OneRequest, RealmsOfLoops, WorkOfLoops
  <2> QED BY <1>3, <2>5, <2>6 DEF Effect
<1>15. ASSUME NEW w \in s.work, NEW c \in Conns, Drained(w, c)
       PROVE  OneRequest'
  <2>1. Effect(c, s.conns[c], s.work \ {w}, <<>>, s.futures \ {w.req})
    BY <1>15 DEF Drained
  <2>2. CASE s.isolated
    <3>1. s.futures = {w.req} /\ s.work = {w}
      BY <1>1, <2>2 DEF OneRequest, RealmsOfLoops, WorkOfLoops
    <3>2. \A d \in Conns : ~Running(d)
      BY <1>1, <2>2, <3>1 DEF OneRequest, RealmsOfLoops, WorkOfLoops
    <3>3. s'.work = {} /\ s'.futures = {} /\ s'.realms = <<>> /\ s'.isolated /\ s'.conns = s.conns
      BY <1>1, <2>1, <2>2, <3>1 DEF Effect
    <3>4. \A d \in Conns : ~Running(d)'
      BY <3>2, <3>3 DEF Running
    <3> QED BY <3>3, <3>4 DEF OneRequest, RealmsOfLoops, WorkOfLoops
  <2> QED BY <1>3, <2>1, <2>2 DEF Effect
<1>16. ASSUME NEW c \in Conns, NEW signal, NEW ending, Signals(c, signal, ending)
       PROVE  OneRequest'
  <2>1. PICK conn : conn = [s.conns[c] EXCEPT !.signal = signal, !.ending = ending]
    OBVIOUS
  <2>2. conn.st = s.conns[c].st /\ conn.left = s.conns[c].left
    BY <1>1, <2>1 DEF ConnType
  <2> QED BY <1>6, <1>16, <2>1, <2>2 DEF Signals
<1>17. ASSUME NEW c \in Conns, NEW conn, Refuses(c, conn) \/ Closes(c, conn)
       PROVE  OneRequest'
  <2>1. /\ s.conns[c].st \in {"idle", "writing"} /\ conn.st \in {"writing", "gone"}
        /\ Effect(c, conn, s.work, s.realms, s.futures)
    BY <1>17 DEF Refuses, Closes
  <2>2. s.conns[c].st # "idle" => ~Running(c)
    BY <2>1 DEF Running
  <2> QED BY <1>4, <1>5, <2>1, <2>2
<1>18. ASSUME NEW phase, Idles(phase)
       PROVE  OneRequest'
  BY <1>1, <1>18 DEF Idles, OneRequest, RealmsOfLoops, WorkOfLoops, Running, Current
<1>19. ASSUME Shutdown
       PROVE  OneRequest'
  <2>1. /\ s'.work = {} /\ s'.futures = {} /\ s'.realms = <<>>
        /\ s'.conns = [c \in Conns |-> [s.conns[c] EXCEPT !.st = "gone"]]
    BY <1>1, <1>19 DEF Shutdown, State
  <2>2. \A c \in Conns : ~Running(c)'
    BY <1>1, <2>1 DEF Running, ConnType
  <2> QED BY <2>1, <2>2 DEF OneRequest, RealmsOfLoops, WorkOfLoops
<1> QED BY <1>8, <1>9, <1>10, <1>11, <1>12, <1>13, <1>14, <1>15, <1>16, <1>17, <1>18, <1>19 DEF Steps

\* Who drives the loop of a request: its work, or the connection that serves it.
Held(q) ==
    \/ \E w \in s.work : w.req = q
    \/ q = Current(s, q[1]) /\ Running(q[1])

LEMMA ReleasedIsHeld == LoopsReleased <=> \A q \in s.futures : Held(q)
BY DEF LoopsReleased, Held, Running

\* What a step about one connection leaves of the hold on the loops of the others.
LEMMA StillHeld ==
    ASSUME IInv, NEW c \in Conns, NEW conn, NEW work, NEW realms, NEW futures,
           Effect(c, conn, work, realms, futures),
           NEW q \in RequestIds, Held(q), {w.req : w \in s.work} \subseteq {w.req : w \in work},
           (conn.st = s.conns[c].st /\ conn.left = s.conns[c].left) \/ q # Current(s, c) \/ ~Running(c)
    PROVE  Held(q)'
<1>1. s.conns \in [Conns -> ConnType]
  BY DEF IInv, TypeOK, State
<1>2. q[1] \in Conns
  BY DEF RequestIds
<1>3. CASE \E w \in s.work : w.req = q
  BY <1>3 DEF Held, Effect
<1>4. CASE q = Current(s, q[1]) /\ Running(q[1])
  <2>1. CASE q[1] = c
    BY <1>1, <1>4, <2>1 DEF Held, Effect, Running, Current
  <2>2. CASE q[1] # c
    BY <1>1, <1>2, <1>4, <2>2 DEF Held, Effect, Running, Current
  <2> QED BY <2>1, <2>2
<1> QED BY <1>3, <1>4 DEF Held

LEMMA ReleasedStep ==
    ASSUME IInv, Steps
    PROVE  LoopsReleased'
<1>1. /\ s \in State /\ s.conns \in [Conns -> ConnType] /\ s.futures \subseteq RequestIds
      /\ s.work \in SUBSET WorkType /\ \A q \in s.futures : Held(q)
  BY ReleasedIsHeld DEF IInv, TypeOK, State
<1>2. ASSUME \A q \in s'.futures : Held(q)'
      PROVE  LoopsReleased'
  BY <1>2 DEF LoopsReleased, Held, Running
<1>3. \A c \in Conns : Current(s, c) = <<c, s.conns[c].left>>
  BY DEF Current
\* The work, the loops and the request of the connection are as they were.
<1>4. ASSUME NEW c \in Conns, NEW conn, NEW work, NEW realms,
             Effect(c, conn, work, realms, s.futures),
             {w.req : w \in s.work} \subseteq {w.req : w \in work},
             (conn.st = s.conns[c].st /\ conn.left = s.conns[c].left) \/ ~Running(c)
      PROVE  LoopsReleased'
  <2>1. \A q \in s.futures : Held(q)'
    BY <1>1, <1>4, StillHeld
  <2> QED BY <1>2, <1>4, <2>1 DEF Effect
\* The loop of the connection's request is released.
<1>5. ASSUME NEW c \in Conns, NEW conn, NEW realms,
             Effect(c, conn, s.work, realms, s.futures \ {Current(s, c)})
      PROVE  LoopsReleased'
  <2>1. \A q \in s.futures \ {Current(s, c)} : Held(q)'
    BY <1>1, <1>5, StillHeld
  <2> QED BY <1>2, <1>5, <2>1 DEF Effect
<1>6. ASSUME NEW c \in Conns, Accepts(c)
      PROVE  LoopsReleased'
  <2>1. ~Running(c)
    BY <1>6 DEF Accepts, Running
  <2> QED BY <1>4, <1>6, <2>1 DEF Accepts
<1>7. ASSUME NEW c \in Conns, Fails(c) \/ Lost(c)
      PROVE  LoopsReleased'
  BY <1>5, <1>7 DEF Fails, Lost
<1>8. ASSUME NEW c \in Conns, Runs(c)
      PROVE  LoopsReleased'
  <2>1. PICK conn : conn = [s.conns[c] EXCEPT !.st = "dispatching"]
    OBVIOUS
  <2>2. conn.st = "dispatching" /\ conn.left = s.conns[c].left
    BY <1>1, <2>1 DEF ConnType
  <2>3. Effect(c, conn, s.work, s.realms, s.futures)
    BY <1>8, <2>1 DEF Runs
  <2>4. ASSUME NEW q \in s.futures
        PROVE  Held(q)'
    BY <1>1, <2>2, <2>3, <2>4 DEF Held, Effect, Running, Current, RequestIds
  <2> QED BY <1>2, <2>3, <2>4 DEF Effect
<1>9. ASSUME NEW c \in Conns, NEW body, NEW phase, Answers(c, body, phase)
      PROVE  LoopsReleased'
  <2>1. PICK conn : conn = [s.conns[c] EXCEPT !.st = "writing", !.body = body]
    OBVIOUS
  <2>2. PICK w : w = [req |-> Current(s, c), phase |-> phase]
    OBVIOUS
  <2>3. PICK work : work = s.work \cup {w}
    OBVIOUS
  <2>4. Effect(c, conn, work, s.realms, s.futures) /\ w.req = Current(s, c)
    BY <1>9, <2>1, <2>2, <2>3 DEF Answers
  <2>5. {v.req : v \in s.work} \subseteq {v.req : v \in work}
    BY <2>3
  <2>6. ASSUME NEW q \in s.futures
        PROVE  Held(q)'
    <3>1. CASE q = Current(s, c)
      BY <2>3, <2>4, <3>1 DEF Held, Effect
    <3>2. CASE q # Current(s, c)
      BY <1>1, <2>4, <2>5, <3>2, StillHeld
    <3> QED BY <3>1, <3>2
  <2> QED BY <1>2, <2>4, <2>6 DEF Effect
<1>10. ASSUME NEW c \in Conns, NEW conn \in ConnType, Starts(c, conn)
       PROVE  LoopsReleased'
  <2>1. PICK r : r = <<c, conn.left>>
    OBVIOUS
  <2>2. PICK realms : Effect(c, conn, s.work, realms, s.futures \cup {r})
    BY <1>10, <2>1 DEF Starts
  <2>3. ~Running(c) /\ conn.st \in {"evaluating", "dispatching"}
    BY <1>10 DEF Starts, Running
  <2>4. Held(r)'
    BY <1>1, <2>1, <2>2, <2>3 DEF Held, Effect, Running, Current
  <2>5. ASSUME NEW q \in s.futures
        PROVE  Held(q)'
    BY <1>1, <2>2, <2>3, StillHeld
  <2> QED BY <1>2, <2>2, <2>4, <2>5 DEF Effect
<1>11. ASSUME NEW c \in Conns, NEW conn, Refuses(c, conn) \/ Closes(c, conn)
       PROVE  LoopsReleased'
  <2>1. ~Running(c)
    BY <1>11 DEF Refuses, Closes, Running
  <2> QED BY <1>4, <1>11, <2>1 DEF Refuses, Closes
<1>12. ASSUME NEW c \in Conns, NEW signal, NEW ending, Signals(c, signal, ending)
       PROVE  LoopsReleased'
  <2>1. PICK conn : conn = [s.conns[c] EXCEPT !.signal = signal, !.ending = ending]
    OBVIOUS
  <2>2. conn.st = s.conns[c].st /\ conn.left = s.conns[c].left
    BY <1>1, <2>1 DEF ConnType
  <2> QED BY <1>4, <1>12, <2>1, <2>2 DEF Signals
<1>13. ASSUME NEW w \in s.work, NEW c \in Conns, NEW body, NEW signal, Sends(w, c, body, signal)
       PROVE  LoopsReleased'
  <2>1. PICK conn : conn = [s.conns[c] EXCEPT !.body = body, !.signal = signal]
    OBVIOUS
  <2>2. conn.st = s.conns[c].st /\ conn.left = s.conns[c].left
    BY <1>1, <2>1 DEF ConnType
  <2>3. PICK v : v = [w EXCEPT !.phase = "drain"]
    OBVIOUS
  <2>4. v.req = w.req
    BY <1>1, <2>3 DEF WorkType
  <2>5. PICK work : work = (s.work \ {w}) \cup {v}
    OBVIOUS
  <2>6. {u.req : u \in s.work} \subseteq {u.req : u \in work}
    BY <2>4, <2>5
  <2>7. Effect(c, conn, work, s.realms, s.futures)
    BY <1>13, <2>1, <2>3, <2>5 DEF Sends
  <2> QED BY <1>4, <2>2, <2>6, <2>7
<1>14. ASSUME NEW w \in s.work, NEW c \in Conns, Drained(w, c)
       PROVE  LoopsReleased'
  <2>1. Effect(c, s.conns[c], s.work \ {w}, <<>>, s.futures \ {w.req})
    BY <1>14 DEF Drained
  <2>2. ASSUME NEW q \in s.futures \ {w.req}
        PROVE  Held(q)'
    BY <1>1, <2>1, <2>2 DEF Held, Effect, Running, Current
  <2> QED BY <1>2, <2>1, <2>2 DEF Effect
<1>15. ASSUME NEW phase, Idles(phase)
       PROVE  LoopsReleased'
  <2>1. ASSUME NEW q \in s.futures
        PROVE  Held(q)'
    BY <1>1, <1>15, <2>1 DEF Held, Idles, Running, Current
  <2> QED BY <1>2, <1>15, <2>1 DEF Idles
<1>16. ASSUME Shutdown
       PROVE  LoopsReleased'
  <2>1. s'.futures = {}
    BY <1>1, <1>16 DEF Shutdown, State
  <2> QED BY <1>2, <2>1
<1> QED BY <1>6, <1>7, <1>8, <1>9, <1>10, <1>11, <1>12, <1>13, <1>14, <1>15, <1>16 DEF Steps

LEMMA TypeStep ==
    ASSUME IInv, Steps
    PROVE  TypeOK' /\ s'.nested /\ ~s'.late
<1>1. CASE Shutdown
  <2>1. s \in State /\ s.nested = TRUE /\ s.late = FALSE
    BY DEF IInv, TypeOK, State
  <2>2. PICK conns : conns = [c \in Conns |-> [s.conns[c] EXCEPT !.st = "gone"]]
    OBVIOUS
  <2>3. conns \in [Conns -> ConnType]
    <3>1. ASSUME NEW conn \in ConnType
          PROVE  [conn EXCEPT !.st = "gone"] \in ConnType
      BY DEF ConnType
    <3>2. \A c \in Conns : s.conns[c] \in ConnType
      BY <2>1 DEF State
    <3> QED BY <2>2, <3>1, <3>2
  <2>4. s' = [s EXCEPT !.phase = "stopped", !.work = {}, !.realms = <<>>, !.futures = {},
                       !.conns = conns]
    BY <1>1, <2>2 DEF Shutdown
  <2>5. <<>> \in Seq(RequestIds)
    OBVIOUS
  <2>6. s' \in State /\ s'.nested = TRUE /\ s'.late = FALSE
    BY <2>1, <2>3, <2>4, <2>5 DEF State
  <2> QED BY <2>6 DEF TypeOK
<1>2. ASSUME NEW c, NEW conn, NEW work, NEW realms, NEW futures, Effect(c, conn, work, realms, futures)
      PROVE  TypeOK' /\ s'.nested /\ ~s'.late
  BY <1>2 DEF Effect, TypeOK
<1>3. ASSUME NEW phase, Idles(phase)
      PROVE  TypeOK' /\ s'.nested /\ ~s'.late
  BY <1>3 DEF Idles, TypeOK
<1> QED BY <1>1, <1>2, <1>3 DEF Steps, Accepts, Fails, Runs, Lost, Answers, Refuses, Starts, Closes,
                                 Signals, Sends, Drained

-----------------------------------------------------------------------------
(* The invariant, its steps put together.                                  *)

LEMMA Initially == ConstantsAssumption /\ Init => IInv
<1> SUFFICES ASSUME ConstantsAssumption, NEW isolated \in BOOLEAN,
                    s = [isolated |-> isolated, phase |-> IF isolated THEN "serving" ELSE "startup",
                         arm |-> "accept", atCapacity |-> FALSE,
                         conns |-> [c \in Conns |-> NoConn], work |-> {},
                         realms |-> <<>>, nested |-> TRUE, futures |-> {}, late |-> FALSE]
             PROVE  IInv
  BY DEF Init
<1>1. NoConn \in ConnType /\ NoConn.st = "none"
  BY DEF ConnType, NoConn, ConstantsAssumption
<1>2. TypeOK
  <2>1. <<>> \in Seq(RequestIds) /\ [c \in Conns |-> NoConn] \in [Conns -> ConnType]
    BY <1>1
  <2> HIDE DEF NoConn
  <2> QED BY <2>1 DEF TypeOK, State
<1>3. InFlight(s) = {}
  BY <1>1 DEF InFlight
<1>4. Cardinality(InFlight(s)) = 0 /\ Limit \in Nat
  BY <1>3, FS_EmptySet DEF Limit, ConstantsAssumption
<1>5. CapacityKnown
  <2>1. s.phase = "serving" => ~AtCapacity(s)
    BY <1>4 DEF AtCapacity
  <2> QED BY <1>3, <1>4, <2>1 DEF CapacityKnown
<1>6. OneRequest
  BY <1>1 DEF OneRequest, RealmsOfLoops, WorkOfLoops, Running
<1> QED BY <1>2, <1>5, <1>6 DEF IInv, LoopsReleased

LEMMA Inductive == ConstantsAssumption /\ IInv /\ [Next]_s => IInv'
<1>1. ConstantsAssumption /\ IInv /\ Next => IInv'
  BY NextSteps, TypeStep, CapacityStep, OneRequestStep, ReleasedStep DEF IInv
<1>2. IInv /\ UNCHANGED s => IInv'
  BY DEF IInv, TypeOK, CapacityKnown, Limit, OneRequest, RealmsOfLoops, WorkOfLoops, Running,
         LoopsReleased
<1> QED BY <1>1, <1>2

\* What the invariant says of the server.
LEMMA InvariantHolds ==
    ConstantsAssumption /\ IInv => RealmsNest /\ NoRequestAfterClose /\ LoopsReleased /\ NoSlotForgotten
<1> SUFFICES ASSUME ConstantsAssumption, IInv
             PROVE  RealmsNest /\ NoRequestAfterClose /\ LoopsReleased /\ NoSlotForgotten
  OBVIOUS
<1>1. s.nested /\ Cardinality(InFlight(s)) <= IF s.isolated THEN 1 ELSE MaxConnections
  BY DEF IInv, CapacityKnown, Limit
<1>2. s.realms = <<>> \/ \E q : s.realms = <<q>>
  BY DEF IInv, OneRequest, RealmsOfLoops
<1>3. Len(s.realms) <= 1
  <2>1. CASE s.realms = <<>>
    BY <2>1
  <2>2. ASSUME NEW q, s.realms = <<q>>
        PROVE  Len(s.realms) <= 1
    BY <2>2
  <2> QED BY <1>2, <2>1, <2>2
<1>4. ~s.isolated => s.realms = <<>>
  BY DEF IInv, OneRequest
<1>5. NoSlotForgotten
  BY DEF IInv, CapacityKnown, NoSlotForgotten
<1> QED BY <1>1, <1>3, <1>4, <1>5 DEF IInv, RealmsNest, NoRequestAfterClose

\* The state of the server has its type, for any connections and limits.
THEOREM TypeCorrect ==
    ASSUME ConstantsAssumption
    PROVE  Spec => []TypeOK
<1>1. Init => IInv
  BY Initially
<1>2. IInv /\ [Next]_s => IInv'
  BY Inductive
<1>3. IInv => TypeOK
  BY DEF IInv
<1> QED BY <1>1, <1>2, <1>3, PTL DEF Spec

\* Realms are left in the reverse of the order in which they were entered, no request starts on
\* a connection that was given up (drive_connection looks at the signal before hyper), the loop
\* of a request is released when nothing drives it, and no slot of the limit is forgotten.
THEOREM ServerInOrder ==
    ASSUME ConstantsAssumption
    PROVE  Spec => [](RealmsNest /\ NoRequestAfterClose /\ LoopsReleased /\ NoSlotForgotten)
<1>1. Init => IInv
  BY Initially
<1>2. IInv /\ [Next]_s => IInv'
  BY Inductive
<1>3. IInv => RealmsNest /\ NoRequestAfterClose /\ LoopsReleased /\ NoSlotForgotten
  BY InvariantHolds
<1> QED BY <1>1, <1>2, <1>3, PTL DEF Spec

=============================================================================
