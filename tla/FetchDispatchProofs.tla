------------------------- MODULE FetchDispatchProofs -------------------------
(***************************************************************************)
(* Proofs about module FetchDispatch, for any number of requests,          *)
(* responses and promises.  The invariant says, beside the types and the   *)
(* counts, how far each request and its response have come, who may have   *)
(* the body of a Response, and that reactions are queued only while some   *)
(* loop is active.                                                         *)
(***************************************************************************)
EXTENDS FetchDispatch, FiniteSetTheorems, TLAPS

\* A request that has a turn is being handled, and between turns no reaction is queued.
TurnsDrained ==
    /\ active # NoLoop => phase[active] \notin {"new", "over"}
    /\ active = NoLoop => ~JobsQueued

\* respondWith is called once, in the dispatch, and its reaction runs once.
RespondsOnce ==
    \A r \in Requests :
        /\ phase[r] = "new" => ~ev[r].entered
        /\ ~ev[r].entered => respond[r] = "unused"
        /\ respond[r] \in {"unused", "done"} => ~ev[r].holds
        /\ respond[r] = "fulfilled" => given[r] # NoResponse
        /\ respond[r] # "done" => ev[r].potential = NoResponse
        /\ answer[r] = "response" => ev[r].potential # NoResponse
        /\ phase[r] = "body" => answer[r] = "response"
        /\ sent[r] # NoHeaders => answer[r] = "response"

\* The headers h of a response come from between the settlement of r's promise and the end
\* of the reactions that were queued then.
FromCheckpoint(r, h) ==
    /\ settledAs[r] <= h
    /\ drainedAs[r] # NoHeaders => h <= drainedAs[r]

\* What has been noted of a response's headers, and where those that are kept come from.
KeptOf(r) ==
    /\ respond[r] \in {"unused", "pending", "rejected"} => given[r] = NoResponse
    /\ given[r] # NoResponse =>
         /\ settledAs[r] # NoHeaders /\ settledAs[r] <= edits[given[r]]
         /\ drainedAs[r] # NoHeaders => drainedAs[r] <= edits[given[r]]
    /\ drainedAs[r] # NoHeaders => respond[r] = "done" /\ given[r] # NoResponse
    /\ ev[r].potential # NoResponse => given[r] # NoResponse
    /\ ev[r].headers # NoHeaders =>
         /\ given[r] # NoResponse /\ ev[r].headers <= edits[given[r]]
         /\ FromCheckpoint(r, ev[r].headers)
    /\ sent[r] # NoHeaders => drainedAs[r] # NoHeaders /\ FromCheckpoint(r, sent[r])
HeadersKept == \A r \in Requests : KeptOf(r)

\* A promise that was passed to waitUntil has an event and a loop.
LifetimesPlaced ==
    \A p \in Promises :
        /\ lifetime[p].state = "unused" => lifetime[p].event = NoLoop /\ lifetime[p].loop = NoLoop
        /\ lifetime[p].state # "unused" => lifetime[p].event # NoLoop /\ lifetime[p].loop # NoLoop
        /\ ~ForeignWaitUntil => lifetime[p].event = lifetime[p].loop

\* The body of a Response is of one taker: author code that reads it, or the request that it
\* was reserved for.
TakerOf(x) ==
    /\ body[x] = "null" <=> x \in NullBody
    /\ body[x] = "fresh" => readers[x] = {}
    /\ body[x] = "fresh" => \A r \in Requests : ev[r].potential # x
    /\ \A r \in Requests : r \in readers[x] => ev[r].potential = x
    /\ x \notin NullBody =>
         /\ Author \in readers[x] => \A r \in Requests : ev[r].potential # x
         /\ \A q, r \in Requests : ev[q].potential = x /\ ev[r].potential = x => q = r
OneTaker == \A x \in Responses : TakerOf(x)

IInv ==
    /\ TypeOK /\ CountsMatchPromises /\ WaitUntilHolds
    /\ TurnsDrained /\ RespondsOnce /\ HeadersKept /\ LifetimesPlaced /\ OneTaker

-----------------------------------------------------------------------------
(* Preservation, one lemma for each part of the invariant.                 *)

\* Sets of promises can be counted.
LEMMA PromisesFinite ==
    ASSUME NEW S \in SUBSET Promises
    PROVE  IsFiniteSet(S) /\ Cardinality(S) \in Nat
BY FS_Subset, FS_CardinalityType, ConstantsAssumption

\* Whatever leaves the promises of waitUntil alone leaves alone what they hold.
LEMMA SamePromises ==
    ASSUME UNCHANGED lifetime, NEW r \in Requests
    PROVE  Holding(r)' = Holding(r) /\ Counted(r)' = Counted(r)
BY DEF Holding, Counted, Outstanding

\* What the end of a reaction leaves, when it starts from the event e.
LEMMA DoneWith ==
    ASSUME TypeOK, NEW r \in Requests, NEW e \in EventType, RespondDone(r, e)
    PROVE  /\ respond' = [respond EXCEPT ![r] = "done"]
           /\ \A q \in Requests \ {r} : ev'[q] = ev[q] /\ interest'[q] = interest[q]
           /\ interest'[r] = IF ev[r].holds THEN interest[r] - 1 ELSE interest[r]
           /\ ev'[r].holds = FALSE /\ ev'[r].wait = FALSE /\ ev'[r].count = e.count - 1
           /\ ev'[r].entered = e.entered
           /\ ev'[r].potential = e.potential /\ ev'[r].headers = e.headers
           /\ e.count - 1 \in Nat => ev' \in [Requests -> EventType]
<1>1. ev'[r] = [e EXCEPT !.wait = FALSE, !.holds = FALSE, !.count = e.count - 1]
  BY DEF TypeOK, RespondDone, EventType
<1>2. e.count - 1 \in Nat => ev'[r] \in EventType
  BY <1>1 DEF EventType
<1>3. \A q \in Requests \ {r} : ev'[q] = ev[q]
  BY DEF TypeOK, RespondDone
<1>4. /\ ev'[r].holds = FALSE /\ ev'[r].wait = FALSE /\ ev'[r].count = e.count - 1
      /\ ev'[r].entered = e.entered
      /\ ev'[r].potential = e.potential /\ ev'[r].headers = e.headers
  BY <1>1 DEF EventType
<1>5. ev' = [q \in Requests |-> ev'[q]]
  BY DEF TypeOK, RespondDone
<1>6. /\ respond' = [respond EXCEPT ![r] = "done"]
      /\ \A q \in Requests \ {r} : interest'[q] = interest[q]
      /\ interest'[r] = IF ev[r].holds THEN interest[r] - 1 ELSE interest[r]
  BY DEF TypeOK, RespondDone
<1> QED BY <1>2, <1>3, <1>4, <1>5, <1>6 DEF TypeOK

\* If the promise is rejected, or its Response is unusable, what is kept of a response stays
\* as it was; any other Response is kept, with the headers it has.
LEMMA RejectedDone ==
    ASSUME TypeOK, NEW r \in Requests, RespondDone(r, [ev[r] EXCEPT !.error = TRUE])
    PROVE  /\ respond' = [respond EXCEPT ![r] = "done"]
           /\ \A q \in Requests \ {r} : ev'[q] = ev[q] /\ interest'[q] = interest[q]
           /\ interest'[r] = IF ev[r].holds THEN interest[r] - 1 ELSE interest[r]
           /\ ev'[r].holds = FALSE /\ ev'[r].wait = FALSE /\ ev'[r].count = ev[r].count - 1
           /\ ev'[r].entered = ev[r].entered
           /\ ev'[r].potential = ev[r].potential /\ ev'[r].headers = ev[r].headers
           /\ ev[r].count - 1 \in Nat => ev' \in [Requests -> EventType]
<1> DEFINE e == [ev[r] EXCEPT !.error = TRUE]
<1>1. /\ e \in EventType /\ e.count = ev[r].count /\ e.entered = ev[r].entered
      /\ e.potential = ev[r].potential /\ e.headers = ev[r].headers
  <2>1. ev[r] \in EventType
    BY DEF TypeOK
  <2> QED BY <2>1 DEF EventType
<1>2. RespondDone(r, e)
  OBVIOUS
<1> HIDE DEF e
<1> QED BY ZenonT(40), <1>1, <1>2, DoneWith

LEMMA KeptDone ==
    ASSUME TypeOK, NEW r \in Requests, NEW x \in Responses,
           RespondDone(r, [ev[r] EXCEPT !.headers = edits[x], !.potential = x])
    PROVE  /\ respond' = [respond EXCEPT ![r] = "done"]
           /\ \A q \in Requests \ {r} : ev'[q] = ev[q] /\ interest'[q] = interest[q]
           /\ interest'[r] = IF ev[r].holds THEN interest[r] - 1 ELSE interest[r]
           /\ ev'[r].holds = FALSE /\ ev'[r].wait = FALSE /\ ev'[r].count = ev[r].count - 1
           /\ ev'[r].entered = ev[r].entered
           /\ ev'[r].potential = x /\ ev'[r].headers = edits[x]
           /\ ev[r].count - 1 \in Nat => ev' \in [Requests -> EventType]
<1> DEFINE e == [ev[r] EXCEPT !.headers = edits[x], !.potential = x]
<1>1. /\ e \in EventType /\ e.count = ev[r].count /\ e.entered = ev[r].entered
      /\ e.potential = x /\ e.headers = edits[x]
  <2>1. ev[r] \in EventType /\ edits[x] \in 0..MaxEdits
    BY DEF TypeOK
  <2> QED BY <2>1 DEF EventType
<1>2. RespondDone(r, e)
  OBVIOUS
<1> HIDE DEF e
<1> QED BY ZenonT(40), <1>1, <1>2, DoneWith

\* RespondWith, the reactions to its promise, and the end of the wait for it.
LEMMA RespondCounted ==
    ASSUME IInv, NEW r \in Requests,
           \/ RespondWith(r) \/ SettleRespond(r) \/ OnRespondFulfilled(r) \/ OnRespondRejected(r)
           \/ AbortSignalled(r)
    PROVE  CountsMatchPromises'
<1> DEFINE Others == \A q \in Requests \ {r} : /\ ev'[q] = ev[q] /\ interest'[q] = interest[q]
                                              /\ respond'[q] = respond[q]
           Due(s) == One(s \in {"pending", "fulfilled", "rejected"})
<1>1. \A q \in Requests : Holding(q)' = Holding(q) /\ Counted(q)' = Counted(q)
  <2>1. UNCHANGED lifetime
    BY DEF RespondWith, SettleRespond, OnRespondFulfilled, OnRespondRejected, AbortSignalled
  <2> QED BY <2>1, SamePromises
<1>2. \A q \in Requests : /\ Cardinality(Holding(q)) \in Nat /\ Cardinality(Counted(q)) \in Nat
  BY PromisesFinite DEF Holding, Counted
<1>3. /\ interest[r] \in Nat /\ ev[r].count \in Nat /\ ev[r].holds \in BOOLEAN
      /\ respond[r] \in {"unused", "pending", "fulfilled", "rejected", "done"}
      /\ interest[r] = Cardinality(Holding(r)) + One(ev[r].holds)
      /\ ev[r].count = Cardinality(Counted(r)) + Due(respond[r])
  BY DEF IInv, TypeOK, EventType, CountsMatchPromises
<1>4. /\ Others
      /\ interest'[r] - One(ev'[r].holds) = interest[r] - One(ev[r].holds)
      /\ ev'[r].count - Due(respond'[r]) = ev[r].count - Due(respond[r])
      /\ interest'[r] \in Int /\ ev'[r].count \in Int
  <2>1. CASE RespondWith(r)
    <3>1. respond[r] = "unused" /\ ~ev[r].holds
      BY <2>1 DEF RespondWith, IInv, RespondsOnce
    <3>2. /\ Others /\ interest'[r] = interest[r] + 1 /\ respond'[r] = "pending"
          /\ ev'[r].holds = TRUE /\ ev'[r].count = ev[r].count + 1
      BY <2>1 DEF RespondWith, IInv, TypeOK, EventType
    <3> QED BY <1>3, <3>1, <3>2 DEF One
  <2>2. CASE SettleRespond(r)
    <3>1. /\ Others /\ interest'[r] = interest[r] /\ ev'[r] = ev[r]
          /\ respond[r] = "pending" /\ respond'[r] \in {"fulfilled", "rejected"}
      BY <2>2 DEF SettleRespond, IInv, TypeOK, EventType
    <3> QED BY <1>3, <3>1 DEF One
  <2>3. CASE OnRespondFulfilled(r) \/ OnRespondRejected(r)
    <3>1. /\ Others /\ ev'[r].holds = FALSE /\ ev'[r].count = ev[r].count - 1
          /\ interest'[r] = IF ev[r].holds THEN interest[r] - 1 ELSE interest[r]
          /\ respond'[r] = "done"
      <4>1. given[r] \in Responses \/ ~OnRespondFulfilled(r)
        BY DEF IInv, TypeOK, EventType, RespondsOnce, OnRespondFulfilled
      <4>2. \/ RespondDone(r, [ev[r] EXCEPT !.error = TRUE])
            \/ /\ RespondDone(r, [ev[r] EXCEPT !.headers = edits[given[r]], !.potential = given[r]])
               /\ given[r] \in Responses
        BY <2>3, <4>1 DEF OnRespondFulfilled, OnRespondRejected
      <4>3. respond \in [Requests -> {"unused", "pending", "fulfilled", "rejected", "done"}]
        BY DEF IInv, TypeOK, EventType
      <4> QED BY ZenonT(40), <4>2, <4>3, RejectedDone, KeptDone DEF IInv
    <3>2. respond[r] \in {"fulfilled", "rejected"}
      BY <2>3 DEF OnRespondFulfilled, OnRespondRejected
    <3> QED BY <1>3, <3>1, <3>2 DEF One
  <2>4. CASE AbortSignalled(r)
    <3>1. /\ Others /\ ev'[r].holds = FALSE /\ ev'[r].count = ev[r].count
          /\ interest'[r] = IF ev[r].holds THEN interest[r] - 1 ELSE interest[r]
          /\ respond'[r] = respond[r]
      BY <2>4 DEF AbortSignalled, AbandonRespond, IInv, TypeOK, EventType
    <3> QED BY <1>3, <3>1 DEF One
  <2> QED BY <2>1, <2>2, <2>3, <2>4
<1>5. ASSUME NEW q \in Requests
      PROVE  /\ interest'[q] = Cardinality(Holding(q)) + One(ev'[q].holds)
             /\ ev'[q].count = Cardinality(Counted(q)) + Due(respond'[q])
  <2>1. CASE q = r
    BY <1>2, <1>3, <1>4, <2>1 DEF One
  <2>2. CASE q # r
    BY <1>4, <2>2 DEF IInv, CountsMatchPromises
  <2> QED BY <2>1, <2>2
<1> QED BY <1>1, <1>5 DEF CountsMatchPromises

\* waitUntil, and what becomes of the promise.
LEMMA LifetimeStep ==
    ASSUME IInv, NEW p \in Promises,
           \/ \E l, r \in Requests : WaitUntil(l, r, p)
           \/ SettledCb(p) \/ HolderCollected(p) \/ SettleLifetime(p)
    PROVE  CountsMatchPromises'
<1>1. \A q \in Requests : /\ IsFiniteSet(Holding(q)) /\ IsFiniteSet(Counted(q))
                          /\ Cardinality(Holding(q)) \in Nat /\ Cardinality(Counted(q)) \in Nat
  BY PromisesFinite DEF Holding, Counted
<1>2. \A q \in Requests :
         /\ interest[q] \in Nat /\ ev[q].count \in Nat /\ ev[q].holds \in BOOLEAN
         /\ interest[q] = Cardinality(Holding(q)) + One(ev[q].holds)
         /\ ev[q].count = Cardinality(Counted(q))
                            + One(respond[q] \in {"pending", "fulfilled", "rejected"})
  BY DEF IInv, TypeOK, EventType, CountsMatchPromises
<1>3. UNCHANGED respond /\ \A q \in Requests : ev'[q].holds = ev[q].holds
  <2>1. CASE \E l, r \in Requests : WaitUntil(l, r, p)
    BY <2>1 DEF WaitUntil, IInv, TypeOK, EventType
  <2>2. CASE SettledCb(p) \/ HolderCollected(p) \/ SettleLifetime(p)
    BY SMTT(30), <2>2 DEF SettledCb, HolderCollected, SettleLifetime, IInv, TypeOK, EventType
  <2> QED BY <2>1, <2>2
<1>4. ASSUME NEW q \in Requests
      PROVE  interest'[q] = Cardinality(Holding(q)') + One(ev[q].holds)
  <2>1. ASSUME NEW l \in Requests, NEW r \in Requests, WaitUntil(l, r, p)
        PROVE  interest'[q] = Cardinality(Holding(q)') + One(ev[q].holds)
    <3>1. interest'[q] = IF q = l THEN interest[q] + 1 ELSE interest[q]
      BY <2>1 DEF WaitUntil, IInv, TypeOK, EventType
    <3>2. Holding(q)' = IF q = l THEN Holding(q) \cup {p} ELSE Holding(q)
      BY <2>1 DEF WaitUntil, Holding, Outstanding, IInv, TypeOK, EventType
    <3>3. p \notin Holding(q)
      BY <2>1 DEF WaitUntil, Holding, Outstanding
    <3>4. Cardinality(Holding(q) \cup {p}) = Cardinality(Holding(q)) + 1
      BY <1>1, <3>3, FS_AddElement
    <3> QED BY <1>1, <1>2, <3>1, <3>2, <3>4 DEF One
  <2>2. CASE SettledCb(p) \/ HolderCollected(p)
    <3>1. lifetime[p].loop \in Requests /\ Outstanding(p)
      BY <2>2, NamesAssumption DEF SettledCb, HolderCollected, IInv, TypeOK, LifetimesPlaced,
                                   Outstanding
    <3>2. interest'[q] = IF q = lifetime[p].loop THEN interest[q] - 1 ELSE interest[q]
      BY <2>2, <3>1 DEF SettledCb, HolderCollected, IInv, TypeOK, EventType
    <3>3. Holding(q)' = IF q = lifetime[p].loop THEN Holding(q) \ {p} ELSE Holding(q)
      BY <2>2, <3>1 DEF SettledCb, HolderCollected, Holding, Outstanding, IInv, TypeOK, EventType
    <3>4. q = lifetime[p].loop => p \in Holding(q)
      BY <3>1 DEF Holding
    <3>5. q = lifetime[p].loop => Cardinality(Holding(q) \ {p}) = Cardinality(Holding(q)) - 1
      BY <1>1, <3>4, FS_RemoveElement
    <3> QED BY <1>1, <1>2, <3>2, <3>3, <3>5 DEF One
  <2>3. CASE SettleLifetime(p)
    <3>1. Holding(q)' = Holding(q) /\ interest'[q] = interest[q]
      BY <2>3 DEF SettleLifetime, Holding, Outstanding, IInv, TypeOK, EventType
    <3> QED BY <1>2, <3>1
  <2> QED BY <2>1, <2>2, <2>3
<1>5. ASSUME NEW q \in Requests
      PROVE  ev'[q].count = Cardinality(Counted(q)')
                              + One(respond[q] \in {"pending", "fulfilled", "rejected"})
  <2>1. ASSUME NEW l \in Requests, NEW r \in Requests, WaitUntil(l, r, p)
        PROVE  ev'[q].count = Cardinality(Counted(q)')
                                + One(respond[q] \in {"pending", "fulfilled", "rejected"})
    <3>1. ev'[q].count = IF q = r THEN ev[q].count + 1 ELSE ev[q].count
      BY <2>1 DEF WaitUntil, IInv, TypeOK, EventType
    <3>2. Counted(q)' = IF q = r THEN Counted(q) \cup {p} ELSE Counted(q)
      BY <2>1 DEF WaitUntil, Counted, IInv, TypeOK, EventType
    <3>3. p \notin Counted(q)
      BY <2>1 DEF WaitUntil, Counted
    <3>4. Cardinality(Counted(q) \cup {p}) = Cardinality(Counted(q)) + 1
      BY <1>1, <3>3, FS_AddElement
    <3> QED BY <1>1, <1>2, <3>1, <3>2, <3>4 DEF One
  <2>2. CASE SettledCb(p)
    <3>1. lifetime[p].event \in Requests
      BY <2>2, NamesAssumption DEF SettledCb, IInv, TypeOK, LifetimesPlaced
    <3>2. ev'[q].count = IF q = lifetime[p].event THEN ev[q].count - 1 ELSE ev[q].count
      BY <2>2, <3>1 DEF SettledCb, IInv, TypeOK, EventType
    <3>3. Counted(q)' = IF q = lifetime[p].event THEN Counted(q) \ {p} ELSE Counted(q)
      BY <2>2, <3>1 DEF SettledCb, Counted, IInv, TypeOK, EventType
    <3>4. q = lifetime[p].event => p \in Counted(q)
      BY <2>2 DEF SettledCb, Counted
    <3>5. q = lifetime[p].event => Cardinality(Counted(q) \ {p}) = Cardinality(Counted(q)) - 1
      BY <1>1, <3>4, FS_RemoveElement
    <3> QED BY <1>1, <1>2, <3>2, <3>3, <3>5 DEF One
  <2>3. CASE SettleLifetime(p) \/ HolderCollected(p)
    <3>1. Counted(q)' = Counted(q) /\ ev'[q].count = ev[q].count
      <4>1. PICK s \in {"settled", "collected"} :
              lifetime[p].state = "pending" /\ lifetime' = [lifetime EXCEPT ![p].state = s]
        BY <2>3 DEF SettleLifetime, HolderCollected
      <4>2. UNCHANGED ev
        BY <2>3 DEF SettleLifetime, HolderCollected
      <4> QED BY <4>1, <4>2 DEF Counted, IInv, TypeOK
    <3> QED BY <1>2, <3>1
  <2> QED BY <2>1, <2>2, <2>3
<1> QED BY <1>3, <1>4, <1>5 DEF CountsMatchPromises

\* No other action counts.
LEMMA CountsStep == IInv /\ Next => CountsMatchPromises'
<1> SUFFICES ASSUME IInv, Next
             PROVE  CountsMatchPromises'
  OBVIOUS
<1>1. ASSUME NEW r \in Requests,
             \/ RespondWith(r) \/ SettleRespond(r) \/ OnRespondFulfilled(r)
             \/ OnRespondRejected(r) \/ AbortSignalled(r)
      PROVE  CountsMatchPromises'
  BY <1>1, RespondCounted
<1>2. ASSUME NEW p \in Promises,
             \/ \E l, r \in Requests : WaitUntil(l, r, p)
             \/ SettledCb(p) \/ HolderCollected(p) \/ SettleLifetime(p)
      PROVE  CountsMatchPromises'
  BY <1>2, LifetimeStep
<1>3. ASSUME NEW r \in Requests, HandledSettled(r)
      PROVE  CountsMatchPromises'
  <2>1. \A q \in Requests : Holding(q)' = Holding(q) /\ Counted(q)' = Counted(q)
    BY <1>3, SamePromises DEF HandledSettled
  <2>2. \A q \in Requests : ev'[q].count = ev[q].count /\ ev'[q].holds = ev[q].holds
    BY <1>3 DEF IInv, TypeOK, EventType, HandledSettled
  <2> QED BY <1>3, <2>1, <2>2 DEF IInv, CountsMatchPromises, HandledSettled
<1>4. ASSUME UNCHANGED events
      PROVE  CountsMatchPromises'
  BY <1>4 DEF IInv, CountsMatchPromises, Holding, Counted, Outstanding, events
<1> QED
  BY <1>1, <1>2, <1>3, <1>4
  DEF Next, Reactions, Program, StretchEnds, Transport, ReadBody, EditHeaders,
      DispatchFails, Dispatch, DispatchReturns, Responds, TimesOut, BodyTaken, TurnBegins,
      TurnEnds, SendEnds, SendAborted, DrainEnds, DrainTimesOut

-----------------------------------------------------------------------------
\* What the actions of dispatch_fetch and finish_request are made of.
DispatchActions(r) ==
    \/ DispatchFails(r) \/ Dispatch(r) \/ DispatchReturns(r) \/ Responds(r) \/ TimesOut(r)
    \/ BodyTaken(r) \/ TurnBegins(r) \/ TurnEnds(r) \/ SendEnds(r) \/ SendAborted(r)
    \/ DrainEnds(r) \/ DrainTimesOut(r)

\* They leave the events and the responses alone.
LEMMA DispatchFrame ==
    ASSUME NEW r \in Requests, DispatchActions(r)
    PROVE  UNCHANGED <<events, responses>>
BY DEF DispatchActions, DispatchFails, Dispatch, DispatchReturns, Responds, TimesOut, BodyTaken,
       TurnBegins, TurnEnds, SendEnds, SendAborted, DrainEnds, DrainTimesOut

\* A step is one of these.
LEMMA NextActions ==
    ASSUME Next
    PROVE  \/ \E r \in Requests : \/ DispatchActions(r) \/ AbortSignalled(r) \/ HandledSettled(r)
                                  \/ OnRespondFulfilled(r) \/ OnRespondRejected(r)
                                  \/ RespondWith(r) \/ SettleRespond(r)
           \/ \E p \in Promises : \/ \E l, r \in Requests : WaitUntil(l, r, p)
                                  \/ SettledCb(p) \/ SettleLifetime(p) \/ HolderCollected(p)
           \/ \E x \in Responses : ReadBody(x) \/ EditHeaders(x)
BY DEF Next, Reactions, Program, StretchEnds, Transport, DispatchActions

\* Promises have a place from the moment they are passed to waitUntil.
LEMMA PlacedStep == IInv /\ Next => LifetimesPlaced'
<1> SUFFICES ASSUME IInv, Next
             PROVE  LifetimesPlaced'
  OBVIOUS
<1>1. CASE UNCHANGED lifetime
  BY <1>1 DEF IInv, LifetimesPlaced
<1>2. ASSUME NEW p \in Promises, NEW l \in Requests, NEW r \in Requests, WaitUntil(l, r, p)
      PROVE  LifetimesPlaced'
  BY <1>2, NamesAssumption DEF IInv, TypeOK, EventType, LifetimesPlaced, WaitUntil
<1>3. ASSUME NEW p \in Promises, SettledCb(p) \/ SettleLifetime(p) \/ HolderCollected(p)
      PROVE  LifetimesPlaced'
  <2>1. PICK s \in {"settled", "done", "collected"} : lifetime' = [lifetime EXCEPT ![p].state = s]
    BY <1>3 DEF SettledCb, SettleLifetime, HolderCollected
  <2>2. lifetime[p].state # "unused"
    BY <1>3 DEF SettledCb, SettleLifetime, HolderCollected
  <2> QED BY <2>1, <2>2 DEF IInv, TypeOK, EventType, LifetimesPlaced
<1> QED
  BY <1>1, <1>2, <1>3, NextActions, DispatchFrame
  DEF events, AbortSignalled, HandledSettled, OnRespondFulfilled, OnRespondRejected,
      RespondWith, SettleRespond, ReadBody, EditHeaders

\* The actions that JavaScript and its reactions take, in some loop's turn.
ScriptActions ==
    \/ \E r \in Requests : \/ RespondWith(r) \/ SettleRespond(r)
                         \/ OnRespondFulfilled(r) \/ OnRespondRejected(r)
    \/ \E l, r \in Requests, p \in Promises : WaitUntil(l, r, p)
    \/ \E p \in Promises : SettledCb(p) \/ SettleLifetime(p) \/ HolderCollected(p)
    \/ \E x \in Responses : ReadBody(x) \/ EditHeaders(x)

LEMMA ScriptFrame ==
    ASSUME ScriptActions
    PROVE  active # NoLoop /\ UNCHANGED <<active, handling>>
BY NamesAssumption
   DEF ScriptActions, RespondWith, SettleRespond, OnRespondFulfilled, OnRespondRejected, WaitUntil,
       SettledCb, SettleLifetime, HolderCollected, ReadBody, EditHeaders

\* Between turns no reaction is queued: a stretch of JavaScript ends with its microtasks.
LEMMA DrainedStep == IInv /\ Next => TurnsDrained'
<1> SUFFICES ASSUME IInv, Next
             PROVE  TurnsDrained'
  OBVIOUS
<1>1. CASE ScriptActions
  BY <1>1, ScriptFrame DEF IInv, TurnsDrained, handling
<1>2. ASSUME NEW r \in Requests, AbortSignalled(r) \/ HandledSettled(r)
      PROVE  TurnsDrained'
  <2>1. phase' = [phase EXCEPT ![r] = phase'[r]] /\ phase'[r] \in {"settle", "body", "drain"}
    BY <1>2 DEF IInv, TypeOK, EventType, AbortSignalled, HandledSettled, Decide, Handled, To
  <2>2. JobsQueued' = JobsQueued
    BY <1>2 DEF AbortSignalled, HandledSettled, JobsQueued
  <2> QED BY <1>2, <2>1, <2>2 DEF IInv, TypeOK, EventType, TurnsDrained, AbortSignalled,
                                  HandledSettled
<1>3. ASSUME NEW r \in Requests, DispatchActions(r)
      PROVE  TurnsDrained'
  <2>1. JobsQueued' = JobsQueued
    BY <1>3, DispatchFrame DEF events, JobsQueued
  <2>2. (active = r /\ ~JobsQueued) \/ active = NoLoop
    BY <1>3 DEF DispatchActions, DispatchFails, Dispatch, DispatchReturns, Responds,
        TimesOut, BodyTaken, TurnBegins, TurnEnds, SendEnds, SendAborted, DrainEnds, DrainTimesOut
  <2>3. CASE DispatchFails(r) \/ Dispatch(r) \/ Responds(r) \/ TimesOut(r) \/ TurnBegins(r)
    BY <2>1, <2>2, <2>3 DEF IInv, TypeOK, EventType, TurnsDrained, DispatchFails, Dispatch, Responds,
       TimesOut, TurnBegins, To, Decide, Handled, Driven, handling
  <2>4. CASE SendEnds(r) \/ DrainEnds(r) \/ DrainTimesOut(r)
    BY <2>1, <2>2, <2>4 DEF IInv, TypeOK, EventType, TurnsDrained, SendEnds, DrainEnds,
                            DrainTimesOut, To
  <2>5. CASE DispatchReturns(r) \/ BodyTaken(r) \/ TurnEnds(r) \/ SendAborted(r)
    BY <2>1, <2>2, <2>5, NamesAssumption
    DEF IInv, TypeOK, EventType, TurnsDrained, DispatchReturns, BodyTaken, TurnEnds, SendAborted
  <2> QED BY <1>3, <2>3, <2>4, <2>5 DEF DispatchActions
<1> QED BY <1>1, <1>2, <1>3, NextActions DEF ScriptActions

\* respondWith is answered once, by the end of the dispatch or the wait.
LEMMA RespondsStep == IInv /\ Next => RespondsOnce'
<1> SUFFICES ASSUME IInv, Next
             PROVE  RespondsOnce'
  OBVIOUS
<1>1. ASSUME NEW r \in Requests, DispatchActions(r)
      PROVE  RespondsOnce'
  <2>1. UNCHANGED <<ev, respond, given, sent>>
    BY <1>1, DispatchFrame
    DEF events, handling, DispatchActions, DispatchFails, Dispatch, DispatchReturns, Responds,
        TimesOut, BodyTaken, TurnBegins, TurnEnds, SendEnds, SendAborted, DrainEnds, DrainTimesOut
  <2>2. \A q \in Requests : phase'[q] \in {"new", "body"} => phase'[q] = phase[q]
    BY <1>1
    DEF IInv, TypeOK, EventType, handling, DispatchActions, DispatchFails, Dispatch,
        DispatchReturns, Responds,
        TimesOut, BodyTaken, TurnBegins, TurnEnds, SendEnds, SendAborted, DrainEnds,
        DrainTimesOut, To, Decide, Handled
  <2>3. CASE UNCHANGED answer
    BY <2>1, <2>2, <2>3 DEF IInv, RespondsOnce
  <2>4. CASE DispatchFails(r)
    BY <2>1, <2>2, <2>4 DEF IInv, TypeOK, EventType, RespondsOnce, TurnsDrained, DispatchFails
  <2>5. CASE Responds(r)
    BY <2>1, <2>2, <2>5 DEF IInv, TypeOK, EventType, RespondsOnce, Responds, Decide, Handled
  <2> QED
    BY <1>1, <2>3, <2>4, <2>5
    DEF handling, DispatchActions, Dispatch, DispatchReturns, TimesOut, BodyTaken, TurnBegins,
        TurnEnds, SendEnds, SendAborted, DrainEnds, DrainTimesOut
<1>2. ASSUME NEW r \in Requests, AbortSignalled(r)
      PROVE  RespondsOnce'
  BY <1>2 DEF IInv, TypeOK, EventType, RespondsOnce, AbortSignalled, AbandonRespond, Decide, Handled, To
<1>3. ASSUME NEW r \in Requests, HandledSettled(r)
      PROVE  RespondsOnce'
  <2>1. CASE answer[r] = "response"
    <3>1. /\ UNCHANGED <<respond, given, answer>>
          /\ phase' = [phase EXCEPT ![r] = "body"]
          /\ ev' = [ev EXCEPT ![r].headers = NoHeaders]
          /\ \A q \in Requests \ {r} : sent'[q] = sent[q]
      BY <1>3, <2>1 DEF HandledSettled, To, IInv, TypeOK, EventType
    <3> QED BY <2>1, <3>1 DEF IInv, TypeOK, EventType, RespondsOnce
  <2>2. CASE answer[r] = "error"
    <3>1. UNCHANGED <<respond, given, answer, ev, sent>> /\ phase' = [phase EXCEPT ![r] = "drain"]
      BY <1>3, <2>2 DEF HandledSettled, To
    <3> QED BY <3>1 DEF IInv, TypeOK, EventType, RespondsOnce
  <2> QED BY <1>3, <2>1, <2>2 DEF HandledSettled
<1>4. ASSUME NEW r \in Requests, RespondWith(r)
      PROVE  RespondsOnce'
  BY <1>4 DEF IInv, TypeOK, EventType, RespondsOnce, RespondWith, Dispatching, handling
<1>5. ASSUME NEW r \in Requests, SettleRespond(r)
      PROVE  RespondsOnce'
  BY <1>5, NamesAssumption DEF IInv, TypeOK, EventType, RespondsOnce, SettleRespond, handling
<1>6. ASSUME NEW r \in Requests, OnRespondFulfilled(r)
      PROVE  RespondsOnce'
  <2>1. UNCHANGED <<handling, given>> /\ given[r] \in Responses
    BY <1>6 DEF IInv, TypeOK, EventType, RespondsOnce, OnRespondFulfilled
  <2>2. CASE body[given[r]] = "used"
    <3>1. RespondDone(r, [ev[r] EXCEPT !.error = TRUE])
      BY <1>6, <2>2 DEF OnRespondFulfilled
    <3>2. /\ respond' = [respond EXCEPT ![r] = "done"]
          /\ \A q \in Requests \ {r} : ev'[q] = ev[q]
          /\ ev'[r].holds = FALSE /\ ev'[r].entered = ev[r].entered
          /\ ev'[r].potential = ev[r].potential
      BY <3>1, RejectedDone DEF IInv
    <3>3. /\ respond'[r] = "done" /\ \A q \in Requests \ {r} : respond'[q] = respond[q]
          /\ \A q \in Requests : ev'[q].entered = ev[q].entered /\ ev'[q].potential = ev[q].potential
          /\ \A q \in Requests \ {r} : ev'[q].holds = ev[q].holds
      BY <3>2 DEF IInv, TypeOK
    <3>4. UNCHANGED <<phase, answer, sent, given>>
      BY <2>1 DEF handling
    <3>5. \A q \in Requests : respond'[q] \in {respond[q], "done"} /\ (respond[q] = "done" => respond'[q] = "done")
      BY <3>3
    <3> QED
      BY <1>6, <3>2, <3>3, <3>4, <3>5 DEF IInv, RespondsOnce, OnRespondFulfilled
  <2>3. CASE body[given[r]] # "used"
    <3>1. RespondDone(r, [ev[r] EXCEPT !.headers = edits[given[r]], !.potential = given[r]])
      BY <1>6, <2>3 DEF OnRespondFulfilled
    <3>2. respond[r] = "fulfilled"
      BY <1>6 DEF OnRespondFulfilled
    <3> QED
      BY <2>1, <3>1, <3>2, NamesAssumption DEF IInv, TypeOK, EventType, RespondsOnce, RespondDone,
                                               handling
  <2> QED BY <2>2, <2>3
<1>7. ASSUME NEW r \in Requests, OnRespondRejected(r)
      PROVE  RespondsOnce'
  BY <1>7 DEF IInv, TypeOK, EventType, RespondsOnce, OnRespondRejected, RespondDone, handling
<1>8. ASSUME UNCHANGED <<handling, respond, given>>,
             \A q \in Requests : /\ ev'[q].entered = ev[q].entered /\ ev'[q].holds = ev[q].holds
                                 /\ ev'[q].potential = ev[q].potential
      PROVE  RespondsOnce'
  BY <1>8 DEF IInv, RespondsOnce, handling
<1>9. ASSUME NEW l \in Requests, NEW r \in Requests, NEW p \in Promises, WaitUntil(l, r, p)
      PROVE  RespondsOnce'
  BY <1>8, <1>9 DEF IInv, TypeOK, EventType, WaitUntil
<1>10. ASSUME NEW p \in Promises, SettledCb(p) \/ SettleLifetime(p) \/ HolderCollected(p)
       PROVE  RespondsOnce'
  <2>1. CASE SettledCb(p)
    BY <1>8, <2>1 DEF IInv, TypeOK, EventType, SettledCb
  <2>2. CASE SettleLifetime(p) \/ HolderCollected(p)
    BY <1>8, <2>2 DEF SettleLifetime, HolderCollected
  <2> QED BY <1>10, <2>1, <2>2
<1>11. ASSUME NEW x \in Responses, ReadBody(x) \/ EditHeaders(x)
       PROVE  RespondsOnce'
  BY <1>8, <1>11 DEF IInv, TypeOK, EventType, ReadBody, EditHeaders, events
<1> QED
  BY <1>1, <1>2, <1>3, <1>4, <1>5, <1>6, <1>7, <1>9, <1>10, <1>11, NextActions

\* The headers are set once, as the reaction to the promise runs, and taken once, when no
\* reaction is queued.
LEMMA HeadersStep == IInv /\ Next => HeadersKept'
<1> SUFFICES ASSUME IInv, Next, NEW q \in Requests
             PROVE  KeptOf(q)'
  BY DEF HeadersKept
<1>1. /\ KeptOf(q) /\ given[q] \in Responses \cup {NoResponse}
      /\ settledAs[q] \in 0..MaxEdits \cup {NoHeaders}
      /\ drainedAs[q] \in 0..MaxEdits \cup {NoHeaders}
      /\ sent[q] \in 0..MaxEdits \cup {NoHeaders}
      /\ ev[q].headers \in 0..MaxEdits \cup {NoHeaders}
      /\ \A x \in Responses : edits[x] \in 0..MaxEdits
      /\ respond[q] \in {"unused", "pending", "fulfilled", "rejected", "done"}
  BY DEF IInv, HeadersKept, TypeOK, EventType
<1>2. \/ drainedAs'[q] = drainedAs[q]
      \/ /\ drainedAs[q] = NoHeaders /\ given[q] # NoResponse /\ respond[q] = "done"
         /\ drainedAs'[q] = edits[given[q]]
  <2>1. drainedAs'[q] = IF drainedAs[q] = NoHeaders /\ given[q] # NoResponse /\ ~JobsQueued
                        THEN edits[given[q]] ELSE drainedAs[q]
    BY DEF Next, NoteHeaders
  <2>2. ~JobsQueued => respond[q] \notin {"fulfilled", "rejected"}
    BY DEF JobsQueued
  <2> QED BY <1>1, <2>1, <2>2 DEF KeptOf
<1>3. ASSUME /\ given'[q] = given[q] /\ settledAs'[q] = settledAs[q] /\ respond'[q] = respond[q]
             /\ sent'[q] = sent[q] /\ ev'[q].headers = ev[q].headers
             /\ ev'[q].potential = ev[q].potential,
             \A x \in Responses : edits'[x] \in Nat /\ edits[x] <= edits'[x]
      PROVE  KeptOf(q)'
  <2>1. CASE given[q] = NoResponse
    BY <1>1, <1>2, <1>3, <2>1 DEF KeptOf, NoHeaders
  <2>2. CASE given[q] \in Responses
    <3>1. /\ edits[given[q]] \in Nat /\ edits'[given[q]] \in Nat
          /\ edits[given[q]] <= edits'[given[q]]
      BY <1>1, <1>3, <2>2
    <3> QED BY <1>1, <1>2, <1>3, <2>2, <3>1 DEF KeptOf, FromCheckpoint, NoHeaders
  <2> QED BY <1>1, <2>1, <2>2
<1>4. \A x \in Responses : edits[x] \in Nat /\ edits[x] <= edits[x]
  BY <1>1
<1>5. ASSUME NEW r \in Requests, OnRespondFulfilled(r)
      PROVE  KeptOf(q)'
  <2>1. UNCHANGED <<given, settledAs, sent, edits>>
    BY <1>5 DEF OnRespondFulfilled, handling
  <2>2. \/ RespondDone(r, [ev[r] EXCEPT !.error = TRUE])
        \/ RespondDone(r, [ev[r] EXCEPT !.headers = edits[given[r]], !.potential = given[r]])
    BY <1>5 DEF OnRespondFulfilled
  <2>3. given[r] \in Responses
    BY <1>5 DEF IInv, TypeOK, RespondsOnce, OnRespondFulfilled
  <2>4. /\ respond' = [respond EXCEPT ![r] = "done"] /\ \A p \in Requests \ {r} : ev'[p] = ev[p]
        /\ \/ ev'[r].headers = ev[r].headers /\ ev'[r].potential = ev[r].potential
           \/ ev'[r].headers = edits[given[r]] /\ ev'[r].potential = given[r]
    BY <2>2, <2>3, RejectedDone, KeptDone DEF IInv
  <2>5. CASE q # r
    BY <1>3, <1>4, <2>1, <2>4, <2>5 DEF IInv, TypeOK
  <2>6. CASE q = r
    <3>1. /\ respond[q] = "fulfilled" /\ respond'[q] = "done" /\ drainedAs'[q] = NoHeaders
          /\ drainedAs[q] = NoHeaders
      BY <1>1, <1>2, <1>5, <2>4, <2>6 DEF IInv, TypeOK, OnRespondFulfilled, KeptOf
    <3>2. edits[given[q]] \in Nat
      BY <1>1, <2>3, <2>6
    <3> QED BY <1>1, <2>1, <2>3, <2>4, <2>6, <3>1, <3>2, NamesAssumption
            DEF KeptOf, FromCheckpoint, NoHeaders
  <2> QED BY <2>5, <2>6
<1>6. ASSUME NEW r \in Requests, SettleRespond(r)
      PROVE  KeptOf(q)'
  <2>1. /\ UNCHANGED <<sent, edits, ev>> /\ respond[r] = "pending"
        /\ \A p \in Requests \ {r} : /\ given'[p] = given[p] /\ settledAs'[p] = settledAs[p]
                                      /\ respond'[p] = respond[p]
    BY <1>6 DEF SettleRespond, handling, responses, IInv, TypeOK
  <2>2. CASE q # r
    BY <1>3, <1>4, <2>1, <2>2
  <2>3. CASE q = r
    <3>1. given[q] = NoResponse /\ drainedAs[q] = NoHeaders /\ drainedAs'[q] = NoHeaders
      BY <1>1, <1>2, <2>1, <2>3 DEF KeptOf
    <3>2. \/ respond'[q] = "rejected" /\ given'[q] = NoResponse
          \/ \E x \in Responses : /\ given'[q] = x /\ settledAs'[q] = edits[x]
                                   /\ respond'[q] = "fulfilled"
      BY <1>6, <2>3, <3>1 DEF SettleRespond, IInv, TypeOK
    <3> QED BY <1>1, <2>1, <2>3, <3>1, <3>2 DEF KeptOf, FromCheckpoint, NoHeaders
  <2> QED BY <2>2, <2>3
<1>7. ASSUME NEW r \in Requests, HandledSettled(r)
      PROVE  KeptOf(q)'
  <2>1. UNCHANGED <<given, settledAs, respond, edits>> /\ ~JobsQueued
    BY <1>7 DEF HandledSettled
  <2>2. CASE answer[r] = "error" \/ q # r
    BY <1>3, <1>4, <1>7, <2>1, <2>2 DEF HandledSettled, IInv, TypeOK, EventType
  <2>3. CASE answer[r] = "response" /\ q = r
    <3>1. /\ sent'[q] = ev[q].headers /\ ev'[q].headers = NoHeaders
          /\ ev'[q].potential = ev[q].potential /\ ev[q].potential # NoResponse
      BY <1>7, <2>3 DEF HandledSettled, HeadersToSend, IInv, TypeOK, EventType, RespondsOnce
    <3>2. given[q] \in Responses /\ edits[given[q]] \in 0..MaxEdits
      BY <1>1, <3>1 DEF KeptOf
    <3>3. drainedAs'[q] # NoHeaders
      <4>1. drainedAs'[q] = IF drainedAs[q] = NoHeaders THEN edits[given[q]] ELSE drainedAs[q]
        BY <2>1, <3>2, NamesAssumption DEF Next, NoteHeaders
      <4> QED BY <3>2, <4>1 DEF NoHeaders
    <3> QED BY <1>1, <1>2, <2>1, <2>3, <3>1, <3>2, <3>3 DEF KeptOf, FromCheckpoint, NoHeaders
  <2> QED BY <1>7, <2>2, <2>3 DEF HandledSettled
<1>8. ASSUME NEW r \in Requests, OnRespondRejected(r) \/ RespondWith(r)
      PROVE  KeptOf(q)'
  <2>1. /\ UNCHANGED <<given, settledAs, sent, edits>> /\ respond[r] \in {"rejected", "unused"}
        /\ \A p \in Requests \ {r} : respond'[p] = respond[p]
    BY <1>8 DEF OnRespondRejected, RespondWith, RespondDone, handling, responses, IInv, TypeOK,
                RespondsOnce
  <2>2. \A p \in Requests : ev'[p].headers = ev[p].headers /\ ev'[p].potential = ev[p].potential
    <3>1. CASE OnRespondRejected(r)
      BY <3>1, RejectedDone DEF IInv, OnRespondRejected
    <3>2. CASE RespondWith(r)
      BY <3>2 DEF RespondWith, IInv, TypeOK, EventType
    <3> QED BY <1>8, <3>1, <3>2
  <2>3. CASE q # r
    BY <1>3, <1>4, <2>1, <2>2, <2>3
  <2>4. CASE q = r
    BY <1>1, <1>2, <2>1, <2>2, <2>4 DEF KeptOf, FromCheckpoint, NoHeaders
  <2> QED BY <2>3, <2>4
<1>9. ASSUME NEW r \in Requests, AbortSignalled(r)
      PROVE  KeptOf(q)'
  BY <1>3, <1>4, <1>9 DEF AbortSignalled, AbandonRespond, responses, IInv, TypeOK, EventType
<1>10. ASSUME NEW l \in Requests, NEW r \in Requests, NEW p \in Promises, WaitUntil(l, r, p)
       PROVE  KeptOf(q)'
  BY <1>3, <1>4, <1>10 DEF IInv, TypeOK, EventType, WaitUntil, handling, responses
<1>11. ASSUME NEW p \in Promises, SettledCb(p) \/ SettleLifetime(p) \/ HolderCollected(p)
       PROVE  KeptOf(q)'
  <2>1. CASE SettledCb(p)
    BY <1>3, <1>4, <2>1 DEF IInv, TypeOK, EventType, SettledCb, handling, responses
  <2>2. CASE SettleLifetime(p) \/ HolderCollected(p)
    BY <1>3, <1>4, <2>2 DEF SettleLifetime, HolderCollected, handling, responses
  <2> QED BY <1>11, <2>1, <2>2
<1>12. ASSUME NEW r \in Requests, DispatchActions(r)
       PROVE  KeptOf(q)'
  <2>1. UNCHANGED sent
    BY <1>12
    DEF handling, DispatchActions, DispatchFails, Dispatch, DispatchReturns, Responds, TimesOut,
        BodyTaken, TurnBegins, TurnEnds, SendEnds, SendAborted, DrainEnds, DrainTimesOut
  <2> QED BY <1>3, <1>4, <1>12, <2>1, DispatchFrame DEF events, responses
<1>13. ASSUME NEW x \in Responses, ReadBody(x) \/ EditHeaders(x)
       PROVE  KeptOf(q)'
  <2>1. \A y \in Responses : edits'[y] \in Nat /\ edits[y] <= edits'[y]
    BY <1>1, <1>13 DEF ReadBody, EditHeaders, IInv, TypeOK
  <2> QED BY <1>3, <1>13, <2>1 DEF ReadBody, EditHeaders, events, handling
<1> QED BY <1>5, <1>6, <1>7, <1>8, <1>9, <1>10, <1>11, <1>12, <1>13, NextActions

\* A request ends once its loop holds no interest, or at the limit of its drain.
LEMMA WaitUntilStep == IInv /\ Next => WaitUntilHolds'
<1> SUFFICES ASSUME IInv, Next, NEW p \in Promises,
                    Outstanding(p)', lifetime'[p].loop \notin DrainLimit
             PROVE  phase'[lifetime'[p].loop] # "over"
  BY DEF WaitUntilHolds
<1>1. ASSUME NEW r \in Requests, DispatchActions(r)
      PROVE  phase'[lifetime'[p].loop] # "over"
  <2>1. UNCHANGED lifetime
    BY <1>1, DispatchFrame DEF events
  <2>2. lifetime[p].loop \in Requests /\ phase[lifetime[p].loop] # "over"
    BY <2>1, NamesAssumption DEF IInv, TypeOK, LifetimesPlaced, WaitUntilHolds, Outstanding
  <2>3. CASE DrainEnds(r)
    <3>1. Cardinality(Holding(r)) = 0
      <4>1. interest[r] = 0 /\ interest[r] = Cardinality(Holding(r)) + One(ev[r].holds)
        BY <2>3 DEF DrainEnds, IInv, CountsMatchPromises
      <4>2. Cardinality(Holding(r)) \in Nat
        BY PromisesFinite DEF Holding
      <4> QED BY <4>1, <4>2 DEF One
    <3>2. Holding(r) = {}
      BY <3>1, PromisesFinite, FS_EmptySet DEF Holding
    <3>3. lifetime[p].loop # r
      BY <2>1, <3>2 DEF Holding, Outstanding
    <3> QED BY <2>1, <2>2, <2>3, <3>3 DEF DrainEnds, To, IInv, TypeOK
  <2>4. CASE DrainTimesOut(r)
    BY <2>1, <2>2, <2>4 DEF DrainTimesOut, To, IInv, TypeOK
  <2>5. CASE ~DrainEnds(r) /\ ~DrainTimesOut(r)
    <3>1. \A q \in Requests : phase'[q] = "over" => phase[q] = "over"
      BY <1>1, <2>5
      DEF IInv, TypeOK, handling, DispatchActions, DispatchFails, Dispatch, DispatchReturns,
          Responds, TimesOut, BodyTaken, TurnBegins, TurnEnds, SendEnds, SendAborted, To, Decide, Handled
    <3> QED BY <2>1, <2>2, <3>1
  <2> QED BY <2>3, <2>4, <2>5
<1>2. ASSUME NEW l \in Requests, NEW r \in Requests, NEW q \in Promises, WaitUntil(l, r, q)
      PROVE  phase'[lifetime'[p].loop] # "over"
  <2>1. UNCHANGED phase /\ phase[l] # "over"
    BY <1>2, NamesAssumption DEF WaitUntil, handling, IInv, TurnsDrained
  <2>2. CASE p = q
    BY <1>2, <2>1, <2>2 DEF WaitUntil, IInv, TypeOK
  <2>3. CASE p # q
    BY <1>2, <2>1, <2>3 DEF WaitUntil, IInv, TypeOK, WaitUntilHolds, Outstanding
  <2> QED BY <2>2, <2>3
<1>3. ASSUME NEW q \in Promises, SettledCb(q) \/ SettleLifetime(q) \/ HolderCollected(q)
      PROVE  phase'[lifetime'[p].loop] # "over"
  <2>1. UNCHANGED phase
    BY <1>3 DEF SettledCb, SettleLifetime, HolderCollected, handling
  <2>2. Outstanding(p) /\ lifetime'[p].loop = lifetime[p].loop
    BY <1>3 DEF SettledCb, SettleLifetime, HolderCollected, Outstanding, IInv, TypeOK
  <2> QED BY <2>1, <2>2 DEF IInv, WaitUntilHolds
<1>4. ASSUME NEW r \in Requests, AbortSignalled(r) \/ HandledSettled(r)
      PROVE  phase'[lifetime'[p].loop] # "over"
  <2>1. UNCHANGED lifetime /\ \A q \in Requests : phase'[q] = "over" => phase[q] = "over"
    BY <1>4 DEF AbortSignalled, HandledSettled, To, Decide, Handled, IInv, TypeOK
  <2>2. lifetime[p].loop \in Requests /\ phase[lifetime[p].loop] # "over"
    BY <2>1, NamesAssumption DEF IInv, TypeOK, LifetimesPlaced, WaitUntilHolds, Outstanding
  <2> QED BY <2>1, <2>2
<1>5. CASE UNCHANGED <<phase, lifetime>>
  BY <1>5 DEF IInv, WaitUntilHolds, Outstanding
<1>6. ASSUME NEW r \in Requests,
             \/ OnRespondFulfilled(r) \/ OnRespondRejected(r) \/ RespondWith(r) \/ SettleRespond(r)
      PROVE  UNCHANGED <<phase, lifetime>>
  BY <1>6 DEF OnRespondFulfilled, OnRespondRejected, RespondWith, SettleRespond, handling
<1>7. ASSUME NEW x \in Responses, ReadBody(x) \/ EditHeaders(x)
      PROVE  UNCHANGED <<phase, lifetime>>
  BY <1>7 DEF ReadBody, EditHeaders, handling, events
<1> QED BY <1>1, <1>2, <1>3, <1>4, <1>5, <1>6, <1>7, NextActions

\* A body is reserved for the request whose event keeps its Response, or it is read, or
\* neither yet; what is used does not become unused.
LEMMA TakerStep == IInv /\ Next => OneTaker'
<1> SUFFICES ASSUME IInv, Next
             PROVE  OneTaker'
  OBVIOUS
<1>1. ASSUME UNCHANGED <<body, readers>>,
             \A q \in Requests : ev'[q].potential = ev[q].potential
      PROVE  OneTaker'
  BY <1>1 DEF IInv, OneTaker, TakerOf
<1>2. ASSUME NEW x \in Responses, ReadBody(x)
      PROVE  OneTaker'
  <2>1. /\ UNCHANGED ev /\ body[x] = "fresh"
        /\ body' = [body EXCEPT ![x] = "used"] /\ readers' = [readers EXCEPT ![x] = @ \cup {Author}]
    BY <1>2 DEF ReadBody, events
  <2>2. ASSUME NEW y \in Responses
        PROVE  TakerOf(y)'
    <3>1. TakerOf(y)
      BY DEF IInv, OneTaker
    <3>2. CASE y # x
      BY <2>1, <3>1, <3>2 DEF IInv, TypeOK, TakerOf
    <3>3. CASE y = x
      BY <2>1, <3>1, <3>3, NamesAssumption DEF IInv, TypeOK, TakerOf
    <3> QED BY <3>2, <3>3
  <2> QED BY <2>2 DEF OneTaker
<1>3. ASSUME NEW r \in Requests, HandledSettled(r), answer[r] = "response"
      PROVE  OneTaker'
  <2>1. ev[r].potential \in Responses
    BY <1>3 DEF IInv, TypeOK, EventType, RespondsOnce
  <2>2. /\ UNCHANGED body
        /\ readers' = [readers EXCEPT ![ev[r].potential] = @ \cup {r}]
        /\ ev' = [ev EXCEPT ![r].headers = NoHeaders]
    BY <1>3 DEF HandledSettled
  <2>3. \A q \in Requests : ev'[q].potential = ev[q].potential
    BY <2>2 DEF IInv, TypeOK, EventType
  <2>4. ASSUME NEW y \in Responses
        PROVE  TakerOf(y)'
    <3>1. TakerOf(y) /\ (ev[r].potential = y => body[y] # "fresh")
      BY DEF IInv, OneTaker, TakerOf
    <3>2. CASE y # ev[r].potential
      BY <2>1, <2>2, <2>3, <3>1, <3>2 DEF IInv, TypeOK, TakerOf
    <3>3. CASE y = ev[r].potential
      BY <2>1, <2>2, <2>3, <3>1, <3>3, NamesAssumption DEF IInv, TypeOK, TakerOf
    <3> QED BY <3>2, <3>3
  <2> QED BY <2>4 DEF OneTaker
<1>4. ASSUME NEW r \in Requests, OnRespondFulfilled(r), body[given[r]] # "used"
      PROVE  OneTaker'
  <2>1. given[r] \in Responses /\ ev[r].potential = NoResponse /\ UNCHANGED readers
    BY <1>4 DEF IInv, TypeOK, RespondsOnce, OnRespondFulfilled
  <2>2. ReserveBodyForSending(given[r])
        /\ RespondDone(r, [ev[r] EXCEPT !.headers = edits[given[r]], !.potential = given[r]])
    BY <1>4 DEF OnRespondFulfilled
  <2>3. ev'[r].potential = given[r] /\ \A q \in Requests \ {r} : ev'[q] = ev[q]
    BY <2>1, <2>2, KeptDone DEF IInv
  <2>4. given[r] \notin NullBody => body[given[r]] = "fresh"
    BY <1>4, <2>1 DEF IInv, TypeOK, OneTaker, TakerOf
  <2>5. ASSUME NEW y \in Responses
        PROVE  TakerOf(y)'
    <3>1. TakerOf(y) /\ body' = [body EXCEPT ![given[r]] = IF @ = "null" THEN @ ELSE "used"]
      BY <2>2 DEF IInv, OneTaker, ReserveBodyForSending
    <3>2. CASE y # given[r]
      <4>1. \A q \in Requests : ev'[q].potential = y <=> ev[q].potential = y
        BY <2>1, <2>3, <3>2, NamesAssumption
      <4>2. body'[y] = body[y]
        BY <3>1, <3>2 DEF IInv, TypeOK
      <4> QED BY <2>1, <3>1, <4>1, <4>2 DEF TakerOf
    <3>3. CASE y = given[r] /\ y \in NullBody
      BY <2>1, <2>3, <3>1, <3>3 DEF IInv, TypeOK, TakerOf
    <3>4. CASE y = given[r] /\ y \notin NullBody
      BY <2>1, <2>3, <2>4, <3>1, <3>4 DEF IInv, TypeOK, TakerOf
    <3> QED BY <3>2, <3>3, <3>4
  <2> QED BY <2>5 DEF OneTaker
<1>5. ASSUME NEW r \in Requests,
             \/ OnRespondFulfilled(r) /\ body[given[r]] = "used"
             \/ OnRespondRejected(r)
      PROVE  OneTaker'
  <2>1. RespondDone(r, [ev[r] EXCEPT !.error = TRUE]) /\ UNCHANGED <<body, readers>>
    BY <1>5 DEF OnRespondFulfilled, OnRespondRejected, responses
  <2> QED BY <1>1, <2>1, RejectedDone DEF IInv
<1>6. ASSUME NEW r \in Requests,
             \/ AbortSignalled(r) \/ RespondWith(r) \/ SettleRespond(r)
             \/ HandledSettled(r) /\ answer[r] = "error"
      PROVE  OneTaker'
  <2>1. UNCHANGED <<body, readers>>
    BY <1>6 DEF AbortSignalled, RespondWith, SettleRespond, HandledSettled, responses
  <2>2. \A q \in Requests : ev'[q].potential = ev[q].potential
    <3>1. ev \in [Requests -> EventType]
      BY DEF IInv, TypeOK
    <3>2. CASE AbortSignalled(r)
      BY <3>1, <3>2 DEF EventType, AbortSignalled, AbandonRespond
    <3>3. CASE RespondWith(r)
      BY <3>1, <3>3 DEF EventType, RespondWith
    <3>4. CASE SettleRespond(r) \/ (HandledSettled(r) /\ answer[r] = "error")
      BY <3>4 DEF SettleRespond, HandledSettled
    <3> QED BY <1>6, <3>2, <3>3, <3>4
  <2> QED BY <1>1, <2>1, <2>2
<1>7. ASSUME NEW l \in Requests, NEW r \in Requests, NEW p \in Promises, WaitUntil(l, r, p)
      PROVE  OneTaker'
  BY <1>1, <1>7 DEF IInv, TypeOK, EventType, WaitUntil, responses
<1>8. ASSUME NEW p \in Promises, SettledCb(p) \/ SettleLifetime(p) \/ HolderCollected(p)
      PROVE  OneTaker'
  BY SMTT(30), <1>1, <1>8 DEF IInv, TypeOK, EventType, SettledCb, SettleLifetime, HolderCollected,
                              responses
<1>9. ASSUME NEW r \in Requests, DispatchActions(r)
      PROVE  OneTaker'
  BY <1>1, <1>9, DispatchFrame DEF events, responses
<1>10. ASSUME NEW x \in Responses, EditHeaders(x)
       PROVE  OneTaker'
  BY <1>1, <1>10 DEF EditHeaders, events
<1>11. ASSUME NEW r \in Requests, HandledSettled(r)
       PROVE  answer[r] \in {"response", "error"}
  BY <1>11 DEF HandledSettled
<1> QED
  BY <1>2, <1>3, <1>4, <1>5, <1>6, <1>7, <1>8, <1>9, <1>10, <1>11, NextActions

LEMMA EventCount ==
    ASSUME ev \in [Requests -> EventType], NEW r \in Requests, NEW n \in Nat
    PROVE  [ev EXCEPT ![r].count = n] \in [Requests -> EventType]
<1>1. [ev[r] EXCEPT !.count = n] \in EventType
  BY DEF EventType
<1> QED BY <1>1

\* The counters never underflow, because what they count is still there to be counted.
LEMMA TypeStep == IInv /\ Next => TypeOK'
<1> SUFFICES ASSUME IInv, Next
             PROVE  TypeOK'
  OBVIOUS
<1>0. drainedAs' \in [Requests -> 0..MaxEdits \cup {NoHeaders}]
  <2>1. \A r \in Requests : given[r] # NoResponse => edits[given[r]] \in 0..MaxEdits
    BY DEF IInv, TypeOK
  <2> QED BY <2>1 DEF IInv, TypeOK, Next, NoteHeaders
<1> USE <1>0
<1>1. \A r \in Requests : interest'[r] \in Nat /\ ev'[r].count \in Nat
  <2>1. CountsMatchPromises'
    BY CountsStep
  <2>2. \A r \in Requests : Cardinality(Holding(r))' \in Nat /\ Cardinality(Counted(r))' \in Nat
    BY PromisesFinite DEF Holding, Counted
  <2> QED BY <2>1, <2>2 DEF CountsMatchPromises, One
<1>2. ASSUME NEW r \in Requests, RespondWith(r)
      PROVE  TypeOK'
  BY SMTT(30), <1>2 DEF IInv, TypeOK, EventType, RespondWith, handling, responses
<1>3. ASSUME NEW r \in Requests, SettleRespond(r)
      PROVE  TypeOK'
  BY <1>3 DEF IInv, TypeOK, SettleRespond, handling, responses
<1>4. ASSUME NEW r \in Requests, NEW e \in EventType, RespondDone(r, e), e.count = ev[r].count,
             UNCHANGED <<active, handling, edits, readers, given, lifetime>>,
             body' \in [Responses -> {"null", "fresh", "used"}],
             UNCHANGED settledAs
      PROVE  TypeOK'
  <2>1. /\ interest'[r] \in Nat /\ ev'[r].count \in Nat
        /\ interest' = [q \in Requests |-> interest'[q]]
    BY <1>1, <1>4 DEF IInv, TypeOK, RespondDone
  <2>2. ev' \in [Requests -> EventType] /\ respond' = [respond EXCEPT ![r] = "done"]
    BY <1>4, <2>1, DoneWith DEF IInv
  <2> QED BY <1>1, <1>4, <2>1, <2>2 DEF IInv, TypeOK, handling
<1>5. ASSUME NEW r \in Requests, OnRespondFulfilled(r) \/ OnRespondRejected(r)
      PROVE  TypeOK'
  <2>1. CASE RespondDone(r, [ev[r] EXCEPT !.error = TRUE]) /\ UNCHANGED <<body, settledAs>>
    <3> DEFINE e == [ev[r] EXCEPT !.error = TRUE]
    <3>1. ev[r] \in EventType
      BY DEF IInv, TypeOK
    <3>2. e \in EventType /\ e.count = ev[r].count
      BY <3>1 DEF EventType
    <3>3. UNCHANGED <<active, handling, edits, readers, given, lifetime>>
      BY <1>5 DEF OnRespondFulfilled, OnRespondRejected, responses
    <3>4. RespondDone(r, e)
      BY <2>1
    <3> HIDE DEF e
    <3> QED BY <1>4, <2>1, <3>2, <3>3, <3>4 DEF IInv, TypeOK
  <2>2. CASE /\ OnRespondFulfilled(r) /\ ReserveBodyForSending(given[r])
             /\ RespondDone(r, [ev[r] EXCEPT !.headers = edits[given[r]], !.potential = given[r]])
             /\ UNCHANGED settledAs
    <3> DEFINE e == [ev[r] EXCEPT !.headers = edits[given[r]], !.potential = given[r]]
    <3>1. ev[r] \in EventType /\ given[r] \in Responses /\ edits[given[r]] \in 0..MaxEdits
      BY <2>2 DEF IInv, TypeOK, RespondsOnce, OnRespondFulfilled
    <3>2. e \in EventType /\ e.count = ev[r].count
      BY <3>1 DEF EventType
    <3>3. UNCHANGED <<active, handling, edits, readers, given, lifetime>>
      BY <2>2 DEF OnRespondFulfilled
    <3>4. body' \in [Responses -> {"null", "fresh", "used"}]
      BY <2>2, <3>1 DEF IInv, TypeOK, ReserveBodyForSending
    <3>5. RespondDone(r, e)
      BY <2>2
    <3> HIDE DEF e
    <3> QED BY <1>4, <2>2, <3>2, <3>3, <3>4, <3>5
  <2> QED BY <1>5, <2>1, <2>2 DEF OnRespondFulfilled, OnRespondRejected, responses
<1>6. ASSUME NEW r \in Requests, AbortSignalled(r)
      PROVE  TypeOK'
  <2>1. interest' \in [Requests -> Nat]
    BY <1>1, <1>6 DEF IInv, TypeOK, AbortSignalled, AbandonRespond
  <2>2. ev' \in [Requests -> EventType]
    <3>1. ev' = [ev EXCEPT ![r].holds = FALSE] /\ ev[r] \in EventType
      BY <1>6 DEF AbortSignalled, AbandonRespond, IInv, TypeOK
    <3> QED BY <3>1 DEF IInv, TypeOK, EventType
  <2>3. /\ phase' \in [Requests -> Phases]
        /\ answer' \in [Requests -> {"none", "response", "error"}]
    BY <1>6 DEF IInv, TypeOK, AbortSignalled, Decide, Handled, To, Phases
  <2> QED
    BY <1>6, <2>1, <2>2, <2>3 DEF IInv, TypeOK, AbortSignalled, responses
<1>7. ASSUME NEW r \in Requests, HandledSettled(r)
      PROVE  TypeOK'
  <2>1. CASE answer[r] = "response"
    <3>1. ev[r].potential \in Responses
      BY <2>1 DEF IInv, TypeOK, EventType, RespondsOnce
    <3>2. readers' \in [Responses -> SUBSET (Requests \cup {Author})]
      BY <1>7, <2>1, <3>1 DEF IInv, TypeOK, HandledSettled
    <3>3. sent' \in [Requests -> 0..MaxEdits \cup {NoHeaders}] /\ ev' \in [Requests -> EventType]
      <4>1. ev' = [ev EXCEPT ![r].headers = NoHeaders] /\ ev[r] \in EventType
        BY <1>7, <2>1 DEF HandledSettled, IInv, TypeOK
      <4>2. sent' = [sent EXCEPT ![r] = ev[r].headers]
        BY <1>7, <2>1 DEF HandledSettled, HeadersToSend
      <4> QED BY <4>1, <4>2 DEF IInv, TypeOK, EventType
    <3> QED BY <1>7, <2>1, <3>2, <3>3 DEF IInv, TypeOK, HandledSettled, To, Phases
  <2>2. CASE answer[r] = "error"
    BY <1>7, <2>2 DEF IInv, TypeOK, HandledSettled, To, Phases
  <2> QED BY <1>7, <2>1, <2>2 DEF HandledSettled
<1>8. ASSUME NEW l \in Requests, NEW r \in Requests, NEW p \in Promises, WaitUntil(l, r, p)
      PROVE  TypeOK'
  <2>1. ev' \in [Requests -> EventType]
    <3>1. ev' = [ev EXCEPT ![r].count = ev[r].count + 1] /\ ev[r].count + 1 \in Nat
      BY <1>8 DEF WaitUntil, IInv, TypeOK, EventType
    <3> QED BY <3>1, EventCount DEF IInv, TypeOK
  <2>2. /\ interest' \in [Requests -> Nat]
        /\ lifetime' \in [Promises -> [state : {"unused", "pending", "settled", "done", "collected"},
                                      event : Requests \cup {NoLoop}, loop : Requests \cup {NoLoop}]]
    BY <1>8 DEF IInv, TypeOK, WaitUntil
  <2> QED BY <1>8, <2>1, <2>2 DEF IInv, TypeOK, WaitUntil, handling, responses
<1>9. ASSUME NEW p \in Promises, SettledCb(p) \/ SettleLifetime(p) \/ HolderCollected(p)
      PROVE  TypeOK'
  <2>1. interest' = [q \in Requests |-> interest'[q]] /\ interest' \in [Requests -> Nat]
    BY <1>1, <1>9 DEF IInv, TypeOK, SettledCb, SettleLifetime, HolderCollected
  <2>2. ev' \in [Requests -> EventType]
    <3>1. CASE SettledCb(p)
      <4>1. PICK q \in Requests : lifetime[p].event = q
        BY <3>1, NamesAssumption DEF SettledCb, IInv, TypeOK, LifetimesPlaced
      <4>2. ev' = [ev EXCEPT ![q].count = ev[q].count - 1] /\ ev[q] \in EventType
        BY <3>1, <4>1 DEF SettledCb, IInv, TypeOK
      <4>3. ev'[q].count = ev[q].count - 1
        BY <4>2 DEF IInv, TypeOK, EventType
      <4> QED BY <1>1, <4>2, <4>3, EventCount DEF IInv, TypeOK
    <3>2. CASE SettleLifetime(p) \/ HolderCollected(p)
      BY <3>2 DEF SettleLifetime, HolderCollected, IInv, TypeOK
    <3> QED BY <1>9, <3>1, <3>2
  <2>3. PICK s \in {"settled", "done", "collected"} : lifetime' = [lifetime EXCEPT ![p].state = s]
    BY <1>9 DEF SettledCb, SettleLifetime, HolderCollected
  <2>4. UNCHANGED <<active, handling, responses, respond, given, settledAs>>
    BY <1>9 DEF SettledCb, SettleLifetime, HolderCollected
  <2> QED BY <2>1, <2>2, <2>3, <2>4 DEF IInv, TypeOK, handling, responses
<1>10. ASSUME NEW x \in Responses, ReadBody(x) \/ EditHeaders(x)
       PROVE  TypeOK'
  BY SMTT(30), <1>10, ConstantsAssumption DEF IInv, TypeOK, ReadBody, EditHeaders, events, handling
<1>11. ASSUME NEW r \in Requests, DispatchActions(r)
       PROVE  TypeOK'
  <2>1. UNCHANGED <<events, responses>>
    BY <1>11, DispatchFrame
  <2>2. /\ active' \in Requests \cup {NoLoop} /\ phase' \in [Requests -> Phases]
        /\ aborted' \in [Requests -> BOOLEAN] /\ answer' \in [Requests -> {"none", "response", "error"}]
        /\ UNCHANGED sent
    BY <1>11
    DEF IInv, TypeOK, handling, DispatchActions, DispatchFails, Dispatch, DispatchReturns,
        Responds, TimesOut, BodyTaken, TurnBegins, TurnEnds, SendEnds, SendAborted, DrainEnds,
        DrainTimesOut, To, Decide, Handled, Phases
  <2> QED BY <2>1, <2>2 DEF IInv, TypeOK, events, responses
<1> QED
  BY <1>2, <1>3, <1>5, <1>6, <1>7, <1>8, <1>9, <1>10, <1>11, NextActions

-----------------------------------------------------------------------------
(* The theorems.                                                           *)

\* The inductive invariant holds at the start, and every step keeps it.
LEMMA Initially == Init => IInv
<1> SUFFICES ASSUME Init
             PROVE  IInv
  OBVIOUS
<1> USE ConstantsAssumption, NamesAssumption DEF Init, NewEvent
<1>1. TypeOK
  BY DEF TypeOK, EventType, Phases
<1>2. CountsMatchPromises
  <2>1. \A r \in Requests : Holding(r) = {} /\ Counted(r) = {}
    BY DEF Holding, Counted, Outstanding
  <2>2. Cardinality({}) = 0
    BY FS_EmptySet
  <2>3. \A r \in Requests : /\ interest[r] = 0 /\ ev[r].count = 0 /\ ev[r].holds = FALSE
                            /\ respond[r] = "unused"
    OBVIOUS
  <2>4. One(FALSE) = 0 /\ \A r \in Requests : ~(respond[r] \in {"pending", "fulfilled", "rejected"})
    BY <2>3 DEF One
  <2>5. ASSUME NEW r \in Requests
        PROVE  /\ interest[r] = Cardinality(Holding(r)) + One(ev[r].holds)
               /\ ev[r].count = Cardinality(Counted(r))
                                  + One(respond[r] \in {"pending", "fulfilled", "rejected"})
    <3>1. Cardinality(Holding(r)) = 0 /\ Cardinality(Counted(r)) = 0
      BY <2>1, <2>2
    <3>2. One(respond[r] \in {"pending", "fulfilled", "rejected"}) = 0 /\ One(ev[r].holds) = 0
      BY <2>3, <2>4 DEF One
    <3> QED BY <2>3, <3>1, <3>2
  <2> QED BY <2>5 DEF CountsMatchPromises
<1>3. WaitUntilHolds /\ TurnsDrained
  BY DEF WaitUntilHolds, Outstanding, TurnsDrained, JobsQueued
<1>4. RespondsOnce /\ HeadersKept /\ LifetimesPlaced
  BY DEF RespondsOnce, HeadersKept, KeptOf, LifetimesPlaced
<1>5. OneTaker
  BY DEF OneTaker, TakerOf
<1> QED BY <1>1, <1>2, <1>3, <1>4, <1>5 DEF IInv

LEMMA Inductive == IInv /\ [Next]_vars => IInv'
<1>1. ASSUME IInv, Next
      PROVE  IInv'
  BY <1>1, TypeStep, CountsStep, WaitUntilStep, DrainedStep, RespondsStep, HeadersStep,
     PlacedStep, TakerStep
  DEF IInv
<1>2. ASSUME IInv, UNCHANGED vars
      PROVE  IInv'
  <2> USE <1>2 DEF vars, state, events, handling, responses, IInv
  <2>1. TypeOK' /\ WaitUntilHolds'
    BY DEF TypeOK, WaitUntilHolds, Outstanding
  <2>2. CountsMatchPromises'
    BY DEF CountsMatchPromises, Holding, Counted, Outstanding
  <2>3. TurnsDrained' /\ RespondsOnce' /\ HeadersKept' /\ LifetimesPlaced'
    BY DEF TurnsDrained, JobsQueued, RespondsOnce, HeadersKept, KeptOf, FromCheckpoint, LifetimesPlaced
  <2>4. OneTaker'
    BY DEF OneTaker, TakerOf
  <2> QED BY <2>1, <2>2, <2>3, <2>4
<1> QED BY <1>1, <1>2

LEMMA Invariance == Spec => []IInv
BY Initially, Inductive, PTL DEF Spec

\* The state stays in its types: no decrement of an event's count of promises (u32) or of a
\* loop's interest (usize) in fetch_event.rs ever takes them below zero.
THEOREM TypeCorrect == Spec => []TypeOK
<1>1. IInv => TypeOK
  BY DEF IInv
<1> QED BY <1>1, Invariance, PTL

\* The body of a Response is consumed once, by author code or by the one request whose
\* respondWith was given it.  The head of that response misses no edit that was made before its
\* promise settled, and has none that was made after the reactions queued by then had run,
\* however long the answer takes to be decided and whose turns pass meanwhile.
THEOREM ResponsesSentOnce == Spec => []SentOnce
<1>1. IInv => SentFromCheckpoint
  BY DEF IInv, HeadersKept, KeptOf, FromCheckpoint, SentFromCheckpoint
<1>2. ASSUME IInv, NEW x \in Responses \ NullBody
      PROVE  Cardinality(readers[x]) <= 1
  <2>1. \A a, b \in readers[x] : a = b
    BY <1>2, NamesAssumption DEF IInv, TypeOK, OneTaker, TakerOf
  <2>2. CASE readers[x] = {}
    BY <2>2, FS_EmptySet
  <2>3. CASE readers[x] # {}
    <3>1. PICK a : readers[x] = {a}
      BY <2>1, <2>3
    <3> QED BY SMTT(30), <3>1, FS_Singleton
  <2> QED BY <2>2, <2>3
<1>3. IInv => SentOnce
  BY <1>1, <1>2 DEF SentOnce, BodyConsumedOnce
<1> QED BY <1>3, Invariance, PTL

\* A loop's interest is what its outstanding promises hold, an event's count that of the
\* promises whose reaction has yet to run, and a promise passed to waitUntil keeps the request
\* whose loop took the interest from ending, unless the drain of that request has a limit.
THEOREM LifetimesCounted == Spec => []LifetimeCounted
<1>1. IInv => LifetimeCounted
  BY DEF IInv, LifetimeCounted
<1> QED BY <1>1, Invariance, PTL

\* dispatch_fetch answers with an error only if no response was given in time: when the time
\* limit passes, the abort's listeners and their microtasks run first, and a promise that they
\* settle has its reaction run before the answer is decided.
THEOREM SettledIsSent == Spec => SettledResponseIsSent
<1>1. ASSUME IInv, Next, NEW r \in Requests, answer[r] = "none", answer'[r] = "error"
      PROVE  respond[r] # "fulfilled" /\ ev[r].potential = NoResponse
  <2>1. \/ DispatchFails(r) \/ Responds(r) \/ AbortSignalled(r)
    <3>1. ASSUME NEW q \in Requests, q # r \/ ~(Responds(q) \/ DispatchFails(q)), DispatchActions(q)
          PROVE  answer'[r] = answer[r]
      BY <1>1, <3>1
      DEF IInv, TypeOK, handling, DispatchActions, DispatchFails, Dispatch, DispatchReturns,
          Responds, TimesOut, BodyTaken, TurnBegins, TurnEnds, SendEnds, SendAborted, DrainEnds,
          DrainTimesOut, Decide, Handled
    <3>2. ASSUME NEW q \in Requests, q # r, AbortSignalled(q)
          PROVE  answer'[r] = answer[r]
      BY <1>1, <3>2 DEF IInv, TypeOK, AbortSignalled, Decide, Handled
    <3>3. ASSUME NEW q \in Requests, HandledSettled(q)
          PROVE  answer'[r] = answer[r]
      BY <3>3 DEF HandledSettled
    <3> QED BY <1>1, <3>1, <3>2, <3>3, NextActions, ScriptFrame DEF ScriptActions, handling
  <2>2. ~JobsQueued
    BY <1>1, <2>1 DEF IInv, TurnsDrained, DispatchFails, Responds, AbortSignalled
  <2>3. ev[r].potential = NoResponse
    <3>1. CASE DispatchFails(r)
      BY <1>1, <3>1 DEF DispatchFails, IInv, RespondsOnce
    <3>2. CASE Responds(r) \/ AbortSignalled(r)
      <4>1. Decide(r)
        BY <3>2 DEF Responds, AbortSignalled
      <4> QED BY <1>1, <4>1 DEF Decide, Handled, IInv, TypeOK
    <3> QED BY <2>1, <3>1, <3>2
  <2> QED BY <2>2, <2>3 DEF JobsQueued
<1>2. IInv /\ [Next]_vars
        => [\A r \in Requests :
              (answer[r] = "none" /\ answer'[r] = "error")
                 => respond[r] # "fulfilled" /\ ev[r].potential = NoResponse]_vars
  BY <1>1
<1> QED BY <1>2, Invariance, PTL DEF Spec, SettledResponseIsSent

\* drain_lifetime_work keeps its word if waitUntil is only called in the turns of the event's
\* own request: unless its drain has a limit, a request is not over before the promises passed
\* to its event have settled.  Only an extension from another request's turn breaks it.
THEOREM OwnLifetimesHonoured ==
    ASSUME ~ForeignWaitUntil
    PROVE  Spec => LifetimeHonoured
<1>1. ASSUME IInv, Next, NEW r \in Requests \ DrainLimit, phase[r] = "drain", phase'[r] = "over",
             NEW p \in Promises, lifetime[p].event = r, Outstanding(p)
      PROVE  FALSE
  <2>1. lifetime[p].loop = r
    BY <1>1 DEF IInv, LifetimesPlaced
  <2>2. PICK q \in Requests : DispatchActions(q)
    <3>1. ASSUME NEW q \in Requests, AbortSignalled(q) \/ HandledSettled(q)
          PROVE  FALSE
      BY <1>1, <3>1 DEF IInv, TypeOK, AbortSignalled, Decide, Handled, HandledSettled, To
    <3> QED BY <1>1, <3>1, NextActions, ScriptFrame DEF ScriptActions, handling
  <2>3. UNCHANGED lifetime
    BY <2>2, DispatchFrame DEF events
  <2>4. WaitUntilHolds'
    BY <1>1, WaitUntilStep
  <2> QED BY <1>1, <2>1, <2>3, <2>4 DEF WaitUntilHolds, Outstanding
<1>2. IInv /\ [Next]_vars
        => [\A r \in Requests \ DrainLimit :
              (phase[r] = "drain" /\ phase'[r] = "over")
                 => \A p \in Promises : lifetime[p].event = r => ~Outstanding(p)]_vars
  BY <1>1
<1> QED BY <1>2, Invariance, PTL DEF Spec, LifetimeHonoured

=============================================================================
