---------------------------- MODULE FetchDispatch ----------------------------
(***************************************************************************)
(* The life of an incoming request: FetchEvent and ExtendableEvent         *)
(* (builtins/fetch-event/src/), dispatch_fetch and drain_lifetime_work     *)
(* (libstarling/src/serve_common.rs), serve_request and finish_request     *)
(* (libstarling/src/serve_native.rs).                                      *)
(*                                                                         *)
(* Each request has an event, a loop and the phases of its handling.  All  *)
(* requests share one global: while any loop is active, JavaScript may     *)
(* settle any promise, read any response's body and edit its headers, and  *)
(* the reactions of every event run in the microtask checkpoints of that   *)
(* loop.  Between two awaits of a request nothing else runs.               *)
(*                                                                         *)
(* Left out: preventDefault and the listener list (the transport answers a *)
(* request that nobody responded to with the same 500), request bodies,    *)
(* how a body is streamed, and failed allocations.  A driver that is woken *)
(* does take its turn: that is the subject of module LoopDriver.           *)
(***************************************************************************)
EXTENDS Integers, FiniteSets

CONSTANTS
    Requests,          \* the incoming requests, each with an event and a loop
    Promises,          \* the promises programs ever pass to waitUntil
    Responses,         \* the Response objects programs ever respond with
    NullBody,          \* those of Responses whose body is null
    DispatchLimit,     \* requests under a dispatch or end-to-end time limit
    DrainLimit,        \* requests under a waituntil or end-to-end time limit
    ForeignWaitUntil,  \* may waitUntil be called in the turn of another request?
    MaxEdits           \* bound: how often the headers of a response are edited

ASSUME ConstantsAssumption ==
    /\ NullBody \subseteq Responses
    /\ DispatchLimit \subseteq Requests /\ DrainLimit \subseteq Requests
    /\ ForeignWaitUntil \in BOOLEAN
    /\ IsFiniteSet(Promises)
    /\ MaxEdits \in Nat

NoLoop     == "no loop"
NoResponse == "no response"
NoHeaders  == -1
Author     == "author"
ASSUME NamesAssumption ==
    /\ NoLoop \notin Requests /\ Author \notin Requests
    /\ NoResponse \notin Responses

VARIABLES
    active,    \* the request whose loop is active, or NoLoop
    phase,     \* where the handling of each request is
    ev,        \* the state of each FetchEvent
    respond,   \* the promise passed to respondWith, and whether its reaction has run
    given,     \* the response it was fulfilled with
    lifetime,  \* each promise passed to waitUntil: its state, its event, the loop it holds
    interest,  \* InterestState::count of each loop
    aborted,   \* the signal of the request is aborted
    answer,    \* what dispatch_fetch decided; `handled' resolves if it is a response
    sent,      \* the headers of the response head
    body,      \* each response's body: null, fresh or used (disturbed or locked)
    edits,     \* each response's headers, as the number of edits made to them
    settledAs, \* history: those headers when the promise passed to respondWith settled
    drainedAs, \* history: those headers when the reactions queued by then had all run
    readers    \* history: who consumed the body of each response

responses == <<body, edits, readers>>
events    == <<ev, respond, given, lifetime, interest, settledAs>>
handling  == <<phase, aborted, answer, sent>>
state     == <<active, events, handling, responses>>
vars      == <<state, drainedAs>>

-----------------------------------------------------------------------------
(* FetchEvent and ExtendableEvent.                                         *)

Dispatching(r) == phase[r] = "dispatch"
IsActive(r)    == ev[r].count > 0 \/ Dispatching(r)

\* A promise of waitUntil whose reaction has not run yet.
Outstanding(p) == lifetime[p].state \in {"pending", "settled"}

\* Reactions are queued.  No microtask checkpoint ends before they have run.
JobsQueued ==
    \/ \E r \in Requests : respond[r] \in {"fulfilled", "rejected"}
    \/ \E p \in Promises : lifetime[p].state = "settled"

\* FetchEvent::respond_with, past the checks of its steps 1 to 4.
RespondWith(r) ==
    /\ active = r /\ Dispatching(r) /\ ~ev[r].entered
    /\ respond' = [respond EXCEPT ![r] = "pending"]
    /\ interest' = [interest EXCEPT ![r] = @ + 1]
    /\ ev' = [ev EXCEPT ![r].holds = TRUE, ![r].count = @ + 1,
                        ![r].entered = TRUE, ![r].wait = TRUE]
    /\ UNCHANGED <<active, handling, responses, given, lifetime, settledAs>>

\* ExtendableEvent::wait_until: the interest is taken on the loop that is active, l,
\* which need not be that of the event.
WaitUntil(l, r, p) ==
    /\ active = l /\ IsActive(r)
    /\ ForeignWaitUntil \/ l = r
    /\ lifetime[p].state = "unused"
    /\ lifetime' = [lifetime EXCEPT ![p] = [state |-> "pending", event |-> r, loop |-> l]]
    /\ interest' = [interest EXCEPT ![l] = @ + 1]
    /\ ev' = [ev EXCEPT ![r].count = @ + 1]
    /\ UNCHANGED <<active, handling, responses, respond, given, settledAs>>

\* lifetime_promise_settled_cb, in the turn of any loop.
SettledCb(p) ==
    /\ active # NoLoop /\ lifetime[p].state = "settled"
    /\ ev' = [ev EXCEPT ![lifetime[p].event].count = @ - 1]
    /\ interest' = [interest EXCEPT ![lifetime[p].loop] = @ - 1]
    /\ lifetime' = [lifetime EXCEPT ![p].state = "done"]
    /\ UNCHANGED <<active, handling, responses, respond, given, settledAs>>

\* The promise can no longer settle and the holder of its handle is collected: the
\* interest is released, the count of the event is not.
HolderCollected(p) ==
    /\ active # NoLoop /\ lifetime[p].state = "pending"
    /\ interest' = [interest EXCEPT ![lifetime[p].loop] = @ - 1]
    /\ lifetime' = [lifetime EXCEPT ![p].state = "collected"]
    /\ UNCHANGED <<active, handling, responses, ev, respond, given, settledAs>>

\* The end of on_respond_fulfilled and on_respond_rejected: the event e with the wait to
\* respond flag unset, the handle dropped if it still has one, and one promise less.
RespondDone(r, e) ==
    /\ ev' = [ev EXCEPT ![r] = [e EXCEPT !.wait = FALSE, !.holds = FALSE, !.count = @ - 1]]
    /\ interest' = [interest EXCEPT ![r] = IF ev[r].holds THEN @ - 1 ELSE @]
    /\ respond' = [respond EXCEPT ![r] = "done"]

\* Response::reserve_body_for_sending.
ReserveBodyForSending(x) ==
    body' = [body EXCEPT ![x] = IF @ = "null" THEN @ ELSE "used"]

OnRespondFulfilled(r) ==
    LET x == given[r] IN
    /\ active # NoLoop /\ respond[r] = "fulfilled"
    /\ \/ /\ body[x] = "used"
          /\ RespondDone(r, [ev[r] EXCEPT !.error = TRUE])
          /\ UNCHANGED body
       \/ /\ body[x] # "used"
          /\ ReserveBodyForSending(x)
          /\ RespondDone(r, [ev[r] EXCEPT !.headers = edits[x], !.potential = x])
    /\ UNCHANGED <<active, handling, edits, readers, given, lifetime, settledAs>>

OnRespondRejected(r) ==
    /\ active # NoLoop /\ respond[r] = "rejected"
    /\ RespondDone(r, [ev[r] EXCEPT !.error = TRUE])
    /\ UNCHANGED <<active, handling, responses, given, lifetime, settledAs>>

-----------------------------------------------------------------------------
(* Programs: what JavaScript does to promises and responses while a loop   *)
(* is active.                                                              *)

SettleRespond(r) ==
    /\ active # NoLoop /\ respond[r] = "pending"
    /\ \/ \E x \in Responses :
            /\ given' = [given EXCEPT ![r] = x]
            /\ respond' = [respond EXCEPT ![r] = "fulfilled"]
            /\ settledAs' = [settledAs EXCEPT ![r] = edits[x]]
       \/ respond' = [respond EXCEPT ![r] = "rejected"] /\ UNCHANGED <<given, settledAs>>
    /\ UNCHANGED <<active, handling, responses, ev, lifetime, interest>>

SettleLifetime(p) ==
    /\ active # NoLoop /\ lifetime[p].state = "pending"
    /\ lifetime' = [lifetime EXCEPT ![p].state = "settled"]
    /\ UNCHANGED <<active, handling, responses, ev, respond, given, interest, settledAs>>

\* text(), getReader() and the like: refused if the body is unusable.
ReadBody(x) ==
    /\ active # NoLoop /\ body[x] = "fresh"
    /\ body' = [body EXCEPT ![x] = "used"]
    /\ readers' = [readers EXCEPT ![x] = @ \cup {Author}]
    /\ UNCHANGED <<active, events, handling, edits>>

EditHeaders(x) ==
    /\ active # NoLoop /\ edits[x] < MaxEdits
    /\ edits' = [edits EXCEPT ![x] = @ + 1]
    /\ UNCHANGED <<active, events, handling, body, readers>>

Reactions == \/ \E r \in Requests : OnRespondFulfilled(r) \/ OnRespondRejected(r)
             \/ \E p \in Promises : SettledCb(p)

Program ==
    \/ \E r \in Requests : RespondWith(r) \/ SettleRespond(r)
    \/ \E l, r \in Requests, p \in Promises : WaitUntil(l, r, p)
    \/ \E p \in Promises : SettleLifetime(p) \/ HolderCollected(p)
    \/ \E x \in Responses : ReadBody(x) \/ EditHeaders(x)

-----------------------------------------------------------------------------
(* dispatch_fetch.                                                         *)

To(r, p) == phase' = [phase EXCEPT ![r] = p]

\* The event or its request cannot be created: the transport answers with a 500.
DispatchFails(r) ==
    /\ active = NoLoop /\ phase[r] = "new"
    /\ To(r, "drain")
    /\ answer' = [answer EXCEPT ![r] = "error"]
    /\ UNCHANGED <<active, events, responses, aborted, sent>>

Dispatch(r) ==
    /\ active = NoLoop /\ phase[r] = "new"
    /\ To(r, "dispatch") /\ active' = r
    /\ UNCHANGED <<events, responses, aborted, answer, sent>>

\* Microtasks run after every listener, with the dispatch flag still set.
DispatchReturns(r) ==
    /\ active = r /\ Dispatching(r) /\ ~JobsQueued
    /\ To(r, "wait") /\ active' = NoLoop
    /\ UNCHANGED <<events, responses, aborted, answer, sent>>

\* settle_handled: `handled' is resolved only if there is a response for the client.
Handled(r) == IF ev[r].potential = NoResponse THEN "error" ELSE "response"

\* What steps 17.4.16 to 23 read once the wait is over.
Decide(r) ==
    /\ answer' = [answer EXCEPT ![r] = Handled(r)]
    /\ To(r, "settle")

\* run_until returns: the wait to respond flag is unset.
Responds(r) ==
    /\ active = NoLoop /\ phase[r] = "wait" /\ ~ev[r].wait
    /\ Decide(r) /\ active' = r
    /\ UNCHANGED <<events, responses, aborted, sent>>

\* The time limit is only looked at when run_until has nothing to do, so the flag is set.
TimesOut(r) ==
    /\ active = NoLoop /\ phase[r] = "wait" /\ ev[r].wait
    /\ r \in DispatchLimit
    /\ To(r, "abort") /\ active' = r
    /\ aborted' = [aborted EXCEPT ![r] = TRUE]
    /\ UNCHANGED <<events, responses, answer, sent>>

AbandonRespond(r) ==
    /\ ev' = [ev EXCEPT ![r].holds = FALSE]
    /\ interest' = [interest EXCEPT ![r] = IF ev[r].holds THEN @ - 1 ELSE @]

\* Mutant: the abort is signalled as if script were on the stack, so that the microtasks
\* of its listeners run when the answer is decided.
AbortSignalled_NoCheckpoint(r) ==
    /\ active = r /\ phase[r] = "abort"
    /\ AbandonRespond(r) /\ Decide(r)
    /\ UNCHANGED <<active, responses, respond, given, lifetime, settledAs, aborted, sent>>

\* signal_request_abort returns, after the microtasks of every listener.
AbortSignalled(r) ==
    /\ active = r /\ phase[r] = "abort" /\ ~JobsQueued
    /\ AbandonRespond(r) /\ Decide(r)
    /\ UNCHANGED <<active, responses, respond, given, lifetime, settledAs, aborted, sent>>

\* Mutant: the headers are taken from the Response as it is by now.
HeadersToSend_Live(r) == edits[ev[r].potential]

\* take_potential_response_headers.
HeadersToSend(r) == ev[r].headers

\* The reactions of `handled' have run.  With a response, its headers and its body are
\* taken, which starts the author's code if the body is a stream.
HandledSettled(r) ==
    /\ active = r /\ phase[r] = "settle" /\ ~JobsQueued
    /\ \/ /\ answer[r] = "response"
          /\ sent' = [sent EXCEPT ![r] = HeadersToSend(r)]
          /\ ev' = [ev EXCEPT ![r].headers = NoHeaders]
          /\ readers' = [readers EXCEPT ![ev[r].potential] = @ \cup {r}]
          /\ To(r, "body")
          /\ UNCHANGED active
       \/ /\ answer[r] = "error"
          /\ To(r, "drain") /\ active' = NoLoop
          /\ UNCHANGED <<sent, ev, readers>>
    /\ UNCHANGED <<respond, given, lifetime, interest, settledAs, aborted, answer, body, edits>>

\* dispatch_fetch returns.  create_body_channel makes a producer unless the body is empty.
BodyTaken(r) ==
    /\ active = r /\ phase[r] = "body" /\ ~JobsQueued
    /\ \/ body[ev[r].potential] # "null" /\ To(r, "send")
       \/ To(r, "drain")
    /\ active' = NoLoop
    /\ UNCHANGED <<events, responses, aborted, answer, sent>>

-----------------------------------------------------------------------------
(* finish_request, and the turns of a loop that is driven.                 *)

Driven(r) == phase[r] \in {"wait", "send", "drain"}

TurnBegins(r) ==
    /\ active = NoLoop /\ Driven(r)
    /\ active' = r
    /\ UNCHANGED <<events, handling, responses>>

TurnEnds(r) ==
    /\ active = r /\ Driven(r) /\ ~JobsQueued
    /\ active' = NoLoop
    /\ UNCHANGED <<events, handling, responses>>

\* send_response_body returns BodySendOutcome::Sent, or fails and the request is aborted,
\* which does nothing if it is aborted already.
SendEnds(r) ==
    /\ active = NoLoop /\ phase[r] = "send"
    /\ \/ To(r, "drain") /\ UNCHANGED <<active, aborted>>
       \/ /\ ~aborted[r]
          /\ To(r, "sendabort") /\ active' = r
          /\ aborted' = [aborted EXCEPT ![r] = TRUE]
    /\ UNCHANGED <<events, responses, answer, sent>>

SendAborted(r) ==
    /\ active = r /\ phase[r] = "sendabort" /\ ~JobsQueued
    /\ To(r, "drain") /\ active' = NoLoop
    /\ UNCHANGED <<events, responses, aborted, answer, sent>>

\* Mutant: the drain stops on the condition of the dispatch.
DrainEnds_NotWaiting(r) ==
    /\ active = NoLoop /\ phase[r] = "drain" /\ ~ev[r].wait
    /\ To(r, "over")
    /\ UNCHANGED <<active, events, responses, aborted, answer, sent>>

\* drain_lifetime_work: run_until returns once no interest is held.
DrainEnds(r) ==
    /\ active = NoLoop /\ phase[r] = "drain" /\ interest[r] = 0
    /\ To(r, "over")
    /\ UNCHANGED <<active, events, responses, aborted, answer, sent>>

DrainTimesOut(r) ==
    /\ active = NoLoop /\ phase[r] = "drain" /\ interest[r] > 0
    /\ r \in DrainLimit
    /\ To(r, "over")
    /\ UNCHANGED <<active, events, responses, aborted, answer, sent>>

-----------------------------------------------------------------------------
NewEvent == [entered |-> FALSE, wait |-> FALSE, error |-> FALSE, potential |-> NoResponse,
             headers |-> NoHeaders, holds |-> FALSE, count |-> 0]

Init ==
    /\ active = NoLoop
    /\ phase = [r \in Requests |-> "new"]
    /\ ev = [r \in Requests |-> NewEvent]
    /\ respond = [r \in Requests |-> "unused"]
    /\ given = [r \in Requests |-> NoResponse]
    /\ lifetime = [p \in Promises |-> [state |-> "unused", event |-> NoLoop, loop |-> NoLoop]]
    /\ interest = [r \in Requests |-> 0]
    /\ aborted = [r \in Requests |-> FALSE]
    /\ answer = [r \in Requests |-> "none"]
    /\ sent = [r \in Requests |-> NoHeaders]
    /\ body = [x \in Responses |-> IF x \in NullBody THEN "null" ELSE "fresh"]
    /\ edits = [x \in Responses |-> 0]
    /\ settledAs = [r \in Requests |-> NoHeaders]
    /\ drainedAs = [r \in Requests |-> NoHeaders]
    /\ readers = [x \in Responses |-> {}]

\* A stretch of a request's handling that JavaScript runs in, ending.
StretchEnds(r) ==
    \/ DispatchReturns(r) \/ AbortSignalled(r) \/ HandledSettled(r) \/ BodyTaken(r)
    \/ TurnEnds(r) \/ SendAborted(r)

Transport(r) ==
    \/ DispatchFails(r) \/ Dispatch(r) \/ Responds(r) \/ TimesOut(r)
    \/ TurnBegins(r) \/ SendEnds(r) \/ DrainEnds(r) \/ DrainTimesOut(r)

\* The headers of a Response that was given, as they are once no reaction is queued.
NoteHeaders ==
    drainedAs' = [r \in Requests |->
        IF drainedAs[r] = NoHeaders /\ given[r] # NoResponse /\ ~JobsQueued
        THEN edits[given[r]] ELSE drainedAs[r]]

Next ==
    /\ Reactions \/ Program \/ \E r \in Requests : StretchEnds(r) \/ Transport(r)
    /\ NoteHeaders

Spec == Init /\ [][Next]_vars

\* Microtasks are drained and JavaScript returns.  A driver whose stop condition holds was
\* woken, and gets its turn although those of other loops keep the thread busy in between.
FairSpec ==
    /\ Spec
    /\ WF_state(Reactions)
    /\ WF_state(\E r \in Requests : StretchEnds(r))
    /\ \A r \in Requests : SF_state(DrainEnds(r))

-----------------------------------------------------------------------------
(* Properties.                                                             *)

Phases == {"new", "dispatch", "wait", "abort", "settle", "body", "send", "sendabort",
           "drain", "over"}

EventType == [entered : BOOLEAN, wait : BOOLEAN, error : BOOLEAN,
              potential : Responses \cup {NoResponse}, headers : 0..MaxEdits \cup {NoHeaders},
              holds : BOOLEAN, count : Nat]

\* Types.  The counters are usize and u32: none may underflow.
TypeOK ==
    /\ active \in Requests \cup {NoLoop}
    /\ phase \in [Requests -> Phases]
    /\ ev \in [Requests -> EventType]
    /\ respond \in [Requests -> {"unused", "pending", "fulfilled", "rejected", "done"}]
    /\ given \in [Requests -> Responses \cup {NoResponse}]
    /\ lifetime \in [Promises -> [state : {"unused", "pending", "settled", "done", "collected"},
                                  event : Requests \cup {NoLoop}, loop : Requests \cup {NoLoop}]]
    /\ interest \in [Requests -> Nat]
    /\ aborted \in [Requests -> BOOLEAN]
    /\ answer \in [Requests -> {"none", "response", "error"}]
    /\ sent \in [Requests -> 0..MaxEdits \cup {NoHeaders}]
    /\ body \in [Responses -> {"null", "fresh", "used"}]
    /\ edits \in [Responses -> 0..MaxEdits]
    /\ settledAs \in [Requests -> 0..MaxEdits \cup {NoHeaders}]
    /\ drainedAs \in [Requests -> 0..MaxEdits \cup {NoHeaders}]
    /\ readers \in [Responses -> SUBSET (Requests \cup {Author})]

\* The promises that keep the event of r active, and those that keep its loop alive.
Counted(r) == {p \in Promises : lifetime[p].event = r
                                  /\ lifetime[p].state \in {"pending", "settled", "collected"}}
Holding(r) == {p \in Promises : lifetime[p].loop = r /\ Outstanding(p)}
One(b) == IF b THEN 1 ELSE 0

\* The interest of a loop is what its outstanding promises hold, and an event's count that
\* of the promises whose reaction has yet to run: whichever loop's turn they settle in, and
\* whether a time limit abandoned the response or the collector got there first.
CountsMatchPromises ==
    \A r \in Requests :
        /\ interest[r] = Cardinality(Holding(r)) + One(ev[r].holds)
        /\ ev[r].count = Cardinality(Counted(r))
                           + One(respond[r] \in {"pending", "fulfilled", "rejected"})

\* A body is consumed once: by author code, or by one of the requests that were given its
\* Response.
BodyConsumedOnce ==
    \A x \in Responses \ NullBody : Cardinality(readers[x]) <= 1

\* The head of a response misses no edit that was made before the promise passed to
\* respondWith settled, and has none that was made once the reactions queued by then had run:
\* neither by the listeners of `handled', nor by another request's turn, nor by a body's
\* source.
SentFromCheckpoint ==
    \A r \in Requests :
        sent[r] # NoHeaders => settledAs[r] <= sent[r] /\ sent[r] <= drainedAs[r]

\* What fetch_event.rs:44-46 says of potential_response_headers: they are those that the
\* Response had when respondWith's promise settled.  It fails: the reaction copies them, and
\* the code that resolved the promise may edit them before it runs.
SentAsSettled ==
    \A r \in Requests : sent[r] # NoHeaders => sent[r] = settledAs[r]

\* A request is only answered with an error if no response has been given for it, whether
\* its promise settles in the turn of another loop, as the time runs out, or in reaction
\* to the abort.
SettledResponseIsSent ==
    [][\A r \in Requests :
         (answer[r] = "none" /\ answer'[r] = "error")
            => respond[r] # "fulfilled" /\ ev[r].potential = NoResponse]_vars

\* A promise passed to waitUntil keeps some request from ending until it has settled, or
\* cannot settle any more: the one whose loop was active, unless its drain has a limit.
WaitUntilHolds ==
    \A p \in Promises :
        Outstanding(p) /\ lifetime[p].loop \notin DrainLimit => phase[lifetime[p].loop] # "over"

\* What drain_lifetime_work says of itself: the request is not over before the promises
\* passed to its own event's waitUntil have settled.  It fails if ForeignWaitUntil holds:
\* the interest is taken on the loop that is active, not on that of the event.
LifetimeHonoured ==
    [][\A r \in Requests \ DrainLimit :
         (phase[r] = "drain" /\ phase'[r] = "over")
            => \A p \in Promises : lifetime[p].event = r => ~Outstanding(p)]_vars

\* What holds up a request in its drain is a promise of waitUntil, never a response that
\* was given up.
AbandonedDontHold ==
    \A r \in Requests :
        phase[r] = "drain" ~> (phase[r] = "over" \/ \E p \in Holding(r) : lifetime[p].state = "pending")

\* A body is consumed once, and the head of a response is the one that was given, whatever
\* author code does with the Response afterwards.
SentOnce == BodyConsumedOnce /\ SentFromCheckpoint

\* A promise of waitUntil keeps a request from ending, and a loop holds interest for exactly
\* the promises that are pending, in whichever turn they are added, settle, or are given up.
LifetimeCounted == WaitUntilHolds /\ CountsMatchPromises

\* A response given in time is sent, and one that was given up does not hold its request.
AnsweredInTime == SettledResponseIsSent /\ AbandonedDontHold

=============================================================================
