-------------------------------- MODULE Events --------------------------------
(***************************************************************************)
(* EventTarget, Event, AbortSignal and AbortController: web-globals/src/   *)
(* events and web-globals/src/signals.                                     *)
(*                                                                         *)
(* Targets are the signals themselves, and all listeners are for `abort':  *)
(* what a controller fires, and what an author may dispatch too.  `frames' *)
(* holds the calls that are suspended in author code, and `turn' says who  *)
(* is to go on: the author, or the topmost call.  A microtask checkpoint   *)
(* after a callback (ScriptStackState::Empty) runs more author code in the *)
(* same place.                                                             *)
(***************************************************************************)
EXTENDS Integers, Sequences, SequencesExt

CONSTANTS
    Controlled,  \* the signals of AbortControllers
    Timeouts,    \* the signals of AbortSignal.timeout()
    Others,      \* the signals that any() and abort() make
    Callbacks,   \* listener identities: a callback and its capture flag
    MaxCalls,    \* bound on the author's calls
    Careful      \* no propagation is stopped of an event that is not dispatched

VARIABLE s

Signals == Controlled \cup Timeouts \cup Others
NoReason == "none"
NoSignal == "no signal"
NoCallback == "no callback"

\* An author's event, and the one each signal fires.
AuthorEvent == "event"
EventNames == Signals \cup {AuthorEvent}

FreshEvent == [dispatching |-> FALSE, stopped |-> FALSE, stoppedNow |-> FALSE]

DebugAssert(r, holds) == [r EXCEPT !.ok = @ /\ holds]

Aborted(r, x) == r.reason[x] # NoReason

Top(r) == r.frames[Len(r.frames)]
Push(r, f) == [r EXCEPT !.frames = Append(@, f), !.turn = "call"]
Pop(r, turn) == [r EXCEPT !.frames = Front(@), !.turn = turn]
SetTop(r, f) == [r EXCEPT !.frames[Len(r.frames)] = f]

-----------------------------------------------------------------------------
(* Listeners.                                                              *)

Listens(r, t, cb) == \E i \in DOMAIN r.list[t] : r.list[t][i].callback = cb

\* add_abort_algorithm.
AddAlgorithm(r, x, algorithm) ==
    IF Aborted(r, x) THEN r ELSE [r EXCEPT !.algorithms[x] = Append(@, algorithm)]

\* add_listener_removal_algorithm.
AddRemoval(r, x, t, id) == AddAlgorithm(r, x, [tag |-> "remove", target |-> t, id |-> id])

\* add_an_event_listener: the listener that is there already is the one that a signal removes.
AddAnEventListener(r, t, cb, options) ==
    LET x == options.signal IN
    IF x # NoSignal /\ Aborted(r, x) THEN r
    ELSE LET there == SelectInSeq(r.list[t], LAMBDA l : l.callback = cb)
             id == IF there = 0 THEN r.nextId ELSE r.list[t][there].id
             added == IF there # 0 THEN r
                      ELSE [r EXCEPT !.list[t] = Append(@, [id |-> id, callback |-> cb, once |-> options.once]),
                                     !.nextId = @ + 1]
         IN IF x = NoSignal THEN added
            ELSE AddRemoval([added EXCEPT !.tied = @ \cup {<<id, x>>}], x, t, id)

\* remove_an_event_listener.
RemoveAnEventListener(r, t, cb) ==
    [r EXCEPT !.list[t] = SelectSeq(@, LAMBDA l : l.callback # cb)]

\* remove_an_event_listener_by_id.
RemoveById(r, t, id) == [r EXCEPT !.list[t] = SelectSeq(@, LAMBDA l : l.id # id)]

\* The onabort attribute: its callback is an ordinary listener.
SetOnabortTo(r, t, cb) ==
    LET cleared == IF r.onabort[t] = NoCallback THEN r
                   ELSE RemoveAnEventListener(r, t, r.onabort[t])
        added == IF cb = NoCallback THEN cleared
                 ELSE AddAnEventListener(cleared, t, cb, [once |-> FALSE, signal |-> NoSignal])
    IN [added EXCEPT !.onabort[t] = cb]

-----------------------------------------------------------------------------
(* dispatch and invoke_listeners.                                          *)

\* Event::start_dispatching, and the snapshot of the listeners unless propagation was stopped.
Dispatch(r, e, t, by) ==
    LET ev == r.events[e]
        asserted == DebugAssert(r, ~ev.dispatching /\ ~ev.stopped /\ ~ev.stoppedNow)
    IN Push([asserted EXCEPT !.events[e].dispatching = TRUE],
            [at |-> "dispatch", by |-> by, event |-> e, target |-> t, rest |-> IF ev.stopped THEN <<>> ELSE r.list[t]])

\* Mutant: the listeners are called as they were when dispatch began.
InvokeNext_Snapshot(r) ==
    LET f == Top(r)
        l == Head(f.rest)
        go == SetTop(r, [f EXCEPT !.rest = Tail(@)])
    IN [IF l.once THEN RemoveById(go, f.target, l.id) ELSE go
        EXCEPT !.turn = "author", !.calls[l.id] = @ + 1]

\* Mutant: a once listener is removed when it returns.
InvokeNext_OnceLate(r) ==
    LET f == Top(r)
        l == Head(f.rest)
        go == SetTop(r, [f EXCEPT !.rest = Tail(@)])
    IN IF \E i \in DOMAIN r.list[f.target] : r.list[f.target][i].id = l.id
         THEN [go EXCEPT !.turn = "author", !.calls[l.id] = @ + 1]
         ELSE go

\* One turn of the loop over the snapshot: the live list is asked for the listener again, and a
\* once listener is removed before it is called.
InvokeNext(r) ==
    LET f == Top(r)
        l == Head(f.rest)
        go == SetTop(r, [f EXCEPT !.rest = Tail(@)])
    IN IF \E i \in DOMAIN r.list[f.target] : r.list[f.target][i].id = l.id
         THEN [IF l.once THEN RemoveById(go, f.target, l.id) ELSE go
               EXCEPT !.turn = "author", !.calls[l.id] = @ + 1]
         ELSE go

\* Event::stop_dispatching.  Who fired the event goes on with the next signal.
EndDispatch(r) ==
    LET f == Top(r)
    IN Pop([r EXCEPT !.events[f.event] = FreshEvent], IF f.by = "author" THEN "author" ELSE "call")

-----------------------------------------------------------------------------
(* signal_abort and run_the_abort_steps.                                   *)

\* Mutant: the dependents get their reason when their own steps are run.
SignalAbort_Late(r, x, why) ==
    IF Aborted(r, x) THEN r
    ELSE Push([r EXCEPT !.reason[x] = why],
              [at |-> "abort", rest |-> <<x>> \o SelectSeq(r.dependents[x], LAMBDA d : ~Aborted(r, d))])

\* The reason is set on the signal and on all its dependents before any author code runs.
SignalAbort(r, x, why) ==
    IF Aborted(r, x) THEN r
    ELSE LET mark(to, d) == IF Aborted(r, d) \/ d \in Range(to) THEN to ELSE Append(to, d)
             toAbort == FoldLeft(mark, <<x>>, r.dependents[x])
         IN Push([r EXCEPT !.reason = [y \in Signals |-> IF y \in Range(toAbort) THEN why ELSE @[y]]],
                 [at |-> "abort", rest |-> toAbort])

\* run_the_abort_steps takes the algorithms off the signal before the first one runs.
BeginSteps(r) ==
    LET f == Top(r)
        x == Head(f.rest)
    IN Push([SetTop(r, [f EXCEPT !.rest = Tail(@)]) EXCEPT !.algorithms[x] = <<>>],
            [at |-> "steps", signal |-> x, rest |-> r.algorithms[x]])

\* Listeners are removed; a callback (fetch(), pipeTo()) may run author code.
NextAlgorithm(r) ==
    LET f == Top(r)
        a == Head(f.rest)
        go == SetTop(r, [f EXCEPT !.rest = Tail(@)])
    IN IF a.tag = "remove" THEN RemoveById(go, a.target, a.id)
       ELSE [go EXCEPT !.turn = "author"]

FireAbort(r) == Dispatch([r EXCEPT !.frames = Front(@)], Top(r).signal, Top(r).signal, "steps")

\* create_dependent_abort_signal: dependents of dependents hang on their sources.
DependentSignal(r, d, signals) ==
    LET aborted == SelectInSeq(signals, LAMBDA x : Aborted(r, x))
        sourcesOf(x) == IF r.dependent[x] THEN r.sources[x] ELSE <<x>>
        addSource(q, y) == [q EXCEPT !.sources[d] = Append(@, y), !.dependents[y] = Append(@, d)]
        addOnce(q, y) == IF y \in Range(q.sources[d]) THEN q ELSE addSource(q, y)
        link(q, x) == IF r.dependent[x] THEN FoldLeft(addOnce, q, r.sources[x]) ELSE addSource(q, x)
        assert(q, x) == DebugAssert(q, \A y \in Range(sourcesOf(x)) : ~Aborted(r, y) /\ ~r.dependent[y])
        born == [r EXCEPT !.born = @ \cup {d}]
    IN IF aborted # 0 THEN [born EXCEPT !.reason[d] = r.reason[signals[aborted]]]
       ELSE FoldLeft(LAMBDA q, x : link(assert(q, x), x), [born EXCEPT !.dependent[d] = TRUE], signals)

-----------------------------------------------------------------------------
(* What the author does: at the top level, in a listener, in what an abort *)
(* algorithm calls, or in a microtask after either.                        *)

Call(r) == [r EXCEPT !.made = @ + 1]
MayCall == s.turn = "author" /\ s.made < MaxCalls

\* flatten_more_options: of the options, the listener's capture flag is part of its callback.
ListenerOptions == [once : BOOLEAN, signal : s.born \cup {NoSignal}]

AddEventListener(t, cb, options) ==
    /\ MayCall /\ t \in s.born
    /\ s' = AddAnEventListener(Call(s), t, cb, options)

RemoveEventListener(t, cb) ==
    /\ MayCall /\ Listens(s, t, cb)
    /\ s' = RemoveAnEventListener(Call(s), t, cb)

SetOnabort(t, cb) ==
    /\ MayCall /\ t \in s.born /\ cb # s.onabort[t]
    /\ s' = SetOnabortTo(Call(s), t, cb)

\* AbortController.abort(reason).
ControllerAbort(x) ==
    /\ MayCall /\ x \in Controlled
    /\ s' = SignalAbort(Call(s), x, x)

\* AbortSignal.abort(): aborted from the start.
AbortedSignal(d) ==
    /\ MayCall /\ d \in Others \ s.born
    /\ s' = [Call(s) EXCEPT !.born = @ \cup {d}, !.reason[d] = d]

\* AbortSignal.any().
AnyOf(d, signals) ==
    /\ MayCall /\ d \in Others \ s.born /\ Range(signals) \subseteq s.born
    /\ s' = DependentSignal(Call(s), d, signals)

\* fetch() and pipeTo() hang on the signal they are given.
React(x) ==
    /\ MayCall /\ x \in s.born
    /\ s' = AddAlgorithm(Call(s), x, [tag |-> "run", target |-> x, id |-> 0])

\* EventTarget.dispatchEvent().
DispatchEvent(t) ==
    /\ MayCall /\ t \in s.born /\ ~s.events[AuthorEvent].dispatching
    /\ s' = Dispatch(Call(s), AuthorEvent, t, "author")

\* stopPropagation(), stopImmediatePropagation().
StopPropagation(e, now) ==
    /\ MayCall /\ (s.events[e].dispatching \/ (~Careful /\ e = AuthorEvent))
    /\ s' = [Call(s) EXCEPT !.events[e].stopped = TRUE, !.events[e].stoppedNow = @ \/ now]

\* initialize: no flag is left.
Initialize(r, e) == [r EXCEPT !.events[e] = FreshEvent]

\* Event.initEvent().
InitEvent ==
    /\ ~s.events[AuthorEvent].dispatching /\ MayCall /\ s.events[AuthorEvent] # FreshEvent
    /\ s' = Initialize(Call(s), AuthorEvent)

\* The callback returns or throws; what it threw is reported.
Return ==
    /\ s.turn = "author" /\ s.frames # <<>>
    /\ LET f == Top(s) IN
       s' = [IF f.at = "dispatch" /\ s.events[f.event].stoppedNow
               THEN SetTop(s, [f EXCEPT !.rest = <<>>]) ELSE s
             EXCEPT !.turn = "call"]

-----------------------------------------------------------------------------
\* A call goes on until it reaches author code again.
Continue ==
    /\ s.turn = "call"
    /\ LET f == Top(s) IN
       s' = CASE f.at = "abort" /\ f.rest = <<>> -> Pop(s, "author")
              [] f.at = "abort" /\ f.rest # <<>> -> BeginSteps(s)
              [] f.at = "steps" /\ f.rest = <<>> -> FireAbort(s)
              [] f.at = "steps" /\ f.rest # <<>> -> NextAlgorithm(s)
              [] f.at = "dispatch" /\ f.rest = <<>> -> EndDispatch(s)
              [] f.at = "dispatch" /\ f.rest # <<>> -> InvokeNext(s)

\* AbortTimeoutTask::run, a task of the event loop.
TimeoutFires(x) ==
    /\ s.frames = <<>> /\ x \in Timeouts /\ ~Aborted(s, x)
    /\ s' = SignalAbort(s, x, x)

-----------------------------------------------------------------------------
Init ==
    s = [reason |-> [x \in Signals |-> NoReason], born |-> Controlled \cup Timeouts,
         dependent |-> [x \in Signals |-> FALSE],
         sources |-> [x \in Signals |-> <<>>], dependents |-> [x \in Signals |-> <<>>],
         algorithms |-> [x \in Signals |-> <<>>], list |-> [x \in Signals |-> <<>>],
         onabort |-> [x \in Signals |-> NoCallback], nextId |-> 1,
         events |-> [e \in EventNames |-> FreshEvent],
         frames |-> <<>>, turn |-> "author", made |-> 0, ok |-> TRUE,
         calls |-> [i \in 1..MaxCalls |-> 0], tied |-> {}]

Lists == {<<x>> : x \in Signals} \cup {<<x, y>> : x \in Signals, y \in Signals}

Author ==
    \/ \E t \in Signals, cb \in Callbacks, options \in ListenerOptions :
          AddEventListener(t, cb, options)
    \/ \E t \in Signals, cb \in Callbacks : RemoveEventListener(t, cb)
    \/ \E t \in Signals, cb \in Callbacks \cup {NoCallback} : SetOnabort(t, cb)
    \/ \E x \in Signals : ControllerAbort(x) \/ AbortedSignal(x) \/ React(x) \/ DispatchEvent(x)
    \/ \E d \in Others, signals \in Lists : AnyOf(d, signals)
    \/ \E e \in EventNames, now \in BOOLEAN : StopPropagation(e, now)
    \/ InitEvent
    \/ Return

Next == Author \/ Continue \/ \E x \in Timeouts : TimeoutFires(x)

Spec == Init /\ [][Next]_s

-----------------------------------------------------------------------------
(* Properties.                                                             *)

\* The signals whose abort steps are still to run, in the calls that are under way.
ToAbort == UNION {Range(s.frames[i].rest) : i \in {j \in DOMAIN s.frames : s.frames[j].at = "abort"}}

\* What the calls under way still have to do for abort.
PendingRemovals ==
    UNION {Range(s.frames[i].rest) : i \in {j \in DOMAIN s.frames : s.frames[j].at = "steps"}}

\* Whoever asks sees a signal made by any() aborted exactly when one of its sources is, with that
\* one's reason, even in the first callback of the source's abort; and abort algorithms run once
\* (create_dependent_abort_signal, signal_abort, run_the_abort_steps).
DependentsFollow ==
    /\ \A d \in s.born : s.dependent[d] =>
         LET over == {x \in Range(s.sources[d]) : Aborted(s, x)} IN
         IF over = {} THEN ~Aborted(s, d) ELSE \E x \in over : s.reason[d] = s.reason[x]
    /\ \A x \in s.born : Aborted(s, x) /\ x \notin ToAbort => s.algorithms[x] = <<>>

\* A listener that was added with a signal is not there any more when the signal's abort steps
\* are done, also if it was added again, or is called by a dispatch that began before; and a once
\* listener is called once, whatever its callback dispatches (add_an_event_listener,
\* invoke_listeners).
ListenersFollow ==
    /\ \A t \in Signals, tie \in s.tied :
         \A i \in DOMAIN s.list[t] :
            s.list[t][i].id = tie[1] /\ Aborted(s, tie[2]) =>
                \/ tie[2] \in ToAbort
                \/ [tag |-> "remove", target |-> t, id |-> tie[1]] \in PendingRemovals
    /\ \A t \in Signals : \A i \in DOMAIN s.list[t] :
         s.list[t][i].once => s.calls[s.list[t][i].id] = 0

InList(target, id) == \E i \in DOMAIN s.list[target] : s.list[target][i].id = id

\* A listener that is not in a list is not called: neither one that was removed by an earlier
\* listener of the same dispatch, nor one that its signal removed (invoke_listeners).
OnlyListenersAreCalled ==
    [][\A id \in DOMAIN s.calls : s'.calls[id] # s.calls[id] => InList(Top(s).target, id)]_s

\* The debug_asserts of Event::start_dispatching and the assertion of any() hold.
EventAsserts == s.ok

=============================================================================
