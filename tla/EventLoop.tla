----------------------------- MODULE EventLoop -----------------------------
(***************************************************************************)
(* One event loop's task registry and dispatcher                           *)
(* (core-runtime/src/event_loop.rs, event_loop/timer.rs).                  *)
(*                                                                         *)
(* A loop owns tasks, each queued, ready, or taken out to run.  `step'     *)
(* expires timers, freezes the ready tasks into a batch and runs them one  *)
(* by one, draining microtasks after each.  The JavaScript a task runs may *)
(* re-enter the loop at any point of the batch: it sets and clears timers, *)
(* so it may cancel a later task of the batch, or the interval that is     *)
(* running.  Each such call is a step of its own here, which is how the    *)
(* handlers of all possible programs are represented.                      *)
(***************************************************************************)
EXTENDS Integers, FiniteSets

CONSTANTS
    Timeouts,    \* the timeouts programs pass to setTimeout/setInterval (i32)
    MinNested,   \* MIN_NESTED of clamp_nested_timeout, 4 ms in the code
    NestLimit,   \* the nesting level above which the clamp applies, 5 in the code
    MaxNesting,  \* bound: stands for u32::MAX, where saturating_add stops
    MaxTasks,    \* bound: tasks ever queued
    MaxTime      \* bound: clock readings

ASSUME ConstantsAssumption ==
    /\ Timeouts \subseteq Int
    /\ MinNested \in Nat
    /\ NestLimit \in Nat
    /\ MaxNesting \in Nat
    /\ MaxTasks \in Nat
    /\ MaxTime \in Nat

NoDeadline == -1   \* Option::None orders before every Some(deadline)
NoTimerId  == 0    \* JS timer ids are greater than zero
NoTask     == -1

VARIABLES
    now,          \* the clock that Instant::now() reads
    nextId,       \* EventLoop::next_id
    entries,      \* TaskQueue::entries: every live task by id
    ready,        \* TaskQueue::ready, by (deadline, id)
    timers,       \* TaskQueue::timers, by (deadline, id)
    jsTimers,     \* EventLoop::js_timers: JS timer id -> task id
    timerCounter, \* the per-global counter behind the JS timer ids
    phase,        \* where the thread is: "idle" | "batch" | "task" | "microtasks"
    batch,        \* the tasks of this step not reached yet, in the order of `ready'
    running,      \* the task taken out of the queue to run, or NoTask
    current,      \* that task's entry
    nesting,      \* CURRENT_TIMER_NESTING
    cleared,      \* history: the JS timer ids passed to clearTimeout/clearInterval
    lastFired     \* history: the deadline of the last timer started

queue == <<entries, ready, timers>>
ids   == <<nextId, jsTimers, timerCounter>>
turn  == <<phase, batch, running, current, nesting>>
vars  == <<now, queue, ids, turn, cleared, lastFired>>

-----------------------------------------------------------------------------
(* TaskEntry and TaskQueue.                                                *)

Entry == [ready : BOOLEAN, deadline : Int, repeat : BOOLEAN, delay : Nat,
          level : Nat, timerId : Nat]

NoEntry == [ready |-> FALSE, deadline |-> NoDeadline, repeat |-> FALSE, delay |-> 0,
            level |-> 0, timerId |-> NoTimerId]

\* TaskEntry::ready_key: tasks without a deadline first in allocation order,
\* then timers by deadline, ties broken by allocation order.
Key(id, e) == <<e.deadline, id>>
KeyLE(k, j) == k[1] < j[1] \/ (k[1] = j[1] /\ k[2] <= j[2])

LiveIds == DOMAIN entries
IsTimer(e) == e.deadline # NoDeadline

Insert(id, e) ==
    /\ entries' = [i \in LiveIds \cup {id} |-> IF i = id THEN e ELSE entries[i]]
    /\ ready' = IF e.ready THEN ready \cup {Key(id, e)} ELSE ready
    /\ timers' = IF ~e.ready /\ IsTimer(e) THEN timers \cup {Key(id, e)} ELSE timers

\* Mutant: remove drops the entry and its pending timer, but leaves a ready key behind.
Remove_KeepsReadyKey(id) ==
    LET k == Key(id, entries[id]) IN
    /\ entries' = [i \in LiveIds \ {id} |-> entries[i]]
    /\ timers' = timers \ {k}
    /\ UNCHANGED ready

Remove(id) ==
    LET k == Key(id, entries[id]) IN
    /\ entries' = [i \in LiveIds \ {id} |-> entries[i]]
    /\ ready'  = IF entries[id].ready THEN ready \ {k} ELSE ready
    /\ timers' = IF ~entries[id].ready /\ IsTimer(entries[id])
                 THEN timers \ {k} ELSE timers

\* TaskQueue::mark_ready for every live task of S that is not ready yet.
MarkReady(S) ==
    /\ entries' = [i \in LiveIds |->
                     IF i \in S THEN [entries[i] EXCEPT !.ready = TRUE] ELSE entries[i]]
    /\ ready' = ready \cup {Key(i, entries[i]) : i \in S}
    /\ timers' = timers \ {Key(i, entries[i]) : i \in S}

\* TaskQueue::expire_timers: the timers whose deadline is at or before now.
Expired == {i \in LiveIds : \E k \in timers : k[2] = i /\ k[1] <= now}

-----------------------------------------------------------------------------
(* The operations that queue, signal and cancel tasks.  JavaScript reaches *)
(* them through with_active_event_loop: while a handler or a microtask     *)
(* runs, and outside of a step while a script is evaluated or futures are  *)
(* settled.                                                                *)

JsRuns == phase \in {"idle", "task", "microtasks"}

CanQueue == JsRuns /\ nextId < MaxTasks

\* EventLoop::queue (isReady false) and queue_ready (true).
QueueTask(isReady) ==
    /\ CanQueue
    /\ Insert(nextId, [ready |-> isReady, deadline |-> NoDeadline, repeat |-> FALSE,
                       delay |-> 0, level |-> 0, timerId |-> NoTimerId])
    /\ nextId' = nextId + 1
    /\ UNCHANGED <<now, jsTimers, timerCounter, turn, cleared, lastFired>>

\* timeout.max(0)
AtLeastZero(t) == IF t < 0 THEN 0 ELSE t

\* EventLoop::queue_timer, called by AbortSignal.timeout with now + delay.
QueueTimer(timeout) ==
    /\ CanQueue
    /\ Insert(nextId, [ready |-> FALSE, deadline |-> now + AtLeastZero(timeout),
                       repeat |-> FALSE, delay |-> 0, level |-> 0,
                       timerId |-> NoTimerId])
    /\ nextId' = nextId + 1
    /\ UNCHANGED <<now, jsTimers, timerCounter, turn, cleared, lastFired>>

\* EventLoop::signal_ready on a task from `queue': no effect on a task that is ready,
\* run or cancelled.
SignalReady(id) ==
    /\ JsRuns
    /\ id \in LiveIds /\ ~entries[id].ready /\ ~IsTimer(entries[id])
    /\ MarkReady({id})
    /\ UNCHANGED <<now, ids, turn, cleared, lastFired>>

\* EventLoop::cancel_if_queued.  Timers JS knows are cancelled by ClearTimer.
CancelIfQueued(id) ==
    /\ JsRuns
    /\ id \in LiveIds /\ entries[id].timerId = NoTimerId
    /\ Remove(id)
    /\ UNCHANGED <<now, ids, turn, cleared, lastFired>>

\* clamp_nested_timeout.
ClampNested(level, delay) ==
    IF level > NestLimit /\ delay < MinNested THEN MinNested ELSE delay

Deeper(level) == IF level < MaxNesting THEN level + 1 ELSE level

\* allocate_js_timer_id: the counter's next value that is nonzero and not in the map.
FreshTimerId == IF timerCounter = 0 THEN 1 ELSE timerCounter

\* setTimeout and setInterval: timer_initialization_steps and queue_js_timer.
SetTimer(timeout, isRepeat) ==
    LET delay == ClampNested(nesting, AtLeastZero(timeout)) IN
    /\ CanQueue
    /\ Insert(nextId, [ready |-> FALSE, deadline |-> now + delay, repeat |-> isRepeat,
                       delay |-> delay, level |-> Deeper(nesting),
                       timerId |-> FreshTimerId])
    /\ jsTimers' = [t \in DOMAIN jsTimers \cup {FreshTimerId} |->
                      IF t = FreshTimerId THEN nextId ELSE jsTimers[t]]
    /\ nextId' = nextId + 1
    /\ timerCounter' = FreshTimerId + 1
    /\ UNCHANGED <<now, turn, cleared, lastFired>>

\* clearTimeout and clearInterval: clear_js_timer.  The id may be of a timer that
\* is queued, that is running right now, or that fired or was cleared before.
ClearTimer(t) ==
    /\ JsRuns
    /\ t \in 1..(timerCounter - 1)
    /\ jsTimers' = [u \in DOMAIN jsTimers \ {t} |-> jsTimers[u]]
    /\ IF t \in DOMAIN jsTimers /\ jsTimers[t] \in LiveIds
       THEN Remove(jsTimers[t])
       ELSE UNCHANGED queue
    /\ cleared' = cleared \cup {t}
    /\ UNCHANGED <<now, nextId, timerCounter, turn, lastFired>>

-----------------------------------------------------------------------------
(* EventLoop::step and the run of one task.                                *)

StepBegin ==
    /\ phase = "idle"
    /\ MarkReady(Expired)
    /\ batch' = ready'
    /\ phase' = "batch"
    /\ UNCHANGED <<now, ids, running, current, nesting, cleared, lastFired>>

IsNext(k) == k \in batch /\ \A j \in batch : KeyLE(k, j)

\* Mutant: the walk does not get past a task that was cancelled.
SkipCancelled_Stays ==
    /\ phase = "batch"
    /\ \E k \in batch : IsNext(k) /\ k[2] \notin LiveIds
    /\ UNCHANGED vars

\* An earlier task of the batch cancelled this one.
SkipCancelled ==
    /\ phase = "batch"
    /\ \E k \in batch :
         /\ IsNext(k)
         /\ k[2] \notin LiveIds
         /\ batch' = batch \ {k}
    /\ UNCHANGED <<now, queue, ids, phase, running, current, nesting, cleared, lastFired>>

\* The task is taken out before it runs; a timer task sets CURRENT_TIMER_NESTING.
StartTask ==
    /\ phase = "batch"
    /\ \E k \in batch :
         /\ IsNext(k)
         /\ k[2] \in LiveIds
         /\ batch' = batch \ {k}
         /\ Remove(k[2])
         /\ running' = k[2]
         /\ current' = entries[k[2]]
         /\ nesting' = entries[k[2]].level
         /\ lastFired' = IF IsTimer(entries[k[2]]) THEN entries[k[2]].deadline ELSE lastFired
    /\ phase' = "task"
    /\ UNCHANGED <<now, ids, cleared>>

\* The interval that runs, queued again to run `delay' after `base'.
Repetition(base) ==
    [ready |-> FALSE, deadline |-> base + ClampNested(current.level, current.delay),
     repeat |-> TRUE, delay |-> current.delay, level |-> Deeper(current.level),
     timerId |-> current.timerId]

StillSet == current.timerId \in DOMAIN jsTimers /\ jsTimers[current.timerId] = running

\* Mutant: an interval is queued again without asking whether its callback cleared it.
Requeue_Always ==
    /\ current.repeat
    /\ Insert(running, Repetition(now))
    /\ UNCHANGED jsTimers

\* Mutant: an interval is queued again relative to its last deadline, not to now.
Requeue_FromDeadline ==
    /\ current.repeat
    /\ IF StillSet THEN Insert(running, Repetition(current.deadline)) ELSE UNCHANGED queue
    /\ UNCHANGED jsTimers

\* setInterval: TimerTask::run re-queues under the same TaskId, whether or not the
\* handler threw, unless the timer was cleared meanwhile (requeue_js_timer).
Requeue ==
    /\ current.repeat
    /\ IF StillSet THEN Insert(running, Repetition(now)) ELSE UNCHANGED queue
    /\ UNCHANGED jsTimers

\* Mutant: a one-shot timer's id stays in the map after it fired.
Release_KeepsId ==
    /\ ~current.repeat
    /\ UNCHANGED <<queue, jsTimers>>

\* setTimeout: js_timer_fired.  A task JS did not set has no id to release.
Release ==
    /\ ~current.repeat
    /\ jsTimers' = [u \in DOMAIN jsTimers \ {current.timerId} |-> jsTimers[u]]
    /\ UNCHANGED queue

\* The rest of Task::run after the handler returned or threw.
FinishTask ==
    /\ phase = "task"
    /\ Requeue \/ Release
    /\ nesting' = 0
    /\ phase' = "microtasks"
    /\ running' = NoTask /\ current' = NoEntry
    /\ UNCHANGED <<now, nextId, timerCounter, batch, cleared, lastFired>>

\* run_microtasks returns: the task's turn is over.
DrainMicrotasks ==
    /\ phase = "microtasks"
    /\ phase' = "batch"
    /\ UNCHANGED <<now, queue, ids, batch, running, current, nesting, cleared, lastFired>>

\* The batch is exhausted and step returns its StepOutcome.
StepEnd ==
    /\ phase = "batch"
    /\ batch = {}
    /\ phase' = "idle"
    /\ UNCHANGED <<now, queue, ids, batch, running, current, nesting, cleared, lastFired>>

\* Time passes, also while a handler runs.
Tick ==
    /\ now < MaxTime
    /\ now' = now + 1
    /\ UNCHANGED <<queue, ids, turn, cleared, lastFired>>

-----------------------------------------------------------------------------
\* EventLoop::new.
Init ==
    /\ now = 0
    /\ nextId = 0
    /\ entries = [i \in {} |-> NoEntry]
    /\ ready = {} /\ timers = {}
    /\ jsTimers = [t \in {} |-> 0]
    /\ timerCounter = 0
    /\ phase = "idle"
    /\ batch = {}
    /\ running = NoTask
    /\ current = NoEntry
    /\ nesting = 0
    /\ cleared = {}
    /\ lastFired = NoDeadline

Js ==
    \/ \E r \in BOOLEAN : QueueTask(r)
    \/ \E t \in Timeouts : QueueTimer(t)
    \/ \E t \in Timeouts, r \in BOOLEAN : SetTimer(t, r)
    \/ \E t \in 1..MaxTasks : ClearTimer(t)
    \/ \E i \in 0..(MaxTasks - 1) : SignalReady(i) \/ CancelIfQueued(i)

Dispatch == StepBegin \/ SkipCancelled \/ StartTask \/ FinishTask
            \/ DrainMicrotasks \/ StepEnd

Next == Js \/ Dispatch \/ Tick

Spec == Init /\ [][Next]_vars

\* The driver keeps stepping, every handler returns, and every microtask drain ends.
FairSpec == Spec /\ WF_vars(Dispatch)

-----------------------------------------------------------------------------
(* Properties.                                                             *)

Phases == {"idle", "batch", "task", "microtasks"}

\* Every variable keeps its type: the queue, the indexes and the running task hold what
\* TaskQueue and the timer map can hold, and no id or level drops below zero.
TypeOK ==
    /\ now \in Nat /\ nextId \in Nat /\ timerCounter \in Nat /\ nesting \in Nat
    /\ entries \in [LiveIds -> Entry] /\ LiveIds \subseteq Nat
    /\ ready \subseteq Int \X Nat /\ timers \subseteq Int \X Nat
    /\ batch \subseteq Int \X Nat
    /\ jsTimers \in [DOMAIN jsTimers -> Nat] /\ DOMAIN jsTimers \subseteq Nat
    /\ phase \in Phases
    /\ running \in Nat \cup {NoTask}
    /\ current \in Entry
    /\ cleared \subseteq Nat
    /\ lastFired \in Int

\* The three indexes of TaskQueue never disagree: the ready set holds exactly the keys of
\* the ready entries, and the timer set exactly those of the timers still to expire,
\* through every insertion, cancellation, expiry and re-queueing (event_loop.rs, TaskQueue).
IndexesAgree ==
    /\ ready  = {Key(i, entries[i]) : i \in {j \in LiveIds : entries[j].ready}}
    /\ timers = {Key(i, entries[i]) : i \in {j \in LiveIds : ~entries[j].ready /\ IsTimer(entries[j])}}

\* The map of JS timer ids and the queue never drift apart: an id in the map leads to a
\* task that is queued or running under that id, and a queued timer that JavaScript set
\* can be cleared through its id (js_timers against TaskQueue::entries, at every point
\* where JavaScript can run).
TimerIdsMatchTasks ==
    /\ \A t \in DOMAIN jsTimers :
         \/ jsTimers[t] \in LiveIds /\ entries[jsTimers[t]].timerId = t
         \/ /\ phase = "task" /\ running = jsTimers[t] /\ current.timerId = t
            /\ running \notin LiveIds
    /\ \A i \in LiveIds : entries[i].timerId # NoTimerId =>
         /\ entries[i].timerId \in DOMAIN jsTimers
         /\ jsTimers[entries[i].timerId] = i

\* After clearTimeout(id) or clearInterval(id) the timer's handler never starts again,
\* although it may have been ready in the same batch, or running, when it was cleared.
ClearedNeverStarts ==
    [][phase = "batch" /\ phase' = "task" => current'.timerId \notin cleared]_vars

\* Timers start in the order of their deadlines, across batches as well as within one:
\* when a timer starts, no timer with a later deadline has started before it.
DeadlineOrder ==
    [][phase = "batch" /\ phase' = "task" /\ IsTimer(current') =>
         lastFired <= current'.deadline]_vars

\* A step first runs the ready tasks that are not timers: none is passed over for a timer
\* that was ready in the same batch, whatever the handlers before it did.
NonTimersFirst ==
    [][phase = "batch" /\ phase' = "task" /\ IsTimer(current') =>
         \A k \in batch : k[1] = NoDeadline => k[2] \notin LiveIds]_vars

\* A timer set from a chain of timers nested deeper than the limit is at least MinNested
\* away when it is queued, whether it was set anew or is a repetition of setInterval
\* (clamp_nested_timeout): a zero-delay chain cannot stay ready for ever.
NestedTimersWait ==
    [][\A i \in DOMAIN entries' :
         /\ entries'[i].timerId # NoTimerId
         /\ entries'[i].level > NestLimit + 1
         /\ i \notin LiveIds
         => entries'[i].deadline >= now + MinNested]_vars

\* What a step promises about when timers run: in the order of their deadlines, after the tasks
\* that are not timers, and not at once for ever.
TimersInTurn == DeadlineOrder /\ NonTimersFirst /\ NestedTimersWait

\* A task that is ready is started or cancelled, even while zero-delay intervals keep
\* re-queueing themselves: the batch is frozen before it runs.
IsReady(i) == i \in LiveIds /\ entries[i].ready
ReadyTasksRun == \A i \in 0..(MaxTasks - 1) : IsReady(i) ~> ~IsReady(i)

=============================================================================
