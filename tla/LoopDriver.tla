----------------------------- MODULE LoopDriver -----------------------------
(***************************************************************************)
(* Several event loops driven on one thread: run_until of                  *)
(* core-runtime/src/event_loop.rs, the interest handles of                 *)
(* event_loop/interest.rs and the async-promise futures of                 *)
(* js/src/promise.rs.                                                      *)
(*                                                                         *)
(* Every request of a server has a loop of its own, but all of them share  *)
(* one JavaScript global: a reaction that belongs to one request can run   *)
(* in the turn of another one's loop, where it releases the first loop's   *)
(* interest, or aborts its fetch.  Drivers are cooperative tasks of an     *)
(* executor: a turn runs from one await to the next without interruption,  *)
(* and a driver parked in its await runs again only once it is woken.      *)
(*                                                                         *)
(* The tasks of a loop are counted, not told apart: what one step does     *)
(* with them is the subject of module EventLoop.                           *)
(***************************************************************************)
EXTENDS Integers, FiniteSets

CONSTANTS
    Loops,          \* the event loops
    Futures,        \* the async-promise futures programs ever spawn
    Unowned,        \* those that may be spawned with no loop active
    Handles,        \* the interest handles programs ever hold at once
    Draining,       \* the loops driven with should_stop = no interest is held
    Stoppable,      \* the loops whose programs call request_stop (WPT's done())
    ForeignCancel,  \* may a turn cancel a future another loop owns?
    MaxDue,         \* bound: ready tasks a loop holds at once
    MaxTimers       \* bound: timers a loop holds at once

ASSUME ConstantsAssumption ==
    /\ Draining \subseteq Loops
    /\ ForeignCancel \in BOOLEAN
    /\ Stoppable \subseteq Loops /\ Unowned \subseteq Futures
    /\ IsFiniteSet(Handles)
    /\ MaxDue \in Nat /\ MaxTimers \in Nat

NoLoop == "none"
ASSUME NoLoopAssumption == NoLoop \notin Loops

VARIABLES
    thread,    \* the loop whose turn it is, or NoLoop between turns
    pc,        \* where each loop's driver is
    due,       \* ready tasks and expired timers
    timers,    \* timers still to expire
    holder,    \* the loop each interest handle was acquired from, if it is held
    interest,  \* InterestState::count
    stop,      \* EventLoop::stop_requested
    sleeping,  \* the await's timer branch holds a deadline
    notified,  \* the await's listener was notified, or its timer branch is done
    woken,     \* the executor has the driver's task scheduled
    where,     \* each future: unspawned, queued in a set of PromiseTls, held by a poll, ...
    owner,     \* PendingPromise::owner, NoLoop for its 0
    io,        \* the future's I/O has completed
    waker      \* the driver that the future's last poll registered

tasks == <<due, timers>>
await == <<sleeping, notified, woken>>
futs  == <<where, owner, io, waker>>
vars  == <<thread, pc, tasks, holder, interest, stop, await, futs>>

-----------------------------------------------------------------------------
Queued  == {f \in Futures : where[f] \in {"pending", "active"}}  \* in PromiseTls
Held    == {f \in Futures : where[f] \in {"held", "polled"}}     \* in a poll's locals
Live    == Queued \cup Held

\* PendingPromise::owned_by: any loop drives a future that was spawned with none active (id 0).
OwnedBy(l, f) == owner[f] \in {l, NoLoop}

\* has_pending_futures: what a poll holds is not seen.
HasPendingFutures(l) == \E f \in Queued : OwnedBy(l, f)

HasTasks(l) == due[l] + timers[l] > 0

\* Mutant: futures in flight do not keep a loop alive.
IsAlive_NoFutures(l) == HasTasks(l) \/ interest[l] > 0

\* EventLoop::is_alive.
IsAlive(l) == HasTasks(l) \/ interest[l] > 0 \/ HasPendingFutures(l)

\* Event::notify(1), for the one listener a parked driver holds.  A notification that
\* finds no listener is lost.
Listening(l) == pc[l] \in {"parked", "poll_parked"}

Notify(l) ==
    /\ notified' = [notified EXCEPT ![l] = @ \/ Listening(l)]
    /\ woken' = [woken EXCEPT ![l] = @ \/ Listening(l)]
    /\ UNCHANGED sleeping

NotifyOnRelease(l) == Notify(l)

-----------------------------------------------------------------------------
(* What JavaScript does while a loop is active (with_event_loop): in a     *)
(* step, while futures are polled or settled, and when the host calls into *)
(* it with no driver running, as for the dispatch of a fetch event.        *)

\* The poll of a future can run JavaScript, such as the lowering of a stream element.
PolledJs(l) ==
    /\ pc[l] \in {"poll_parked", "poll_yield"}
    /\ \E f \in Futures : OwnedBy(l, f) /\ where[f] \in {"polled", "completed"}

Active(l) ==
    /\ thread = l
    /\ pc[l] \in {"step_js", "settle", "host"} \/ PolledJs(l)

\* EventLoop::queue_ready.
QueueReady(l) ==
    /\ Active(l) /\ due[l] < MaxDue
    /\ due' = [due EXCEPT ![l] = @ + 1]
    /\ Notify(l)
    /\ UNCHANGED <<thread, pc, timers, holder, interest, stop, futs>>

\* Mutant: a new timer does not wake the driver to look at the deadlines again.
QueueTimer_Silent(l) ==
    /\ Active(l) /\ timers[l] < MaxTimers
    /\ timers' = [timers EXCEPT ![l] = @ + 1]
    /\ UNCHANGED <<thread, pc, due, holder, interest, stop, await, futs>>

\* insert_timer: the driver is woken to look at the deadlines again.
QueueTimer(l) ==
    /\ Active(l) /\ timers[l] < MaxTimers
    /\ timers' = [timers EXCEPT ![l] = @ + 1]
    /\ Notify(l)
    /\ UNCHANGED <<thread, pc, due, holder, interest, stop, futs>>

\* clear_js_timer on the active loop.  Nothing is notified.
ClearTimer(l) ==
    /\ Active(l) /\ timers[l] > 0
    /\ timers' = [timers EXCEPT ![l] = @ - 1]
    /\ UNCHANGED <<thread, pc, due, holder, interest, stop, await, futs>>

\* acquire_interest_handle of the active loop.
Acquire(l, h) ==
    /\ Active(l) /\ holder[h] = NoLoop
    /\ holder' = [holder EXCEPT ![h] = l]
    /\ interest' = [interest EXCEPT ![l] = @ + 1]
    /\ UNCHANGED <<thread, pc, tasks, stop, await, futs>>

\* Drop for InterestHandle, in the turn of any loop l.
Release(l, h) ==
    /\ Active(l) /\ holder[h] # NoLoop
    /\ interest' = [interest EXCEPT ![holder[h]] = @ - 1]
    /\ NotifyOnRelease(holder[h])
    /\ holder' = [holder EXCEPT ![h] = NoLoop]
    /\ UNCHANGED <<thread, pc, tasks, stop, futs>>

\* Promise::spawn: owned by the active loop.  The future may be complete from the start.
Spawn(l, f) ==
    /\ Active(l) /\ where[f] = "unspawned"
    /\ where' = [where EXCEPT ![f] = "pending"]
    /\ owner' = [owner EXCEPT ![f] = l]
    /\ \E done \in BOOLEAN : io' = [io EXCEPT ![f] = done]
    /\ UNCHANGED <<thread, pc, tasks, holder, interest, stop, await, waker>>

\* The same with no loop active: the owner is 0.
SpawnUnowned(f) ==
    /\ thread = NoLoop /\ f \in Unowned /\ where[f] = "unspawned"
    /\ where' = [where EXCEPT ![f] = "pending"]
    /\ \E done \in BOOLEAN : io' = [io EXCEPT ![f] = done]
    /\ UNCHANGED <<thread, pc, tasks, holder, interest, stop, await, owner, waker>>

\* cancel_pending_future, as the abort of a fetch calls it.  It finds the future in the
\* two sets of PromiseTls only, and wakes nobody.
CancelFuture(l, f) ==
    /\ Active(l) /\ f \in Queued
    /\ ForeignCancel \/ owner[f] = l
    /\ where' = [where EXCEPT ![f] = "cancelled"]
    /\ UNCHANGED <<thread, pc, tasks, holder, interest, stop, await, owner, io, waker>>

\* request_stop on the active loop.
RequestStop(l) ==
    /\ Active(l) /\ l \in Stoppable
    /\ stop' = [stop EXCEPT ![l] = TRUE]
    /\ UNCHANGED <<thread, pc, tasks, holder, interest, await, futs>>

Js(l) ==
    \/ QueueReady(l) \/ QueueTimer(l) \/ ClearTimer(l) \/ RequestStop(l)
    \/ \E h \in Handles : Acquire(l, h) \/ Release(l, h)
    \/ \E f \in Futures : Spawn(l, f) \/ CancelFuture(l, f)

-----------------------------------------------------------------------------
(* run_until.                                                              *)

\* with_event_loop around host code, such as the dispatch of a request's event.
HostEnter(l) ==
    /\ thread = NoLoop /\ pc[l] = "out"
    /\ thread' = l
    /\ pc' = [pc EXCEPT ![l] = "host"]
    /\ UNCHANGED <<tasks, holder, interest, stop, await, futs>>

HostLeave(l) ==
    /\ thread = l /\ pc[l] = "host"
    /\ thread' = NoLoop
    /\ pc' = [pc EXCEPT ![l] = "out"]
    /\ UNCHANGED <<tasks, holder, interest, stop, await, futs>>

\* A caller awaits run_until on this loop, possibly after an earlier run of it ended.
Drive(l) ==
    /\ thread = NoLoop /\ pc[l] = "out"
    /\ thread' = l
    /\ pc' = [pc EXCEPT ![l] = "top"]
    /\ UNCHANGED <<tasks, holder, interest, stop, await, futs>>

\* EventLoop::step: everything due runs, and its JavaScript with it.
StepRuns(l) ==
    /\ thread = l /\ pc[l] = "top"
    /\ due[l] > 0
    /\ due' = [due EXCEPT ![l] = 0]
    /\ pc' = [pc EXCEPT ![l] = "step_js"]
    /\ UNCHANGED <<thread, timers, holder, interest, stop, await, futs>>

\* It returns StepOutcome::Progressed if a task ran.  The other two outcomes, Idle and
\* Done, are told apart by IsAlive.
StepReturns(l) ==
    /\ thread = l
    /\ \/ pc[l] = "step_js" /\ pc' = [pc EXCEPT ![l] = "progressed"]
       \/ pc[l] = "top" /\ due[l] = 0 /\ pc' = [pc EXCEPT ![l] = "quiet"]
    /\ UNCHANGED <<thread, tasks, holder, interest, stop, await, futs>>

Decides(l) == thread = l /\ pc[l] \in {"progressed", "quiet"}
CallerStops(l) == l \in Draining /\ interest[l] = 0

Leave(l) ==
    /\ thread' = NoLoop
    /\ pc' = [pc EXCEPT ![l] = "out"]
    /\ woken' = [woken EXCEPT ![l] = FALSE]
    /\ notified' = [notified EXCEPT ![l] = FALSE]
    /\ sleeping' = [sleeping EXCEPT ![l] = FALSE]

\* cancel_pending_futures_for.
CancelOwn(l) ==
    where' = [f \in Futures |-> IF f \in Queued /\ owner[f] = l
                                THEN "cancelled" ELSE where[f]]

\* request_stop was called: it overrides everything else.
ReturnStopped(l) ==
    /\ Decides(l) /\ stop[l]
    /\ CancelOwn(l)
    /\ Leave(l)
    /\ UNCHANGED <<tasks, holder, interest, stop, owner, io, waker>>

\* should_stop held: the loop's work stays in place for a later driver.
ReturnCallerStop(l) ==
    /\ Decides(l) /\ ~stop[l] /\ CallerStops(l)
    /\ Leave(l)
    /\ UNCHANGED <<tasks, holder, interest, stop, futs>>

\* StepOutcome::Done with no future in flight.
ReturnDone(l) ==
    /\ Decides(l) /\ ~stop[l] /\ ~CallerStops(l)
    /\ pc[l] = "quiet" /\ ~IsAlive(l)
    /\ Leave(l)
    /\ UNCHANGED <<tasks, holder, interest, stop, futs>>

\* StepOutcome::Progressed: yield_now gives the executor one turn.
Yield(l) ==
    /\ Decides(l) /\ ~stop[l] /\ ~CallerStops(l)
    /\ pc[l] = "progressed"
    /\ thread' = NoLoop
    /\ pc' = [pc EXCEPT ![l] = "yield"]
    /\ UNCHANGED <<tasks, holder, interest, stop, await, futs>>

\* poll_pending_futures takes both sets out of PromiseTls, other loops' futures included.
Taken == [f \in Futures |-> IF f \in Queued THEN "held" ELSE where[f]]

\* StepOutcome::Idle: the listener is created, no await away from the step, and the
\* await is polled for the first time, the futures last.
Park(l) ==
    /\ Decides(l) /\ ~stop[l] /\ ~CallerStops(l)
    /\ pc[l] = "quiet" /\ IsAlive(l)
    /\ sleeping' = [sleeping EXCEPT ![l] = timers[l] > 0]
    /\ notified' = [notified EXCEPT ![l] = FALSE]
    /\ woken' = [woken EXCEPT ![l] = FALSE]
    /\ pc' = [pc EXCEPT ![l] = "poll_parked"]
    /\ where' = Taken
    /\ UNCHANGED <<thread, tasks, holder, interest, stop, owner, io, waker>>

\* Mutant: after progress the loop steps again without polling its futures.
ResumeYield_NoPoll(l) ==
    /\ thread = NoLoop /\ pc[l] = "yield"
    /\ thread' = l
    /\ pc' = [pc EXCEPT ![l] = "top"]
    /\ UNCHANGED <<tasks, holder, interest, stop, await, futs>>

\* The executor resumes the driver after its yield, which polls the futures once.
ResumeYield(l) ==
    /\ thread = NoLoop /\ pc[l] = "yield"
    /\ thread' = l
    /\ pc' = [pc EXCEPT ![l] = "poll_yield"]
    /\ where' = Taken
    /\ UNCHANGED <<tasks, holder, interest, stop, await, owner, io, waker>>

\* The executor polls a driver that was woken.  The timer and the listener win over the
\* futures, which are then not polled.
ResumeParked(l) ==
    /\ thread = NoLoop /\ pc[l] = "parked" /\ woken[l]
    /\ thread' = l
    /\ woken' = [woken EXCEPT ![l] = FALSE]
    /\ \/ /\ notified[l]
          /\ pc' = [pc EXCEPT ![l] = "settle"]
          /\ UNCHANGED where
       \/ /\ ~notified[l]
          /\ pc' = [pc EXCEPT ![l] = "poll_parked"]
          /\ where' = Taken
    /\ UNCHANGED <<tasks, holder, interest, stop, sleeping, notified, owner, io, waker>>

Polling(l) == thread = l /\ pc[l] \in {"poll_parked", "poll_yield"}

\* Mutant: a poll drives whatever futures it took.
MayPoll_Any(l, f) == where[f] = "held"

\* Another loop's future is left for that loop's wait to poll.
MayPoll(l, f) == where[f] = "held" /\ OwnedBy(l, f)

\* One future is polled, and completes or registers the driver's waker.
PollOne(l, f) ==
    /\ Polling(l) /\ MayPoll(l, f)
    /\ \/ /\ io[f]
          /\ where' = [where EXCEPT ![f] = "completed"]
          /\ UNCHANGED waker
       \/ /\ ~io[f]
          /\ where' = [where EXCEPT ![f] = "polled"]
          /\ waker' = [waker EXCEPT ![f] = l]
    /\ UNCHANGED <<thread, pc, tasks, holder, interest, stop, await, owner, io>>

Restored == [f \in Futures |-> IF f \in Held THEN "active" ELSE where[f]]
Completed == {f \in Futures : where[f] = "completed"}

\* Mutant: a future spawned by a poll is left for whenever the loop next wakes.
PollReturns_NoSelfWake(l) ==
    /\ Polling(l) /\ ~\E f \in Futures : MayPoll(l, f)
    /\ where' = Restored
    /\ \/ /\ pc[l] = "poll_yield" \/ Completed # {} \/ PolledJs(l)
          /\ pc' = [pc EXCEPT ![l] = "settle"]
          /\ UNCHANGED thread
       \/ /\ pc[l] = "poll_parked" /\ Completed = {}
          /\ pc' = [pc EXCEPT ![l] = "parked"]
          /\ thread' = NoLoop
    /\ UNCHANGED <<tasks, holder, interest, stop, await, owner, io, waker>>

\* The poll puts back what is still pending.  Something spawned meanwhile makes it wake
\* itself.  The await goes on unless a future completed or the polls left jobs queued.
PollReturns(l) ==
    /\ Polling(l) /\ ~\E f \in Futures : MayPoll(l, f)
    /\ where' = Restored
    /\ woken' = [woken EXCEPT ![l] = @ \/ \E f \in Futures : where[f] = "pending"]
    /\ \/ /\ pc[l] = "poll_yield" \/ Completed # {} \/ PolledJs(l)
          /\ pc' = [pc EXCEPT ![l] = "settle"]
          /\ UNCHANGED thread
       \/ /\ pc[l] = "poll_parked" /\ Completed = {}
          /\ pc' = [pc EXCEPT ![l] = "parked"]
          /\ thread' = NoLoop
    /\ UNCHANGED <<tasks, holder, interest, stop, sleeping, notified, owner, io, waker>>

\* settle_completed_futures: the promises settle one by one, with the loop active.
SettleOne(l, f) ==
    /\ thread = l /\ pc[l] = "settle" /\ where[f] = "completed"
    /\ where' = [where EXCEPT ![f] = "settled"]
    /\ UNCHANGED <<thread, pc, tasks, holder, interest, stop, await, owner, io, waker>>

\* The reactions are drained and the driver goes back to the top of its loop.
SettleReturns(l) ==
    /\ thread = l /\ pc[l] = "settle" /\ Completed = {}
    /\ pc' = [pc EXCEPT ![l] = "top"]
    /\ UNCHANGED <<thread, tasks, holder, interest, stop, await, futs>>

\* The caller drops the driver at one of its awaits: a time limit passed, or the send it
\* was feeding is done.  drain_lifetime_work then cancels the loop's futures.
Abandon(l) ==
    /\ thread = NoLoop /\ pc[l] \in {"parked", "yield"}
    /\ pc' = [pc EXCEPT ![l] = "out"]
    /\ woken' = [woken EXCEPT ![l] = FALSE]
    /\ notified' = [notified EXCEPT ![l] = FALSE]
    /\ sleeping' = [sleeping EXCEPT ![l] = FALSE]
    /\ CancelOwn(l) \/ UNCHANGED where
    /\ UNCHANGED <<thread, tasks, holder, interest, stop, owner, io, waker>>

-----------------------------------------------------------------------------
(* The world: the clock and the I/O reactor, which run between turns.      *)

\* The deadline the await sleeps for passes.
SleepOver(l) ==
    /\ sleeping' = [sleeping EXCEPT ![l] = FALSE]
    /\ notified' = [notified EXCEPT ![l] = @ \/ sleeping[l]]
    /\ woken' = [woken EXCEPT ![l] = @ \/ sleeping[l]]

TimerExpires(l) ==
    /\ thread = NoLoop /\ timers[l] > 0 /\ due[l] < MaxDue
    /\ timers' = [timers EXCEPT ![l] = @ - 1]
    /\ due' = [due EXCEPT ![l] = @ + 1]
    /\ SleepOver(l)
    /\ UNCHANGED <<thread, pc, holder, interest, stop, futs>>

\* The timer the await sleeps for was cleared, which does not end the sleep early.
SleepElapses(l) ==
    /\ thread = NoLoop /\ sleeping[l]
    /\ SleepOver(l)
    /\ UNCHANGED <<thread, pc, tasks, holder, interest, stop, futs>>

IoCompletes(f) ==
    /\ thread = NoLoop /\ f \in Live /\ ~io[f]
    /\ io' = [io EXCEPT ![f] = TRUE]
    /\ woken' = [l \in Loops |-> woken[l] \/ (waker[f] = l /\ pc[l] \in {"parked", "yield"})]
    /\ UNCHANGED <<thread, pc, tasks, holder, interest, stop, sleeping, notified,
                   where, owner, waker>>

-----------------------------------------------------------------------------
Init ==
    /\ thread = NoLoop
    /\ pc = [l \in Loops |-> "out"]
    /\ due = [l \in Loops |-> 0] /\ timers = [l \in Loops |-> 0]
    /\ holder = [h \in Handles |-> NoLoop]
    /\ interest = [l \in Loops |-> 0]
    /\ stop = [l \in Loops |-> FALSE]
    /\ sleeping = [l \in Loops |-> FALSE]
    /\ notified = [l \in Loops |-> FALSE]
    /\ woken = [l \in Loops |-> FALSE]
    /\ where = [f \in Futures |-> "unspawned"]
    /\ owner = [f \in Futures |-> NoLoop]
    /\ io = [f \in Futures |-> FALSE]
    /\ waker = [f \in Futures |-> NoLoop]

\* What the driver of l does once it is its turn.
Turn(l) ==
    \/ HostLeave(l)
    \/ StepRuns(l) \/ StepReturns(l)
    \/ ReturnStopped(l) \/ ReturnCallerStop(l) \/ ReturnDone(l) \/ Yield(l) \/ Park(l)
    \/ \E f \in Futures : PollOne(l, f) \/ SettleOne(l, f)
    \/ PollReturns(l) \/ SettleReturns(l)

Resume(l) == ResumeYield(l) \/ ResumeParked(l)

Call(l) == HostEnter(l) \/ Drive(l) \/ Abandon(l)

Next ==
    \/ \E l \in Loops : Js(l) \/ Turn(l) \/ Resume(l) \/ Call(l)
                      \/ TimerExpires(l) \/ SleepElapses(l)
    \/ \E f \in Futures : SpawnUnowned(f) \/ IoCompletes(f)

Spec == Init /\ [][Next]_vars

\* A turn ends: its JavaScript returns, its polls do not block, and a future's polls do not
\* leave jobs behind for ever.  The executor runs every task that is scheduled, and
\* schedules none so often that another is passed over for ever.  A sleep ends.
FairSpec ==
    /\ Spec
    /\ \A l \in Loops :
         /\ WF_vars(Turn(l))
         /\ SF_vars(Resume(l))
         /\ SF_vars(SleepElapses(l))
         /\ SF_vars(PollReturns(l) /\ thread' = NoLoop)

-----------------------------------------------------------------------------
(* Properties.                                                             *)

Pcs == {"out", "host", "top", "step_js", "progressed", "quiet", "yield", "parked",
        "poll_parked", "poll_yield", "settle"}

\* Types of the drivers, futures and handles.  The interest count is a usize: it never
\* drops below zero, in whichever loop's turn a handle is released.
TypeOK ==
    /\ thread \in Loops \cup {NoLoop}
    /\ pc \in [Loops -> Pcs]
    /\ due \in [Loops -> Nat] /\ timers \in [Loops -> Nat] /\ interest \in [Loops -> Nat]
    /\ holder \in [Handles -> Loops \cup {NoLoop}]
    /\ stop \in [Loops -> BOOLEAN]
    /\ sleeping \in [Loops -> BOOLEAN] /\ notified \in [Loops -> BOOLEAN]
    /\ woken \in [Loops -> BOOLEAN]
    /\ where \in [Futures -> {"unspawned", "pending", "active", "held", "polled",
                              "completed", "settled", "cancelled"}]
    /\ owner \in [Futures -> Loops \cup {NoLoop}]
    /\ io \in [Futures -> BOOLEAN]
    /\ waker \in [Futures -> Loops \cup {NoLoop}]

\* What a loop waits for: its own futures, and those that are nobody's.
Awaited(l) == {f \in Live \cup Completed : OwnedBy(l, f)}
HandlesOf(l) == {h \in Handles : holder[h] = l}

\* A driver that is parked and not scheduled has nothing it could do: no task of its loop is
\* ready, and each of its futures has been polled since it was spawned and is still waiting
\* with this driver's waker, whichever loop's turn queued, released or completed what.
NoLostWakeup ==
    \A l \in Loops : pc[l] = "parked" /\ ~woken[l] =>
        /\ due[l] = 0
        /\ \A f \in Futures : owner[f] = l /\ where[f] \in {"pending", "active"} =>
             where[f] = "active" /\ waker[f] = l /\ ~io[f]

\* A parked driver has something to wait for: if the last interest it waits for is released in
\* the turn of another loop, the release woke it (interest.rs, InterestHandle).  Two things may
\* go without a word: a canceled future (cancel_pending_future wakes nobody), and an unowned
\* one that another loop settled.
NothingLeftWakes ==
    \A l \in Loops : pc[l] = "parked" /\ ~woken[l] =>
        /\ ~CallerStops(l)
        /\ \/ HasTasks(l) \/ HandlesOf(l) # {} \/ Awaited(l) # {}
           \/ \E f \in Futures : OwnedBy(l, f) /\ where[f] = "cancelled"
           \/ \E f \in Futures : owner[f] = NoLoop /\ where[f] = "settled"

\* run_until gives up on a loop as done only if nothing of the loop's remains: no task,
\* no interest handle anybody still holds, and no future of it, or of nobody, in any of the
\* places a future can be, a poll in progress included.
DoneMeansNothingLeft ==
    [][\A l \in Loops : ReturnDone(l) =>
         ~HasTasks(l) /\ HandlesOf(l) = {} /\ Awaited(l) = {}]_vars

\* A promise is settled in a turn of the loop that spawned its future, so that its
\* reactions reach that loop's timers and interest.
SettledByOwner ==
    [][\A f \in Futures : where'[f] = "settled" /\ where[f] # "settled" =>
         OwnedBy(thread, f)]_vars

\* A stopped loop leaves no future behind: what it had in flight is dropped while the
\* JSContext is alive.  But "unowned futures [...] are left in place: any loop may be waiting
\* on one".
StopDropsFutures ==
    [][\A l \in Loops : ReturnStopped(l) =>
         \A f \in Futures : IF owner[f] = l THEN where'[f] \in {"settled", "cancelled"}
                            ELSE where'[f] = where[f]]_vars

\* A future is settled in a turn of the loop that spawned it, and goes with the loop that is
\* stopped.
FuturesStayTheirs == SettledByOwner /\ StopDropsFutures

\* A parked driver is woken for whatever it has to do, and when it has nothing left to wait for.
WokenInTime == NoLostWakeup /\ NothingLeftWakes

\* A future whose I/O completed is settled or dropped, unless its loop stops being driven;
\* in particular a loop whose tasks are ready for ever does not starve it.
CompletedFuturesSettle ==
    \A f \in Futures :
        (f \in Live /\ io[f] /\ \E l \in Loops : owner[f] = l /\ pc[l] # "out")
        ~> (where[f] \in {"settled", "cancelled"} \/ \E l \in Loops : owner[f] = l /\ pc[l] = "out")

\* A task that became ready, or a timer that expired, runs as long as its loop is driven,
\* also if the timer was set while the driver was on its way into the await.
DueTasksRun ==
    \A l \in Loops : (due[l] > 0 /\ pc[l] # "out") ~> (due[l] = 0 \/ pc[l] = "out")

=============================================================================
