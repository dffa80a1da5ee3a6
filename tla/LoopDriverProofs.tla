-------------------------- MODULE LoopDriverProofs --------------------------
(***************************************************************************)
(* Proofs about module LoopDriver, for any number of loops, futures and    *)
(* interest handles.  The invariant says, beside the types, that one loop  *)
(* at most has the thread, that futures are out of PromiseTls only while a *)
(* poll or its settlements last, that interest counts the handles, and     *)
(* what a driver that listens in its await has armed for everything it may *)
(* have to do.                                                             *)
(***************************************************************************)
EXTENDS LoopDriver, FiniteSetTheorems, TLAPS

Resting == {"out", "parked", "yield"}
Polls == {"poll_parked", "poll_yield"}

\* The loop that has the thread is in the middle of a turn, and every other one rests.
OneTurn ==
    \A l \in Loops : IF l = thread THEN pc[l] \notin Resting ELSE pc[l] \in Resting

\* InterestState::count is the number of live handles.
InterestCounted == \A l \in Loops : interest[l] = Cardinality(HandlesOf(l))

\* Futures leave the sets of PromiseTls for the time of a poll, which takes all of them, and
\* of the settlements after it.  What was polled or completed is what the loop may drive.
FuturesInPlace ==
    \A f \in Futures :
        /\ where[f] = "unspawned" => owner[f] = NoLoop
        /\ where[f] \in {"held", "polled"} => thread # NoLoop /\ pc[thread] \in Polls
        /\ where[f] \in {"polled", "completed"} => OwnedBy(thread, f)
        /\ where[f] = "polled" => waker[f] = thread /\ ~io[f]
        /\ where[f] = "completed" => thread # NoLoop /\ pc[thread] \in Polls \cup {"settle"}
        /\ thread # NoLoop /\ pc[thread] \in Polls => where[f] # "active"

\* A driver in its await is notified of what is due, and sleeps for the timers it knows of.
\* One that found nothing to do has nothing due.
AwaitArmed ==
    \A l \in Loops :
        /\ pc[l] = "quiet" => due[l] = 0
        /\ Listening(l) =>
             /\ notified[l] => woken[l]
             /\ due[l] > 0 => notified[l]
             /\ timers[l] > 0 => sleeping[l] \/ notified[l]
             /\ CallerStops(l) => notified[l]

\* The futures of a parked driver have its waker, also while the poll of another loop has
\* taken them out of their set.
WakersRegistered ==
    \A l \in Loops, f \in Futures :
        pc[l] = "parked" /\ ~woken[l] /\ owner[f] = l /\ f \in Live =>
            where[f] \in {"active", "held"} /\ waker[f] = l /\ ~io[f]

\* What a driver that listens may be waiting for.
SomethingLeft(l) ==
    \/ HasTasks(l) \/ HandlesOf(l) # {} \/ Awaited(l) # {}
    \/ \E f \in Futures : OwnedBy(l, f) /\ where[f] = "cancelled"
    \/ \E f \in Futures : owner[f] = NoLoop /\ where[f] = "settled"

WaitsForSomething == \A l \in Loops : Listening(l) /\ ~notified[l] => SomethingLeft(l)

IInv ==
    /\ TypeOK /\ OneTurn /\ InterestCounted /\ FuturesInPlace
    /\ AwaitArmed /\ WakersRegistered /\ WaitsForSomething

-----------------------------------------------------------------------------
(* Preservation, one lemma for each part of the invariant.                 *)

\* What a loop waits for, and what keeps it alive, is counted without error.
LEMMA HandlesOfFinite ==
    ASSUME InterestCounted, TypeOK, NEW l \in Loops
    PROVE  /\ IsFiniteSet(HandlesOf(l))
           /\ interest[l] \in Nat
           /\ interest[l] = 0 <=> HandlesOf(l) = {}
<1>1. IsFiniteSet(HandlesOf(l))
  BY FS_Subset, ConstantsAssumption DEF HandlesOf
<1>2. Cardinality(HandlesOf(l)) \in Nat
      /\ (Cardinality(HandlesOf(l)) = 0 <=> HandlesOf(l) = {})
  BY <1>1, FS_CardinalityType, FS_EmptySet
<1> QED BY <1>1, <1>2 DEF InterestCounted

\* acquire_interest_handle and Drop for InterestHandle are the only actions that count.
LEMMA InterestCountedStep == IInv /\ Next => InterestCounted' /\ interest' \in [Loops -> Nat]
<1> SUFFICES ASSUME IInv, Next
             PROVE  InterestCounted' /\ interest' \in [Loops -> Nat]
  OBVIOUS
<1>0. TypeOK /\ InterestCounted /\ holder \in [Handles -> Loops \cup {NoLoop}]
      /\ interest \in [Loops -> Nat]
  BY DEF IInv, TypeOK
<1>1. ASSUME NEW l \in Loops, NEW h \in Handles, Acquire(l, h)
      PROVE  InterestCounted' /\ interest' \in [Loops -> Nat]
  <2>1. /\ HandlesOf(l)' = HandlesOf(l) \cup {h} /\ h \notin HandlesOf(l)
        /\ \A k \in Loops \ {l} : HandlesOf(k)' = HandlesOf(k)
    BY <1>0, <1>1, NoLoopAssumption DEF Acquire, HandlesOf
  <2>2. Cardinality(HandlesOf(l) \cup {h}) = Cardinality(HandlesOf(l)) + 1
    BY <1>0, <2>1, HandlesOfFinite, FS_AddElement
  <2>3. interest' = [interest EXCEPT ![l] = interest[l] + 1]
    BY <1>1 DEF Acquire
  <2>4. \A k \in Loops : interest'[k] = Cardinality(HandlesOf(k)')
    BY <1>0, <2>1, <2>2, <2>3 DEF InterestCounted
  <2> QED BY <1>0, <2>3, <2>4 DEF InterestCounted
<1>2. ASSUME NEW l \in Loops, NEW h \in Handles, Release(l, h)
      PROVE  InterestCounted' /\ interest' \in [Loops -> Nat]
  <2>1. PICK o \in Loops : o = holder[h]
    BY <1>0, <1>2 DEF Release
  <2>2. /\ HandlesOf(o)' = HandlesOf(o) \ {h} /\ h \in HandlesOf(o)
        /\ \A k \in Loops \ {o} : HandlesOf(k)' = HandlesOf(k)
    BY <1>0, <1>2, <2>1, NoLoopAssumption DEF Release, HandlesOf
  <2>3. /\ Cardinality(HandlesOf(o) \ {h}) = Cardinality(HandlesOf(o)) - 1
        /\ interest[o] \in Nat /\ interest[o] # 0
    BY <1>0, <2>1, <2>2, HandlesOfFinite, FS_RemoveElement
  <2>4. interest' = [interest EXCEPT ![o] = interest[o] - 1]
    BY <1>2, <2>1 DEF Release
  <2>5. interest[o] - 1 \in Nat
    BY <2>1, <2>3
  <2>6. interest' \in [Loops -> Nat]
    BY <1>0, <2>1, <2>4, <2>5
  <2>7. \A k \in Loops : interest'[k] = Cardinality(HandlesOf(k)')
    BY <1>0, <2>1, <2>2, <2>3, <2>4 DEF InterestCounted
  <2> QED BY <2>6, <2>7 DEF InterestCounted
<1>3. ASSUME UNCHANGED <<holder, interest>>
      PROVE  InterestCounted' /\ interest' \in [Loops -> Nat]
  BY <1>0, <1>3 DEF InterestCounted, HandlesOf
<1>4. \/ \E l \in Loops, h \in Handles : Acquire(l, h) \/ Release(l, h)
      \/ UNCHANGED <<holder, interest>>
  BY DEF Next, tasks, await, futs, Notify, Leave, SleepOver,
         Js, QueueReady, QueueTimer, ClearTimer, Spawn, CancelFuture, RequestStop,
         Turn, HostLeave, StepRuns, StepReturns, ReturnStopped, ReturnCallerStop, ReturnDone,
         Yield, Park, PollOne, SettleOne, PollReturns, SettleReturns,
         Resume, ResumeYield, ResumeParked, Call, HostEnter, Drive, Abandon,
         TimerExpires, SleepElapses, SpawnUnowned, IoCompletes
<1> QED BY <1>1, <1>2, <1>3, <1>4

LEMMA TypeOKStep == IInv /\ Next => TypeOK'
<1> SUFFICES ASSUME IInv, Next
             PROVE  TypeOK'
  OBVIOUS
<1>0. interest' \in [Loops -> Nat]
  BY InterestCountedStep
<1> USE NoLoopAssumption, <1>0 DEF IInv, TypeOK, Pcs, tasks, await, futs
<1>1. ASSUME NEW l \in Loops, QueueReady(l) \/ QueueTimer(l) \/ ClearTimer(l) \/ RequestStop(l)
      PROVE  TypeOK'
  <2>1. CASE QueueReady(l)
    BY <2>1 DEF QueueReady, Notify, Listening
  <2>2. CASE QueueTimer(l)
    BY <2>2 DEF QueueTimer, Notify, Listening
  <2>3. CASE ClearTimer(l)
    BY <2>3 DEF ClearTimer
  <2>4. CASE RequestStop(l)
    BY <2>4 DEF RequestStop
  <2> QED BY <1>1, <2>1, <2>2, <2>3, <2>4
<1>2. ASSUME NEW l \in Loops, NEW h \in Handles, Acquire(l, h) \/ Release(l, h)
      PROVE  TypeOK'
  BY <1>2 DEF Acquire, Release, NotifyOnRelease, Notify, Listening
<1>3. ASSUME NEW l \in Loops, NEW f \in Futures,
             Spawn(l, f) \/ CancelFuture(l, f) \/ PollOne(l, f) \/ SettleOne(l, f)
      PROVE  TypeOK'
  BY <1>3 DEF Spawn, CancelFuture, PollOne, SettleOne
<1>5. ASSUME NEW l \in Loops, HostLeave(l) \/ StepRuns(l) \/ StepReturns(l) \/ Yield(l)
      PROVE  TypeOK'
  BY <1>5 DEF HostLeave, StepRuns, StepReturns, Yield
<1>6. ASSUME NEW l \in Loops, ReturnStopped(l) \/ ReturnCallerStop(l) \/ ReturnDone(l)
      PROVE  TypeOK'
  <2>1. CASE ReturnStopped(l)
    BY <2>1 DEF ReturnStopped, Leave, CancelOwn
  <2>2. CASE ReturnCallerStop(l) \/ ReturnDone(l)
    BY <2>2 DEF ReturnCallerStop, ReturnDone, Leave
  <2> QED BY <1>6, <2>1, <2>2
<1>7. ASSUME NEW l \in Loops, Park(l) \/ PollReturns(l) \/ SettleReturns(l)
      PROVE  TypeOK'
  <2>1. CASE Park(l)
    BY <2>1 DEF Park, Taken
  <2>2. CASE PollReturns(l)
    BY <2>2 DEF PollReturns, Restored
  <2>3. CASE SettleReturns(l)
    BY <2>3 DEF SettleReturns
  <2> QED BY <1>7, <2>1, <2>2, <2>3
<1>8. ASSUME NEW l \in Loops, Resume(l) \/ Call(l)
      PROVE  TypeOK'
  BY <1>8 DEF Resume, ResumeYield, ResumeParked, Taken, Call, HostEnter, Drive, Abandon, CancelOwn
<1>9. ASSUME NEW l \in Loops, TimerExpires(l) \/ SleepElapses(l)
      PROVE  TypeOK'
  <2>1. CASE TimerExpires(l)
    BY <2>1 DEF TimerExpires, SleepOver
  <2>2. CASE SleepElapses(l)
    BY <2>2 DEF SleepElapses, SleepOver
  <2> QED BY <1>9, <2>1, <2>2
<1>4. ASSUME NEW f \in Futures, SpawnUnowned(f) \/ IoCompletes(f) PROVE TypeOK'
  BY <1>4 DEF SpawnUnowned, IoCompletes
<1> QED BY <1>1, <1>2, <1>3, <1>4, <1>5, <1>6, <1>7, <1>8, <1>9 DEF Next, Js, Turn

\* A turn begins when no other is in progress, and ends where its driver awaits or returns.
LEMMA OneTurnStep == IInv /\ Next => OneTurn'
<1> SUFFICES ASSUME IInv, Next
             PROVE  OneTurn'
  OBVIOUS
<1> USE NoLoopAssumption DEF IInv, TypeOK, OneTurn, Resting, tasks, await, futs
<1>1. ASSUME NEW l \in Loops, Js(l) PROVE OneTurn'
  BY <1>1 DEF Js, QueueReady, QueueTimer, ClearTimer, Acquire, Release, Spawn, CancelFuture,
              RequestStop
<1>2. ASSUME NEW l \in Loops, Turn(l) PROVE OneTurn'
  BY <1>2 DEF Turn, HostLeave, StepRuns, StepReturns, ReturnStopped, ReturnCallerStop,
              ReturnDone, Leave, Yield, Park, PollOne, SettleOne, PollReturns,
              SettleReturns, Decides, Polling
<1>3. ASSUME NEW l \in Loops, Resume(l) \/ Call(l) \/ TimerExpires(l) \/ SleepElapses(l)
      PROVE  OneTurn'
  BY <1>3 DEF Resume, ResumeYield, ResumeParked, Call, HostEnter, Drive, Abandon,
              TimerExpires, SleepElapses
<1>4. ASSUME NEW f \in Futures, SpawnUnowned(f) \/ IoCompletes(f) PROVE OneTurn'
  BY <1>4 DEF SpawnUnowned, IoCompletes
<1> QED BY <1>1, <1>2, <1>3, <1>4 DEF Next

\* Futures are taken and put back in one turn, whatever JavaScript their polls run.
LEMMA FuturesInPlaceStep == IInv /\ Next => FuturesInPlace'
<1> SUFFICES ASSUME IInv, Next
             PROVE  FuturesInPlace'
  OBVIOUS
<1> USE NoLoopAssumption
    DEF IInv, TypeOK, OneTurn, FuturesInPlace, Resting, Polls, OwnedBy, Queued, Held,
        tasks, await, futs
<1>1. ASSUME NEW l \in Loops, Js(l) PROVE FuturesInPlace'
  BY <1>1 DEF Js, QueueReady, QueueTimer, ClearTimer, Acquire, Release, Spawn, CancelFuture,
              RequestStop, Active
<1>2. ASSUME NEW l \in Loops, Turn(l) PROVE FuturesInPlace'
  BY <1>2 DEF Turn, HostLeave, StepRuns, StepReturns, ReturnStopped, ReturnCallerStop,
              ReturnDone, Leave, CancelOwn, Yield, Park, Taken, PollOne, SettleOne, PollReturns,
              Restored, Completed, SettleReturns, Decides, Polling, MayPoll
<1>3. ASSUME NEW l \in Loops, Resume(l) \/ Call(l) \/ TimerExpires(l) \/ SleepElapses(l)
      PROVE  FuturesInPlace'
  BY <1>3 DEF Resume, ResumeYield, ResumeParked, Taken, Call, HostEnter, Drive, Abandon,
              CancelOwn, TimerExpires, SleepElapses
<1>4. ASSUME NEW f \in Futures, SpawnUnowned(f) \/ IoCompletes(f) PROVE FuturesInPlace'
  BY <1>4 DEF SpawnUnowned, IoCompletes, Live
<1> QED BY <1>1, <1>2, <1>3, <1>4 DEF Next

\* Whatever makes a task ready or a deadline known while a driver is on its way into the
\* await, or in it, notifies the driver, unless it sleeps for just that deadline.
LEMMA AwaitArmedStep == IInv /\ Next => AwaitArmed'
<1> SUFFICES ASSUME IInv, Next
             PROVE  AwaitArmed'
  OBVIOUS
<1> USE NoLoopAssumption
    DEF IInv, TypeOK, OneTurn, AwaitArmed, Resting, Listening, CallerStops, tasks, await, futs
<1>1. ASSUME NEW l \in Loops, QueueReady(l) \/ QueueTimer(l) \/ ClearTimer(l) \/ RequestStop(l)
      PROVE  AwaitArmed'
  BY ZenonT(40), <1>1 DEF QueueReady, QueueTimer, ClearTimer, RequestStop, Notify, Active, PolledJs
<1>2. ASSUME NEW l \in Loops, NEW h \in Handles, Acquire(l, h)
      PROVE  AwaitArmed'
  BY <1>2 DEF Acquire, Active, PolledJs
<1>3. ASSUME NEW l \in Loops, NEW h \in Handles, Release(l, h)
      PROVE  AwaitArmed'
  BY <1>3 DEF Release, NotifyOnRelease, Notify, Active, PolledJs
<1>4. ASSUME NEW l \in Loops, NEW f \in Futures, Spawn(l, f) \/ CancelFuture(l, f)
      PROVE  AwaitArmed'
  BY <1>4 DEF Spawn, CancelFuture
<1>5. ASSUME NEW l \in Loops, HostLeave(l) \/ StepRuns(l) \/ StepReturns(l)
      PROVE  AwaitArmed'
  BY <1>5 DEF HostLeave, StepRuns, StepReturns
<1>6. ASSUME NEW l \in Loops, ReturnStopped(l) \/ ReturnCallerStop(l) \/ ReturnDone(l) \/ Yield(l)
      PROVE  AwaitArmed'
  BY <1>6 DEF ReturnStopped, ReturnCallerStop, ReturnDone, Yield, Leave
<1>7. ASSUME NEW l \in Loops, Park(l)
      PROVE  AwaitArmed'
  <2> SUFFICES ASSUME NEW k \in Loops
               PROVE  /\ pc'[k] = "quiet" => due'[k] = 0
                      /\ Listening(k)' =>
                           /\ notified'[k] => woken'[k]
                           /\ due'[k] > 0 => notified'[k]
                           /\ timers'[k] > 0 => sleeping'[k] \/ notified'[k]
                           /\ CallerStops(k)' => notified'[k]
    OBVIOUS
  <2>1. CASE k = l
    <3>1. due'[l] = 0 /\ ~CallerStops(l)' /\ notified'[l] = FALSE /\ pc'[l] = "poll_parked"
      BY <1>7 DEF Park
    <3>2. timers'[l] > 0 => sleeping'[l]
      BY <1>7 DEF Park
    <3> QED BY <2>1, <3>1, <3>2
  <2>2. CASE k # l
    BY <1>7, <2>2 DEF Park
  <2> QED BY <2>1, <2>2
<1>8. ASSUME NEW l \in Loops, NEW f \in Futures, PollOne(l, f) \/ SettleOne(l, f)
      PROVE  AwaitArmed'
  BY <1>8 DEF PollOne, SettleOne
<1>9. ASSUME NEW l \in Loops, PollReturns(l) \/ SettleReturns(l)
      PROVE  AwaitArmed'
  BY <1>9 DEF PollReturns, SettleReturns, Polling
<1>10. ASSUME NEW l \in Loops, Resume(l) \/ Call(l)
       PROVE  AwaitArmed'
  BY <1>10 DEF Resume, ResumeYield, ResumeParked, Call, HostEnter, Drive, Abandon
<1>11. ASSUME NEW l \in Loops, TimerExpires(l) \/ SleepElapses(l)
       PROVE  AwaitArmed'
  BY <1>11 DEF TimerExpires, SleepElapses, SleepOver
<1>12. ASSUME NEW f \in Futures, SpawnUnowned(f) \/ IoCompletes(f)
       PROVE  AwaitArmed'
  BY <1>12 DEF SpawnUnowned, IoCompletes
<1> QED BY <1>1, <1>2, <1>3, <1>4, <1>5, <1>6, <1>7, <1>8, <1>9, <1>10, <1>11, <1>12
        DEF Next, Js, Turn

\* The waker of a parked driver's future is replaced only by that driver's polls.
LEMMA WakersRegisteredStep == IInv /\ Next => WakersRegistered'
<1> SUFFICES ASSUME IInv, Next
             PROVE  WakersRegistered'
  OBVIOUS
<1> USE NoLoopAssumption
    DEF IInv, TypeOK, OneTurn, FuturesInPlace, AwaitArmed, WakersRegistered, Resting, Polls,
        OwnedBy, Listening, Live, Queued, Held, tasks, await, futs
<1>1. ASSUME NEW l \in Loops,
             \/ QueueReady(l) \/ QueueTimer(l) \/ ClearTimer(l) \/ RequestStop(l)
             \/ \E h \in Handles : Acquire(l, h) \/ Release(l, h)
      PROVE  WakersRegistered'
  BY <1>1 DEF QueueReady, QueueTimer, ClearTimer, RequestStop, Acquire, Release,
              NotifyOnRelease, Notify
<1>2. ASSUME NEW l \in Loops, NEW f \in Futures, Spawn(l, f)
      PROVE  WakersRegistered'
  BY <1>2 DEF Spawn, Active, PolledJs
<1>3. ASSUME NEW l \in Loops, NEW f \in Futures, CancelFuture(l, f)
      PROVE  WakersRegistered'
  BY <1>3 DEF CancelFuture
<1>4. ASSUME NEW l \in Loops, HostLeave(l) \/ StepRuns(l) \/ StepReturns(l)
      PROVE  WakersRegistered'
  BY <1>4 DEF HostLeave, StepRuns, StepReturns
<1>5. ASSUME NEW l \in Loops, ReturnStopped(l)
      PROVE  WakersRegistered'
  BY <1>5 DEF ReturnStopped, Leave, CancelOwn
<1>6. ASSUME NEW l \in Loops, ReturnCallerStop(l) \/ ReturnDone(l) \/ Yield(l)
      PROVE  WakersRegistered'
  BY <1>6 DEF ReturnCallerStop, ReturnDone, Yield, Leave
<1>7. ASSUME NEW l \in Loops, Park(l)
      PROVE  WakersRegistered'
  BY <1>7 DEF Park, Taken, Decides
<1>8. ASSUME NEW l \in Loops, NEW f \in Futures, PollOne(l, f) \/ SettleOne(l, f)
      PROVE  WakersRegistered'
  BY <1>8 DEF PollOne, SettleOne, Polling, MayPoll
<1>9. ASSUME NEW l \in Loops, PollReturns(l)
      PROVE  WakersRegistered'
  <2> SUFFICES ASSUME NEW k \in Loops, NEW f \in Futures,
                      pc'[k] = "parked", ~woken'[k], owner'[f] = k, (f \in Live)'
               PROVE  where'[f] \in {"active", "held"} /\ waker'[f] = k /\ ~io'[f]
    OBVIOUS
  <2>1. CASE k = l
    <3>1. owner[f] = l
      BY <1>9, <2>1 DEF PollReturns
    <3>2. where[f] # "pending"
      BY ZenonT(40), <1>9, <2>1 DEF PollReturns
    <3>3. where[f] # "held"
      BY <1>9, <3>1 DEF PollReturns, MayPoll
    <3>4. where[f] # "pending" /\ where[f] # "held" /\ owner[f] = l
      BY <3>1, <3>2, <3>3
    <3>5. where[f] = "polled" /\ where'[f] = "active"
      BY <1>9, <3>4 DEF PollReturns, Polling, Restored
    <3> QED BY <1>9, <2>1, <3>5 DEF PollReturns, Polling
  <2>2. CASE k # l
    BY <1>9, <2>2 DEF PollReturns, Polling, Restored
  <2> QED BY <2>1, <2>2
<1>10. ASSUME NEW l \in Loops, SettleReturns(l) \/ HostEnter(l) \/ Drive(l)
       PROVE  WakersRegistered'
  BY <1>10 DEF SettleReturns, HostEnter, Drive
<1>11. ASSUME NEW l \in Loops, Resume(l) \/ Abandon(l)
       PROVE  WakersRegistered'
  BY <1>11 DEF Resume, ResumeYield, ResumeParked, Taken, Abandon, CancelOwn
<1>12. ASSUME NEW l \in Loops, TimerExpires(l) \/ SleepElapses(l)
       PROVE  WakersRegistered'
  BY <1>12 DEF TimerExpires, SleepElapses, SleepOver
<1>13. ASSUME NEW f \in Futures, SpawnUnowned(f)
       PROVE  WakersRegistered'
  BY <1>13 DEF SpawnUnowned
<1>14. ASSUME NEW f \in Futures, IoCompletes(f)
       PROVE  WakersRegistered'
  <2> SUFFICES ASSUME NEW k \in Loops, NEW g \in Futures,
                      pc'[k] = "parked", ~woken'[k], owner'[g] = k, (g \in Live)'
               PROVE  where'[g] \in {"active", "held"} /\ waker'[g] = k /\ ~io'[g]
    OBVIOUS
  <2>1. pc[k] = "parked" /\ ~woken[k] /\ owner[g] = k /\ g \in Live /\ waker[f] # k
    BY <1>14 DEF IoCompletes
  <2>2. where[g] \in {"active", "held"} /\ waker[g] = k /\ ~io[g]
    BY <2>1
  <2> QED BY <1>14, <2>1, <2>2 DEF IoCompletes
<1> QED BY <1>1, <1>2, <1>3, <1>4, <1>5, <1>6, <1>7, <1>8, <1>9, <1>10, <1>11, <1>12, <1>13,
           <1>14
        DEF Next, Js, Turn, Call

\* A driver stops waiting for the last thing only by its own doing, by a notification, or by
\* one of the two that go without a word.
LEMMA WaitsForSomethingStep == IInv /\ Next => WaitsForSomething'
<1> SUFFICES ASSUME IInv, Next
             PROVE  WaitsForSomething'
  OBVIOUS
<1>0. \A k \in Loops : interest[k] > 0 => HandlesOf(k) # {}
  BY HandlesOfFinite DEF IInv
<1> USE NoLoopAssumption
    DEF IInv, TypeOK, OneTurn, FuturesInPlace, WaitsForSomething, SomethingLeft, HasTasks,
        HandlesOf, Awaited, Resting, Polls, OwnedBy, Listening, Live, Queued, Held, Completed,
        tasks, await, futs
<1>1. ASSUME NEW l \in Loops, QueueReady(l) \/ QueueTimer(l) \/ RequestStop(l)
      PROVE  WaitsForSomething'
  BY <1>1 DEF QueueReady, QueueTimer, RequestStop, Notify
<1>2. ASSUME NEW l \in Loops, ClearTimer(l)
      PROVE  WaitsForSomething'
  BY <1>2 DEF ClearTimer, Active, PolledJs
<1>3. ASSUME NEW l \in Loops, NEW h \in Handles, Acquire(l, h)
      PROVE  WaitsForSomething'
  BY <1>3 DEF Acquire
<1>4. ASSUME NEW l \in Loops, NEW h \in Handles, Release(l, h)
      PROVE  WaitsForSomething'
  <2> SUFFICES ASSUME NEW k \in Loops, Listening(k)', ~notified'[k]
               PROVE  SomethingLeft(k)'
    OBVIOUS
  <2>1. holder[h] \in Loops /\ holder[h] # k /\ Listening(k) /\ ~notified[k]
    BY <1>4 DEF Release, NotifyOnRelease, Notify
  <2>2. HandlesOf(k)' = HandlesOf(k)
    BY <1>4, <2>1 DEF Release
  <2>3. Awaited(k)' = Awaited(k) /\ HasTasks(k)' = HasTasks(k)
    BY <1>4 DEF Release
  <2> QED BY <1>4, <2>1, <2>2, <2>3 DEF Release
<1>5. ASSUME NEW l \in Loops, NEW f \in Futures, Spawn(l, f)
      PROVE  WaitsForSomething'
  BY <1>5 DEF Spawn
<1>6. ASSUME NEW l \in Loops, NEW f \in Futures, CancelFuture(l, f)
      PROVE  WaitsForSomething'
  BY <1>6 DEF CancelFuture
<1>7. ASSUME NEW l \in Loops, HostLeave(l) \/ StepRuns(l) \/ StepReturns(l)
      PROVE  WaitsForSomething'
  BY <1>7 DEF HostLeave, StepRuns, StepReturns
<1>8. ASSUME NEW l \in Loops, ReturnStopped(l)
      PROVE  WaitsForSomething'
  <2> SUFFICES ASSUME NEW k \in Loops, Listening(k)', ~notified'[k]
               PROVE  SomethingLeft(k)'
    OBVIOUS
  <2>1. k # l /\ Listening(k) /\ ~notified[k]
    BY <1>8 DEF ReturnStopped, Leave
  <2>2. \A f \in Futures : OwnedBy(k, f) => where'[f] = where[f]
    BY <1>8, <2>1 DEF ReturnStopped, CancelOwn
  <2>3. Awaited(k)' = Awaited(k) /\ HandlesOf(k)' = HandlesOf(k) /\ HasTasks(k)' = HasTasks(k)
    BY <1>8, <2>2 DEF ReturnStopped
  <2> QED BY <1>8, <2>1, <2>2, <2>3 DEF ReturnStopped
<1>9. ASSUME NEW l \in Loops, ReturnCallerStop(l) \/ ReturnDone(l) \/ Yield(l)
      PROVE  WaitsForSomething'
  BY <1>9 DEF ReturnCallerStop, ReturnDone, Yield, Leave
<1>10. ASSUME NEW l \in Loops, Park(l)
       PROVE  WaitsForSomething'
  <2> SUFFICES ASSUME NEW k \in Loops, Listening(k)', ~notified'[k]
               PROVE  SomethingLeft(k)'
    OBVIOUS
  <2>1. CASE k = l
    <3>1. HasTasks(l) \/ HandlesOf(l) # {} \/ HasPendingFutures(l)
      BY <1>0, <1>10 DEF Park, IsAlive
    <3>2. HasPendingFutures(l) => Awaited(l)' # {}
      BY <1>10 DEF Park, HasPendingFutures, Taken
    <3> QED BY <1>10, <2>1, <3>1, <3>2 DEF Park
  <2>2. CASE k # l
    <3>1. Awaited(k)' = Awaited(k)
      BY <1>10 DEF Park, Taken
    <3>2. HandlesOf(k)' = HandlesOf(k) /\ HasTasks(k)' = HasTasks(k)
      BY <1>10 DEF Park
    <3>3. Listening(k) /\ ~notified[k]
      BY <1>10, <2>2 DEF Park
    <3>4. \A f \in Futures : /\ owner'[f] = owner[f]
                             /\ where[f] \in {"cancelled", "settled"} => where'[f] = where[f]
      BY <1>10 DEF Park, Taken
    <3> HIDE DEF Awaited, HandlesOf, HasTasks
    <3> QED BY <3>1, <3>2, <3>3, <3>4
  <2> QED BY <2>1, <2>2
<1>11. ASSUME NEW l \in Loops, NEW f \in Futures, PollOne(l, f)
       PROVE  WaitsForSomething'
  BY <1>11 DEF PollOne, MayPoll
<1>12. ASSUME NEW l \in Loops, NEW f \in Futures, SettleOne(l, f)
       PROVE  WaitsForSomething'
  BY <1>12 DEF SettleOne
<1>13. ASSUME NEW l \in Loops, PollReturns(l)
       PROVE  WaitsForSomething'
  <2>1. \A k \in Loops : Awaited(k)' = Awaited(k)
    BY <1>13 DEF PollReturns, Restored
  <2>2. \A k \in Loops : HandlesOf(k)' = HandlesOf(k) /\ HasTasks(k)' = HasTasks(k)
    BY <1>13 DEF PollReturns
  <2>3. \A k \in Loops : Listening(k)' /\ ~notified'[k] => Listening(k) /\ ~notified[k]
    BY <1>13 DEF PollReturns, Polling
  <2>4. \A f \in Futures : /\ owner'[f] = owner[f]
                           /\ where[f] \in {"cancelled", "settled"} => where'[f] = where[f]
    BY <1>13 DEF PollReturns, Restored
  <2> HIDE DEF Awaited, HandlesOf, HasTasks
  <2> QED BY <2>1, <2>2, <2>3, <2>4
<1>14. ASSUME NEW l \in Loops, SettleReturns(l) \/ HostEnter(l) \/ Drive(l)
       PROVE  WaitsForSomething'
  BY <1>14 DEF SettleReturns, HostEnter, Drive
<1>15. ASSUME NEW l \in Loops, Resume(l)
       PROVE  WaitsForSomething'
  <2>1. \A k \in Loops : Awaited(k)' = Awaited(k)
    BY <1>15 DEF Resume, ResumeYield, ResumeParked, Taken
  <2> QED BY <1>15, <2>1 DEF Resume, ResumeYield, ResumeParked, Taken
<1>16. ASSUME NEW l \in Loops, Abandon(l)
       PROVE  WaitsForSomething'
  BY <1>16 DEF Abandon, CancelOwn
<1>17. ASSUME NEW l \in Loops, TimerExpires(l) \/ SleepElapses(l)
       PROVE  WaitsForSomething'
  BY <1>17 DEF TimerExpires, SleepElapses, SleepOver
<1>18. ASSUME NEW f \in Futures, SpawnUnowned(f) \/ IoCompletes(f)
       PROVE  WaitsForSomething'
  BY <1>18 DEF SpawnUnowned, IoCompletes
<1> QED BY <1>1, <1>2, <1>3, <1>4, <1>5, <1>6, <1>7, <1>8, <1>9, <1>10, <1>11, <1>12, <1>13,
           <1>14, <1>15, <1>16, <1>17, <1>18
        DEF Next, Js, Turn, Call

-----------------------------------------------------------------------------
\* The invariant is inductive.
LEMMA Inductive == Spec => []IInv
<1>1. Init => IInv
  <2> SUFFICES ASSUME Init PROVE IInv
    OBVIOUS
  <2>1. \A l \in Loops : HandlesOf(l) = {}
    BY NoLoopAssumption DEF Init, HandlesOf
  <2>2. InterestCounted
    BY <2>1, FS_EmptySet DEF Init, InterestCounted
  <2> QED BY <2>2, NoLoopAssumption
          DEF Init, IInv, TypeOK, Pcs, OneTurn, Resting, FuturesInPlace, Polls, OwnedBy,
              AwaitArmed, Listening, WakersRegistered, Live, Queued, Held, WaitsForSomething
<1>2. IInv /\ [Next]_vars => IInv'
  <2>1. IInv /\ Next => IInv'
    BY TypeOKStep, OneTurnStep, InterestCountedStep, FuturesInPlaceStep, AwaitArmedStep,
       WakersRegisteredStep, WaitsForSomethingStep DEF IInv
  <2>2. IInv /\ UNCHANGED vars => IInv'
    BY DEF IInv, vars, tasks, await, futs, TypeOK, OneTurn, InterestCounted, HandlesOf,
           FuturesInPlace, OwnedBy, AwaitArmed, Listening, CallerStops, WakersRegistered, Live,
           Queued, Held, WaitsForSomething, SomethingLeft, HasTasks, Awaited, Completed
  <2> QED BY <2>1, <2>2
<1> QED BY <1>1, <1>2, PTL DEF Spec

\* The types hold; in particular the interest count never drops below zero, in whichever
\* loop's turn handles are released.
THEOREM TypeCorrect == Spec => []TypeOK
<1>1. IInv => TypeOK
  BY DEF IInv
<1> QED BY <1>1, Inductive, PTL

\* No wakeup is lost between a turn's last look and its await, and the release of the last
\* thing a driver waits for wakes it (run_until, InterestHandle::drop).
THEOREM DriversAreWoken == Spec => []WokenInTime
<1>1. IInv => NoLostWakeup
  BY DEF IInv, TypeOK, AwaitArmed, Listening, WakersRegistered, NoLostWakeup, Live, Queued
<1>2. IInv => NothingLeftWakes
  BY DEF IInv, AwaitArmed, Listening, WaitsForSomething, SomethingLeft, NothingLeftWakes
<1> QED BY <1>1, <1>2, Inductive, PTL DEF WokenInTime

\* run_until returns Done only when nothing is left that could make more work.
THEOREM DoneIsDone == Spec => DoneMeansNothingLeft
<1>1. ASSUME IInv, NEW l \in Loops, ReturnDone(l)
      PROVE  ~HasTasks(l) /\ HandlesOf(l) = {} /\ Awaited(l) = {}
  <2>1. HandlesOf(l) = {} /\ ~HasTasks(l)
    BY <1>1, HandlesOfFinite DEF IInv, ReturnDone, IsAlive
  <2>2. Held = {} /\ Completed = {}
    BY <1>1 DEF IInv, FuturesInPlace, ReturnDone, Decides, Held, Completed, Polls
  <2> QED BY <1>1, <2>1, <2>2 DEF ReturnDone, IsAlive, HasPendingFutures, Awaited, Live
<1>2. IInv /\ [Next]_vars =>
        [\A l \in Loops : ReturnDone(l) =>
           ~HasTasks(l) /\ HandlesOf(l) = {} /\ Awaited(l) = {}]_vars
  BY <1>1
<1> QED BY <1>2, Inductive, PTL DEF DoneMeansNothingLeft, Spec

\* Promises settle in their own loop's turn, and a stopped loop drops its futures, and only its
\* own (settle_completed_futures, cancel_pending_futures_for).
THEOREM FuturesAreKeptApart == Spec => FuturesStayTheirs
<1>1. IInv /\ Next =>
        \A f \in Futures : where'[f] = "settled" /\ where[f] # "settled" => OwnedBy(thread, f)
  <2> SUFFICES ASSUME IInv, Next, NEW f \in Futures, where'[f] = "settled", where[f] # "settled"
               PROVE  OwnedBy(thread, f)
    OBVIOUS
  <2>1. where[f] = "completed"
    BY DEF IInv, TypeOK, Next, tasks, await, futs, Notify, Leave, SleepOver, CancelOwn, Taken,
           Restored,
           Js, QueueReady, QueueTimer, ClearTimer, Acquire, Release, NotifyOnRelease, Spawn,
           CancelFuture, RequestStop,
           Turn, HostLeave, StepRuns, StepReturns, ReturnStopped, ReturnCallerStop, ReturnDone,
           Yield, Park, PollOne, SettleOne, PollReturns, SettleReturns,
           Resume, ResumeYield, ResumeParked, Call, HostEnter, Drive, Abandon,
           TimerExpires, SleepElapses, SpawnUnowned, IoCompletes
  <2> QED BY <2>1 DEF IInv, FuturesInPlace
<1>2. IInv =>
        \A l \in Loops : ReturnStopped(l) =>
          \A f \in Futures : IF owner[f] = l THEN where'[f] \in {"settled", "cancelled"}
                             ELSE where'[f] = where[f]
  BY NoLoopAssumption
  DEF IInv, TypeOK, FuturesInPlace, ReturnStopped, Decides, CancelOwn, Queued, Polls
<1>3. IInv /\ [Next]_vars =>
        /\ [\A f \in Futures : where'[f] = "settled" /\ where[f] # "settled" =>
              OwnedBy(thread, f)]_vars
        /\ [\A l \in Loops : ReturnStopped(l) =>
              \A f \in Futures : IF owner[f] = l THEN where'[f] \in {"settled", "cancelled"}
                                 ELSE where'[f] = where[f]]_vars
  BY <1>1, <1>2
<1> QED BY <1>3, Inductive, PTL
        DEF FuturesStayTheirs, SettledByOwner, StopDropsFutures, Spec

=============================================================================
