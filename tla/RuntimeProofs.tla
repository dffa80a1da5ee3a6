---------------------------- MODULE RuntimeProofs ----------------------------
(***************************************************************************)
(* Proofs about two parts of a runtime that keep no state in common: its   *)
(* event loop and the handles that root its values.                        *)
(*                                                                         *)
(* EventLoop, for every set of timeouts, every clamp and every bound: the  *)
(* invariant is the conjunction of the type, of the agreement of the       *)
(* indexes, and of four facts that say where identifiers can be: task ids  *)
(* are allocated once, the task that runs is nowhere else, JS timer ids    *)
(* are allocated once, and the batch keeps its order.                      *)
(*                                                                         *)
(* HandlePool, for any number of scopes, handles and pages, and pages of   *)
(* any size: RootsStay is an invariant.  The inductive invariant says      *)
(* where the handles of a scope are in relation to the levels of the root  *)
(* stack, that the list of private allocations is doubly linked and        *)
(* reaches every allocation that a scope owns, and that no page is of two  *)
(* owners.                                                                 *)
(***************************************************************************)
EXTENDS EventLoop, HandlePool, SequenceTheorems, TLAPS

-----------------------------------------------------------------------------
(* The event loop.                                                         *)

\* A task id that is queued, waits in the batch or runs was handed out by next_task_id.
Allocated ==
    /\ \A i \in LiveIds : i < nextId
    /\ \A k \in batch : k[2] < nextId
    /\ running < nextId

\* The task that runs is neither queued nor in the rest of the batch.
RunsAlone ==
    /\ phase # "task" => running = NoTask /\ current = NoEntry
    /\ phase = "task" =>
         /\ running \in Nat
         /\ running \notin LiveIds
         /\ \A k \in batch : k[2] # running

\* A JS timer id in the map, cleared, or of the running timer, was handed out; one that
\* was cleared is not in the map any more; the running timer's is on no queued task.
TimerIdsOnce ==
    /\ \A t \in DOMAIN jsTimers : 0 < t /\ t < timerCounter
    /\ \A t \in cleared : 0 < t /\ t < timerCounter /\ t \notin DOMAIN jsTimers
    /\ current.timerId # NoTimerId => current.timerId < timerCounter
    /\ phase = "task" /\ current.timerId # NoTimerId =>
         \A i \in LiveIds : entries[i].timerId # current.timerId

\* Timers that started were due, no queued timer is due before them, and what is left of
\* the batch comes before every timer that is not in it.
BatchOrder ==
    /\ lastFired <= now
    /\ \A i \in LiveIds : IsTimer(entries[i]) =>
         /\ 0 <= entries[i].deadline /\ lastFired <= entries[i].deadline
         /\ entries[i].ready => entries[i].deadline <= now
    /\ \A k \in batch : NoDeadline <= k[1] /\ k[1] <= now
    /\ \A k \in batch : k[2] \in LiveIds => k[1] = entries[k[2]].deadline
    /\ \A k \in batch, i \in LiveIds : IsTimer(entries[i]) =>
         Key(i, entries[i]) \in batch \/ k[1] <= entries[i].deadline

IInv == /\ TypeOK /\ IndexesAgree /\ Allocated /\ RunsAlone /\ TimerIdsOnce /\ TimerIdsMatchTasks
        /\ BatchOrder

-----------------------------------------------------------------------------
(* The three operations of TaskQueue keep its indexes in agreement.        *)

\* Every key of the ready and the timer set is the key of a live task.
LEMMA IndexMembers ==
    ASSUME IndexesAgree
    PROVE  /\ \A k : k \in ready <=>
                \E i \in LiveIds : entries[i].ready /\ k = <<entries[i].deadline, i>>
           /\ \A k : k \in timers <=>
                \E i \in LiveIds : /\ ~entries[i].ready /\ entries[i].deadline # NoDeadline
                                   /\ k = <<entries[i].deadline, i>>
BY DEF IndexesAgree, Key, IsTimer, LiveIds

\* TaskQueue::insert under an id that is not in use.
LEMMA InsertKeepsIndexes ==
    ASSUME TypeOK, IndexesAgree, NEW id \in Nat, id \notin LiveIds, NEW e \in Entry,
           Insert(id, e)
    PROVE  /\ IndexesAgree'
           /\ entries' \in [LiveIds' -> Entry] /\ LiveIds' = LiveIds \cup {id}
           /\ LiveIds' \subseteq Nat
           /\ ready' \subseteq Int \X Nat /\ timers' \subseteq Int \X Nat
           /\ entries'[id] = e
           /\ \A i \in LiveIds : entries'[i] = entries[i]
<1>1. /\ LiveIds' = LiveIds \cup {id}
      /\ entries'[id] = e
      /\ \A i \in LiveIds : entries'[i] = entries[i]
      /\ entries' \in [LiveIds' -> Entry]
      /\ LiveIds' \subseteq Nat
  BY DEF TypeOK, Insert, LiveIds
<1>2. e.deadline \in Int /\ e.ready \in BOOLEAN
  BY DEF Entry
<1>3. ready' \subseteq Int \X Nat /\ timers' \subseteq Int \X Nat
  BY <1>2 DEF TypeOK, Insert, Key
<1>4. ready' = {Key(i, entries'[i]) : i \in {j \in LiveIds' : entries'[j].ready}}
  BY <1>1, <1>2 DEF TypeOK, Insert, IndexesAgree, Key
<1>5. timers' = {Key(i, entries'[i]) :
                   i \in {j \in LiveIds' : ~entries'[j].ready /\ IsTimer(entries'[j])}}
  <2>1. entries'[id].ready = e.ready /\ Key(id, entries'[id]) = Key(id, e)
        /\ (IsTimer(entries'[id]) <=> IsTimer(e))
    BY <1>1
  <2>2. timers = {Key(i, entries[i]) :
                    i \in {j \in LiveIds : ~entries[j].ready /\ IsTimer(entries[j])}}
    BY DEF IndexesAgree
  <2>3. \A i \in LiveIds : /\ Key(i, entries'[i]) = Key(i, entries[i])
                           /\ entries'[i].ready = entries[i].ready
                           /\ IsTimer(entries'[i]) <=> IsTimer(entries[i])
    BY <1>1
  <2>4. CASE ~e.ready /\ IsTimer(e)
    <3>1. timers' = timers \cup {Key(id, e)}
      BY <2>4 DEF Insert
    <3> QED BY <1>1, <2>1, <2>2, <2>3, <2>4, <3>1
  <2>5. CASE ~(~e.ready /\ IsTimer(e))
    <3>1. timers' = timers
      BY <2>5 DEF Insert
    <3> QED BY <1>1, <2>1, <2>2, <2>3, <2>5, <3>1
  <2> QED BY <2>4, <2>5
<1> QED BY <1>1, <1>3, <1>4, <1>5 DEF IndexesAgree

\* TaskQueue::remove of a live task.
LEMMA RemoveKeepsIndexes ==
    ASSUME TypeOK, IndexesAgree, NEW id \in LiveIds, Remove(id)
    PROVE  /\ IndexesAgree'
           /\ entries' \in [LiveIds' -> Entry] /\ LiveIds' = LiveIds \ {id}
           /\ LiveIds' \subseteq Nat
           /\ ready' \subseteq Int \X Nat /\ timers' \subseteq Int \X Nat
           /\ \A i \in LiveIds' : entries'[i] = entries[i]
<1>1. /\ LiveIds' = LiveIds \ {id}
      /\ \A i \in LiveIds' : entries'[i] = entries[i]
      /\ entries' \in [LiveIds' -> Entry]
      /\ LiveIds' \subseteq Nat
  BY DEF TypeOK, Remove, LiveIds
<1>2. ready' \subseteq ready /\ timers' \subseteq timers
  BY DEF Remove
<1>3. \A k : k \in ready' <=> k \in ready /\ k[2] # id
  <2>1. \A k \in ready : k[2] = id => entries[id].ready /\ k = <<entries[id].deadline, id>>
    BY IndexMembers
  <2>2. CASE entries[id].ready
    BY <2>1, <2>2 DEF Remove, Key
  <2>3. CASE ~entries[id].ready
    BY <2>1, <2>3 DEF Remove, Key
  <2> QED BY <2>2, <2>3
<1>4. \A k : k \in timers' <=> k \in timers /\ k[2] # id
  BY IndexMembers DEF Remove, Key, IsTimer, TypeOK, Entry
<1>5. ready' = {Key(i, entries'[i]) : i \in {j \in LiveIds' : entries'[j].ready}}
  <2>1. \A k : k \in ready' <=> \E i \in LiveIds' : /\ entries'[i].ready
                                                    /\ k = <<entries'[i].deadline, i>>
    <3>1. \A k : k \in ready' => \E i \in LiveIds' : /\ entries'[i].ready
                                                   /\ k = <<entries'[i].deadline, i>>
      BY <1>1, <1>3, IndexMembers
    <3>2. \A i \in LiveIds' : entries'[i].ready => <<entries'[i].deadline, i>> \in ready'
      BY <1>1, <1>3, IndexMembers
    <3> QED BY <3>1, <3>2
  <2> QED BY <2>1 DEF Key
<1>6. timers' = {Key(i, entries'[i]) :
                   i \in {j \in LiveIds' : ~entries'[j].ready /\ IsTimer(entries'[j])}}
  <2>1. \A k : k \in timers' <=> \E i \in LiveIds' : /\ ~entries'[i].ready
                                                     /\ entries'[i].deadline # NoDeadline
                                                     /\ k = <<entries'[i].deadline, i>>
    <3>1. \A k : k \in timers' => \E i \in LiveIds' : /\ ~entries'[i].ready
                                                    /\ entries'[i].deadline # NoDeadline
                                                    /\ k = <<entries'[i].deadline, i>>
      BY <1>1, <1>4, IndexMembers
    <3>2. \A i \in LiveIds' : ~entries'[i].ready /\ entries'[i].deadline # NoDeadline =>
                                <<entries'[i].deadline, i>> \in timers'
      BY <1>1, <1>4, IndexMembers
    <3> QED BY <3>1, <3>2
  <2> QED BY <2>1 DEF Key, IsTimer
<1> QED BY <1>1, <1>2, <1>5, <1>6 DEF IndexesAgree, TypeOK

\* TaskQueue::mark_ready of tasks that are not ready.
LEMMA MarkReadyKeepsIndexes ==
    ASSUME TypeOK, IndexesAgree, NEW S \in SUBSET LiveIds, MarkReady(S)
    PROVE  /\ IndexesAgree'
           /\ entries' \in [LiveIds' -> Entry] /\ LiveIds' = LiveIds
           /\ LiveIds' \subseteq Nat
           /\ ready' \subseteq Int \X Nat /\ timers' \subseteq Int \X Nat
           /\ \A i \in LiveIds : /\ entries'[i].deadline = entries[i].deadline
                                 /\ entries'[i].timerId = entries[i].timerId
                                 /\ entries'[i].ready <=> (entries[i].ready \/ i \in S)
<1>1. /\ LiveIds' = LiveIds
      /\ \A i \in LiveIds : entries'[i] = IF i \in S THEN [entries[i] EXCEPT !.ready = TRUE]
                                          ELSE entries[i]
      /\ LiveIds' \subseteq Nat
  BY DEF TypeOK, MarkReady, LiveIds
<1>2. \A i \in LiveIds : entries[i] \in Entry
  BY DEF TypeOK
<1>3. \A i \in LiveIds : /\ entries'[i] \in Entry
                         /\ entries'[i].deadline = entries[i].deadline
                         /\ entries'[i].timerId = entries[i].timerId
                         /\ entries'[i].ready <=> (entries[i].ready \/ i \in S)
  BY <1>1, <1>2 DEF Entry
<1>4. entries' \in [LiveIds' -> Entry]
  BY <1>1, <1>3 DEF MarkReady, LiveIds
<1>5. ready' = {Key(i, entries'[i]) : i \in {j \in LiveIds' : entries'[j].ready}}
  BY <1>1, <1>2, <1>3 DEF MarkReady, IndexesAgree, Key
<1>6. timers' = {Key(i, entries'[i]) :
                   i \in {j \in LiveIds' : ~entries'[j].ready /\ IsTimer(entries'[j])}}
  BY <1>1, <1>2, <1>3 DEF MarkReady, IndexesAgree, Key, IsTimer
<1>7. ready' \subseteq Int \X Nat /\ timers' \subseteq Int \X Nat
  BY <1>2 DEF TypeOK, MarkReady, Key, Entry
<1> QED BY <1>1, <1>3, <1>4, <1>5, <1>6, <1>7 DEF IndexesAgree

-----------------------------------------------------------------------------
(* Each action keeps the invariant.                                        *)

\* What the operations that queue a new task share: an entry is inserted under nextId.
LEMMA InsertAtNextId ==
    ASSUME IInv, NEW e \in Entry, Insert(nextId, e), nextId' = nextId + 1,
           UNCHANGED <<now, turn, cleared, lastFired>>,
           ~e.ready \/ ~IsTimer(e),
           IsTimer(e) => now <= e.deadline
    PROVE  /\ IndexesAgree' /\ Allocated' /\ RunsAlone' /\ BatchOrder'
           /\ entries' \in [LiveIds' -> Entry] /\ LiveIds' = LiveIds \cup {nextId}
           /\ LiveIds' \subseteq Nat
           /\ ready' \subseteq Int \X Nat /\ timers' \subseteq Int \X Nat
           /\ nextId' \in Nat
           /\ nextId \notin LiveIds
           /\ entries'[nextId] = e
           /\ \A i \in LiveIds : entries'[i] = entries[i]
<1>1. nextId \in Nat /\ nextId \notin LiveIds /\ nextId' \in Nat
  BY DEF IInv, TypeOK, Allocated
<1>2. /\ IndexesAgree'
      /\ entries' \in [LiveIds' -> Entry] /\ LiveIds' = LiveIds \cup {nextId}
      /\ LiveIds' \subseteq Nat
      /\ ready' \subseteq Int \X Nat /\ timers' \subseteq Int \X Nat
      /\ entries'[nextId] = e
      /\ \A i \in LiveIds : entries'[i] = entries[i]
  BY <1>1, InsertKeepsIndexes DEF IInv
<1>3. Allocated'
  BY <1>1, <1>2 DEF IInv, TypeOK, Allocated, turn, NoTask
<1>4. RunsAlone'
  BY <1>1, <1>2 DEF IInv, TypeOK, Allocated, RunsAlone, turn
<1>5. BatchOrder'
  BY <1>1, <1>2 DEF IInv, TypeOK, Allocated, BatchOrder, turn, IsTimer, Key, NoDeadline, Entry
<1> QED BY <1>1, <1>2, <1>3, <1>4, <1>5

\* A task that JavaScript cannot name.
LEMMA InsertOfNoTimerId ==
    ASSUME IInv, NEW e \in Entry, Insert(nextId, e), nextId' = nextId + 1,
           UNCHANGED <<now, jsTimers, timerCounter, turn, cleared, lastFired>>,
           ~e.ready \/ ~IsTimer(e), IsTimer(e) => now <= e.deadline,
           e.timerId = NoTimerId
    PROVE  IInv'
<1>1. /\ IndexesAgree' /\ Allocated' /\ RunsAlone' /\ BatchOrder'
      /\ entries' \in [LiveIds' -> Entry] /\ LiveIds' = LiveIds \cup {nextId}
      /\ LiveIds' \subseteq Nat
      /\ ready' \subseteq Int \X Nat /\ timers' \subseteq Int \X Nat
      /\ nextId' \in Nat
      /\ nextId \notin LiveIds
      /\ entries'[nextId] = e
      /\ \A i \in LiveIds : entries'[i] = entries[i]
  BY InsertAtNextId
<1>2. TypeOK'
  BY <1>1 DEF IInv, TypeOK, turn
<1>3. TimerIdsOnce'
  BY <1>1 DEF IInv, TimerIdsOnce, turn
<1>4. TimerIdsMatchTasks'
  BY <1>1 DEF IInv, TimerIdsMatchTasks, RunsAlone, Allocated, TypeOK, turn
<1> QED BY <1>1, <1>2, <1>3, <1>4 DEF IInv

\* EventLoop::queue, queue_ready and queue_timer.
LEMMA QueueTaskKeeps ==
    ASSUME IInv, NEW r \in BOOLEAN, QueueTask(r)
    PROVE  IInv'
<1> DEFINE e == [ready |-> r, deadline |-> NoDeadline, repeat |-> FALSE,
                 delay |-> 0, level |-> 0, timerId |-> NoTimerId]
<1>1. e \in Entry /\ ~IsTimer(e) /\ e.timerId = NoTimerId
  BY DEF Entry, IsTimer, NoDeadline, NoTimerId
<1>2. /\ Insert(nextId, e) /\ nextId' = nextId + 1
      /\ UNCHANGED <<now, jsTimers, timerCounter, turn, cleared, lastFired>>
  BY DEF QueueTask
<1> HIDE DEF e
<1> QED BY <1>1, <1>2, InsertOfNoTimerId

\* EventLoop::queue_timer, which AbortSignal.timeout calls.
LEMMA QueueTimerKeeps ==
    ASSUME IInv, NEW timeout \in Timeouts, QueueTimer(timeout)
    PROVE  IInv'
<1> DEFINE e == [ready |-> FALSE, deadline |-> now + AtLeastZero(timeout), repeat |-> FALSE,
                 delay |-> 0, level |-> 0, timerId |-> NoTimerId]
<1>1. now \in Nat /\ AtLeastZero(timeout) \in Nat
  BY ConstantsAssumption DEF IInv, TypeOK, AtLeastZero
<1>2. e \in Entry /\ ~e.ready /\ now <= e.deadline /\ e.timerId = NoTimerId
  BY <1>1 DEF Entry, NoTimerId
<1>3. /\ Insert(nextId, e) /\ nextId' = nextId + 1
      /\ UNCHANGED <<now, jsTimers, timerCounter, turn, cleared, lastFired>>
  BY DEF QueueTimer
<1> HIDE DEF e
<1> QED BY <1>2, <1>3, InsertOfNoTimerId

\* setTimeout and setInterval.
LEMMA SetTimerKeeps ==
    ASSUME IInv, NEW timeout \in Timeouts, NEW r \in BOOLEAN, SetTimer(timeout, r)
    PROVE  IInv'
<1> DEFINE delay == ClampNested(nesting, AtLeastZero(timeout))
<1> DEFINE e == [ready |-> FALSE, deadline |-> now + delay, repeat |-> r,
                 delay |-> delay, level |-> Deeper(nesting), timerId |-> FreshTimerId]
<1>1. /\ now \in Nat /\ delay \in Nat /\ Deeper(nesting) \in Nat
      /\ FreshTimerId \in Nat /\ FreshTimerId # NoTimerId /\ timerCounter <= FreshTimerId
  BY ConstantsAssumption
     DEF IInv, TypeOK, AtLeastZero, ClampNested, Deeper, FreshTimerId, NoTimerId
<1>2. /\ Insert(nextId, e) /\ nextId' = nextId + 1
      /\ timerCounter' = FreshTimerId + 1
      /\ jsTimers' = [t \in DOMAIN jsTimers \cup {FreshTimerId} |->
                        IF t = FreshTimerId THEN nextId ELSE jsTimers[t]]
      /\ UNCHANGED <<now, turn, cleared, lastFired>>
  BY DEF SetTimer
<1> HIDE DEF delay
<1>3. e \in Entry /\ ~e.ready /\ now <= e.deadline /\ e.timerId = FreshTimerId
  BY <1>1 DEF Entry
<1> HIDE DEF e
<1>4. /\ IndexesAgree' /\ Allocated' /\ RunsAlone' /\ BatchOrder'
      /\ entries' \in [LiveIds' -> Entry] /\ LiveIds' = LiveIds \cup {nextId}
      /\ LiveIds' \subseteq Nat
      /\ ready' \subseteq Int \X Nat /\ timers' \subseteq Int \X Nat
      /\ nextId' \in Nat
      /\ nextId \notin LiveIds
      /\ entries'[nextId] = e
      /\ \A i \in LiveIds : entries'[i] = entries[i]
  BY <1>2, <1>3, InsertAtNextId
<1>5. /\ FreshTimerId \notin DOMAIN jsTimers /\ FreshTimerId \notin cleared
      /\ \A i \in LiveIds : entries[i].timerId # FreshTimerId
      /\ current.timerId # FreshTimerId
  BY <1>1 DEF IInv, TypeOK, TimerIdsOnce, TimerIdsMatchTasks, Entry
<1>6. /\ DOMAIN jsTimers' = DOMAIN jsTimers \cup {FreshTimerId}
      /\ jsTimers'[FreshTimerId] = nextId
      /\ \A t \in DOMAIN jsTimers : jsTimers'[t] = jsTimers[t]
      /\ jsTimers' \in [DOMAIN jsTimers' -> Nat] /\ DOMAIN jsTimers' \subseteq Nat
      /\ timerCounter' \in Nat
  BY <1>1, <1>2, <1>5 DEF IInv, TypeOK
<1>7. TypeOK'
  BY <1>2, <1>4, <1>6 DEF IInv, TypeOK, turn
<1>8. TimerIdsOnce'
  <2>1. timerCounter < timerCounter' /\ timerCounter \in Nat /\ FreshTimerId < timerCounter'
        /\ current.timerId \in Nat /\ 0 < FreshTimerId
    BY <1>1, <1>2 DEF IInv, TypeOK, Entry, NoTimerId
  <2>2. \A t \in DOMAIN jsTimers' : 0 < t /\ t < timerCounter'
    BY <1>6, <2>1 DEF IInv, TypeOK, TimerIdsOnce
  <2>3. \A t \in cleared' : 0 < t /\ t < timerCounter' /\ t \notin DOMAIN jsTimers'
    BY <1>2, <1>5, <1>6, <2>1 DEF IInv, TypeOK, TimerIdsOnce
  <2>4. current'.timerId # NoTimerId => current'.timerId < timerCounter'
    BY <1>2, <1>6, <2>1 DEF IInv, TimerIdsOnce, turn
  <2>5. phase' = "task" /\ current'.timerId # NoTimerId =>
          \A i \in LiveIds' : entries'[i].timerId # current'.timerId
    BY <1>2, <1>3, <1>4, <1>5 DEF IInv, TimerIdsOnce, turn
  <2> QED BY <2>2, <2>3, <2>4, <2>5 DEF TimerIdsOnce
<1>9. TimerIdsMatchTasks'
  <2>1. \A t \in DOMAIN jsTimers' :
          \/ jsTimers'[t] \in LiveIds' /\ entries'[jsTimers'[t]].timerId = t
          \/ /\ phase' = "task" /\ running' = jsTimers'[t] /\ current'.timerId = t
             /\ running' \notin LiveIds'
    BY <1>2, <1>3, <1>4, <1>6 DEF IInv, TimerIdsMatchTasks, Allocated, TypeOK, turn
  <2>2. \A i \in LiveIds' : entries'[i].timerId # NoTimerId =>
          entries'[i].timerId \in DOMAIN jsTimers' /\ jsTimers'[entries'[i].timerId] = i
    BY <1>3, <1>4, <1>6 DEF IInv, TimerIdsMatchTasks
  <2> QED BY <2>1, <2>2 DEF TimerIdsMatchTasks
<1> QED BY <1>4, <1>7, <1>8, <1>9 DEF IInv

\* EventLoop::signal_ready.
LEMMA SignalReadyKeeps ==
    ASSUME IInv, NEW id, SignalReady(id)
    PROVE  IInv'
<1>1. /\ id \in LiveIds /\ ~IsTimer(entries[id]) /\ MarkReady({id})
      /\ UNCHANGED <<now, ids, turn, cleared, lastFired>>
  BY DEF SignalReady
<1>2. /\ IndexesAgree'
      /\ entries' \in [LiveIds' -> Entry] /\ LiveIds' = LiveIds
      /\ LiveIds' \subseteq Nat
      /\ ready' \subseteq Int \X Nat /\ timers' \subseteq Int \X Nat
      /\ \A i \in LiveIds : /\ entries'[i].deadline = entries[i].deadline
                            /\ entries'[i].timerId = entries[i].timerId
  BY <1>1, MarkReadyKeepsIndexes DEF IInv
<1>3. \A i \in LiveIds : IsTimer(entries[i]) => entries'[i] = entries[i]
  BY <1>1 DEF MarkReady, IInv, TypeOK
<1>4. TypeOK'
  BY <1>1, <1>2 DEF IInv, TypeOK, ids, turn
<1>5. Allocated' /\ RunsAlone'
  BY <1>1, <1>2 DEF IInv, Allocated, RunsAlone, ids, turn
<1>6. TimerIdsOnce' /\ TimerIdsMatchTasks'
  BY <1>1, <1>2 DEF IInv, TimerIdsOnce, TimerIdsMatchTasks, ids, turn
<1>7. BatchOrder'
  BY <1>1, <1>2, <1>3 DEF IInv, BatchOrder, IsTimer, Key, turn
<1> QED BY <1>2, <1>4, <1>5, <1>6, <1>7 DEF IInv

\* What a removal leaves of the facts that mention neither JS timers nor the running task.
LEMMA RemovalKeepsOrder ==
    ASSUME IInv, NEW id \in LiveIds, Remove(id), now' = now, lastFired' = lastFired,
           nextId' = nextId, batch' = batch
    PROVE  BatchOrder' /\ \A i \in LiveIds' : i < nextId'
<1>1. /\ LiveIds' = LiveIds \ {id}
      /\ \A i \in LiveIds' : entries'[i] = entries[i]
  BY RemoveKeepsIndexes DEF IInv
<1> QED BY <1>1 DEF IInv, BatchOrder, Allocated, Key

\* EventLoop::cancel_if_queued of a task that JavaScript cannot name.
LEMMA CancelIfQueuedKeeps ==
    ASSUME IInv, NEW id, CancelIfQueued(id)
    PROVE  IInv'
<1>1. /\ id \in LiveIds /\ entries[id].timerId = NoTimerId /\ Remove(id)
      /\ UNCHANGED <<now, ids, turn, cleared, lastFired>>
  BY DEF CancelIfQueued
<1>2. /\ IndexesAgree'
      /\ entries' \in [LiveIds' -> Entry] /\ LiveIds' = LiveIds \ {id}
      /\ LiveIds' \subseteq Nat
      /\ ready' \subseteq Int \X Nat /\ timers' \subseteq Int \X Nat
      /\ \A i \in LiveIds' : entries'[i] = entries[i]
  BY <1>1, RemoveKeepsIndexes DEF IInv
<1>3. BatchOrder' /\ \A i \in LiveIds' : i < nextId'
  BY <1>1, RemovalKeepsOrder DEF ids, turn
<1>4. TypeOK'
  BY <1>1, <1>2 DEF IInv, TypeOK, ids, turn
<1>5. Allocated' /\ RunsAlone'
  BY <1>1, <1>2, <1>3 DEF IInv, Allocated, RunsAlone, ids, turn
<1>6. TimerIdsOnce'
  BY <1>1, <1>2 DEF IInv, TimerIdsOnce, ids, turn
<1>7. TimerIdsMatchTasks'
  <2>1. \A t \in DOMAIN jsTimers : jsTimers[t] # id
    BY <1>1 DEF IInv, TimerIdsMatchTasks, TimerIdsOnce, NoTimerId
  <2>2. /\ jsTimers' = jsTimers /\ phase' = phase /\ running' = running
        /\ current' = current
    BY <1>1 DEF ids, turn
  <2>3. \A s \in DOMAIN jsTimers' :
          \/ jsTimers'[s] \in LiveIds' /\ entries'[jsTimers'[s]].timerId = s
          \/ /\ phase' = "task" /\ running' = jsTimers'[s] /\ current'.timerId = s
             /\ running' \notin LiveIds'
    BY <1>2, <2>1, <2>2 DEF IInv, TimerIdsMatchTasks
  <2>4. \A i \in LiveIds' : entries'[i].timerId # NoTimerId =>
          entries'[i].timerId \in DOMAIN jsTimers' /\ jsTimers'[entries'[i].timerId] = i
    BY <1>2, <2>2 DEF IInv, TimerIdsMatchTasks
  <2> QED BY <2>3, <2>4 DEF TimerIdsMatchTasks
<1> QED BY <1>2, <1>3, <1>4, <1>5, <1>6, <1>7 DEF IInv

\* clearTimeout and clearInterval: of a queued timer, of the one that runs, of none.
LEMMA ClearTimerKeeps ==
    ASSUME IInv, NEW t, ClearTimer(t)
    PROVE  IInv'
<1>1. /\ t \in Nat /\ 0 < t /\ t < timerCounter
      /\ jsTimers' = [u \in DOMAIN jsTimers \ {t} |-> jsTimers[u]]
      /\ cleared' = cleared \cup {t}
      /\ UNCHANGED <<now, nextId, timerCounter, turn, lastFired>>
  BY DEF ClearTimer, IInv, TypeOK
<1>2. /\ DOMAIN jsTimers' = DOMAIN jsTimers \ {t}
      /\ \A u \in DOMAIN jsTimers' : jsTimers'[u] = jsTimers[u]
      /\ jsTimers' \in [DOMAIN jsTimers' -> Nat] /\ DOMAIN jsTimers' \subseteq Nat
      /\ cleared' \subseteq Nat
  BY <1>1 DEF IInv, TypeOK
<1>3. CASE t \in DOMAIN jsTimers /\ jsTimers[t] \in LiveIds
  <2> DEFINE id == jsTimers[t]
  <2>1. Remove(id)
    BY <1>3 DEF ClearTimer
  <2>2. /\ IndexesAgree'
        /\ entries' \in [LiveIds' -> Entry] /\ LiveIds' = LiveIds \ {id}
        /\ LiveIds' \subseteq Nat
        /\ ready' \subseteq Int \X Nat /\ timers' \subseteq Int \X Nat
        /\ \A i \in LiveIds' : entries'[i] = entries[i]
    BY <1>3, <2>1, RemoveKeepsIndexes DEF IInv
  <2>3. BatchOrder' /\ \A i \in LiveIds' : i < nextId'
    BY <1>1, <1>3, <2>1, RemovalKeepsOrder DEF turn
  <2>4. TypeOK'
    BY <1>1, <1>2, <2>2 DEF IInv, TypeOK, turn
  <2>5. Allocated' /\ RunsAlone'
    BY <1>1, <2>2, <2>3 DEF IInv, Allocated, RunsAlone, turn
  <2>6. TimerIdsOnce'
    BY <1>1, <1>2, <2>2 DEF IInv, TimerIdsOnce, turn
  <2>7. TimerIdsMatchTasks'
    <3>1. entries[id].timerId = t
      BY <1>3 DEF IInv, TimerIdsMatchTasks
    <3>2. \A i \in LiveIds' : entries'[i].timerId # t
      BY <1>1, <2>2 DEF IInv, TimerIdsMatchTasks, NoTimerId
    <3>3. \A u \in DOMAIN jsTimers' :
            \/ jsTimers'[u] \in LiveIds' /\ entries'[jsTimers'[u]].timerId = u
            \/ /\ phase' = "task" /\ running' = jsTimers'[u] /\ current'.timerId = u
               /\ running' \notin LiveIds'
      BY <1>1, <1>2, <2>2, <3>1 DEF IInv, TimerIdsMatchTasks, turn
    <3>4. \A i \in LiveIds' : entries'[i].timerId # NoTimerId =>
            entries'[i].timerId \in DOMAIN jsTimers' /\ jsTimers'[entries'[i].timerId] = i
      BY <1>2, <2>2, <3>2 DEF IInv, TimerIdsMatchTasks
    <3> QED BY <3>3, <3>4 DEF TimerIdsMatchTasks
  <2> QED BY <2>2, <2>3, <2>4, <2>5, <2>6, <2>7 DEF IInv
<1>4. CASE ~(t \in DOMAIN jsTimers /\ jsTimers[t] \in LiveIds)
  <2>1. UNCHANGED queue
    BY <1>4 DEF ClearTimer
  <2>2. \A i \in LiveIds : entries[i].timerId # t
    BY <1>1, <1>4 DEF IInv, TimerIdsMatchTasks, NoTimerId
  <2>3. TypeOK' /\ IndexesAgree' /\ Allocated' /\ RunsAlone' /\ BatchOrder'
    BY <1>1, <1>2, <2>1
       DEF IInv, TypeOK, IndexesAgree, Allocated, RunsAlone, BatchOrder, turn, queue, LiveIds
  <2>4. TimerIdsOnce'
    BY <1>1, <1>2, <2>1 DEF IInv, TimerIdsOnce, turn, queue, LiveIds
  <2>5. TimerIdsMatchTasks'
    BY <1>1, <1>2, <2>1, <2>2 DEF IInv, TimerIdsMatchTasks, turn, queue, LiveIds
  <2> QED BY <2>3, <2>4, <2>5 DEF IInv
<1> QED BY <1>3, <1>4

\* EventLoop::step expires the timers and freezes the batch.
LEMMA StepBeginKeeps ==
    ASSUME IInv, StepBegin
    PROVE  IInv'
<1>1. /\ phase = "idle" /\ MarkReady(Expired) /\ batch' = ready' /\ phase' = "batch"
      /\ UNCHANGED <<now, ids, running, current, nesting, cleared, lastFired>>
  BY DEF StepBegin
<1>2. Expired \in SUBSET LiveIds
  BY DEF Expired
<1>3. /\ IndexesAgree'
      /\ entries' \in [LiveIds' -> Entry] /\ LiveIds' = LiveIds
      /\ LiveIds' \subseteq Nat
      /\ ready' \subseteq Int \X Nat /\ timers' \subseteq Int \X Nat
      /\ \A i \in LiveIds : /\ entries'[i].deadline = entries[i].deadline
                            /\ entries'[i].timerId = entries[i].timerId
                            /\ entries'[i].ready <=> (entries[i].ready \/ i \in Expired)
  BY <1>1, <1>2, MarkReadyKeepsIndexes DEF IInv
<1>4. \A k : k \in batch' <=>
        \E i \in LiveIds : entries'[i].ready /\ k = <<entries[i].deadline, i>>
  BY <1>1, <1>3 DEF IndexesAgree, Key
<1>5. \A i \in LiveIds : entries[i].deadline \in Int /\ i \in Nat
  BY DEF IInv, TypeOK, Entry
<1>6. \A i \in LiveIds : i \in Expired <=>
        ~entries[i].ready /\ entries[i].deadline # NoDeadline /\ entries[i].deadline <= now
  <2> SUFFICES ASSUME NEW i \in LiveIds
               PROVE  i \in Expired <=> /\ ~entries[i].ready /\ entries[i].deadline # NoDeadline
                                        /\ entries[i].deadline <= now
    OBVIOUS
  <2>1. i \in Expired <=> \E k \in timers : k[2] = i /\ k[1] <= now
    BY DEF Expired
  <2>2. \A k \in timers : k[2] = i => /\ ~entries[i].ready /\ entries[i].deadline # NoDeadline
                                      /\ k[1] = entries[i].deadline
    BY IndexMembers DEF IInv
  <2>3. ~entries[i].ready /\ entries[i].deadline # NoDeadline =>
          <<entries[i].deadline, i>> \in timers
    BY IndexMembers DEF IInv
  <2> QED BY <2>1, <2>2, <2>3
<1>7. TypeOK'
  BY <1>1, <1>3 DEF IInv, TypeOK, ids, Phases
<1>8. Allocated' /\ RunsAlone'
  <2>1. \A k \in batch' : k[2] \in LiveIds
    BY <1>4
  <2> QED BY <1>1, <1>3, <2>1 DEF IInv, Allocated, RunsAlone, ids
<1>9. TimerIdsOnce' /\ TimerIdsMatchTasks'
  BY <1>1, <1>3 DEF IInv, TimerIdsOnce, TimerIdsMatchTasks, ids
<1>10. BatchOrder'
  <2>1. \A i \in LiveIds' : IsTimer(entries'[i]) =>
          /\ 0 <= entries'[i].deadline /\ lastFired' <= entries'[i].deadline
          /\ entries'[i].ready => entries'[i].deadline <= now'
    BY <1>1, <1>3, <1>6 DEF IInv, BatchOrder, IsTimer
  <2>2. \A k \in batch' : /\ NoDeadline <= k[1] /\ k[1] <= now'
                          /\ k[2] \in LiveIds' => k[1] = entries'[k[2]].deadline
    <3> SUFFICES ASSUME NEW k \in batch'
                 PROVE  /\ NoDeadline <= k[1] /\ k[1] <= now'
                        /\ k[2] \in LiveIds' => k[1] = entries'[k[2]].deadline
      OBVIOUS
    <3>1. PICK i \in LiveIds : entries'[i].ready /\ k = <<entries[i].deadline, i>>
      BY <1>4
    <3>2. k[1] = entries[i].deadline /\ k[2] = i
      BY <3>1
    <3> QED BY <1>1, <1>3, <1>5, <2>1, <3>1, <3>2 DEF IInv, TypeOK, IsTimer, NoDeadline
  <2>3. \A k \in batch', i \in LiveIds' : IsTimer(entries'[i]) =>
          <<entries'[i].deadline, i>> \in batch' \/ k[1] <= entries'[i].deadline
    <3> SUFFICES ASSUME NEW k \in batch', NEW i \in LiveIds, IsTimer(entries'[i]),
                        ~entries'[i].ready
                 PROVE  k[1] <= entries'[i].deadline
      BY <1>3, <1>4
    <3>1. now < entries[i].deadline
      BY <1>3, <1>5, <1>6 DEF IInv, TypeOK, IsTimer
    <3>2. k[1] \in Int /\ k[1] <= now
      BY <1>1, <1>3, <2>2
    <3> QED BY <1>3, <1>5, <3>1, <3>2 DEF IInv, TypeOK
  <2> QED BY <1>1, <2>1, <2>2, <2>3 DEF IInv, BatchOrder, Key
<1> QED BY <1>3, <1>7, <1>8, <1>9, <1>10 DEF IInv

\* A task of the batch that was cancelled meanwhile is passed over.
LEMMA SkipCancelledKeeps ==
    ASSUME IInv, SkipCancelled
    PROVE  IInv'
<1>1. PICK k \in batch : k[2] \notin LiveIds /\ batch' = batch \ {k}
  BY DEF SkipCancelled
<1>2. UNCHANGED <<now, queue, ids, phase, running, current, nesting, cleared, lastFired>>
  BY DEF SkipCancelled
<1>3. BatchOrder'
  BY <1>1, <1>2 DEF IInv, BatchOrder, Key, queue, LiveIds
<1>4. TypeOK' /\ IndexesAgree' /\ Allocated' /\ RunsAlone'
  BY <1>1, <1>2
     DEF IInv, TypeOK, IndexesAgree, Allocated, RunsAlone, ids, queue, LiveIds
<1>5. TimerIdsOnce' /\ TimerIdsMatchTasks'
  BY <1>2 DEF IInv, TimerIdsOnce, TimerIdsMatchTasks, ids, queue, LiveIds
<1> QED BY <1>3, <1>4, <1>5 DEF IInv

\* The first task of the batch that is still queued is taken out to run.
LEMMA StartTaskKeeps ==
    ASSUME IInv, StartTask
    PROVE  IInv'
<1>1. PICK k \in batch : /\ IsNext(k) /\ k[2] \in LiveIds /\ batch' = batch \ {k}
                         /\ Remove(k[2]) /\ running' = k[2] /\ current' = entries[k[2]]
                         /\ nesting' = entries[k[2]].level
                         /\ lastFired' = IF IsTimer(entries[k[2]])
                                         THEN entries[k[2]].deadline ELSE lastFired
  BY DEF StartTask
<1>2. phase' = "task" /\ UNCHANGED <<now, ids, cleared>>
  BY DEF StartTask
<1> DEFINE id == k[2]
<1>3. /\ IndexesAgree'
      /\ entries' \in [LiveIds' -> Entry] /\ LiveIds' = LiveIds \ {id}
      /\ LiveIds' \subseteq Nat
      /\ ready' \subseteq Int \X Nat /\ timers' \subseteq Int \X Nat
      /\ \A i \in LiveIds' : entries'[i] = entries[i]
  BY <1>1, RemoveKeepsIndexes DEF IInv
<1>4. /\ id \in Nat /\ entries[id] \in Entry /\ k \in Int \X Nat
      /\ k[1] = entries[id].deadline
  BY <1>1 DEF IInv, TypeOK, BatchOrder
<1>5. TypeOK'
  BY <1>1, <1>2, <1>3, <1>4 DEF IInv, TypeOK, ids, Phases, Entry
<1>6. Allocated'
  BY <1>1, <1>2, <1>3 DEF IInv, Allocated, ids
<1>7. RunsAlone'
  <2>1. \A j \in batch : j[2] = id => j = k
    BY <1>1, <1>4 DEF IInv, TypeOK, BatchOrder
  <2> QED BY <1>1, <1>2, <1>3, <1>4, <2>1 DEF RunsAlone
<1>8. TimerIdsOnce'
  <2>1. entries[id].timerId # NoTimerId => /\ entries[id].timerId \in DOMAIN jsTimers
                                           /\ jsTimers[entries[id].timerId] = id
    BY <1>1 DEF IInv, TimerIdsMatchTasks
  <2>2. \A i \in LiveIds' : entries[i].timerId # NoTimerId => jsTimers[entries[i].timerId] = i
    BY <1>3 DEF IInv, TimerIdsMatchTasks
  <2>3. entries[id].timerId # NoTimerId =>
          \A i \in LiveIds' : entries'[i].timerId # entries[id].timerId
    BY <1>3, <2>1, <2>2
  <2> QED BY <1>1, <1>2, <2>1, <2>3 DEF IInv, TimerIdsOnce, ids
<1>9. TimerIdsMatchTasks'
  <2>1. phase # "task"
    BY DEF StartTask
  <2>2. \A t \in DOMAIN jsTimers : jsTimers[t] \in LiveIds /\ entries[jsTimers[t]].timerId = t
    BY <2>1 DEF IInv, TimerIdsMatchTasks
  <2>3. \A t \in DOMAIN jsTimers' :
          \/ jsTimers'[t] \in LiveIds' /\ entries'[jsTimers'[t]].timerId = t
          \/ /\ phase' = "task" /\ running' = jsTimers'[t] /\ current'.timerId = t
             /\ running' \notin LiveIds'
    BY <1>1, <1>2, <1>3, <2>2 DEF ids
  <2>4. \A i \in LiveIds' : entries'[i].timerId # NoTimerId =>
          entries'[i].timerId \in DOMAIN jsTimers' /\ jsTimers'[entries'[i].timerId] = i
    BY <1>2, <1>3 DEF IInv, TimerIdsMatchTasks, ids
  <2> QED BY <2>3, <2>4 DEF TimerIdsMatchTasks
<1>10. BatchOrder'
  <2>1. \A i \in LiveIds' : IsTimer(entries[i]) => k[1] <= entries[i].deadline
    <3> SUFFICES ASSUME NEW i \in LiveIds, IsTimer(entries[i])
                 PROVE  k[1] <= entries[i].deadline
      BY <1>3
    <3>1. entries[i].deadline \in Int /\ i \in Nat
      BY DEF IInv, TypeOK, Entry
    <3>2. <<entries[i].deadline, i>> \in batch \/ k[1] <= entries[i].deadline
      BY DEF IInv, BatchOrder, Key
    <3>3. <<entries[i].deadline, i>> \in batch => KeyLE(k, <<entries[i].deadline, i>>)
      BY <1>1 DEF IsNext
    <3> QED BY <1>4, <3>1, <3>2, <3>3 DEF KeyLE
  <2>2. lastFired' <= now'
    BY <1>1, <1>2, <1>4 DEF IInv, BatchOrder
  <2>3. \A i \in LiveIds' : IsTimer(entries'[i]) =>
          /\ 0 <= entries'[i].deadline /\ lastFired' <= entries'[i].deadline
          /\ entries'[i].ready => entries'[i].deadline <= now'
    BY <1>1, <1>2, <1>3, <1>4, <2>1 DEF IInv, BatchOrder
  <2>4. \A j \in batch' : /\ NoDeadline <= j[1] /\ j[1] <= now'
                          /\ j[2] \in LiveIds' => j[1] = entries'[j[2]].deadline
    BY <1>1, <1>2, <1>3 DEF IInv, BatchOrder
  <2>5. \A j \in batch', i \in LiveIds' : IsTimer(entries'[i]) =>
          <<entries'[i].deadline, i>> \in batch' \/ j[1] <= entries'[i].deadline
    BY <1>1, <1>3 DEF IInv, BatchOrder, Key
  <2> QED BY <2>2, <2>3, <2>4, <2>5 DEF BatchOrder, Key
<1> QED BY <1>3, <1>5, <1>6, <1>7, <1>8, <1>9, <1>10 DEF IInv

\* An interval is queued again under its old id, and a one-shot timer's id is released.
LEMMA FinishTaskKeeps ==
    ASSUME IInv, FinishTask
    PROVE  IInv'
<1>1. /\ phase = "task" /\ phase' = "microtasks" /\ nesting' = 0
      /\ running' = NoTask /\ current' = NoEntry
      /\ UNCHANGED <<now, nextId, timerCounter, batch, cleared, lastFired>>
  BY DEF FinishTask
<1>2. /\ running \in Nat /\ running \notin LiveIds /\ running < nextId
      /\ current \in Entry /\ NoEntry \in Entry /\ NoEntry.timerId = NoTimerId
      /\ \A k \in batch : k[2] # running
  BY <1>1 DEF IInv, RunsAlone, Allocated, TypeOK, NoEntry, Entry, NoTimerId, NoDeadline
<1>3. CASE current.repeat /\ StillSet
  <2> DEFINE delay == ClampNested(current.level, current.delay)
  <2> DEFINE e == [ready |-> FALSE, deadline |-> now + delay, repeat |-> TRUE,
                   delay |-> current.delay, level |-> Deeper(current.level),
                   timerId |-> current.timerId]
  <2>1. /\ Insert(running, e) /\ UNCHANGED jsTimers
        /\ current.timerId \in DOMAIN jsTimers /\ jsTimers[current.timerId] = running
    BY <1>3 DEF FinishTask, Requeue, Release, Repetition, StillSet
  <2>2. /\ now \in Nat /\ delay \in Nat /\ Deeper(current.level) \in Nat
        /\ current.delay \in Nat /\ current.timerId \in Nat
    BY <1>2, ConstantsAssumption DEF IInv, TypeOK, ClampNested, Deeper, Entry
  <2> HIDE DEF delay
  <2>3. /\ e \in Entry /\ ~e.ready /\ now <= e.deadline
        /\ e.timerId = current.timerId /\ e.deadline \in Int
    BY <2>2 DEF Entry
  <2> HIDE DEF e
  <2>4. /\ IndexesAgree'
        /\ entries' \in [LiveIds' -> Entry] /\ LiveIds' = LiveIds \cup {running}
        /\ LiveIds' \subseteq Nat
        /\ ready' \subseteq Int \X Nat /\ timers' \subseteq Int \X Nat
        /\ entries'[running] = e
        /\ \A i \in LiveIds : entries'[i] = entries[i]
    BY <1>2, <2>1, <2>3, InsertKeepsIndexes DEF IInv
  <2>5. TypeOK'
    BY <1>1, <1>2, <2>1, <2>4 DEF IInv, TypeOK, Phases
  <2>6. Allocated' /\ RunsAlone'
    BY <1>1, <1>2, <2>4 DEF IInv, TypeOK, Allocated, RunsAlone, NoTask
  <2>7. TimerIdsOnce'
    BY <1>1, <1>2, <2>1 DEF IInv, TimerIdsOnce
  <2>8. TimerIdsMatchTasks'
    <3>1. \A t \in DOMAIN jsTimers' :
            jsTimers'[t] \in LiveIds' /\ entries'[jsTimers'[t]].timerId = t
      <4> SUFFICES ASSUME NEW t \in DOMAIN jsTimers
                   PROVE  jsTimers[t] \in LiveIds' /\ entries'[jsTimers[t]].timerId = t
        BY <2>1
      <4>1. CASE jsTimers[t] \in LiveIds /\ entries[jsTimers[t]].timerId = t
        BY <4>1, <2>4
      <4>2. CASE running = jsTimers[t] /\ current.timerId = t
        BY <4>2, <2>3, <2>4
      <4>3. \/ jsTimers[t] \in LiveIds /\ entries[jsTimers[t]].timerId = t
            \/ running = jsTimers[t] /\ current.timerId = t
        BY DEF IInv, TimerIdsMatchTasks
      <4> QED BY <4>1, <4>2, <4>3
    <3>2. \A i \in LiveIds' : entries'[i].timerId # NoTimerId =>
            entries'[i].timerId \in DOMAIN jsTimers' /\ jsTimers'[entries'[i].timerId] = i
      BY <2>1, <2>3, <2>4 DEF IInv, TimerIdsMatchTasks
    <3> QED BY <3>1, <3>2 DEF TimerIdsMatchTasks
  <2>9. BatchOrder'
    <3>1. \A i \in LiveIds' : IsTimer(entries'[i]) =>
            /\ 0 <= entries'[i].deadline /\ lastFired' <= entries'[i].deadline
            /\ entries'[i].ready => entries'[i].deadline <= now'
      BY <1>1, <2>2, <2>3, <2>4 DEF IInv, BatchOrder, TypeOK
    <3>2. \A k \in batch' : /\ NoDeadline <= k[1] /\ k[1] <= now'
                            /\ k[2] \in LiveIds' => k[1] = entries'[k[2]].deadline
      BY <1>1, <1>2, <2>4 DEF IInv, BatchOrder
    <3>3. \A k \in batch', i \in LiveIds' : IsTimer(entries'[i]) =>
            <<entries'[i].deadline, i>> \in batch' \/ k[1] <= entries'[i].deadline
      BY <1>1, <2>2, <2>3, <2>4 DEF IInv, BatchOrder, Key, TypeOK
    <3> QED BY <1>1, <3>1, <3>2, <3>3 DEF IInv, BatchOrder, Key
  <2> QED BY <2>4, <2>5, <2>6, <2>7, <2>8, <2>9 DEF IInv
<1>4. CASE current.repeat /\ ~StillSet
  <2>1. UNCHANGED queue /\ UNCHANGED jsTimers
    BY <1>4 DEF FinishTask, Requeue, Release
  <2>2. TypeOK' /\ IndexesAgree' /\ Allocated' /\ RunsAlone' /\ BatchOrder'
    BY <1>1, <1>2, <2>1 DEF IInv, TypeOK, IndexesAgree, Allocated, RunsAlone, BatchOrder,
                            queue, LiveIds, Phases, NoTask
  <2>3. TimerIdsOnce'
    BY <1>1, <1>2, <2>1 DEF IInv, TimerIdsOnce
  <2>4. TimerIdsMatchTasks'
    BY <1>1, <1>4, <2>1 DEF IInv, TimerIdsMatchTasks, StillSet, queue, LiveIds
  <2> QED BY <2>2, <2>3, <2>4 DEF IInv
<1>5. CASE ~current.repeat
  <2>1. UNCHANGED queue /\ jsTimers' = [u \in DOMAIN jsTimers \ {current.timerId} |-> jsTimers[u]]
    BY <1>5 DEF FinishTask, Requeue, Release
  <2>2. /\ DOMAIN jsTimers' = DOMAIN jsTimers \ {current.timerId}
        /\ \A u \in DOMAIN jsTimers' : jsTimers'[u] = jsTimers[u]
        /\ jsTimers' \in [DOMAIN jsTimers' -> Nat] /\ DOMAIN jsTimers' \subseteq Nat
    BY <2>1 DEF IInv, TypeOK
  <2>3. TypeOK' /\ IndexesAgree' /\ Allocated' /\ RunsAlone' /\ BatchOrder'
    BY <1>1, <1>2, <2>1, <2>2 DEF IInv, TypeOK, IndexesAgree, Allocated, RunsAlone,
                                  BatchOrder, queue, LiveIds, Phases, NoTask
  <2>4. TimerIdsOnce'
    BY <1>1, <1>2, <2>2 DEF IInv, TimerIdsOnce
  <2>5. \A i \in LiveIds : entries[i].timerId # NoTimerId => entries[i].timerId # current.timerId
    BY <1>1 DEF IInv, TimerIdsOnce
  <2>6. TimerIdsMatchTasks'
    BY <1>1, <2>1, <2>2, <2>5 DEF IInv, TimerIdsMatchTasks, queue, LiveIds
  <2> QED BY <2>3, <2>4, <2>6 DEF IInv
<1> QED BY <1>3, <1>4, <1>5

\* The steps that only move the thread along, or the clock.
LEMMA QuietStepsKeep ==
    ASSUME IInv, DrainMicrotasks \/ StepEnd \/ Tick \/ UNCHANGED vars
    PROVE  IInv'
<1>1. /\ UNCHANGED <<queue, ids, batch, running, current, nesting, cleared, lastFired>>
      /\ now' \in Nat /\ now <= now' /\ now \in Nat
      /\ phase' \in Phases /\ (phase' = phase \/ (phase # "task" /\ phase' # "task"))
  BY DEF DrainMicrotasks, StepEnd, Tick, vars, turn, IInv, TypeOK, Phases
<1>2. TypeOK' /\ IndexesAgree' /\ Allocated' /\ RunsAlone'
  BY <1>1 DEF IInv, TypeOK, IndexesAgree, Allocated, RunsAlone, queue, ids, LiveIds
<1>3. TimerIdsOnce' /\ TimerIdsMatchTasks'
  BY <1>1 DEF IInv, TimerIdsOnce, TimerIdsMatchTasks, queue, ids, LiveIds
<1>4. BatchOrder'
  BY <1>1 DEF IInv, BatchOrder, TypeOK, Entry, queue, LiveIds
<1> QED BY <1>2, <1>3, <1>4 DEF IInv

-----------------------------------------------------------------------------
(* The theorems.                                                           *)

\* A new event loop satisfies the invariant.
LEMMA InitEstablishes == Init => IInv
<1> SUFFICES ASSUME Init PROVE IInv
  OBVIOUS
<1>1. LiveIds = {} /\ DOMAIN jsTimers = {} /\ NoEntry \in Entry /\ NoEntry.timerId = NoTimerId
  BY DEF Init, LiveIds, NoEntry, Entry, NoTimerId, NoDeadline
<1>2. TypeOK
  BY <1>1 DEF Init, TypeOK, LiveIds, Phases, NoDeadline, NoTask
<1>3. IndexesAgree
  BY <1>1 DEF Init, IndexesAgree
<1>4. Allocated /\ RunsAlone /\ TimerIdsOnce /\ TimerIdsMatchTasks /\ BatchOrder
  BY <1>1 DEF Init, Allocated, RunsAlone, TimerIdsOnce, TimerIdsMatchTasks, BatchOrder,
              NoTask, NoDeadline
<1> QED BY <1>2, <1>3, <1>4 DEF IInv

\* Every step of a program, of the dispatcher or of the clock keeps the invariant.
LEMMA NextKeeps == IInv /\ [Next]_vars => IInv'
<1> SUFFICES ASSUME IInv, [Next]_vars PROVE IInv'
  OBVIOUS
<1>1. ASSUME NEW r \in BOOLEAN, QueueTask(r) PROVE IInv'
  BY <1>1, QueueTaskKeeps
<1>2. ASSUME NEW t \in Timeouts, QueueTimer(t) PROVE IInv'
  BY <1>2, QueueTimerKeeps
<1>3. ASSUME NEW t \in Timeouts, NEW r \in BOOLEAN, SetTimer(t, r) PROVE IInv'
  BY <1>3, SetTimerKeeps
<1>4. ASSUME NEW t \in 1..MaxTasks, ClearTimer(t) PROVE IInv'
  BY <1>4, ClearTimerKeeps
<1>5. ASSUME NEW i \in 0..(MaxTasks - 1), SignalReady(i) \/ CancelIfQueued(i) PROVE IInv'
  BY <1>5, SignalReadyKeeps, CancelIfQueuedKeeps
<1>6. CASE Js
  BY <1>1, <1>2, <1>3, <1>4, <1>5, <1>6 DEF Js
<1>7. CASE StepBegin \/ SkipCancelled \/ StartTask \/ FinishTask
  BY <1>7, StepBeginKeeps, SkipCancelledKeeps, StartTaskKeeps, FinishTaskKeeps
<1>8. CASE DrainMicrotasks \/ StepEnd \/ Tick \/ UNCHANGED vars
  BY <1>8, QuietStepsKeep
<1> QED BY <1>6, <1>7, <1>8 DEF Next, Dispatch

\* The invariant holds in every reachable state.
THEOREM Invariance == Spec => []IInv
BY InitEstablishes, NextKeeps, PTL DEF Spec

\* Every variable has its type.
THEOREM TypeCorrect == Spec => []TypeOK
<1>1. IInv => TypeOK
  BY DEF IInv
<1> QED BY <1>1, Invariance, PTL

\* The ready and timer sets of TaskQueue never disagree with its entries.
THEOREM IndexesNeverDrift == Spec => []IndexesAgree
<1>1. IInv => IndexesAgree
  BY DEF IInv
<1> QED BY <1>1, Invariance, PTL

\* The map of JS timer ids and the queued tasks never drift apart.
THEOREM TimerIdsNeverDrift == Spec => []TimerIdsMatchTasks
<1>1. IInv => TimerIdsMatchTasks
  BY DEF IInv
<1> QED BY <1>1, Invariance, PTL

\* What is known of the step that starts a task: only StartTask starts one.
LEMMA OnlyStartTaskStarts ==
    ASSUME IInv, [Next]_vars, phase = "batch", phase' = "task"
    PROVE  StartTask
<1>1. ~Js
  BY DEF Js, QueueTask, QueueTimer, SetTimer, ClearTimer, SignalReady, CancelIfQueued,
         CanQueue, JsRuns
<1>2. ~StepBegin /\ ~SkipCancelled /\ ~FinishTask /\ ~DrainMicrotasks /\ ~StepEnd
  BY DEF StepBegin, SkipCancelled, FinishTask, DrainMicrotasks, StepEnd
<1>3. ~Tick /\ ~UNCHANGED vars
  BY DEF Tick, vars, turn
<1> QED BY <1>1, <1>2, <1>3 DEF Next, Dispatch

\* After clearTimeout or clearInterval the timer's handler never starts again.
THEOREM ClearedTimersStayCleared == Spec => ClearedNeverStarts
<1>1. IInv /\ [Next]_vars =>
        [phase = "batch" /\ phase' = "task" => current'.timerId \notin cleared]_vars
  <2> SUFFICES ASSUME IInv, [Next]_vars, phase = "batch", phase' = "task"
               PROVE  current'.timerId \notin cleared
    OBVIOUS
  <2>1. PICK k \in batch : k[2] \in LiveIds /\ current' = entries[k[2]]
    BY OnlyStartTaskStarts DEF StartTask
  <2> QED BY <2>1 DEF IInv, TimerIdsOnce, TimerIdsMatchTasks, NoTimerId
<1> QED BY <1>1, Invariance, PTL DEF Spec, ClearedNeverStarts

\* Timers start in the order of their deadlines, across batches as well as within one.
THEOREM TimersStartInOrder == Spec => DeadlineOrder
<1>1. IInv /\ [Next]_vars =>
        [phase = "batch" /\ phase' = "task" /\ IsTimer(current') =>
           lastFired <= current'.deadline]_vars
  <2> SUFFICES ASSUME IInv, [Next]_vars, phase = "batch", phase' = "task", IsTimer(current')
               PROVE  lastFired <= current'.deadline
    OBVIOUS
  <2>1. PICK k \in batch : k[2] \in LiveIds /\ current' = entries[k[2]]
    BY OnlyStartTaskStarts DEF StartTask
  <2> QED BY <2>1 DEF IInv, BatchOrder, IsTimer
<1> QED BY <1>1, Invariance, PTL DEF Spec, DeadlineOrder

\* A batch starts no timer while a task that is not a timer waits in it.
THEOREM NonTimersStartFirst == Spec => NonTimersFirst
<1>1. IInv /\ [Next]_vars =>
        [phase = "batch" /\ phase' = "task" /\ IsTimer(current') =>
           \A k \in batch : k[1] = NoDeadline => k[2] \notin LiveIds]_vars
  <2> SUFFICES ASSUME IInv, [Next]_vars, phase = "batch", phase' = "task", IsTimer(current')
               PROVE  \A j \in batch : j[1] # NoDeadline
    OBVIOUS
  <2>1. PICK k \in batch : IsNext(k) /\ k[2] \in LiveIds /\ current' = entries[k[2]]
    BY OnlyStartTaskStarts DEF StartTask
  <2>2. k[1] \in Int /\ 0 <= k[1]
    BY <2>1 DEF IInv, TypeOK, BatchOrder, IsTimer
  <2> QED BY <2>1, <2>2 DEF IsNext, KeyLE, NoDeadline
<1> QED BY <1>1, Invariance, PTL DEF Spec, NonTimersFirst

\* A timer that is nested too deep waits at least MinNested.
LEMMA ClampWaits ==
    ASSUME NEW level \in Nat, NEW delay \in Nat, Deeper(level) > NestLimit + 1
    PROVE  ClampNested(level, delay) >= MinNested
BY ConstantsAssumption DEF Deeper, ClampNested

\* Neither setTimeout nor setInterval can keep a chain of nested timers ready for ever.
THEOREM NestedTimersAlwaysWait == Spec => NestedTimersWait
<1> DEFINE Waits(i) ==
      /\ entries'[i].timerId # NoTimerId
      /\ entries'[i].level > NestLimit + 1
      /\ i \notin LiveIds
      => entries'[i].deadline >= now + MinNested
<1>1. IInv /\ [Next]_vars => [\A i \in DOMAIN entries' : Waits(i)]_vars
  <2> SUFFICES ASSUME IInv, [Next]_vars, NEW i \in DOMAIN entries', i \notin LiveIds
               PROVE  /\ entries'[i].timerId # NoTimerId
                      /\ entries'[i].level > NestLimit + 1
                      => entries'[i].deadline >= now + MinNested
    OBVIOUS
  <2>1. now \in Nat /\ nesting \in Nat /\ current.level \in Nat /\ current.delay \in Nat
    BY DEF IInv, TypeOK, Entry
  <2>2. ASSUME NEW id, NEW e, Insert(id, e) PROVE i = id /\ entries'[i] = e
    BY <2>2 DEF Insert, LiveIds
  <2>3. ASSUME NEW id, Remove(id) PROVE FALSE
    BY <2>3 DEF Remove, LiveIds
  <2>4. ASSUME NEW S, MarkReady(S) PROVE FALSE
    BY <2>4 DEF MarkReady, LiveIds
  <2>5. UNCHANGED queue => FALSE
    BY DEF queue, LiveIds
  <2>6. ASSUME NEW r \in BOOLEAN, QueueTask(r) PROVE entries'[i].timerId = NoTimerId
    BY <2>2, <2>6 DEF QueueTask
  <2>7. ASSUME NEW t \in Timeouts, QueueTimer(t) PROVE entries'[i].timerId = NoTimerId
    BY <2>2, <2>7 DEF QueueTimer
  <2>8. ASSUME NEW t \in Timeouts, NEW r \in BOOLEAN, SetTimer(t, r),
               entries'[i].level > NestLimit + 1
        PROVE  entries'[i].deadline >= now + MinNested
    <3> DEFINE delay == ClampNested(nesting, AtLeastZero(t))
    <3>1. entries'[i].deadline = now + delay /\ entries'[i].level = Deeper(nesting)
      BY <2>2, <2>8 DEF SetTimer
    <3>2. AtLeastZero(t) \in Nat
      BY ConstantsAssumption DEF AtLeastZero
    <3>3. delay \in Nat /\ delay >= MinNested
      BY <2>1, <2>8, <3>1, <3>2, ClampWaits, ConstantsAssumption DEF ClampNested
    <3> HIDE DEF delay
    <3> QED BY <2>1, <3>1, <3>3, ConstantsAssumption
  <2>9. ASSUME FinishTask, entries'[i].level > NestLimit + 1
        PROVE  entries'[i].deadline >= now + MinNested
    <3> DEFINE delay == ClampNested(current.level, current.delay)
    <3>1. Insert(running, Repetition(now))
      BY <2>5, <2>9 DEF FinishTask, Requeue, Release
    <3>2. entries'[i].deadline = now + delay /\ entries'[i].level = Deeper(current.level)
      BY <2>2, <3>1 DEF Repetition
    <3>3. delay \in Nat /\ delay >= MinNested
      BY <2>1, <2>9, <3>2, ClampWaits, ConstantsAssumption DEF ClampNested
    <3> HIDE DEF delay
    <3> QED BY <2>1, <3>2, <3>3, ConstantsAssumption
  <2>10. ASSUME NEW t, ClearTimer(t) PROVE FALSE
    BY <2>3, <2>5, <2>10 DEF ClearTimer
  <2>11. ASSUME NEW id, SignalReady(id) \/ CancelIfQueued(id) PROVE FALSE
    BY <2>3, <2>4, <2>11 DEF SignalReady, CancelIfQueued
  <2>12. ~StepBegin /\ ~SkipCancelled /\ ~StartTask
    BY <2>3, <2>4, <2>5 DEF StepBegin, SkipCancelled, StartTask
  <2>13. ~DrainMicrotasks /\ ~StepEnd /\ ~Tick /\ ~UNCHANGED vars
    BY <2>5 DEF DrainMicrotasks, StepEnd, Tick, vars
  <2> QED BY <2>6, <2>7, <2>8, <2>9, <2>10, <2>11, <2>12, <2>13 DEF Next, Js, Dispatch
<1> QED BY <1>1, Invariance, PTL DEF Spec, NestedTimersWait

\* What a step promises about when timers run holds, for every set of timeouts and every limit.
THEOREM TimersTakeTheirTurn == Spec => TimersInTurn
BY TimersStartInOrder, NonTimersStartFirst, NestedTimersAlwaysWait DEF TimersInTurn

-----------------------------------------------------------------------------
(* Handles and scopes.                                                     *)

BoxType == [page : Pages \cup {Null}, cursor : 0..PageSize, full : SUBSET Pages,
            next : Boxes \cup {Null}, prev : Boxes \cup {Null}, active : BOOLEAN]
Contents == {"null", "value", "dangling"}
PoolTypeOK ==
    /\ levels \in Seq([base : Nat, alive : BOOLEAN])
    /\ top \in Nat /\ stack \in Seq(Contents)
    /\ DOMAIN scopes \subseteq Scopes
    /\ scopes \in [DOMAIN scopes -> [level : Nat, private : Boxes \cup {Null}]]
    /\ boxes \in [Boxes -> BoxType]
    /\ activeHead \in Boxes \cup {Null}
    /\ memory \in [Pages -> [Slots -> Contents]]
    /\ freePages \subseteq Pages /\ freeAllocs \subseteq Boxes
    /\ DOMAIN handles \subseteq Handles
    /\ handles \in [DOMAIN handles ->
                      [scope : Scopes, at : [page : Pages \cup {Null}, slot : Nat]]]

\* k is the last level before l that is alive, or 0.
LastAlive(k, l) ==
    /\ k \in 0..(l - 1) /\ (k # 0 => levels[k].alive)
    /\ \A i \in (k + 1)..(l - 1) : ~levels[i].alive

\* Each scope has a live level of its own, and the bases of the levels ascend.
LevelsAscend ==
    /\ \A sc \in DOMAIN scopes :
         scopes[sc].level \in 1..Len(levels) /\ levels[scopes[sc].level].alive
    /\ \A sc, other \in DOMAIN scopes : scopes[sc].level = scopes[other].level => sc = other
    /\ \A l, k \in 1..Len(levels) : l <= k => levels[l].base <= levels[k].base
    /\ \A l \in 1..Len(levels) : levels[l].base <= top
    /\ top <= Len(stack)
    /\ \A l \in 1..Len(levels) : \E k \in Nat : LastAlive(k, l)

\* The list of private allocations is doubly linked, and the walk from its head reaches every
\* one that is active.
Active == {b \in Boxes : boxes[b].active}
ListLinked ==
    /\ activeHead # Null => activeHead \in Active /\ boxes[activeHead].prev = Null
    /\ \A b \in Active : boxes[b].next # Null =>
         boxes[b].next \in Active /\ boxes[boxes[b].next].prev = b
    /\ \A b \in Active : boxes[b].prev # Null =>
         boxes[b].prev \in Active /\ boxes[boxes[b].prev].next = b
    /\ \A b \in Active : boxes[b].prev = Null => b = activeHead
    /\ Active \subseteq Walked

\* An active allocation is of one scope.
AllocsOwned ==
    /\ \A sc \in DOMAIN scopes : scopes[sc].private # Null => scopes[sc].private \in Active
    /\ \A sc, other \in DOMAIN scopes :
         scopes[sc].private = scopes[other].private /\ scopes[sc].private # Null => sc = other
    /\ \A b \in Active : \E sc \in DOMAIN scopes : scopes[sc].private = b
    /\ freeAllocs \cap Active = {}

\* A page is of one allocation, or free.
PagesOf(b) == boxes[b].full \cup ({boxes[b].page} \ {Null})
PagesApart ==
    /\ \A b \in Boxes : PagesOf(b) \cap freePages = {} /\ boxes[b].page \notin boxes[b].full
    /\ \A b, c \in Boxes : b # c => PagesOf(b) \cap PagesOf(c) = {}
    /\ \A b \in Boxes \ Active : PagesOf(b) = {}
    /\ \A b \in Active : boxes[b].page = Null => boxes[b].cursor = 0

\* The handles of a scope are in slots of the root stack below the base of every level above
\* the scope's, or in slots of its private allocation that are traced.
Placed(h) ==
    LET sc == handles[h].scope
        at == handles[h].at
    IN /\ sc \in DOMAIN scopes
       /\ at.page = Null =>
            /\ at.slot \in 1..top
            /\ \A l \in 1..Len(levels) : scopes[sc].level < l => at.slot <= levels[l].base
       /\ at.page # Null =>
            /\ scopes[sc].private # Null /\ at.slot \in Slots
            /\ TracedIn(scopes[sc].private, at.page, at.slot)
HandlesPlaced == \A h \in DOMAIN handles : Placed(h)

\* What is traced is there: RootsStay, with the allocations a walk reaches named.
Sound ==
    /\ \A i \in 1..top : stack[i] # "dangling"
    /\ \A b \in Active, p \in Pages, i \in Slots : TracedIn(b, p, i) => memory[p][i] # "dangling"
    /\ HandlesKeepTheirSlots

PoolInv ==
    /\ PoolTypeOK /\ LevelsAscend /\ ListLinked /\ AllocsOwned /\ PagesApart /\ HandlesPlaced /\ Sound

-----------------------------------------------------------------------------
(* The list of private allocations.                                        *)

\* The walk reaches the active allocations and no other.
LEMMA WalkedIsActive ==
    ASSUME PoolTypeOK, ListLinked
    PROVE  Walked = Active
<1>1. HoldsList(Active)
  BY DEF ListLinked, HoldsList
<1>2. Walked \subseteq Active
  BY <1>1 DEF Walked, Active
<1> QED BY <1>2 DEF ListLinked

\* No allocation is before and after the same one, itself included.
LEMMA NoCycle ==
    ASSUME PoolTypeOK, PoolAssumption, ListLinked, NEW b \in Active, boxes[b].next # Null
    PROVE  boxes[b].prev # boxes[b].next /\ boxes[b].next # b
<1>1. boxes[b].next # b
  <2> SUFFICES ASSUME boxes[b].next = b
               PROVE  FALSE
    OBVIOUS
  <2>1. b # activeHead
    BY DEF ListLinked, Active
  <2>2. HoldsList(Active \ {b})
    BY <2>1 DEF HoldsList, ListLinked, Active
  <2> QED BY <2>2 DEF ListLinked, Walked, Active
<1>2. boxes[b].prev # boxes[b].next
  <2> SUFFICES ASSUME boxes[b].prev = boxes[b].next
               PROVE  FALSE
    OBVIOUS
  <2>1. PICK c \in Active : c = boxes[b].next /\ boxes[c].prev = b /\ boxes[c].next = b
    BY DEF ListLinked
  <2>2. b # activeHead /\ c # activeHead
    BY <2>1 DEF ListLinked, Active, PoolAssumption
  <2>3. HoldsList(Active \ {b, c})
    BY <2>1, <2>2 DEF HoldsList, ListLinked
  <2> QED BY <2>3 DEF ListLinked, Walked, Active
<1> QED BY <1>1, <1>2

\* An allocation that is registered is the head of the list, in front of all there were.
LEMMA RegisterLinks ==
    ASSUME PoolTypeOK, PoolAssumption, ListLinked, NEW b \in Boxes, b \notin Active,
           boxes' \in [Boxes -> BoxType], activeHead' = b,
           boxes'[b].active = TRUE, boxes'[b].next = activeHead, boxes'[b].prev = Null,
           \A x \in Boxes \ {b} :
              /\ boxes'[x].active = boxes[x].active /\ boxes'[x].next = boxes[x].next
              /\ boxes'[x].prev = IF x = activeHead THEN b ELSE boxes[x].prev
    PROVE  Active' = Active \cup {b} /\ ListLinked'
<1>1. Active' = Active \cup {b}
  BY DEF Active
<1>2. ASSUME NEW set \in SUBSET Boxes, HoldsList(set)'
      PROVE  Active \cup {b} \subseteq set
  <2>1. b \in set
    BY <1>2, PoolAssumption DEF HoldsList
  <2>2. HoldsList(set \cap Active)
    <3>1. activeHead # Null => activeHead \in set \cap Active
      BY <1>2, <2>1 DEF HoldsList, ListLinked
    <3>2. ASSUME NEW x \in set \cap Active, boxes[x].next # Null
          PROVE  boxes[x].next \in set \cap Active
      BY <1>2, <3>2 DEF HoldsList, ListLinked, Active
    <3> QED BY <3>1, <3>2 DEF HoldsList
  <2>3. Active \subseteq set \cap Active
    BY <2>2 DEF ListLinked, Walked
  <2> QED BY <2>1, <2>3
<1>3. Active' \subseteq Walked'
  BY <1>1, <1>2 DEF Walked, Active
<1>4. /\ activeHead' # Null => activeHead' \in Active' /\ boxes'[activeHead'].prev = Null
      /\ \A x \in Active' : boxes'[x].next # Null =>
           boxes'[x].next \in Active' /\ boxes'[boxes'[x].next].prev = x
  BY <1>1 DEF ListLinked, Active
<1>5. \A x \in Active' :
         /\ boxes'[x].prev # Null => boxes'[x].prev \in Active' /\ boxes'[boxes'[x].prev].next = x
         /\ boxes'[x].prev = Null => x = activeHead'
  BY <1>1, PoolAssumption DEF ListLinked, Active
<1> QED BY <1>1, <1>3, <1>4, <1>5 DEF ListLinked

\* One that is unregistered leaves the others linked.
LEMMA UnregisterLinks ==
    ASSUME PoolTypeOK, PoolAssumption, ListLinked, NEW b \in Active,
           boxes' \in [Boxes -> BoxType], boxes'[b].active = FALSE,
           activeHead' = IF boxes[b].prev # Null THEN activeHead ELSE boxes[b].next,
           \A x \in Boxes \ {b} :
              /\ boxes'[x].active = boxes[x].active
              /\ boxes'[x].next = IF x = boxes[b].prev THEN boxes[b].next ELSE boxes[x].next
              /\ boxes'[x].prev = IF x = boxes[b].next THEN boxes[b].prev ELSE boxes[x].prev
    PROVE  Active' = Active \ {b} /\ ListLinked'
<1>1. Active' = Active \ {b}
  BY DEF Active
<1>2. ASSUME NEW set \in SUBSET Boxes, HoldsList(set)'
      PROVE  Active \ {b} \subseteq set
  <2> DEFINE old == ((set \cap Active) \ {b}) \cup (IF activeHead = b \/ boxes[b].prev \in set THEN {b} ELSE {})
  <2>1. HoldsList(old)
    <3>1. activeHead # Null => activeHead \in old
      BY <1>2 DEF HoldsList, ListLinked, Active
    <3>2. ASSUME NEW x \in old, boxes[x].next # Null
          PROVE  boxes[x].next \in old
      <4>1. x \in Active /\ boxes[x].next \in Active /\ boxes[boxes[x].next].prev = x
        BY <3>2 DEF ListLinked
      <4>2. CASE x # b /\ boxes[x].next # b
        <5>1. x # boxes[b].prev
          BY <4>2, PoolAssumption DEF ListLinked, Active
        <5>2. boxes'[x].next = boxes[x].next /\ x \in set
          BY <3>2, <4>1, <4>2, <5>1 DEF Active
        <5> QED BY <1>2, <3>2, <4>1, <4>2, <5>2 DEF HoldsList
      <4>3. CASE x # b /\ boxes[x].next = b
        BY <3>2, <4>1, <4>3
      <4>4. CASE x = b /\ activeHead = b
        BY <1>2, <3>2, <4>1, <4>4 DEF HoldsList, ListLinked
      <4>5. CASE x = b /\ boxes[b].prev \in set
        BY <1>2, <3>2, <4>1, <4>5 DEF HoldsList, ListLinked, Active
      <4>6. CASE x = b /\ activeHead # b /\ boxes[b].prev \notin set
        BY <3>2, <4>6
      <4> QED BY <4>2, <4>3, <4>4, <4>5, <4>6
    <3> QED BY <3>1, <3>2 DEF HoldsList
  <2>2. old \in SUBSET Boxes
    BY DEF Active
  <2>3. Active \subseteq old
    BY <2>1, <2>2 DEF ListLinked, Walked
  <2> QED BY <2>3
<1>3. Active' \subseteq Walked'
  BY <1>1, <1>2 DEF Walked, Active
<1>4. activeHead' # Null => activeHead' \in Active' /\ boxes'[activeHead'].prev = Null
  BY <1>1, NoCycle DEF ListLinked, Active
<1>5. \A x \in Active' : boxes'[x].next # Null =>
         boxes'[x].next \in Active' /\ boxes'[boxes'[x].next].prev = x
  BY <1>1, NoCycle DEF ListLinked, Active
<1>6. \A x \in Active' :
         /\ boxes'[x].prev # Null => boxes'[x].prev \in Active' /\ boxes'[boxes'[x].prev].next = x
         /\ boxes'[x].prev = Null => x = activeHead'
  BY <1>1, NoCycle DEF ListLinked, Active
<1> QED BY <1>1, <1>3, <1>4, <1>5, <1>6 DEF ListLinked

-----------------------------------------------------------------------------
(* What a step and the collection after it leave in the slots.             *)

LEMMA MemoryKept ==
    ASSUME ListLinked', NEW mem \in [Pages -> [Slots -> Contents]], memory' = CollectMemory(mem)
    PROVE  /\ memory' \in [Pages -> [Slots -> Contents]]
           /\ \A b \in Active', p \in Pages, i \in Slots :
                TracedIn(b, p, i)' => memory'[p][i] = mem[p][i]
<1>1. Active' \subseteq Walked'
  BY DEF ListLinked
<1>2. \A p \in Pages, i \in Slots : memory'[p][i] = Collected(mem[p][i], TracedInPage(p, i)')
  BY DEF CollectMemory
<1>3. memory' \in [Pages -> [Slots -> Contents]]
  BY DEF CollectMemory, Collected, Contents
<1>4. ASSUME NEW b \in Active', NEW p \in Pages, NEW i \in Slots, TracedIn(b, p, i)'
      PROVE  memory'[p][i] = mem[p][i]
  <2>1. TracedInPage(p, i)'
    BY <1>1, <1>4 DEF TracedInPage
  <2> QED BY <1>2, <2>1 DEF Collected
<1> QED BY <1>3, <1>4

LEMMA StackKept ==
    ASSUME NEW slots \in Seq(Contents), stack' = CollectStack(slots)
    PROVE  /\ stack' \in Seq(Contents) /\ Len(stack') = Len(slots)
           /\ \A i \in 1..Len(slots) : i <= top' => stack'[i] = slots[i]
<1>1. DOMAIN slots = 1..Len(slots) /\ Len(slots) \in Nat
  OBVIOUS
<1>2. \A i \in 1..Len(slots) : stack'[i] = Collected(slots[i], TracedOnStack(i)')
  BY <1>1 DEF CollectStack
<1>3. \A i \in 1..Len(slots) : stack'[i] \in Contents
  BY <1>1, <1>2 DEF Collected, Contents
<1>4. stack' \in Seq(Contents) /\ Len(stack') = Len(slots)
  BY <1>1, <1>3 DEF CollectStack
<1>5. \A i \in 1..Len(slots) : i <= top' => stack'[i] = slots[i]
  BY <1>2 DEF Collected, TracedOnStack
<1> QED BY <1>4, <1>5

-----------------------------------------------------------------------------
(* The actions.                                                            *)

\* What leaves the private allocations alone leaves the list and the pages alone.
LEMMA PrivateFrame ==
    ASSUME UNCHANGED privateVars, ListLinked, PagesApart
    PROVE  /\ ListLinked' /\ PagesApart' /\ Active' = Active
           /\ \A b \in Boxes : \A p, i : TracedIn(b, p, i)' <=> TracedIn(b, p, i)
<1>1. Active' = Active /\ Walked' = Walked
  BY DEF privateVars, Active, Walked, HoldsList
<1>2. ListLinked'
  BY <1>1 DEF privateVars, ListLinked
<1>3. PagesApart'
  BY <1>1 DEF privateVars, PagesApart, PagesOf
<1> QED BY <1>1, <1>2, <1>3 DEF privateVars, TracedIn

\* The handle new, of the scope sc and the slot at, is added to those that are alive.
HandleGiven(new, sc, at) ==
    /\ DOMAIN handles' = DOMAIN handles \cup {new}
    /\ handles'[new] = [scope |-> sc, at |-> at]
    /\ \A h \in DOMAIN handles : handles'[h] = handles[h]
    /\ handles' \in [DOMAIN handles' -> [scope : Scopes, at : [page : Pages \cup {Null}, slot : Nat]]]

\* A new handle is one that was not alive.
LEMMA HandleAdded ==
    ASSUME PoolTypeOK, NEW sc \in Scopes, NEW at \in [page : Pages \cup {Null}, slot : Nat],
           NewHandle(sc, at)
    PROVE  \E new \in Handles \ DOMAIN handles : HandleGiven(new, sc, at)
<1> DEFINE new == CHOOSE h \in Handles : h \notin DOMAIN handles
<1>1. new \in Handles \ DOMAIN handles
  BY DEF NewHandle, PoolTypeOK
<1>2. handles' = [h \in DOMAIN handles \cup {new} |->
                    IF h = new THEN [scope |-> sc, at |-> at] ELSE handles[h]]
  BY DEF NewHandle
<1> HIDE DEF new
<1>3. HandleGiven(new, sc, at)
  BY <1>1, <1>2 DEF PoolTypeOK, HandleGiven
<1> QED BY <1>1, <1>3

\* It is in the slot that was taken.
LEMMA HandleOnStack ==
    ASSUME PoolTypeOK, NEW sc \in Scopes, NEW i \in Nat, PoolAssumption, NewHandle(sc, OnStack(i))
    PROVE  \E new \in Handles \ DOMAIN handles : HandleGiven(new, sc, [page |-> Null, slot |-> i])
<1> DEFINE at == [page |-> Null, slot |-> i]
<1>1. at \in [page : Pages \cup {Null}, slot : Nat] /\ NewHandle(sc, at)
  BY DEF OnStack
<1> HIDE DEF at
<1>2. \E new \in Handles \ DOMAIN handles : HandleGiven(new, sc, at)
  BY <1>1, HandleAdded
<1> QED BY <1>2 DEF at

LEMMA HandleInPage ==
    ASSUME PoolTypeOK, NEW sc \in Scopes, NEW p \in Pages, NEW i \in Slots, PoolAssumption,
           NewHandle(sc, InPage(p, i))
    PROVE  \E new \in Handles \ DOMAIN handles : HandleGiven(new, sc, [page |-> p, slot |-> i])
<1> DEFINE at == [page |-> p, slot |-> i]
<1>1. at \in [page : Pages \cup {Null}, slot : Nat] /\ NewHandle(sc, at)
  BY DEF InPage, Slots
<1> HIDE DEF at
<1>2. \E new \in Handles \ DOMAIN handles : HandleGiven(new, sc, at)
  BY <1>1, HandleAdded
<1> QED BY <1>2 DEF at

LEMMA NewScopeStep ==
    ASSUME PoolInv, PoolAssumption, NewScope
    PROVE  PoolInv'
<1> DEFINE new == CHOOSE sc \in Scopes : sc \notin DOMAIN scopes
<1>1. new \in Scopes \ DOMAIN scopes
  BY DEF NewScope, PoolInv, PoolTypeOK
<1>2. scopes' = [sc \in DOMAIN scopes \cup {new} |->
                   IF sc = new THEN [level |-> Len(levels) + 1, private |-> Null] ELSE scopes[sc]]
  BY DEF NewScope
<1> HIDE DEF new
<1>3. /\ DOMAIN scopes' = DOMAIN scopes \cup {new}
      /\ scopes'[new].level = Len(levels) + 1 /\ scopes'[new].private = Null
      /\ \A sc \in DOMAIN scopes : scopes'[sc] = scopes[sc]
  BY <1>1, <1>2
<1>4. /\ levels \in Seq([base : Nat, alive : BOOLEAN]) /\ top \in Nat /\ stack \in Seq(Contents)
      /\ levels' = Append(levels, [base |-> top, alive |-> TRUE])
      /\ UNCHANGED <<top, stack, handles>> /\ UNCHANGED privateVars
  BY DEF NewScope, PushLevel, PoolInv, PoolTypeOK
<1>5. /\ levels' \in Seq([base : Nat, alive : BOOLEAN]) /\ Len(levels') = Len(levels) + 1
      /\ Len(levels) \in Nat
      /\ levels'[Len(levels) + 1] = [base |-> top, alive |-> TRUE]
      /\ \A l \in 1..Len(levels) : levels'[l] = levels[l]
  BY <1>4
<1>6. PoolTypeOK'
  <2>1. scopes' \in [DOMAIN scopes' -> [level : Nat, private : Boxes \cup {Null}]]
    BY <1>1, <1>2, <1>5 DEF PoolInv, PoolTypeOK
  <2> QED BY <1>1, <1>3, <1>4, <1>5, <2>1 DEF PoolInv, PoolTypeOK, privateVars
<1>7. LevelsAscend'
  <2>1. \A sc \in DOMAIN scopes' :
           scopes'[sc].level \in 1..Len(levels') /\ levels'[scopes'[sc].level].alive
    BY SMTT(30), <1>3, <1>5 DEF PoolInv, LevelsAscend
  <2>2. \A sc, other \in DOMAIN scopes' : scopes'[sc].level = scopes'[other].level => sc = other
    BY <1>3, <1>5 DEF PoolInv, LevelsAscend
  <2>3. \A l \in 1..Len(levels') : levels'[l].base <= top
    BY <1>4, <1>5 DEF PoolInv, LevelsAscend
  <2>4. \A l, k \in 1..Len(levels') : l <= k => levels'[l].base <= levels'[k].base
    BY <1>4, <1>5, <2>3 DEF PoolInv, LevelsAscend
  <2>5. \A l \in 1..Len(levels') : \E k \in Nat : LastAlive(k, l)'
    <3>0. PICK n \in Nat : /\ n = Len(levels) /\ Len(levels') = n + 1
                           /\ \A i \in 1..n : levels'[i].alive = levels[i].alive
      BY <1>5
    <3>1. ASSUME NEW l \in 1..Len(levels)
          PROVE  \E k \in Nat : LastAlive(k, l)'
      <4>1. PICK k \in Nat : LastAlive(k, l)
        BY DEF PoolInv, LevelsAscend
      <4>2. LastAlive(k, l)'
        <5>1. k \in 0..(l - 1) /\ l \in 1..n
          BY <3>0, <4>1 DEF LastAlive
        <5>2. k # 0 => levels'[k].alive
          BY <3>0, <4>1, <5>1 DEF LastAlive
        <5>3. \A i \in (k + 1)..(l - 1) : ~levels'[i].alive
          BY <3>0, <4>1, <5>1 DEF LastAlive
        <5> QED BY <5>1, <5>2, <5>3 DEF LastAlive
      <4> QED BY <4>2
    <3>2. \E k \in Nat : LastAlive(k, n + 1)'
      <4>1. CASE Len(levels) = 0
        BY <3>0, <4>1 DEF LastAlive
      <4>2. CASE Len(levels) # 0 /\ levels[Len(levels)].alive
        <5>1. LastAlive(n, n + 1)'
          BY <3>0, <4>2 DEF LastAlive
        <5> QED BY <5>1
      <4>3. CASE Len(levels) # 0 /\ ~levels[Len(levels)].alive
        <5>1. PICK k \in Nat : LastAlive(k, Len(levels))
          <6>1. Len(levels) \in 1..Len(levels)
            BY ONLY <1>5, <4>3
          <6> QED BY <6>1 DEF PoolInv, LevelsAscend
        <5>2. LastAlive(k, n + 1)'
          <6>1. n \in Nat \ {0} /\ ~levels'[n].alive
            BY <3>0, <4>3
          <6>2. k \in 0..(n - 1)
            BY <3>0, <5>1 DEF LastAlive
          <6>3. k # 0 => levels'[k].alive
            BY <3>0, <5>1, <6>1, <6>2 DEF LastAlive
          <6>4. \A i \in (k + 1)..n : ~levels'[i].alive
            BY <3>0, <5>1, <6>1, <6>2 DEF LastAlive
          <6> QED BY <3>0, <6>1, <6>2, <6>3, <6>4 DEF LastAlive
        <5> QED BY <5>2
      <4> QED BY <4>1, <4>2, <4>3
    <3>3. ASSUME NEW l \in 1..Len(levels')
          PROVE  l \in 1..n \/ l = n + 1
      BY <3>0
    <3> QED BY <3>0, <3>1, <3>2, <3>3
  <2> QED BY <1>4, <2>1, <2>2, <2>3, <2>4, <2>5 DEF PoolInv, LevelsAscend
<1>8. /\ ListLinked' /\ PagesApart' /\ Active' = Active
      /\ \A b \in Boxes : \A p, i : TracedIn(b, p, i)' <=> TracedIn(b, p, i)
  BY <1>4, PrivateFrame DEF PoolInv
<1>9. AllocsOwned'
  <2>1. \A sc \in DOMAIN scopes' : scopes'[sc].private # Null =>
           sc \in DOMAIN scopes /\ scopes'[sc] = scopes[sc]
    BY <1>3
  <2>2. \A b \in Active : \E sc \in DOMAIN scopes : scopes'[sc].private = b
    BY <1>3 DEF PoolInv, AllocsOwned
  <2>3. freeAllocs' = freeAllocs
    BY <1>4 DEF privateVars
  <2> QED BY <1>3, <1>8, <2>1, <2>2, <2>3 DEF PoolInv, AllocsOwned
<1>10. HandlesPlaced'
  <2> SUFFICES ASSUME NEW h \in DOMAIN handles
               PROVE  Placed(h)'
    BY <1>4 DEF HandlesPlaced
  <2>1. Placed(h) /\ handles' = handles
    BY <1>4 DEF PoolInv, HandlesPlaced
  <2>2. /\ handles[h].scope \in DOMAIN scopes /\ scopes'[handles[h].scope] = scopes[handles[h].scope]
        /\ scopes[handles[h].scope].private \in Boxes \cup {Null}
    BY <1>3, <2>1 DEF Placed, PoolInv, PoolTypeOK
  <2>3. ASSUME handles[h].at.page = Null
        PROVE  \A l \in 1..Len(levels') : scopes[handles[h].scope].level < l => handles[h].at.slot <= levels'[l].base
    BY <1>4, <1>5, <2>1, <2>3 DEF Placed
  <2>4. ASSUME handles[h].at.page # Null
        PROVE  TracedIn(scopes[handles[h].scope].private, handles[h].at.page, handles[h].at.slot)'
    BY <1>8, <2>1, <2>2, <2>4 DEF Placed
  <2> QED BY <1>3, <1>4, <2>1, <2>2, <2>3, <2>4 DEF Placed
<1>11. Sound'
  BY <1>4, <1>8 DEF PoolInv, Sound, HandlesKeepTheirSlots, Held, privateVars, Active
<1> QED BY <1>6, <1>7, <1>8, <1>9, <1>10, <1>11 DEF PoolInv

LEMMA StackAllocStep ==
    ASSUME PoolInv, PoolAssumption, NEW sc \in DOMAIN scopes, StackAlloc(sc)
    PROVE  PoolInv'
<1> DEFINE slots == IF top = Len(stack) THEN stack \o NewPage ELSE stack
           put == [slots EXCEPT ![top + 1] = "value"]
<1>1. /\ levels \in Seq([base : Nat, alive : BOOLEAN]) /\ top \in Nat /\ stack \in Seq(Contents)
      /\ Len(levels) \in Nat /\ Len(stack) \in Nat /\ top <= Len(stack)
      /\ PageSize \in Nat \ {0}
  BY DEF PoolInv, PoolTypeOK, LevelsAscend, PoolAssumption
<1>2. /\ scopes[sc].level = Len(levels) /\ top' = top + 1 /\ stack' = CollectStack(put)
      /\ NewHandle(sc, OnStack(top + 1)) /\ UNCHANGED <<levels, scopes>> /\ UNCHANGED privateVars
  BY DEF StackAlloc, IsInnermost
<1>3. /\ slots \in Seq(Contents) /\ Len(slots) \in Nat /\ top + 1 <= Len(slots)
      /\ \A i \in 1..top : slots[i] = stack[i]
  <2>1. CASE top = Len(stack)
    <3>1. NewPage \in Seq(Contents) /\ Len(NewPage) = PageSize
      BY <1>1 DEF NewPage, Slots, Contents
    <3> QED BY <1>1, <2>1, <3>1
  <2>2. CASE top # Len(stack)
    BY <1>1, <2>2
  <2> QED BY <2>1, <2>2
<1> HIDE DEF slots
<1>4. /\ put \in Seq(Contents) /\ Len(put) = Len(slots) /\ put[top + 1] = "value"
      /\ \A i \in 1..top : put[i] = stack[i]
  BY <1>1, <1>3 DEF Contents
<1> HIDE DEF put
<1>5. /\ stack' \in Seq(Contents) /\ top' <= Len(stack') /\ stack'[top + 1] = "value"
      /\ \A i \in 1..top : stack'[i] = stack[i]
  BY <1>1, <1>2, <1>3, <1>4, StackKept
<1>6. PICK new \in Handles \ DOMAIN handles : HandleGiven(new, sc, [page |-> Null, slot |-> top + 1])
  <2>1. sc \in Scopes /\ PoolTypeOK /\ top + 1 \in Nat
    BY <1>1 DEF PoolInv, PoolTypeOK
  <2> QED BY <1>2, <2>1, HandleOnStack
<1>7. PoolTypeOK'
  BY <1>1, <1>2, <1>5, <1>6 DEF PoolInv, PoolTypeOK, privateVars, HandleGiven
<1>8. LevelsAscend'
  <2>1. \A l \in 1..Len(levels) : levels[l].base \in Nat /\ levels[l].base <= top
    <3>1. \A l \in 1..Len(levels) : levels[l] \in [base : Nat, alive : BOOLEAN]
      BY <1>1, ElementOfSeq
    <3> QED BY <3>1 DEF PoolInv, LevelsAscend
  <2>2. \A l \in 1..Len(levels) : levels[l].base <= top'
    BY <1>1, <1>2, <2>1
  <2>3. \A l, k : LastAlive(k, l)' <=> LastAlive(k, l)
    BY <1>2 DEF LastAlive
  <2> QED BY <1>2, <1>5, <2>2, <2>3 DEF PoolInv, LevelsAscend
<1>9. /\ ListLinked' /\ PagesApart' /\ Active' = Active
      /\ \A b \in Boxes : \A p, i : TracedIn(b, p, i)' <=> TracedIn(b, p, i)
  BY <1>2, PrivateFrame DEF PoolInv
<1>10. AllocsOwned'
  BY <1>2, <1>9 DEF PoolInv, AllocsOwned, privateVars
<1>11. ASSUME NEW h \in DOMAIN handles
       PROVE  Placed(h)' /\ Held(handles[h].at)' = "value" /\ handles[h].at # handles'[new].at
  <2>1. /\ Placed(h) /\ Held(handles[h].at) = "value" /\ handles'[h] = handles[h]
        /\ handles[h].at \in [page : Pages \cup {Null}, slot : Nat]
    BY <1>6 DEF PoolInv, HandlesPlaced, Sound, HandlesKeepTheirSlots, PoolTypeOK, HandleGiven
  <2>2. CASE handles[h].at.page = Null
    <3>1. handles[h].at.slot \in 1..top
      BY <2>1, <2>2 DEF Placed
    <3> QED BY <1>1, <1>2, <1>5, <1>6, <2>1, <2>2, <3>1 DEF Placed, Held, HandleGiven
  <2>3. CASE handles[h].at.page # Null
    <3>1. scopes[handles[h].scope].private \in Boxes
      BY <2>1, <2>3 DEF Placed, PoolInv, PoolTypeOK
    <3> QED BY <1>2, <1>6, <1>9, <2>1, <2>3, <3>1 DEF Placed, Held, privateVars, HandleGiven
  <2> QED BY <2>2, <2>3
<1>12. Placed(new)' /\ Held(handles[new].at)' = "value"
  BY <1>1, <1>2, <1>5, <1>6 DEF Placed, Held, HandleGiven
<1>13. HandlesPlaced'
  BY <1>6, <1>11, <1>12 DEF HandlesPlaced, HandleGiven
<1>14. Sound'
  <2>1. \A i \in 1..top' : stack'[i] # "dangling"
    <3>1. \A i \in 1..top : stack[i] # "dangling"
      BY DEF PoolInv, Sound
    <3>2. \A i \in 1..top' : i \in 1..top \/ i = top + 1
      BY <1>1, <1>2
    <3> QED BY <1>5, <3>1, <3>2
  <2>2. \A b \in Active', p \in Pages, i \in Slots : TracedIn(b, p, i)' => memory'[p][i] # "dangling"
    BY <1>2, <1>9 DEF PoolInv, Sound, privateVars, Active
  <2>3. HandlesKeepTheirSlots'
    BY <1>6, <1>11, <1>12 DEF HandlesKeepTheirSlots, Held, PoolInv, Sound, HandleGiven
  <2> QED BY <2>1, <2>2, <2>3 DEF Sound
<1> QED BY <1>7, <1>8, <1>9, <1>10, <1>13, <1>14 DEF PoolInv

\* Slot number `slot' of page p is taken for the allocation b, in whose state bs the step starts,
\* and mem is what the pages hold before the collection.
SlotTaken(sc, b, bs, p, slot, mem) ==
    /\ NewHandle(sc, InPage(p, slot))
    /\ boxes' \in [Boxes -> BoxType]
    /\ \A x \in Boxes : /\ boxes'[x].next = bs[x].next /\ boxes'[x].prev = bs[x].prev
                        /\ boxes'[x].active = bs[x].active
    /\ \A x \in Boxes \ {b} : boxes'[x] = bs[x]
    /\ boxes'[b].page = p /\ p \notin boxes'[b].full
    /\ PagesOf(b)' = PagesOf(b) \cup {p}
    /\ freePages' \subseteq freePages \ {p}
    /\ \A x \in Boxes : p \in PagesOf(x) => x = b
    /\ \A q \in Pages, i \in Slots : TracedIn(b, q, i)' <=> TracedIn(b, q, i) \/ (q = p /\ i = slot)
    /\ ~TracedIn(b, p, slot)
    /\ memory' = CollectMemory(mem) /\ mem[p][slot] = "value"
    /\ \A q \in Pages, i \in Slots :
         (\E x \in Boxes : TracedIn(x, q, i)) => mem[q][i] = memory[q][i]

\* The slot that PrivatePages::alloc takes: in the allocation's page, or in one that is of no
\* allocation.
LEMMA AllocTakesSlot ==
    ASSUME PoolInv, PoolAssumption, NEW sc, NEW b \in Boxes, NEW bs \in [Boxes -> BoxType],
           AllocIn(bs, b, sc),
           \A x \in Boxes : bs[x].page = boxes[x].page /\ bs[x].full = boxes[x].full,
           IF b \in Active THEN bs[b].cursor = boxes[b].cursor ELSE bs[b].cursor = 0
    PROVE  \E p \in Pages, slot \in Slots, mem \in [Pages -> [Slots -> Contents]] :
              SlotTaken(sc, b, bs, p, slot, mem)
<1> DEFINE box == bs[b]
           turned == box.page = Null \/ box.cursor = PageSize
           slot == IF box.cursor = PageSize THEN 1 ELSE box.cursor + 1
           full == IF turned /\ box.page # Null THEN box.full \cup {box.page} ELSE box.full
<1>1. /\ box \in BoxType /\ box.page \in Pages \cup {Null} /\ box.cursor \in 0..PageSize
      /\ box.full \subseteq Pages /\ Null \notin Pages /\ PageSize \in Nat \ {0}
  BY DEF BoxType, PoolAssumption
<1>2. slot \in Slots
  BY <1>1 DEF Slots
<1>3. PICK p \in IF turned THEN TakePage ELSE {box.page} :
         /\ boxes' = [bs EXCEPT ![b].page = p, ![b].cursor = slot, ![b].full = full]
         /\ freePages' = IF turned THEN freePages \ {p} ELSE freePages
         /\ memory' = CollectMemory([memory EXCEPT ![p] =
                          [(IF turned /\ freePages = {} THEN NewPage ELSE memory[p]) EXCEPT ![slot] = "value"]])
         /\ NewHandle(sc, InPage(p, slot))
  BY DEF AllocIn
<1>4. p \in Pages
  BY <1>1, <1>3 DEF TakePage, NewPages, PoolInv, PoolTypeOK
<1>5. turned => \A x \in Boxes : p \notin PagesOf(x)
  BY <1>1, <1>3, <1>4 DEF TakePage, NewPages, PagesOf, PoolInv, PagesApart
<1>6. ~turned => p = box.page /\ p \in PagesOf(b)
  BY <1>1, <1>3 DEF PagesOf
<1>7. /\ boxes' \in [Boxes -> BoxType] /\ \A x \in Boxes \ {b} : boxes'[x] = bs[x]
      /\ boxes'[b].page = p /\ boxes'[b].cursor = slot /\ boxes'[b].full = full
      /\ boxes'[b].next = bs[b].next /\ boxes'[b].prev = bs[b].prev
      /\ boxes'[b].active = bs[b].active
  <2>1. full \subseteq Pages /\ slot \in 0..PageSize
    BY <1>1, <1>2 DEF Slots
  <2> HIDE DEF full, slot, turned
  <2>2. [bs[b] EXCEPT !.page = p, !.cursor = slot, !.full = full] \in BoxType
    BY <1>1, <1>4, <2>1 DEF BoxType
  <2>3. boxes' = [bs EXCEPT ![b] = [bs[b] EXCEPT !.page = p, !.cursor = slot, !.full = full]]
    BY <1>3
  <2>4. boxes'[b] = [bs[b] EXCEPT !.page = p, !.cursor = slot, !.full = full]
    BY <2>3
  <2> QED BY <1>1, <2>2, <2>3, <2>4 DEF BoxType
<1>8. p \notin full
  BY <1>1, <1>5, <1>6 DEF PagesOf, PoolInv, PagesApart
<1>9. PagesOf(b)' = PagesOf(b) \cup {p}
  BY <1>1, <1>4, <1>6, <1>7 DEF PagesOf
<1>10. \A x \in Boxes : p \in PagesOf(x) => x = b
  BY <1>5, <1>6 DEF PoolInv, PagesApart
<1>11. freePages' \subseteq freePages \ {p}
  BY <1>3, <1>6 DEF PoolInv, PagesApart
<1>12. ~TracedIn(b, p, slot)
  <2>1. CASE turned
    BY <1>4, <1>5, <1>1, <2>1 DEF TracedIn, PagesOf
  <2>2. CASE ~turned
    <3>1. b \in Active
      BY <1>1, <1>6, <2>2 DEF PoolInv, PagesApart
    <3>2. boxes[b].cursor = box.cursor /\ p = box.page /\ p \notin boxes[b].full
      BY <1>1, <1>6, <2>2, <3>1 DEF PoolInv, PagesApart
    <3>3. ~(slot <= boxes[b].cursor)
      BY <1>1, <2>2, <3>2
    <3> QED BY <3>2, <3>3 DEF TracedIn
  <2> QED BY <2>1, <2>2
<1>13. ASSUME NEW q \in Pages, NEW i \in Slots
       PROVE  TracedIn(b, q, i)' <=> TracedIn(b, q, i) \/ (q = p /\ i = slot)
  <2>1. TracedIn(b, q, i)' <=> q \in full \/ (q = p /\ i <= slot)
    BY <1>7 DEF TracedIn
  <2>2. TracedIn(b, q, i) <=> q \in box.full \/ (q = box.page /\ i <= boxes[b].cursor)
    BY DEF TracedIn
  <2>3. i \in 1..PageSize
    BY DEF Slots
  <2>4. CASE box.page = Null
    <3>1. slot = 1 /\ full = box.full
      <4>1. box.cursor = 0
        BY <2>4 DEF PoolInv, PagesApart
      <4> QED BY <1>1, <2>4, <4>1
    <3> QED BY <1>1, <2>1, <2>2, <2>3, <2>4, <3>1
  <2>5. CASE box.page # Null
    <3>1. boxes[b].cursor = box.cursor
      BY <2>5 DEF PoolInv, PagesApart, PagesOf
    <3>2. CASE box.cursor = PageSize
      BY <1>1, <2>1, <2>2, <2>3, <2>5, <3>1, <3>2
    <3>3. CASE box.cursor # PageSize
      BY <1>1, <1>6, <2>1, <2>2, <2>3, <2>5, <3>1, <3>3
    <3> QED BY <3>2, <3>3
  <2> QED BY <2>4, <2>5
<1> DEFINE mem == [memory EXCEPT ![p] =
                     [(IF turned /\ freePages = {} THEN NewPage ELSE memory[p]) EXCEPT ![slot] = "value"]]
<1>14. mem \in [Pages -> [Slots -> Contents]] /\ mem[p][slot] = "value"
  <2>1. memory \in [Pages -> [Slots -> Contents]] /\ NewPage \in [Slots -> Contents]
    BY DEF PoolInv, PoolTypeOK, NewPage, Contents
  <2> HIDE DEF turned, slot
  <2> QED BY <1>2, <1>4, <2>1 DEF Contents
<1>15. ASSUME NEW q \in Pages, NEW i \in Slots, NEW x \in Boxes, TracedIn(x, q, i)
       PROVE  mem[q][i] = memory[q][i]
  <2>1. memory \in [Pages -> [Slots -> Contents]]
    BY DEF PoolInv, PoolTypeOK
  <2>2. CASE q # p
    BY <2>1, <2>2
  <2>3. CASE q = p
    <3>1. p \in PagesOf(x)
      BY <1>1, <1>4, <1>15, <2>3 DEF TracedIn, PagesOf
    <3>2. ~turned /\ x = b
      BY <1>5, <1>10, <3>1
    <3>3. i # slot
      BY <1>12, <1>15, <2>3, <3>2
    <3> HIDE DEF turned, slot
    <3> QED BY <1>4, <2>1, <2>3, <3>2, <3>3
  <2> QED BY <2>2, <2>3
<1>16. memory' = CollectMemory(mem)
  BY <1>3
<1> HIDE DEF mem, slot, full, turned
<1>17. /\ \A x \in Boxes : /\ boxes'[x].next = bs[x].next /\ boxes'[x].prev = bs[x].prev
                           /\ boxes'[x].active = bs[x].active
  BY <1>7
<1>18. \A q \in Pages, i \in Slots : (\E x \in Boxes : TracedIn(x, q, i)) => mem[q][i] = memory[q][i]
  BY <1>15
<1>19. NewHandle(sc, InPage(p, slot)) /\ p \notin boxes'[b].full
  BY <1>3, <1>7, <1>8
<1> USE <1>2, <1>4, <1>14
<1> WITNESS p \in Pages, slot \in Slots, mem \in [Pages -> [Slots -> Contents]]
<1> QED
  BY <1>7, <1>9, <1>10, <1>11, <1>12, <1>13, <1>16, <1>17, <1>18, <1>19 DEF SlotTaken

\* A private allocation, of the scope sc that it has or is given, hands out its next slot.
LEMMA AllocInStep ==
    ASSUME PoolInv, PoolAssumption, NEW sc \in DOMAIN scopes, NEW b \in Boxes,
           NEW bs \in [Boxes -> BoxType], AllocIn(bs, b, sc), bs[b].active = TRUE,
           \A x \in Boxes : bs[x].page = boxes[x].page /\ bs[x].full = boxes[x].full,
           \A x \in Boxes \ {b} : bs[x].cursor = boxes[x].cursor,
           IF b \in Active THEN bs[b].cursor = boxes[b].cursor /\ scopes[sc].private = b
                           ELSE bs[b].cursor = 0 /\ scopes[sc].private = Null,
           ListLinked', Active' = Active \cup {b}, activeHead' \in Boxes \cup {Null},
           scopes' = [scopes EXCEPT ![sc].private = b], freeAllocs' = freeAllocs \ {b},
           UNCHANGED stackVars
    PROVE  PoolInv'
<1>1. PICK p \in Pages, slot \in Slots, mem \in [Pages -> [Slots -> Contents]] :
         SlotTaken(sc, b, bs, p, slot, mem)
  <2>1. IF b \in Active THEN bs[b].cursor = boxes[b].cursor ELSE bs[b].cursor = 0
    OBVIOUS
  <2> QED BY <2>1, AllocTakesSlot
<1>2. \A x \in Boxes \ {b} : /\ PagesOf(x)' = PagesOf(x)
                             /\ \A q \in Pages, i \in Slots : TracedIn(x, q, i)' <=> TracedIn(x, q, i)
  BY <1>1 DEF PagesOf, TracedIn, SlotTaken
<1>3. /\ memory' \in [Pages -> [Slots -> Contents]]
      /\ \A x \in Active', q \in Pages, i \in Slots : TracedIn(x, q, i)' => memory'[q][i] = mem[q][i]
  BY <1>1, MemoryKept DEF SlotTaken
<1>4. PICK new \in Handles \ DOMAIN handles : HandleGiven(new, sc, [page |-> p, slot |-> slot])
  <2>1. sc \in Scopes /\ PoolTypeOK
    BY DEF PoolInv, PoolTypeOK
  <2> QED BY <1>1, <2>1, HandleInPage DEF SlotTaken
<1>5. /\ DOMAIN scopes' = DOMAIN scopes /\ scopes'[sc].private = b
      /\ \A d \in DOMAIN scopes : scopes'[d].level = scopes[d].level
      /\ \A d \in DOMAIN scopes \ {sc} : scopes'[d] = scopes[d]
      /\ scopes' \in [DOMAIN scopes' -> [level : Nat, private : Boxes \cup {Null}]]
  BY DEF PoolInv, PoolTypeOK
<1>6. PoolTypeOK'
  BY <1>1, <1>3, <1>4, <1>5 DEF PoolInv, PoolTypeOK, stackVars, SlotTaken, HandleGiven
<1>7. LevelsAscend'
  <2>1. \A l, k : LastAlive(k, l)' <=> LastAlive(k, l)
    BY DEF LastAlive, stackVars
  <2> QED BY <1>5, <2>1 DEF PoolInv, LevelsAscend, stackVars
<1>8. AllocsOwned'
  <2>1. \A d \in DOMAIN scopes \ {sc} : scopes[d].private # b
    BY PoolAssumption DEF PoolInv, AllocsOwned
  <2>2. b \in Boxes /\ b # Null
    BY PoolAssumption
  <2>3. \A d, other \in DOMAIN scopes' :
           scopes'[d].private = scopes'[other].private /\ scopes'[d].private # Null => d = other
    BY <1>5, <2>1 DEF PoolInv, AllocsOwned
  <2>4. \A x \in Active' : \E d \in DOMAIN scopes' : scopes'[d].private = x
    <3>1. \A x \in Active : \E d \in DOMAIN scopes : scopes[d].private = x /\ (d = sc => x = b)
      BY PoolAssumption DEF PoolInv, AllocsOwned, Active
    <3> QED BY <1>5, <3>1
  <2>5. \A d \in DOMAIN scopes' : scopes'[d].private # Null => scopes'[d].private \in Active'
    BY <1>5 DEF PoolInv, AllocsOwned
  <2>6. freeAllocs' \cap Active' = {}
    BY DEF PoolInv, AllocsOwned
  <2> QED BY <2>3, <2>4, <2>5, <2>6 DEF AllocsOwned
<1>9. PagesApart'
  <2>1. \A x \in Boxes : PagesOf(x)' \cap freePages' = {} /\ boxes'[x].page \notin boxes'[x].full
    BY <1>1, <1>2 DEF PoolInv, PagesApart, SlotTaken
  <2>2. \A x, y \in Boxes : x # y => PagesOf(x)' \cap PagesOf(y)' = {}
    BY <1>1, <1>2 DEF PoolInv, PagesApart, SlotTaken
  <2>3. \A x \in Boxes \ Active' : PagesOf(x)' = {}
    BY <1>1, <1>2 DEF PoolInv, PagesApart, SlotTaken
  <2>4. \A x \in Active' : boxes'[x].page = Null => boxes'[x].cursor = 0
    <3>1. boxes'[b].page # Null
      BY <1>1, PoolAssumption DEF SlotTaken
    <3>2. \A x \in Active : x \in Boxes
      BY DEF Active
    <3> QED BY <1>1, <3>1, <3>2 DEF PoolInv, PagesApart, SlotTaken
  <2> QED BY <2>1, <2>2, <2>3, <2>4 DEF PagesApart
<1>10. ASSUME NEW h \in DOMAIN handles
       PROVE  Placed(h)' /\ Held(handles[h].at)' = "value" /\ handles[h].at # handles'[new].at
  <2>1. /\ Placed(h) /\ Held(handles[h].at) = "value" /\ handles'[h] = handles[h]
        /\ handles[h].at \in [page : Pages \cup {Null}, slot : Nat]
    BY <1>4 DEF PoolInv, HandlesPlaced, Sound, HandlesKeepTheirSlots, PoolTypeOK, HandleGiven
  <2>2. CASE handles[h].at.page = Null
    BY <1>4, <1>5, <2>1, <2>2, PoolAssumption DEF Placed, Held, stackVars, HandleGiven
  <2>3. CASE handles[h].at.page # Null
    <3>1. PICK x \in Active, q \in Pages, i \in Slots :
             /\ handles[h].scope \in DOMAIN scopes /\ scopes[handles[h].scope].private = x
             /\ handles[h].at.page = q /\ handles[h].at.slot = i /\ TracedIn(x, q, i)
      BY <2>1, <2>3 DEF Placed, PoolInv, AllocsOwned
    <3>2. x \in Boxes /\ x # Null /\ q # Null /\ scopes'[handles[h].scope].private = x
      BY <1>5, <3>1, PoolAssumption DEF Active
    <3>3. TracedIn(x, q, i)'
      BY <1>1, <1>2, <3>1, <3>2 DEF SlotTaken
    <3>4. memory'[q][i] = memory[q][i]
      <4>1. mem[q][i] = memory[q][i]
        BY <1>1, <3>1, <3>2 DEF SlotTaken
      <4> QED BY <1>3, <3>1, <3>3, <4>1
    <3>5. ~(q = p /\ i = slot)
      <4>1. x # b => p \notin PagesOf(x)
        BY <1>1, <3>2 DEF SlotTaken
      <4>2. q \in PagesOf(x)
        BY <3>1, <3>2 DEF TracedIn, PagesOf
      <4> QED BY <1>1, <3>1, <4>1, <4>2 DEF SlotTaken
    <3>6. memory[q][i] = "value"
      BY <2>1, <3>1, <3>2 DEF Held
    <3>7. handles[h].at # handles'[new].at
      BY <1>4, <3>1, <3>5 DEF HandleGiven
    <3>8. Held(handles[h].at)' = "value"
      BY <2>1, <3>1, <3>2, <3>4, <3>6 DEF Held
    <3> QED BY <1>5, <2>1, <3>1, <3>2, <3>3, <3>7, <3>8 DEF Placed
  <2> QED BY <2>2, <2>3
<1>11. Placed(new)' /\ Held(handles[new].at)' = "value"
  <2>1. TracedIn(b, p, slot)' /\ memory'[p][slot] = "value"
    BY <1>1, <1>3 DEF SlotTaken
  <2> QED BY <1>4, <1>5, <2>1, PoolAssumption DEF Placed, Held, HandleGiven
<1>12. HandlesPlaced'
  BY <1>4, <1>10, <1>11 DEF HandlesPlaced, HandleGiven
<1>13. Sound'
  <2>1. \A i \in 1..top' : stack'[i] # "dangling"
    BY DEF PoolInv, Sound, stackVars
  <2>2. ASSUME NEW x \in Active', NEW q \in Pages, NEW i \in Slots, TracedIn(x, q, i)'
        PROVE  memory'[q][i] # "dangling"
    <3>1. memory'[q][i] = mem[q][i]
      BY <1>3, <2>2
    <3>2. CASE q = p /\ i = slot
      BY <1>1, <3>1, <3>2 DEF SlotTaken
    <3>3. CASE ~(q = p /\ i = slot)
      <4>1. x \in Boxes /\ TracedIn(x, q, i)
        BY <1>1, <1>2, <2>2, <3>3 DEF Active, SlotTaken
      <4>2. x \in Active
        <5>1. PagesOf(x) # {}
          BY <4>1, PoolAssumption DEF TracedIn, PagesOf
        <5> QED BY <4>1, <5>1 DEF PoolInv, PagesApart
      <4> QED BY <1>1, <3>1, <4>1, <4>2 DEF PoolInv, Sound, SlotTaken
    <3> QED BY <3>2, <3>3
  <2>3. HandlesKeepTheirSlots'
    BY <1>4, <1>10, <1>11 DEF HandlesKeepTheirSlots, Held, PoolInv, Sound, HandleGiven
  <2> QED BY <2>1, <2>2, <2>3 DEF Sound
<1> QED BY <1>6, <1>7, <1>8, <1>9, <1>12, <1>13 DEF PoolInv

LEMMA PrivateAllocStep ==
    ASSUME PoolInv, PoolAssumption, NEW sc \in DOMAIN scopes, PrivateAlloc(sc)
    PROVE  PoolInv'
<1>1. /\ UNCHANGED stackVars /\ PoolTypeOK /\ ListLinked /\ boxes \in [Boxes -> BoxType]
      /\ scopes \in [DOMAIN scopes -> [level : Nat, private : Boxes \cup {Null}]]
      /\ activeHead \in Boxes \cup {Null}
  BY DEF PrivateAlloc, PoolInv, PoolTypeOK
<1>2. CASE scopes[sc].private # Null
  <2>1. PICK b \in Boxes : b = scopes[sc].private /\ b \in Active
    BY <1>1, <1>2 DEF PoolInv, AllocsOwned, Active
  <2>2. AllocIn(boxes, b, sc) /\ UNCHANGED <<scopes, activeHead, freeAllocs>>
    BY <1>2, <2>1 DEF PrivateAlloc
  <2>3. PICK p \in Pages, slot \in Slots, mem \in [Pages -> [Slots -> Contents]] :
           SlotTaken(sc, b, boxes, p, slot, mem)
    BY <1>1, <2>1, <2>2, AllocTakesSlot
  <2>4. /\ activeHead' = activeHead
        /\ \A x \in Boxes : /\ boxes'[x].next = boxes[x].next /\ boxes'[x].prev = boxes[x].prev
                            /\ boxes'[x].active = boxes[x].active
    BY <2>2, <2>3 DEF SlotTaken
  <2>5. Active' = Active
    BY <2>4 DEF Active
  <2>6. Walked' = Walked
    BY <2>4 DEF Walked, HoldsList
  <2>7. ListLinked'
    BY SMTT(30), <1>1, <2>4, <2>5, <2>6 DEF ListLinked, Active
  <2>8. /\ scopes' = [scopes EXCEPT ![sc].private = b] /\ freeAllocs' = freeAllocs \ {b}
        /\ Active' = Active \cup {b} /\ activeHead' \in Boxes \cup {Null} /\ boxes[b].active = TRUE
        /\ boxes[b].cursor = boxes[b].cursor
    BY <1>1, <2>1, <2>2, <2>5 DEF PoolInv, AllocsOwned, Active
  <2> QED BY <1>1, <2>1, <2>2, <2>7, <2>8, AllocInStep
<1>3. CASE scopes[sc].private = Null
  <2>1. PICK b \in TakeAlloc :
           /\ scopes' = [scopes EXCEPT ![sc].private = b] /\ activeHead' = b
           /\ freeAllocs' = freeAllocs \ {b} /\ AllocIn(Register(boxes, b), b, sc)
    BY <1>3 DEF PrivateAlloc
  <2>2. b \in Boxes /\ b \notin Active
    BY <1>1 DEF TakeAlloc, NewAllocs, PoolTypeOK, PoolInv, AllocsOwned, Active
  <2> DEFINE bs == Register(boxes, b)
  <2>3. /\ bs \in [Boxes -> BoxType]
        /\ bs[b].active = TRUE /\ bs[b].next = activeHead /\ bs[b].prev = Null /\ bs[b].cursor = 0
        /\ \A x \in Boxes : bs[x].page = boxes[x].page /\ bs[x].full = boxes[x].full
        /\ \A x \in Boxes \ {b} :
             /\ bs[x].cursor = boxes[x].cursor /\ bs[x].active = boxes[x].active
             /\ bs[x].next = boxes[x].next
             /\ bs[x].prev = IF x = activeHead THEN b ELSE boxes[x].prev
    <3>1. [boxes[b] EXCEPT !.cursor = 0, !.active = TRUE, !.next = activeHead, !.prev = Null] \in BoxType
      <4>1. boxes[b] \in BoxType /\ 0 \in 0..PageSize
        BY <1>1, <2>2, PoolAssumption
      <4> QED BY <1>1, <4>1 DEF BoxType
    <3>2. \A x \in Boxes : [boxes[x] EXCEPT !.prev = b] \in BoxType
      BY <1>1, <2>2 DEF BoxType
    <3>3. bs \in [Boxes -> BoxType]
      BY <1>1, <3>1, <3>2 DEF Register
    <3>4. /\ bs[b].active = TRUE /\ bs[b].next = activeHead /\ bs[b].prev = Null /\ bs[b].cursor = 0
          /\ bs[b].page = boxes[b].page /\ bs[b].full = boxes[b].full
      <4>1. bs[b] = [boxes[b] EXCEPT !.cursor = 0, !.active = TRUE, !.next = activeHead, !.prev = Null]
        BY <2>2 DEF Register
      <4>2. boxes[b] \in BoxType
        BY <1>1, <2>2
      <4> HIDE DEF bs
      <4> QED BY <4>1, <4>2 DEF BoxType
    <3>5. ASSUME NEW x \in Boxes \ {b}
          PROVE  /\ bs[x].cursor = boxes[x].cursor /\ bs[x].active = boxes[x].active
                 /\ bs[x].next = boxes[x].next /\ bs[x].page = boxes[x].page
                 /\ bs[x].full = boxes[x].full
                 /\ bs[x].prev = IF x = activeHead THEN b ELSE boxes[x].prev
      BY <1>1, <2>2 DEF Register, BoxType
    <3> QED BY <3>3, <3>4, <3>5
  <2>4. AllocIn(bs, b, sc)
    BY <2>1
  <2> HIDE DEF bs
  <2>5. PICK p \in Pages, slot \in Slots, mem \in [Pages -> [Slots -> Contents]] :
           SlotTaken(sc, b, bs, p, slot, mem)
    BY <2>2, <2>3, <2>4, AllocTakesSlot
  <2>6. /\ boxes' \in [Boxes -> BoxType]
        /\ \A x \in Boxes : /\ boxes'[x].next = bs[x].next /\ boxes'[x].prev = bs[x].prev
                            /\ boxes'[x].active = bs[x].active
    BY <2>5 DEF SlotTaken
  <2>7. Active' = Active \cup {b} /\ ListLinked'
    <3>1. boxes'[b].active = TRUE /\ boxes'[b].next = activeHead /\ boxes'[b].prev = Null
      BY <2>2, <2>3, <2>6
    <3>2. \A x \in Boxes \ {b} :
             /\ boxes'[x].active = boxes[x].active /\ boxes'[x].next = boxes[x].next
             /\ boxes'[x].prev = IF x = activeHead THEN b ELSE boxes[x].prev
      BY <2>3, <2>6
    <3> QED BY <1>1, <2>1, <2>2, <2>6, <3>1, <3>2, RegisterLinks
  <2> QED BY ZenonT(40), <1>1, <1>3, <2>1, <2>2, <2>3, <2>4, <2>7, AllocInStep
<1> QED BY <1>2, <1>3

\* The levels up to the last one that is alive and not dropped stay.
LEMMA LevelsKept ==
    ASSUME PoolTypeOK, LevelsAscend, NEW level \in 1..Len(levels)
    PROVE  LET k == Kept(levels, level)
           IN /\ k \in 0..Len(levels) /\ (k # 0 => levels[k].alive /\ k # level)
              /\ \A i \in (k + 1)..Len(levels) : levels[i].alive => i = level
<1> DEFINE Last(k) == /\ k # 0 => levels[k].alive /\ k # level
                      /\ \A i \in (k + 1)..Len(levels) : levels[i].alive => i = level
<1>1. Len(levels) \in Nat
  BY DEF PoolTypeOK
<1>2. \E k \in 0..Len(levels) : Last(k)
  <2>1. PICK k \in Nat : LastAlive(k, level)
    BY DEF LevelsAscend
  <2>2. PICK e \in Nat : LastAlive(e, Len(levels))
    BY <1>1 DEF LevelsAscend
  <2>3. CASE levels[Len(levels)].alive /\ Len(levels) # level
    BY <1>1, <2>3
  <2>4. CASE ~levels[Len(levels)].alive \/ Len(levels) = level
    <3>1. CASE e # level
      <4>1. e \in 0..Len(levels) /\ Last(e)
        BY <1>1, <2>2, <2>4, <3>1 DEF LastAlive
      <4> QED BY <4>1
    <3>2. CASE e = level
      <4>1. k \in 0..Len(levels) /\ Last(k)
        BY <1>1, <2>1, <2>2, <2>4, <3>2 DEF LastAlive
      <4> QED BY <4>1
    <3> QED BY <3>1, <3>2
  <2> QED BY <2>3, <2>4
<1> HIDE DEF Last
<1>3. Kept(levels, level) = CHOOSE k \in 0..Len(levels) : Last(k)
  BY DEF Kept, Last
<1>4. Kept(levels, level) \in 0..Len(levels) /\ Last(Kept(levels, level))
  BY <1>2, <1>3
<1> QED BY <1>4 DEF Last

\* The private allocation of a scope that is dropped leaves the list, its pages become free, and
\* what the others trace is left alone.
LEMMA RecycleStep ==
    ASSUME PoolInv, PoolAssumption, NEW b \in Active, Recycle(b)
    PROVE  /\ boxes' \in [Boxes -> BoxType] /\ activeHead' \in Boxes \cup {Null}
           /\ memory' \in [Pages -> [Slots -> Contents]]
           /\ freePages' \subseteq Pages /\ freeAllocs' \subseteq Boxes
           /\ Active' = Active \ {b} /\ ListLinked' /\ PagesApart' /\ freeAllocs' \cap Active' = {}
           /\ \A x \in Active', q \in Pages, i \in Slots :
                TracedIn(x, q, i)' => TracedIn(x, q, i) /\ memory'[q][i] = memory[q][i]
           /\ \A x \in Active', q \in Pages, i \in Slots : TracedIn(x, q, i) => TracedIn(x, q, i)'
<1>1. /\ PoolTypeOK /\ ListLinked /\ PagesApart /\ b \in Boxes /\ b # Null
      /\ boxes \in [Boxes -> BoxType] /\ boxes[b] \in BoxType
      /\ activeHead \in Boxes \cup {Null} /\ freePages \subseteq Pages /\ freeAllocs \subseteq Boxes
      /\ memory \in [Pages -> [Slots -> Contents]]
  BY PoolAssumption DEF PoolInv, PoolTypeOK, Active
<1> DEFINE prev == boxes[b].prev
           next == boxes[b].next
<1>2. /\ prev \in Boxes \cup {Null} /\ next \in Boxes \cup {Null}
      /\ prev # b /\ next # b /\ (next # Null => prev # next)
  BY <1>1, NoCycle DEF BoxType, ListLinked
<1>3. PICK gone \in BoxType :
         /\ boxes' = [Unregister(b) EXCEPT ![b] = gone]
         /\ gone.active = FALSE /\ gone.page = Null /\ gone.full = {}
  <2>1. Unregister(b)[b] = boxes[b]
    BY <1>1, <1>2 DEF Unregister
  <2>2. NewBox \in BoxType /\ NewBox.active = FALSE /\ NewBox.page = Null /\ NewBox.full = {}
    BY PoolAssumption DEF NewBox, BoxType
  <2>3. LET kept == [boxes[b] EXCEPT !.active = FALSE, !.page = Null, !.full = {}]
        IN kept \in BoxType /\ kept.active = FALSE /\ kept.page = Null /\ kept.full = {}
    BY <1>1 DEF BoxType
  <2> QED BY <2>1, <2>2, <2>3 DEF Recycle
<1>4. ASSUME NEW x \in Boxes \ {b}
      PROVE  /\ boxes'[x] \in BoxType
             /\ boxes'[x].page = boxes[x].page /\ boxes'[x].full = boxes[x].full
             /\ boxes'[x].cursor = boxes[x].cursor /\ boxes'[x].active = boxes[x].active
             /\ boxes'[x].next = IF x = prev THEN next ELSE boxes[x].next
             /\ boxes'[x].prev = IF x = next THEN prev ELSE boxes[x].prev
  <2>1. boxes'[x] = IF x = prev THEN [boxes[x] EXCEPT !.next = next]
                    ELSE IF x = next THEN [boxes[x] EXCEPT !.prev = prev] ELSE boxes[x]
    BY <1>1, <1>3 DEF Unregister
  <2>2. boxes[x] \in BoxType /\ x # Null
    BY <1>1, PoolAssumption
  <2> HIDE DEF prev, next
  <2>3. CASE x = prev
    BY <1>2, <2>1, <2>2, <2>3 DEF BoxType
  <2>4. CASE x # prev /\ x = next
    BY <1>2, <2>1, <2>2, <2>4 DEF BoxType
  <2>5. CASE x # prev /\ x # next
    BY <2>1, <2>2, <2>5
  <2> QED BY <2>3, <2>4, <2>5
<1>5. boxes'[b] = gone /\ boxes' \in [Boxes -> BoxType]
  BY <1>1, <1>3, <1>4 DEF Unregister
<1>6. activeHead' = (IF prev # Null THEN activeHead ELSE next) /\ activeHead' \in Boxes \cup {Null}
  BY <1>1, <1>2 DEF Recycle
<1>7. Active' = Active \ {b} /\ ListLinked'
  <2>1. boxes'[b].active = FALSE
    BY <1>3, <1>5
  <2>2. \A x \in Boxes \ {b} :
           /\ boxes'[x].active = boxes[x].active
           /\ boxes'[x].next = IF x = boxes[b].prev THEN boxes[b].next ELSE boxes[x].next
           /\ boxes'[x].prev = IF x = boxes[b].next THEN boxes[b].prev ELSE boxes[x].prev
    BY <1>4
  <2> QED BY <1>1, <1>5, <1>6, <2>1, <2>2, UnregisterLinks
<1>8. /\ freePages' = freePages \cup PagesOf(b) /\ freePages' \subseteq Pages
      /\ freeAllocs' \subseteq freeAllocs \cup {b}
  BY <1>1 DEF Recycle, PagesOf, BoxType
<1>9. PagesOf(b)' = {} /\ \A x \in Boxes \ {b} : PagesOf(x)' = PagesOf(x)
  BY <1>3, <1>4, <1>5 DEF PagesOf
<1>10. PagesApart'
  <2>1. \A x \in Boxes : PagesOf(x)' \cap freePages' = {} /\ boxes'[x].page \notin boxes'[x].full
    BY <1>1, <1>3, <1>4, <1>5, <1>8, <1>9 DEF PagesApart
  <2>2. \A x, y \in Boxes : x # y => PagesOf(x)' \cap PagesOf(y)' = {}
    BY <1>1, <1>9 DEF PagesApart
  <2>3. \A x \in Boxes \ Active' : PagesOf(x)' = {}
    BY <1>1, <1>7, <1>9 DEF PagesApart
  <2>4. \A x \in Active' : boxes'[x].page = Null => boxes'[x].cursor = 0
    BY <1>1, <1>4, <1>7 DEF PagesApart, Active
  <2> QED BY <2>1, <2>2, <2>3, <2>4 DEF PagesApart
<1>11. \A x \in Active', q \in Pages, i \in Slots : TracedIn(x, q, i)' <=> TracedIn(x, q, i)
  BY <1>4, <1>7 DEF TracedIn, Active
<1>12. /\ memory' \in [Pages -> [Slots -> Contents]]
       /\ \A x \in Active', q \in Pages, i \in Slots :
            TracedIn(x, q, i)' => memory'[q][i] = memory[q][i]
  BY <1>1, <1>7, MemoryKept DEF Recycle
<1>13. freeAllocs' \cap Active' = {}
  BY <1>7, <1>8 DEF PoolInv, AllocsOwned
<1> QED BY <1>1, <1>5, <1>6, <1>7, <1>8, <1>10, <1>11, <1>12, <1>13

\* The private allocation of a scope that is dropped, if it has one, is the only one that goes.
LEMMA PrivateLeft ==
    ASSUME PoolInv, PoolAssumption, NEW sc \in DOMAIN scopes, DropScope(sc)
    PROVE  /\ boxes' \in [Boxes -> BoxType] /\ activeHead' \in Boxes \cup {Null}
           /\ memory' \in [Pages -> [Slots -> Contents]]
           /\ freePages' \subseteq Pages /\ freeAllocs' \subseteq Boxes
           /\ Active' = Active \ {scopes[sc].private}
           /\ ListLinked' /\ PagesApart' /\ freeAllocs' \cap Active' = {}
           /\ \A x \in Active', q \in Pages, i \in Slots :
                TracedIn(x, q, i)' => TracedIn(x, q, i) /\ memory'[q][i] = memory[q][i]
           /\ \A x \in Active', q \in Pages, i \in Slots : TracedIn(x, q, i) => TracedIn(x, q, i)'
<1>1. CASE scopes[sc].private = Null
  <2>1. UNCHANGED privateVars
    BY <1>1 DEF DropScope
  <2>2. /\ ListLinked' /\ PagesApart' /\ Active' = Active
        /\ \A x \in Boxes : \A q, i : TracedIn(x, q, i)' <=> TracedIn(x, q, i)
    BY <2>1, PrivateFrame DEF PoolInv
  <2>3. Null \notin Active
    BY PoolAssumption DEF Active
  <2>4. /\ boxes' \in [Boxes -> BoxType] /\ activeHead' \in Boxes \cup {Null}
        /\ memory' \in [Pages -> [Slots -> Contents]]
        /\ freePages' \subseteq Pages /\ freeAllocs' \subseteq Boxes
    BY <2>1 DEF privateVars, PoolInv, PoolTypeOK
  <2>5. freeAllocs' \cap Active' = {} /\ memory' = memory
    BY <2>1, <2>2 DEF privateVars, PoolInv, AllocsOwned
  <2>6. \A x \in Active' : x \in Boxes
    BY <2>2 DEF Active
  <2> QED BY <1>1, <2>2, <2>3, <2>4, <2>5, <2>6
<1>2. CASE scopes[sc].private # Null
  <2>1. PICK b \in Active : b = scopes[sc].private
    BY <1>2 DEF PoolInv, AllocsOwned
  <2>2. Recycle(b)
    BY <1>2, <2>1 DEF DropScope
  <2> QED BY <2>1, <2>2, RecycleStep
<1> QED BY <1>1, <1>2

\* Dropping a scope takes its level and its allocation and leaves the handles of the others.
LEMMA DropScopeStep ==
    ASSUME PoolInv, PoolAssumption, NEW sc \in DOMAIN scopes, DropScope(sc)
    PROVE  PoolInv'
<1>1. /\ PoolTypeOK /\ LevelsAscend /\ Len(levels) \in Nat
      /\ levels \in Seq([base : Nat, alive : BOOLEAN])
      /\ top \in Nat /\ stack \in Seq(Contents) /\ top <= Len(stack)
  BY DEF PoolInv, PoolTypeOK, LevelsAscend
<1>2. PICK level \in 1..Len(levels) : level = scopes[sc].level
  BY DEF PoolInv, LevelsAscend
<1>3. PICK k \in 0..Len(levels) :
         /\ k = Kept(levels, level) /\ (k # 0 => levels[k].alive /\ k # level)
         /\ \A i \in (k + 1)..Len(levels) : levels[i].alive => i = level
  BY <1>1, <1>2, LevelsKept
<1>3a. /\ k \in Nat /\ k <= Len(levels) /\ 1..k \subseteq 1..Len(levels)
       /\ \A i \in 1..Len(levels) : levels[i] \in [base : Nat, alive : BOOLEAN] /\ levels[i].base \in Nat
       /\ \A i \in 1..Len(levels) : i <= k \/ i \in (k + 1)..Len(levels)
       /\ k < Len(levels) => k + 1 \in 1..Len(levels)
  <2>1. /\ k \in Nat /\ k <= Len(levels) /\ 1..k \subseteq 1..Len(levels)
        /\ \A i \in 1..Len(levels) : i <= k \/ i \in (k + 1)..Len(levels)
        /\ k < Len(levels) => k + 1 \in 1..Len(levels)
    BY <1>1
  <2>2. \A i \in 1..Len(levels) : levels[i] \in [base : Nat, alive : BOOLEAN]
    BY <1>1, ElementOfSeq
  <2> QED BY <2>1, <2>2
<1>4. /\ levels' = [i \in 1..k |-> IF i = level THEN [levels[i] EXCEPT !.alive = FALSE] ELSE levels[i]]
      /\ top' = (IF k < Len(levels) THEN levels[k + 1].base ELSE top)
      /\ stack' = CollectStack(stack)
  BY <1>2, <1>3 DEF DropScope, PopLevel
<1>5. /\ DOMAIN scopes' = DOMAIN scopes \ {sc}
      /\ \A d \in DOMAIN scopes' : scopes'[d] = scopes[d]
      /\ scopes' \in [DOMAIN scopes' -> [level : Nat, private : Boxes \cup {Null}]]
  <2>1. scopes' = [x \in DOMAIN scopes \ {sc} |-> scopes[x]]
    BY DEF DropScope
  <2> QED BY <1>1, <2>1 DEF PoolTypeOK
<1>6. /\ DOMAIN handles' \subseteq DOMAIN handles
      /\ \A h \in DOMAIN handles' : handles'[h] = handles[h] /\ handles[h].scope # sc
      /\ handles' \in [DOMAIN handles' -> [scope : Scopes, at : [page : Pages \cup {Null}, slot : Nat]]]
  <2>1. handles' = [h \in {x \in DOMAIN handles : handles[x].scope # sc} |-> handles[h]]
    BY DEF DropScope
  <2> QED BY <1>1, <2>1 DEF PoolTypeOK
<1>7. /\ Len(levels') = k /\ levels' \in Seq([base : Nat, alive : BOOLEAN])
      /\ \A i \in 1..k : /\ levels'[i].base = levels[i].base
                         /\ levels'[i].alive <=> levels[i].alive /\ i # level
  <2>1. \A i \in 1..k : levels[i] \in [base : Nat, alive : BOOLEAN]
    BY <1>3a
  <2>2. \A i \in 1..k : /\ levels'[i] \in [base : Nat, alive : BOOLEAN]
                        /\ levels'[i].base = levels[i].base
                        /\ levels'[i].alive <=> levels[i].alive /\ i # level
    BY <1>4, <2>1
  <2>3. Len(levels') = k /\ levels' \in Seq([base : Nat, alive : BOOLEAN])
    <3> DEFINE L == [base : Nat, alive : BOOLEAN]
               f == [i \in 1..k |-> IF i = level THEN [levels[i] EXCEPT !.alive = FALSE] ELSE levels[i]]
    <3>1. levels' = f /\ k \in Nat /\ \A i \in 1..k : f[i] \in L
      BY <1>3a, <1>4, <2>2
    <3>2. f = [i \in 1..k |-> f[i]]
      OBVIOUS
    <3> HIDE DEF f, L
    <3>3. Len(f) = k /\ f \in Seq(L)
      BY <3>1, <3>2
    <3> QED BY <3>1, <3>3 DEF L
  <2> QED BY <2>2, <2>3
<1>8. top' \in Nat /\ top' <= top /\ \A l \in 1..k : levels[l].base <= top'
  <2>1. CASE k < Len(levels)
    <3>1. top' = levels[k + 1].base /\ k + 1 \in 1..Len(levels)
      BY <1>3a, <1>4, <2>1
    <3>2. \A l \in 1..k : levels[l].base <= levels[k + 1].base
      <4>1. \A l, m \in 1..Len(levels) : l <= m => levels[l].base <= levels[m].base
        BY <1>1 DEF LevelsAscend
      <4>2. \A l \in 1..k : l \in 1..Len(levels) /\ l <= k + 1
        BY <1>3a
      <4> QED BY <3>1, <4>1, <4>2
    <3> QED BY <1>1, <1>3a, <3>1, <3>2 DEF LevelsAscend
  <2>2. CASE ~(k < Len(levels))
    BY <1>1, <1>3a, <1>4, <2>2 DEF LevelsAscend
  <2> QED BY <2>1, <2>2
<1>9. /\ stack' \in Seq(Contents) /\ Len(stack') = Len(stack)
      /\ \A i \in 1..Len(stack) : i <= top' => stack'[i] = stack[i]
  BY <1>1, <1>4, StackKept
<1>10. \A d \in DOMAIN scopes' : scopes[d].level \in 1..k /\ scopes[d].level # level
  <2> SUFFICES ASSUME NEW d \in DOMAIN scopes'
               PROVE  scopes[d].level \in 1..k /\ scopes[d].level # level
    OBVIOUS
  <2>1. PICK l \in 1..Len(levels) : l = scopes[d].level /\ levels[l].alive /\ l # level
    BY <1>1, <1>2, <1>5 DEF LevelsAscend
  <2> QED BY <1>3a, <1>3, <2>1
<1>11. /\ boxes' \in [Boxes -> BoxType] /\ activeHead' \in Boxes \cup {Null}
       /\ memory' \in [Pages -> [Slots -> Contents]]
       /\ freePages' \subseteq Pages /\ freeAllocs' \subseteq Boxes
       /\ Active' = Active \ {scopes[sc].private}
       /\ ListLinked' /\ PagesApart' /\ freeAllocs' \cap Active' = {}
  BY PrivateLeft
<1>12. PoolTypeOK'
  <2>1. DOMAIN scopes' \subseteq Scopes /\ DOMAIN handles' \subseteq Handles
    BY <1>1, <1>5, <1>6 DEF PoolTypeOK
  <2> QED BY <1>5, <1>6, <1>7, <1>8, <1>9, <1>11, <2>1 DEF PoolTypeOK
<1>13. LevelsAscend'
  <2>1. \A d \in DOMAIN scopes' :
           scopes'[d].level \in 1..Len(levels') /\ levels'[scopes'[d].level].alive
    BY ZenonT(40), <1>1, <1>5, <1>7, <1>10 DEF LevelsAscend
  <2>2. \A d, e \in DOMAIN scopes' : scopes'[d].level = scopes'[e].level => d = e
    BY <1>1, <1>5 DEF LevelsAscend
  <2>3. \A l, m \in 1..Len(levels') : l <= m => levels'[l].base <= levels'[m].base
    BY <1>1, <1>3a, <1>7 DEF LevelsAscend
  <2>4. \A l \in 1..Len(levels') : levels'[l].base <= top'
    BY <1>7, <1>8
  <2>5. top' <= Len(stack')
    BY <1>1, <1>8, <1>9
  <2>6. ASSUME NEW l \in 1..Len(levels')
        PROVE  \E m \in Nat : LastAlive(m, l)'
    <3>1. l \in 1..Len(levels) /\ l \in 1..k
      BY <1>1, <1>3, <1>7, <2>6
    <3>2. PICK m \in Nat : LastAlive(m, l)
      BY <1>1, <3>1 DEF LevelsAscend
    <3>3. PICK n \in Nat : LastAlive(n, level)
      BY <1>1 DEF LevelsAscend
    <3>4. CASE m # level
      <4>1. m \in 0..(l - 1) /\ (m # 0 => levels'[m].alive)
        BY <1>7, <3>1, <3>2, <3>4 DEF LastAlive
      <4>2. \A i \in (m + 1)..(l - 1) : ~levels'[i].alive
        BY <1>7, <3>1, <3>2 DEF LastAlive
      <4> QED BY <4>1, <4>2 DEF LastAlive
    <3>5. CASE m = level
      <4>1. n \in 0..(l - 1) /\ (n # 0 => levels'[n].alive)
        BY <1>7, <3>1, <3>2, <3>3, <3>5 DEF LastAlive
      <4>2. \A i \in (n + 1)..(l - 1) : ~levels'[i].alive
        <5>1. ASSUME NEW i \in (n + 1)..(l - 1)
              PROVE  i = level \/ i \in (n + 1)..(level - 1) \/ i \in (m + 1)..(l - 1)
          BY <3>1, <3>2, <3>3, <3>5 DEF LastAlive
        <5>2. ASSUME NEW i \in (n + 1)..(l - 1)
              PROVE  i \in 1..k /\ (i = level \/ ~levels[i].alive)
          <6>1. i \in 1..k
            BY <3>1, <3>3 DEF LastAlive
          <6> QED BY <3>2, <3>3, <5>1, <6>1 DEF LastAlive
        <5> QED BY <1>7, <5>2
      <4> QED BY <4>1, <4>2 DEF LastAlive
    <3> QED BY <3>4, <3>5
  <2> QED BY <2>1, <2>2, <2>3, <2>4, <2>5, <2>6 DEF LevelsAscend
<1>14. \A d \in DOMAIN scopes' : scopes[d].private # Null => scopes[d].private \in Active'
  BY <1>5, <1>11 DEF PoolInv, AllocsOwned
<1>15. AllocsOwned'
  <2>1. \A d \in DOMAIN scopes' : scopes'[d].private # Null => scopes'[d].private \in Active'
    BY <1>5, <1>14
  <2>2. \A d, e \in DOMAIN scopes' :
           scopes'[d].private = scopes'[e].private /\ scopes'[d].private # Null => d = e
    BY <1>5 DEF PoolInv, AllocsOwned
  <2>3. \A x \in Active' : \E d \in DOMAIN scopes' : scopes'[d].private = x
    BY <1>5, <1>11 DEF PoolInv, AllocsOwned
  <2> QED BY <1>11, <2>1, <2>2, <2>3 DEF AllocsOwned
<1>16. ASSUME NEW h \in DOMAIN handles'
       PROVE  Placed(h)' /\ Held(handles[h].at)' = "value"
  <2>1. /\ Placed(h) /\ Held(handles[h].at) = "value" /\ handles'[h] = handles[h]
        /\ handles[h].at \in [page : Pages \cup {Null}, slot : Nat] /\ handles[h].scope # sc
    BY <1>1, <1>6 DEF PoolInv, HandlesPlaced, Sound, HandlesKeepTheirSlots, PoolTypeOK
  <2>2. PICK d \in DOMAIN scopes' : d = handles[h].scope /\ scopes'[d] = scopes[d]
    BY <1>5, <2>1 DEF Placed
  <2>3. CASE handles[h].at.page = Null
    <3>1. PICK i \in 1..top : i = handles[h].at.slot
      BY <2>1, <2>3 DEF Placed
    <3>2. \A l \in 1..Len(levels) : scopes[d].level < l => i <= levels[l].base
      BY <2>1, <2>2, <2>3, <3>1 DEF Placed
    <3>3. i \in 1..top'
      <4>1. k < Len(levels) => i <= levels[k + 1].base
        <5>1. scopes[d].level \in 1..k
          BY <1>10
        <5> QED BY <1>3a, <3>2, <5>1
      <4> QED BY <1>1, <1>3a, <1>4, <3>1, <4>1
    <3>4. \A l \in 1..Len(levels') : scopes'[d].level < l => i <= levels'[l].base
      <4>1. \A l \in 1..Len(levels') : l \in 1..Len(levels) /\ levels'[l].base = levels[l].base
        BY <1>3a, <1>7
      <4> QED BY <2>2, <3>2, <4>1
    <3>5. stack'[i] = stack[i] /\ stack[i] = "value"
      BY <1>1, <1>8, <1>9, <2>1, <2>3, <3>1, <3>3 DEF Held
    <3>6. Placed(h)'
      BY <2>1, <2>2, <2>3, <3>1, <3>3, <3>4 DEF Placed
    <3> QED BY <2>1, <2>3, <3>1, <3>5, <3>6 DEF Held
  <2>4. CASE handles[h].at.page # Null
    <3>1. PICK q \in Pages, i \in Slots :
             /\ handles[h].at.page = q /\ handles[h].at.slot = i
             /\ scopes[d].private # Null /\ TracedIn(scopes[d].private, q, i)
      BY <2>1, <2>2, <2>4 DEF Placed
    <3>2. PICK x \in Active' : x = scopes[d].private
      BY <1>14, <3>1
    <3>3. TracedIn(x, q, i)' /\ memory'[q][i] = memory[q][i]
      BY <3>1, <3>2, PrivateLeft
    <3>4. memory[q][i] = "value"
      BY <2>1, <2>4, <3>1 DEF Held
    <3>5. Placed(h)'
      BY <2>1, <2>2, <2>4, <3>1, <3>2, <3>3 DEF Placed
    <3> QED BY <2>1, <2>4, <3>1, <3>3, <3>4, <3>5 DEF Held
  <2> QED BY <2>3, <2>4
<1>17. HandlesPlaced'
  BY <1>16 DEF HandlesPlaced
<1>18. Sound'
  <2>1. \A i \in 1..top' : stack'[i] # "dangling"
    <3>1. \A i \in 1..top : stack[i] # "dangling"
      BY DEF PoolInv, Sound
    <3>2. 1..top' \subseteq 1..top /\ 1..top' \subseteq 1..Len(stack) /\ \A i \in 1..top' : i <= top'
      BY <1>1, <1>8
    <3>3. \A i \in 1..top' : stack'[i] = stack[i]
      BY <1>9, <3>2
    <3> QED BY <3>1, <3>2, <3>3
  <2>2. ASSUME NEW x \in Active', NEW q \in Pages, NEW i \in Slots, TracedIn(x, q, i)'
        PROVE  memory'[q][i] # "dangling"
    <3>1. TracedIn(x, q, i) /\ memory'[q][i] = memory[q][i] /\ x \in Active
      BY <1>11, <2>2, PrivateLeft
    <3> QED BY <3>1 DEF PoolInv, Sound
  <2>4. \A h, g \in DOMAIN handles' : handles'[h].at = handles'[g].at => h = g
    BY <1>6 DEF PoolInv, Sound, HandlesKeepTheirSlots
  <2>3. HandlesKeepTheirSlots'
    BY <1>6, <1>16, <2>4 DEF HandlesKeepTheirSlots, Held
  <2> QED BY <2>1, <2>2, <2>3 DEF Sound
<1> QED BY <1>11, <1>12, <1>13, <1>15, <1>17, <1>18 DEF PoolInv

-----------------------------------------------------------------------------
(* The theorems.                                                           *)

LEMMA PoolInitially ==
    ASSUME PoolInit, PoolAssumption
    PROVE  PoolInv
<1>1. NewBox \in BoxType /\ NewBox.active = FALSE /\ NewBox.page = Null /\ NewBox.full = {}
  BY PoolAssumption DEF NewBox, BoxType
<1>2. \A b \in Boxes : boxes[b] = NewBox
  BY DEF PoolInit
<1>3. Active = {} /\ \A b \in Boxes : PagesOf(b) = {}
  BY <1>1, <1>2 DEF Active, PagesOf
<1>4. NewPage \in [Slots -> Contents]
  BY DEF NewPage, Contents
<1>5. PoolTypeOK
  BY <1>1, <1>4 DEF PoolInit, PoolTypeOK
<1>6. LevelsAscend
  BY DEF PoolInit, LevelsAscend
<1>7. ListLinked
  BY <1>3 DEF PoolInit, ListLinked
<1>8. AllocsOwned
  BY <1>3 DEF PoolInit, AllocsOwned
<1>9. PagesApart
  BY <1>1, <1>2, <1>3 DEF PagesApart
<1>10. HandlesPlaced
  BY DEF PoolInit, HandlesPlaced
<1>11. Sound
  BY <1>3 DEF PoolInit, Sound, HandlesKeepTheirSlots
<1> QED BY <1>5, <1>6, <1>7, <1>8, <1>9, <1>10, <1>11 DEF PoolInv

\* A step that changes nothing keeps the invariant.
LEMMA PoolStutters ==
    ASSUME PoolInv, UNCHANGED poolVars
    PROVE  PoolInv'
<1>1. Active' = Active /\ Walked' = Walked
  BY DEF poolVars, Active, Walked, HoldsList
<1>2. PoolTypeOK'
  BY DEF poolVars, PoolInv, PoolTypeOK
<1>3. LevelsAscend'
  BY DEF poolVars, PoolInv, LevelsAscend, LastAlive
<1>4. ListLinked'
  BY <1>1 DEF poolVars, PoolInv, ListLinked
<1>5. AllocsOwned'
  BY <1>1 DEF poolVars, PoolInv, AllocsOwned
<1>6. PagesApart'
  BY <1>1 DEF poolVars, PoolInv, PagesApart, PagesOf
<1>7. HandlesPlaced'
  BY DEF poolVars, PoolInv, HandlesPlaced, Placed, TracedIn
<1>8. Sound'
  BY <1>1 DEF poolVars, PoolInv, Sound, TracedIn, HandlesKeepTheirSlots, Held
<1> QED BY <1>2, <1>3, <1>4, <1>5, <1>6, <1>7, <1>8 DEF PoolInv

LEMMA PoolInductive ==
    ASSUME PoolInv, PoolAssumption, [PoolNext]_poolVars
    PROVE  PoolInv'
<1>1. CASE NewScope
  BY <1>1, NewScopeStep
<1>2. ASSUME NEW sc \in DOMAIN scopes, StackAlloc(sc)
      PROVE  PoolInv'
  BY <1>2, StackAllocStep
<1>3. ASSUME NEW sc \in DOMAIN scopes, PrivateAlloc(sc)
      PROVE  PoolInv'
  BY <1>3, PrivateAllocStep
<1>4. ASSUME NEW sc \in DOMAIN scopes, DropScope(sc)
      PROVE  PoolInv'
  BY <1>4, DropScopeStep
<1>5. CASE UNCHANGED poolVars
  BY <1>5, PoolStutters
<1> QED BY <1>1, <1>2, <1>3, <1>4, <1>5 DEF PoolNext, Alloc

LEMMA PoolInvariance == PoolSpec => []PoolInv
<1>1. PoolInit => PoolInv
  BY PoolAssumption, PoolInitially
<1>2. PoolInv /\ [PoolNext]_poolVars => PoolInv'
  BY PoolAssumption, PoolInductive
<1> QED BY <1>1, <1>2, PTL DEF PoolSpec

\* The state of the pool is always of its type: levels, the stack's slots, scopes, allocations,
\* pages and handles (the fields of HandlePool, RootStack and PrivatePages).
THEOREM PoolTypeCorrect == PoolSpec => []PoolTypeOK
<1>1. PoolInv => PoolTypeOK
  BY DEF PoolInv
<1> QED BY <1>1, PoolInvariance, PTL

\* Whatever order scopes of different requests are dropped in, a handle's slot is its own and is
\* traced until its scope is dropped, and the collector never looks at a value it may have freed
\* (ScopeAlloc::alloc, pop_level, recycle, HandlePool::trace).
THEOREM RootsStayRooted == PoolSpec => []RootsStay
<1>1. PoolInv => RootsStay
  <2> SUFFICES ASSUME PoolInv
               PROVE  RootsStay
    OBVIOUS
  <2>1. Walked = Active
    BY WalkedIsActive DEF PoolInv
  <2>2. NothingTracedDangles
    BY <2>1 DEF NothingTracedDangles, TracedInPage, PoolInv, Sound
  <2> QED BY <2>2 DEF RootsStay, PoolInv, Sound
<1> QED BY <1>1, PoolInvariance, PTL

=============================================================================
