--------------------------- MODULE WasmServerProofs ---------------------------
(***************************************************************************)
(* Proof that the startup of the WebAssembly server is in order, for any   *)
(* number of requests and clock readings: a request that waits for the top *)
(* level is never left without one that drives it, no handler runs before  *)
(* the top level is done, and a snapshot takes no clock back.  The         *)
(* inductive invariant relates where the requests are to STARTUP, to the   *)
(* loop that startup owns and to the life of the instance.                 *)
(***************************************************************************)
EXTENDS WasmServer, FiniteSetTheorems, TLAPS

Instances == {"build", "run"}
Places == {"new", "driving", "waiting", "notified", "serving", "failed", "canceled", "ended"}
State ==
    [instance : Instances, wizer : {"off", "init", "driving", "snapshot", "refused"},
     runtime : BOOLEAN, failure : BOOLEAN, startup : {"pending", "driving", "done"},
     loop : {"none", "owned", "task"},
     script : {"none", "awaiting", "fulfilled", "rejected"}, work : BOOLEAN,
     pc : [Requests -> Places],
     host : Nat, offset : Nat, engine : Nat, snapshot : Nat, resumed : BOOLEAN,
     origin : {"none"} \cup Instances, latest : Nat, back : BOOLEAN, stale : BOOLEAN,
     early : BOOLEAN, twice : BOOLEAN]
TypeOK == s \in State

\* A request drives while STARTUP says so, and it is the only one; who waits does so while
\* another drives, or after a second initialization.
DriversMatch ==
    /\ \A q \in Requests : s.pc[q] = "driving" =>
         s.startup = "driving" /\ ~s.twice /\ \A p \in Requests : s.pc[p] = "driving" => p = q
    /\ \A q \in Requests : s.pc[q] = "waiting" => s.startup = "driving"
    /\ s.startup = "driving" /\ s.wizer = "off" /\ ~s.twice => \E q \in Requests : s.pc[q] = "driving"

\* Before startup is done its loop is owned, and no request is served.
StartupInPlace ==
    /\ s.startup # "done" =>
         /\ s.runtime /\ ~s.failure
         /\ ~s.twice => s.loop = "owned"
         /\ \A q \in Requests : s.pc[q] \notin {"serving", "ended"}
    /\ s.startup = "done" /\ s.wizer = "off" => ~DrivesOn(s)
    /\ s.loop = "task" => s.startup = "done" /\ s.wizer = "off" /\ ~s.resumed
    /\ s.failure => \A q \in Requests : s.pc[q] \notin {"serving", "ended"}

\* The life of an instance: Wizer runs before any request is sent, a runtime before any script.
InstanceInPlace ==
    /\ s.wizer # "off" => \A q \in Requests : s.pc[q] = "new"
    /\ s.wizer \in {"init", "driving"} => s.instance = "build" /\ ~s.resumed /\ ~s.twice
    /\ s.wizer = "init" => ~s.runtime /\ ~s.failure
    /\ s.wizer = "driving" => s.runtime /\ s.startup = "driving"
    /\ s.wizer = "snapshot" => s.resumed
    /\ s.wizer = "off" => s.instance = "run"
    /\ ~s.runtime =>
         /\ s.startup = "done" /\ s.loop = "none" /\ s.script = "none" /\ ~s.resumed /\ ~s.twice
         /\ s.origin = "none"
         /\ \A q \in Requests : s.pc[q] \in {"new", "failed"}
    /\ s.runtime => s.origin # "none"
    /\ s.resumed =>
         /\ s.runtime /\ ~s.failure /\ s.loop # "task" /\ ~DrivesOn(s) /\ s.startup # "pending"
         /\ ~s.twice => s.startup = "done"
         /\ \A q \in Requests : s.pc[q] = "new"
    /\ s.twice => s.startup = "driving"

\* What script code saw of the clock is not ahead of it, or of what it will be when the
\* resumed instance has been repaired.
ClocksAgree ==
    /\ s.engine = s.offset
    /\ ~s.twice =>
         /\ s.latest <= s.offset + (IF s.resumed THEN s.snapshot ELSE s.host)
         /\ s.instance = "run" /\ ~s.resumed => s.origin # "build"

IInv ==
    /\ TypeOK /\ DriversMatch /\ StartupInPlace /\ InstanceInPlace /\ ClocksAgree
    /\ ~s.early /\ ClockGoesOn

-----------------------------------------------------------------------------
(* What the operations return.                                             *)

LEMMA ScriptRuns ==
    ASSUME NEW r \in State
    PROVE  /\ RunScript(r) \in State /\ RunScript(r).pc = r.pc
           /\ \A script \in {"awaiting", "fulfilled", "rejected"}, work \in BOOLEAN :
                LoopStep(r, script, work) \in State
<1>1. RunScript(r) \in State /\ RunScript(r).pc = r.pc
  <2>1. ASSUME NEW latest \in Nat, NEW back \in BOOLEAN, NEW stale \in BOOLEAN
        PROVE  LET t == [r EXCEPT !.latest = latest, !.back = back, !.stale = stale]
               IN t \in State /\ t.pc = r.pc
    BY DEF State
  <2>2. /\ (IF Reading(r) > r.latest THEN Reading(r) ELSE r.latest) \in Nat
        /\ (r.back \/ Reading(r) < r.latest \/ r.engine # r.offset) \in BOOLEAN
        /\ (r.stale \/ (r.origin = "build" /\ r.instance = "run")) \in BOOLEAN
    BY DEF State, Reading
  <2> QED BY <2>1, <2>2 DEF RunScript
<1>2. ASSUME NEW t \in State, NEW script \in {"awaiting", "fulfilled", "rejected"}, NEW work \in BOOLEAN
      PROVE  [t EXCEPT !.script = script, !.work = work] \in State
  BY DEF State
<1> QED BY <1>1, <1>2 DEF LoopStep

LEMMA Dispatches ==
    ASSUME NEW r \in State, NEW q \in Requests
    PROVE  DispatchRequest(r, q) \in State
<1>1. ASSUME NEW t \in State, NEW early \in BOOLEAN
      PROVE  [t EXCEPT !.pc[q] = "serving", !.early = t.early \/ early] \in State
  BY ZenonT(40) DEF State, Places
<1>2. DrivesOn(r) \in BOOLEAN
  BY DEF DrivesOn
<1> QED BY <1>1, <1>2, ScriptRuns DEF DispatchRequest

LEMMA StartsOrWaits ==
    ASSUME NEW r \in State, NEW q \in Requests
    PROVE  EnsureStarted(r, q) \in State
<1>1. ASSUME NEW place \in Places
      PROVE  /\ [r EXCEPT !.pc[q] = place] \in State
             /\ [r EXCEPT !.startup = "driving", !.pc[q] = place] \in State
  BY DEF State
<1>2. {"driving", "waiting", "failed"} \subseteq Places
  BY DEF Places
<1> QED BY <1>1, <1>2, Dispatches DEF EnsureStarted

LEMMA Repaired ==
    ASSUME NEW r \in State
    PROVE  FixUpAfterResume(r) \in State
<1>1. ASSUME NEW offset \in Nat, NEW engine \in Nat
      PROVE  [[[r EXCEPT !.resumed = FALSE] EXCEPT !.offset = offset, !.engine = engine, !.snapshot = 0]
                 EXCEPT !.origin = r.instance] \in State
  BY DEF State
<1>2. r.offset + r.snapshot \in Nat /\ r.engine + r.snapshot \in Nat
  BY DEF State
<1>3. FixUpAfterResume(r) =
         IF r.resumed
           THEN [[[r EXCEPT !.resumed = FALSE] EXCEPT !.offset = r.offset + r.snapshot,
                                                     !.engine = r.engine + r.snapshot,
                                                     !.snapshot = 0]
                   EXCEPT !.origin = r.instance]
           ELSE r
  BY DEF FixUpAfterResume, ResumeFromSnapshot, State
<1> QED BY <1>1, <1>2, <1>3

LEMMA Notified ==
    ASSUME NEW r \in State
    PROVE  Notify(r) \in State
BY DEF Notify, State, Places

\* t is r with a runtime, and a content script whose top level ran up to an await or its end.
Fresh(r, script, work, t) ==
    /\ t \in State
    /\ t.instance = r.instance /\ t.wizer = r.wizer /\ t.runtime /\ t.failure = r.failure
    /\ t.startup = "pending" /\ t.loop = "owned" /\ t.script = script /\ t.work = work
    /\ t.pc = r.pc /\ t.host = r.host /\ t.offset = r.offset /\ t.engine = r.engine
    /\ t.snapshot = r.snapshot /\ t.resumed = r.resumed /\ t.early = r.early
    /\ t.twice = r.twice
    /\ t.origin = IF r.origin = "none" THEN r.instance ELSE r.origin
    /\ t.latest = IF Reading(r) > r.latest THEN Reading(r) ELSE r.latest
    /\ t.back <=> (r.back \/ Reading(r) < r.latest \/ r.engine # r.offset)
    /\ t.stale <=> (r.stale \/ (t.origin = "build" /\ r.instance = "run"))

\* The runtime of an instance that had none.
LEMMA RuntimeStarts ==
    ASSUME NEW r \in State, NEW script \in {"awaiting", "fulfilled"}, NEW work \in BOOLEAN
    PROVE  Fresh(r, script, work, StartRuntime(r, script, work))
<1> DEFINE t == StartRuntime(r, script, work)
           u == [r EXCEPT !.origin = IF @ = "none" THEN r.instance ELSE @]
           v == RunScript(u)
<1>1. u \in State /\ u.origin = (IF r.origin = "none" THEN r.instance ELSE r.origin)
      /\ u = [r EXCEPT !.origin = u.origin]
  BY DEF State, Instances
<1>2. v = [u EXCEPT !.latest = IF Reading(u) > u.latest THEN Reading(u) ELSE u.latest,
                    !.back = u.back \/ Reading(u) < u.latest \/ u.engine # u.offset,
                    !.stale = u.stale \/ (u.origin = "build" /\ u.instance = "run")]
  BY <1>1 DEF RunScript
<1>3. t = [v EXCEPT !.script = script, !.work = work, !.runtime = TRUE, !.startup = "pending",
                    !.loop = "owned"]
  <2>1. v \in State
    BY <1>1, ScriptRuns
  <2> HIDE DEF v
  <2>2. t = [[v EXCEPT !.script = script, !.work = work]
                EXCEPT !.runtime = TRUE, !.startup = "pending", !.loop = "owned"]
    BY DEF StartRuntime, InitAndEval, v
  <2> QED BY <2>1, <2>2 DEF State
<1>4. v \in State
  BY <1>1, ScriptRuns
<1> HIDE DEF v
<1> HIDE DEF t
<1>5. t \in State
  BY ZenonT(40), <1>3, <1>4 DEF State
<1> HIDE DEF u
<1>6. Reading(u) = Reading(r)
  BY <1>1 DEF Reading, State
<1>7. Fresh(r, script, work, t)
  <2>1. /\ t.instance = r.instance /\ t.wizer = r.wizer /\ t.runtime /\ t.failure = r.failure
        /\ t.startup = "pending" /\ t.loop = "owned" /\ t.script = script /\ t.work = work
        /\ t.pc = r.pc /\ t.host = r.host /\ t.offset = r.offset /\ t.engine = r.engine
        /\ t.snapshot = r.snapshot /\ t.resumed = r.resumed /\ t.early = r.early
        /\ t.twice = r.twice /\ t.origin = u.origin
        /\ t.latest = v.latest /\ t.back = v.back /\ t.stale = v.stale
    BY <1>1, <1>2, <1>3, <1>4 DEF State
  <2>2. /\ u.instance = r.instance /\ u.offset = r.offset /\ u.engine = r.engine
        /\ u.latest = r.latest /\ u.back = r.back /\ u.stale = r.stale
    BY <1>1 DEF State
  <2>3. v.latest = IF Reading(r) > r.latest THEN Reading(r) ELSE r.latest
    BY <1>1, <1>2, <1>6, <2>2 DEF State
  <2>4. /\ v.back = (r.back \/ Reading(r) < r.latest \/ r.engine # r.offset)
        /\ v.stale = (r.stale \/ (u.origin = "build" /\ r.instance = "run"))
    BY <1>1, <1>2, <1>6, <2>2 DEF State
  <2> QED BY <1>1, <1>5, <2>1, <2>3, <2>4 DEF Fresh
<1> QED BY <1>7 DEF t

\* The script is evaluated in an instance that had no runtime, and its loop is to be driven.
Evaluated(pc, wizer) ==
    /\ s' \in State /\ s'.pc = pc /\ s'.wizer = wizer
    /\ s'.instance = s.instance /\ s'.runtime = TRUE /\ s'.failure = s.failure
    /\ s'.startup = "driving" /\ s'.loop = "owned"
    /\ s'.host = s.host /\ s'.offset = s.offset /\ s'.engine = s.engine
    /\ s'.snapshot = s.snapshot /\ s'.resumed = s.resumed /\ s'.early = s.early
    /\ s'.twice = s.twice /\ s'.origin = s.instance
    /\ s'.latest = IF Reading(s) > s.latest THEN Reading(s) ELSE s.latest
    /\ s'.back <=> (s.back \/ Reading(s) < s.latest \/ s.engine # s.offset)
    /\ s'.stale <=> (s.stale \/ (s'.origin = "build" /\ s.instance = "run"))

\* A request that starts the runtime drives it, or finds that it failed.
NoRuntime(q) ==
    s.instance = "run" /\ s.wizer = "off" /\ s.pc[q] = "new" /\ ~s.runtime /\ ~s.failure
StartFails(q) == NoRuntime(q) /\ s' = [s EXCEPT !.failure = TRUE, !.pc[q] = "failed"]
StartDrives(q) == NoRuntime(q) /\ Evaluated([s.pc EXCEPT ![q] = "driving"], "off")

LEMMA StartsRuntime ==
    ASSUME IInv, NEW q \in Requests, HandleStarts(q)
    PROVE  StartFails(q) \/ StartDrives(q)
<1>1. /\ s.instance = "run" /\ s.wizer = "off" /\ s.pc[q] = "new" /\ ~s.runtime /\ ~s.failure
      /\ s \in State /\ s.resumed = FALSE /\ s.origin = "none"
  BY DEF HandleStarts, Idle, IInv, TypeOK, InstanceInPlace, State
<1>2. ASSUME NEW script \in {"awaiting", "fulfilled"}, NEW work \in BOOLEAN,
             s' = Handle(StartRuntime(s, script, work), q)
      PROVE  Evaluated([s.pc EXCEPT ![q] = "driving"], "off")
  <2>1. PICK r : r = StartRuntime(s, script, work) /\ Fresh(s, script, work, r)
    BY <1>1, RuntimeStarts
  <2>2. r \in State /\ r.resumed = FALSE /\ r.startup = "pending"
    BY <1>1, <2>1 DEF Fresh
  <2>3. s' = [r EXCEPT !.startup = "driving", !.pc[q] = "driving"]
    BY <1>2, <2>1, <2>2 DEF Handle, FixUpAfterResume, EnsureStarted
  <2>4. s' \in State
    BY <2>2, <2>3 DEF State, Places
  <2> QED BY <1>1, <2>1, <2>2, <2>3, <2>4 DEF Fresh, Evaluated, State
<1> QED BY <1>1, <1>2 DEF HandleStarts, NoRuntime, StartFails, StartDrives

LEMMA StartsUnderWizer ==
    ASSUME IInv, PreInitialize
    PROVE  s.wizer = "init" /\ Evaluated(s.pc, "driving")
<1>1. s.wizer = "init" /\ s.instance = "build" /\ s \in State /\ s.origin \in {"none", "build"}
  BY DEF PreInitialize, IInv, TypeOK, InstanceInPlace, State
<1>2. PICK script \in {"awaiting", "fulfilled"}, work \in BOOLEAN :
         s' = [StartRuntime(s, script, work) EXCEPT !.startup = "driving", !.wizer = "driving"]
  BY DEF PreInitialize
<1>3. PICK r : r = StartRuntime(s, script, work) /\ Fresh(s, script, work, r)
  BY <1>1, RuntimeStarts
<1>4. r \in State /\ s' = [r EXCEPT !.startup = "driving", !.wizer = "driving"]
  BY <1>2, <1>3 DEF Fresh
<1>5. s' \in State
  BY <1>4 DEF State
<1> QED BY <1>1, <1>3, <1>4, <1>5 DEF Fresh, Evaluated, State

\* The task that startup's loop was handed to drives it on only when the top level is done.
TaskEnds == s.loop = "task" /\ ~s.work /\ s' = [s EXCEPT !.loop = "none"]
TaskStep(work) == s.loop = "task" /\ IsFinished(s) /\ s' = LoopStep(s, s.script, work)

\* The steps, where those that evaluate the script are told by what they do.
Steps ==
    \/ \E q \in Requests :
         \/ HandleRunning(q) \/ HandleFailedBefore(q) \/ StartFails(q) \/ StartDrives(q)
         \/ Drive(q) \/ EndDrive(q) \/ HostCancels(q) \/ Woken(q) \/ Served(q)
    \/ TaskEnds \/ \E work \in BOOLEAN : TaskStep(work)
    \/ s.wizer = "init" /\ Evaluated(s.pc, "driving")
    \/ DriveUnderWizer \/ PreInitialized \/ PreInitializeRefused
    \/ PreInitializeAgain \/ Resume \/ Tick

LEMMA NextSteps == IInv /\ Next => Steps
<1>1. IInv /\ KeepStartupLoopRunning => TaskEnds \/ \E work \in BOOLEAN : TaskStep(work)
  BY DEF IInv, StartupInPlace, KeepStartupLoopRunning, DrivesOn, IsFinished,
         TaskEnds, TaskStep
<1> QED BY <1>1, StartsRuntime, StartsUnderWizer DEF Next, Steps

-----------------------------------------------------------------------------
(* The invariant is inductive.                                             *)

\* Whoever drives is the only one, and who waits has it.
LEMMA DriversMatchStep == IInv /\ Steps => DriversMatch'
<1> SUFFICES ASSUME IInv, Steps
             PROVE  DriversMatch'
  OBVIOUS
<1> USE DEF IInv, TypeOK, State, Instances, Places, DriversMatch, StartupInPlace, InstanceInPlace, ClocksAgree, ClockGoesOn,
            RunScript, Reading, LoopStep, IsFinished, DrivesOn
<1>1. ASSUME NEW q \in Requests, HandleRunning(q)
      PROVE  DriversMatch'
  BY <1>1 DEF HandleRunning, Idle, Handle, FixUpAfterResume, ResumeFromSnapshot, EnsureStarted,
              DispatchRequest
<1>2. ASSUME NEW q \in Requests, HandleFailedBefore(q)
      PROVE  DriversMatch'
  BY <1>2 DEF HandleFailedBefore, Idle
<1>3. ASSUME NEW q \in Requests, StartFails(q)
      PROVE  DriversMatch'
  BY <1>3 DEF StartFails, NoRuntime
<1>4. ASSUME NEW q \in Requests, StartDrives(q)
      PROVE  DriversMatch'
  BY <1>4 DEF StartDrives, NoRuntime, Evaluated
<1>5. ASSUME NEW q \in Requests, Drive(q)
      PROVE  DriversMatch'
  BY <1>5 DEF Drive
<1>6. ASSUME NEW q \in Requests, EndDrive(q)
      PROVE  DriversMatch'
  BY <1>6 DEF EndDrive, Started, Notify, DispatchRequest
<1>7. ASSUME NEW q \in Requests, HostCancels(q)
      PROVE  DriversMatch'
  BY <1>7 DEF HostCancels, DrivingDropped, Notify
<1>8. ASSUME NEW q \in Requests, Woken(q)
      PROVE  DriversMatch'
  BY <1>8 DEF Woken, EnsureStarted, DispatchRequest
<1>9. ASSUME NEW q \in Requests, Served(q)
      PROVE  DriversMatch'
  BY <1>9 DEF Served
<1>10. ASSUME TaskEnds
      PROVE  DriversMatch'
  BY <1>10 DEF TaskEnds
<1>11. ASSUME NEW work \in BOOLEAN, TaskStep(work)
      PROVE  DriversMatch'
  BY <1>11 DEF TaskStep
<1>12. ASSUME s.wizer = "init", Evaluated(s.pc, "driving")
      PROVE  DriversMatch'
  BY <1>12 DEF Evaluated
<1>13. ASSUME DriveUnderWizer
      PROVE  DriversMatch'
  BY <1>13 DEF DriveUnderWizer
<1>14. ASSUME PreInitialized
      PROVE  DriversMatch'
  BY <1>14 DEF PreInitialized, PrepareForSnapshot, RecordSnapshotReading, EnsureIdleForSnapshot
<1>15. ASSUME PreInitializeRefused
      PROVE  DriversMatch'
  BY <1>15 DEF PreInitializeRefused
<1>16. ASSUME PreInitializeAgain
      PROVE  DriversMatch'
  BY <1>16 DEF PreInitializeAgain, PrepareForSnapshot, RecordSnapshotReading, Idle
<1>17. ASSUME Resume
      PROVE  DriversMatch'
  BY <1>17 DEF Resume
<1>18. ASSUME Tick
      PROVE  DriversMatch'
  BY <1>18 DEF Tick
<1> QED BY <1>1, <1>2, <1>3, <1>4, <1>5, <1>6, <1>7, <1>8, <1>9, <1>10, <1>11, <1>12, <1>13, <1>14,
               <1>15, <1>16, <1>17, <1>18 DEF Steps

\* The loop is owned until startup is done.
LEMMA StartupInPlaceStep == IInv /\ Steps => StartupInPlace'
<1> SUFFICES ASSUME IInv, Steps
             PROVE  StartupInPlace'
  OBVIOUS
<1> USE DEF IInv, TypeOK, State, Instances, Places, DriversMatch, StartupInPlace, InstanceInPlace, ClocksAgree, ClockGoesOn,
            RunScript, Reading, LoopStep, IsFinished, DrivesOn
<1>1. ASSUME NEW q \in Requests, HandleRunning(q)
      PROVE  StartupInPlace'
  BY <1>1 DEF HandleRunning, Idle, Handle, FixUpAfterResume, ResumeFromSnapshot, EnsureStarted,
              DispatchRequest
<1>2. ASSUME NEW q \in Requests, HandleFailedBefore(q)
      PROVE  StartupInPlace'
  BY <1>2 DEF HandleFailedBefore, Idle
<1>3. ASSUME NEW q \in Requests, StartFails(q)
      PROVE  StartupInPlace'
  BY <1>3 DEF StartFails, NoRuntime
<1>4. ASSUME NEW q \in Requests, StartDrives(q)
      PROVE  StartupInPlace'
  BY <1>4 DEF StartDrives, NoRuntime, Evaluated
<1>5. ASSUME NEW q \in Requests, Drive(q)
      PROVE  StartupInPlace'
  BY <1>5 DEF Drive
<1>6. ASSUME NEW q \in Requests, EndDrive(q)
      PROVE  StartupInPlace'
  BY <1>6 DEF EndDrive, Started, Notify, DispatchRequest
<1>7. ASSUME NEW q \in Requests, HostCancels(q)
      PROVE  StartupInPlace'
  BY <1>7 DEF HostCancels, DrivingDropped, Notify
<1>8. ASSUME NEW q \in Requests, Woken(q)
      PROVE  StartupInPlace'
  BY <1>8 DEF Woken, EnsureStarted, DispatchRequest
<1>9. ASSUME NEW q \in Requests, Served(q)
      PROVE  StartupInPlace'
  BY <1>9 DEF Served
<1>10. ASSUME TaskEnds
      PROVE  StartupInPlace'
  BY <1>10 DEF TaskEnds
<1>11. ASSUME NEW work \in BOOLEAN, TaskStep(work)
      PROVE  StartupInPlace'
  BY <1>11 DEF TaskStep
<1>12. ASSUME s.wizer = "init", Evaluated(s.pc, "driving")
      PROVE  StartupInPlace'
  BY <1>12 DEF Evaluated
<1>13. ASSUME DriveUnderWizer
      PROVE  StartupInPlace'
  BY <1>13 DEF DriveUnderWizer
<1>14. ASSUME PreInitialized
      PROVE  StartupInPlace'
  BY <1>14 DEF PreInitialized, PrepareForSnapshot, RecordSnapshotReading, EnsureIdleForSnapshot
<1>15. ASSUME PreInitializeRefused
      PROVE  StartupInPlace'
  BY <1>15 DEF PreInitializeRefused
<1>16. ASSUME PreInitializeAgain
      PROVE  StartupInPlace'
  BY <1>16 DEF PreInitializeAgain, PrepareForSnapshot, RecordSnapshotReading, Idle
<1>17. ASSUME Resume
      PROVE  StartupInPlace'
  BY <1>17 DEF Resume
<1>18. ASSUME Tick
      PROVE  StartupInPlace'
  BY <1>18 DEF Tick
<1> QED BY <1>1, <1>2, <1>3, <1>4, <1>5, <1>6, <1>7, <1>8, <1>9, <1>10, <1>11, <1>12, <1>13, <1>14,
               <1>15, <1>16, <1>17, <1>18 DEF Steps

\* Nothing runs before its time in the life of the instance.
LEMMA InstanceInPlaceStep == IInv /\ Steps => InstanceInPlace'
<1> SUFFICES ASSUME IInv, Steps
             PROVE  InstanceInPlace'
  OBVIOUS
<1> USE DEF IInv, TypeOK, State, Instances, Places, DriversMatch, StartupInPlace, InstanceInPlace, ClocksAgree, ClockGoesOn,
            RunScript, Reading, LoopStep, IsFinished, DrivesOn
<1>1. ASSUME NEW q \in Requests, HandleRunning(q)
      PROVE  InstanceInPlace'
  BY <1>1 DEF HandleRunning, Idle, Handle, FixUpAfterResume, ResumeFromSnapshot, EnsureStarted,
              DispatchRequest
<1>2. ASSUME NEW q \in Requests, HandleFailedBefore(q)
      PROVE  InstanceInPlace'
  BY <1>2 DEF HandleFailedBefore, Idle
<1>3. ASSUME NEW q \in Requests, StartFails(q)
      PROVE  InstanceInPlace'
  BY <1>3 DEF StartFails, NoRuntime
<1>4. ASSUME NEW q \in Requests, StartDrives(q)
      PROVE  InstanceInPlace'
  BY <1>4 DEF StartDrives, NoRuntime, Evaluated
<1>5. ASSUME NEW q \in Requests, Drive(q)
      PROVE  InstanceInPlace'
  BY <1>5 DEF Drive
<1>6. ASSUME NEW q \in Requests, EndDrive(q)
      PROVE  InstanceInPlace'
  BY <1>6 DEF EndDrive, Started, Notify, DispatchRequest
<1>7. ASSUME NEW q \in Requests, HostCancels(q)
      PROVE  InstanceInPlace'
  BY <1>7 DEF HostCancels, DrivingDropped, Notify
<1>8. ASSUME NEW q \in Requests, Woken(q)
      PROVE  InstanceInPlace'
  BY <1>8 DEF Woken, EnsureStarted, DispatchRequest
<1>9. ASSUME NEW q \in Requests, Served(q)
      PROVE  InstanceInPlace'
  BY <1>9 DEF Served
<1>10. ASSUME TaskEnds
      PROVE  InstanceInPlace'
  BY <1>10 DEF TaskEnds
<1>11. ASSUME NEW work \in BOOLEAN, TaskStep(work)
      PROVE  InstanceInPlace'
  BY <1>11 DEF TaskStep
<1>12. ASSUME s.wizer = "init", Evaluated(s.pc, "driving")
      PROVE  InstanceInPlace'
  BY <1>12 DEF Evaluated
<1>13. ASSUME DriveUnderWizer
      PROVE  InstanceInPlace'
  BY <1>13 DEF DriveUnderWizer
<1>14. ASSUME PreInitialized
      PROVE  InstanceInPlace'
  BY <1>14 DEF PreInitialized, PrepareForSnapshot, RecordSnapshotReading, EnsureIdleForSnapshot
<1>15. ASSUME PreInitializeRefused
      PROVE  InstanceInPlace'
  BY <1>15 DEF PreInitializeRefused
<1>16. ASSUME PreInitializeAgain
      PROVE  InstanceInPlace'
  BY <1>16 DEF PreInitializeAgain, PrepareForSnapshot, RecordSnapshotReading, Idle
<1>17. ASSUME Resume
      PROVE  InstanceInPlace'
  BY <1>17 DEF Resume
<1>18. ASSUME Tick
      PROVE  InstanceInPlace'
  BY <1>18 DEF Tick
<1> QED BY <1>1, <1>2, <1>3, <1>4, <1>5, <1>6, <1>7, <1>8, <1>9, <1>10, <1>11, <1>12, <1>13, <1>14,
               <1>15, <1>16, <1>17, <1>18 DEF Steps

\* A resume adds to the clock what was read before the snapshot.
LEMMA ClocksAgreeStep == IInv /\ Steps => ClocksAgree'
<1> SUFFICES ASSUME IInv, Steps
             PROVE  ClocksAgree'
  OBVIOUS
<1> USE DEF IInv, TypeOK, State, Instances, Places, DriversMatch, StartupInPlace, InstanceInPlace, ClocksAgree, ClockGoesOn,
            RunScript, Reading, LoopStep, IsFinished, DrivesOn
<1>1. ASSUME NEW q \in Requests, HandleRunning(q)
      PROVE  ClocksAgree'
  BY <1>1 DEF HandleRunning, Idle, Handle, FixUpAfterResume, ResumeFromSnapshot, EnsureStarted,
              DispatchRequest
<1>2. ASSUME NEW q \in Requests, HandleFailedBefore(q)
      PROVE  ClocksAgree'
  BY <1>2 DEF HandleFailedBefore, Idle
<1>3. ASSUME NEW q \in Requests, StartFails(q)
      PROVE  ClocksAgree'
  BY <1>3 DEF StartFails, NoRuntime
<1>4. ASSUME NEW q \in Requests, StartDrives(q)
      PROVE  ClocksAgree'
  BY <1>4 DEF StartDrives, NoRuntime, Evaluated
<1>5. ASSUME NEW q \in Requests, Drive(q)
      PROVE  ClocksAgree'
  BY <1>5 DEF Drive
<1>6. ASSUME NEW q \in Requests, EndDrive(q)
      PROVE  ClocksAgree'
  BY <1>6 DEF EndDrive, Started, Notify, DispatchRequest
<1>7. ASSUME NEW q \in Requests, HostCancels(q)
      PROVE  ClocksAgree'
  BY <1>7 DEF HostCancels, DrivingDropped, Notify
<1>8. ASSUME NEW q \in Requests, Woken(q)
      PROVE  ClocksAgree'
  BY <1>8 DEF Woken, EnsureStarted, DispatchRequest
<1>9. ASSUME NEW q \in Requests, Served(q)
      PROVE  ClocksAgree'
  BY <1>9 DEF Served
<1>10. ASSUME TaskEnds
      PROVE  ClocksAgree'
  BY <1>10 DEF TaskEnds
<1>11. ASSUME NEW work \in BOOLEAN, TaskStep(work)
      PROVE  ClocksAgree'
  BY <1>11 DEF TaskStep
<1>12. ASSUME s.wizer = "init", Evaluated(s.pc, "driving")
      PROVE  ClocksAgree'
  BY <1>12 DEF Evaluated
<1>13. ASSUME DriveUnderWizer
      PROVE  ClocksAgree'
  BY <1>13 DEF DriveUnderWizer
<1>14. ASSUME PreInitialized
      PROVE  ClocksAgree'
  BY <1>14 DEF PreInitialized, PrepareForSnapshot, RecordSnapshotReading, EnsureIdleForSnapshot
<1>15. ASSUME PreInitializeRefused
      PROVE  ClocksAgree'
  BY <1>15 DEF PreInitializeRefused
<1>16. ASSUME PreInitializeAgain
      PROVE  ClocksAgree'
  BY <1>16 DEF PreInitializeAgain, PrepareForSnapshot, RecordSnapshotReading, Idle
<1>17. ASSUME Resume
      PROVE  ClocksAgree'
  BY <1>17 DEF Resume
<1>18. ASSUME Tick
      PROVE  ClocksAgree'
  BY <1>18 DEF Tick
<1> QED BY <1>1, <1>2, <1>3, <1>4, <1>5, <1>6, <1>7, <1>8, <1>9, <1>10, <1>11, <1>12, <1>13, <1>14,
               <1>15, <1>16, <1>17, <1>18 DEF Steps

\* Handlers run after startup, and script code sees no clock go back.
LEMMA DispatchedInTimeStep == IInv /\ Steps => (~s.early /\ ClockGoesOn)'
<1> SUFFICES ASSUME IInv, Steps
             PROVE  (~s.early /\ ClockGoesOn)'
  OBVIOUS
<1> USE DEF IInv, TypeOK, State, Instances, Places, DriversMatch, StartupInPlace, InstanceInPlace, ClocksAgree, ClockGoesOn,
            RunScript, Reading, LoopStep, IsFinished, DrivesOn
<1>1. ASSUME NEW q \in Requests, HandleRunning(q)
      PROVE  (~s.early /\ ClockGoesOn)'
  BY <1>1 DEF HandleRunning, Idle, Handle, FixUpAfterResume, ResumeFromSnapshot, EnsureStarted,
              DispatchRequest
<1>2. ASSUME NEW q \in Requests, HandleFailedBefore(q)
      PROVE  (~s.early /\ ClockGoesOn)'
  BY <1>2 DEF HandleFailedBefore, Idle
<1>3. ASSUME NEW q \in Requests, StartFails(q)
      PROVE  (~s.early /\ ClockGoesOn)'
  BY <1>3 DEF StartFails, NoRuntime
<1>4. ASSUME NEW q \in Requests, StartDrives(q)
      PROVE  (~s.early /\ ClockGoesOn)'
  BY <1>4 DEF StartDrives, NoRuntime, Evaluated
<1>5. ASSUME NEW q \in Requests, Drive(q)
      PROVE  (~s.early /\ ClockGoesOn)'
  BY <1>5 DEF Drive
<1>6. ASSUME NEW q \in Requests, EndDrive(q)
      PROVE  (~s.early /\ ClockGoesOn)'
  BY <1>6 DEF EndDrive, Started, Notify, DispatchRequest
<1>7. ASSUME NEW q \in Requests, HostCancels(q)
      PROVE  (~s.early /\ ClockGoesOn)'
  BY <1>7 DEF HostCancels, DrivingDropped, Notify
<1>8. ASSUME NEW q \in Requests, Woken(q)
      PROVE  (~s.early /\ ClockGoesOn)'
  BY <1>8 DEF Woken, EnsureStarted, DispatchRequest
<1>9. ASSUME NEW q \in Requests, Served(q)
      PROVE  (~s.early /\ ClockGoesOn)'
  BY <1>9 DEF Served
<1>10. ASSUME TaskEnds
      PROVE  (~s.early /\ ClockGoesOn)'
  BY <1>10 DEF TaskEnds
<1>11. ASSUME NEW work \in BOOLEAN, TaskStep(work)
      PROVE  (~s.early /\ ClockGoesOn)'
  BY <1>11 DEF TaskStep
<1>12. ASSUME s.wizer = "init", Evaluated(s.pc, "driving")
      PROVE  (~s.early /\ ClockGoesOn)'
  BY <1>12 DEF Evaluated
<1>13. ASSUME DriveUnderWizer
      PROVE  (~s.early /\ ClockGoesOn)'
  BY <1>13 DEF DriveUnderWizer
<1>14. ASSUME PreInitialized
      PROVE  (~s.early /\ ClockGoesOn)'
  BY <1>14 DEF PreInitialized, PrepareForSnapshot, RecordSnapshotReading, EnsureIdleForSnapshot
<1>15. ASSUME PreInitializeRefused
      PROVE  (~s.early /\ ClockGoesOn)'
  BY <1>15 DEF PreInitializeRefused
<1>16. ASSUME PreInitializeAgain
      PROVE  (~s.early /\ ClockGoesOn)'
  BY <1>16 DEF PreInitializeAgain, PrepareForSnapshot, RecordSnapshotReading, Idle
<1>17. ASSUME Resume
      PROVE  (~s.early /\ ClockGoesOn)'
  BY <1>17 DEF Resume
<1>18. ASSUME Tick
      PROVE  (~s.early /\ ClockGoesOn)'
  BY <1>18 DEF Tick
<1> QED BY <1>1, <1>2, <1>3, <1>4, <1>5, <1>6, <1>7, <1>8, <1>9, <1>10, <1>11, <1>12, <1>13, <1>14,
               <1>15, <1>16, <1>17, <1>18 DEF Steps

\* The types hold.
LEMMA TypeOKStep == IInv /\ Steps => TypeOK'
<1> SUFFICES ASSUME IInv, Steps
             PROVE  s' \in State
  BY DEF TypeOK
<1> USE DEF IInv, TypeOK
<1>1. ASSUME NEW q \in Requests, HandleRunning(q) \/ Woken(q)
      PROVE  s' \in State
  BY <1>1, Repaired, StartsOrWaits DEF HandleRunning, Handle, Woken
<1>2. ASSUME NEW q \in Requests, HandleFailedBefore(q)
      PROVE  s' \in State
  BY <1>2 DEF HandleFailedBefore, State, Places
<1>3. ASSUME NEW q \in Requests, StartFails(q) \/ StartDrives(q)
      PROVE  s' \in State
  <2>1. [s EXCEPT !.failure = TRUE, !.pc[q] = "failed"] \in State
    BY DEF State, Places
  <2> QED BY <1>3, <2>1 DEF StartFails, StartDrives, Evaluated
<1>4. ASSUME NEW q \in Requests, Drive(q)
      PROVE  s' \in State
  BY <1>4, ScriptRuns DEF Drive
<1>5. ASSUME NEW q \in Requests, EndDrive(q)
      PROVE  s' \in State
  <2>1. ASSUME NEW failure \in BOOLEAN
        PROVE  [s EXCEPT !.startup = "done", !.failure = failure] \in State
    BY DEF State
  <2>2. (s.failure \/ s.script = "rejected") \in BOOLEAN
    OBVIOUS
  <2>3. PICK told \in State : s' = IF s.script = "rejected"
           THEN [told EXCEPT !.pc[q] = "failed", !.loop = "none", !.work = FALSE]
           ELSE DispatchRequest([told EXCEPT !.loop = "task"], q)
    BY <1>5, <2>1, <2>2, Notified DEF EndDrive, Started
  <2>4. /\ [told EXCEPT !.pc[q] = "failed", !.loop = "none", !.work = FALSE] \in State
        /\ [told EXCEPT !.loop = "task"] \in State
    BY ZenonT(40) DEF State, Places
  <2> QED BY <2>3, <2>4, Dispatches
<1>6. ASSUME NEW q \in Requests, HostCancels(q)
      PROVE  s' \in State
  <2>1. [s EXCEPT !.pc[q] = "canceled"] \in State
    BY DEF State, Places
  <2>2. \A r \in State : [r EXCEPT !.startup = "pending"] \in State
    BY DEF State
  <2> QED BY <1>6, <2>1, <2>2, Notified DEF HostCancels, DrivingDropped
<1>7. ASSUME NEW q \in Requests, Served(q)
      PROVE  s' \in State
  <2>1. \A r \in State : [r EXCEPT !.pc[q] = "ended"] \in State
    BY DEF State, Places
  <2> QED BY <1>7, <2>1, ScriptRuns DEF Served
<1>8. ASSUME TaskEnds \/ \E work \in BOOLEAN : TaskStep(work)
      PROVE  s' \in State
  <2>1. CASE TaskEnds
    BY <2>1 DEF TaskEnds, State
  <2>2. ASSUME NEW work \in BOOLEAN, TaskStep(work)
        PROVE  s' \in State
    <3>1. RunScript(s) \in State /\ s.script \in {"none", "awaiting", "fulfilled", "rejected"}
      BY ScriptRuns DEF State
    <3>2. \A r \in State : [r EXCEPT !.script = s.script, !.work = work] \in State
      BY ZenonT(40), <3>1 DEF State
    <3> QED BY <2>2, <3>1, <3>2 DEF LoopStep, TaskStep
  <2> QED BY <1>8, <2>1, <2>2
<1>9. ASSUME Evaluated(s.pc, "driving") \/ DriveUnderWizer
      PROVE  s' \in State
  BY <1>9, ScriptRuns DEF DriveUnderWizer, Evaluated
<1>10. ASSUME PreInitialized \/ PreInitializeAgain
       PROVE  s' \in State
  <2>1. \A r \in State : [[r EXCEPT !.resumed = TRUE, !.wizer = "snapshot"] EXCEPT !.snapshot = r.host] \in State
    BY ZenonT(40) DEF State
  <2>2. /\ [s EXCEPT !.startup = "done", !.loop = "none"] \in State
        /\ [s EXCEPT !.startup = "driving", !.twice = TRUE] \in State
    BY DEF State
  <2>3. \A r \in State : PrepareForSnapshot(r) = [[r EXCEPT !.resumed = TRUE, !.wizer = "snapshot"] EXCEPT !.snapshot = r.host]
    BY DEF PrepareForSnapshot, RecordSnapshotReading, State
  <2>4. PICK r \in State : s' = PrepareForSnapshot(r)
    BY <1>10, <2>2 DEF PreInitialized, PreInitializeAgain
  <2> QED BY <2>1, <2>3, <2>4
<1>11. ASSUME PreInitializeRefused \/ Resume \/ Tick
       PROVE  s' \in State
  <2>1. CASE PreInitializeRefused
    BY <2>1 DEF PreInitializeRefused, State
  <2>2. CASE Resume
    BY <2>2 DEF Resume, State, Instances
  <2>3. CASE Tick
    BY <2>3 DEF Tick, State
  <2> QED BY <1>11, <2>1, <2>2, <2>3
<1> QED BY <1>1, <1>2, <1>3, <1>4, <1>5, <1>6, <1>7, <1>8, <1>9, <1>10, <1>11 DEF Steps

LEMMA Initially == Init => IInv
BY DEF Init, IInv, TypeOK, State, Instances, Places, DriversMatch, StartupInPlace,
       InstanceInPlace, ClocksAgree, ClockGoesOn, DrivesOn, IsFinished

LEMMA Inductive == IInv /\ [Next]_s => IInv'
<1>1. IInv /\ Steps => IInv'
  BY TypeOKStep, DriversMatchStep, StartupInPlaceStep, InstanceInPlaceStep, ClocksAgreeStep,
     DispatchedInTimeStep DEF IInv
<1>2. IInv /\ UNCHANGED s => IInv'
  BY DEF IInv, TypeOK, DriversMatch, StartupInPlace, InstanceInPlace, ClocksAgree, ClockGoesOn,
         DrivesOn, IsFinished
<1> QED BY <1>1, <1>2, NextSteps

-----------------------------------------------------------------------------
(* The theorems.                                                           *)

\* No request waits for the top level while none drives it: whichever request the host drops,
\* and whenever, another one is woken to take over (ensure_started, Driving::drop).
LEMMA WaitersDriven == IInv => WaitersHaveADriver
<1> SUFFICES ASSUME IInv, s.instance = "run", s.wizer = "off", ~s.twice
             PROVE  /\ Cardinality(Drivers) = (IF s.startup = "driving" THEN 1 ELSE 0)
                    /\ (\E q \in Requests : s.pc[q] = "waiting") => s.startup = "driving"
                    /\ s.startup \in {"pending", "driving"} => s.loop = "owned"
  BY DEF WaitersHaveADriver
<1>1. CASE s.startup = "driving"
  <2>1. PICK q \in Requests : Drivers = {q}
    BY <1>1 DEF IInv, DriversMatch, Drivers
  <2> QED BY <1>1, <2>1, FS_Singleton DEF IInv, StartupInPlace
<1>2. CASE s.startup # "driving"
  <2>1. Drivers = {}
    BY <1>2 DEF IInv, DriversMatch, Drivers
  <2> QED BY <1>2, <2>1, FS_EmptySet DEF IInv, StartupInPlace, DriversMatch
<1> QED BY <1>1, <1>2

LEMMA InvariantHolds == IInv => WaitersHaveADriver /\ ServedAfterStartup /\ ClockGoesOn
BY WaitersDriven DEF IInv, ServedAfterStartup, StartupInPlace

\* The state of an instance keeps its type, whatever the host does.
THEOREM TypeCorrect == Spec => []TypeOK
<1>1. IInv => TypeOK
  BY DEF IInv
<1> QED BY <1>1, Initially, Inductive, PTL DEF Spec

\* While requests wait for the top level one of them drives it, whichever the host drops
\* (ensure_started, Driving::drop); no handler runs before it is done or after it failed
\* (dispatch_request, STARTUP_FAILURE); and a snapshot takes no clock back
\* (record_snapshot_reading, fix_up_after_resume).
THEOREM StartupInOrder == Spec => [](WaitersHaveADriver /\ ServedAfterStartup /\ ClockGoesOn)
BY Initially, Inductive, InvariantHolds, PTL DEF Spec

=============================================================================
