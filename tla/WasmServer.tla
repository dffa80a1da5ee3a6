----------------------------- MODULE WasmServer -----------------------------
(***************************************************************************)
(* The WebAssembly server: one instance, one runtime, one global, many     *)
(* requests (libstarling/src/serve_wasm.rs), and the instance's life       *)
(* around a Wizer snapshot.                                                *)
(*                                                                         *)
(* The first request creates the runtime and drives the content script's   *)
(* top level; requests that arrive meanwhile wait for it.  The host may    *)
(* drop any request at an await.  A pre-initialized instance is driven     *)
(* under Wizer, snapshotted, and resumed with its heap but with a clock    *)
(* that starts at zero again (platform/src/clock.rs).                      *)
(*                                                                         *)
(* s.latest, s.back, s.stale, s.early and s.twice are history.             *)
(***************************************************************************)
EXTENDS Integers, FiniteSets

CONSTANTS Requests,    \* requests the host sends
          MaxTime      \* bound on the readings of a host clock

VARIABLE s

-----------------------------------------------------------------------------
(* The clock: a host reading plus the offset that a resume adds.           *)

Reading(r) == r.offset + r.host

\* Script code runs: it and the loop under it read the clock, keep the reading, and see the
\* time origin.
RunScript(r) ==
    [r EXCEPT !.latest = IF Reading(r) > @ THEN Reading(r) ELSE @,
              !.back = @ \/ Reading(r) < r.latest \/ r.engine # r.offset,
              !.stale = @ \/ (r.origin = "build" /\ r.instance = "run")]

\* The reading carried into the snapshot is the raw one of the host's clock.
RecordSnapshotReading(r) == [r EXCEPT !.snapshot = r.host]

ResumeFromSnapshot(r) ==
    [r EXCEPT !.offset = @ + r.snapshot,
              !.engine = @ + r.snapshot,
              !.snapshot = 0]

-----------------------------------------------------------------------------
(* The runtime and its content script.                                     *)

\* core_runtime::init_and_eval: Runtime::init with the initializer script, then the content
\* script and its microtasks.  The top level ends, or stays at an await; either way it may
\* leave work in its loop.
InitAndEval(r, script, work) ==
    [RunScript([r EXCEPT !.origin = IF @ = "none" THEN r.instance ELSE @])
        EXCEPT !.script = script, !.work = work]

\* start_runtime: synchronous, so that no second request can start one too.
StartRuntime(r, script, work) ==
    [InitAndEval(r, script, work) EXCEPT !.runtime = TRUE, !.startup = "pending", !.loop = "owned"]

IsFinished(r) == r.script # "awaiting"

\* run_until_evaluated: the loop is driven while the top level is unfinished and there is work.
DrivesOn(r) == ~IsFinished(r) /\ r.work

\* A step of a driven loop: script code runs, the top level may end, work may be left.
LoopStep(r, script, work) ==
    [RunScript(r) EXCEPT !.script = script, !.work = work]

\* ensure_idle_for_snapshot: of what pending_work lists, nothing is left.
EnsureIdleForSnapshot(r) == ~r.work

-----------------------------------------------------------------------------
(* Waiting for startup.                                                    *)

Notify(r) == [r EXCEPT !.pc = [q \in Requests |-> IF @[q] = "waiting" THEN "notified" ELSE @[q]]]

\* dispatch_request: the fetch handlers run.  A script whose await can never settle counts as
\* started; one that is still being driven does not.
DispatchRequest(r, q) ==
    [RunScript(r) EXCEPT !.pc[q] = "serving", !.early = @ \/ DrivesOn(r)]

\* One turn of ensure_started's loop.
EnsureStarted(r, q) ==
    CASE r.startup = "pending" -> [r EXCEPT !.startup = "driving", !.pc[q] = "driving"]
      [] r.startup = "driving" -> [r EXCEPT !.pc[q] = "waiting"]
      [] r.startup = "done" /\ r.failure -> [r EXCEPT !.pc[q] = "failed"]
      [] OTHER -> DispatchRequest(r, q)

FixUpAfterResume(r) ==
    IF r.resumed
      THEN LET clock == ResumeFromSnapshot([r EXCEPT !.resumed = FALSE])
           IN [clock EXCEPT !.origin = r.instance]
      ELSE r

\* handle: with a runtime, the clock is repaired before anything of the script can run.
Handle(r, q) == EnsureStarted(FixUpAfterResume(r), q)

Idle(q) == s.pc[q] = "new"

HandleRunning(q) ==
    /\ s.instance = "run" /\ s.wizer = "off" /\ Idle(q) /\ s.runtime
    /\ s' = Handle(s, q)

\* runtime(): a startup that failed is final.
HandleFailedBefore(q) ==
    /\ s.instance = "run" /\ s.wizer = "off" /\ Idle(q) /\ ~s.runtime /\ s.failure
    /\ s' = [s EXCEPT !.pc[q] = "failed"]

HandleStarts(q) ==
    /\ s.instance = "run" /\ s.wizer = "off" /\ Idle(q) /\ ~s.runtime /\ ~s.failure
    /\ \/ \E script \in {"awaiting", "fulfilled"}, work \in BOOLEAN :
            s' = Handle(StartRuntime(s, script, work), q)
       \/ s' = [s EXCEPT !.failure = TRUE, !.pc[q] = "failed"]

-----------------------------------------------------------------------------
(* The request that drives.                                                *)

Drive(q) ==
    /\ s.pc[q] = "driving" /\ DrivesOn(s)
    /\ \E script \in {"awaiting", "fulfilled", "rejected"}, work \in BOOLEAN :
         s' = LoopStep(s, script, work)

\* The loop is done: the outcome is recorded, the waiting requests are told, and the loop goes to
\* a task of its own or, after a rejection, has its futures canceled and is dropped.
Started(r, q) ==
    LET told == Notify([r EXCEPT !.startup = "done", !.failure = @ \/ r.script = "rejected"])
    IN IF r.script = "rejected"
         THEN [told EXCEPT !.pc[q] = "failed", !.loop = "none", !.work = FALSE]
         ELSE DispatchRequest([told EXCEPT !.loop = "task"], q)

EndDrive(q) ==
    /\ s.pc[q] = "driving" /\ ~DrivesOn(s)
    /\ s' = Started(s, q)

\* Mutant: the driver hands the loop back but tells nobody.
DrivingDropped_Silent(r) == [r EXCEPT !.startup = "pending"]

\* Driving::drop: the loop is handed back, and whoever waits has to take it over.
DrivingDropped(r) == Notify([r EXCEPT !.startup = "pending"])

\* The host drops the request's future at one of its awaits.
HostCancels(q) ==
    /\ s.pc[q] \in {"driving", "waiting", "notified"}
    /\ LET gone == [s EXCEPT !.pc[q] = "canceled"]
       IN s' = IF s.pc[q] = "driving" THEN DrivingDropped(gone) ELSE gone

Woken(q) ==
    /\ s.pc[q] = "notified"
    /\ s' = EnsureStarted(s, q)

Served(q) ==
    /\ s.pc[q] = "serving"
    /\ s' = [RunScript(s) EXCEPT !.pc[q] = "ended"]

\* keep_startup_loop_running: work the top level left behind goes on between requests; the loop
\* is dropped when none is left.
KeepStartupLoopRunning ==
    /\ s.loop = "task"
    /\ IF s.work
         THEN \E script \in (IF IsFinished(s) THEN {s.script} ELSE {"awaiting", "fulfilled"}),
                 work \in BOOLEAN : s' = LoopStep(s, script, work)
         ELSE s' = [s EXCEPT !.loop = "none"]

-----------------------------------------------------------------------------
(* Wizer: pre_initialize, the snapshot, the resumed instance.              *)

PrepareForSnapshot(r) == RecordSnapshotReading([r EXCEPT !.resumed = TRUE, !.wizer = "snapshot"])

\* pre_initialize up to its await.  A top level that throws panics the instance.
PreInitialize ==
    /\ s.wizer = "init"
    /\ \E script \in {"awaiting", "fulfilled"}, work \in BOOLEAN :
         s' = [StartRuntime(s, script, work) EXCEPT !.startup = "driving", !.wizer = "driving"]

DriveUnderWizer ==
    /\ s.wizer = "driving" /\ DrivesOn(s)
    /\ \E script \in {"awaiting", "fulfilled", "rejected"}, work \in BOOLEAN :
         s' = LoopStep(s, script, work)

\* A rejected or unsettled top level, a missing listener and work left behind are refused: there
\* is no snapshot, and no instance.
PreInitialized ==
    /\ s.wizer = "driving" /\ ~DrivesOn(s)
    /\ s.script = "fulfilled" /\ EnsureIdleForSnapshot(s)
    /\ s' = PrepareForSnapshot([s EXCEPT !.startup = "done", !.loop = "none"])

PreInitializeRefused ==
    /\ s.wizer = "driving" /\ ~DrivesOn(s)
    /\ s' = [s EXCEPT !.wizer = "refused"]

\* A second call, in an instance resumed from a snapshot that kept the export, finds a runtime:
\* nothing is evaluated, but STARTUP has been taken.
PreInitializeAgain ==
    /\ s.wizer = "off" /\ s.resumed /\ s.runtime /\ ~s.twice
    /\ \A q \in Requests : Idle(q)
    /\ s' = PrepareForSnapshot([s EXCEPT !.startup = "driving", !.twice = TRUE])

\* External: the heap comes back in an instance whose clock starts at zero.
Resume ==
    /\ s.wizer = "snapshot"
    /\ s' = [s EXCEPT !.instance = "run", !.wizer = "off", !.host = 0]

Tick ==
    /\ s.host < MaxTime
    /\ s' = [s EXCEPT !.host = @ + 1]

-----------------------------------------------------------------------------
Init ==
    \E wizer \in {"off", "init"} :
        s = [instance |-> IF wizer = "off" THEN "run" ELSE "build", wizer |-> wizer,
             runtime |-> FALSE, failure |-> FALSE, startup |-> "done", loop |-> "none",
             script |-> "none", work |-> FALSE, pc |-> [q \in Requests |-> "new"],
             host |-> 0, offset |-> 0, engine |-> 0, snapshot |-> 0, resumed |-> FALSE,
             origin |-> "none", latest |-> 0, back |-> FALSE, stale |-> FALSE, early |-> FALSE,
             twice |-> FALSE]

Next ==
    \/ \E q \in Requests :
         \/ HandleRunning(q) \/ HandleFailedBefore(q) \/ HandleStarts(q)
         \/ Drive(q) \/ EndDrive(q) \/ HostCancels(q) \/ Woken(q) \/ Served(q)
    \/ KeepStartupLoopRunning
    \/ PreInitialize \/ DriveUnderWizer \/ PreInitialized \/ PreInitializeRefused
    \/ PreInitializeAgain \/ Resume \/ Tick

Spec == Init /\ [][Next]_s

-----------------------------------------------------------------------------
Drivers == {q \in Requests : s.pc[q] = "driving"}

\* One request drives the startup loop exactly while the state says so, and then the loop is
\* owned: no request waits for a driver that is gone, and none sleeps through a change of
\* STARTUP (STARTUP_CHANGED, Driving::drop).
WaitersHaveADriver ==
    s.instance = "run" /\ s.wizer = "off" /\ ~s.twice =>
      /\ Cardinality(Drivers) = (IF s.startup = "driving" THEN 1 ELSE 0)
      /\ (\E q \in Requests : s.pc[q] = "waiting") => s.startup = "driving"
      /\ s.startup \in {"pending", "driving"} => s.loop = "owned"

\* A handler is never dispatched while the top level is still being driven, nor in an instance
\* whose startup failed, and a failure stays (ensure_started, STARTUP_FAILURE).
ServedAfterStartup ==
    /\ ~s.early
    /\ s.failure => \A q \in Requests : s.pc[q] \notin {"serving", "ended"}

\* Script code never reads a clock that went back, the engine's clock agrees with ours, and it
\* never sees the time origin of the machine that took the snapshot (fix_up_after_resume before
\* ensure_started, record_snapshot_reading last).
ClockGoesOn == ~s.twice => ~s.back /\ ~s.stale

\* Startup::Driving: "A request is currently driving it. Concurrent requests wait."
DrivingIsDriven ==
    s.instance = "run" /\ s.wizer = "off" /\ s.startup = "driving" => Drivers # {}

=============================================================================
