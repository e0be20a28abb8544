------------------------------ MODULE EngineMac ------------------------------
(***************************************************************************)
(* The macOS engine (app/src/engine_macos.rs).  Everything the Engine      *)
(* holds belongs to the main thread; the core is torn down on a throw-away *)
(* thread, so that a stop or restart returns at once and is finished by    *)
(* on_engine_stopped when that thread has signalled.                       *)
(*                                                                         *)
(* A configuration is a number from 1 on, the version of config.json it    *)
(* was read from; 0 is None.  A request is the configuration to run with,  *)
(* or 0 to stay stopped.                                                   *)
(***************************************************************************)
EXTENDS Naturals, Sequences

CONSTANTS LogThreads,   \* the UxPlay threads that log
          Failures,     \* the ways a start may fail: see FailureKinds
          MaxLines      \* bound: log lines per behaviour

(* "window": the mirror window cannot be created at launch; "setup": the   *)
(* library does not load, or a setter or ap.start() fails; "fatal": the    *)
(* engine logs a fatal line after ap.start() succeeded.                    *)
FailureKinds == {"window", "setup", "fatal"}

ASSUME EngineAssumption ==
  /\ LogThreads # {}
  /\ Failures \subseteq FailureKinds
  /\ MaxLines \in Nat

VARIABLES
  inner,          \* Inner: what the main thread holds of the engine
  teardown,       \* the thread that stops the core, "none" when there is none
  core,           \* uxplay-core, as far as the callbacks can tell
  stopped,        \* EngineStopped events not handled yet
  visible,        \* the mirror window is shown
  CONNECTED,
  START_FAILED, PIN_IGNORED,
  statusQ,        \* the status channel and its bridge thread: one FIFO
  log,            \* what each UxPlay thread is about to send
  lines           \* counter behind MaxLines

flags == <<CONNECTED, START_FAILED, PIN_IGNORED>>
engineVars == <<inner, teardown, core, stopped, visible, flags, statusQ, log, lines>>

Configs == Nat \ {0}
Statuses == {"Off", "Ready", "Connected"}
Lines == {"fatal", "pin", "connect", "teardown"}

InnerType ==
  [window : BOOLEAN, airplay : Nat, running : BOOLEAN, transitioning : BOOLEAN,
   next_cfg : Nat, queued : Seq(Nat)]

EngineTypeOK ==
  /\ inner \in InnerType /\ Len(inner.queued) <= 1
  /\ teardown \in {"none", "stopping", "signal", "last"}
  /\ core \in {"off", "starting", "serving", "failed"}
  /\ stopped \in Nat /\ lines \in Nat
  /\ visible \in BOOLEAN /\ CONNECTED \in BOOLEAN
  /\ START_FAILED \in BOOLEAN /\ PIN_IGNORED \in BOOLEAN
  /\ statusQ \in Seq(Statuses)
  /\ log \in [LogThreads -> Statuses \cup {"idle"}]

EngineInit ==
  /\ inner = [window |-> FALSE, airplay |-> 0, running |-> FALSE, transitioning |-> FALSE,
              next_cfg |-> 0, queued |-> <<>>]
  /\ teardown = "none" /\ core = "off" /\ stopped = 0 /\ visible = FALSE
  /\ CONNECTED = FALSE /\ START_FAILED = FALSE /\ PIN_IGNORED = FALSE
  /\ statusQ = <<>> /\ log = [t \in LogThreads |-> "idle"]
  /\ lines = 0

----------------------------------------------------------------------------
(* The Engine handle.  Each operator is a whole call on the main thread,   *)
(* made on the contents i of Inner.                                        *)

attach_window ==
  /\ inner' = [inner EXCEPT !.window = TRUE]
  /\ UNCHANGED <<teardown, core, stopped, visible, flags, statusQ, log, lines>>

(* Mutant: requests made during a teardown pile up.                        *)
QueueAppends(i, req) == inner' = [i EXCEPT !.queued = Append(@, req)]

(* Mutant: a stop made during a teardown leaves no trace.                  *)
QueueFlattened(i, req) == inner' = [i EXCEPT !.queued = IF req = 0 THEN <<>> ELSE <<req>>]

(* The latest request replaces one queued before; Some(None) is a stop.    *)
Queue(i, req) == inner' = [i EXCEPT !.queued = <<req>>]

CanFail(i) == "setup" \in Failures \/ ~i.window

(* Of start_inner only ap.start() can fail after the resets.               *)
FailsLate(i) == "setup" \in Failures /\ i.window

(* What start_inner resets, reset_run_flags() included.                    *)
RunReset == CONNECTED' = FALSE /\ START_FAILED' = FALSE /\ PIN_IGNORED' = FALSE

(* start_inner succeeds.                                                   *)
Started(i, cfg) ==
  /\ i.window
  /\ inner' = [i EXCEPT !.airplay = cfg, !.running = TRUE]
  /\ core' = "starting"
  /\ RunReset

(* Mutant: a deferred start that fails leaves running as begin() set it.   *)
startOrLog(i, cfg) ==
  \/ Started(i, cfg) /\ UNCHANGED statusQ
  \/ /\ CanFail(i)
     /\ inner' = i
     /\ UNCHANGED flags \/ (FailsLate(i) /\ RunReset)
     /\ UNCHANGED <<core, statusQ>>

(* A deferred start.  One that fails is told the tray as an Off.           *)
start_or_report(i, cfg) ==
  \/ Started(i, cfg) /\ UNCHANGED statusQ
  \/ /\ CanFail(i)
     /\ inner' = [i EXCEPT !.running = FALSE]
     /\ START_FAILED' = TRUE
     /\ \/ UNCHANGED <<CONNECTED, PIN_IGNORED>>
        \/ FailsLate(i) /\ CONNECTED' = FALSE /\ PIN_IGNORED' = FALSE
     /\ statusQ' = Append(statusQ, "Off")
     /\ UNCHANGED core

(* Mutant: start() does not wait for a teardown under way.                 *)
startInTransition(i, cfg, result) ==
  /\ result = "ok"
  /\ IF i.running THEN inner' = i /\ UNCHANGED <<core, flags>> ELSE Started(i, cfg)
  /\ UNCHANGED <<teardown, stopped, visible, statusQ, log, lines>>

(* start() returns an error only when it is not put off by a teardown.     *)
start(i, cfg, result) ==
  /\ \/ /\ i.transitioning
        /\ Queue(i, cfg) /\ result = "ok"
        /\ UNCHANGED <<core, flags>>
     \/ /\ ~i.transitioning /\ i.running
        /\ inner' = i /\ result = "ok"
        /\ UNCHANGED <<core, flags>>
     \/ /\ ~i.transitioning /\ ~i.running
        /\ Started(i, cfg) /\ result = "ok"
     \/ /\ ~i.transitioning /\ ~i.running /\ CanFail(i)
        /\ inner' = i /\ result = "err"
        /\ UNCHANGED flags \/ (FailsLate(i) /\ RunReset)
        /\ UNCHANGED core
  /\ UNCHANGED <<teardown, stopped, visible, statusQ, log, lines>>

(* The engine is handed to a thread of its own; a restart stays "running". *)
TearDown(i, req) ==
  /\ inner' = [i EXCEPT !.airplay = 0, !.running = (req # 0), !.next_cfg = req,
                        !.transitioning = TRUE]
  /\ teardown' = "stopping"
  /\ CONNECTED' = FALSE

(* begin but for the window, which only a teardown hides.                  *)
Lifecycle(i, req) ==
  /\ \/ /\ i.transitioning
        /\ Queue(i, req)
        /\ UNCHANGED <<teardown, core, flags, statusQ>>
     \/ /\ ~i.transitioning /\ i.airplay = 0 /\ req # 0
        /\ start_or_report(i, req)
        /\ UNCHANGED teardown
     \/ /\ ~i.transitioning /\ i.airplay = 0 /\ req = 0
        /\ inner' = [i EXCEPT !.running = FALSE]
        /\ UNCHANGED <<teardown, core, flags, statusQ>>
     \/ /\ ~i.transitioning /\ i.airplay # 0
        /\ TearDown(i, req)
        /\ UNCHANGED <<core, START_FAILED, PIN_IGNORED, statusQ>>
  /\ UNCHANGED <<log, lines>>

(* begin: stop() is begin(i, 0), restart(cfg) is begin(i, cfg).            *)
begin(i, req) ==
  /\ Lifecycle(i, req)
  /\ visible' = (visible /\ (i.transitioning \/ i.airplay = 0))

(* A queued request goes through begin again; otherwise the restart's own  *)
(* configuration is started.                                               *)
on_engine_stopped ==
  LET i == [inner EXCEPT !.transitioning = FALSE, !.queued = <<>>, !.next_cfg = 0]
  IN /\ stopped > 0
     /\ stopped' = stopped - 1
     /\ \/ inner.queued # <<>> /\ begin(i, Head(inner.queued))
        \/ /\ inner.queued = <<>> /\ inner.next_cfg # 0
           /\ start_or_report(i, inner.next_cfg)
           /\ UNCHANGED <<teardown, visible, log, lines>>
        \/ /\ inner.queued = <<>> /\ inner.next_cfg = 0
           /\ inner' = i
           /\ UNCHANGED <<teardown, core, visible, flags, statusQ, log, lines>>

(* stop_blocking, up to its wait: a helper thread stops the engine, or     *)
(* joins the teardown under way.                                           *)
stop_blocking ==
  /\ inner' = [inner EXCEPT !.airplay = 0, !.running = FALSE, !.transitioning = TRUE,
                            !.next_cfg = 0, !.queued = <<>>]
  /\ teardown' = IF inner.airplay # 0 THEN "last" ELSE teardown
  /\ UNCHANGED <<core, stopped, visible, flags, statusQ, log, lines>>

(* Mutant: a teardown begin() has started is not waited for.               *)
TornDownHere == teardown # "last"

(* What wait_bounded waits for.                                            *)
TornDown == teardown = "none"

(* After the wait, in time or not.                                         *)
stop_blocking_done ==
  /\ inner' = [inner EXCEPT !.transitioning = FALSE, !.queued = <<>>, !.next_cfg = 0]
  /\ CONNECTED' = FALSE
  /\ visible' = FALSE
  /\ UNCHANGED <<teardown, core, stopped, START_FAILED, PIN_IGNORED, statusQ, log, lines>>

set_mirror_visible(on) == visible' = (on /\ inner.window)

----------------------------------------------------------------------------
(* The teardown thread, and engine_log_cb on UxPlay's threads.             *)

(* ap.stop() joins the engine, whose threads have then left the callback.  *)
StopCore ==
  /\ teardown \in {"stopping", "last"}
  /\ \A t \in LogThreads : log[t] = "idle"
  /\ core' = "off"
  /\ teardown' = IF teardown = "last" THEN "none" ELSE "signal"
  /\ UNCHANGED <<inner, stopped, visible, flags, statusQ, log, lines>>

(* Mutant: nobody hears that the teardown is over.                         *)
signalNobody ==
  /\ teardown = "signal"
  /\ teardown' = "none"
  /\ UNCHANGED <<inner, core, stopped, visible, flags, statusQ, log, lines>>

signal_engine_stopped ==
  /\ teardown = "signal"
  /\ teardown' = "none"
  /\ stopped' = stopped + 1
  /\ UNCHANGED <<inner, core, visible, flags, statusQ, log, lines>>

TeardownThread == StopCore \/ signal_engine_stopped

Logs == IF core = "starting" THEN {"pin"} \cup ({"fatal"} \cap Failures)
        ELSE IF core = "serving" THEN {"connect", "teardown"} ELSE {}

Then(t, s) == log' = [log EXCEPT ![t] = s]

(* A line, up to the store or swap of the flag it sets.                    *)
LogSwap(t, line) ==
  /\ line \in Logs
  /\ lines < MaxLines
  /\ log[t] = "idle"
  /\ lines' = lines + 1
  /\ core' = IF line = "fatal" THEN "failed" ELSE core
  /\ \/ /\ line = "fatal" /\ START_FAILED' = TRUE /\ Then(t, "Off")
        /\ UNCHANGED <<PIN_IGNORED, CONNECTED>>
     \/ /\ line = "pin" /\ PIN_IGNORED' = TRUE
        /\ Then(t, IF PIN_IGNORED THEN "idle" ELSE "Ready")
        /\ UNCHANGED <<START_FAILED, CONNECTED>>
     \/ /\ line = "teardown" /\ CONNECTED' = FALSE
        /\ Then(t, IF CONNECTED THEN "Ready" ELSE "idle")
        /\ UNCHANGED <<START_FAILED, PIN_IGNORED>>
     \/ /\ line = "connect" /\ CONNECTED' = TRUE
        /\ Then(t, IF CONNECTED THEN "idle" ELSE "Connected")
        /\ UNCHANGED <<START_FAILED, PIN_IGNORED>>
  /\ UNCHANGED <<inner, teardown, stopped, visible, statusQ>>

LogSend(t) ==
  /\ log[t] # "idle"
  /\ statusQ' = Append(statusQ, log[t])
  /\ Then(t, "idle")
  /\ UNCHANGED <<inner, teardown, core, stopped, visible, flags, lines>>

CallbackSteps == \E t \in LogThreads : LogSend(t)

(* Startup is over: mDNS is registered and clients can connect.            *)
CoreServes ==
  /\ core = "starting"
  /\ core' = "serving"
  /\ UNCHANGED <<inner, teardown, stopped, visible, flags, statusQ, log, lines>>

Background ==
  \/ TeardownThread \/ CallbackSteps \/ CoreServes
  \/ \E t \in LogThreads, line \in Lines : LogSwap(t, line)
=============================================================================
