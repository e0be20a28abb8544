----------------------------- MODULE ReceiverMac -----------------------------
(***************************************************************************)
(* The macOS app: the event loop of app/src/main.rs, whose handlers run    *)
(* the engine's calls to completion on the main thread, and EngineMac.     *)
(* Status events and EngineStopped come through a bridge thread each, so   *)
(* nothing orders them.                                                    *)
(***************************************************************************)
EXTENDS EngineMac

CONSTANT MaxEvents   \* bound: clicks, saves and closed windows per behaviour

ASSUME TrayAssumption == MaxEvents \in Nat

VARIABLES
  task,            \* "quit": in wait_bounded; "fail": between the two halves
                   \* of a failed start's handler
  current_status,
  shown,           \* what the menu and the icon were last built from
  ENGINE_FAILED,
  clicks,          \* menu events not handled yet, with an id still in use
  config,          \* version of config.json
  cfg,             \* the tray's copy of it
  saves,           \* ConfigChanged events not handled yet
  \* observations
  intent,          \* the configuration last asked for, 0 after a stop
  late,            \* wait_bounded gave up
  events           \* counter behind MaxEvents

tray == <<task, current_status, shown, ENGINE_FAILED, clicks, config, cfg, saves, intent, late, events>>
vars == <<engineVars, tray>>

Items == {"start_stop", "restart", "quit"}

TypeOK ==
  /\ EngineTypeOK
  /\ task \in {"launch", "idle", "fail", "quit", "exited"}
  /\ current_status \in Statuses
  /\ shown \in [icon : Statuses, status : Statuses, running : BOOLEAN,
                warns : {"no", "failed", "pin"}]
  /\ ENGINE_FAILED \in BOOLEAN /\ late \in BOOLEAN
  /\ clicks \in Seq(Items)
  /\ config \in Configs /\ cfg \in Configs
  /\ saves \in Nat /\ intent \in Nat /\ events \in Nat

Init ==
  /\ EngineInit
  /\ task = "launch"
  /\ current_status = "Off"
  /\ shown = [icon |-> "Off", status |-> "Off", running |-> FALSE, warns |-> "no"]
  /\ ENGINE_FAILED = FALSE
  /\ clicks = <<>> /\ config = 1 /\ cfg = 1 /\ saves = 0
  /\ intent = 0 /\ late = FALSE /\ events = 0

----------------------------------------------------------------------------
(* The event loop.                                                         *)

(* build_menu of the state a handler leaves, and the icon beside it.       *)
Menu(running, pin, status, failed, icon) ==
  [icon |-> icon, status |-> status, running |-> running,
   warns |-> IF ~running /\ failed THEN "failed" ELSE IF running /\ pin THEN "pin" ELSE "no"]

(* Rebuilding gives every item a new id: clicks still queued are lost.     *)
Rebuild(icon) ==
  /\ shown' = Menu(inner'.running, PIN_IGNORED', current_status', ENGINE_FAILED', icon)
  /\ clicks' = <<>>

StatusOfRunning == IF inner'.running THEN "Ready" ELSE "Off"

report_engine_start(result) == ENGINE_FAILED' = (result = "err")

(* StartCause::Init: attach_window, then the optional autostart.           *)
Launched ==
  /\ task = "launch"
  /\ \/ /\ "window" \in Failures
        /\ report_engine_start("err")
        /\ UNCHANGED <<engineVars, intent>>
     \/ attach_window /\ UNCHANGED <<ENGINE_FAILED, intent>>
     \/ \E result \in {"ok", "err"} :
          /\ start([inner EXCEPT !.window = TRUE], cfg, result)
          /\ report_engine_start(result)
          /\ intent' = cfg
  /\ current_status' = StatusOfRunning
  /\ Rebuild(current_status')
  /\ task' = "idle"
  /\ UNCHANGED <<config, cfg, saves, late, events>>

(* StatusChanged.  An Off that START_FAILED goes with is a failed start.   *)
OnStatus ==
  /\ task = "idle"
  /\ statusQ # <<>>
  /\ statusQ' = Tail(statusQ)
  /\ UNCHANGED <<inner, teardown, core, stopped, CONNECTED, PIN_IGNORED, log, lines,
                 ENGINE_FAILED, config, cfg, saves, intent, late, events>>
  /\ LET s == Head(statusQ) IN
       \/ /\ s = "Off" /\ START_FAILED
          /\ START_FAILED' = FALSE
          /\ task' = "fail"
          /\ UNCHANGED <<visible, current_status, shown, clicks>>
       \/ /\ ~(s = "Off" /\ START_FAILED)
          /\ current_status' = s
          /\ set_mirror_visible(s = "Connected")
          /\ Rebuild(s)
          /\ UNCHANGED <<START_FAILED, task>>

(* engine.stop(), the report, and the rest of the handler, which hides the *)
(* window whatever stop() has done with it.                                *)
FailureReported ==
  /\ task = "fail"
  /\ Lifecycle(inner, 0) /\ UNCHANGED stopped
  /\ set_mirror_visible(FALSE)
  /\ report_engine_start("err")
  /\ current_status' = "Off"
  /\ Rebuild("Off")
  /\ task' = "idle"
  /\ UNCHANGED <<config, cfg, saves, intent, late, events>>

(* Mutant: the handler of EngineStopped leaves the menu alone.             *)
OnEngineStoppedUnshown ==
  /\ task = "idle"
  /\ on_engine_stopped
  /\ current_status' = StatusOfRunning
  /\ UNCHANGED <<task, shown, ENGINE_FAILED, clicks, config, cfg, saves, intent, late, events>>

OnEngineStopped ==
  /\ task = "idle"
  /\ on_engine_stopped
  /\ current_status' = StatusOfRunning
  /\ UNCHANGED <<task, ENGINE_FAILED, config, cfg, saves, intent, late, events>>
  /\ Rebuild(current_status')

OnStop ==
  /\ inner.running
  /\ begin(inner, 0) /\ UNCHANGED stopped
  /\ intent' = 0
  /\ current_status' = "Off"
  /\ UNCHANGED <<task, ENGINE_FAILED, cfg>>
  /\ Rebuild("Off")

OnStart ==
  /\ ~inner.running
  /\ cfg' = config /\ intent' = config
  /\ \E result \in {"ok", "err"} :
       /\ start(inner, config, result)
       /\ current_status' = IF result = "ok" THEN "Ready" ELSE current_status
       /\ report_engine_start(result)
  /\ Rebuild(current_status')
  /\ UNCHANGED task

(* restart() answers Ok whatever becomes of it; no rebuild.                *)
OnRestart ==
  /\ cfg' = config /\ intent' = config
  /\ begin(inner, config) /\ UNCHANGED stopped
  /\ report_engine_start("ok")
  /\ current_status' = StatusOfRunning
  /\ clicks' = Tail(clicks)
  /\ UNCHANGED <<task, shown>>

OnQuit ==
  /\ stop_blocking
  /\ task' = "quit" /\ intent' = 0
  /\ clicks' = Tail(clicks)
  /\ UNCHANGED <<current_status, shown, ENGINE_FAILED, cfg>>

OnClick ==
  /\ task = "idle"
  /\ clicks # <<>>
  /\ \/ Head(clicks) = "start_stop" /\ (OnStop \/ OnStart)
     \/ Head(clicks) = "restart" /\ OnRestart
     \/ Head(clicks) = "quit" /\ OnQuit
  /\ UNCHANGED <<config, saves, late, events>>

(* Mutant: the wait has no end of its own.                                 *)
ExitedUnbounded ==
  /\ task = "quit" /\ TornDown
  /\ stop_blocking_done
  /\ task' = "exited"
  /\ UNCHANGED <<current_status, shown, ENGINE_FAILED, clicks, config, cfg, saves, intent, late,
                 events>>

(* wait_bounded is over, either because the engine is down or after 3 s.   *)
Exited ==
  /\ task = "quit"
  /\ \/ TornDown /\ UNCHANGED late
     \/ ~TornDown /\ late' = TRUE
  /\ stop_blocking_done
  /\ task' = "exited"
  /\ UNCHANGED <<current_status, shown, ENGINE_FAILED, clicks, config, cfg, saves, intent,
                 events>>

(* ConfigChanged: a restart if a setting that needs one has changed and    *)
(* the engine runs.                                                        *)
OnConfig ==
  /\ task = "idle"
  /\ saves > 0
  /\ saves' = saves - 1
  /\ cfg' = config
  /\ UNCHANGED <<task, current_status, config, late, events>>
  /\ \/ /\ cfg # config /\ inner.running
        /\ begin(inner, config) /\ UNCHANGED stopped
        /\ report_engine_start("ok")
        /\ intent' = config
     \/ /\ cfg = config \/ ~inner.running
        /\ UNCHANGED <<engineVars, ENGINE_FAILED, intent>>
  /\ Rebuild(shown.icon)

EventLoop ==
  \/ Launched \/ OnStatus \/ FailureReported \/ OnEngineStopped \/ OnClick \/ Exited
  \/ OnConfig

----------------------------------------------------------------------------
(* The user.                                                               *)

Click(item) ==
  /\ task \in {"idle", "fail"}
  /\ events < MaxEvents
  /\ item = "restart" => shown.running
  /\ clicks' = Append(clicks, item)
  /\ events' = events + 1
  /\ UNCHANGED <<engineVars, task, current_status, shown, ENGINE_FAILED, config, cfg, saves,
                 intent, late>>

(* The file is written, with or without a change that needs a restart; the *)
(* watcher tells the tray.                                                 *)
Save ==
  /\ events < MaxEvents
  /\ config' \in {config, config + 1}
  /\ saves' = saves + 1
  /\ events' = events + 1
  /\ UNCHANGED <<engineVars, task, current_status, shown, ENGINE_FAILED, clicks, cfg, intent,
                 late>>

(* The X of the mirror window: the engine is restarted in place.           *)
CloseRequested ==
  /\ task = "idle" /\ visible
  /\ events < MaxEvents
  /\ begin(inner, cfg) /\ UNCHANGED stopped
  /\ report_engine_start("ok")
  /\ intent' = cfg
  /\ current_status' = StatusOfRunning
  /\ Rebuild(current_status')
  /\ events' = events + 1
  /\ UNCHANGED <<task, config, cfg, saves, late>>

User == Save \/ CloseRequested \/ \E item \in Items : Click(item)

(* process::exit takes every thread with it.                               *)
Next ==
  /\ task # "exited"
  /\ \/ EventLoop
     \/ Background /\ UNCHANGED tray
     \/ User

Spec == Init /\ [][Next]_vars

(* The main thread and the callbacks run on; whether ap.stop() returns is  *)
(* left open, quitting must not depend on it.                              *)
Fairness ==
  /\ WF_vars(EventLoop)
  /\ WF_vars(task # "exited" /\ CallbackSteps /\ UNCHANGED tray)

FairSpec == Spec /\ Fairness
TeardownFairness == SF_vars(task # "exited" /\ TeardownThread /\ UNCHANGED tray)

----------------------------------------------------------------------------
(* Properties *)

(* Nothing is under way: no event, teardown or callback in flight.         *)
Settled ==
  /\ task = "idle"
  /\ statusQ = <<>> /\ stopped = 0 /\ clicks = <<>> /\ saves = 0
  /\ teardown = "none" /\ \A t \in LogThreads : log[t] = "idle"

(* "Latest intent wins": once settled the engine runs with what was asked  *)
(* for last, or not at all; a start that failed instead is on record.      *)
LatestIntentWins ==
  Settled => inner.airplay = intent \/ (inner.airplay = 0 /\ ENGINE_FAILED)

(* is_running() answers for the future during a teardown; once settled it  *)
(* is the truth, and no request or transition is left over.                *)
RunningIsTrue ==
  Settled => /\ inner.running <=> inner.airplay # 0
             /\ ~inner.transitioning /\ inner.queued = <<>> /\ inner.next_cfg = 0

(* The menu ends up what build_menu would make of the state.               *)
MenuSettles ==
  Settled => shown = Menu(inner.running, PIN_IGNORED, current_status, ENGINE_FAILED,
                          current_status)

(* Quit waits for the engine "so the AirPlay ports are released cleanly",  *)
(* also when a teardown was under way already, unless the time is up.      *)
QuitIsClean == task = "exited" /\ ~late => core = "off" /\ teardown = "none"

(* A quit ends the process even if the core never stops.                   *)
QuitExits == task = "quit" ~> task = "exited"

(* If ap.stop() returns, every stop and restart comes to an end.           *)
TransitionsEnd ==
  TeardownFairness => (inner.transitioning ~> (~inner.transitioning \/ task = "exited"))

(* The core is driven within its contract: it is started only when its     *)
(* last teardown is over, and stopped by one thread at a time.             *)
Contract == INSTANCE CoreContract WITH
  up <- core # "off",
  alive <- core \in {"starting", "serving"} \/ \E t \in LogThreads : log[t] # "idle",
  stopping <- teardown \in {"stopping", "last"}

KeepsContract == Contract!Safety

(* "Off when the engine is stopped, Ready while it advertises with no      *)
(* device": once settled, the tray's Off and the engine's agree.           *)
StatusSettles ==
  Settled => (current_status = "Off" <=> inner.airplay = 0)

(* "Show the mirror window while a device streams, hide it otherwise":     *)
(* there is no window without an engine.                                   *)
MirrorHidden == Settled /\ inner.airplay = 0 => ~visible

(* "When the user edits/saves it, reload + restart": an engine that runs   *)
(* once settled runs with config.json as it is.                            *)
ConfigApplied == Settled => inner.airplay \in {0, config}
=============================================================================
