-------------------------- MODULE ReceiverWindows --------------------------
(***************************************************************************)
(* The Windows app: the tray's event loop driving the Windows engine.  The *)
(* tray thread runs both the handlers (Tray) and the engine calls they     *)
(* make (EngineWindows!TrayThread); the status channel leads back.         *)
(***************************************************************************)
EXTENDS EngineWindows

CONSTANT MaxEvents    \* bound: clicks and config saves per behaviour

ASSUME MaxEventsAssumption == MaxEvents \in Nat

VARIABLES task, current_status, shown, ENGINE_FAILED, clicks, saves, events

App == INSTANCE Tray

engine == <<failed, stop_req, hwnd, CB_HWND, CONNECTED, threads, window, core, log,
            device, lines, calls>>
trayOwn == <<task, current_status, shown, ENGINE_FAILED, clicks, saves, events>>
appVars == <<vars, trayOwn>>

(* autostart_on_app_launch decides whether the engine starts at once.      *)
AppInit ==
  /\ EngineInit
  /\ call \in {"none", "claim"}
  /\ App!Init

AppNext ==
  \/ App!Next /\ UNCHANGED engine
  \/ EngineNext /\ UNCHANGED trayOwn

AppSpec == AppInit /\ [][AppNext]_appVars

TrayThreadSteps ==
  \/ App!EventLoop /\ UNCHANGED engine
  \/ TrayThread /\ UNCHANGED trayOwn

(* process::exit ends every thread once the tray has exited.               *)
AppFairness ==
  /\ WF_appVars(TrayThreadSteps)
  /\ WF_appVars(WorkerSteps /\ UNCHANGED trayOwn)
  /\ WF_appVars(CallbackSteps /\ UNCHANGED trayOwn)

FairAppSpec == AppSpec /\ AppFairness

----------------------------------------------------------------------------
(* Properties *)

(* Nothing is under way: no event, call, message or log line in flight.    *)
Settled ==
  /\ task = "idle" /\ call = "none"
  /\ statusQ = <<>> /\ clicks = <<>> /\ saves = 0
  /\ \A t \in LogThreads : log[t] = Idle
  /\ \A r \in DOMAIN worker : worker[r] = "pump" /\ msgs = <<>> /\ ~quit

EngineStatus ==
  IF DOMAIN worker = {} THEN "Off" ELSE IF device THEN "Connected" ELSE "Ready"

(* Once everything in flight has arrived, the tray shows the engine as it  *)
(* is: whatever order status events, clicks, restarts and self-closes of   *)
(* the window came in, none of them leaves a stale status behind.          *)
StatusSettles == Settled => current_status = EngineStatus

(* The same for the menu and the icon, which some handlers rebuild and     *)
(* some do not: both end up what build_menu would make of the state now.   *)
MenuSettles ==
  Settled => shown = App!Menu(current_status, ENGINE_FAILED, current_status)

(* "It shows/hides its own window in lockstep": once settled, the tray says *)
(* Connected only while the video window is on screen.                     *)
Lockstep == Settled /\ current_status = "Connected" => visible

(* The three together: nothing the tray shows is left stale.               *)
Settles == StatusSettles /\ MenuSettles /\ Lockstep

(* "A stopped engine that stopped because it FAILED says so right here."   *)
FailureShown ==
  Settled /\ DOMAIN worker = {} /\ failed = run /\ run > 0 => shown.warns = "failed"

(* The teardown of a failed start hits the run that failed: "a flag can    *)
(* never leak from the previous run into this one".                        *)
FailureStopsItsOwnRun ==
  [][task = "idle" /\ task' = "fail" => failed = run]_appVars

(* An engine that gave up during startup is always torn down, so that the  *)
(* next Start is not a silent no-op.                                       *)
FailedEngineTornDown == core = "failed" ~> core = "off"

(* Quit always gets the app out, whatever the engine is doing.             *)
QuitExits == task = "quit" ~> task = "exited"
============================================================================
