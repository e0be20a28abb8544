--------------------------- MODULE ReceiverLinux ---------------------------
(***************************************************************************)
(* The Linux app: the tray's event loop driving the Linux engine.  The     *)
(* tray thread runs both the handlers (Tray) and the engine calls they     *)
(* make (EngineLinux!TrayThread); the status channel leads back.           *)
(***************************************************************************)
EXTENDS EngineLinux

CONSTANT MaxEvents    \* bound: clicks and config saves per behaviour

ASSUME MaxEventsAssumption == MaxEvents \in Nat

VARIABLES task, current_status, shown, ENGINE_FAILED, clicks, saves, events

App == INSTANCE Tray

engine == <<failed, stop_flag, ENGINE_ACTIVE, link, worker, window, core, log, lines, calls>>
trayOwn == <<task, current_status, shown, ENGINE_FAILED, clicks, saves, events>>
appVars == <<vars, trayOwn>>

(* autostart_on_app_launch decides whether the engine starts at once.      *)
AppInit ==
  /\ EngineInit
  /\ call \in {"none", "claim"}
  /\ App!Init

AppNext ==
  \/ App!Next /\ UNCHANGED engine
  \/ EngineNext /\ UNCHANGED trayOwn

AppSpec == AppInit /\ [][AppNext]_appVars

----------------------------------------------------------------------------
(* Properties *)

(* Nothing is under way: no event, call, log line or change the worker's   *)
(* loop has still to see.                                                  *)
Settled ==
  /\ task = "idle" /\ call = "none"
  /\ statusQ = <<>> /\ clicks = <<>> /\ saves = 0
  /\ \A t \in LogThreads : log[t] = Idle
  /\ worker = "none" \/ (worker = "poll" /\ ~stop_flag /\ ~delete /\ last_gen = CONN_GEN)

EngineStatus ==
  IF worker = "none" THEN "Off" ELSE IF CONNECTED THEN "Connected" ELSE "Ready"

(* Once everything in flight has arrived the tray shows the engine as it   *)
(* is, although only the log callback knows of a device, only the worker's *)
(* loop reports it, and the tray overwrites the status on its own account. *)
StatusSettles == Settled => current_status = EngineStatus

(* The same for the menu and the icon.                                     *)
MenuSettles ==
  Settled => shown = App!Menu(current_status, ENGINE_FAILED, current_status)

(* "map/unmap on connect/disconnect": the window is on screen exactly      *)
(* while the tray says Connected.                                          *)
Lockstep == Settled => (mapped <=> current_status = "Connected")

(* The three together: nothing the tray shows is left stale.               *)
Settles == StatusSettles /\ MenuSettles /\ Lockstep

(* "A stopped engine that stopped because it FAILED says so right here."   *)
FailureShown == Settled /\ worker = "none" /\ failed => shown.warns = "failed"
============================================================================
