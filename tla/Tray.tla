-------------------------------- MODULE Tray --------------------------------
(***************************************************************************)
(* The tray's event loop (app/src/main.rs) on Windows and Linux: one       *)
(* thread that handles status events, menu clicks and config changes, and  *)
(* runs Engine::start, stop and restart to completion inside a handler.    *)
(*                                                                         *)
(* A handler that calls the engine is two actions, the part before the     *)
(* call and the part after it has returned (call = "none").                *)
(***************************************************************************)
EXTENDS Naturals, Sequences

CONSTANT MaxEvents    \* bound: clicks and config saves per behaviour

VARIABLES
  \* shared with the engine
  running, call, restarting, result, statusQ, START_FAILED, PIN_IGNORED,
  \* the tray's own
  task,            \* the handler that is waiting for the engine
  current_status,
  shown,           \* what the menu and the icon were last built from
  ENGINE_FAILED,
  clicks,          \* menu events not handled yet, with an id still in use
  saves,           \* ConfigChanged events not handled yet
  events           \* counter behind MaxEvents

shared == <<running, call, restarting, result, statusQ, START_FAILED, PIN_IGNORED>>
own == <<task, current_status, shown, ENGINE_FAILED, clicks, saves, events>>
vars == <<shared, own>>

Statuses == {"Off", "Ready", "Connected"}
Items == {"start_stop", "restart", "quit"}
Tasks == {"launch", "idle", "stop", "start", "restart", "config", "fail", "quit", "exited"}

TypeOK ==
  /\ task \in Tasks
  /\ current_status \in Statuses
  /\ shown \in [icon : Statuses, status : Statuses, running : BOOLEAN,
                warns : {"no", "failed", "pin"}]
  /\ ENGINE_FAILED \in BOOLEAN
  /\ clicks \in Seq(Items)
  /\ saves \in Nat /\ events \in Nat

(* build_menu: what the menu says of the engine, and the icon beside it.   *)
Menu(status, failing, icon) ==
  [icon |-> icon, status |-> status, running |-> running,
   warns |-> IF ~running /\ failing THEN "failed"
             ELSE IF running /\ PIN_IGNORED THEN "pin" ELSE "no"]

(* Rebuilding gives every item a new id, so a click on the old menu that   *)
(* is still queued matches no branch of the handler: it is lost.           *)
Rebuild(status, failing, icon) ==
  /\ shown' = Menu(status, failing, icon)
  /\ clicks' = <<>>

Init ==
  /\ task = "launch"
  /\ current_status = "Off"
  /\ shown = [icon |-> "Off", status |-> "Off", running |-> FALSE, warns |-> "no"]
  /\ ENGINE_FAILED = FALSE
  /\ clicks = <<>> /\ saves = 0 /\ events = 0

Enter(t, c, again) ==
  /\ task' = t
  /\ call' = c
  /\ restarting' = again

Stop(t) == Enter(t, "request", FALSE)
Start(t) == Enter(t, "claim", FALSE)
Restart(t) == Enter(t, "request", TRUE)

Returned(t) == task = t /\ call = "none"
report_engine_start == ENGINE_FAILED' = (result = "err")

(* StartCause::Init, after the optional autostart.                         *)
Launched ==
  /\ Returned("launch")
  /\ report_engine_start
  /\ current_status' = IF running THEN "Ready" ELSE "Off"
  /\ Rebuild(current_status', ENGINE_FAILED', current_status')
  /\ task' = "idle"
  /\ UNCHANGED <<shared, saves, events>>

(* Mutant: an Off is never taken for a failed start.                       *)
OnStatusTrusting ==
  /\ Returned("idle")
  /\ statusQ # <<>>
  /\ statusQ' = Tail(statusQ)
  /\ current_status' = Head(statusQ)
  /\ Rebuild(current_status', ENGINE_FAILED, current_status')
  /\ UNCHANGED <<running, call, restarting, result, START_FAILED, PIN_IGNORED, task,
                 ENGINE_FAILED, saves, events>>

OnStatus ==
  /\ Returned("idle")
  /\ statusQ # <<>>
  /\ statusQ' = Tail(statusQ)
  /\ LET s == Head(statusQ) IN
       \/ /\ s = "Off" /\ START_FAILED
          /\ START_FAILED' = FALSE
          /\ Stop("fail")
          /\ UNCHANGED <<current_status, shown, clicks>>
       \/ /\ ~(s = "Off" /\ START_FAILED)
          /\ current_status' = s
          /\ Rebuild(s, ENGINE_FAILED, s)
          /\ UNCHANGED <<START_FAILED, call, restarting, task>>
  /\ UNCHANGED <<running, result, PIN_IGNORED, ENGINE_FAILED, saves, events>>

(* Mutant: the failure is not latched for the menu.                        *)
FailureForgotten ==
  /\ Returned("fail")
  /\ current_status' = "Off"
  /\ Rebuild("Off", ENGINE_FAILED, "Off")
  /\ task' = "idle"
  /\ UNCHANGED <<shared, ENGINE_FAILED, saves, events>>

FailureReported ==
  /\ Returned("fail")
  /\ ENGINE_FAILED' = TRUE
  /\ current_status' = "Off"
  /\ Rebuild("Off", TRUE, "Off")
  /\ task' = "idle"
  /\ UNCHANGED <<shared, saves, events>>

OnClick ==
  /\ Returned("idle")
  /\ clicks # <<>>
  /\ clicks' = Tail(clicks)
  /\ LET item == Head(clicks) IN
       \/ item = "start_stop" /\ running /\ Stop("stop")
       \/ item = "start_stop" /\ ~running /\ Start("start")
       \/ item = "restart" /\ Restart("restart")
       \/ item = "quit" /\ Stop("quit")
  /\ UNCHANGED <<running, result, statusQ, START_FAILED, PIN_IGNORED,
                 current_status, shown, ENGINE_FAILED, saves, events>>

Stopped ==
  /\ Returned("stop")
  /\ current_status' = "Off"
  /\ Rebuild("Off", ENGINE_FAILED, "Off")
  /\ task' = "idle"
  /\ UNCHANGED <<shared, ENGINE_FAILED, saves, events>>

Started ==
  /\ Returned("start")
  /\ current_status' = IF result = "ok" THEN "Ready" ELSE current_status
  /\ report_engine_start
  /\ Rebuild(current_status', ENGINE_FAILED', current_status')
  /\ task' = "idle"
  /\ UNCHANGED <<shared, saves, events>>

(* The Restart item neither rebuilds the menu nor sets the icon.           *)
Restarted ==
  /\ Returned("restart")
  /\ current_status' = IF running THEN "Ready" ELSE "Off"
  /\ report_engine_start
  /\ task' = "idle"
  /\ UNCHANGED <<shared, shown, clicks, saves, events>>

Exited ==
  /\ Returned("quit")
  /\ task' = "exited"
  /\ UNCHANGED <<shared, current_status, shown, ENGINE_FAILED, clicks, saves, events>>

(* A change that needs no restart, and any change while the engine is off, *)
(* only rebuilds the menu; a file that does not parse changes nothing.     *)
OnConfig ==
  /\ Returned("idle")
  /\ saves > 0
  /\ saves' = saves - 1
  /\ \/ /\ running
        /\ Restart("config")
        /\ UNCHANGED <<shown, clicks>>
     \/ /\ Rebuild(current_status, ENGINE_FAILED, shown.icon)
        /\ UNCHANGED <<task, call, restarting>>
     \/ UNCHANGED <<task, call, restarting, shown, clicks>>
  /\ UNCHANGED <<running, result, statusQ, START_FAILED, PIN_IGNORED,
                 current_status, ENGINE_FAILED, events>>

Reconfigured ==
  /\ Returned("config")
  /\ report_engine_start
  /\ Rebuild(current_status, ENGINE_FAILED', shown.icon)
  /\ task' = "idle"
  /\ UNCHANGED <<shared, current_status, saves, events>>

EventLoop ==
  \/ Launched \/ OnStatus \/ FailureReported \/ OnClick \/ Stopped \/ Started
  \/ Restarted \/ Exited \/ OnConfig \/ Reconfigured

(* The user clicks an item of the menu that is showing.                    *)
Click(item) ==
  /\ task \notin {"launch", "exited"}
  /\ events < MaxEvents
  /\ item = "restart" => shown.running
  /\ clicks' = Append(clicks, item)
  /\ events' = events + 1
  /\ UNCHANGED <<shared, task, current_status, shown, ENGINE_FAILED, saves>>

(* The watcher saw config.json change.                                     *)
Save ==
  /\ task # "exited"
  /\ events < MaxEvents
  /\ saves' = saves + 1
  /\ events' = events + 1
  /\ UNCHANGED <<shared, task, current_status, shown, ENGINE_FAILED, clicks>>

User == Save \/ \E item \in Items : Click(item)

Next == EventLoop \/ User
============================================================================
