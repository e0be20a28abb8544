---------------------------- MODULE EngineLinux ----------------------------
(***************************************************************************)
(* The Linux engine (app/src/engine_linux.rs): the same handle as on       *)
(* Windows, but the worker has no message queue.  The log callback leaves  *)
(* a device's coming and going in two statics, CONNECTED and a generation  *)
(* counter, and the worker samples the counter once per turn of its loop.  *)
(***************************************************************************)
EXTENDS Naturals, Sequences

CONSTANTS LogThreads,   \* the UxPlay threads that log
          Failures,     \* the ways a start may fail: see FailureKinds
          MaxLines,     \* bound: log lines per behaviour
          MaxCalls      \* bound: calls made by the stand-alone caller

(* "spawn": no thread; "display": XOpenDisplay; "load": AirPlay::load;     *)
(* "setup": a setter or ap.start(); "fatal": a fatal line after a start.   *)
FailureKinds == {"spawn", "display", "load", "setup", "fatal"}

ASSUME ConstantsAssumption ==
    /\ LogThreads # {}
    /\ Failures \subseteq FailureKinds
    /\ MaxLines \in Nat
    /\ MaxCalls \in Nat

VARIABLES
  \* shared with the tray
  running, call, restarting, result, statusQ, START_FAILED, PIN_IGNORED,
  \* the engine's own
  stop_flag, ENGINE_ACTIVE, CONNECTED, CONN_GEN,
  worker,         \* where the host-window thread is, "none" when it has ended
  last_gen,       \* its copy of CONN_GEN
  mapped,         \* its window is on screen
  delete,         \* a WM_DELETE_WINDOW waits in its X connection
  display,        \* its X connection is open
  core,           \* uxplay-core: loaded, and started or not
  log,            \* what each UxPlay thread is doing inside engine_log_cb
  \* observations
  failed,         \* the newest run failed to start
  lines, calls    \* counters behind MaxLines and MaxCalls

tray == <<running, call, restarting, result, statusQ, START_FAILED, PIN_IGNORED>>
caller == <<call, restarting, result>>
flags == <<START_FAILED, PIN_IGNORED, failed>>
link == <<CONNECTED, CONN_GEN>>
window == <<last_gen, mapped, delete, display>>
vars == <<running, caller, statusQ, flags, stop_flag, ENGINE_ACTIVE, link,
          worker, window, core, log, lines, calls>>

Statuses == {"Off", "Ready", "Connected"}
Calls == {"none", "request", "join", "claim", "spawn"}
Polling == {"poll", "events", "sample", "react"}
Leaving == {"leave", "clear", "stopping", "drop", "close", "closing"}
WorkerAt == {"none", "spawned", "open", "prepared", "announce_ok", "announce_err"}
              \cup Polling \cup Leaving
Lines == {"fatal", "pin", "connect", "teardown"}
Idle == [at |-> "idle"]
Gated(line) == [at |-> "gated", line |-> line]
Sending(s) == [at |-> "send", status |-> s]
Bumping == [at |-> "bump"]
LogStates == {Idle, Bumping} \cup [at : {"gated"}, line : Lines]
                             \cup [at : {"send"}, status : Statuses]

TypeOK ==
  /\ running \in BOOLEAN /\ restarting \in BOOLEAN /\ START_FAILED \in BOOLEAN
  /\ PIN_IGNORED \in BOOLEAN /\ stop_flag \in BOOLEAN /\ ENGINE_ACTIVE \in BOOLEAN
  /\ CONNECTED \in BOOLEAN /\ mapped \in BOOLEAN /\ delete \in BOOLEAN
  /\ display \in BOOLEAN /\ failed \in BOOLEAN
  /\ call \in Calls /\ result \in {"ok", "err"}
  /\ statusQ \in Seq(Statuses)
  /\ CONN_GEN \in Nat /\ last_gen \in Nat
  /\ worker \in WorkerAt
  /\ core \in {"off", "loaded", "starting", "serving", "failed"}
  /\ log \in [LogThreads -> LogStates]
  /\ lines \in Nat /\ calls \in Nat

EngineInit ==
  /\ running = FALSE /\ restarting = FALSE /\ result = "ok"
  /\ statusQ = <<>> /\ START_FAILED = FALSE /\ PIN_IGNORED = FALSE /\ failed = FALSE
  /\ stop_flag = FALSE /\ ENGINE_ACTIVE = FALSE /\ CONNECTED = FALSE /\ CONN_GEN = 0
  /\ worker = "none" /\ last_gen = 0 /\ mapped = FALSE /\ delete = FALSE
  /\ display = FALSE /\ core = "off" /\ log = [t \in LogThreads |-> Idle]
  /\ lines = 0 /\ calls = 0

Init == EngineInit /\ call = "none"

----------------------------------------------------------------------------
(* The Engine handle, on the tray thread.                                  *)

BeginStop == call' = "request" /\ restarting' = FALSE
BeginStart == call' = "claim" /\ restarting' = FALSE
BeginRestart == call' = "request" /\ restarting' = TRUE

(* Mutant: stop() never raises stop_flag.                                  *)
StopRequestWithoutFlag ==
  /\ call = "request"
  /\ call' = "join"
  /\ UNCHANGED <<running, restarting, result, statusQ, flags, stop_flag, ENGINE_ACTIVE, link,
                 worker, window, core, log, lines, calls>>

StopRequest ==
  /\ call = "request"
  /\ stop_flag' = TRUE
  /\ call' = "join"
  /\ UNCHANGED <<running, restarting, result, statusQ, flags, ENGINE_ACTIVE, link,
                 worker, window, core, log, lines, calls>>

StopJoin ==
  /\ call = "join"
  /\ worker = "none"
  /\ running' = FALSE
  /\ call' = IF restarting THEN "claim" ELSE "none"
  /\ restarting' = FALSE
  /\ UNCHANGED <<result, statusQ, flags, stop_flag, ENGINE_ACTIVE, link,
                 worker, window, core, log, lines, calls>>

StartClaim ==
  /\ call = "claim"
  /\ running' = TRUE
  /\ IF running THEN call' = "none" /\ result' = "ok"
                ELSE call' = "spawn" /\ UNCHANGED result
  /\ UNCHANGED <<restarting, statusQ, flags, stop_flag, ENGINE_ACTIVE, link,
                 worker, window, core, log, lines, calls>>

StartSpawn ==
  /\ call = "spawn"
  /\ worker = "none"
  /\ stop_flag' = FALSE
  /\ \/ /\ worker' = "spawned" /\ failed' = FALSE
        /\ result' = "ok"
        /\ UNCHANGED running
     \/ /\ "spawn" \in Failures
        /\ running' = FALSE /\ result' = "err"
        /\ UNCHANGED <<worker, failed>>
  /\ call' = "none"
  /\ UNCHANGED <<restarting, statusQ, START_FAILED, PIN_IGNORED, ENGINE_ACTIVE, link,
                 window, core, log, lines, calls>>

TrayThread == StopRequest \/ StopJoin \/ StartClaim \/ StartSpawn

----------------------------------------------------------------------------
(* The worker: run_host_window, up to its loop.                            *)

Send(s) == statusQ' = Append(statusQ, s)

NoDisplay ==
  /\ worker = "spawned"
  /\ "display" \in Failures
  /\ running' = FALSE
  /\ failed' = TRUE
  /\ worker' = "none"
  /\ UNCHANGED <<caller, statusQ, START_FAILED, PIN_IGNORED, stop_flag, ENGINE_ACTIVE, link,
                 window, core, log, lines, calls>>

(* The window is created hidden and asks for WM_DELETE_WINDOW messages.    *)
OpenDisplay ==
  /\ worker = "spawned"
  /\ display' = TRUE /\ mapped' = FALSE /\ delete' = FALSE
  /\ worker' = "open"
  /\ UNCHANGED <<running, caller, statusQ, flags, stop_flag, ENGINE_ACTIVE, link, last_gen,
                 core, log, lines, calls>>

(* Mutant: the last run's CONNECTED is kept.                               *)
PrepareRunKeepsConnected ==
  /\ worker = "open"
  /\ START_FAILED' = FALSE /\ PIN_IGNORED' = FALSE
  /\ last_gen' = CONN_GEN
  /\ worker' = "prepared"
  /\ UNCHANGED <<running, caller, statusQ, failed, stop_flag, ENGINE_ACTIVE, link,
                 mapped, delete, display, core, log, lines, calls>>

PrepareRun ==
  /\ worker = "open"
  /\ CONNECTED' = FALSE
  /\ START_FAILED' = FALSE /\ PIN_IGNORED' = FALSE   \* reset_run_flags()
  /\ last_gen' = CONN_GEN
  /\ worker' = "prepared"
  /\ UNCHANGED <<running, caller, statusQ, failed, stop_flag, ENGINE_ACTIVE, CONN_GEN,
                 mapped, delete, display, core, log, lines, calls>>

CloseDisplay == display' = FALSE /\ mapped' = FALSE /\ delete' = FALSE

LoadFails ==
  /\ worker = "prepared"
  /\ "load" \in Failures
  /\ CloseDisplay
  /\ running' = FALSE
  /\ failed' = TRUE
  /\ worker' = "none"
  /\ UNCHANGED <<caller, statusQ, START_FAILED, PIN_IGNORED, stop_flag, ENGINE_ACTIVE, link,
                 last_gen, core, log, lines, calls>>

SetupEngine ==
  /\ worker = "prepared"
  /\ ENGINE_ACTIVE' = TRUE
  /\ \/ /\ core' = "starting" /\ worker' = "announce_ok"
        /\ UNCHANGED flags
     \/ /\ "setup" \in Failures
        /\ START_FAILED' = TRUE /\ failed' = TRUE
        /\ core' = "loaded" /\ worker' = "announce_err"
        /\ UNCHANGED PIN_IGNORED
  /\ UNCHANGED <<running, caller, statusQ, stop_flag, link, window, log, lines, calls>>

(* Mutant: the generation is sampled once the engine is up.                *)
AnnounceSamples ==
  /\ worker \in {"announce_ok", "announce_err"}
  /\ running' = TRUE
  /\ Send(IF worker = "announce_ok" THEN "Ready" ELSE "Off")
  /\ last_gen' = CONN_GEN
  /\ worker' = "poll"
  /\ UNCHANGED <<caller, flags, stop_flag, ENGINE_ACTIVE, link, mapped, delete, display,
                 core, log, lines, calls>>

Announce ==
  /\ worker \in {"announce_ok", "announce_err"}
  /\ running' = TRUE
  /\ Send(IF worker = "announce_ok" THEN "Ready" ELSE "Off")
  /\ worker' = "poll"
  /\ UNCHANGED <<caller, flags, stop_flag, ENGINE_ACTIVE, link, window, core, log, lines, calls>>

----------------------------------------------------------------------------
(* One turn of its loop: the stop flag, the X events, the generation and   *)
(* then CONNECTED, which may have changed since.                           *)

PollStop ==
  /\ worker = "poll"
  /\ worker' = IF stop_flag THEN "leave" ELSE "events"
  /\ UNCHANGED <<running, caller, statusQ, flags, stop_flag, ENGINE_ACTIVE, link,
                 window, core, log, lines, calls>>

DrainEvents ==
  /\ worker = "events"
  /\ stop_flag' = (stop_flag \/ delete)
  /\ delete' = FALSE
  /\ worker' = "sample"
  /\ UNCHANGED <<running, caller, statusQ, flags, ENGINE_ACTIVE, link,
                 last_gen, mapped, display, core, log, lines, calls>>

SampleGeneration ==
  /\ worker = "sample"
  /\ last_gen' = CONN_GEN
  /\ worker' = IF CONN_GEN # last_gen THEN "react" ELSE "poll"
  /\ UNCHANGED <<running, caller, statusQ, flags, stop_flag, ENGINE_ACTIVE, link,
                 mapped, delete, display, core, log, lines, calls>>

(* Mutant: the window is unmapped but the tray is not told.                *)
ReactMute ==
  /\ worker = "react"
  /\ mapped' = CONNECTED
  /\ IF CONNECTED /\ ~mapped THEN Send("Connected") ELSE UNCHANGED statusQ
  /\ worker' = "poll"
  /\ UNCHANGED <<running, caller, flags, stop_flag, ENGINE_ACTIVE, link,
                 last_gen, delete, display, core, log, lines, calls>>

React ==
  /\ worker = "react"
  /\ mapped' = CONNECTED
  /\ IF CONNECTED = mapped THEN UNCHANGED statusQ
     ELSE Send(IF CONNECTED THEN "Connected" ELSE "Ready")
  /\ worker' = "poll"
  /\ UNCHANGED <<running, caller, flags, stop_flag, ENGINE_ACTIVE, link,
                 last_gen, delete, display, core, log, lines, calls>>

Loop == PollStop \/ DrainEvents \/ SampleGeneration \/ React

----------------------------------------------------------------------------
(* The end of the worker.                                                  *)

CloseGate ==
  /\ worker = "leave"
  /\ ENGINE_ACTIVE' = FALSE
  /\ worker' = "clear"
  /\ UNCHANGED <<running, caller, statusQ, flags, stop_flag, link,
                 window, core, log, lines, calls>>

ClearConnected ==
  /\ worker = "clear"
  /\ CONNECTED' = FALSE
  /\ worker' = "stopping"
  /\ UNCHANGED <<running, caller, statusQ, flags, stop_flag, ENGINE_ACTIVE, CONN_GEN,
                 window, core, log, lines, calls>>

(* ap.stop() joins the engine, whose threads have then left the callback.  *)
StopCore ==
  /\ worker = "stopping"
  /\ \A t \in LogThreads : log[t] = Idle
  /\ core' = "loaded"
  /\ worker' = "drop"
  /\ UNCHANGED <<running, caller, statusQ, flags, stop_flag, ENGINE_ACTIVE, link,
                 window, log, lines, calls>>

DropCore ==
  /\ worker = "drop"
  /\ core' = "off"
  /\ worker' = "close"
  /\ UNCHANGED <<running, caller, statusQ, flags, stop_flag, ENGINE_ACTIVE, link,
                 window, log, lines, calls>>

Destroy ==
  /\ worker = "close"
  /\ CloseDisplay
  /\ running' = FALSE
  /\ worker' = "closing"
  /\ UNCHANGED <<caller, statusQ, flags, stop_flag, ENGINE_ACTIVE, link, last_gen,
                 core, log, lines, calls>>

ReportOff ==
  /\ worker = "closing"
  /\ Send("Off")
  /\ worker' = "none"
  /\ UNCHANGED <<running, caller, flags, stop_flag, ENGINE_ACTIVE, link,
                 window, core, log, lines, calls>>

Worker ==
  \/ NoDisplay \/ OpenDisplay \/ PrepareRun \/ LoadFails \/ SetupEngine \/ Announce
  \/ Loop
  \/ CloseGate \/ ClearConnected \/ StopCore \/ DropCore \/ Destroy \/ ReportOff

----------------------------------------------------------------------------
(* engine_log_cb: the ENGINE_ACTIVE gate, the swap of a flag, and then the *)
(* status, or the new generation, the swap calls for.                      *)

Logs == IF core = "starting" THEN {"pin"} \cup ({"fatal"} \cap Failures)
        ELSE IF core = "serving" THEN {"connect", "teardown"} ELSE {}

(* UxPlay logs a line.  After a fatal one airplay_run_blocking returns.    *)
LogLine(t, line) ==
  /\ line \in Logs
  /\ lines < MaxLines
  /\ log[t] = Idle
  /\ lines' = lines + 1
  /\ core' = IF line = "fatal" THEN "failed" ELSE core
  /\ log' = IF ENGINE_ACTIVE THEN [log EXCEPT ![t] = Gated(line)] ELSE log
  /\ UNCHANGED <<running, caller, statusQ, flags, stop_flag, ENGINE_ACTIVE, link,
                 worker, window, calls>>

Become(t, state) == log' = [log EXCEPT ![t] = state]

LogSwap(t) ==
  /\ log[t].at = "gated"
  /\ \/ /\ log[t].line = "fatal"
        /\ START_FAILED' = TRUE /\ failed' = TRUE
        /\ Become(t, Sending("Off"))
        /\ UNCHANGED <<PIN_IGNORED, CONNECTED>>
     \/ /\ log[t].line = "pin"
        /\ PIN_IGNORED' = TRUE
        /\ Become(t, IF PIN_IGNORED THEN Idle ELSE Sending("Ready"))
        /\ UNCHANGED <<START_FAILED, failed, CONNECTED>>
     \/ /\ log[t].line \in {"connect", "teardown"}
        /\ CONNECTED' = (log[t].line = "connect")
        /\ Become(t, IF CONNECTED = CONNECTED' THEN Idle ELSE Bumping)
        /\ UNCHANGED flags
  /\ UNCHANGED <<running, caller, statusQ, stop_flag, ENGINE_ACTIVE, CONN_GEN,
                 worker, window, core, lines, calls>>

LogSend(t) ==
  /\ log[t].at = "send"
  /\ Send(log[t].status)
  /\ Become(t, Idle)
  /\ UNCHANGED <<running, caller, flags, stop_flag, ENGINE_ACTIVE, link,
                 worker, window, core, lines, calls>>

LogBump(t) ==
  /\ log[t] = Bumping
  /\ CONN_GEN' = CONN_GEN + 1
  /\ Become(t, Idle)
  /\ UNCHANGED <<running, caller, statusQ, flags, stop_flag, ENGINE_ACTIVE, CONNECTED,
                 worker, window, core, lines, calls>>

Callback(t) == LogSwap(t) \/ LogSend(t) \/ LogBump(t)

----------------------------------------------------------------------------
(* What the user and UxPlay do on their own.                               *)

(* Startup is over: mDNS is registered and clients can connect.            *)
CoreServes ==
  /\ core = "starting"
  /\ core' = "serving"
  /\ UNCHANGED <<running, caller, statusQ, flags, stop_flag, ENGINE_ACTIVE, link,
                 worker, window, log, lines, calls>>

UserCloses ==
  /\ mapped /\ ~delete
  /\ delete' = TRUE
  /\ UNCHANGED <<running, caller, statusQ, flags, stop_flag, ENGINE_ACTIVE, link, worker,
                 last_gen, mapped, display, core, log, lines, calls>>

Environment ==
  \/ CoreServes \/ UserCloses
  \/ \E t \in LogThreads, line \in Lines : LogLine(t, line)

CallbackSteps == \E t \in LogThreads : Callback(t)

EngineNext == TrayThread \/ Worker \/ CallbackSteps \/ Environment

(* A stand-alone caller: one thread, any sequence of calls.                *)
Call ==
  /\ call = "none" /\ calls < MaxCalls
  /\ calls' = calls + 1
  /\ BeginStart \/ BeginStop \/ BeginRestart
  /\ UNCHANGED <<running, result, statusQ, flags, stop_flag, ENGINE_ACTIVE, link,
                 worker, window, core, log, lines>>

(* The reader of the status channel.                                       *)
Receive ==
  /\ statusQ # <<>>
  /\ statusQ' = Tail(statusQ)
  /\ UNCHANGED <<running, caller, flags, stop_flag, ENGINE_ACTIVE, link,
                 worker, window, core, log, lines, calls>>

Next == EngineNext \/ Call \/ Receive

Spec == Init /\ [][Next]_vars

(* Threads that are running keep running; users and devices owe nothing.   *)
Fairness == WF_vars(TrayThread) /\ WF_vars(Worker) /\ WF_vars(CallbackSteps)

FairSpec == Spec /\ Fairness

----------------------------------------------------------------------------
(* Properties *)

(* "ORDER MATTERS": the display is open for as long as the engine exists.  *)
DisplayOutlivesCore == core # "off" => display

(* What the gate is for: when a run starts, nothing of the last one is     *)
(* left in the statics its loop will read, and nothing of it is to come.   *)
FreshRun ==
  worker = "prepared" =>
    ~CONNECTED /\ last_gen = CONN_GEN /\ \A t \in LogThreads : log[t] = Idle

(* The generation never hides a change: when no callback is inside a swap  *)
(* and the loop has seen the newest generation, the window is on screen    *)
(* exactly while a device is connected, however many connects and          *)
(* disconnects fell between two samples.                                   *)
WindowFollowsConnection ==
  /\ worker \in {"poll", "events", "sample"} /\ CONN_GEN = last_gen
  /\ \A t \in LogThreads : log[t] # Bumping
  => mapped = CONNECTED

(* The running slot is released by every way a worker can end, and held    *)
(* until its display is closed.                                            *)
SlotMatchesWorker ==
  call = "none" => (running <=> worker \notin {"none", "closing"})

(* What holds of the engine at every step, whoever calls it.               *)
EngineInvariant ==
  TypeOK /\ DisplayOutlivesCore /\ FreshRun /\ WindowFollowsConnection /\ SlotMatchesWorker

(* No stop() or start() of the tray thread waits for the worker forever.   *)
CallsReturn == call # "none" ~> call = "none"

(* A change of CONNECTED reaches the window, or is undone, or the run ends. *)
ChangeReachesWindow ==
  (worker \in Polling /\ mapped # CONNECTED) ~> (worker \in Leaving \/ mapped = CONNECTED)
============================================================================
