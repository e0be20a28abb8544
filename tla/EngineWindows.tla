--------------------------- MODULE EngineWindows ---------------------------
(***************************************************************************)
(* The Windows engine (app/src/engine.rs): the Engine handle the tray      *)
(* thread calls, the host-window worker each start() spawns, the window's  *)
(* message queue, and the log callback UxPlay runs on its own threads.     *)
(*                                                                         *)
(* A run is one worker thread.  Its number names the window it creates, so *)
(* an HWND is the number of the run that owns the window, 0 for none.      *)
(***************************************************************************)
EXTENDS Naturals, Sequences

CONSTANTS LogThreads,   \* the UxPlay threads that log
          Failures,     \* the ways a start may fail: see FailureKinds
          MaxLines,     \* bound: log lines per behaviour
          MaxCalls      \* bound: calls made by the stand-alone caller

(* "spawn": no thread; "window": GetModuleHandle or CreateWindowEx;        *)
(* "dll": AirPlay::load; "setup": a setter or ap.start() returns an error; *)
(* "fatal": the engine logs a fatal line after ap.start() succeeded.       *)
FailureKinds == {"spawn", "window", "dll", "setup", "fatal"}

ASSUME ConstantsAssumption ==
    /\ LogThreads # {}
    /\ Failures \subseteq FailureKinds
    /\ MaxLines \in Nat
    /\ MaxCalls \in Nat

VARIABLES
  \* shared with the tray
  running,        \* Engine.running
  call,           \* what the tray thread is doing inside the Engine
  restarting,     \* the stop in progress is the first half of restart()
  result,         \* what the last start() or restart() returned
  statusQ,        \* the status channel and its bridge thread: one FIFO
  START_FAILED,   \* status::START_FAILED
  PIN_IGNORED,    \* status::PIN_IGNORED
  \* the engine's own
  stop_req, hwnd, CB_HWND, CONNECTED,
  run,            \* number of the newest worker
  worker,         \* live workers: run number -> where its thread is
  win,            \* the run whose window exists, 0 for none
  msgs, quit,     \* that window's posted messages; PostQuitMessage was called
  visible,        \* that window is shown
  core,           \* uxplay-core, as far as the callbacks can tell
  log,            \* what each UxPlay thread is doing inside engine_log_cb
  \* observations
  device,         \* a device is mirroring, by the engine's own last line
  failed,         \* the newest run that failed to start
  lines, calls    \* counters behind MaxLines and MaxCalls

tray == <<running, call, restarting, result, statusQ, START_FAILED, PIN_IGNORED>>
flags == <<START_FAILED, PIN_IGNORED, failed>>
window == <<win, msgs, quit, visible>>
threads == <<run, worker>>
caller == <<call, restarting, result>>
vars == <<running, caller, statusQ, flags, stop_req, hwnd, CB_HWND, CONNECTED,
          threads, window, core, log, device, lines, calls>>

Statuses == {"Off", "Ready", "Connected"}
Calls == {"none", "request", "post", "join", "claim", "spawn"}
WorkerAt == {"spawned", "created", "prepared", "announce_ok", "announce_err",
             "pump", "unhook", "clear", "stopping", "destroy", "closing"}
Messages == {"CLOSE", "CONNECTED", "DISCONNECTED"}
Lines == {"fatal", "pin", "connect", "teardown"}
Outputs == Statuses \cup {"post CONNECTED", "post DISCONNECTED"}
Idle == [at |-> "idle"]
Gated(line, h) == [at |-> "gated", line |-> line, hwnd |-> h]
Sending(out, h) == [at |-> "send", out |-> out, hwnd |-> h]
LogStates == {Idle} \cup [at : {"gated"}, line : Lines, hwnd : Nat]
                    \cup [at : {"send"}, out : Outputs, hwnd : Nat]

TypeFlags ==
  {running, restarting, START_FAILED, PIN_IGNORED, stop_req, CONNECTED, quit, visible, device}
    \subseteq BOOLEAN

TypeOK ==
  /\ TypeFlags
  /\ call \in Calls /\ result \in {"ok", "err"}
  /\ statusQ \in Seq(Statuses)
  /\ hwnd \in Nat /\ CB_HWND \in Nat /\ win \in Nat /\ run \in Nat /\ failed \in Nat
  /\ DOMAIN worker \subseteq 1..run /\ worker \in [DOMAIN worker -> WorkerAt]
  /\ msgs \in Seq(Messages)
  /\ core \in {"off", "starting", "serving", "failed"}
  /\ log \in [LogThreads -> LogStates]
  /\ lines \in Nat /\ calls \in Nat

EngineInit ==
  /\ running = FALSE /\ restarting = FALSE /\ result = "ok"
  /\ statusQ = <<>> /\ START_FAILED = FALSE /\ PIN_IGNORED = FALSE /\ failed = 0
  /\ stop_req = FALSE /\ hwnd = 0 /\ CB_HWND = 0 /\ CONNECTED = FALSE
  /\ run = 0 /\ worker = <<>>
  /\ win = 0 /\ msgs = <<>> /\ quit = FALSE /\ visible = FALSE
  /\ core = "off" /\ log = [t \in LogThreads |-> Idle] /\ device = FALSE
  /\ lines = 0 /\ calls = 0

Init == EngineInit /\ call = "none"

----------------------------------------------------------------------------
(* The Engine handle, on the tray thread.  Each call is a few steps with   *)
(* other threads running in between; call = "none" once it has returned.   *)

BeginStop == call' = "request" /\ restarting' = FALSE
BeginStart == call' = "claim" /\ restarting' = FALSE
BeginRestart == call' = "request" /\ restarting' = TRUE

Post(h, m) == IF h # 0 /\ h = win THEN msgs' = Append(msgs, m) ELSE UNCHANGED msgs

(* Mutant: stop() never raises stop_req.                                   *)
StopRequestWithoutFlag ==
  /\ call = "request"
  /\ call' = "post"
  /\ UNCHANGED <<running, restarting, result, statusQ, flags, stop_req, hwnd, CB_HWND,
                 CONNECTED, threads, window, core, log, device, lines, calls>>

StopRequest ==
  /\ call = "request"
  /\ stop_req' = TRUE
  /\ call' = "post"
  /\ UNCHANGED <<running, restarting, result, statusQ, flags, hwnd, CB_HWND, CONNECTED,
                 threads, window, core, log, device, lines, calls>>

StopPost ==
  /\ call = "post"
  /\ Post(hwnd, "CLOSE")
  /\ call' = "join"
  /\ UNCHANGED <<running, restarting, result, statusQ, flags, stop_req, hwnd, CB_HWND,
                 CONNECTED, threads, win, quit, visible, core, log, device, lines, calls>>

StopJoin ==
  /\ call = "join"
  /\ DOMAIN worker = {}
  /\ running' = FALSE
  /\ call' = IF restarting THEN "claim" ELSE "none"
  /\ restarting' = FALSE
  /\ UNCHANGED <<result, statusQ, flags, stop_req, hwnd, CB_HWND, CONNECTED,
                 threads, window, core, log, device, lines, calls>>

StartClaim ==
  /\ call = "claim"
  /\ running' = TRUE
  /\ IF running THEN call' = "none" /\ result' = "ok"
                ELSE call' = "spawn" /\ UNCHANGED result
  /\ UNCHANGED <<restarting, statusQ, flags, stop_req, hwnd, CB_HWND, CONNECTED,
                 threads, window, core, log, device, lines, calls>>

(* Mutant: start() spawns without joining the previous worker.             *)
StartSpawnWithoutJoin ==
  /\ call = "spawn"
  /\ stop_req' = FALSE
  /\ run' = run + 1
  /\ worker' = [r \in DOMAIN worker \cup {run'} |->
                   IF r = run' THEN "spawned" ELSE worker[r]]
  /\ result' = "ok"
  /\ call' = "none"
  /\ UNCHANGED <<running, restarting, statusQ, flags, hwnd, CB_HWND, CONNECTED,
                 window, core, log, device, lines, calls>>

StartSpawn ==
  /\ call = "spawn"
  /\ DOMAIN worker = {}
  /\ stop_req' = FALSE
  /\ \/ /\ run' = run + 1
        /\ worker' = [r \in DOMAIN worker \cup {run'} |->
                        IF r = run' THEN "spawned" ELSE worker[r]]
        /\ result' = "ok"
        /\ UNCHANGED running
     \/ /\ "spawn" \in Failures
        /\ running' = FALSE /\ result' = "err"
        /\ UNCHANGED threads
  /\ call' = "none"
  /\ UNCHANGED <<restarting, statusQ, flags, hwnd, CB_HWND, CONNECTED,
                 window, core, log, device, lines, calls>>

TrayThread == StopRequest \/ StopPost \/ StopJoin \/ StartClaim \/ StartSpawn

----------------------------------------------------------------------------
(* The worker: run_host_window.                                            *)

At(r, pc) == r \in DOMAIN worker /\ worker[r] = pc
Goto(r, pc) == worker' = [worker EXCEPT ![r] = pc]
Exit(r) == worker' = [q \in DOMAIN worker \ {r} |-> worker[q]]
Send(s) == statusQ' = Append(statusQ, s)

NoWindow(r) ==
  /\ At(r, "spawned")
  /\ "window" \in Failures
  /\ running' = FALSE
  /\ failed' = r
  /\ Exit(r)
  /\ UNCHANGED <<caller, statusQ, START_FAILED, PIN_IGNORED, stop_req, hwnd, CB_HWND, CONNECTED, run,
                 window, core, log, device, lines, calls>>

CreateWindow(r) ==
  /\ At(r, "spawned")
  /\ win' = r /\ msgs' = <<>> /\ quit' = FALSE /\ visible' = FALSE
  /\ hwnd' = r
  /\ CB_HWND' = r
  /\ Goto(r, "created")
  /\ UNCHANGED <<running, caller, statusQ, flags, stop_req, CONNECTED, run,
                 core, log, device, lines, calls>>

DestroyWindow == win' = 0 /\ msgs' = <<>> /\ quit' = FALSE /\ visible' = FALSE

StandDown(r) ==
  /\ At(r, "created")
  /\ stop_req
  /\ CB_HWND' = 0 /\ hwnd' = 0
  /\ DestroyWindow
  /\ running' = FALSE
  /\ Exit(r)
  /\ UNCHANGED <<caller, statusQ, flags, stop_req, CONNECTED, run,
                 core, log, device, lines, calls>>

(* Mutant: the last run's CONNECTED is kept.                               *)
PrepareRunKeepsConnected(r) ==
  /\ At(r, "created")
  /\ ~stop_req
  /\ START_FAILED' = FALSE /\ PIN_IGNORED' = FALSE
  /\ Goto(r, "prepared")
  /\ UNCHANGED <<running, caller, statusQ, failed, stop_req, hwnd, CB_HWND, CONNECTED, run,
                 window, core, log, device, lines, calls>>

PrepareRun(r) ==
  /\ At(r, "created")
  /\ ~stop_req
  /\ CONNECTED' = FALSE
  /\ START_FAILED' = FALSE /\ PIN_IGNORED' = FALSE   \* reset_run_flags()
  /\ Goto(r, "prepared")
  /\ UNCHANGED <<running, caller, statusQ, failed, stop_req, hwnd, CB_HWND, run,
                 window, core, log, device, lines, calls>>

(* Mutant: a failed load leaves the running slot claimed.                  *)
LoadFailsClaimed(r) ==
  /\ At(r, "prepared")
  /\ "dll" \in Failures
  /\ hwnd' = 0
  /\ failed' = r
  /\ DestroyWindow
  /\ Exit(r)
  /\ UNCHANGED <<running, caller, statusQ, START_FAILED, PIN_IGNORED, stop_req, CB_HWND,
                 CONNECTED, run, core, log, device, lines, calls>>

(* The thread ends without destroying its window; Windows does that.       *)
LoadFails(r) ==
  /\ At(r, "prepared")
  /\ "dll" \in Failures
  /\ hwnd' = 0
  /\ running' = FALSE
  /\ failed' = r
  /\ DestroyWindow
  /\ Exit(r)
  /\ UNCHANGED <<caller, statusQ, START_FAILED, PIN_IGNORED, stop_req, CB_HWND, CONNECTED, run,
                 core, log, device, lines, calls>>

SetupEngine(r) ==
  /\ At(r, "prepared")
  /\ \/ /\ core' = "starting" /\ Goto(r, "announce_ok")
        /\ UNCHANGED flags
     \/ /\ "setup" \in Failures
        /\ START_FAILED' = TRUE /\ failed' = r
        /\ Goto(r, "announce_err")
        /\ UNCHANGED <<PIN_IGNORED, core>>
  /\ UNCHANGED <<running, caller, statusQ, stop_req, hwnd, CB_HWND, CONNECTED, run,
                 window, log, device, lines, calls>>

Announce(r) ==
  /\ At(r, "announce_ok") \/ At(r, "announce_err")
  /\ running' = TRUE
  /\ Send(IF At(r, "announce_ok") THEN "Ready" ELSE "Off")
  /\ Goto(r, "pump")
  /\ UNCHANGED <<caller, flags, stop_req, hwnd, CB_HWND, CONNECTED, run,
                 window, core, log, device, lines, calls>>

PumpMessage(r) ==
  /\ At(r, "pump")
  /\ msgs # <<>>
  /\ msgs' = Tail(msgs)
  /\ \/ /\ Head(msgs) = "CONNECTED"
        /\ visible' = TRUE /\ Send("Connected") /\ UNCHANGED quit
     \/ /\ Head(msgs) = "DISCONNECTED"
        /\ visible' = FALSE /\ Send("Ready") /\ UNCHANGED quit
     \/ /\ Head(msgs) = "CLOSE"
        /\ quit' = TRUE /\ UNCHANGED <<visible, statusQ>>
  /\ UNCHANGED <<running, caller, flags, stop_req, hwnd, CB_HWND, CONNECTED, threads,
                 win, core, log, device, lines, calls>>

(* Mutant: the watchdog tests CONNECTED the wrong way round.               *)
HideTimerInverted(r) ==
  /\ At(r, "pump")
  /\ msgs = <<>> /\ ~quit
  /\ CONNECTED /\ visible
  /\ visible' = FALSE
  /\ UNCHANGED <<running, caller, statusQ, flags, stop_req, hwnd, CB_HWND, CONNECTED,
                 threads, win, msgs, quit, core, log, device, lines, calls>>

(* GetMessage yields WM_TIMER only when nothing is posted.                 *)
HideTimer(r) ==
  /\ At(r, "pump")
  /\ msgs = <<>> /\ ~quit
  /\ ~CONNECTED /\ visible
  /\ visible' = FALSE
  /\ UNCHANGED <<running, caller, statusQ, flags, stop_req, hwnd, CB_HWND, CONNECTED,
                 threads, win, msgs, quit, core, log, device, lines, calls>>

(* Mutant: WM_CLOSE reaches DefWindowProc, which destroys the window.      *)
PumpExitDestroys(r) ==
  /\ At(r, "pump")
  /\ quit /\ msgs = <<>>
  /\ DestroyWindow
  /\ Goto(r, "unhook")
  /\ UNCHANGED <<running, caller, statusQ, flags, stop_req, hwnd, CB_HWND, CONNECTED,
                 run, core, log, device, lines, calls>>

(* GetMessage returns WM_QUIT once no posted message is left.              *)
PumpExit(r) ==
  /\ At(r, "pump")
  /\ quit /\ msgs = <<>>
  /\ Goto(r, "unhook")
  /\ UNCHANGED <<running, caller, statusQ, flags, stop_req, hwnd, CB_HWND, CONNECTED,
                 run, window, core, log, device, lines, calls>>

Unhook(r) ==
  /\ At(r, "unhook")
  /\ CB_HWND' = 0
  /\ Goto(r, "clear")
  /\ UNCHANGED <<running, caller, statusQ, flags, stop_req, hwnd, CONNECTED, run,
                 window, core, log, device, lines, calls>>

ClearConnected(r) ==
  /\ At(r, "clear")
  /\ CONNECTED' = FALSE
  /\ Goto(r, "stopping")
  /\ UNCHANGED <<running, caller, statusQ, flags, stop_req, hwnd, CB_HWND, run,
                 window, core, log, device, lines, calls>>

(* Mutant: ap.stop() returns while engine threads still run.               *)
StopCoreUnjoined(r) ==
  /\ At(r, "stopping")
  /\ core' = "off" /\ device' = FALSE
  /\ Goto(r, "destroy")
  /\ UNCHANGED <<running, caller, statusQ, flags, stop_req, hwnd, CB_HWND, CONNECTED,
                 run, window, log, lines, calls>>

(* ap.stop() joins the engine, whose threads have then left the callback.  *)
StopCore(r) ==
  /\ At(r, "stopping")
  /\ \A t \in LogThreads : log[t] = Idle
  /\ core' = "off" /\ device' = FALSE
  /\ Goto(r, "destroy")
  /\ UNCHANGED <<running, caller, statusQ, flags, stop_req, hwnd, CB_HWND, CONNECTED,
                 run, window, log, lines, calls>>

Destroy(r) ==
  /\ At(r, "destroy")
  /\ DestroyWindow
  /\ running' = FALSE
  /\ Goto(r, "closing")
  /\ UNCHANGED <<caller, statusQ, flags, stop_req, hwnd, CB_HWND, CONNECTED, run,
                 core, log, device, lines, calls>>

ReportOff(r) ==
  /\ At(r, "closing")
  /\ hwnd' = 0
  /\ Send("Off")
  /\ Exit(r)
  /\ UNCHANGED <<running, caller, flags, stop_req, CB_HWND, CONNECTED, run,
                 window, core, log, device, lines, calls>>

Worker(r) ==
  \/ NoWindow(r) \/ CreateWindow(r) \/ StandDown(r) \/ PrepareRun(r)
  \/ LoadFails(r) \/ SetupEngine(r) \/ Announce(r)
  \/ PumpMessage(r) \/ HideTimer(r) \/ PumpExit(r)
  \/ Unhook(r) \/ ClearConnected(r) \/ StopCore(r) \/ Destroy(r) \/ ReportOff(r)

----------------------------------------------------------------------------
(* engine_log_cb, in three steps: the CB_HWND gate, the swap of a flag,    *)
(* and the status or window message the swap calls for.                    *)

Logs == IF core = "starting" THEN {"pin"} \cup ({"fatal"} \cap Failures)
        ELSE IF core = "serving" THEN {"connect", "teardown"} ELSE {}

(* UxPlay logs a line.  After a fatal one airplay_run_blocking returns.    *)
LogLine(t, line) ==
  /\ line \in Logs
  /\ lines < MaxLines
  /\ log[t] = Idle
  /\ lines' = lines + 1
  /\ core' = IF line = "fatal" THEN "failed" ELSE core
  /\ device' = IF line \in {"connect", "teardown"} THEN line = "connect" ELSE device
  /\ log' = IF CB_HWND = 0 THEN log
            ELSE [log EXCEPT ![t] = Gated(line, CB_HWND)]
  /\ UNCHANGED <<running, caller, statusQ, flags, stop_req, hwnd, CB_HWND, CONNECTED,
                 threads, window, calls>>

Finish(t, out) == log' = [log EXCEPT ![t] = Sending(out, log[t].hwnd)]

LogSwap(t) ==
  /\ log[t].at = "gated"
  /\ \/ /\ log[t].line = "fatal"
        /\ START_FAILED' = TRUE /\ failed' = run
        /\ Finish(t, "Off")
        /\ UNCHANGED <<PIN_IGNORED, CONNECTED>>
     \/ /\ log[t].line = "pin"
        /\ PIN_IGNORED' = TRUE
        /\ IF PIN_IGNORED THEN log' = [log EXCEPT ![t] = Idle] ELSE Finish(t, "Ready")
        /\ UNCHANGED <<START_FAILED, failed, CONNECTED>>
     \/ /\ log[t].line = "connect"
        /\ CONNECTED' = TRUE
        /\ IF CONNECTED THEN log' = [log EXCEPT ![t] = Idle] ELSE Finish(t, "post CONNECTED")
        /\ UNCHANGED flags
     \/ /\ log[t].line = "teardown"
        /\ CONNECTED' = FALSE
        /\ IF CONNECTED THEN Finish(t, "post DISCONNECTED") ELSE log' = [log EXCEPT ![t] = Idle]
        /\ UNCHANGED flags
  /\ UNCHANGED <<running, caller, statusQ, stop_req, hwnd, CB_HWND, threads, window,
                 core, device, lines, calls>>

(* Mutant: the window message is sent down the status channel.             *)
LogSendMisrouted(t) ==
  /\ log[t].at = "send"
  /\ Send(log[t].out)
  /\ log' = [log EXCEPT ![t] = Idle]
  /\ UNCHANGED <<running, caller, flags, stop_req, hwnd, CB_HWND, CONNECTED, threads,
                 window, core, device, lines, calls>>

LogSend(t) ==
  /\ log[t].at = "send"
  /\ \/ /\ log[t].out \in Statuses
        /\ Send(log[t].out) /\ UNCHANGED msgs
     \/ /\ log[t].out = "post CONNECTED"
        /\ Post(log[t].hwnd, "CONNECTED") /\ UNCHANGED statusQ
     \/ /\ log[t].out = "post DISCONNECTED"
        /\ Post(log[t].hwnd, "DISCONNECTED") /\ UNCHANGED statusQ
  /\ log' = [log EXCEPT ![t] = Idle]
  /\ UNCHANGED <<running, caller, flags, stop_req, hwnd, CB_HWND, CONNECTED, threads,
                 win, quit, visible, core, device, lines, calls>>

Callback(t) == LogSwap(t) \/ LogSend(t)

----------------------------------------------------------------------------
(* What the user, the video sink and UxPlay do on their own.               *)

(* Startup is over: mDNS is registered and clients can connect.            *)
CoreServes ==
  /\ core = "starting"
  /\ core' = "serving"
  /\ UNCHANGED <<running, caller, statusQ, flags, stop_req, hwnd, CB_HWND, CONNECTED,
                 threads, window, log, device, lines, calls>>

(* The sink shows the window again while it rebuilds its pipeline.         *)
SinkShows ==
  /\ core = "serving" /\ win # 0 /\ ~visible
  /\ visible' = TRUE
  /\ UNCHANGED <<running, caller, statusQ, flags, stop_req, hwnd, CB_HWND, CONNECTED,
                 threads, win, msgs, quit, core, log, device, lines, calls>>

(* The user closes the video window: WM_CLOSE, so PostQuitMessage.         *)
UserCloses(r) ==
  /\ At(r, "pump") /\ visible /\ ~quit
  /\ quit' = TRUE
  /\ UNCHANGED <<running, caller, statusQ, flags, stop_req, hwnd, CB_HWND, CONNECTED,
                 threads, win, msgs, visible, core, log, device, lines, calls>>

Environment ==
  \/ CoreServes \/ SinkShows
  \/ \E r \in DOMAIN worker : UserCloses(r)
  \/ \E t \in LogThreads, line \in Lines : LogLine(t, line)

EngineNext ==
  \/ TrayThread
  \/ \E r \in DOMAIN worker : Worker(r)
  \/ \E t \in LogThreads : Callback(t)
  \/ Environment

(* A stand-alone caller: one thread, any sequence of calls.                *)
Call ==
  /\ call = "none" /\ calls < MaxCalls
  /\ calls' = calls + 1
  /\ BeginStart \/ BeginStop \/ BeginRestart
  /\ UNCHANGED <<running, result, statusQ, flags, stop_req, hwnd, CB_HWND, CONNECTED,
                 threads, window, core, log, device, lines>>

(* The reader of the status channel.                                       *)
Receive ==
  /\ statusQ # <<>>
  /\ statusQ' = Tail(statusQ)
  /\ UNCHANGED <<running, caller, flags, stop_req, hwnd, CB_HWND, CONNECTED, threads,
                 window, core, log, device, lines, calls>>

Next == EngineNext \/ Call \/ Receive

Spec == Init /\ [][Next]_vars

(* Threads that are running keep running; users and devices owe nothing.   *)
WorkerSteps == \E r \in DOMAIN worker : Worker(r)

CallbackSteps == \E t \in LogThreads : Callback(t)

Fairness == WF_vars(TrayThread) /\ WF_vars(WorkerSteps) /\ WF_vars(CallbackSteps)

FairSpec == Spec /\ Fairness

----------------------------------------------------------------------------
(* Properties *)

(* start() claims the running slot and joins the previous worker, so two   *)
(* host-window threads never drive the one uxplay-core.                    *)
SingleEngine == \A r, q \in DOMAIN worker : r = q

(* stop() sets stop_req before it reads the HWND, the worker publishes its *)
(* HWND before it reads stop_req: once stop() joins, the worker is on its  *)
(* way out - it has not read the flag yet, has WM_CLOSE queued or          *)
(* dispatched, or has left its pump.                                       *)
ClosePosted == \E i \in 1..Len(msgs) : msgs[i] = "CLOSE"

Leaving(r) ==
  \/ worker[r] \in {"spawned", "created", "unhook", "clear", "stopping", "destroy", "closing"}
  \/ quit
  \/ ClosePosted

StopHandshake ==
  call = "join" => stop_req /\ \A r \in DOMAIN worker : Leaving(r)

(* "ORDER MATTERS": while uxplay-core can render, the window it renders    *)
(* into exists.                                                            *)
WindowOutlivesCore == core # "off" => win = run /\ win # 0

(* The running slot is released by every way a worker can end, and held   *)
(* until its window is gone: were it kept, the next Start would silently   *)
(* do nothing; were it freed early, Start would run a second engine.       *)
SlotMatchesWorker ==
  call = "none" => (running <=> \E r \in DOMAIN worker : worker[r] # "closing")

(* A callback that passed the gate posts to the live window: unhooking     *)
(* alone does not ensure it, joining the engine before DestroyWindow does. *)
PostsReachWindow ==
  \A t \in LogThreads : log[t] # Idle => log[t].hwnd = win /\ win # 0

(* The window outlives everyone who uses it: the video sink of the core    *)
(* and the callbacks of its threads.                                       *)
WindowOutlivesUsers == WindowOutlivesCore /\ PostsReachWindow

(* No stop() or start() of the tray thread waits for a worker forever.     *)
CallsReturn == call # "none" ~> call = "none"

(* The watchdog: a window shown while no device is connected is hidden     *)
(* again, whatever the sink did.                                           *)
IdleWindowHidden == (visible /\ ~CONNECTED) ~> (~visible \/ CONNECTED)

(* The worker drives uxplay-core within its contract: it never starts it   *)
(* twice, and the end of ap.stop() is the end of every callback.           *)
Contract == INSTANCE CoreContract WITH
  up <- core # "off",
  alive <- core \in {"starting", "serving"} \/ \E t \in LogThreads : log[t] # Idle,
  stopping <- \E r \in DOMAIN worker : worker[r] = "stopping"

KeepsContract == Contract!Spec
============================================================================
