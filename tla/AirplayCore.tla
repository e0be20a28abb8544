---------------------------- MODULE AirplayCore ----------------------------
(***************************************************************************)
(* uxplay-core behind its C ABI (uxplay-patches/airplay_core.cpp and the   *)
(* fork's uxplay.cpp in clean-full-vs-v1.73.6.diff): the host threads that *)
(* start and stop one core, and the worker that runs                       *)
(* airplay_run_blocking(), which runs a GMainLoop, rebuilds the video      *)
(* pipeline after a lost client and runs the next one.                     *)
(***************************************************************************)
EXTENDS Naturals

CONSTANTS MaxLoops,   \* bound: no client is lost after so many GMainLoops
          MaxStarts   \* bound: runs of the worker

ASSUME ConstantsAssumption == MaxLoops \in Nat /\ MaxStarts \in Nat

VARIABLES
  running,            \* airplay_core.running
  host,               \* where airplay_core_stop() is; the lifecycle mutex lets
                      \* in one host thread at a time, "idle" when it is free
  quitting,           \* the GMainLoop it read from gmainloop
  shutdown_requested,
  forward,            \* airplay_set_log_forward: a host callback is set
  worker,             \* where airplay_run_blocking() is
  use_video,          \* the option: FALSE for -vs 0
  relaunch_video, reset_loop,
  resetting,          \* a RAOP thread is half-way through conn_reset
  gmainloop,          \* the published GMainLoop, 0 for NULL
  loop,               \* the newest GMainLoop
  is_running,         \* g_main_loop_is_running(loop)
  starts              \* counter behind MaxStarts

vars == <<running, host, quitting, shutdown_requested, forward, worker, use_video,
          relaunch_video, reset_loop, resetting, gmainloop, loop, is_running, starts>>
control == <<running, host, quitting, forward, starts>>
glib == <<gmainloop, loop, is_running>>
flags == <<use_video, relaunch_video, reset_loop, resetting>>

WorkerAt == {"none", "spawned", "init", "top", "publish", "check", "run", "loop",
             "unpublish", "unref", "gate", "rebuild", "cleanup", "ended"}
StopAt == {"idle", "relaunch", "latch", "read", "quit", "join"}

TypeFlags ==
  {running, shutdown_requested, forward, use_video, relaunch_video, reset_loop, resetting,
   is_running} \subseteq BOOLEAN

TypeOK ==
  /\ TypeFlags
  /\ host \in StopAt
  /\ worker \in WorkerAt
  /\ quitting \in Nat /\ loop \in Nat /\ gmainloop \in {0, loop} /\ starts \in Nat

Init ==
  /\ running = FALSE /\ host = "idle" /\ quitting = 0
  /\ shutdown_requested = FALSE /\ forward = FALSE
  /\ worker = "none" /\ use_video = TRUE
  /\ relaunch_video = FALSE /\ reset_loop = FALSE /\ resetting = FALSE
  /\ gmainloop = 0 /\ loop = 0 /\ is_running = FALSE
  /\ starts = 0

----------------------------------------------------------------------------
(* The host.                                                               *)

(* Mutant: start() does not lower the latch of the last stop.              *)
StartLatched ==
  /\ host = "idle"
  /\ ~running
  /\ starts < MaxStarts
  /\ starts' = starts + 1
  /\ forward' = TRUE /\ running' = TRUE
  /\ worker' = "spawned"
  /\ UNCHANGED <<host, quitting, shutdown_requested, flags, glib>>

(* airplay_core_start: no worker runs and the mutex is held throughout, so *)
(* it is one step.  Started twice it returns -2.                           *)
Start ==
  /\ host = "idle"
  /\ ~running
  /\ starts < MaxStarts
  /\ starts' = starts + 1
  /\ forward' = TRUE
  /\ shutdown_requested' = FALSE
  /\ running' = TRUE
  /\ worker' = "spawned"
  /\ UNCHANGED <<host, quitting, flags, glib>>

StopBegin ==
  /\ host = "idle"
  /\ running
  /\ host' = "relaunch"
  /\ UNCHANGED <<running, quitting, forward, starts, shutdown_requested, worker, flags,
                 glib>>

(* airplay_request_shutdown, a statement at a time.                        *)
DropRelaunch ==
  /\ host = "relaunch"
  /\ relaunch_video' = FALSE
  /\ host' = "latch"
  /\ UNCHANGED <<running, quitting, forward, starts, shutdown_requested,
                 worker, use_video, reset_loop, resetting, glib>>

Latch ==
  /\ host = "latch"
  /\ shutdown_requested' = TRUE
  /\ host' = "read"
  /\ UNCHANGED <<running, quitting, forward, starts, worker, flags, glib>>

ReadLoop ==
  /\ host = "read"
  /\ quitting' = gmainloop
  /\ host' = IF gmainloop = 0 THEN "join" ELSE "quit"
  /\ UNCHANGED <<running, forward, starts, shutdown_requested, worker, flags,
                 glib>>

(* gmainloop is no atomic: the quit may use the value it tested or read it *)
(* again.  It only reaches the loop it names.                              *)
QuitLoop ==
  /\ host = "quit"
  /\ \E l \in {quitting, gmainloop} : is_running' = (is_running /\ l # loop)
  /\ host' = "join"
  /\ UNCHANGED <<running, quitting, forward, starts, shutdown_requested,
                 worker, flags, gmainloop, loop>>

(* Mutant: stop() returns without joining the worker.                      *)
JoinAtOnce ==
  /\ host = "join"
  /\ running' = FALSE /\ forward' = FALSE
  /\ host' = "idle" /\ quitting' = 0
  /\ UNCHANGED <<starts, shutdown_requested, worker, flags, glib>>

Join ==
  /\ host = "join"
  /\ worker = "ended"
  /\ worker' = "none"
  /\ running' = FALSE
  /\ forward' = FALSE
  /\ host' = "idle"
  /\ quitting' = 0
  /\ UNCHANGED <<starts, shutdown_requested, flags, glib>>

Stopping == DropRelaunch \/ Latch \/ ReadLoop \/ QuitLoop \/ Join

----------------------------------------------------------------------------
(* The worker.                                                             *)

Goto(from, to) == worker = from /\ worker' = to

(* Mutant: the worker clears the latch, not the host.                      *)
RunBlockingClears ==
  /\ Goto("spawned", "init")
  /\ use_video' \in BOOLEAN
  /\ shutdown_requested' = FALSE
  /\ UNCHANGED <<control, relaunch_video, reset_loop, resetting, glib>>

(* Entry: reset_options(), then the options are parsed.                    *)
RunBlocking ==
  /\ Goto("spawned", "init")
  /\ use_video' \in BOOLEAN
  /\ UNCHANGED <<control, shutdown_requested, relaunch_video, reset_loop, resetting, glib>>

(* GStreamer, DNS-SD and the RAOP server come up, or one of them fails and *)
(* airplay_run_blocking() returns 1.                                       *)
Initialise ==
  /\ worker = "init"
  /\ worker' \in {"top", "ended"}
  /\ UNCHANGED <<control, shutdown_requested, flags, glib>>

(* main_loop(): a new loop, the flags cleared, relaunch_video re-armed.    *)
NewLoop ==
  /\ Goto("top", "publish")
  /\ loop' = loop + 1
  /\ is_running' = FALSE
  /\ relaunch_video' = use_video
  /\ reset_loop' = FALSE
  /\ UNCHANGED <<control, shutdown_requested, use_video, resetting, gmainloop>>

Publish ==
  /\ Goto("publish", "check")
  /\ gmainloop' = loop
  /\ UNCHANGED <<control, shutdown_requested, flags, loop, is_running>>

CheckLatch ==
  /\ worker = "check"
  /\ IF shutdown_requested
     THEN worker' = "unpublish" /\ relaunch_video' = FALSE
     ELSE worker' = "run" /\ UNCHANGED relaunch_video
  /\ UNCHANGED <<control, shutdown_requested, use_video, reset_loop, resetting, glib>>

(* g_main_loop_run() sets is_running itself: an earlier quit is lost.      *)
RunLoop ==
  /\ Goto("run", "loop")
  /\ is_running' = TRUE
  /\ UNCHANGED <<control, shutdown_requested, flags, gmainloop, loop>>

(* Mutant: the tick looks at the latch only.                               *)
TickForgetsResets ==
  /\ worker = "loop" /\ is_running
  /\ shutdown_requested
  /\ is_running' = FALSE
  /\ UNCHANGED <<control, shutdown_requested, worker, flags, gmainloop, loop>>

(* The 100 ms tick inside the loop.                                        *)
reset_callback ==
  /\ worker = "loop" /\ is_running
  /\ reset_loop \/ shutdown_requested
  /\ is_running' = FALSE
  /\ UNCHANGED <<control, shutdown_requested, worker, flags, gmainloop, loop>>

LeaveLoop ==
  /\ ~is_running
  /\ Goto("loop", "unpublish")
  /\ UNCHANGED <<control, shutdown_requested, flags, glib>>

Unpublish ==
  /\ Goto("unpublish", "unref")
  /\ gmainloop' = 0
  /\ UNCHANGED <<control, shutdown_requested, flags, loop, is_running>>

(* g_main_loop_unref: the loop is gone.                                    *)
Unref ==
  /\ Goto("unref", "gate")
  /\ UNCHANGED <<control, shutdown_requested, flags, glib>>

ReconnectGate ==
  /\ worker = "gate"
  /\ worker' = IF relaunch_video /\ ~shutdown_requested THEN "rebuild" ELSE "cleanup"
  /\ UNCHANGED <<control, shutdown_requested, flags, glib>>

Rebuild ==
  /\ Goto("rebuild", "top")
  /\ UNCHANGED <<control, shutdown_requested, flags, glib>>

(* stop_raop_server() joins the RAOP threads.                              *)
Cleanup ==
  /\ ~resetting
  /\ Goto("cleanup", "ended")
  /\ UNCHANGED <<control, shutdown_requested, flags, glib>>

Worker ==
  \/ RunBlocking \/ Initialise \/ NewLoop \/ Publish \/ CheckLatch \/ RunLoop
  \/ reset_callback \/ LeaveLoop \/ Unpublish \/ Unref \/ ReconnectGate
  \/ Rebuild \/ Cleanup

----------------------------------------------------------------------------
(* Clients and GStreamer.                                                  *)

Serving == worker \in WorkerAt \ {"none", "spawned", "init", "cleanup", "ended"}

(* conn_reset and video_reset, on a RAOP thread: the client is lost.       *)
conn_reset ==
  /\ Serving
  /\ loop < MaxLoops
  /\ ~resetting /\ resetting' = TRUE
  /\ relaunch_video' = TRUE
  /\ UNCHANGED <<control, shutdown_requested, worker, use_video, reset_loop, glib>>

ArmReset ==
  /\ resetting /\ resetting' = FALSE
  /\ reset_loop' = TRUE
  /\ UNCHANGED <<control, shutdown_requested, worker, use_video, relaunch_video, glib>>

(* A callback of the loop quits it: feedback_callback after it re-armed    *)
(* relaunch_video, a bus watch on an error or an end of stream.            *)
BusQuits ==
  /\ worker = "loop" /\ is_running
  /\ loop < MaxLoops
  /\ is_running' = FALSE
  /\ relaunch_video' \in {relaunch_video, TRUE}
  /\ UNCHANGED <<control, shutdown_requested, worker, use_video, reset_loop, resetting,
                 gmainloop, loop>>

Next ==
  \/ Start \/ StopBegin
  \/ Stopping \/ Worker
  \/ conn_reset \/ ArmReset \/ BusQuits

Spec == Init /\ [][Next]_vars

(* Threads run on, the tick keeps ticking; hosts and clients owe nothing.  *)
Fairness == WF_vars(Stopping) /\ WF_vars(Worker) /\ WF_vars(ArmReset)

FairSpec == Spec /\ Fairness

----------------------------------------------------------------------------
(* Properties *)

(* "From now until the worker returns, a stop cannot be lost": wherever    *)
(* the request lands - before the worker is in, during startup, between    *)
(* two loops, between the check and the run - airplay_core_stop() joins.   *)
StopReturns == host # "idle" ~> host = "idle"

(* The latch is down whenever a run is wanted: no run inherits the stop of *)
(* the one before it, and an ordinary reconnect never trips it.            *)
LatchMeansStop ==
  shutdown_requested /\ worker # "none" => host \in {"read", "quit", "join"}

(* When stop() has returned nothing is left that could log to the host.    *)
QuietAfterStop == ~running => worker = "none" /\ ~forward /\ gmainloop = 0

(* A client lost while the loop runs gets its pipeline rebuilt, unless the *)
(* host is stopping: the receiver never ends by itself on a reconnect.     *)
Reconnects ==
  (worker = "loop" /\ reset_loop /\ relaunch_video) ~> (worker = "rebuild" \/ host # "idle")

(* The core keeps the contract the engines rely on.                        *)
Contract == INSTANCE CoreContract WITH
  up <- running,
  alive <- worker \notin {"none", "ended"},
  stopping <- host # "idle"

KeepsContract == Contract!Spec

(* "Quit the running GMainLoop": the loop stop() quits still exists.       *)
QuitsLiveLoop ==
  host = "quit" => /\ quitting = loop
                   /\ worker \in {"check", "run", "loop", "unpublish", "unref"}
=============================================================================
