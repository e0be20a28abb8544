----------------------------- MODULE UpdateFlow -----------------------------
(***************************************************************************)
(* The update flow of the tray off Windows (app/src/main.rs): check        *)
(* threads and install threads report to the event loop, which alone stops *)
(* the engine, relaunches and exits.  What an install thread does to the   *)
(* disk is UpdateMac or UpdateLinux.                                       *)
(***************************************************************************)
EXTENDS Naturals, Sequences

CONSTANTS Trays,        \* tray processes: off Windows nothing keeps it at one
          Installers,   \* install threads, of any tray
          MaxClicks     \* bound: clicks on "Check for updates"

ASSUME ConstantsAssumption ==
    /\ Trays # {} /\ Installers # {}
    /\ MaxClicks \in Nat

VARIABLES
  tray,         \* each tray process
  checks,       \* its check threads
  events,       \* the update events its event loop has not handled
  IN_FLIGHT,    \* its latch of that name
  thread,       \* where each install thread is, "idle" for none
  owner,        \* the tray it belongs to
  clicks        \* counter behind MaxClicks

flow == <<tray, checks, events, IN_FLIGHT, thread, owner, clicks>>

TrayStates == {"up", "quitting", "relaunching", "down"}
Events == {"available", "nothing", "installed", "failed"}

FlowTypeOK(places) ==
  /\ tray \in [Trays -> TrayStates]
  /\ checks \in [Trays -> Nat]
  /\ events \in [Trays -> Seq(Events)]
  /\ IN_FLIGHT \in [Trays -> BOOLEAN]
  /\ thread \in [Installers -> places \cup {"idle", "start", "ok", "err", "report ok", "report err"}]
  /\ owner \in [Installers -> Trays]
  /\ clicks \in Nat

FlowInit ==
  /\ tray = [p \in Trays |-> "up"]
  /\ checks = [p \in Trays |-> 0]
  /\ events = [p \in Trays |-> <<>>]
  /\ IN_FLIGHT = [p \in Trays |-> FALSE]
  /\ thread = [i \in Installers |-> "idle"]
  /\ owner \in [Installers -> Trays]
  /\ clicks = 0

Alive(p) == tray[p] # "down"
Post(p, event) == events' = [events EXCEPT ![p] = Append(@, event)]
Goto(i, place) == thread' = [thread EXCEPT ![i] = place]

(* The user clicks "Check for updates": one more check thread.             *)
Click(p) ==
  /\ tray[p] = "up"
  /\ clicks < MaxClicks
  /\ clicks' = clicks + 1
  /\ checks' = [checks EXCEPT ![p] = @ + 1]
  /\ UNCHANGED <<tray, events, IN_FLIGHT, thread, owner>>

(* check_for_update: a newer signed manifest, none, or a failure.          *)
Checked(p) ==
  /\ Alive(p) /\ checks[p] > 0
  /\ checks' = [checks EXCEPT ![p] = @ - 1]
  /\ Post(p, "available") \/ Post(p, "nothing")
  /\ UNCHANGED <<tray, IN_FLIGHT, thread, owner, clicks>>

(* Mutant: nothing looks at IN_FLIGHT.                                     *)
spawn_two(p) ==
  \E i \in Installers :
    /\ thread[i] = "idle"
    /\ IN_FLIGHT' = [IN_FLIGHT EXCEPT ![p] = TRUE]
    /\ Goto(i, "start")
    /\ owner' = [owner EXCEPT ![i] = p]

spawn_update_apply(p) ==
  IF IN_FLIGHT[p] THEN UNCHANGED <<IN_FLIGHT, thread, owner>>
  ELSE \E i \in Installers :
         /\ thread[i] = "idle"
         /\ IN_FLIGHT' = [IN_FLIGHT EXCEPT ![p] = TRUE]
         /\ Goto(i, "start")
         /\ owner' = [owner EXCEPT ![i] = p]

(* UpdateChecked and UpdateApplied.  "installed" stops the engine, spawns  *)
(* the shell that relaunches, and exits.                                   *)
Handle(p) ==
  /\ tray[p] = "up"
  /\ events[p] # <<>>
  /\ events' = [events EXCEPT ![p] = Tail(@)]
  /\ \/ /\ Head(events[p]) = "available"
        /\ spawn_update_apply(p)
        /\ UNCHANGED tray
     \/ /\ Head(events[p]) \in {"nothing", "failed"}
        /\ UNCHANGED <<tray, IN_FLIGHT, thread, owner>>
     \/ /\ Head(events[p]) = "installed"
        /\ tray' = [tray EXCEPT ![p] = "relaunching"]
        /\ UNCHANGED <<IN_FLIGHT, thread, owner>>
  /\ UNCHANGED <<checks, clicks>>

Quit(p) ==
  /\ tray[p] = "up"
  /\ tray' = [tray EXCEPT ![p] = "quitting"]
  /\ UNCHANGED <<checks, events, IN_FLIGHT, thread, owner, clicks>>

(* Mutant: the latch is freed after a success only.                        *)
ReleaseOnSuccess(i) ==
  /\ thread[i] \in {"ok", "err"}
  /\ IN_FLIGHT' = [IN_FLIGHT EXCEPT ![owner[i]] = (thread[i] = "err")]
  /\ Goto(i, IF thread[i] = "ok" THEN "report ok" ELSE "report err")
  /\ UNCHANGED <<tray, checks, events, owner, clicks>>

(* The install thread frees the latch, and then sends UpdateApplied.       *)
Release(i) ==
  /\ thread[i] \in {"ok", "err"}
  /\ IN_FLIGHT' = [IN_FLIGHT EXCEPT ![owner[i]] = FALSE]
  /\ Goto(i, IF thread[i] = "ok" THEN "report ok" ELSE "report err")
  /\ UNCHANGED <<tray, checks, events, owner, clicks>>

Report(i) ==
  /\ thread[i] \in {"report ok", "report err"}
  /\ Post(owner[i], IF thread[i] = "report ok" THEN "installed" ELSE "failed")
  /\ Goto(i, "idle")
  /\ UNCHANGED <<tray, checks, IN_FLIGHT, owner, clicks>>

(* process::exit, or a crash: the threads of the process end where they    *)
(* are; a tool one of them has started does not (UpdateLinux).  The        *)
(* statics of the next process are fresh.                                  *)
End(p) ==
  /\ tray' = [tray EXCEPT ![p] = "down"]
  /\ checks' = [checks EXCEPT ![p] = 0]
  /\ events' = [events EXCEPT ![p] = <<>>]
  /\ IN_FLIGHT' = [IN_FLIGHT EXCEPT ![p] = FALSE]
  /\ thread' = [i \in Installers |-> IF owner[i] = p THEN "idle" ELSE thread[i]]
  /\ UNCHANGED <<owner, clicks>>

Crash(p) == Alive(p) /\ End(p)
ExitQuit(p) == tray[p] = "quitting" /\ End(p)
ExitRelaunch(p) == tray[p] = "relaunching" /\ End(p)

(* The user, or the shell of relaunch_after_exit, starts the app.          *)
Launch(p) ==
  /\ tray[p] = "down"
  /\ tray' = [tray EXCEPT ![p] = "up"]
  /\ UNCHANGED <<checks, events, IN_FLIGHT, thread, owner, clicks>>

EventLoop(p) == Checked(p) \/ Handle(p) \/ ExitQuit(p) \/ ExitRelaunch(p)

----------------------------------------------------------------------------
(* Properties *)

Working(i) == thread[i] \notin {"idle", "report ok", "report err"}

(* "so: one at a time": never two installs of one process, which would     *)
(* download into the same staging directory and unzip over each other.     *)
OneInstall ==
  \A i, j \in Installers : Working(i) /\ Working(j) /\ owner[i] = owner[j] => i = j

(* The latch is held exactly while an install runs: a latch left behind    *)
(* would make every later update a silent no-op.                           *)
LatchMatchesInstall ==
  \A p \in Trays : IN_FLIGHT[p] <=> \E i \in Installers : Working(i) /\ owner[i] = p

(* "Only matters on the failure path - a success exits the process": once  *)
(* an install has succeeded, its process does not begin another.           *)
SuccessIsLast ==
  [][\A i, j \in Installers :
       thread[j] = "report ok" /\ thread[i] = "idle" /\ thread'[i] = "start"
         => owner'[i] # owner[j]]_flow
=============================================================================
