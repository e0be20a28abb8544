------------------------ MODULE ReceiverWindowsProofs ------------------------
(***************************************************************************)
(* Theorems about the Windows engine, by itself and driven by the tray,    *)
(* for any set of logging threads, any set of failures and any bounds      *)
(* except where a theorem names its hypotheses.                            *)
(***************************************************************************)
EXTENDS ReceiverWindows, TLAPS

----------------------------------------------------------------------------
(* The engine by itself, whoever calls it: EngineWindows.                  *)

(* The places of a worker whose window exists, and of one whose engine may *)
(* have been started.                                                      *)
Windowed == {"created", "prepared", "announce_ok", "announce_err", "pump",
             "unhook", "clear", "stopping", "destroy"}
Driving == {"announce_ok", "pump", "unhook", "clear", "stopping"}

WorkerIsNewest == DOMAIN worker \subseteq {run}

WindowFollowsWorker ==
  /\ DOMAIN worker = {} => win = 0 /\ hwnd = 0
  /\ \A r \in DOMAIN worker :
       /\ worker[r] = "spawned" => win = 0 /\ hwnd = 0
       /\ worker[r] \in Windowed => win = r /\ hwnd = r
       /\ worker[r] = "closing" => win = 0 /\ hwnd = r
       /\ worker[r] \in {"created", "prepared"} => CB_HWND = r

CoreFollowsWorker ==
  core # "off" => /\ run \in DOMAIN worker
                  /\ worker[run] \in Driving
                  /\ CB_HWND \in {0, run}

LogFollowsCore == \A t \in LogThreads : log[t] # Idle => core # "off" /\ log[t].hwnd = run

SlotHeld ==
  IF call = "spawn" THEN running /\ \A r \in DOMAIN worker : worker[r] = "closing"
  ELSE running <=> \E r \in DOMAIN worker : worker[r] # "closing"

StopAnnounced == call \in {"post", "join"} => stop_req

IInv ==
  /\ TypeOK
  /\ WorkerIsNewest
  /\ WindowFollowsWorker
  /\ CoreFollowsWorker
  /\ LogFollowsCore
  /\ SlotHeld
  /\ StopAnnounced
  /\ StopHandshake

----------------------------------------------------------------------------

(* The two queues and the table of workers stay in their types.            *)
LEMMA EmptyQueue == <<>> \in Seq(Messages) /\ <<>> \in Seq(Statuses)
  BY DEF Messages, Statuses

LEMMA PostType ==
  ASSUME TypeOK, NEW h, NEW m \in Messages, Post(h, m) PROVE msgs' \in Seq(Messages)
<1>1. msgs \in Seq(Messages) /\ Append(msgs, m) \in Seq(Messages)
  BY DEF TypeOK
<1> QED
  BY <1>1 DEF Post

LEMMA SendType ==
  ASSUME TypeOK, NEW s \in Statuses, Send(s) PROVE statusQ' \in Seq(Statuses)
  BY DEF TypeOK, Send

WorkerTable == DOMAIN worker \subseteq 1..run /\ worker \in [DOMAIN worker -> WorkerAt]

LEMMA GotoType ==
  ASSUME TypeOK, NEW r, NEW pc \in WorkerAt, Goto(r, pc), run' = run
  PROVE  WorkerTable'
<1> DEFINE D == DOMAIN worker
<1>1. worker \in [D -> WorkerAt]
  BY DEF TypeOK
<1> HIDE DEF D
<1>2. worker' \in [D -> WorkerAt]
  BY <1>1 DEF Goto
<1> QED
  BY <1>2 DEF D, TypeOK, WorkerTable

LEMMA ExitType ==
  ASSUME TypeOK, NEW r, Exit(r), run' = run
  PROVE  WorkerTable'
  BY DEF TypeOK, Exit, WorkerTable

LEMMA IdleType ==
  ASSUME TypeOK, NEW t \in LogThreads, log' = [log EXCEPT ![t] = Idle]
  PROVE  log' \in [LogThreads -> LogStates]
  BY DEF TypeOK, LogStates

LEMMA FinishType ==
  ASSUME TypeOK, NEW t \in LogThreads, log[t].at = "gated",
         NEW out \in Outputs, Finish(t, out)
  PROVE  log' \in [LogThreads -> LogStates]
<1>1. log[t].hwnd \in Nat
  BY DEF TypeOK, LogStates, Idle
<1> QED
  BY <1>1 DEF TypeOK, LogStates, Finish, Sending

(* The caller begins idle or, on autostart, with a start().                *)
EngineStart == EngineInit /\ call \in {"none", "claim"}

LEMMA TypeInit == EngineStart => TypeOK
<1> SUFFICES ASSUME EngineStart PROVE TypeOK
  OBVIOUS
<1>1. DOMAIN worker = {} /\ worker \in [{} -> WorkerAt]
  BY DEF EngineStart, EngineInit
<1>2. log \in [LogThreads -> LogStates]
  BY DEF EngineStart, EngineInit, LogStates
<1>3. statusQ \in Seq(Statuses) /\ msgs \in Seq(Messages)
  BY EmptyQueue DEF EngineStart, EngineInit
<1> QED
  BY <1>1, <1>2, <1>3 DEF EngineStart, EngineInit, TypeOK, TypeFlags, Calls

(* Flags stay flags. *)
LEMMA FlagsStep == TypeFlags /\ [Next]_vars => TypeFlags'
<1> SUFFICES ASSUME TypeFlags, [Next]_vars PROVE TypeFlags'
  OBVIOUS
<1> USE DEF TypeFlags, flags, window, threads, caller
<1>1. CASE TrayThread
  BY <1>1 DEF TrayThread, StopRequest, StopPost, StopJoin, StartClaim, StartSpawn
<1>2. ASSUME NEW r \in DOMAIN worker, Worker(r) PROVE TypeFlags'
  BY <1>2 DEF Worker, NoWindow, CreateWindow, StandDown, PrepareRun,
     LoadFails, SetupEngine, Announce, PumpMessage, HideTimer, PumpExit, Unhook, ClearConnected,
     StopCore, Destroy, ReportOff, DestroyWindow
<1>3. ASSUME NEW t \in LogThreads, Callback(t) PROVE TypeFlags'
  BY <1>3 DEF Callback, LogSwap, LogSend
<1>4. CASE Environment
  BY <1>4 DEF Environment, CoreServes, SinkShows, UserCloses, LogLine
<1>5. CASE Call \/ Receive
  BY <1>5 DEF Call, Receive, BeginStart, BeginStop, BeginRestart
<1>6. CASE UNCHANGED vars
  BY <1>6 DEF vars
<1> QED
  BY <1>1, <1>2, <1>3, <1>4, <1>5, <1>6 DEF Next, EngineNext

(* Each step keeps every variable in its type.                             *)
LEMMA TypeStep == TypeOK /\ [Next]_vars => TypeOK'
<1> SUFFICES ASSUME TypeOK, [Next]_vars PROVE TypeOK'
  OBVIOUS
<1>0. TypeFlags'
  BY FlagsStep DEF TypeOK
<1> USE <1>0 DEF TypeOK, Calls, flags, window, threads, caller
<1>1. CASE TrayThread
  <2>1. CASE StopRequest
    BY <2>1 DEF StopRequest
  <2>2. CASE StopPost
    <3>1. msgs' \in Seq(Messages)
      BY <2>2, PostType DEF StopPost, Messages
    <3> QED
      BY <2>2, <3>1 DEF StopPost
  <2>3. CASE StopJoin
    BY <2>3 DEF StopJoin
  <2>4. CASE StartClaim
    BY <2>4 DEF StartClaim
  <2>5. CASE StartSpawn
    <3>1. WorkerTable'
      <4>1. CASE UNCHANGED threads
        BY <4>1 DEF WorkerTable
      <4>2. ASSUME run' = run + 1,
                   worker' = [r \in DOMAIN worker \cup {run'} |->
                                IF r = run' THEN "spawned" ELSE worker[r]]
            PROVE  WorkerTable'
        <5>1. DOMAIN worker' = DOMAIN worker \cup {run'}
          BY <4>2
        <5>2. \A r \in DOMAIN worker' : worker'[r] \in WorkerAt
          BY <4>2, <5>1 DEF WorkerAt
        <5>3. DOMAIN worker' \subseteq 1..run'
          BY <4>2, <5>1
        <5>4. worker' \in [DOMAIN worker' -> WorkerAt]
          BY <4>2, <5>1, <5>2
        <5> QED
          BY <5>3, <5>4 DEF WorkerTable
      <4> QED
        BY <2>5, <4>1, <4>2 DEF StartSpawn
    <3> QED
      BY <2>5, <3>1 DEF StartSpawn, WorkerTable
  <2> QED
    BY <1>1, <2>1, <2>2, <2>3, <2>4, <2>5 DEF TrayThread
<1>2. ASSUME NEW r \in DOMAIN worker, Worker(r)
      PROVE  TypeOK'
    <2>1. CASE NoWindow(r)
    <3>1. WorkerTable'
      BY <2>1, ExitType DEF NoWindow
    <3> QED
      BY <2>1, <3>1 DEF NoWindow, WorkerTable
  <2>2. CASE CreateWindow(r)
    <3>1. WorkerTable'
      BY <2>2, GotoType DEF CreateWindow, WorkerAt
    <3>2. msgs' \in Seq(Messages)
      BY <2>2, EmptyQueue DEF CreateWindow
    <3> QED
      BY <2>2, <3>1, <3>2 DEF CreateWindow, WorkerTable
  <2>3. CASE StandDown(r)
    <3>1. WorkerTable'
      BY <2>3, ExitType DEF StandDown
    <3>2. msgs' \in Seq(Messages)
      BY <2>3, EmptyQueue DEF StandDown, DestroyWindow
    <3> QED
      BY <2>3, <3>1, <3>2 DEF StandDown, DestroyWindow, WorkerTable
  <2>4. CASE PrepareRun(r)
    <3>1. WorkerTable'
      BY <2>4, GotoType DEF PrepareRun, WorkerAt
    <3> QED
      BY <2>4, <3>1 DEF PrepareRun, WorkerTable
  <2>5. CASE LoadFails(r)
    <3>1. WorkerTable'
      BY <2>5, ExitType DEF LoadFails
    <3>2. msgs' \in Seq(Messages)
      BY <2>5, EmptyQueue DEF LoadFails, DestroyWindow
    <3> QED
      BY <2>5, <3>1, <3>2 DEF LoadFails, WorkerTable, DestroyWindow
  <2>6. CASE SetupEngine(r)
    <3>1. WorkerTable'
      BY <2>6, GotoType DEF SetupEngine, WorkerAt
    <3> QED
      BY <2>6, <3>1 DEF SetupEngine, WorkerTable
  <2>7. CASE Announce(r)
    <3>1. WorkerTable'
      BY <2>7, GotoType DEF Announce, WorkerAt
    <3>2. statusQ' \in Seq(Statuses)
      BY <2>7, SendType DEF Announce, Statuses
    <3> QED
      BY <2>7, <3>1, <3>2 DEF Announce, WorkerTable
  <2>8. CASE PumpMessage(r)
    <3>1. msgs' \in Seq(Messages)
      BY <2>8 DEF PumpMessage
    <3>2. statusQ' \in Seq(Statuses)
      BY <2>8, SendType DEF PumpMessage, Statuses
    <3> QED
      BY <2>8, <3>1, <3>2 DEF PumpMessage
  <2>9. CASE HideTimer(r)
    BY <2>9 DEF HideTimer
  <2>10. CASE PumpExit(r)
    <3>1. WorkerTable'
      BY <2>10, GotoType DEF PumpExit, WorkerAt
    <3> QED
      BY <2>10, <3>1 DEF PumpExit, WorkerTable
  <2>11. CASE Unhook(r)
    <3>1. WorkerTable'
      BY <2>11, GotoType DEF Unhook, WorkerAt
    <3> QED
      BY <2>11, <3>1 DEF Unhook, WorkerTable
  <2>12. CASE ClearConnected(r)
    <3>1. WorkerTable'
      BY <2>12, GotoType DEF ClearConnected, WorkerAt
    <3> QED
      BY <2>12, <3>1 DEF ClearConnected, WorkerTable
  <2>13. CASE StopCore(r)
    <3>1. WorkerTable'
      BY <2>13, GotoType DEF StopCore, WorkerAt
    <3> QED
      BY <2>13, <3>1 DEF StopCore, WorkerTable
  <2>14. CASE Destroy(r)
    <3>1. WorkerTable'
      BY <2>14, GotoType DEF Destroy, WorkerAt
    <3>2. msgs' \in Seq(Messages)
      BY <2>14, EmptyQueue DEF Destroy, DestroyWindow
    <3> QED
      BY <2>14, <3>1, <3>2 DEF Destroy, WorkerTable, DestroyWindow
  <2>15. CASE ReportOff(r)
    <3>1. WorkerTable'
      BY <2>15, ExitType DEF ReportOff
    <3>2. statusQ' \in Seq(Statuses)
      BY <2>15, SendType DEF ReportOff, Statuses
    <3> QED
      BY <2>15, <3>1, <3>2 DEF ReportOff, WorkerTable
  <2> QED
    BY <1>2, <2>1, <2>2, <2>3, <2>4, <2>5, <2>6, <2>7, <2>8, <2>9, <2>10, <2>11,
       <2>12, <2>13, <2>14, <2>15 DEF Worker
<1>3. ASSUME NEW t \in LogThreads, Callback(t)
      PROVE  TypeOK'
  <2>1. CASE LogSwap(t)
    <3>1. log' \in [LogThreads -> LogStates]
      BY <2>1, FinishType, IdleType DEF LogSwap, Outputs, Statuses
    <3> QED
      BY <2>1, <3>1 DEF LogSwap
  <2>2. CASE LogSend(t)
    <3>1. log' \in [LogThreads -> LogStates]
      BY <2>2, IdleType DEF LogSend
    <3>2. msgs' \in Seq(Messages)
      BY <2>2, PostType DEF LogSend, Messages
    <3>3. statusQ' \in Seq(Statuses)
      BY <2>2, SendType DEF LogSend
    <3> QED
      BY <2>2, <3>1, <3>2, <3>3 DEF LogSend
  <2> QED
    BY <1>3, <2>1, <2>2 DEF Callback
<1>4. CASE Environment
  <2>1. CASE CoreServes
    BY <2>1 DEF CoreServes
  <2>2. CASE SinkShows
    BY <2>2 DEF SinkShows
  <2>3. ASSUME NEW r \in DOMAIN worker, UserCloses(r) PROVE TypeOK'
    BY <2>3 DEF UserCloses
  <2>4. ASSUME NEW t \in LogThreads, NEW line \in Lines, LogLine(t, line) PROVE TypeOK'
    <3>1. log' \in [LogThreads -> LogStates]
      BY <2>4 DEF LogLine, Gated, LogStates
    <3> QED
      BY <2>4, <3>1 DEF LogLine
  <2> QED
    BY <1>4, <2>1, <2>2, <2>3, <2>4 DEF Environment
<1>5. CASE Call
  BY <1>5 DEF Call, BeginStart, BeginStop, BeginRestart
<1>6. CASE Receive
  BY <1>6 DEF Receive
<1>7. CASE UNCHANGED vars
  BY <1>7 DEF vars
<1> QED
  BY <1>1, <1>2, <1>3, <1>4, <1>5, <1>6, <1>7 DEF Next, EngineNext

(* Every variable keeps its type: thread places, flags, queues of statuses *)
(* and messages, and at most the runs started so far have a worker.        *)
THEOREM TypeCorrect == Spec => []TypeOK
<1>1. Init => TypeOK
  BY TypeInit DEF Init, EngineStart
<1> QED
  BY <1>1, TypeStep, PTL DEF Spec

----------------------------------------------------------------------------
(* With one worker, moving it or ending it decides the whole table.        *)
LEMMA GotoStep ==
  ASSUME TypeOK, WorkerIsNewest, NEW r \in DOMAIN worker, NEW pc, Goto(r, pc)
  PROVE  /\ r = run /\ run > 0
         /\ DOMAIN worker = {r}
         /\ DOMAIN worker' = {r} /\ worker'[r] = pc
<1>1. r = run /\ DOMAIN worker = {r}
  BY DEF WorkerIsNewest
<1> run > 0
  BY <1>1 DEF TypeOK
<1>2. DOMAIN worker' = DOMAIN worker /\ worker'[r] = pc
  BY DEF TypeOK, Goto
<1> QED
  BY <1>1, <1>2

LEMMA ExitStep ==
  ASSUME TypeOK, WorkerIsNewest, NEW r \in DOMAIN worker, Exit(r)
  PROVE  /\ r = run /\ run > 0
         /\ DOMAIN worker = {r}
         /\ DOMAIN worker' = {}
<1>1. r = run /\ DOMAIN worker = {r}
  BY DEF WorkerIsNewest
<1> run > 0
  BY <1>1 DEF TypeOK
<1>2. DOMAIN worker' = DOMAIN worker \ {r}
  BY DEF Exit
<1> QED
  BY <1>1, <1>2

(* No step adds a second worker: start() has joined the last one.          *)
LEMMA NewestStep == IInv /\ [Next]_vars => WorkerIsNewest'
<1> SUFFICES ASSUME IInv, [Next]_vars PROVE WorkerIsNewest'
  OBVIOUS
<1>0. TypeOK /\ WorkerIsNewest
  BY DEF IInv
<1> USE DEF WorkerIsNewest, threads
<1>1. CASE TrayThread
  <2>1. CASE StartSpawn
    BY <2>1 DEF StartSpawn
  <2> QED
    BY <1>0, <1>1, <2>1 DEF TrayThread, StopRequest, StopPost, StopJoin, StartClaim
<1>2. ASSUME NEW r \in DOMAIN worker, Worker(r) PROVE WorkerIsNewest'
  <2>1. run' = run /\ (UNCHANGED worker \/ Exit(r) \/ \E pc : Goto(r, pc))
    BY <1>2 DEF Worker, NoWindow, CreateWindow, StandDown, PrepareRun, LoadFails,
       SetupEngine, Announce, PumpMessage, HideTimer, PumpExit, Unhook, ClearConnected,
       StopCore, Destroy, ReportOff
  <2> QED
    BY <1>0, <2>1, ExitStep, GotoStep
<1>3. ASSUME NEW t \in LogThreads, Callback(t) PROVE WorkerIsNewest'
  BY <1>0, <1>3 DEF Callback, LogSwap, LogSend
<1>4. CASE Environment
  BY <1>0, <1>4 DEF Environment, CoreServes, SinkShows, UserCloses, LogLine
<1>5. CASE Call \/ Receive \/ UNCHANGED vars
  BY <1>0, <1>5 DEF Call, Receive, vars
<1> QED
  BY <1>1, <1>2, <1>3, <1>4, <1>5 DEF Next, EngineNext

(* A posted WM_CLOSE stays posted until it is dispatched.                  *)
LEMMA PostCloses ==
  ASSUME TypeOK, NEW h, NEW m \in Messages, Post(h, m)
  PROVE  /\ ClosePosted => ClosePosted'
         /\ m = "CLOSE" /\ h = win /\ win # 0 => ClosePosted'
<1>1. msgs \in Seq(Messages)
  BY DEF TypeOK
<1>2. CASE h # 0 /\ h = win
  <2>1. msgs' = Append(msgs, m)
    BY <1>2 DEF Post
  <2>2. Len(msgs') = Len(msgs) + 1 /\ msgs'[Len(msgs')] = m
    BY <1>1, <2>1
  <2>3. \A i \in 1..Len(msgs) : msgs'[i] = msgs[i]
    BY <1>1, <2>1
  <2>4. Len(msgs) \in Nat
    BY <1>1
  <2> QED
    BY <2>2, <2>3, <2>4 DEF ClosePosted
<1> QED
  BY <1>2 DEF Post, ClosePosted

LEMMA TailCloses ==
  ASSUME TypeOK, msgs # <<>>, msgs' = Tail(msgs), Head(msgs) # "CLOSE", ClosePosted
  PROVE  ClosePosted'
<1>1. msgs \in Seq(Messages)
  BY DEF TypeOK
<1>2. PICK i \in 1..Len(msgs) : msgs[i] = "CLOSE"
  BY DEF ClosePosted
<1>3. i # 1
  BY <1>1, <1>2
<1>4. i - 1 \in 1..Len(msgs') /\ msgs'[i - 1] = msgs[i]
  BY <1>1, <1>2, <1>3
<1> QED
  BY <1>2, <1>4 DEF ClosePosted

(* What the callback does to the state of the other threads: nothing.      *)
LEMMA IdleStep ==
  ASSUME TypeOK, NEW t \in LogThreads, NEW u \in LogThreads, log'[u] # Idle,
         log' = [log EXCEPT ![t] = Idle]
  PROVE  log'[u] = log[u]
  BY DEF TypeOK

LEMMA FinishStep ==
  ASSUME TypeOK, NEW t \in LogThreads, NEW u \in LogThreads, NEW out, Finish(t, out)
  PROVE  log'[u] = log[u] \/ (u = t /\ log'[u].hwnd = log[u].hwnd)
  BY DEF TypeOK, Finish, Sending

(* start() ends with one fresh worker or with none.                        *)
LEMMA SpawnStep ==
  ASSUME TypeOK, StartSpawn
  PROVE  \/ /\ run' = run + 1 /\ running' = running
            /\ DOMAIN worker' = {run'} /\ worker'[run'] = "spawned"
         \/ running' = FALSE /\ UNCHANGED threads
<1>1. ASSUME run' = run + 1,
             worker' = [r \in DOMAIN worker \cup {run'} |->
                          IF r = run' THEN "spawned" ELSE worker[r]]
      PROVE  DOMAIN worker' = {run'} /\ worker'[run'] = "spawned"
  <2>1. DOMAIN worker = {}
    BY DEF StartSpawn
  <2>2. worker'[run'] = "spawned"
    BY <1>1
  <2>3. DOMAIN worker' = DOMAIN worker \cup {run'}
    BY <1>1
  <2> QED
    BY <2>1, <2>2, <2>3
<1> QED
  BY <1>1 DEF StartSpawn

(* The window and the published HWND follow the worker.                    *)
LEMMA WindowFollowsWorkerStep == IInv /\ [Next]_vars => WindowFollowsWorker'
<1> SUFFICES ASSUME IInv, [Next]_vars PROVE WindowFollowsWorker'
  OBVIOUS
<1>0. TypeOK /\ WorkerIsNewest /\ WindowFollowsWorker
  BY DEF IInv
<1> USE DEF WindowFollowsWorker, Windowed, threads, window, caller
<1>1. CASE TrayThread
  <2>1. CASE StartSpawn
    BY <1>0, <2>1 DEF StartSpawn
  <2> QED
    BY <1>0, <1>1, <2>1 DEF TrayThread, StopRequest, StopPost, StopJoin, StartClaim
<1>2. ASSUME NEW r \in DOMAIN worker, Worker(r) PROVE WindowFollowsWorker'
  <2>1. CASE NoWindow(r)
    BY <1>0, <2>1, ExitStep DEF NoWindow, At
  <2>2. CASE CreateWindow(r)
    <3>1. DOMAIN worker' = {r} /\ worker'[r] = "created"
      BY <1>0, <2>2, GotoStep DEF CreateWindow
    <3> QED
      BY <1>0, <2>2, <3>1 DEF CreateWindow, At
  <2>3. CASE StandDown(r)
    BY <1>0, <2>3, ExitStep DEF StandDown, At, DestroyWindow
  <2>4. CASE PrepareRun(r)
    <3>1. DOMAIN worker' = {r} /\ worker'[r] = "prepared"
      BY <1>0, <2>4, GotoStep DEF PrepareRun
    <3> QED
      BY <1>0, <2>4, <3>1 DEF PrepareRun, At
  <2>5. CASE LoadFails(r)
    BY <1>0, <2>5, ExitStep DEF LoadFails, At, DestroyWindow
  <2>6. CASE SetupEngine(r)
    <3>1. DOMAIN worker' = {r} /\ worker'[r] \in {"announce_ok", "announce_err"}
      BY <1>0, <2>6, GotoStep DEF SetupEngine
    <3> QED
      BY <1>0, <2>6, <3>1 DEF SetupEngine, At
  <2>7. CASE Announce(r)
    <3>1. DOMAIN worker' = {r} /\ worker'[r] = "pump"
      BY <1>0, <2>7, GotoStep DEF Announce
    <3> QED
      BY <1>0, <2>7, <3>1 DEF Announce, At
  <2>8. CASE PumpMessage(r)
    BY <1>0, <2>8 DEF PumpMessage, At
  <2>9. CASE HideTimer(r)
    BY <1>0, <2>9 DEF HideTimer, At
  <2>10. CASE PumpExit(r)
    <3>1. DOMAIN worker' = {r} /\ worker'[r] = "unhook"
      BY <1>0, <2>10, GotoStep DEF PumpExit
    <3> QED
      BY <1>0, <2>10, <3>1 DEF PumpExit, At
  <2>11. CASE Unhook(r)
    <3>1. DOMAIN worker' = {r} /\ worker'[r] = "clear"
      BY <1>0, <2>11, GotoStep DEF Unhook
    <3> QED
      BY <1>0, <2>11, <3>1 DEF Unhook, At
  <2>12. CASE ClearConnected(r)
    <3>1. DOMAIN worker' = {r} /\ worker'[r] = "stopping"
      BY <1>0, <2>12, GotoStep DEF ClearConnected
    <3> QED
      BY <1>0, <2>12, <3>1 DEF ClearConnected, At
  <2>13. CASE StopCore(r)
    <3>1. DOMAIN worker' = {r} /\ worker'[r] = "destroy"
      BY <1>0, <2>13, GotoStep DEF StopCore
    <3> QED
      BY <1>0, <2>13, <3>1 DEF StopCore, At
  <2>14. CASE Destroy(r)
    <3>1. DOMAIN worker' = {r} /\ worker'[r] = "closing"
      BY <1>0, <2>14, GotoStep DEF Destroy
    <3> QED
      BY <1>0, <2>14, <3>1 DEF Destroy, At, DestroyWindow
  <2>15. CASE ReportOff(r)
    BY <1>0, <2>15, ExitStep DEF ReportOff, At
  <2> QED
    BY <1>2, <2>1, <2>2, <2>3, <2>4, <2>5, <2>6, <2>7, <2>8, <2>9, <2>10, <2>11,
       <2>12, <2>13, <2>14, <2>15 DEF Worker
<1>3. ASSUME NEW t \in LogThreads, Callback(t) PROVE WindowFollowsWorker'
  BY <1>0, <1>3 DEF Callback, LogSwap, LogSend
<1>4. CASE Environment
  BY <1>0, <1>4 DEF Environment, CoreServes, SinkShows, UserCloses, LogLine
<1>5. CASE Call \/ Receive \/ UNCHANGED vars
  BY <1>0, <1>5 DEF Call, BeginStart, BeginStop, BeginRestart, Receive, vars
<1> QED
  BY <1>1, <1>2, <1>3, <1>4, <1>5 DEF Next, EngineNext

(* Only a worker that drives it has an engine running.                     *)
LEMMA CoreFollowsWorkerStep == IInv /\ [Next]_vars => CoreFollowsWorker'
<1> SUFFICES ASSUME IInv, [Next]_vars PROVE CoreFollowsWorker'
  OBVIOUS
<1>0. TypeOK /\ WorkerIsNewest /\ WindowFollowsWorker /\ CoreFollowsWorker
  BY DEF IInv
<1> USE DEF CoreFollowsWorker, Driving, threads, window, caller, WindowFollowsWorker
<1>1. CASE TrayThread
  <2>1. CASE StartSpawn
    BY <1>0, <2>1 DEF StartSpawn
  <2> QED
    BY <1>0, <1>1, <2>1 DEF TrayThread, StopRequest, StopPost, StopJoin, StartClaim
<1>2. ASSUME NEW r \in DOMAIN worker, Worker(r) PROVE CoreFollowsWorker'
  <2>1. CASE NoWindow(r)
    BY <1>0, <2>1, ExitStep DEF NoWindow, At
  <2>2. CASE CreateWindow(r)
    BY <1>0, <2>2, GotoStep DEF CreateWindow, At
  <2>3. CASE StandDown(r)
    BY <1>0, <2>3, ExitStep DEF StandDown, At, DestroyWindow
  <2>4. CASE PrepareRun(r)
    BY <1>0, <2>4, GotoStep DEF PrepareRun, At
  <2>5. CASE LoadFails(r)
    BY <1>0, <2>5, ExitStep DEF LoadFails, At, DestroyWindow
  <2>6. CASE SetupEngine(r)
    BY <1>0, <2>6, GotoStep DEF SetupEngine, At
  <2>7. CASE Announce(r)
    BY <1>0, <2>7, GotoStep DEF Announce, At
  <2>8. CASE PumpMessage(r)
    BY <1>0, <2>8 DEF PumpMessage, At
  <2>9. CASE HideTimer(r)
    BY <1>0, <2>9 DEF HideTimer, At
  <2>10. CASE PumpExit(r)
    BY <1>0, <2>10, GotoStep DEF PumpExit, At
  <2>11. CASE Unhook(r)
    BY <1>0, <2>11, GotoStep DEF Unhook, At
  <2>12. CASE ClearConnected(r)
    BY <1>0, <2>12, GotoStep DEF ClearConnected, At
  <2>13. CASE StopCore(r)
    BY <1>0, <2>13, GotoStep DEF StopCore, At
  <2>14. CASE Destroy(r)
    BY <1>0, <2>14, GotoStep DEF Destroy, At, DestroyWindow
  <2>15. CASE ReportOff(r)
    BY <1>0, <2>15, ExitStep DEF ReportOff, At
  <2> QED
    BY <1>2, <2>1, <2>2, <2>3, <2>4, <2>5, <2>6, <2>7, <2>8, <2>9, <2>10, <2>11,
       <2>12, <2>13, <2>14, <2>15 DEF Worker
<1>3. ASSUME NEW t \in LogThreads, Callback(t) PROVE CoreFollowsWorker'
  BY <1>0, <1>3 DEF Callback, LogSwap, LogSend
<1>4. CASE Environment
  BY <1>0, <1>4 DEF Environment, CoreServes, SinkShows, UserCloses, LogLine, Logs
<1>5. CASE Call \/ Receive \/ UNCHANGED vars
  BY <1>0, <1>5 DEF Call, BeginStart, BeginStop, BeginRestart, Receive, vars
<1> QED
  BY <1>1, <1>2, <1>3, <1>4, <1>5 DEF Next, EngineNext

(* A thread inside the callback belongs to the running engine.             *)
LEMMA LogFollowsCoreStep == IInv /\ [Next]_vars => LogFollowsCore'
<1> SUFFICES ASSUME IInv, [Next]_vars PROVE LogFollowsCore'
  OBVIOUS
<1>0. TypeOK /\ WorkerIsNewest /\ CoreFollowsWorker /\ LogFollowsCore
  BY DEF IInv
<1> USE DEF LogFollowsCore, CoreFollowsWorker, Driving, threads, window, caller
<1>1. CASE TrayThread
  <2>1. CASE StartSpawn
    BY <1>0, <2>1 DEF StartSpawn
  <2> QED
    BY <1>0, <1>1, <2>1 DEF TrayThread, StopRequest, StopPost, StopJoin, StartClaim
<1>2. ASSUME NEW r \in DOMAIN worker, Worker(r) PROVE LogFollowsCore'
  <2>1. CASE NoWindow(r)
    BY <1>0, <2>1, ExitStep DEF NoWindow, At
  <2>2. CASE CreateWindow(r)
    BY <1>0, <2>2, GotoStep DEF CreateWindow, At
  <2>3. CASE StandDown(r)
    BY <1>0, <2>3, ExitStep DEF StandDown, At, DestroyWindow
  <2>4. CASE PrepareRun(r)
    BY <1>0, <2>4, GotoStep DEF PrepareRun, At
  <2>5. CASE LoadFails(r)
    BY <1>0, <2>5, ExitStep DEF LoadFails, At, DestroyWindow
  <2>6. CASE SetupEngine(r)
    BY <1>0, <2>6, GotoStep DEF SetupEngine, At
  <2>7. CASE Announce(r)
    BY <1>0, <2>7, GotoStep DEF Announce, At
  <2>8. CASE PumpMessage(r)
    BY <1>0, <2>8 DEF PumpMessage, At
  <2>9. CASE HideTimer(r)
    BY <1>0, <2>9 DEF HideTimer, At
  <2>10. CASE PumpExit(r)
    BY <1>0, <2>10, GotoStep DEF PumpExit, At
  <2>11. CASE Unhook(r)
    BY <1>0, <2>11, GotoStep DEF Unhook, At
  <2>12. CASE ClearConnected(r)
    BY <1>0, <2>12, GotoStep DEF ClearConnected, At
  <2>13. CASE StopCore(r)
    BY <1>0, <2>13, GotoStep DEF StopCore, At
  <2>14. CASE Destroy(r)
    BY <1>0, <2>14, GotoStep DEF Destroy, At, DestroyWindow
  <2>15. CASE ReportOff(r)
    BY <1>0, <2>15, ExitStep DEF ReportOff, At
  <2> QED
    BY <1>2, <2>1, <2>2, <2>3, <2>4, <2>5, <2>6, <2>7, <2>8, <2>9, <2>10, <2>11,
       <2>12, <2>13, <2>14, <2>15 DEF Worker
<1>3. ASSUME NEW t \in LogThreads, Callback(t) PROVE LogFollowsCore'
  <2>1. CASE LogSwap(t)
    <3> SUFFICES ASSUME NEW u \in LogThreads, log'[u] # Idle
                 PROVE  core' # "off" /\ log'[u].hwnd = run'
      OBVIOUS
    <3>1. log[t] # Idle
      <4>1. log[t].at = "gated"
        BY <2>1 DEF LogSwap
      <4> QED
        BY <4>1 DEF Idle
    <3>2. log'[u] = log[u] \/ (u = t /\ log'[u].hwnd = log[u].hwnd)
      BY <1>0, <2>1, IdleStep, FinishStep DEF LogSwap
    <3> QED
      BY <1>0, <2>1, <3>1, <3>2 DEF LogSwap
  <2>2. CASE LogSend(t)
    BY <1>0, <2>2, IdleStep DEF LogSend
  <2> QED
    BY <1>3, <2>1, <2>2 DEF Callback
<1>4. CASE Environment
  <2>1. CASE CoreServes
    BY <1>0, <2>1 DEF CoreServes
  <2>2. CASE SinkShows
    BY <1>0, <2>2 DEF SinkShows
  <2>3. ASSUME NEW r \in DOMAIN worker, UserCloses(r) PROVE LogFollowsCore'
    BY <1>0, <2>3 DEF UserCloses
  <2>4. ASSUME NEW t \in LogThreads, NEW line \in Lines, LogLine(t, line) PROVE
     LogFollowsCore'
    BY <1>0, <2>4 DEF LogLine, Logs, Gated, Idle
  <2> QED
    BY <1>4, <2>1, <2>2, <2>3, <2>4 DEF Environment
<1>5. CASE Call
  BY <1>0, <1>5 DEF Call, BeginStart, BeginStop, BeginRestart
<1>6. CASE Receive
  BY <1>0, <1>6 DEF Receive
<1>7. CASE UNCHANGED vars
  BY <1>0, <1>7 DEF vars
<1> QED
  BY <1>1, <1>2, <1>3, <1>4, <1>5, <1>6, <1>7 DEF Next, EngineNext

(* The running slot follows the worker, also through start()'s claim.      *)
LEMMA SlotHeldStep == IInv /\ [Next]_vars => SlotHeld'
<1> SUFFICES ASSUME IInv, [Next]_vars PROVE SlotHeld'
  OBVIOUS
<1>0. TypeOK /\ WorkerIsNewest /\ SlotHeld
  BY DEF IInv
<1> USE DEF SlotHeld, threads, window, caller
<1>1. CASE TrayThread
  <2>1. CASE StopRequest
    BY <1>0, <2>1 DEF StopRequest
  <2>2. CASE StopPost
    BY <1>0, <2>2 DEF StopPost
  <2>3. CASE StopJoin
    BY <1>0, <2>3 DEF StopJoin
  <2>4. CASE StartClaim
    BY <1>0, <2>4 DEF StartClaim
  <2>5. CASE StartSpawn
    <3>1. call = "spawn" /\ call' = "none" /\ running /\ DOMAIN worker = {}
      BY <1>0, <2>5 DEF StartSpawn
    <3> QED
      BY <1>0, <2>5, <3>1, SpawnStep
  <2> QED
    BY <1>1, <2>1, <2>2, <2>3, <2>4, <2>5 DEF TrayThread
<1>2. ASSUME NEW r \in DOMAIN worker, Worker(r) PROVE SlotHeld'
  <2>1. CASE NoWindow(r)
    BY <1>0, <2>1, ExitStep DEF NoWindow, At
  <2>2. CASE CreateWindow(r)
    <3>1. DOMAIN worker' = {r} /\ worker'[r] = "created"
      BY <1>0, <2>2, GotoStep DEF CreateWindow
    <3> QED
      BY <1>0, <2>2, <3>1 DEF CreateWindow, At
  <2>3. CASE StandDown(r)
    BY <1>0, <2>3, ExitStep DEF StandDown, At, DestroyWindow
  <2>4. CASE PrepareRun(r)
    <3>1. DOMAIN worker' = {r} /\ worker'[r] = "prepared"
      BY <1>0, <2>4, GotoStep DEF PrepareRun
    <3> QED
      BY <1>0, <2>4, <3>1 DEF PrepareRun, At
  <2>5. CASE LoadFails(r)
    BY <1>0, <2>5, ExitStep DEF LoadFails, At, DestroyWindow
  <2>6. CASE SetupEngine(r)
    BY <1>0, <2>6, GotoStep DEF SetupEngine, At
  <2>7. CASE Announce(r)
    <3>1. DOMAIN worker' = {r} /\ worker'[r] = "pump"
      BY <1>0, <2>7, GotoStep DEF Announce
    <3> QED
      BY <1>0, <2>7, <3>1 DEF Announce, At
  <2>8. CASE PumpMessage(r)
    BY <1>0, <2>8 DEF PumpMessage, At
  <2>9. CASE HideTimer(r)
    BY <1>0, <2>9 DEF HideTimer, At
  <2>10. CASE PumpExit(r)
    <3>1. DOMAIN worker' = {r} /\ worker'[r] = "unhook"
      BY <1>0, <2>10, GotoStep DEF PumpExit
    <3> QED
      BY <1>0, <2>10, <3>1 DEF PumpExit, At
  <2>11. CASE Unhook(r)
    <3>1. DOMAIN worker' = {r} /\ worker'[r] = "clear"
      BY <1>0, <2>11, GotoStep DEF Unhook
    <3> QED
      BY <1>0, <2>11, <3>1 DEF Unhook, At
  <2>12. CASE ClearConnected(r)
    <3>1. DOMAIN worker' = {r} /\ worker'[r] = "stopping"
      BY <1>0, <2>12, GotoStep DEF ClearConnected
    <3> QED
      BY <1>0, <2>12, <3>1 DEF ClearConnected, At
  <2>13. CASE StopCore(r)
    <3>1. DOMAIN worker' = {r} /\ worker'[r] = "destroy"
      BY <1>0, <2>13, GotoStep DEF StopCore
    <3> QED
      BY <1>0, <2>13, <3>1 DEF StopCore, At
  <2>14. CASE Destroy(r)
    BY <1>0, <2>14, GotoStep DEF Destroy, At, DestroyWindow
  <2>15. CASE ReportOff(r)
    BY <1>0, <2>15, ExitStep DEF ReportOff, At
  <2> QED
    BY <1>2, <2>1, <2>2, <2>3, <2>4, <2>5, <2>6, <2>7, <2>8, <2>9, <2>10, <2>11,
       <2>12, <2>13, <2>14, <2>15 DEF Worker
<1>3. ASSUME NEW t \in LogThreads, Callback(t) PROVE SlotHeld'
  <2>1. UNCHANGED <<running, call, worker>>
    BY <1>3 DEF Callback, LogSwap, LogSend
  <2> QED
    BY <1>0, <2>1
<1>4. CASE Environment
  BY <1>0, <1>4 DEF Environment, CoreServes, SinkShows, UserCloses, LogLine
<1>5. CASE Call \/ Receive \/ UNCHANGED vars
  BY <1>0, <1>5 DEF Call, BeginStart, BeginStop, BeginRestart, Receive, vars
<1> QED
  BY <1>1, <1>2, <1>3, <1>4, <1>5 DEF Next, EngineNext

(* stop() raises its flag first and nothing lowers it before the join.     *)
LEMMA StopAnnouncedStep == IInv /\ [Next]_vars => StopAnnounced'
<1> SUFFICES ASSUME IInv, [Next]_vars PROVE StopAnnounced'
  OBVIOUS
<1>0. StopAnnounced
  BY DEF IInv
<1> USE DEF StopAnnounced, threads, window, caller
<1>1. CASE TrayThread
  BY <1>0, <1>1 DEF TrayThread, StopRequest, StopPost, StopJoin, StartClaim, StartSpawn
<1>2. ASSUME NEW r \in DOMAIN worker, Worker(r) PROVE StopAnnounced'
  BY <1>0, <1>2 DEF Worker, NoWindow, CreateWindow, StandDown, PrepareRun, LoadFails,
     SetupEngine, Announce, PumpMessage, HideTimer, PumpExit, Unhook, ClearConnected,
     StopCore, Destroy, ReportOff
<1>3. ASSUME NEW t \in LogThreads, Callback(t) PROVE StopAnnounced'
  BY <1>0, <1>3 DEF Callback, LogSwap, LogSend
<1>4. CASE Environment
  BY <1>0, <1>4 DEF Environment, CoreServes, SinkShows, UserCloses, LogLine
<1>5. CASE Call \/ Receive \/ UNCHANGED vars
  BY <1>0, <1>5 DEF Call, BeginStart, BeginStop, BeginRestart, Receive, vars
<1> QED
  BY <1>1, <1>2, <1>3, <1>4, <1>5 DEF Next, EngineNext

(* The flag or the message always reaches the worker.                      *)
LEMMA StopHandshakeStep == IInv /\ [Next]_vars => StopHandshake'
<1> SUFFICES ASSUME IInv, [Next]_vars PROVE StopHandshake'
  OBVIOUS
<1>0. TypeOK /\ WorkerIsNewest /\ WindowFollowsWorker /\ StopAnnounced /\ StopHandshake
  BY DEF IInv
<1> USE DEF StopHandshake, Leaving, StopAnnounced, threads, window, caller
<1>1. CASE TrayThread
  <2>1. CASE StopPost
    <3> SUFFICES ASSUME NEW r \in DOMAIN worker' PROVE stop_req' /\ Leaving(r)'
      BY <1>0, <2>1 DEF StopPost
    <3>1. r \in DOMAIN worker /\ worker[r] \in WorkerAt /\ r = run /\ r > 0
      <4>1. DOMAIN worker' = DOMAIN worker
        BY <2>1 DEF StopPost
      <4>2. r \in DOMAIN worker /\ r = run
        BY <1>0, <4>1 DEF WorkerIsNewest
      <4> QED
        BY <1>0, <4>2 DEF TypeOK
    <3>2. CASE worker[r] \in Windowed
      <4>1. hwnd = win /\ win # 0
        BY <1>0, <3>1, <3>2 DEF WindowFollowsWorker
      <4>2. ClosePosted'
        BY <1>0, <2>1, <4>1, PostCloses DEF StopPost, Messages
      <4> QED
        BY <1>0, <2>1, <4>2 DEF StopPost
    <3>3. CASE worker[r] \in {"spawned", "closing"}
      BY <1>0, <2>1, <3>3 DEF StopPost
    <3> QED
      BY <3>1, <3>2, <3>3 DEF WorkerAt, Windowed
  <2>2. CASE StartSpawn
    BY <1>0, <2>2 DEF StartSpawn
  <2> QED
    BY <1>0, <1>1, <2>1, <2>2 DEF TrayThread, StopRequest, StopJoin, StartClaim
<1>2. ASSUME NEW r \in DOMAIN worker, Worker(r) PROVE StopHandshake'
  <2>1. CASE NoWindow(r)
    BY <1>0, <2>1, ExitStep DEF NoWindow, At
  <2>2. CASE CreateWindow(r)
    BY <1>0, <2>2, GotoStep DEF CreateWindow, At
  <2>3. CASE StandDown(r)
    BY <1>0, <2>3, ExitStep DEF StandDown, At, DestroyWindow
  <2>4. CASE PrepareRun(r)
    BY <1>0, <2>4, GotoStep DEF PrepareRun, At
  <2>5. CASE LoadFails(r)
    BY <1>0, <2>5, ExitStep DEF LoadFails, At, DestroyWindow
  <2>6. CASE SetupEngine(r)
    BY <1>0, <2>6, GotoStep DEF SetupEngine, At, ClosePosted
  <2>7. CASE Announce(r)
    BY <1>0, <2>7, GotoStep DEF Announce, At, ClosePosted
  <2>8. CASE PumpMessage(r)
    BY <1>0, <2>8, TailCloses DEF PumpMessage
  <2>9. CASE HideTimer(r)
    BY <1>0, <2>9 DEF HideTimer, At, ClosePosted
  <2>10. CASE PumpExit(r)
    BY <1>0, <2>10, GotoStep DEF PumpExit, At
  <2>11. CASE Unhook(r)
    BY <1>0, <2>11, GotoStep DEF Unhook, At
  <2>12. CASE ClearConnected(r)
    BY <1>0, <2>12, GotoStep DEF ClearConnected, At
  <2>13. CASE StopCore(r)
    BY <1>0, <2>13, GotoStep DEF StopCore, At
  <2>14. CASE Destroy(r)
    BY <1>0, <2>14, GotoStep DEF Destroy, At, DestroyWindow
  <2>15. CASE ReportOff(r)
    BY <1>0, <2>15, ExitStep DEF ReportOff, At
  <2> QED
    BY <1>2, <2>1, <2>2, <2>3, <2>4, <2>5, <2>6, <2>7, <2>8, <2>9, <2>10, <2>11,
       <2>12, <2>13, <2>14, <2>15 DEF Worker
<1>3. ASSUME NEW t \in LogThreads, Callback(t) PROVE StopHandshake'
  <2>1. CASE LogSwap(t)
    BY <1>0, <2>1 DEF LogSwap, ClosePosted
  <2>2. CASE LogSend(t)
    BY <1>0, <2>2, PostCloses DEF LogSend, Messages, ClosePosted
  <2> QED
    BY <1>3, <2>1, <2>2 DEF Callback
<1>4. CASE Environment
  BY <1>0, <1>4 DEF Environment, CoreServes, SinkShows, UserCloses, LogLine, ClosePosted
<1>5. CASE Call \/ Receive \/ UNCHANGED vars
  BY <1>0, <1>5 DEF Call, BeginStart, BeginStop, BeginRestart, Receive, vars, ClosePosted
<1> QED
  BY <1>1, <1>2, <1>3, <1>4, <1>5 DEF Next, EngineNext

LEMMA IInvInit == EngineStart => IInv
<1> SUFFICES ASSUME EngineStart PROVE IInv
  OBVIOUS
<1>1. TypeOK
  BY TypeInit
<1>2. DOMAIN worker = {} /\ call \in {"none", "claim"} /\ ~running /\ core = "off"
  BY DEF EngineStart, EngineInit
<1>3. LogFollowsCore
  BY DEF LogFollowsCore, EngineStart, EngineInit
<1>4. WindowFollowsWorker
  BY <1>2 DEF WindowFollowsWorker, EngineStart, EngineInit
<1> QED
  BY <1>1, <1>2, <1>3, <1>4 DEF IInv, WorkerIsNewest, CoreFollowsWorker, SlotHeld,
     StopAnnounced, StopHandshake

LEMMA IInvStep == IInv /\ [Next]_vars => IInv'
<1>1. IInv /\ [Next]_vars => TypeOK'
  BY TypeStep DEF IInv
<1> QED
  BY <1>1, NewestStep, WindowFollowsWorkerStep, CoreFollowsWorkerStep, LogFollowsCoreStep,
     SlotHeldStep, StopAnnouncedStep, StopHandshakeStep DEF IInv

(* The inductive invariant holds throughout.                               *)
THEOREM InvariantHolds == Spec => []IInv
<1>1. Init => IInv
  BY IInvInit DEF Init, EngineStart
<1> QED
  BY <1>1, IInvStep, PTL DEF Spec

(* Two host-window threads never drive the one uxplay-core.                *)
THEOREM SingleEngineHolds == Spec => []SingleEngine
<1>1. IInv => SingleEngine
  BY DEF IInv, WorkerIsNewest, SingleEngine
<1> QED
  BY <1>1, InvariantHolds, PTL

(* Once stop() joins, the worker is on its way out.                        *)
THEOREM StopHandshakeHolds == Spec => []StopHandshake
<1>1. IInv => StopHandshake
  BY DEF IInv
<1> QED
  BY <1>1, InvariantHolds, PTL

(* The engine never renders into a window that is gone.                    *)
THEOREM WindowOutlivesCoreHolds == Spec => []WindowOutlivesCore
<1>1. IInv => WindowOutlivesCore
  <2> SUFFICES ASSUME IInv, core # "off" PROVE win = run /\ win # 0
    BY DEF WindowOutlivesCore
  <2>1. run \in DOMAIN worker /\ worker[run] \in Windowed
    BY DEF IInv, CoreFollowsWorker, Driving, Windowed
  <2>2. win = run
    BY <2>1 DEF IInv, WindowFollowsWorker
  <2>3. run # 0
    BY <2>1 DEF IInv, TypeOK
  <2> QED
    BY <2>2, <2>3
<1> QED
  BY <1>1, InvariantHolds, PTL

(* A callback past its gate posts to the window of the running engine.     *)
THEOREM PostsReachWindowHolds == Spec => []PostsReachWindow
<1>1. IInv /\ WindowOutlivesCore => PostsReachWindow
  BY DEF IInv, LogFollowsCore, WindowOutlivesCore, PostsReachWindow
<1> QED
  BY <1>1, InvariantHolds, WindowOutlivesCoreHolds, PTL

(* The window is there for the sink and for every callback that posts.     *)
THEOREM WindowOutlivesUsersHolds == Spec => []WindowOutlivesUsers
<1>1. WindowOutlivesCore /\ PostsReachWindow => WindowOutlivesUsers
  BY DEF WindowOutlivesUsers
<1> QED
  BY <1>1, WindowOutlivesCoreHolds, PostsReachWindowHolds, PTL

(* Between calls the running slot is taken exactly while a worker runs.    *)
THEOREM SlotMatchesWorkerHolds == Spec => []SlotMatchesWorker
<1>1. IInv => SlotMatchesWorker
  BY DEF IInv, SlotHeld, SlotMatchesWorker
<1> QED
  BY <1>1, InvariantHolds, PTL

----------------------------------------------------------------------------

(* Every step of the engine is a step of the core's contract or changes    *)
(* nothing the contract speaks of.                                         *)
Alive == core \in {"starting", "serving"} \/ \E t \in LogThreads : log[t] # Idle
AtStop == \E r \in DOMAIN worker : worker[r] = "stopping"

LEMMA StopsKept ==
  ASSUME IInv, NEW r \in DOMAIN worker, NEW pc, At(r, pc), pc # "stopping",
         NEW to, to # "stopping", Goto(r, to) \/ Exit(r)
  PROVE  ~AtStop /\ ~AtStop'
<1>1. TypeOK /\ WorkerIsNewest
  BY DEF IInv
<1>2. CASE Goto(r, to)
  BY <1>1, <1>2, GotoStep DEF At, AtStop
<1>3. CASE Exit(r)
  BY <1>1, <1>3, ExitStep DEF At, AtStop
<1> QED
  BY <1>2, <1>3

LEMMA ContractStep ==
  ASSUME IInv, [Next]_vars PROVE [Contract!Next]_(Contract!vars)
<1>0. TypeOK /\ WorkerIsNewest /\ CoreFollowsWorker /\ LogFollowsCore
  BY DEF IInv
<1>a. ASSUME UNCHANGED <<core, log, AtStop>> PROVE UNCHANGED Contract!vars
  BY <1>a DEF Contract!vars, AtStop
<1>b. ASSUME ~AtStop, ~AtStop' PROVE UNCHANGED AtStop
  BY <1>b DEF AtStop
<1>1. CASE TrayThread
  <2>1. CASE StartSpawn
    <3>1. ~AtStop
      BY <2>1 DEF StartSpawn, AtStop
    <3>2. ~AtStop'
      BY <1>0, <2>1, <3>1, SpawnStep DEF AtStop, threads
    <3>3. UNCHANGED AtStop
      BY <1>b, <3>1, <3>2
    <3>4. UNCHANGED core /\ UNCHANGED log
      BY <2>1 DEF StartSpawn
    <3> QED
      BY <1>a, <3>3, <3>4
  <2>2. CASE StopRequest \/ StopPost \/ StopJoin \/ StartClaim
    BY <1>a, <2>2 DEF StopRequest, StopPost, StopJoin, StartClaim, AtStop, threads
  <2> QED
    BY <1>1, <2>1, <2>2 DEF TrayThread
<1>2. ASSUME NEW r \in DOMAIN worker, Worker(r)
      PROVE  [Contract!Next]_(Contract!vars)
  <2>1. CASE NoWindow(r) \/ CreateWindow(r) \/ StandDown(r) \/ PrepareRun(r) \/ LoadFails(r)
             \/ Announce(r) \/ PumpExit(r) \/ Unhook(r) \/ Destroy(r) \/ ReportOff(r)
    <3>1. ~AtStop /\ ~AtStop'
      BY <2>1, StopsKept DEF NoWindow, CreateWindow, StandDown, PrepareRun, LoadFails,
         Announce, PumpExit, Unhook, Destroy, ReportOff, At
    <3>2. UNCHANGED AtStop
      BY <1>b, <3>1
    <3>3. UNCHANGED core /\ UNCHANGED log
      BY <2>1 DEF NoWindow, CreateWindow, StandDown, PrepareRun, LoadFails,
         Announce, PumpExit, Unhook, Destroy, ReportOff
    <3> QED
      BY <1>a, <3>2, <3>3
  <2>2. CASE PumpMessage(r) \/ HideTimer(r)
    BY <1>a, <2>2 DEF PumpMessage, HideTimer, AtStop, threads
  <2>3. CASE SetupEngine(r)
    <3>1. ~AtStop /\ ~AtStop'
      BY <2>3, StopsKept DEF SetupEngine
    <3>2. core = "off" /\ \A t \in LogThreads : log[t] = Idle
      BY <1>0, <2>3 DEF SetupEngine, At, CoreFollowsWorker, Driving, LogFollowsCore,
         WorkerIsNewest
    <3>3. CASE core' = "starting"
      BY <2>3, <3>1, <3>2, <3>3 DEF SetupEngine, AtStop, Contract!Next, Contract!Start
    <3>4. CASE UNCHANGED core
      <4>1. UNCHANGED AtStop
        BY <1>b, <3>1
      <4>2. UNCHANGED log
        BY <2>3 DEF SetupEngine
      <4> QED
        BY <1>a, <3>4, <4>1, <4>2
    <3> QED
      BY <2>3, <3>3, <3>4 DEF SetupEngine, flags
  <2>4. CASE ClearConnected(r)
    <3>1. ~AtStop /\ AtStop'
      BY <1>0, <2>4, GotoStep DEF ClearConnected, At, AtStop
    <3> QED
      BY <2>4, <3>1 DEF ClearConnected, AtStop, Contract!Next, Contract!Stop
  <2>5. CASE StopCore(r)
    <3>1. AtStop
      BY <2>5 DEF StopCore, At, AtStop
    <3>2. DOMAIN worker' = {r} /\ worker'[r] = "destroy"
      BY <1>0, <2>5, GotoStep DEF StopCore, At, WorkerIsNewest
    <3>3. ~AtStop'
      BY <3>2 DEF AtStop
    <3> QED
      BY <2>5, <3>1, <3>3 DEF StopCore, AtStop, Contract!Next, Contract!Stopped
  <2> QED
    BY <1>2, <2>1, <2>2, <2>3, <2>4, <2>5 DEF Worker
<1>3. ASSUME NEW t \in LogThreads, Callback(t)
      PROVE  [Contract!Next]_(Contract!vars)
  <2>1. UNCHANGED <<core, AtStop>>
    BY <1>3 DEF Callback, LogSwap, LogSend, threads, AtStop
  <2>2. log[t].at \in {"gated", "send"}
    BY <1>3 DEF Callback, LogSwap, LogSend
  <2>3. log[t] # Idle
    BY <2>2 DEF Idle
  <2>4. Alive
    BY <2>3 DEF Alive
  <2> QED
    BY <2>1, <2>4 DEF Alive, AtStop, Contract!Next, Contract!End, Contract!vars
<1>4. CASE Environment
  <2>1. CASE CoreServes
    BY <2>1 DEF CoreServes, threads, Contract!vars
  <2>2. CASE SinkShows \/ \E r \in DOMAIN worker : UserCloses(r)
    BY <1>a, <2>2 DEF SinkShows, UserCloses, threads, AtStop
  <2>3. ASSUME NEW t \in LogThreads, NEW line \in Lines, LogLine(t, line)
        PROVE  [Contract!Next]_(Contract!vars)
    <3>1. Alive /\ core # "off" /\ core' # "off"
      BY <2>3 DEF LogLine, Logs, Alive
    <3> QED
      BY <2>3, <3>1 DEF LogLine, threads, Alive, Contract!Next, Contract!End, Contract!vars
  <2> QED
    BY <1>4, <2>1, <2>2, <2>3 DEF Environment
<1>5. CASE Call \/ Receive \/ UNCHANGED vars
  BY <1>a, <1>5 DEF Call, Receive, vars, threads, AtStop
<1> QED
  BY <1>1, <1>2, <1>3, <1>4, <1>5 DEF Next, EngineNext

(* The engine drives uxplay-core within its contract, safety part: it      *)
(* never starts it twice, and after ap.stop() no callback is in progress.  *)
THEOREM KeepsContractSafely == Spec => Contract!Safety
<1>1. Init => Contract!Init
  BY DEF Init, EngineInit, Contract!Init
<1> QED
  BY <1>1, InvariantHolds, ContractStep, PTL DEF Spec, Contract!Safety

----------------------------------------------------------------------------
(* The engine and the tray together: ReceiverWindows.                      *)

(* Every failure among those considered is reported on the status channel. *)
(* A run whose thread or window cannot be created, or whose library does   *)
(* not load, ends without a status.                                        *)
FailuresAreReported == Failures \subseteq {"setup", "fatal"}

USE DEF flags, window, threads, caller, engine, trayOwn, App!shared

(* Where the one worker is.                                                *)
place == IF run \in DOMAIN worker THEN worker[run] ELSE "none"

Starting == {"launch", "start", "restart", "config"}
Fresh == {"spawned", "created", "prepared", "announce_ok", "announce_err"}
Stops == {"request", "post", "join"}
Up == {"starting", "serving"}

Gates(t, line) == log[t].at = "gated" /\ log[t].line = line
Sends(t, out) == log[t].at = "send" /\ log[t].out = out

(* The places and the steps of a worker, in terms of place.                *)
LEMMA PlaceOfWorker ==
  ASSUME IInv, NEW r \in DOMAIN worker
  PROVE  /\ r = run /\ place # "none" /\ place \in WorkerAt
         /\ \A pc : At(r, pc) <=> place = pc
         /\ \A pc : Goto(r, pc) /\ UNCHANGED run => place' = pc
         /\ Exit(r) /\ UNCHANGED run => place' = "none"
<1>0. TypeOK /\ WorkerIsNewest
  BY DEF IInv
<1>1. r = run /\ place = worker[r] /\ place \in WorkerAt
  BY <1>0 DEF WorkerIsNewest, place, TypeOK
<1>2. ASSUME NEW pc, Goto(r, pc), UNCHANGED run PROVE place' = pc
  BY <1>0, <1>1, <1>2, GotoStep DEF place
<1>3. ASSUME Exit(r), UNCHANGED run PROVE place' = "none"
  BY <1>0, <1>1, <1>3, ExitStep DEF place
<1> QED BY <1>1, <1>2, <1>3 DEF At, WorkerAt

LEMMA PlaceKept ==
  ASSUME UNCHANGED threads PROVE UNCHANGED place
BY DEF place

(* What the engine's invariant says of place.                              *)
LEMMA PlaceFacts ==
  ASSUME IInv
  PROVE  /\ place \in WorkerAt \cup {"none"}
         /\ DOMAIN worker = {} <=> place = "none"
         /\ call # "spawn" => (running <=> place \notin {"none", "closing"})
         /\ core # "off" => place \in Driving
         /\ core = "off" => \A t \in LogThreads : log[t] = Idle
         /\ place \in Windowed => win = run /\ hwnd = run /\ run # 0
         /\ run = 0 => place = "none"
         /\ run \in Nat /\ statusQ \in Seq(Statuses) /\ msgs \in Seq(Messages)
<1>0. TypeOK /\ WorkerIsNewest
  BY DEF IInv
<1>1. place \in WorkerAt \cup {"none"} /\ (DOMAIN worker = {} <=> place = "none")
  BY <1>0 DEF WorkerIsNewest, place, TypeOK, WorkerAt
<1>2. place # "none" => DOMAIN worker = {run} /\ worker[run] = place
  BY <1>0 DEF WorkerIsNewest, place
<1>3. call # "spawn" => (running <=> place \notin {"none", "closing"})
  BY <1>1, <1>2 DEF IInv, SlotHeld
<1>4. core # "off" => place \in Driving
  BY DEF IInv, CoreFollowsWorker, place
<1>5. place \in Windowed => win = run /\ hwnd = run /\ run # 0
  BY <1>0, <1>1, <1>2 DEF IInv, WindowFollowsWorker, TypeOK, Windowed
<1>6. run = 0 => place = "none"
  BY <1>0, <1>2 DEF TypeOK
<1>7. core = "off" => \A t \in LogThreads : log[t] = Idle
  BY DEF IInv, LogFollowsCore
<1> QED BY <1>0, <1>1, <1>3, <1>4, <1>5, <1>6, <1>7 DEF TypeOK

(* What the tray thread's part of the engine does to place.                *)
LEMMA PlaceOfTrayThread ==
  ASSUME IInv, TrayThread
  PROVE  /\ StopRequest \/ StopPost \/ StopJoin \/ StartClaim => UNCHANGED place
         /\ StopJoin => place = "none"
         /\ StartSpawn => place = "none"
         /\ StartSpawn /\ "spawn" \notin Failures =>
              place' = "spawned" /\ run' = run + 1 /\ result' = "ok" /\ UNCHANGED running
<1>1. StopRequest \/ StopPost \/ StopJoin \/ StartClaim => UNCHANGED place
  BY PlaceKept DEF StopRequest, StopPost, StopJoin, StartClaim
<1>2. StopJoin \/ StartSpawn => place = "none"
  BY DEF StopJoin, StartSpawn, place
<1>3. ASSUME StartSpawn, "spawn" \notin Failures
      PROVE  place' = "spawned" /\ run' = run + 1 /\ result' = "ok" /\ UNCHANGED running
  <2>1. run' = run + 1 /\ result' = "ok" /\ UNCHANGED running
        /\ worker' = [r \in DOMAIN worker \cup {run'} |->
                        IF r = run' THEN "spawned" ELSE worker[r]]
    BY <1>3 DEF StartSpawn
  <2>2. run' \in DOMAIN worker' /\ worker'[run'] = "spawned"
    BY <2>1
  <2> QED BY <2>1, <2>2 DEF place
<1> QED BY <1>1, <1>2, <1>3

(* The status channel: what is last in it, and what is in it at all.       *)
LastStatus == statusQ[Len(statusQ)]
OffQueued == \E k \in 1..Len(statusQ) : statusQ[k] = "Off"

LEMMA SendStatus ==
  ASSUME statusQ \in Seq(Statuses), NEW s, Send(s)
  PROVE  /\ statusQ' # <<>> /\ LastStatus' = s
         /\ OffQueued \/ s = "Off" => OffQueued'
<1>1. /\ Len(statusQ') = Len(statusQ) + 1 /\ statusQ'[Len(statusQ) + 1] = s
      /\ \A k \in 1..Len(statusQ) : statusQ'[k] = statusQ[k]
      /\ Len(statusQ) \in Nat /\ statusQ' # <<>>
  BY DEF Send
<1>2. LastStatus' = s
  BY <1>1 DEF LastStatus
<1>3. OffQueued \/ s = "Off" => OffQueued'
  BY <1>1 DEF OffQueued
<1> QED BY <1>1, <1>2, <1>3

LEMMA TakeStatus ==
  ASSUME statusQ \in Seq(Statuses), statusQ # <<>>, statusQ' = Tail(statusQ)
  PROVE  /\ IF statusQ' = <<>> THEN LastStatus = Head(statusQ) ELSE LastStatus' = LastStatus
         /\ OffQueued /\ Head(statusQ) # "Off" => OffQueued'
<1>0. /\ Len(statusQ') = Len(statusQ) - 1 /\ Head(statusQ) = statusQ[1]
      /\ Len(statusQ) \in Nat \ {0}
      /\ \A k \in 1..Len(statusQ') : statusQ'[k] = statusQ[k + 1]
  OBVIOUS
<1>a. statusQ' = <<>> => Len(statusQ) = 1
  <2>1. statusQ' = <<>> => Len(statusQ') = 0
    <3>1. Len(<<>>) = 0
      OBVIOUS
    <3> QED BY <3>1, Zenon
  <2> QED BY <1>0, <2>1
<1>b. statusQ' # <<>> => Len(statusQ') # 0
  <2>1. statusQ' \in Seq(Statuses)
    OBVIOUS
  <2> QED BY <2>1
<1>1. /\ Len(statusQ') = Len(statusQ) - 1 /\ Head(statusQ) = statusQ[1]
      /\ Len(statusQ) \in Nat \ {0}
      /\ \A k \in 1..Len(statusQ') : statusQ'[k] = statusQ[k + 1]
      /\ statusQ' = <<>> <=> Len(statusQ) = 1
  BY <1>0, <1>a, <1>b
<1>2. IF statusQ' = <<>> THEN LastStatus = Head(statusQ) ELSE LastStatus' = LastStatus
  BY <1>1 DEF LastStatus
<1>3. ASSUME NEW k \in 1..Len(statusQ), statusQ[k] = "Off", Head(statusQ) # "Off" PROVE OffQueued'
  <2>1. k - 1 \in 1..Len(statusQ') /\ statusQ'[k - 1] = "Off"
    BY <1>1, <1>3
  <2> QED BY <2>1 DEF OffQueued
<1> QED BY <1>2, <1>3 DEF OffQueued

(* A handler of the tray makes one call into the engine, takes at most one *)
(* status, and changes nothing else that the engine looks at.              *)
LEMMA TrayFrame ==
  ASSUME App!Next
  PROVE  /\ UNCHANGED <<running, result, PIN_IGNORED>>
         /\ \/ UNCHANGED <<call, restarting>>
            \/ /\ call = "none"
               /\ \/ call' = "request" /\ restarting' \in BOOLEAN
                  \/ call' = "claim" /\ restarting' = FALSE
         /\ statusQ' = statusQ \/ (statusQ # <<>> /\ statusQ' = Tail(statusQ))
         /\ START_FAILED' = START_FAILED \/ START_FAILED' = FALSE
<1> USE DEF App!Enter, App!Stop, App!Start, App!Restart, App!Returned
<1>1. CASE App!Launched \/ App!FailureReported \/ App!Stopped \/ App!Started \/ App!Restarted
           \/ App!Exited \/ App!Reconfigured \/ App!User
  BY <1>1 DEF App!Launched, App!FailureReported, App!Stopped, App!Started, App!Restarted,
     App!Exited, App!Reconfigured, App!User, App!Save, App!Click
<1>2. CASE App!OnStatus
  BY <1>2 DEF App!OnStatus
<1>3. CASE App!OnClick
  BY <1>3 DEF App!OnClick
<1>4. CASE App!OnConfig
  BY <1>4 DEF App!OnConfig
<1> QED BY <1>1, <1>2, <1>3, <1>4 DEF App!Next, App!EventLoop

(* The engine's own invariant survives the tray.                           *)
LEMMA IInvAppStep == IInv /\ [AppNext]_appVars => IInv'
<1> SUFFICES ASSUME IInv, [AppNext]_appVars PROVE IInv'
  OBVIOUS
<1>1. CASE EngineNext
  BY <1>1, IInvStep DEF Next
<1>2. CASE App!Next /\ UNCHANGED engine
  <2>1. TypeOK'
    <3>0. statusQ \in Seq(Statuses)
      BY DEF IInv, TypeOK
    <3>a. statusQ' = statusQ \/ (statusQ # <<>> /\ statusQ' = Tail(statusQ))
      BY <1>2, TrayFrame
    <3>1. statusQ' \in Seq(Statuses)
      BY <3>0, <3>a
    <3>2. TypeFlags'
      BY <1>2, TrayFrame DEF IInv, TypeOK, TypeFlags
    <3>3. call' \in Calls
      BY <1>2, TrayFrame DEF IInv, TypeOK, Calls
    <3> QED BY <1>2, <3>1, <3>2, <3>3, TrayFrame DEF IInv, TypeOK
  <2>2. UNCHANGED <<running, win, hwnd, worker, CB_HWND, run, core, log, stop_req, quit, msgs>>
    BY <1>2, TrayFrame
  <2>3. /\ WorkerIsNewest' /\ WindowFollowsWorker' /\ CoreFollowsWorker' /\ LogFollowsCore'
    BY <2>2 DEF IInv, WorkerIsNewest, WindowFollowsWorker, CoreFollowsWorker, LogFollowsCore
  <2>4. call' = call \/ (call = "none" /\ call' \in {"request", "claim"})
    BY <1>2, TrayFrame
  <2>5. SlotHeld' /\ StopAnnounced' /\ StopHandshake'
    BY <2>2, <2>4 DEF IInv, SlotHeld, StopAnnounced, StopHandshake, Leaving, ClosePosted
  <2> QED BY <2>1, <2>3, <2>5 DEF IInv
<1>3. CASE UNCHANGED appVars
  <2>1. UNCHANGED vars
    BY <1>3 DEF appVars
  <2> QED BY <2>1, IInvStep
<1> QED BY <1>1, <1>2, <1>3 DEF AppNext

(* The tray's handlers: what each does to the call in progress.            *)
LEMMA TrayMoves ==
  ASSUME App!Next
  PROVE  /\ \/ UNCHANGED <<task, call, restarting>>
            \/ /\ task # "idle" /\ call = "none" /\ UNCHANGED <<call, restarting>>
               /\ task' = "idle" \/ (task = "quit" /\ task' = "exited")
            \/ /\ task = "idle" /\ call = "none"
               /\ \/ task' \in {"stop", "fail", "quit"} /\ call' = "request" /\ ~restarting'
                  \/ task' = "start" /\ call' = "claim" /\ ~restarting' /\ ~running
                  \/ task' \in {"restart", "config"} /\ call' = "request" /\ restarting'
         /\ \/ statusQ' = statusQ
            \/ task = "idle" /\ call = "none" /\ statusQ # <<>> /\ statusQ' = Tail(statusQ)
<1> USE DEF App!Enter, App!Stop, App!Start, App!Restart, App!Returned
<1>1. CASE App!Launched \/ App!FailureReported \/ App!Stopped \/ App!Started \/ App!Restarted
           \/ App!Exited \/ App!Reconfigured \/ App!User
  BY <1>1 DEF App!Launched, App!FailureReported, App!Stopped, App!Started, App!Restarted,
     App!Exited, App!Reconfigured, App!User, App!Save, App!Click
<1>2. CASE App!OnStatus
  BY <1>2 DEF App!OnStatus
<1>3. CASE App!OnClick
  BY <1>3 DEF App!OnClick
<1>4. CASE App!OnConfig
  BY <1>4 DEF App!OnConfig
<1> QED BY <1>1, <1>2, <1>3, <1>4 DEF App!Next, App!EventLoop

(* What callbacks and the environment leave alone.                         *)
LEMMA CallbackFrame ==
  ASSUME NEW t \in LogThreads, Callback(t)
  PROVE  UNCHANGED <<place, run, call, restarting, result, running, stop_req, core, win, quit,
                     CB_HWND, visible, device>>
BY PlaceKept DEF Callback, LogSwap, LogSend

LEMMA EnvironmentFrame ==
  ASSUME Environment
  PROVE  UNCHANGED <<place, run, call, restarting, result, running, stop_req, CB_HWND, msgs, win,
                     flags, statusQ, CONNECTED>>
BY PlaceKept DEF Environment, CoreServes, SinkShows, UserCloses, LogLine

(* The three steps of the callback, for the thread that takes them.        *)
LEMMA LogSwapMoves ==
  ASSUME TypeOK, NEW t \in LogThreads, LogSwap(t)
  PROVE  /\ log[t].at = "gated" /\ \A u \in LogThreads : u # t => log'[u] = log[u]
         /\ \/ /\ Gates(t, "fatal") /\ Sends(t, "Off")' /\ START_FAILED' /\ failed' = run
               /\ UNCHANGED <<PIN_IGNORED, CONNECTED>>
            \/ /\ Gates(t, "pin") /\ UNCHANGED <<START_FAILED, failed, CONNECTED>>
               /\ (log'[t] = Idle /\ UNCHANGED PIN_IGNORED) \/ Sends(t, "Ready")'
            \/ /\ Gates(t, "connect") /\ CONNECTED' /\ UNCHANGED flags
               /\ (log'[t] = Idle /\ CONNECTED) \/ Sends(t, "post CONNECTED")'
            \/ /\ Gates(t, "teardown") /\ ~CONNECTED' /\ UNCHANGED flags
               /\ (log'[t] = Idle /\ ~CONNECTED) \/ Sends(t, "post DISCONNECTED")'
<1>0. TypeFlags /\ log \in [LogThreads -> LogStates]
  BY DEF TypeOK
<1>1. ASSUME NEW s, log' = [log EXCEPT ![t] = s]
      PROVE  log'[t] = s /\ \A u \in LogThreads : u # t => log'[u] = log[u]
  BY <1>0, <1>1
<1>2. ASSUME NEW out, Finish(t, out)
      PROVE  Sends(t, out)' /\ \A u \in LogThreads : u # t => log'[u] = log[u]
  BY <1>1, <1>2 DEF Finish, Sending, Sends
<1> QED BY <1>0, <1>1, <1>2 DEF LogSwap, Gates, TypeFlags

LEMMA LogSendMoves ==
  ASSUME TypeOK, NEW t \in LogThreads, LogSend(t)
  PROVE  /\ log[t].at = "send" /\ log'[t] = Idle
         /\ \A u \in LogThreads : u # t => log'[u] = log[u]
BY DEF LogSend, TypeOK

LEMMA LogLineMoves ==
  ASSUME TypeOK, NEW t \in LogThreads, NEW line \in Lines, LogLine(t, line)
  PROVE  /\ log[t] = Idle /\ \A u \in LogThreads : u # t => log'[u] = log[u]
         /\ IF CB_HWND = 0 THEN log'[t] = Idle ELSE Gates(t, line)'
BY DEF LogLine, TypeOK, Gated, Gates

LEMMA IdleIsQuiet == Idle.at = "idle"
BY DEF Idle

(* -- The calls the handlers wait for.                                     *)

CallsOfTasks ==
  /\ result = "ok"
  /\ task \in {"idle", "exited"} => call = "none"
  /\ task \in {"stop", "fail", "quit"} =>
       call \in Stops \cup {"none"} /\ ~restarting /\ (call = "none" => place = "none")
  /\ task \in {"launch", "start"} => call \in {"claim", "spawn", "none"}
  /\ task \in {"restart", "config"} /\ call \in Stops => restarting
  /\ restarting => call \in Stops
  /\ call = "claim" => ~running

(* A worker that sees stop_req is one that a call is waiting for.          *)
StopSeen == stop_req /\ place # "none" => call \in {"post", "join"}

LEMMA CallsStep ==
  ASSUME FailuresAreReported, IInv, CallsOfTasks, [AppNext]_appVars
  PROVE  CallsOfTasks'
<1> USE DEF CallsOfTasks, Stops
<1>0. TypeOK /\ call \in Calls
  BY DEF IInv, TypeOK
<1>1. CASE App!Next /\ UNCHANGED engine
  BY <1>1, TrayMoves, TrayFrame, PlaceKept
<1>2. CASE TrayThread /\ UNCHANGED trayOwn
  <2>1. CASE StopRequest \/ StopPost
    BY <1>2, <2>1, PlaceOfTrayThread DEF StopRequest, StopPost
  <2>2. CASE StartClaim
    BY <1>2, <2>2, PlaceOfTrayThread DEF StartClaim
  <2>4. CASE StopJoin
    <3>1. UNCHANGED <<result, task, place>> /\ place = "none" /\ ~running'
      BY <1>2, <2>4, PlaceOfTrayThread DEF StopJoin
    <3>2. call = "join" /\ ~restarting' /\ call' = IF restarting THEN "claim" ELSE "none"
      BY <2>4 DEF StopJoin
    <3> QED BY <3>1, <3>2
  <2>3. CASE StartSpawn
    BY <1>2, <2>3, PlaceOfTrayThread DEF StartSpawn, FailuresAreReported
  <2> QED BY <1>2, <2>1, <2>2, <2>3, <2>4 DEF TrayThread
<1>3. ASSUME NEW r \in DOMAIN worker, Worker(r), UNCHANGED trayOwn PROVE CallsOfTasks'
  <2>1. UNCHANGED <<result, call, restarting, task>> /\ place # "none"
    BY <1>3, PlaceOfWorker DEF Worker, NoWindow, CreateWindow, StandDown, PrepareRun, LoadFails,
       SetupEngine, Announce, PumpMessage, HideTimer, PumpExit, Unhook, ClearConnected,
       StopCore, Destroy, ReportOff
  <2>2. running' => running
    <3>1. Announce(r) => running
      BY <1>0, PlaceOfWorker, PlaceFacts DEF Announce, IInv, SlotHeld
    <3> QED
      BY <1>3, <3>1 DEF Worker, NoWindow, CreateWindow, StandDown, PrepareRun, LoadFails,
         SetupEngine, PumpMessage, HideTimer, PumpExit, Unhook, ClearConnected,
         StopCore, Destroy, ReportOff
  <2> QED BY <2>1, <2>2
<1>4. ASSUME NEW t \in LogThreads, Callback(t), UNCHANGED trayOwn PROVE CallsOfTasks'
  BY <1>4, CallbackFrame
<1>5. CASE Environment /\ UNCHANGED trayOwn
  BY <1>5, EnvironmentFrame
<1>6. CASE UNCHANGED appVars
  BY <1>6, PlaceKept DEF appVars, vars
<1> QED BY <1>1, <1>2, <1>3, <1>4, <1>5, <1>6 DEF AppNext, EngineNext

LEMMA StopSeenStep ==
  ASSUME FailuresAreReported, IInv, CallsOfTasks, StopSeen, [AppNext]_appVars
  PROVE  StopSeen'
<1> USE DEF StopSeen, CallsOfTasks
<1>1. CASE App!Next /\ UNCHANGED engine
  BY <1>1, TrayMoves, PlaceKept
<1>2. CASE TrayThread /\ UNCHANGED trayOwn
  <2>1. CASE StopRequest \/ StopPost \/ StopJoin \/ StartClaim
    BY <1>2, <2>1, PlaceOfTrayThread DEF StopRequest, StopPost, StopJoin, StartClaim
  <2>2. CASE StartSpawn
    BY <2>2 DEF StartSpawn
  <2> QED BY <1>2, <2>1, <2>2 DEF TrayThread
<1>3. ASSUME NEW r \in DOMAIN worker, Worker(r), UNCHANGED trayOwn PROVE StopSeen'
  <2>1. UNCHANGED <<stop_req, call>> /\ place # "none"
    BY <1>3, PlaceOfWorker DEF Worker, NoWindow, CreateWindow, StandDown, PrepareRun, LoadFails,
       SetupEngine, Announce, PumpMessage, HideTimer, PumpExit, Unhook, ClearConnected,
       StopCore, Destroy, ReportOff
  <2> QED BY <2>1
<1>4. ASSUME NEW t \in LogThreads, Callback(t), UNCHANGED trayOwn PROVE StopSeen'
  BY <1>4, CallbackFrame
<1>5. CASE Environment /\ UNCHANGED trayOwn
  BY <1>5, EnvironmentFrame
<1>6. CASE UNCHANGED appVars
  BY <1>6, PlaceKept DEF appVars, vars
<1> QED BY <1>1, <1>2, <1>3, <1>4, <1>5, <1>6 DEF AppNext, EngineNext

(* -- What the tray has been told, or will be.                             *)

(* A call that has started an engine is followed by a status: the worker   *)
(* has yet to announce itself, or its announcement is in the channel.      *)
Told ==
  task \in Starting /\ call = "none" =>
    place \in Fresh \/ statusQ # <<>> \/ (task = "launch" /\ run = 0)

LEMMA ToldStep ==
  ASSUME FailuresAreReported, IInv, CallsOfTasks, StopSeen, Told, [AppNext]_appVars
  PROVE  Told'
<1> USE DEF Told, Starting, Fresh
<1>0. TypeOK /\ statusQ \in Seq(Statuses)
  BY DEF IInv, TypeOK
<1>1. CASE App!Next /\ UNCHANGED engine
  BY <1>1, TrayMoves, PlaceKept
<1>2. CASE TrayThread /\ UNCHANGED trayOwn
  <2>1. CASE StopRequest \/ StopPost
    BY <1>2, <2>1, PlaceOfTrayThread DEF StopRequest, StopPost
  <2>2. CASE StopJoin
    BY <1>2, <2>2 DEF StopJoin, CallsOfTasks, Stops
  <2>3. CASE StartClaim
    BY <1>2, <2>3 DEF StartClaim, CallsOfTasks
  <2>4. CASE StartSpawn
    BY <1>2, <2>4, PlaceOfTrayThread DEF StartSpawn, FailuresAreReported
  <2> QED BY <1>2, <2>1, <2>2, <2>3, <2>4 DEF TrayThread
<1>3. ASSUME NEW r \in DOMAIN worker, Worker(r), UNCHANGED trayOwn PROVE Told'
  <2>0. UNCHANGED <<task, call>>
    BY <1>3 DEF Worker, NoWindow, CreateWindow, StandDown, PrepareRun, LoadFails,
       SetupEngine, Announce, PumpMessage, HideTimer, PumpExit, Unhook, ClearConnected,
       StopCore, Destroy, ReportOff
  <2>1. CASE Announce(r) \/ PumpMessage(r) \/ ReportOff(r)
    <3>1. statusQ' # <<>> \/ (UNCHANGED <<statusQ, threads>>)
      BY <1>0, <2>1, SendStatus DEF Announce, PumpMessage, ReportOff
    <3>2. run' = run
      BY <2>1 DEF Announce, PumpMessage, ReportOff
    <3> QED BY <2>0, <3>1, <3>2, PlaceKept
  <2>2. CASE StandDown(r)
    BY <2>0, <2>2, PlaceOfWorker DEF StandDown, StopSeen
  <2>3. CASE CreateWindow(r) \/ PrepareRun(r) \/ SetupEngine(r) \/ HideTimer(r)
    <3>1. place' \in Fresh \/ UNCHANGED place
      BY <2>3, PlaceOfWorker, PlaceKept DEF CreateWindow, PrepareRun, SetupEngine, HideTimer
    <3>2. UNCHANGED <<statusQ, run>>
      BY <2>3 DEF CreateWindow, PrepareRun, SetupEngine, HideTimer
    <3> QED BY <2>0, <3>1, <3>2
  <2>4. CASE PumpExit(r) \/ Unhook(r) \/ ClearConnected(r) \/ StopCore(r) \/ Destroy(r)
    <3>1. place \notin Fresh /\ UNCHANGED <<statusQ, run>>
      BY <2>4, PlaceOfWorker DEF PumpExit, Unhook, ClearConnected, StopCore, Destroy
    <3> QED BY <2>0, <3>1
  <2>5. ~NoWindow(r) /\ ~LoadFails(r)
    BY DEF NoWindow, LoadFails, FailuresAreReported
  <2> QED BY <1>3, <2>1, <2>2, <2>3, <2>4, <2>5 DEF Worker
<1>4. ASSUME NEW t \in LogThreads, Callback(t), UNCHANGED trayOwn PROVE Told'
  <2>1. statusQ' # <<>> \/ UNCHANGED statusQ
    BY <1>0, <1>4, SendStatus DEF Callback, LogSwap, LogSend
  <2> QED BY <1>4, <2>1, CallbackFrame
<1>5. CASE Environment /\ UNCHANGED trayOwn
  BY <1>5, EnvironmentFrame
<1>6. CASE UNCHANGED appVars
  BY <1>6, PlaceKept DEF appVars, vars
<1> QED BY <1>1, <1>2, <1>3, <1>4, <1>5, <1>6 DEF AppNext, EngineNext

(* A run that is over has said so last, and the tray follows.              *)
QueueEndsOff ==
  /\ place \in {"none", "spawned", "created", "prepared", "announce_err"} =>
       statusQ = <<>> \/ LastStatus = "Off"
  /\ place = "none" /\ task = "idle" /\ statusQ = <<>> => current_status = "Off"

LEMMA QueueEndsOffTray ==
  ASSUME IInv, CallsOfTasks, Told, QueueEndsOff, App!Next, UNCHANGED engine
  PROVE  QueueEndsOff'
<1> USE DEF QueueEndsOff, App!Enter, App!Stop, App!Start, App!Restart, App!Returned
<1>0. UNCHANGED place /\ statusQ \in Seq(Statuses)
  BY PlaceKept DEF IInv, TypeOK
<1>1. CASE App!OnStatus
  <2>1. statusQ # <<>> /\ statusQ' = Tail(statusQ)
    BY <1>1 DEF App!OnStatus
  <2>2. task' = "idle" => current_status' = Head(statusQ)
    BY <1>1 DEF App!OnStatus
  <2> QED BY <1>0, <2>1, <2>2, TakeStatus
<1>2. CASE App!Launched
  <2>1. task = "launch" /\ call = "none" /\ UNCHANGED statusQ
        /\ current_status' = IF running THEN "Ready" ELSE "Off"
    BY <1>2 DEF App!Launched
  <2>2. place = "none" => ~running
    BY <2>1, PlaceFacts
  <2> QED BY <1>0, <2>1, <2>2 DEF LastStatus
<1>3. CASE App!FailureReported \/ App!Stopped
  BY <1>0, <1>3 DEF App!FailureReported, App!Stopped, LastStatus
<1>4. CASE App!Started \/ App!Restarted \/ App!Reconfigured
  <2>1. task \in {"start", "restart", "config"} /\ call = "none" /\ UNCHANGED statusQ
    BY <1>4 DEF App!Started, App!Restarted, App!Reconfigured
  <2>2. place = "none" => statusQ # <<>>
    BY <2>1 DEF Told, Starting, Fresh
  <2> QED BY <1>0, <2>1, <2>2 DEF LastStatus
<1>5. CASE App!Exited \/ App!User
  BY <1>0, <1>5 DEF App!Exited, App!User, App!Save, App!Click, LastStatus
<1>6. CASE App!OnClick
  BY <1>0, <1>6 DEF App!OnClick, LastStatus
<1>7. CASE App!OnConfig
  BY <1>0, <1>7 DEF App!OnConfig, LastStatus
<1> QED BY <1>1, <1>2, <1>3, <1>4, <1>5, <1>6, <1>7 DEF App!Next, App!EventLoop

LEMMA QueueEndsOffStep ==
  ASSUME FailuresAreReported, IInv, CallsOfTasks, StopSeen, Told, QueueEndsOff,
         [AppNext]_appVars
  PROVE  QueueEndsOff'
<1> USE DEF QueueEndsOff, LastStatus
<1>0. TypeOK /\ statusQ \in Seq(Statuses)
  BY DEF IInv, TypeOK
<1>1. CASE App!Next /\ UNCHANGED engine
  BY <1>1, QueueEndsOffTray
<1>2. CASE TrayThread /\ UNCHANGED trayOwn
  <2>1. UNCHANGED <<task, statusQ, current_status>>
        /\ (place' = place \/ (place = "none" /\ place' = "spawned"))
    BY <1>2, PlaceOfTrayThread DEF TrayThread, StopRequest, StopPost, StopJoin, StartClaim,
       StartSpawn, FailuresAreReported
  <2> QED BY <2>1
<1>3. ASSUME NEW r \in DOMAIN worker, Worker(r), UNCHANGED trayOwn PROVE QueueEndsOff'
  <2>1. CASE Announce(r)
    <3>1. place' = "pump"
      BY <2>1, PlaceOfWorker DEF Announce
    <3> QED BY <3>1
  <2>2. CASE PumpMessage(r) \/ HideTimer(r)
    <3>1. place = "pump" /\ place' = "pump"
      BY <2>2, PlaceOfWorker, PlaceKept DEF PumpMessage, HideTimer
    <3> QED BY <3>1
  <2>3. CASE StandDown(r)
    <3>1. place = "created" /\ place' = "none" /\ stop_req /\ UNCHANGED statusQ
      BY <2>3, PlaceOfWorker DEF StandDown
    <3>2. task # "idle"
      BY <3>1 DEF StopSeen, CallsOfTasks
    <3> QED BY <1>3, <3>1, <3>2
  <2>4. CASE CreateWindow(r) \/ PrepareRun(r) \/ SetupEngine(r)
    <3>1. place \in {"spawned", "created", "prepared"} /\ place' # "none" /\ UNCHANGED statusQ
      BY <2>4, PlaceOfWorker DEF CreateWindow, PrepareRun, SetupEngine
    <3> QED BY <1>3, <3>1
  <2>5. CASE PumpExit(r) \/ Unhook(r) \/ ClearConnected(r) \/ StopCore(r) \/ Destroy(r)
    <3>1. place' \in {"unhook", "clear", "stopping", "destroy", "closing"}
      BY <2>5, PlaceOfWorker DEF PumpExit, Unhook, ClearConnected, StopCore, Destroy
    <3> QED BY <3>1
  <2>6. CASE ReportOff(r)
    <3>1. Send("Off")
      BY <2>6 DEF ReportOff
    <3> QED BY <1>0, <3>1, SendStatus
  <2>7. ~NoWindow(r) /\ ~LoadFails(r)
    BY DEF NoWindow, LoadFails, FailuresAreReported
  <2> QED BY <1>3, <2>1, <2>2, <2>3, <2>4, <2>5, <2>6, <2>7 DEF Worker
<1>4. ASSUME NEW t \in LogThreads, Callback(t), UNCHANGED trayOwn PROVE QueueEndsOff'
  <2>1. log[t] # Idle
    BY <1>4, IdleIsQuiet DEF Callback, LogSwap, LogSend
  <2>2. place \in Driving
    BY <2>1, PlaceFacts DEF IInv, LogFollowsCore
  <2> QED BY <1>4, <2>2, CallbackFrame DEF Driving
<1>5. CASE Environment /\ UNCHANGED trayOwn
  BY <1>5, EnvironmentFrame
<1>6. CASE UNCHANGED appVars
  BY <1>6, PlaceKept DEF appVars, vars
<1> QED BY <1>1, <1>2, <1>3, <1>4, <1>5, <1>6 DEF AppNext, EngineNext

(* -- Failures.                                                            *)

(* failed names the run that failed, the newest if any; an engine that is  *)
(* up has not failed, and no flag of an earlier run is held against it.    *)
FailedRun ==
  /\ failed <= run
  /\ \A t \in LogThreads : Sends(t, "Off") \/ Gates(t, "fatal") => core = "failed"
  /\ core \in Up => failed # run /\ ~START_FAILED
  /\ place \in {"spawned", "created", "prepared"} => failed # run
  /\ place = "prepared" => ~START_FAILED
  /\ place \in {"announce_ok", "pump"} =>
       core \in Up \/ failed = run \/ \E t \in LogThreads : Gates(t, "fatal")
  /\ place = "announce_err" => failed = run /\ core = "off"

HookSet == place \in {"announce_ok", "announce_err", "pump"} => CB_HWND = run

LEMMA HookSetStep ==
  ASSUME IInv, HookSet, [AppNext]_appVars PROVE HookSet'
<1> USE DEF HookSet
<1>1. CASE App!Next /\ UNCHANGED engine
  BY <1>1, PlaceKept
<1>2. CASE TrayThread /\ UNCHANGED trayOwn
  <2>1. CASE StopRequest \/ StopPost \/ StopJoin \/ StartClaim
    BY <1>2, <2>1, PlaceOfTrayThread DEF StopRequest, StopPost, StopJoin, StartClaim
  <2>2. CASE StartSpawn
    <3>1. place = "none" /\ (place' = "spawned" \/ place' = place)
      <4>1. UNCHANGED threads \/ place' = "spawned"
        <5>1. ASSUME run' = run + 1,
                     worker' = [r \in DOMAIN worker \cup {run'} |->
                                  IF r = run' THEN "spawned" ELSE worker[r]]
              PROVE  place' = "spawned"
          <6>1. run' \in DOMAIN worker' /\ worker'[run'] = "spawned"
            BY <5>1
          <6> QED BY <6>1 DEF place
        <5> QED BY <2>2, <5>1 DEF StartSpawn
      <4> QED BY <1>2, <2>2, <4>1, PlaceKept, PlaceOfTrayThread
    <3> QED BY <3>1
  <2> QED BY <1>2, <2>1, <2>2 DEF TrayThread
<1>3. ASSUME NEW r \in DOMAIN worker, Worker(r) PROVE HookSet'
  <2>1. place = "prepared" => CB_HWND = run
    BY <1>3, PlaceOfWorker DEF IInv, WindowFollowsWorker, place
  <2>2. CASE SetupEngine(r) \/ Announce(r) \/ PumpMessage(r) \/ HideTimer(r)
    <3>1. place \in {"prepared", "announce_ok", "announce_err", "pump"}
          /\ UNCHANGED <<CB_HWND, run>>
      BY <2>2, PlaceOfWorker DEF SetupEngine, Announce, PumpMessage, HideTimer
    <3> QED BY <2>1, <3>1
  <2>3. CASE ~(SetupEngine(r) \/ Announce(r) \/ PumpMessage(r) \/ HideTimer(r))
    <3>1. place' \in {"none", "created", "prepared", "unhook", "clear", "stopping", "destroy",
                      "closing"}
      BY <1>3, <2>3, PlaceOfWorker DEF Worker, NoWindow, CreateWindow, StandDown, PrepareRun,
         LoadFails, PumpExit, Unhook, ClearConnected, StopCore, Destroy, ReportOff
    <3> QED BY <3>1
  <2> QED BY <2>2, <2>3
<1>4. ASSUME NEW t \in LogThreads, Callback(t) PROVE HookSet'
  BY <1>4, CallbackFrame
<1>5. CASE Environment
  BY <1>5, EnvironmentFrame
<1>6. CASE UNCHANGED appVars
  BY <1>6, PlaceKept DEF appVars, vars
<1> QED BY <1>1, <1>2, <1>3, <1>4, <1>5, <1>6 DEF AppNext, EngineNext

LEMMA FailedRunStep ==
  ASSUME FailuresAreReported, IInv, HookSet, FailedRun, [AppNext]_appVars
  PROVE  FailedRun'
<1> USE DEF FailedRun, Up
<1>0. TypeOK /\ failed \in Nat /\ run \in Nat
  BY DEF IInv, TypeOK
<1>1. CASE App!Next /\ UNCHANGED engine
  <2>1. UNCHANGED <<failed, run, place, core, log>>
    BY <1>1, PlaceKept
  <2>2. START_FAILED' => START_FAILED
    BY <1>1, TrayFrame
  <2> QED BY <2>1, <2>2 DEF Sends, Gates
<1>2. CASE TrayThread /\ UNCHANGED trayOwn
  <2>1. UNCHANGED <<failed, core, log, START_FAILED>>
    BY <1>2 DEF TrayThread, StopRequest, StopPost, StopJoin, StartClaim, StartSpawn
  <2>2. CASE UNCHANGED <<place, run>>
    BY <2>1, <2>2 DEF Sends, Gates
  <2>3. CASE StartSpawn
    <3>1. place' = "spawned" /\ run' = run + 1 /\ core = "off"
      <4>1. place = "none" /\ place' = "spawned" /\ run' = run + 1
        BY <1>2, <2>3, PlaceOfTrayThread DEF FailuresAreReported
      <4> QED BY <1>0, <4>1, PlaceFacts DEF Driving, TypeOK
    <3>2. failed < run'
      BY <1>0, <3>1
    <3> QED BY <1>0, <2>1, <3>1, <3>2 DEF Sends, Gates
  <2> QED
    BY <1>2, <2>2, <2>3, PlaceOfTrayThread DEF TrayThread, StopRequest, StopPost, StopJoin,
       StartClaim
<1>3. ASSUME NEW r \in DOMAIN worker, Worker(r) PROVE FailedRun'
  <2>0. UNCHANGED <<log, run>>
    BY <1>3 DEF Worker, NoWindow, CreateWindow, StandDown, PrepareRun, LoadFails,
       SetupEngine, Announce, PumpMessage, HideTimer, PumpExit, Unhook, ClearConnected,
       StopCore, Destroy, ReportOff
  <2>1. CASE PrepareRun(r)
    <3>1. /\ place = "created" /\ place' = "prepared" /\ ~START_FAILED'
          /\ UNCHANGED <<failed, core>>
      BY <2>1, PlaceOfWorker DEF PrepareRun
    <3> QED BY <2>0, <3>1 DEF Sends, Gates
  <2>2. CASE SetupEngine(r)
    <3>1. place = "prepared" /\ r = run /\ core = "off" /\ \A t \in LogThreads : log[t] = Idle
      <4>1. place = "prepared" /\ r = run
        BY <2>2, PlaceOfWorker DEF SetupEngine
      <4>2. core = "off"
        BY <1>0, <4>1, PlaceFacts DEF Driving, TypeOK
      <4> QED BY <4>1, <4>2, PlaceFacts
    <3>2. \A t \in LogThreads : ~Sends(t, "Off")' /\ ~Gates(t, "fatal")'
      BY <2>0, <3>1, IdleIsQuiet DEF Sends, Gates
    <3>3. \/ core' = "starting" /\ place' = "announce_ok" /\ UNCHANGED <<failed, START_FAILED>>
          \/ core' = core /\ place' = "announce_err" /\ failed' = r
      BY <2>2, PlaceOfWorker DEF SetupEngine
    <3> QED BY <1>0, <2>0, <3>1, <3>2, <3>3
  <2>3. CASE StopCore(r)
    <3>1. core' = "off" /\ place' = "destroy" /\ (\A t \in LogThreads : log[t] = Idle)
          /\ UNCHANGED failed
      BY <2>3, PlaceOfWorker DEF StopCore
    <3> QED BY <2>0, <3>1, IdleIsQuiet DEF Sends, Gates
  <2>4. CASE Announce(r)
    <3>1. place \in {"announce_ok", "announce_err"} /\ place' = "pump"
          /\ UNCHANGED <<failed, core, START_FAILED>>
      BY <2>4, PlaceOfWorker DEF Announce
    <3> QED BY <2>0, <3>1 DEF Sends, Gates
  <2>5. CASE PumpMessage(r) \/ HideTimer(r)
    <3>1. UNCHANGED <<place, failed, core, START_FAILED>>
      BY <2>5, PlaceKept DEF PumpMessage, HideTimer
    <3> QED BY <2>0, <3>1 DEF Sends, Gates
  <2>6. CASE CreateWindow(r)
    <3>1. place = "spawned" /\ place' = "created" /\ UNCHANGED <<failed, core, START_FAILED>>
      BY <2>6, PlaceOfWorker DEF CreateWindow
    <3> QED BY <2>0, <3>1 DEF Sends, Gates
  <2>7. CASE StandDown(r) \/ PumpExit(r) \/ Unhook(r) \/ ClearConnected(r) \/ Destroy(r)
             \/ ReportOff(r)
    <3>1. /\ place' \in {"none", "unhook", "clear", "stopping", "closing"}
          /\ UNCHANGED <<failed, core, START_FAILED>>
      BY <2>7, PlaceOfWorker DEF StandDown, PumpExit, Unhook, ClearConnected, Destroy, ReportOff
    <3> QED BY <2>0, <3>1 DEF Sends, Gates
  <2>8. ~NoWindow(r) /\ ~LoadFails(r)
    BY DEF NoWindow, LoadFails, FailuresAreReported
  <2> QED BY <1>3, <2>1, <2>2, <2>3, <2>4, <2>5, <2>6, <2>7, <2>8 DEF Worker
<1>4. ASSUME NEW t \in LogThreads, Callback(t) PROVE FailedRun'
  <2>0. UNCHANGED <<place, run, core>>
    BY <1>4, CallbackFrame
  <2>1. CASE LogSwap(t)
    <3>1. log[t].at = "gated" /\ \A u \in LogThreads : u # t => log'[u] = log[u]
      BY <1>0, <2>1, LogSwapMoves
    <3>2. CASE Gates(t, "fatal") /\ Sends(t, "Off")' /\ failed' = run
      <4>1. core = "failed" /\ place \in Driving
        BY <3>2, PlaceFacts
      <4> QED BY <1>0, <2>0, <3>1, <3>2, <4>1 DEF Driving, Sends, Gates
    <3>3. CASE /\ ~Gates(t, "fatal") /\ ~Sends(t, "Off")' /\ ~Gates(t, "fatal")'
               /\ UNCHANGED <<failed, START_FAILED>>
      BY <2>0, <3>1, <3>3 DEF Sends, Gates
    <3> QED BY <1>0, <2>1, <3>2, <3>3, LogSwapMoves, IdleIsQuiet DEF Sends, Gates
  <2>2. CASE LogSend(t)
    <3>1. log[t].at = "send" /\ log'[t] = Idle /\ UNCHANGED flags
          /\ \A u \in LogThreads : u # t => log'[u] = log[u]
      BY <1>0, <2>2, LogSendMoves DEF LogSend
    <3> QED BY <2>0, <3>1, IdleIsQuiet DEF Sends, Gates
  <2> QED BY <1>4, <2>1, <2>2 DEF Callback
<1>5. CASE Environment
  <2>0. UNCHANGED <<place, run, flags>>
    BY <1>5, EnvironmentFrame
  <2>1. CASE CoreServes
    BY <2>0, <2>1 DEF CoreServes, Sends, Gates
  <2>2. CASE SinkShows \/ \E r \in DOMAIN worker : UserCloses(r)
    BY <2>0, <2>2 DEF SinkShows, UserCloses, Sends, Gates
  <2>3. ASSUME NEW t \in LogThreads, NEW line \in Lines, LogLine(t, line) PROVE FailedRun'
    <3>1. log[t] = Idle /\ (\A u \in LogThreads : u # t => log'[u] = log[u])
          /\ IF CB_HWND = 0 THEN log'[t] = Idle ELSE Gates(t, line)'
      BY <1>0, <2>3, LogLineMoves
    <3>2. core \in Up /\ core' = IF line = "fatal" THEN "failed" ELSE core
      BY <2>3 DEF LogLine, Logs
    <3>3. \A u \in LogThreads : ~Sends(u, "Off") /\ ~Gates(u, "fatal")
      BY <3>2
    <3>4. \A u \in LogThreads : ~Sends(u, "Off")' /\ (Gates(u, "fatal")' => line = "fatal")
      BY <3>1, <3>3, IdleIsQuiet DEF Sends, Gates
    <3>5. line = "fatal" /\ place \in {"announce_ok", "pump"} => Gates(t, "fatal")'
      <4>1. place \in {"announce_ok", "pump"} => CB_HWND # 0
        BY <1>0, PlaceFacts DEF HookSet, Windowed
      <4> QED BY <3>1, <4>1
    <3>6. place # "announce_err"
      BY <3>2, PlaceFacts DEF Driving
    <3> QED BY <2>0, <3>2, <3>4, <3>5, <3>6
  <2> QED BY <1>5, <2>1, <2>2, <2>3 DEF Environment
<1>6. CASE UNCHANGED appVars
  BY <1>6, PlaceKept DEF appVars, vars, Sends, Gates
<1> QED BY <1>1, <1>2, <1>3, <1>4, <1>5, <1>6 DEF AppNext, EngineNext

(* A failure of the newest run is on its way to the tray, being handled,   *)
(* latched for the menu with the run torn down, or about to be left behind *)
(* by a start under way.                                                   *)
FailureKnown ==
  failed = run /\ run > 0 =>
    \/ START_FAILED /\ (OffQueued \/ place = "announce_err"
                          \/ \E t \in LogThreads : Sends(t, "Off"))
    \/ task = "fail"
    \/ ENGINE_FAILED /\ place = "none" /\ task \notin Starting
    \/ task \in Starting /\ call # "none"

LEMMA FailureKnownTray ==
  ASSUME IInv, CallsOfTasks, FailureKnown, App!Next, UNCHANGED engine
  PROVE  FailureKnown'
<1> USE DEF FailureKnown, Starting, App!Enter, App!Stop, App!Start, App!Restart, App!Returned
<1>0. UNCHANGED <<failed, run, place, log>> /\ statusQ \in Seq(Statuses)
  BY PlaceKept DEF IInv, TypeOK
<1>1. CASE App!OnStatus
  <2>0. statusQ # <<>> /\ statusQ' = Tail(statusQ) /\ UNCHANGED ENGINE_FAILED /\ task = "idle"
    BY <1>1 DEF App!OnStatus
  <2>1. CASE task' = "fail"
    BY <2>1
  <2>2. CASE task' # "fail"
    <3>1. ~(Head(statusQ) = "Off" /\ START_FAILED) /\ UNCHANGED <<START_FAILED, task>>
      BY <1>1, <2>2 DEF App!OnStatus
    <3>2. START_FAILED /\ OffQueued => OffQueued'
      BY <1>0, <2>0, <3>1, TakeStatus
    <3> QED BY <1>0, <2>0, <3>1, <3>2 DEF Sends
  <2> QED BY <2>1, <2>2
<1>2. CASE App!FailureReported
  <2>1. ENGINE_FAILED' = TRUE /\ place = "none" /\ task' = "idle"
    BY <1>2 DEF App!FailureReported, CallsOfTasks
  <2> QED BY <1>0, <2>1
<1>3. CASE App!Launched \/ App!Started \/ App!Restarted \/ App!Reconfigured
  <2>1. UNCHANGED <<statusQ, START_FAILED>> /\ task \in Starting /\ call = "none"
    BY <1>3 DEF App!Launched, App!Started, App!Restarted, App!Reconfigured
  <2> QED BY <1>0, <2>1 DEF OffQueued, Sends
<1>4. CASE App!Stopped \/ App!Exited \/ App!User
  <2>1. UNCHANGED <<statusQ, START_FAILED, ENGINE_FAILED>>
        /\ (UNCHANGED <<task, call>> \/ (task \in {"stop", "quit"} /\ task' \in {"idle", "exited"}))
    BY <1>4 DEF App!Stopped, App!Exited, App!User, App!Save, App!Click
  <2> QED BY <1>0, <2>1 DEF OffQueued, Sends
<1>5. CASE App!OnClick \/ App!OnConfig
  <2>1. UNCHANGED <<statusQ, START_FAILED, ENGINE_FAILED>> /\ task = "idle" /\ call = "none"
        /\ (UNCHANGED task \/ task' \in {"stop", "quit"} \/ (task' \in Starting /\ call' # "none"))
    BY <1>5 DEF App!OnClick, App!OnConfig
  <2> QED BY <1>0, <2>1 DEF OffQueued, Sends
<1> QED BY <1>1, <1>2, <1>3, <1>4, <1>5 DEF App!Next, App!EventLoop

LEMMA FailureKnownStep ==
  ASSUME FailuresAreReported, IInv, CallsOfTasks, FailedRun, FailureKnown, [AppNext]_appVars
  PROVE  FailureKnown'
<1> USE DEF FailureKnown
<1>0. TypeOK /\ statusQ \in Seq(Statuses) /\ failed \in Nat /\ run \in Nat
  BY DEF IInv, TypeOK
<1>1. CASE App!Next /\ UNCHANGED engine
  BY <1>1, FailureKnownTray
<1>2. CASE TrayThread /\ UNCHANGED trayOwn
  <2>1. UNCHANGED <<failed, statusQ, START_FAILED, log>>
    BY <1>2 DEF TrayThread, StopRequest, StopPost, StopJoin, StartClaim, StartSpawn
  <2>2. CASE StopRequest \/ StopPost \/ StopJoin \/ StartClaim
    <3>1. UNCHANGED <<run, place>>
      BY <1>2, <2>2, PlaceOfTrayThread DEF StopRequest, StopPost, StopJoin, StartClaim
    <3>2. task \in Starting => call' # "none"
      BY <2>2 DEF StopRequest, StopPost, StopJoin, StartClaim, CallsOfTasks, Starting, Stops
    <3> QED BY <1>2, <2>1, <3>1, <3>2 DEF OffQueued, Sends
  <2>3. CASE StartSpawn
    <3>1. run' = run + 1
      BY <1>2, <2>3, PlaceOfTrayThread DEF FailuresAreReported
    <3>2. failed < run'
      BY <1>0, <3>1 DEF FailedRun
    <3> QED BY <1>0, <2>1, <3>1, <3>2
  <2> QED BY <1>2, <2>2, <2>3 DEF TrayThread
<1>3. ASSUME NEW r \in DOMAIN worker, Worker(r), UNCHANGED trayOwn PROVE FailureKnown'
  <2>0. UNCHANGED <<log, run, call>> /\ place # "none"
    BY <1>3, PlaceOfWorker DEF Worker, NoWindow, CreateWindow, StandDown, PrepareRun, LoadFails,
       SetupEngine, Announce, PumpMessage, HideTimer, PumpExit, Unhook, ClearConnected,
       StopCore, Destroy, ReportOff
  <2>1. CASE PrepareRun(r)
    <3>1. place = "created" /\ UNCHANGED failed
      BY <2>1, PlaceOfWorker DEF PrepareRun
    <3> QED BY <2>0, <3>1 DEF FailedRun
  <2>2. CASE SetupEngine(r)
    <3>1. place = "prepared"
          /\ (UNCHANGED failed \/ (START_FAILED' = TRUE /\ place' = "announce_err"))
      BY <2>2, PlaceOfWorker DEF SetupEngine
    <3> QED BY <2>0, <3>1 DEF FailedRun
  <2>3. CASE Announce(r)
    <3>1. Send(IF place = "announce_ok" THEN "Ready" ELSE "Off")
      BY <2>3, PlaceOfWorker DEF Announce
    <3>2. (OffQueued \/ place = "announce_err") => OffQueued'
      BY <1>0, <3>1, SendStatus
    <3>3. UNCHANGED flags
      BY <2>3 DEF Announce
    <3> QED BY <1>3, <2>0, <3>2, <3>3 DEF Sends
  <2>4. CASE \/ CreateWindow(r) \/ StandDown(r) \/ PumpMessage(r) \/ HideTimer(r) \/ PumpExit(r)
             \/ Unhook(r) \/ ClearConnected(r) \/ StopCore(r) \/ Destroy(r) \/ ReportOff(r)
    <3>1. place # "announce_err" /\ UNCHANGED flags
      BY <2>4, PlaceOfWorker DEF CreateWindow, StandDown, PumpMessage, HideTimer, PumpExit,
         Unhook, ClearConnected, StopCore, Destroy, ReportOff
    <3>2. UNCHANGED statusQ \/ \E s \in Statuses : Send(s)
      BY <2>4 DEF CreateWindow, StandDown, PumpMessage, HideTimer, PumpExit,
         Unhook, ClearConnected, StopCore, Destroy, ReportOff, Statuses
    <3>3. OffQueued => OffQueued'
      BY <1>0, <3>2, SendStatus DEF OffQueued
    <3> QED BY <1>3, <2>0, <3>1, <3>3 DEF Sends
  <2>5. ~NoWindow(r) /\ ~LoadFails(r)
    BY DEF NoWindow, LoadFails, FailuresAreReported
  <2> QED BY <1>3, <2>1, <2>2, <2>3, <2>4, <2>5 DEF Worker
<1>4. ASSUME NEW t \in LogThreads, Callback(t), UNCHANGED trayOwn PROVE FailureKnown'
  <2>0. UNCHANGED <<place, run, call>>
    BY <1>4, CallbackFrame
  <2>1. CASE LogSwap(t)
    <3>1. log[t].at = "gated" /\ (\A u \in LogThreads : u # t => log'[u] = log[u])
          /\ UNCHANGED statusQ
      BY <1>0, <2>1, LogSwapMoves DEF LogSwap
    <3>2. CASE Sends(t, "Off")' /\ START_FAILED'
      BY <3>2
    <3>3. CASE UNCHANGED <<failed, START_FAILED>>
      <4>1. \A u \in LogThreads : Sends(u, "Off") => Sends(u, "Off")'
        BY <3>1 DEF Sends
      <4> QED BY <1>4, <2>0, <3>1, <3>3, <4>1 DEF OffQueued
    <3> QED BY <1>0, <2>1, <3>2, <3>3, LogSwapMoves
  <2>2. CASE LogSend(t)
    <3>1. log'[t] = Idle /\ UNCHANGED flags
          /\ \A u \in LogThreads : u # t => log'[u] = log[u]
      BY <1>0, <2>2, LogSendMoves DEF LogSend
    <3>2. OffQueued \/ Sends(t, "Off") => OffQueued'
      <4>1. CASE log[t].out \in Statuses /\ Send(log[t].out)
        BY <1>0, <4>1, SendStatus DEF Sends
      <4>2. CASE log[t].out \in {"post CONNECTED", "post DISCONNECTED"} /\ UNCHANGED statusQ
        BY <4>2 DEF Sends, OffQueued
      <4> QED BY <2>2, <4>1, <4>2 DEF LogSend
    <3>3. ASSUME NEW u \in LogThreads, Sends(u, "Off") PROVE OffQueued' \/ Sends(u, "Off")'
      BY <3>1, <3>2, <3>3 DEF Sends
    <3> QED BY <1>4, <2>0, <3>1, <3>2, <3>3
  <2> QED BY <1>4, <2>1, <2>2 DEF Callback
<1>5. CASE Environment /\ UNCHANGED trayOwn
  <2>0. UNCHANGED <<place, run, call, flags, statusQ>>
    BY <1>5, EnvironmentFrame
  <2>1. ASSUME NEW u \in LogThreads, Sends(u, "Off") PROVE Sends(u, "Off")'
    <3>1. ASSUME NEW t \in LogThreads, NEW line \in Lines, LogLine(t, line)
          PROVE  Sends(u, "Off")'
      BY <1>0, <2>1, <3>1, LogLineMoves, IdleIsQuiet DEF Sends
    <3> QED BY <1>5, <2>1, <3>1 DEF Environment, CoreServes, SinkShows, UserCloses, Sends
  <2> QED BY <1>5, <2>0, <2>1 DEF OffQueued
<1>6. CASE UNCHANGED appVars
  BY <1>6, PlaceKept DEF appVars, vars, Sends, OffQueued
<1> QED BY <1>1, <1>2, <1>3, <1>4, <1>5, <1>6 DEF AppNext, EngineNext

(* -- The menu.                                                            *)

SendsStatus(t) == log[t].at = "send" /\ log[t].out \in Statuses

(* Not every handler rebuilds the menu, but each that does not leaves a    *)
(* status on its way, or an engine that has yet to announce itself.        *)
MenuCurrent ==
  /\ task = "idle" /\ statusQ = <<>> /\ place \in {"none", "pump"}
  /\ \A t \in LogThreads : ~SendsStatus(t)
  => shown = App!Menu(current_status, ENGINE_FAILED, current_status)

LEMMA MenuTray ==
  ASSUME IInv, CallsOfTasks, Told, MenuCurrent, App!Next, UNCHANGED engine
  PROVE  MenuCurrent'
<1> USE DEF MenuCurrent, App!Enter, App!Stop, App!Start, App!Restart, App!Returned, App!Menu,
        App!Rebuild
<1>0. UNCHANGED <<place, log, running, PIN_IGNORED>>
  BY PlaceKept, TrayFrame
<1>1. CASE App!Launched \/ App!FailureReported \/ App!Stopped \/ App!Started
  BY <1>0, <1>1 DEF App!Launched, App!FailureReported, App!Stopped, App!Started
<1>2. CASE App!OnStatus
  <2>1. CASE task' # "idle"
    BY <2>1
  <2>2. CASE task' = "idle"
    <3>1. current_status' = Head(statusQ) /\ UNCHANGED ENGINE_FAILED
          /\ App!Rebuild(Head(statusQ), ENGINE_FAILED, Head(statusQ))
      BY <1>2, <2>2 DEF App!OnStatus
    <3> QED BY <1>0, <3>1
  <2> QED BY <2>1, <2>2
<1>3. CASE App!Restarted \/ App!Reconfigured
  <2>1. task \in {"restart", "config"} /\ call = "none" /\ UNCHANGED statusQ
    BY <1>3 DEF App!Restarted, App!Reconfigured
  <2>2. place \in Fresh \/ statusQ # <<>>
    BY <2>1 DEF Told, Starting
  <2> QED BY <1>0, <2>1, <2>2 DEF Fresh
<1>4. CASE App!OnConfig
  <2>0. task = "idle" /\ UNCHANGED <<statusQ, current_status, ENGINE_FAILED>>
    BY <1>4 DEF App!OnConfig
  <2>1. CASE task' = "config"
    BY <2>1
  <2>2. CASE App!Rebuild(current_status, ENGINE_FAILED, shown.icon) /\ UNCHANGED task
    BY <1>0, <2>0, <2>2 DEF SendsStatus
  <2>3. CASE UNCHANGED <<task, shown>>
    BY <1>0, <2>0, <2>3 DEF SendsStatus
  <2> QED BY <1>4, <2>1, <2>2, <2>3 DEF App!OnConfig
<1>5. CASE App!OnClick \/ App!Exited
  <2>1. task' # "idle"
    BY <1>5 DEF App!OnClick, App!Exited
  <2> QED BY <2>1
<1>6. CASE App!User
  <2>1. UNCHANGED <<task, statusQ, shown, current_status, ENGINE_FAILED>>
    BY <1>6 DEF App!User, App!Save, App!Click
  <2> QED BY <1>0, <2>1 DEF SendsStatus
<1> QED BY <1>1, <1>2, <1>3, <1>4, <1>5, <1>6 DEF App!Next, App!EventLoop

LEMMA MenuStep ==
  ASSUME FailuresAreReported, IInv, CallsOfTasks, StopSeen, Told, MenuCurrent, [AppNext]_appVars
  PROVE  MenuCurrent'
<1> USE DEF MenuCurrent, App!Menu
<1>0. TypeOK /\ statusQ \in Seq(Statuses)
  BY DEF IInv, TypeOK
<1>1. CASE App!Next /\ UNCHANGED engine
  BY <1>1, MenuTray
<1>2. CASE TrayThread /\ UNCHANGED trayOwn
  <2>1. call # "none"
    BY <1>2 DEF TrayThread, StopRequest, StopPost, StopJoin, StartClaim, StartSpawn
  <2> QED BY <1>2, <2>1 DEF CallsOfTasks
<1>3. ASSUME NEW r \in DOMAIN worker, Worker(r), UNCHANGED trayOwn PROVE MenuCurrent'
  <2>1. CASE Announce(r) \/ ReportOff(r)
    <3>1. statusQ' # <<>>
      BY <1>0, <2>1, SendStatus DEF Announce, ReportOff
    <3> QED BY <3>1
  <2>2. CASE StandDown(r)
    <3>1. task # "idle"
      BY <2>2, PlaceOfWorker DEF StandDown, StopSeen, CallsOfTasks
    <3> QED BY <1>3, <3>1
  <2>3. CASE PumpMessage(r) \/ HideTimer(r)
    <3>1. statusQ' # <<>> \/ UNCHANGED statusQ
      BY <1>0, <2>3, SendStatus DEF PumpMessage, HideTimer
    <3>2. UNCHANGED <<place, running, PIN_IGNORED, log>>
      BY <2>3, PlaceKept DEF PumpMessage, HideTimer
    <3> QED BY <1>3, <3>1, <3>2 DEF SendsStatus
  <2>4. CASE CreateWindow(r) \/ PrepareRun(r) \/ SetupEngine(r) \/ PumpExit(r) \/ Unhook(r)
             \/ ClearConnected(r) \/ StopCore(r) \/ Destroy(r)
    <3>1. place' \notin {"none", "pump"}
      BY <2>4, PlaceOfWorker DEF CreateWindow, PrepareRun, SetupEngine, PumpExit, Unhook,
         ClearConnected, StopCore, Destroy
    <3> QED BY <3>1
  <2>5. ~NoWindow(r) /\ ~LoadFails(r)
    BY DEF NoWindow, LoadFails, FailuresAreReported
  <2> QED BY <1>3, <2>1, <2>2, <2>3, <2>4, <2>5 DEF Worker
<1>4. ASSUME NEW t \in LogThreads, Callback(t), UNCHANGED trayOwn PROVE MenuCurrent'
  <2>0. UNCHANGED <<place, running>>
    BY <1>4, CallbackFrame
  <2>1. CASE LogSwap(t)
    <3>0. log[t].at = "gated" /\ (\A u \in LogThreads : u # t => log'[u] = log[u])
          /\ UNCHANGED statusQ
      BY <1>0, <2>1, LogSwapMoves DEF LogSwap
    <3>1. UNCHANGED PIN_IGNORED \/ SendsStatus(t)'
      BY <1>0, <2>1, LogSwapMoves DEF SendsStatus, Sends, Statuses
    <3>2. \A u \in LogThreads : SendsStatus(u) => SendsStatus(u)'
      BY <3>0 DEF SendsStatus
    <3> QED BY <1>4, <2>0, <3>0, <3>1, <3>2
  <2>2. CASE LogSend(t)
    <3>0. log'[t] = Idle /\ UNCHANGED flags /\ \A u \in LogThreads : u # t => log'[u] = log[u]
      BY <1>0, <2>2, LogSendMoves DEF LogSend
    <3>1. CASE log[t].out \in Statuses /\ Send(log[t].out)
      BY <1>0, <3>1, SendStatus
    <3>2. CASE log[t].out \in {"post CONNECTED", "post DISCONNECTED"} /\ UNCHANGED statusQ
      <4>1. \A u \in LogThreads : SendsStatus(u) => SendsStatus(u)'
        BY <3>0, <3>2 DEF SendsStatus, Statuses
      <4> QED BY <1>4, <2>0, <3>0, <3>2, <4>1
    <3> QED BY <2>2, <3>1, <3>2 DEF LogSend
  <2> QED BY <1>4, <2>1, <2>2 DEF Callback
<1>5. CASE Environment /\ UNCHANGED trayOwn
  <2>0. UNCHANGED <<place, running, flags, statusQ>>
    BY <1>5, EnvironmentFrame
  <2>1. ASSUME NEW u \in LogThreads, SendsStatus(u) PROVE SendsStatus(u)'
    <3>1. ASSUME NEW t \in LogThreads, NEW line \in Lines, LogLine(t, line)
          PROVE  SendsStatus(u)'
      BY <1>0, <2>1, <3>1, LogLineMoves, IdleIsQuiet DEF SendsStatus
    <3> QED BY <1>5, <2>1, <3>1 DEF Environment, CoreServes, SinkShows, UserCloses, SendsStatus
  <2> QED BY <1>5, <2>0, <2>1
<1>6. CASE UNCHANGED appVars
  BY <1>6, PlaceKept DEF appVars, vars, SendsStatus
<1> QED BY <1>1, <1>2, <1>3, <1>4, <1>5, <1>6 DEF AppNext, EngineNext

(* -- The invariant of the app, whatever the number of logging threads.    *)

AppIInv ==
  /\ IInv /\ CallsOfTasks /\ StopSeen /\ Told /\ QueueEndsOff
  /\ HookSet /\ FailedRun /\ FailureKnown /\ MenuCurrent

LEMMA AppIInvInit == AppInit => AppIInv
<1> SUFFICES ASSUME AppInit PROVE AppIInv
  OBVIOUS
<1>0. EngineInit /\ call \in {"none", "claim"} /\ App!Init
  BY DEF AppInit
<1>1. IInv
  BY <1>0, IInvInit DEF EngineStart
<1>2. place = "none" /\ run = 0 /\ statusQ = <<>> /\ core = "off" /\ task = "launch"
  BY <1>0 DEF EngineInit, App!Init, place
<1>3. \A t \in LogThreads : log[t] = Idle
  BY <1>0 DEF EngineInit
<1>4. CallsOfTasks /\ StopSeen /\ Told /\ QueueEndsOff
  BY <1>0, <1>2 DEF EngineInit, CallsOfTasks, StopSeen, Told, QueueEndsOff, Stops
<1>5. HookSet /\ FailedRun /\ FailureKnown /\ MenuCurrent
  BY <1>0, <1>2, <1>3, IdleIsQuiet DEF EngineInit, HookSet, FailedRun, FailureKnown, MenuCurrent,
     Sends, Gates, Up
<1> QED BY <1>1, <1>4, <1>5 DEF AppIInv

LEMMA AppIInvStep ==
  ASSUME FailuresAreReported PROVE AppIInv /\ [AppNext]_appVars => AppIInv'
BY IInvAppStep, CallsStep, StopSeenStep, ToldStep, QueueEndsOffStep, HookSetStep, FailedRunStep,
   FailureKnownStep, MenuStep DEF AppIInv

(* The engine keeps its invariant when the tray drives it.                 *)
THEOREM EngineInvariantInApp == AppSpec => []IInv
<1>1. AppInit => IInv
  BY AppIInvInit DEF AppIInv
<1> QED BY <1>1, IInvAppStep, PTL DEF AppSpec

(* If failures are reported, the app keeps the invariant that relates the  *)
(* handler in progress, the worker, the status channel and the menu.       *)
THEOREM AppInvariantHolds == FailuresAreReported => (AppSpec => []AppIInv)
<1> SUFFICES ASSUME FailuresAreReported PROVE AppSpec => []AppIInv
  OBVIOUS
<1> QED BY AppIInvInit, AppIInvStep, PTL DEF AppSpec

LEMMA SettledFacts ==
  ASSUME IInv, Settled
  PROVE  /\ place \in {"none", "pump"} /\ task = "idle" /\ statusQ = <<>>
         /\ place = "pump" => msgs = <<>>
         /\ DOMAIN worker = {} <=> place = "none"
         /\ running <=> place # "none"
         /\ \A t \in LogThreads : log[t] = Idle
<1>1. place \in {"none", "pump"} /\ (place = "pump" => msgs = <<>>)
  BY DEF Settled, place
<1>2. call = "none" /\ task = "idle" /\ statusQ = <<>> /\ \A t \in LogThreads : log[t] = Idle
  BY DEF Settled
<1> QED BY <1>1, <1>2, PlaceFacts

(* The menu and the icon end up what build_menu would make of the state.   *)
THEOREM MenuSettlesHolds == FailuresAreReported => (AppSpec => []MenuSettles)
<1> SUFFICES ASSUME FailuresAreReported PROVE AppSpec => []MenuSettles
  OBVIOUS
<1>1. AppIInv => MenuSettles
  <2> SUFFICES ASSUME AppIInv, Settled
               PROVE  shown = App!Menu(current_status, ENGINE_FAILED, current_status)
    BY DEF MenuSettles
  <2>1. \A t \in LogThreads : ~SendsStatus(t)
    BY SettledFacts, IdleIsQuiet DEF AppIInv, SendsStatus
  <2> QED BY <2>1, SettledFacts DEF AppIInv, MenuCurrent
<1> QED BY <1>1, AppInvariantHolds, PTL

(* An engine that stopped because it failed says so in the menu.           *)
THEOREM FailureShownHolds == FailuresAreReported => (AppSpec => []FailureShown)
<1> SUFFICES ASSUME FailuresAreReported PROVE AppSpec => []FailureShown
  OBVIOUS
<1>1. AppIInv /\ MenuSettles => FailureShown
  <2> SUFFICES ASSUME AppIInv, MenuSettles, Settled, DOMAIN worker = {}, failed = run, run > 0
               PROVE  shown.warns = "failed"
    BY DEF FailureShown
  <2>1. place = "none" /\ ~running /\ task = "idle" /\ statusQ = <<>>
    BY SettledFacts DEF AppIInv
  <2>2. \A t \in LogThreads : ~Sends(t, "Off")
    BY SettledFacts, IdleIsQuiet DEF AppIInv, Sends
  <2>3. ENGINE_FAILED
    BY <2>1, <2>2 DEF AppIInv, FailureKnown, OffQueued, Starting
  <2> QED BY <2>1, <2>3 DEF MenuSettles, App!Menu
<1> QED BY <1>1, AppInvariantHolds, MenuSettlesHolds, PTL

(* -- The device: from its log line to the tray.                           *)

(* With several logging threads the message of an older line may be posted *)
(* after that of a newer one; what follows is about one logging thread.    *)
OneLogger == \A t, u \in LogThreads : t = u

(* What the window's queue still holds about the device, under any CLOSE.  *)
ConnFree == \A i \in 1..Len(msgs) : msgs[i] = "CLOSE"
Decides(m) ==
  \E i \in 1..Len(msgs) : msgs[i] = m /\ \A j \in (i + 1)..Len(msgs) : msgs[j] = "CLOSE"

LEMMA ConnFreeDecides ==
  /\ msgs = <<>> => ConnFree
  /\ \A m : m # "CLOSE" /\ ConnFree => ~Decides(m)
<1>1. ASSUME msgs = <<>> PROVE ConnFree
  <2>1. Len(<<>>) = 0
    OBVIOUS
  <2>2. Len(msgs) = 0
    BY <1>1, <2>1, Zenon
  <2> QED BY <2>2 DEF ConnFree
<1> QED BY <1>1 DEF ConnFree, Decides

LEMMA PostMessage ==
  ASSUME msgs \in Seq(Messages), NEW m \in Messages, msgs' = Append(msgs, m)
  PROVE  /\ m = "CLOSE" => (ConnFree' <=> ConnFree)
         /\ m # "CLOSE" => ~ConnFree'
         /\ \A n : n # "CLOSE" /\ Decides(n)' => IF m = "CLOSE" THEN Decides(n) ELSE n = m
<1>1. /\ Len(msgs') = Len(msgs) + 1 /\ msgs'[Len(msgs) + 1] = m /\ Len(msgs) \in Nat
      /\ \A i \in 1..Len(msgs) : msgs'[i] = msgs[i]
  OBVIOUS
<1>2. m = "CLOSE" => (ConnFree' <=> ConnFree)
  <2>1. ASSUME m = "CLOSE", ConnFree, NEW i \in 1..Len(msgs') PROVE msgs'[i] = "CLOSE"
    <3>1. i \in 1..Len(msgs) \/ i = Len(msgs) + 1
      BY <1>1
    <3> QED BY <1>1, <2>1, <3>1 DEF ConnFree
  <2>2. ASSUME ConnFree', NEW i \in 1..Len(msgs) PROVE msgs[i] = "CLOSE"
    <3>1. i \in 1..Len(msgs')
      BY <1>1
    <3> QED BY <1>1, <2>2, <3>1 DEF ConnFree
  <2> QED BY <2>1, <2>2 DEF ConnFree
<1>3. m # "CLOSE" => ~ConnFree'
  <2>1. Len(msgs) + 1 \in 1..Len(msgs')
    BY <1>1
  <2> QED BY <1>1, <2>1 DEF ConnFree
<1>4. ASSUME NEW n, n # "CLOSE", Decides(n)' PROVE IF m = "CLOSE" THEN Decides(n) ELSE n = m
  <2>1. PICK i \in 1..Len(msgs') :
          msgs'[i] = n /\ \A j \in (i + 1)..Len(msgs') : msgs'[j] = "CLOSE"
    BY <1>4 DEF Decides
  <2>2. CASE i = Len(msgs) + 1
    BY <1>1, <1>4, <2>1, <2>2
  <2>3. CASE i \in 1..Len(msgs)
    <3>1. Len(msgs) + 1 \in (i + 1)..Len(msgs')
      BY <1>1, <2>3
    <3>2. m = "CLOSE" /\ msgs[i] = n
      BY <1>1, <2>1, <2>3, <3>1
    <3>3. ASSUME NEW j \in (i + 1)..Len(msgs) PROVE msgs[j] = "CLOSE"
      <4>1. j \in (i + 1)..Len(msgs') /\ j \in 1..Len(msgs)
        BY <1>1, <2>3, <3>3
      <4> QED BY <1>1, <2>1, <4>1
    <3> QED BY <2>3, <3>2, <3>3 DEF Decides
  <2> QED BY <1>1, <2>1, <2>2, <2>3
<1> QED BY <1>2, <1>3, <1>4

LEMMA TakeMessage ==
  ASSUME msgs \in Seq(Messages), msgs # <<>>, msgs' = Tail(msgs)
  PROVE  /\ Head(msgs) \in Messages
         /\ ConnFree => ConnFree'
         /\ ConnFree' => IF Head(msgs) = "CLOSE" THEN ConnFree ELSE Decides(Head(msgs))
         /\ \A n : Decides(n)' => Decides(n)
<1>1. /\ Len(msgs') = Len(msgs) - 1 /\ Head(msgs) = msgs[1] /\ Len(msgs) \in Nat \ {0}
      /\ \A i \in 1..Len(msgs') : msgs'[i] = msgs[i + 1]
  OBVIOUS
<1>2. ConnFree => ConnFree'
  BY <1>1 DEF ConnFree
<1>3. ASSUME ConnFree' PROVE \A j \in 2..Len(msgs) : msgs[j] = "CLOSE"
  <2> SUFFICES ASSUME NEW j \in 2..Len(msgs) PROVE msgs[j] = "CLOSE"
    OBVIOUS
  <2>1. j - 1 \in 1..Len(msgs') /\ msgs'[j - 1] = msgs[j]
    BY <1>1
  <2> QED BY <1>3, <2>1 DEF ConnFree
<1>4. ConnFree' => IF Head(msgs) = "CLOSE" THEN ConnFree ELSE Decides(Head(msgs))
  <2>1. ASSUME ConnFree', Head(msgs) = "CLOSE" PROVE ConnFree
    <3> SUFFICES ASSUME NEW i \in 1..Len(msgs) PROVE msgs[i] = "CLOSE"
      BY DEF ConnFree
    <3>1. i = 1 \/ i \in 2..Len(msgs)
      BY <1>1
    <3> QED BY <1>1, <1>3, <2>1, <3>1
  <2>2. ASSUME ConnFree' PROVE Decides(Head(msgs))
    <3>1. 1 \in 1..Len(msgs) /\ 1 + 1 = 2
      BY <1>1
    <3> QED BY <1>1, <1>3, <2>2, <3>1 DEF Decides
  <2> QED BY <2>1, <2>2
<1>5. ASSUME NEW n, Decides(n)' PROVE Decides(n)
  <2>1. PICK i \in 1..Len(msgs') :
          msgs'[i] = n /\ \A j \in (i + 1)..Len(msgs') : msgs'[j] = "CLOSE"
    BY <1>5 DEF Decides
  <2>2. i + 1 \in 1..Len(msgs) /\ msgs[i + 1] = n
    BY <1>1, <2>1
  <2>3. ASSUME NEW j \in (i + 1 + 1)..Len(msgs) PROVE msgs[j] = "CLOSE"
    <3>1. j - 1 \in (i + 1)..Len(msgs') /\ j - 1 \in 1..Len(msgs')
      BY <1>1, <2>1, <2>3
    <3>2. msgs'[j - 1] = msgs[j]
      BY <1>1, <2>3, <3>1
    <3> QED BY <2>1, <3>1, <3>2
  <2> QED BY <2>2, <2>3 DEF Decides
<1>6. Head(msgs) \in Messages
  OBVIOUS
<1> QED BY <1>2, <1>4, <1>5, <1>6

DeviceLine(t) ==
  \/ Gates(t, "connect") \/ Gates(t, "teardown")
  \/ Sends(t, "post CONNECTED") \/ Sends(t, "post DISCONNECTED")
PinLine(t) == Gates(t, "pin") \/ Sends(t, "Ready")
NoDevice == ~device /\ ~CONNECTED /\ ConnFree

(* Until uxplay-core serves clients nothing says a device is there, and    *)
(* the notice about the PIN has gone out before the first device.          *)
NoDeviceYet ==
  /\ core = "off" => ~device
  /\ place \in {"created", "prepared"} => ConnFree
  /\ place = "prepared" => ~CONNECTED
  /\ \A t \in LogThreads : (DeviceLine(t) => core = "serving") /\ ~Sends(t, "Connected")
  /\ place \in {"announce_ok", "announce_err", "pump"}
       /\ (core # "serving" \/ \E t \in LogThreads : PinLine(t)) => NoDevice

(* A step that changes no log, core, device or CONNECTED.                  *)
LEMMA NoDeviceFrame ==
  ASSUME NoDeviceYet, UNCHANGED <<log, core, device, CONNECTED>>, ConnFree => ConnFree',
         place' = place \/ place' \notin {"created", "prepared", "announce_ok", "announce_err", "pump"}
  PROVE  NoDeviceYet'
BY DEF NoDeviceYet, NoDevice, DeviceLine, PinLine, Gates, Sends

LEMMA NoDeviceWorker ==
  ASSUME FailuresAreReported, IInv, NoDeviceYet, NEW r \in DOMAIN worker, Worker(r)
  PROVE  NoDeviceYet'
<1>0. TypeOK /\ msgs \in Seq(Messages)
  BY DEF IInv, TypeOK
<1>a. ASSUME place \in {"spawned", "created", "prepared"}
      PROVE  core = "off" /\ \A t \in LogThreads : log[t] = Idle
  <2>1. core = "off"
    BY <1>a, PlaceFacts DEF Driving
  <2> QED BY <2>1, PlaceFacts
<1>1. CASE CreateWindow(r)
  <2>1. /\ place = "spawned" /\ place' = "created" /\ msgs' = <<>>
        /\ UNCHANGED <<log, core, device, CONNECTED>>
    BY <1>1, PlaceOfWorker DEF CreateWindow
  <2>2. ConnFree'
    <3>1. Len(<<>>) = 0
      OBVIOUS
    <3>2. Len(msgs') = 0
      BY <2>1, <3>1, Zenon
    <3> QED BY <3>2 DEF ConnFree
  <2> QED BY <2>1, <2>2 DEF NoDeviceYet, DeviceLine, PinLine, Gates, Sends
<1>2. CASE PrepareRun(r)
  <2>1. /\ place = "created" /\ place' = "prepared" /\ CONNECTED' = FALSE
        /\ UNCHANGED <<log, core, device, msgs>>
    BY <1>2, PlaceOfWorker DEF PrepareRun
  <2> QED BY <2>1 DEF NoDeviceYet, DeviceLine, PinLine, Gates, Sends, ConnFree
<1>3. CASE SetupEngine(r)
  <2>1. place = "prepared" /\ UNCHANGED <<log, device, CONNECTED, msgs>>
    BY <1>3, PlaceOfWorker DEF SetupEngine
  <2>2. NoDevice /\ \A t \in LogThreads : log[t] = Idle
    BY <1>a, <2>1 DEF NoDeviceYet, NoDevice
  <2>3. NoDevice'
    BY <2>1, <2>2 DEF NoDevice, ConnFree
  <2>4. \A t \in LogThreads : ~DeviceLine(t)' /\ ~Sends(t, "Connected")'
    BY <2>1, <2>2, IdleIsQuiet DEF DeviceLine, Gates, Sends
  <2>5. place' \in {"announce_ok", "announce_err"}
    BY <1>3, PlaceOfWorker DEF SetupEngine
  <2> QED BY <2>3, <2>4, <2>5 DEF NoDeviceYet, NoDevice
<1>4. CASE Announce(r)
  <2>1. /\ place \in {"announce_ok", "announce_err"} /\ place' = "pump"
        /\ UNCHANGED <<log, core, device, CONNECTED, msgs>>
    BY <1>4, PlaceOfWorker DEF Announce
  <2> QED
    BY <2>1 DEF NoDeviceYet, NoDevice, DeviceLine, PinLine, Gates, Sends, ConnFree
<1>5. CASE PumpMessage(r) \/ HideTimer(r)
  <2>1. UNCHANGED <<log, core, device, CONNECTED>> /\ place' = place
    BY <1>5, PlaceKept DEF PumpMessage, HideTimer
  <2>2. CASE PumpMessage(r)
    <3>1. ConnFree => ConnFree'
      BY <1>0, <2>2, TakeMessage DEF PumpMessage
    <3> QED BY <2>1, <3>1, NoDeviceFrame
  <2>3. CASE HideTimer(r)
    <3>1. ConnFree => ConnFree'
      BY <2>3 DEF HideTimer, ConnFree
    <3> QED BY <2>1, <3>1, NoDeviceFrame
  <2> QED BY <1>5, <2>2, <2>3
<1>6. CASE ClearConnected(r)
  <2>1. place' = "stopping" /\ UNCHANGED <<log, core, device>>
    BY <1>6, PlaceOfWorker DEF ClearConnected
  <2> QED BY <2>1 DEF NoDeviceYet, DeviceLine, Gates, Sends
<1>7. CASE StopCore(r)
  <2>1. /\ place' = "destroy" /\ ~device' /\ UNCHANGED log
        /\ \A t \in LogThreads : log[t] = Idle
    BY <1>7, PlaceOfWorker DEF StopCore
  <2> QED BY <2>1, IdleIsQuiet DEF NoDeviceYet, DeviceLine, Gates, Sends
<1>8. CASE StandDown(r) \/ PumpExit(r) \/ Unhook(r) \/ Destroy(r) \/ ReportOff(r)
  <2>1. /\ place' \in {"none", "unhook", "clear", "closing"}
        /\ UNCHANGED <<log, core, device>>
    BY <1>8, PlaceOfWorker DEF StandDown, PumpExit, Unhook, Destroy, ReportOff
  <2> QED BY <2>1 DEF NoDeviceYet, DeviceLine, Gates, Sends
<1>9. ~NoWindow(r) /\ ~LoadFails(r)
  BY DEF NoWindow, LoadFails, FailuresAreReported
<1> QED BY <1>1, <1>2, <1>3, <1>4, <1>5, <1>6, <1>7, <1>8, <1>9 DEF Worker

LEMMA NoDeviceCallback ==
  ASSUME OneLogger, IInv, NoDeviceYet, NEW t \in LogThreads, Callback(t)
  PROVE  NoDeviceYet'
<1>0. TypeOK /\ msgs \in Seq(Messages) /\ LogThreads = {t}
  BY DEF IInv, TypeOK, OneLogger
<1>1. UNCHANGED <<place, core, device>>
  BY CallbackFrame
<1>2. core # "off"
  <2>1. log[t] # Idle
    BY IdleIsQuiet DEF Callback, LogSwap, LogSend
  <2> QED BY <2>1, PlaceFacts
<1>3. place \notin {"created", "prepared"}
  BY <1>2, PlaceFacts DEF Driving
<1>4. CASE LogSwap(t)
  <2>1. UNCHANGED msgs
    BY <1>4 DEF LogSwap
  <2>2. CASE Gates(t, "fatal") /\ Sends(t, "Off")' /\ UNCHANGED CONNECTED
    BY <1>0, <1>1, <1>2, <1>3, <2>1, <2>2
       DEF NoDeviceYet, NoDevice, DeviceLine, PinLine, Gates, Sends, ConnFree
  <2>3. CASE /\ Gates(t, "pin") /\ UNCHANGED CONNECTED
             /\ log'[t] = Idle \/ Sends(t, "Ready")'
    BY <1>0, <1>1, <1>2, <1>3, <2>1, <2>3, IdleIsQuiet
       DEF NoDeviceYet, NoDevice, DeviceLine, PinLine, Gates, Sends, ConnFree
  <2>4. CASE /\ Gates(t, "connect") \/ Gates(t, "teardown")
             /\ log'[t] = Idle \/ Sends(t, "post CONNECTED")' \/ Sends(t, "post DISCONNECTED")'
    BY <1>0, <1>1, <1>3, <2>4, IdleIsQuiet DEF NoDeviceYet, DeviceLine, PinLine, Gates, Sends
  <2> QED BY <1>0, <1>4, <2>2, <2>3, <2>4, LogSwapMoves
<1>5. CASE LogSend(t)
  <2>1. log'[t] = Idle /\ UNCHANGED CONNECTED /\ (~DeviceLine(t) => UNCHANGED msgs)
    BY <1>0, <1>5, LogSendMoves DEF LogSend, DeviceLine, Sends, Statuses
  <2>2. ~DeviceLine(t)' /\ ~PinLine(t)' /\ ~Sends(t, "Connected")'
    BY <2>1, IdleIsQuiet DEF DeviceLine, PinLine, Gates, Sends
  <2> QED BY <1>0, <1>1, <1>2, <1>3, <2>1, <2>2 DEF NoDeviceYet, NoDevice, ConnFree
<1> QED BY <1>4, <1>5 DEF Callback

LEMMA NoDeviceYetStep ==
  ASSUME FailuresAreReported, OneLogger, IInv, NoDeviceYet, [AppNext]_appVars
  PROVE  NoDeviceYet'
<1>0. TypeOK /\ msgs \in Seq(Messages)
  BY DEF IInv, TypeOK
<1>1. CASE App!Next /\ UNCHANGED engine
  <2>1. UNCHANGED <<log, core, device, CONNECTED, msgs, place>>
    BY <1>1, PlaceKept
  <2> QED BY <2>1, NoDeviceFrame DEF ConnFree
<1>2. CASE TrayThread
  <2>1. UNCHANGED <<log, core, device, CONNECTED>>
    BY <1>2 DEF TrayThread, StopRequest, StopPost, StopJoin, StartClaim, StartSpawn
  <2>2. place' = place \/ place' = "spawned"
    BY <1>2, PlaceOfTrayThread DEF TrayThread, StartSpawn, FailuresAreReported
  <2>3. ConnFree => ConnFree'
    <3>1. UNCHANGED msgs \/ msgs' = Append(msgs, "CLOSE")
      BY <1>2 DEF TrayThread, StopRequest, StopPost, StopJoin, StartClaim, StartSpawn, Post
    <3>2. CASE msgs' = Append(msgs, "CLOSE")
      BY <1>0, <3>2, PostMessage DEF Messages
    <3> QED BY <3>1, <3>2 DEF ConnFree
  <2> QED BY <2>1, <2>2, <2>3, NoDeviceFrame
<1>3. ASSUME NEW r \in DOMAIN worker, Worker(r) PROVE NoDeviceYet'
  BY <1>3, NoDeviceWorker
<1>4. ASSUME NEW t \in LogThreads, Callback(t) PROVE NoDeviceYet'
  BY <1>4, NoDeviceCallback
<1>5. CASE Environment
  <2>0. UNCHANGED <<place, CONNECTED, msgs>>
    BY <1>5, EnvironmentFrame
  <2>1. CASE CoreServes
    <3>1. core = "starting" /\ core' = "serving" /\ UNCHANGED <<log, device>>
      BY <2>1 DEF CoreServes
    <3>2. place \in Driving
      BY <3>1, PlaceFacts
    <3> QED BY <2>0, <3>1, <3>2
      DEF NoDeviceYet, NoDevice, DeviceLine, PinLine, Gates, Sends, ConnFree, Driving
  <2>2. CASE SinkShows \/ \E r \in DOMAIN worker : UserCloses(r)
    <3>1. UNCHANGED <<log, core, device>>
      BY <2>2 DEF SinkShows, UserCloses
    <3> QED BY <2>0, <3>1, NoDeviceFrame DEF ConnFree
  <2>3. ASSUME NEW t \in LogThreads, NEW line \in Lines, LogLine(t, line) PROVE NoDeviceYet'
    <3>0. LogThreads = {t}
      BY DEF OneLogger
    <3>1. log[t] = Idle /\ (log'[t] = Idle \/ Gates(t, line)')
      BY <1>0, <2>3, LogLineMoves
    <3>2. ~Sends(t, "Connected")' /\ ~Sends(t, "Ready")' /\ ~Sends(t, "post CONNECTED")'
          /\ ~Sends(t, "post DISCONNECTED")' /\ \A l \in Lines : Gates(t, l)' => l = line
      BY <3>1, IdleIsQuiet DEF Gates, Sends
    <3>3. place \in Driving
      BY <2>3, PlaceFacts DEF LogLine, Logs
    <3>4. CASE core = "starting"
      <4>1. line \in {"pin", "fatal"} /\ UNCHANGED device /\ core' \in {"starting", "failed"}
        BY <2>3, <3>4 DEF LogLine, Logs
      <4> QED BY <2>0, <3>0, <3>2, <3>3, <3>4, <4>1
        DEF NoDeviceYet, NoDevice, DeviceLine, PinLine, ConnFree, Driving, Lines
    <3>5. CASE core = "serving"
      <4>1. line \in {"connect", "teardown"} /\ UNCHANGED core
        BY <2>3, <3>5 DEF LogLine, Logs
      <4> QED BY <2>0, <3>0, <3>2, <3>3, <3>5, <4>1
        DEF NoDeviceYet, NoDevice, DeviceLine, PinLine, ConnFree, Driving, Lines
    <3> QED BY <2>3, <3>4, <3>5 DEF LogLine, Logs
  <2> QED BY <1>5, <2>1, <2>2, <2>3 DEF Environment
<1>6. CASE UNCHANGED appVars
  <2>1. UNCHANGED <<log, core, device, CONNECTED, msgs, place>>
    BY <1>6, PlaceKept DEF appVars, vars
  <2> QED BY <2>1, NoDeviceFrame DEF ConnFree
<1> QED BY <1>1, <1>2, <1>3, <1>4, <1>5, <1>6 DEF AppNext, EngineNext

(* What the tray will be showing once it has taken every status sent.      *)
Sent == IF statusQ = <<>> THEN current_status ELSE LastStatus
Posts(t) == Sends(t, "post CONNECTED") \/ Sends(t, "post DISCONNECTED")
Turns(t) == Gates(t, "connect") \/ Gates(t, "teardown")

(* Whether a device is mirroring is known, step by step, to the callback,  *)
(* to CONNECTED, to the window's queue and to the status channel: where    *)
(* nothing is on its way from one to the next, the two agree.              *)
LinesMatch ==
  \A t \in LogThreads :
    /\ Gates(t, "connect") => device
    /\ Gates(t, "teardown") => ~device
    /\ Sends(t, "post CONNECTED") => CONNECTED
    /\ Sends(t, "post DISCONNECTED") => ~CONNECTED

QueueMatches ==
  /\ Decides("CONNECTED") => CONNECTED
  /\ Decides("DISCONNECTED") => ~CONNECTED
  /\ ConnFree /\ place = "announce_ok" => ~CONNECTED
  /\ ConnFree /\ place = "pump" =>
       /\ Sent = IF CONNECTED THEN "Connected" ELSE "Ready"
       /\ CONNECTED => visible

DeviceReachesTray ==
  place \in {"announce_ok", "pump"} /\ core \in Up =>
    /\ LinesMatch
    /\ (\A t \in LogThreads : ~Turns(t)) => device = CONNECTED
    /\ (\A t \in LogThreads : ~Posts(t)) => QueueMatches

(* Nothing the tray does changes what it will have been told last.         *)
LEMMA SentKept ==
  ASSUME IInv, CallsOfTasks, Told, FailedRun, App!Next, UNCHANGED engine,
         place = "pump", core \in Up
  PROVE  UNCHANGED Sent
<1> USE DEF Sent, App!Enter, App!Stop, App!Start, App!Restart, App!Returned
<1>0. ~START_FAILED /\ statusQ \in Seq(Statuses)
  BY DEF FailedRun, IInv, TypeOK
<1>1. CASE App!OnStatus
  <2>1. /\ statusQ # <<>> /\ statusQ' = Tail(statusQ) /\ current_status' = Head(statusQ)
    BY <1>0, <1>1 DEF App!OnStatus
  <2> QED BY <1>0, <2>1, TakeStatus
<1>2. CASE App!Launched \/ App!Started \/ App!Restarted \/ App!Reconfigured
  <2>1. task \in Starting /\ call = "none" /\ UNCHANGED statusQ
    BY <1>2 DEF App!Launched, App!Started, App!Restarted, App!Reconfigured, Starting
  <2>2. run # 0
    BY PlaceFacts
  <2>3. statusQ # <<>>
    BY <2>1, <2>2 DEF Told, Fresh
  <2> QED BY <2>1, <2>3 DEF LastStatus
<1>3. CASE App!FailureReported \/ App!Stopped \/ App!Exited
  BY <1>3 DEF App!FailureReported, App!Stopped, App!Exited, CallsOfTasks
<1>4. CASE App!OnClick \/ App!OnConfig \/ App!User
  BY <1>4 DEF App!OnClick, App!OnConfig, App!User, App!Save, App!Click, LastStatus
<1> QED BY <1>1, <1>2, <1>3, <1>4 DEF App!Next, App!EventLoop

LEMMA DeviceWorker ==
  ASSUME FailuresAreReported, IInv, NoDeviceYet, DeviceReachesTray,
         NEW r \in DOMAIN worker, Worker(r), UNCHANGED trayOwn
  PROVE  DeviceReachesTray'
<1> USE DEF DeviceReachesTray
<1>0. TypeOK /\ msgs \in Seq(Messages) /\ statusQ \in Seq(Statuses) /\ CONNECTED \in BOOLEAN
      /\ device \in BOOLEAN
  BY DEF IInv, TypeOK, TypeFlags
<1>1. CASE SetupEngine(r)
  <2>1. place = "prepared" /\ UNCHANGED <<log, device, CONNECTED, msgs>>
        /\ place' \in {"announce_ok", "announce_err"}
    BY <1>1, PlaceOfWorker DEF SetupEngine
  <2>2. core = "off"
    BY <2>1, PlaceFacts DEF Driving
  <2>3. NoDevice /\ \A t \in LogThreads : log[t] = Idle
    BY <2>1, <2>2, PlaceFacts DEF NoDeviceYet, NoDevice
  <2>4. LinesMatch'
    BY <2>1, <2>3, IdleIsQuiet DEF LinesMatch, Gates, Sends
  <2>5. NoDevice'
    BY <2>1, <2>3 DEF NoDevice, ConnFree
  <2>6. ~Decides("CONNECTED")' /\ ~Decides("DISCONNECTED")'
    BY <2>1, <2>3, ConnFreeDecides DEF NoDevice, Decides
  <2>7. QueueMatches'
    BY <2>1, <2>5, <2>6 DEF QueueMatches, NoDevice
  <2> QED BY <1>0, <2>1, <2>3, <2>4, <2>5, <2>7 DEF NoDevice
<1>2. CASE Announce(r)
  <2>1. /\ place \in {"announce_ok", "announce_err"} /\ place' = "pump"
        /\ UNCHANGED <<log, core, device, CONNECTED, msgs>>
        /\ place = "announce_ok" => Send("Ready")
    BY <1>2, PlaceOfWorker DEF Announce
  <2>2. core \in Up => place = "announce_ok"
    BY <2>1, PlaceFacts DEF Driving, Up
  <2>3. place = "announce_ok" => Sent' = "Ready"
    BY <1>0, <2>1, SendStatus DEF Sent
  <2>4. QueueMatches /\ place = "announce_ok" => QueueMatches'
    BY <2>1, <2>3 DEF QueueMatches, ConnFree, Decides
  <2>5. LinesMatch => LinesMatch'
    BY <2>1 DEF LinesMatch, Gates, Sends
  <2> QED BY <2>1, <2>2, <2>4, <2>5 DEF Turns, Posts, Gates, Sends
<1>3. CASE PumpMessage(r)
  <2>1. /\ UNCHANGED <<place, log, core, device, CONNECTED>> /\ place = "pump"
        /\ msgs # <<>> /\ msgs' = Tail(msgs)
    BY <1>3, PlaceOfWorker, PlaceKept DEF PumpMessage
  <2>2. QueueMatches => QueueMatches'
    <3> SUFFICES ASSUME QueueMatches PROVE QueueMatches'
      OBVIOUS
    <3>1. (Decides("CONNECTED")' => CONNECTED') /\ (Decides("DISCONNECTED")' => ~CONNECTED')
      BY <1>0, <2>1, TakeMessage DEF QueueMatches
    <3>2. CASE Head(msgs) = "CONNECTED"
      <4>1. visible' = TRUE /\ Send("Connected")
        BY <1>3, <3>2 DEF PumpMessage
      <4>2. Sent' = "Connected"
        BY <1>0, <4>1, SendStatus DEF Sent
      <4>3. ConnFree' => CONNECTED
        BY <1>0, <2>1, <3>2, TakeMessage DEF QueueMatches
      <4> QED BY <2>1, <3>1, <4>1, <4>2, <4>3 DEF QueueMatches
    <3>3. CASE Head(msgs) = "DISCONNECTED"
      <4>1. Send("Ready")
        BY <1>3, <3>3 DEF PumpMessage
      <4>2. Sent' = "Ready"
        BY <1>0, <4>1, SendStatus DEF Sent
      <4>3. ConnFree' => ~CONNECTED
        BY <1>0, <2>1, <3>3, TakeMessage DEF QueueMatches
      <4> QED BY <2>1, <3>1, <4>2, <4>3 DEF QueueMatches
    <3>4. CASE Head(msgs) = "CLOSE"
      <4>1. UNCHANGED <<visible, statusQ>>
        BY <1>3, <3>4 DEF PumpMessage
      <4>2. UNCHANGED Sent
        BY <1>3, <4>1 DEF PumpMessage, Sent, LastStatus
      <4>3. ConnFree' => ConnFree
        BY <1>0, <2>1, <3>4, TakeMessage
      <4> QED BY <2>1, <3>1, <4>1, <4>2, <4>3 DEF QueueMatches
    <3> QED BY <1>0, <2>1, <3>2, <3>3, <3>4, TakeMessage DEF Messages
  <2>3. LinesMatch => LinesMatch'
    BY <2>1 DEF LinesMatch, Gates, Sends
  <2> QED BY <2>1, <2>2, <2>3 DEF Turns, Posts, Gates, Sends
<1>4. CASE HideTimer(r)
  <2>1. /\ UNCHANGED <<place, log, core, device, CONNECTED, msgs, statusQ>> /\ ~CONNECTED
    BY <1>4, PlaceKept DEF HideTimer
  <2>2. QueueMatches => QueueMatches'
    BY <2>1 DEF QueueMatches, ConnFree, Decides, Sent, LastStatus, HideTimer
  <2>3. LinesMatch => LinesMatch'
    BY <2>1 DEF LinesMatch, Gates, Sends
  <2> QED BY <2>1, <2>2, <2>3 DEF Turns, Posts, Gates, Sends
<1>5. CASE ~(SetupEngine(r) \/ Announce(r) \/ PumpMessage(r) \/ HideTimer(r))
  <2>1. place' \in {"none", "created", "prepared", "unhook", "clear", "stopping", "destroy",
                    "closing"}
    BY <1>5, PlaceOfWorker DEF Worker, NoWindow, CreateWindow, StandDown, PrepareRun,
       LoadFails, PumpExit, Unhook, ClearConnected, StopCore, Destroy, ReportOff
  <2> QED BY <2>1
<1> QED BY <1>1, <1>2, <1>3, <1>4, <1>5

LEMMA DeviceCallback ==
  ASSUME OneLogger, IInv, FailedRun, NoDeviceYet, DeviceReachesTray,
         NEW t \in LogThreads, Callback(t), UNCHANGED trayOwn
  PROVE  DeviceReachesTray'
<1> USE DEF DeviceReachesTray
<1>0. /\ TypeOK /\ msgs \in Seq(Messages) /\ statusQ \in Seq(Statuses) /\ CONNECTED \in BOOLEAN
      /\ device \in BOOLEAN /\ LogThreads = {t}
  BY DEF IInv, TypeOK, TypeFlags, OneLogger
<1>1. UNCHANGED <<place, run, core, device, visible>>
  BY CallbackFrame
<1> SUFFICES ASSUME place \in {"announce_ok", "pump"}, core \in Up
             PROVE  /\ LinesMatch'
                    /\ ~Turns(t)' => device = CONNECTED'
                    /\ ~Posts(t)' => QueueMatches'
  BY <1>0, <1>1
<1>2. /\ LinesMatch
      /\ ~Turns(t) => device = CONNECTED
      /\ ~Posts(t) => QueueMatches
  BY <1>0
<1>3. ~Sends(t, "Off") /\ ~Gates(t, "fatal") /\ ~Sends(t, "Connected")
  BY DEF FailedRun, Up, NoDeviceYet
<1>4. CASE LogSwap(t)
  <2>1. log[t].at = "gated" /\ ~Posts(t) /\ QueueMatches /\ UNCHANGED <<msgs, statusQ>>
    BY <1>2, <1>4 DEF LogSwap, Posts, Sends
  <2>2. UNCHANGED CONNECTED => QueueMatches'
    BY <1>1, <1>4, <2>1 DEF QueueMatches, ConnFree, Decides, Sent, LastStatus
  <2>3. CASE /\ Gates(t, "pin") /\ UNCHANGED CONNECTED
             /\ log'[t] = Idle \/ Sends(t, "Ready")'
    <3>1. ~Turns(t)
      BY <2>3 DEF Turns, Gates
    <3>2. ~Turns(t)' /\ ~Posts(t)'
      BY <2>3, IdleIsQuiet DEF Turns, Posts, Gates, Sends
    <3>3. LinesMatch'
      BY <1>0, <3>2 DEF LinesMatch, Turns, Posts
    <3> QED BY <1>2, <2>2, <2>3, <3>1, <3>3
  <2>4. CASE /\ Gates(t, "connect") /\ CONNECTED'
             /\ (log'[t] = Idle /\ CONNECTED) \/ Sends(t, "post CONNECTED")'
    <3>1. device
      BY <1>2, <2>4 DEF LinesMatch
    <3>2. ~Turns(t)' /\ ~Sends(t, "post DISCONNECTED")'
      BY <2>4, IdleIsQuiet DEF Turns, Gates, Sends
    <3>3. LinesMatch'
      BY <1>0, <2>4, <3>2 DEF LinesMatch, Turns
    <3>4. CONNECTED' \in BOOLEAN
      BY <1>0, <1>4 DEF LogSwap
    <3>5. ~Posts(t)' => QueueMatches'
      <4>1. ~Posts(t)' => CONNECTED
        BY <2>4 DEF Posts
      <4>2. CONNECTED => CONNECTED' = CONNECTED
        BY <1>0, <2>4, <3>4
      <4> QED BY <2>2, <4>1, <4>2
    <3> QED BY <1>0, <2>4, <3>1, <3>3, <3>4, <3>5
  <2>5. CASE /\ Gates(t, "teardown") /\ ~CONNECTED'
             /\ (log'[t] = Idle /\ ~CONNECTED) \/ Sends(t, "post DISCONNECTED")'
    <3>1. ~device
      BY <1>2, <2>5 DEF LinesMatch
    <3>2. ~Turns(t)' /\ ~Sends(t, "post CONNECTED")'
      BY <2>5, IdleIsQuiet DEF Turns, Gates, Sends
    <3>3. LinesMatch'
      BY <1>0, <2>5, <3>2 DEF LinesMatch, Turns
    <3>4. CONNECTED' \in BOOLEAN
      BY <1>0, <1>4 DEF LogSwap
    <3>5. ~Posts(t)' => QueueMatches'
      <4>1. ~Posts(t)' => ~CONNECTED
        BY <2>5 DEF Posts
      <4>2. ~CONNECTED => CONNECTED' = CONNECTED
        BY <1>0, <2>5, <3>4
      <4> QED BY <2>2, <4>1, <4>2
    <3> QED BY <1>0, <2>5, <3>1, <3>3, <3>4, <3>5
  <2> QED BY <1>0, <1>3, <1>4, <2>3, <2>4, <2>5, LogSwapMoves
<1>5. CASE LogSend(t)
  <2>1. log'[t] = Idle /\ UNCHANGED CONNECTED /\ log[t].at = "send"
    BY <1>0, <1>5, LogSendMoves DEF LogSend
  <2>2. ~Turns(t) /\ ~Turns(t)' /\ ~Posts(t)'
    BY <2>1, IdleIsQuiet DEF Turns, Posts, Gates, Sends
  <2>3. LinesMatch'
    BY <1>0, <2>2 DEF LinesMatch, Turns, Posts
  <2>4. win = run /\ win # 0 /\ log[t].hwnd = win
    <3>1. win = run /\ run # 0
      BY PlaceFacts DEF Windowed
    <3>2. log[t].hwnd = run
      BY <2>1, IdleIsQuiet DEF IInv, LogFollowsCore
    <3> QED BY <3>1, <3>2
  <2>5. QueueMatches'
    <3>1. CASE Sends(t, "post CONNECTED")
      <4>1. msgs' = Append(msgs, "CONNECTED") /\ CONNECTED'
        <5>1. log[t].out = "post CONNECTED" /\ Post(log[t].hwnd, "CONNECTED")
          BY <1>5, <3>1 DEF LogSend, Sends, Statuses
        <5>2. CONNECTED
          BY <1>2, <3>1 DEF LinesMatch
        <5> QED BY <2>1, <2>4, <5>1, <5>2 DEF Post
      <4>2. ~ConnFree' /\ ~Decides("DISCONNECTED")'
        BY <1>0, <4>1, PostMessage DEF Messages
      <4> QED BY <4>1, <4>2 DEF QueueMatches
    <3>2. CASE Sends(t, "post DISCONNECTED")
      <4>1. msgs' = Append(msgs, "DISCONNECTED") /\ ~CONNECTED'
        <5>1. log[t].out = "post DISCONNECTED" /\ Post(log[t].hwnd, "DISCONNECTED")
          BY <1>5, <3>2 DEF LogSend, Sends, Statuses
        <5>2. ~CONNECTED
          BY <1>2, <3>2 DEF LinesMatch
        <5> QED BY <2>1, <2>4, <5>1, <5>2 DEF Post
      <4>2. ~ConnFree' /\ ~Decides("CONNECTED")'
        BY <1>0, <4>1, PostMessage DEF Messages
      <4> QED BY <4>1, <4>2 DEF QueueMatches
    <3>3. CASE Sends(t, "Ready")
      <4>1. Send("Ready") /\ UNCHANGED msgs
        BY <1>5, <3>3 DEF LogSend, Sends
      <4>2. Sent' = "Ready"
        BY <1>0, <4>1, SendStatus DEF Sent
      <4>3. ~CONNECTED /\ ConnFree
        BY <3>3 DEF NoDeviceYet, NoDevice, PinLine
      <4>4. ~Posts(t)
        BY <3>3 DEF Posts, Sends
      <4> QED BY <1>2, <2>1, <4>1, <4>2, <4>3, <4>4 DEF QueueMatches, ConnFree, Decides
    <3> QED BY <1>3, <1>5, <2>1, <3>1, <3>2, <3>3 DEF LogSend, Sends, Statuses
  <2> QED BY <1>2, <2>1, <2>2, <2>3, <2>5
<1> QED BY <1>4, <1>5 DEF Callback

LEMMA DeviceEnvironment ==
  ASSUME OneLogger, IInv, HookSet, NoDeviceYet, DeviceReachesTray, Environment, UNCHANGED trayOwn
  PROVE  DeviceReachesTray'
<1> USE DEF DeviceReachesTray
<1>0. TypeOK
  BY DEF IInv
<1>1. UNCHANGED <<place, CONNECTED, msgs, statusQ>>
  BY EnvironmentFrame
<1>2. UNCHANGED visible \/ visible' => (QueueMatches => QueueMatches')
  BY <1>1 DEF QueueMatches, ConnFree, Decides, Sent, LastStatus
<1>3. CASE CoreServes \/ SinkShows \/ \E r \in DOMAIN worker : UserCloses(r)
  <2>1. /\ UNCHANGED <<log, device>>
        /\ UNCHANGED visible \/ visible'
        /\ core' \in Up => core \in Up
    BY <1>3 DEF CoreServes, SinkShows, UserCloses, Up
  <2>2. LinesMatch => LinesMatch'
    BY <1>1, <2>1 DEF LinesMatch, Gates, Sends
  <2> QED BY <1>1, <1>2, <2>1, <2>2 DEF Turns, Posts, Gates, Sends
<1>4. ASSUME NEW t \in LogThreads, NEW line \in Lines, LogLine(t, line)
      PROVE  DeviceReachesTray'
  <2> SUFFICES ASSUME place \in {"announce_ok", "pump"}, core' \in Up
               PROVE  /\ LinesMatch'
                      /\ ~Turns(t)' => device' = CONNECTED
                      /\ QueueMatches'
    BY <1>1
  <2>0. LogThreads = {t}
    BY DEF OneLogger
  <2>1. CB_HWND # 0
    BY PlaceFacts DEF HookSet, Windowed
  <2>2. log[t] = Idle /\ Gates(t, line)'
    BY <1>0, <1>4, <2>1, LogLineMoves
  <2>3. ~Turns(t) /\ ~Posts(t)
    BY <2>2, IdleIsQuiet DEF Turns, Posts, Gates, Sends
  <2>4. core \in Up
    BY <1>4 DEF LogLine, Logs, Up
  <2>5. device = CONNECTED /\ QueueMatches
    BY <2>0, <2>3, <2>4
  <2>6. QueueMatches'
    BY <1>2, <1>4, <2>5 DEF LogLine
  <2>7. device' = IF line \in {"connect", "teardown"} THEN line = "connect" ELSE device
    BY <1>4 DEF LogLine
  <2>8. LinesMatch'
    BY <2>0, <2>2, <2>7 DEF LinesMatch, Gates, Sends
  <2>9. ~Turns(t)' => line \notin {"connect", "teardown"}
    BY <2>2 DEF Turns
  <2> QED BY <2>5, <2>6, <2>7, <2>8, <2>9
<1> QED BY <1>3, <1>4 DEF Environment

LEMMA DeviceStep ==
  ASSUME FailuresAreReported, OneLogger, IInv, CallsOfTasks, Told, HookSet, FailedRun,
         NoDeviceYet, DeviceReachesTray, [AppNext]_appVars
  PROVE  DeviceReachesTray'
<1> USE DEF DeviceReachesTray
<1>0. TypeOK /\ msgs \in Seq(Messages)
  BY DEF IInv, TypeOK
<1>1. CASE App!Next /\ UNCHANGED engine
  <2>1. UNCHANGED <<log, core, device, CONNECTED, msgs, visible, place>>
    BY <1>1, PlaceKept
  <2>2. place = "pump" /\ core \in Up => UNCHANGED Sent
    BY <1>1, SentKept
  <2>3. core \in Up /\ QueueMatches => QueueMatches'
    BY <2>1, <2>2 DEF QueueMatches, ConnFree, Decides
  <2>4. LinesMatch => LinesMatch'
    BY <2>1 DEF LinesMatch, Gates, Sends
  <2> QED BY <2>1, <2>3, <2>4 DEF Turns, Posts, Gates, Sends
<1>2. CASE TrayThread /\ UNCHANGED trayOwn
  <2>1. UNCHANGED <<log, core, device, CONNECTED, visible, statusQ>>
    BY <1>2 DEF TrayThread, StopRequest, StopPost, StopJoin, StartClaim, StartSpawn
  <2>2. place' = place \/ place' = "spawned"
    BY <1>2, PlaceOfTrayThread DEF TrayThread, StartSpawn, FailuresAreReported
  <2>3. (ConnFree' => ConnFree) /\ \A n : n # "CLOSE" /\ Decides(n)' => Decides(n)
    <3>1. UNCHANGED msgs \/ msgs' = Append(msgs, "CLOSE")
      BY <1>2 DEF TrayThread, StopRequest, StopPost, StopJoin, StartClaim, StartSpawn, Post
    <3>2. CASE msgs' = Append(msgs, "CLOSE")
      BY <1>0, <3>2, PostMessage DEF Messages
    <3> QED BY <3>1, <3>2 DEF ConnFree, Decides
  <2>4. place' = place /\ QueueMatches => QueueMatches'
    BY <1>2, <2>1, <2>3 DEF QueueMatches, Sent, LastStatus
  <2>5. LinesMatch => LinesMatch'
    BY <2>1 DEF LinesMatch, Gates, Sends
  <2> QED BY <2>1, <2>2, <2>4, <2>5 DEF Turns, Posts, Gates, Sends
<1>3. ASSUME NEW r \in DOMAIN worker, Worker(r), UNCHANGED trayOwn PROVE DeviceReachesTray'
  BY <1>3, DeviceWorker
<1>4. ASSUME NEW t \in LogThreads, Callback(t), UNCHANGED trayOwn PROVE DeviceReachesTray'
  BY <1>4, DeviceCallback
<1>5. CASE Environment /\ UNCHANGED trayOwn
  BY <1>5, DeviceEnvironment
<1>6. CASE UNCHANGED appVars
  <2>1. UNCHANGED <<log, core, device, CONNECTED, msgs, visible, statusQ, current_status, place>>
    BY <1>6, PlaceKept DEF appVars, vars
  <2> QED BY <2>1 DEF LinesMatch, QueueMatches, ConnFree, Decides, Sent, LastStatus, Turns, Posts,
             Gates, Sends
<1> QED BY <1>1, <1>2, <1>3, <1>4, <1>5, <1>6 DEF AppNext, EngineNext

(* -- The invariant for one logging thread, and what it settles.           *)

DeviceIInv == AppIInv /\ NoDeviceYet /\ DeviceReachesTray

LEMMA DeviceIInvInit == AppInit => DeviceIInv
<1> SUFFICES ASSUME AppInit PROVE DeviceIInv
  OBVIOUS
<1>1. place = "none" /\ core = "off" /\ ~device /\ \A t \in LogThreads : log[t] = Idle
  BY DEF AppInit, EngineInit, place
<1>2. NoDeviceYet /\ DeviceReachesTray
  BY <1>1, IdleIsQuiet DEF NoDeviceYet, DeviceReachesTray, DeviceLine, Gates, Sends
<1> QED BY <1>2, AppIInvInit DEF DeviceIInv

(* The status channel, the window and the engine agree about the device    *)
(* wherever nothing about it is on its way.                                *)
THEOREM DeviceInvariantHolds ==
  FailuresAreReported /\ OneLogger => (AppSpec => []DeviceIInv)
<1> SUFFICES ASSUME FailuresAreReported, OneLogger PROVE AppSpec => []DeviceIInv
  OBVIOUS
<1>1. DeviceIInv /\ [AppNext]_appVars => DeviceIInv'
  BY AppIInvStep, NoDeviceYetStep, DeviceStep DEF DeviceIInv, AppIInv
<1> QED BY <1>1, DeviceIInvInit, PTL DEF AppSpec

LEMMA SettledDevice ==
  ASSUME DeviceIInv, Settled
  PROVE  /\ place = "none" => current_status = "Off"
         /\ place = "pump" =>
              /\ current_status = IF device THEN "Connected" ELSE "Ready"
              /\ device => visible
<1>0. IInv /\ FailedRun /\ FailureKnown /\ QueueEndsOff /\ NoDeviceYet /\ DeviceReachesTray
  BY DEF DeviceIInv, AppIInv
<1>1. /\ task = "idle" /\ statusQ = <<>> /\ (place = "pump" => msgs = <<>>)
      /\ \A t \in LogThreads : log[t] = Idle
  BY <1>0, SettledFacts
<1>2. \A t \in LogThreads : \A l : ~Gates(t, l) /\ ~Sends(t, l)
  BY <1>1, IdleIsQuiet DEF Gates, Sends
<1>3. ~OffQueued
  <2>1. Len(<<>>) = 0
    OBVIOUS
  <2>2. Len(statusQ) = 0
    BY <1>1, <2>1, Zenon
  <2> QED BY <2>2 DEF OffQueued
<1>4. ASSUME place = "pump"
      PROVE  current_status = (IF device THEN "Connected" ELSE "Ready") /\ (device => visible)
  <2>1. run > 0
    BY <1>0, <1>4, PlaceFacts
  <2>2. failed # run
    BY <1>0, <1>1, <1>2, <1>3, <1>4, <2>1 DEF FailureKnown, Starting
  <2>3. core \in Up
    BY <1>0, <1>2, <1>4, <2>2 DEF FailedRun
  <2>4. device = CONNECTED /\ QueueMatches
    BY <1>0, <1>2, <1>4, <2>3 DEF DeviceReachesTray, Turns, Posts
  <2>5. ConnFree
    BY <1>1, <1>4, ConnFreeDecides
  <2>6. Sent = current_status
    BY <1>1 DEF Sent
  <2> QED BY <1>4, <2>4, <2>5, <2>6 DEF QueueMatches
<1> QED BY <1>0, <1>1, <1>4 DEF QueueEndsOff

(* Once everything in flight has arrived the tray shows the engine as it   *)
(* is, its menu says the same, and Connected only over a video window.     *)
THEOREM SettlesHolds == FailuresAreReported /\ OneLogger => (AppSpec => []Settles)
<1> SUFFICES ASSUME FailuresAreReported, OneLogger PROVE AppSpec => []Settles
  OBVIOUS
<1>1. DeviceIInv => StatusSettles /\ Lockstep
  <2> SUFFICES ASSUME DeviceIInv, Settled
               PROVE  current_status = EngineStatus /\ (current_status = "Connected" => visible)
    BY DEF StatusSettles, Lockstep
  <2>1. place \in {"none", "pump"} /\ (DOMAIN worker = {} <=> place = "none")
    BY SettledFacts DEF DeviceIInv, AppIInv
  <2> QED BY <2>1, SettledDevice DEF EngineStatus
<1> QED BY <1>1, DeviceInvariantHolds, MenuSettlesHolds, PTL DEF Settles
=============================================================================
