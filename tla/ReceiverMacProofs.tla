------------------------- MODULE ReceiverMacProofs -------------------------
(***************************************************************************)
(* Theorems about ReceiverMac, for any logging threads, failures and       *)
(* bounds.                                                                 *)
(***************************************************************************)
EXTENDS ReceiverMac, TLAPS

(* What the types and the engine's invariant look at.                      *)
USE DEF engineVars, flags, tray, vars

----------------------------------------------------------------------------
(* Types *)

(* What begin() and start_or_report() may change keeps its type.           *)
InnerOK == inner \in InnerType /\ Len(inner.queued) <= 1

Mutable ==
  /\ InnerOK
  /\ teardown \in {"none", "stopping", "signal", "last"}
  /\ core \in {"off", "starting", "serving", "failed"}
  /\ visible \in BOOLEAN /\ CONNECTED \in BOOLEAN
  /\ START_FAILED \in BOOLEAN /\ PIN_IGNORED \in BOOLEAN
  /\ statusQ \in Seq(Statuses)

(* A start that succeeds leaves Inner well formed.                         *)
LEMMA StartedType ==
  ASSUME NEW i \in InnerType, Len(i.queued) <= 1, NEW req \in Nat, Started(i, req)
  PROVE  InnerOK'
BY DEF Started, InnerOK, InnerType

(* The slot for requests holds one request.                                *)
LEMMA QueueType ==
  ASSUME NEW i \in InnerType, NEW req \in Nat, Queue(i, req)
  PROVE  InnerOK'
<1>0. <<req>> \in Seq(Nat) /\ Len(<<req>>) = 1
  OBVIOUS
<1>1. PICK q \in Seq(Nat) : q = <<req>> /\ Len(q) = 1
  BY <1>0, Zenon
<1>2. inner' = [i EXCEPT !.queued = q]
  BY <1>1, Zenon DEF Queue
<1>3. inner' \in InnerType /\ inner'.queued = q
  BY <1>2 DEF InnerType
<1> QED BY <1>1, <1>3 DEF InnerOK

(* A deferred start keeps the types.                                       *)
LEMMA StartOrReportType ==
  ASSUME NEW i \in InnerType, Len(i.queued) <= 1, NEW req \in Nat,
         Mutable, start_or_report(i, req), UNCHANGED teardown, visible' \in BOOLEAN
  PROVE  Mutable'
<1>1. CASE Started(i, req) /\ UNCHANGED statusQ
  BY <1>1, StartedType DEF Mutable, Started, RunReset
<1>2. CASE ~(Started(i, req) /\ UNCHANGED statusQ)
  <2>1. inner' = [i EXCEPT !.running = FALSE]
    BY <1>2 DEF start_or_report
  <2>2. InnerOK'
    BY <2>1 DEF InnerOK, InnerType
  <2>3. statusQ' = Append(statusQ, "Off") /\ "Off" \in Statuses
    BY <1>2 DEF start_or_report, Statuses
  <2>4. statusQ' \in Seq(Statuses)
    BY <2>3 DEF Mutable
  <2> QED BY <1>2, <2>2, <2>4 DEF start_or_report, Mutable
<1> QED BY <1>1, <1>2

(* So do stop and restart, whatever becomes of the window.                 *)
LEMMA LifecycleType ==
  ASSUME NEW i \in InnerType, Len(i.queued) <= 1, NEW req \in Nat,
         Mutable, Lifecycle(i, req), visible' \in BOOLEAN
  PROVE  Mutable' /\ UNCHANGED <<log, lines>>
<1>1. CASE Queue(i, req) /\ UNCHANGED <<teardown, core, flags, statusQ>>
  <2>1. InnerOK'
    BY <1>1, QueueType
  <2> QED BY <1>1, <2>1 DEF Lifecycle, Mutable
<1>2. CASE start_or_report(i, req) /\ UNCHANGED teardown
  BY <1>2, StartOrReportType DEF Lifecycle
<1>3. CASE /\ inner' = [i EXCEPT !.running = FALSE]
           /\ UNCHANGED <<teardown, core, flags, statusQ>>
  <2>1. InnerOK'
    BY <1>3 DEF InnerOK, InnerType
  <2> QED BY <1>3, <2>1 DEF Lifecycle, Mutable
<1>4. CASE TearDown(i, req) /\ UNCHANGED <<core, START_FAILED, PIN_IGNORED, statusQ>>
  <2>1. InnerOK'
    BY <1>4 DEF TearDown, InnerOK, InnerType
  <2> QED BY <1>4, <2>1 DEF Lifecycle, Mutable, TearDown
<1> QED BY <1>1, <1>2, <1>3, <1>4 DEF Lifecycle

(* begin() hides the window or leaves it alone.                            *)
LEMMA BeginType ==
  ASSUME NEW i \in InnerType, Len(i.queued) <= 1, NEW req \in Nat,
         Mutable, begin(i, req)
  PROVE  Mutable' /\ UNCHANGED <<log, lines>>
<1>1. visible' \in BOOLEAN /\ Lifecycle(i, req)
  BY DEF begin
<1> QED BY <1>1, LifecycleType

(* And start().                                                            *)
LEMMA StartType ==
  ASSUME NEW i \in InnerType, Len(i.queued) <= 1, NEW req \in Nat, NEW result,
         Mutable, start(i, req, result)
  PROVE  Mutable' /\ UNCHANGED <<stopped, log, lines>>
<1>1. InnerOK'
  <2>1. CASE inner' = i
    BY <2>1 DEF InnerOK
  <2> QED BY <2>1, QueueType, StartedType DEF start
<1>2. CONNECTED' \in BOOLEAN /\ START_FAILED' \in BOOLEAN /\ PIN_IGNORED' \in BOOLEAN
  BY DEF start, Started, RunReset, Mutable
<1> QED BY <1>1, <1>2 DEF start, Started, Mutable

(* The menu is of its type whatever it is built from.                      *)
LEMMA RebuildType ==
  ASSUME NEW icon \in Statuses, Rebuild(icon), InnerOK', current_status' \in Statuses
  PROVE  /\ shown' \in [icon : Statuses, status : Statuses, running : BOOLEAN,
                        warns : {"no", "failed", "pin"}]
         /\ clicks' \in Seq(Items)
BY DEF Rebuild, Menu, InnerOK, InnerType

TrayOK ==
  /\ task \in {"launch", "idle", "fail", "quit", "exited"}
  /\ current_status \in Statuses
  /\ shown \in [icon : Statuses, status : Statuses, running : BOOLEAN,
                warns : {"no", "failed", "pin"}]
  /\ ENGINE_FAILED \in BOOLEAN /\ late \in BOOLEAN
  /\ clicks \in Seq(Items)
  /\ config \in Configs /\ cfg \in Configs
  /\ saves \in Nat /\ intent \in Nat /\ events \in Nat

CountersOK ==
  /\ stopped \in Nat /\ lines \in Nat
  /\ log \in [LogThreads -> Statuses \cup {"idle"}]

(* The types in three parts: engine, counters and logs, tray.              *)
LEMMA TypeParts == TypeOK <=> Mutable /\ CountersOK /\ TrayOK
BY DEF TypeOK, EngineTypeOK, Mutable, InnerOK, CountersOK, TrayOK

(* The application starts well typed.                                      *)
LEMMA TypeInit == Init => TypeOK
<1> SUFFICES ASSUME Init PROVE Mutable /\ CountersOK /\ TrayOK
  BY TypeParts
<1>1. Mutable
  <2>0. <<>> \in Seq(Nat) /\ Len(<<>>) = 0
    OBVIOUS
  <2>1. PICK q \in Seq(Nat) : q = <<>> /\ Len(q) = 0
    BY <2>0, Zenon
  <2>2. inner = [window |-> FALSE, airplay |-> 0, running |-> FALSE, transitioning |-> FALSE,
                 next_cfg |-> 0, queued |-> q]
    BY <2>1 DEF Init, EngineInit
  <2>3. InnerOK
    BY <2>1, <2>2 DEF InnerOK, InnerType
  <2>4. statusQ \in Seq(Statuses)
    BY DEF Init, EngineInit
  <2> QED BY <2>3, <2>4 DEF Init, EngineInit, Mutable
<1>2. CountersOK
  BY DEF Init, EngineInit, CountersOK
<1>3. TrayOK
  <2>1. shown \in [icon : Statuses, status : Statuses, running : BOOLEAN,
                   warns : {"no", "failed", "pin"}]
    BY DEF Init, Statuses
  <2>2. 1 \in Configs
    BY DEF Configs
  <2>3. clicks \in Seq(Items)
    BY DEF Init
  <2> QED BY <2>1, <2>2, <2>3, Zenon DEF Init, TrayOK, Statuses
<1> QED BY <1>1, <1>2, <1>3

(* The threads beside the main one leave the tray alone.                   *)
LEMMA BackgroundType ==
  ASSUME Mutable, CountersOK, Background
  PROVE  Mutable' /\ CountersOK'
<1> USE DEF Mutable, CountersOK, InnerOK
<1>1. CASE StopCore
  BY <1>1 DEF StopCore
<1>2. CASE signal_engine_stopped
  BY <1>2 DEF signal_engine_stopped
<1>3. CASE CallbackSteps
  BY <1>3 DEF CallbackSteps, LogSend, Then
<1>4. CASE CoreServes
  BY <1>4 DEF CoreServes
<1>5. ASSUME NEW t \in LogThreads, NEW line \in Lines, LogSwap(t, line)
      PROVE  Mutable' /\ CountersOK'
  <2>1. log' \in [LogThreads -> Statuses \cup {"idle"}]
    BY <1>5 DEF LogSwap, Then, Statuses
  <2>2. core' \in {"off", "starting", "serving", "failed"}
    BY <1>5 DEF LogSwap
  <2>3. CONNECTED' \in BOOLEAN /\ START_FAILED' \in BOOLEAN /\ PIN_IGNORED' \in BOOLEAN
    BY <1>5 DEF LogSwap
  <2> QED BY <1>5, <2>1, <2>2, <2>3 DEF LogSwap
<1> QED BY <1>1, <1>2, <1>3, <1>4, <1>5 DEF Background, TeardownThread

(* on_engine_stopped() keeps the types.                                    *)
LEMMA OnEngineStoppedType ==
  ASSUME Mutable, CountersOK, on_engine_stopped
  PROVE  Mutable' /\ CountersOK'
<1> DEFINE i == [inner EXCEPT !.transitioning = FALSE, !.queued = <<>>, !.next_cfg = 0]
<1>1. i \in InnerType /\ Len(i.queued) <= 1
  <2>0. <<>> \in Seq(Nat) /\ Len(<<>>) = 0
    OBVIOUS
  <2>1. PICK q \in Seq(Nat) : q = <<>> /\ Len(q) = 0
    BY <2>0, Zenon
  <2>2. i = [inner EXCEPT !.transitioning = FALSE, !.queued = q, !.next_cfg = 0]
    BY <2>1
  <2> HIDE DEF i
  <2>3. i \in InnerType /\ i.queued = q
    BY <2>2 DEF InnerType, Mutable, InnerOK
  <2> QED BY <2>1, <2>3
<1>2. /\ \/ inner.queued # <<>> /\ begin(i, Head(inner.queued))
         \/ /\ inner.queued = <<>> /\ inner.next_cfg # 0
            /\ start_or_report(i, inner.next_cfg)
            /\ UNCHANGED <<teardown, visible, log, lines>>
         \/ /\ inner.queued = <<>> /\ inner.next_cfg = 0
            /\ inner' = i
            /\ UNCHANGED <<teardown, core, visible, flags, statusQ, log, lines>>
      /\ stopped > 0 /\ stopped' = stopped - 1
  BY DEF on_engine_stopped
<1>3. inner.next_cfg \in Nat /\ inner.queued \in Seq(Nat)
  BY DEF Mutable, InnerOK, InnerType
<1> HIDE DEF i
<1>4. stopped' \in Nat
  BY <1>2 DEF CountersOK
<1>5. CASE inner.queued # <<>> /\ begin(i, Head(inner.queued))
  <2>1. Head(inner.queued) \in Nat
    BY <1>3, <1>5
  <2>2. Mutable' /\ UNCHANGED <<log, lines>>
    BY <1>1, <1>5, <2>1, BeginType
  <2> QED BY <1>4, <2>2 DEF CountersOK
<1>6. CASE start_or_report(i, inner.next_cfg) /\ UNCHANGED <<teardown, visible, log, lines>>
  <2>1. visible' \in BOOLEAN
    BY <1>6 DEF Mutable
  <2> QED BY <1>1, <1>3, <1>4, <1>6, <2>1, StartOrReportType DEF CountersOK
<1>7. CASE inner' = i /\ UNCHANGED <<teardown, core, visible, flags, statusQ, log, lines>>
  BY <1>1, <1>4, <1>7 DEF CountersOK, Mutable, InnerOK
<1> QED BY <1>2, <1>5, <1>6, <1>7

(* Every step keeps every type.                                            *)
LEMMA TypeStep == TypeOK /\ [Next]_vars => TypeOK'
<1> SUFFICES ASSUME Mutable, CountersOK, TrayOK, [Next]_vars
             PROVE  Mutable' /\ CountersOK' /\ TrayOK'
  BY DEF TypeOK, EngineTypeOK, Mutable, InnerOK, CountersOK, TrayOK
<1>0. inner \in InnerType /\ Len(inner.queued) <= 1
  BY DEF Mutable, InnerOK
<1>a. config \in Nat /\ cfg \in Nat /\ 0 \in Nat
  BY DEF TrayOK, Configs
<1>b. StatusOfRunning \in Statuses /\ "Off" \in Statuses /\ "Ready" \in Statuses
  BY DEF StatusOfRunning, Statuses
<1>c. Mutable' => InnerOK'
  BY DEF Mutable
<1>d. ASSUME NEW req \in Nat, begin(inner, req), UNCHANGED stopped
      PROVE  Mutable' /\ CountersOK'
  BY <1>0, <1>d, BeginType DEF CountersOK
<1>e. ASSUME NEW i \in InnerType, Len(i.queued) <= 1, NEW req \in Nat, NEW result,
             start(i, req, result)
      PROVE  Mutable' /\ CountersOK'
  BY <1>e, StartType DEF CountersOK
<1>f. ASSUME NEW result, report_engine_start(result) PROVE ENGINE_FAILED' \in BOOLEAN
  BY <1>f DEF report_engine_start
<1>g. clicks # <<>> => Tail(clicks) \in Seq(Items)
  BY DEF TrayOK
<1>1. CASE Launched
  <2>0. [inner EXCEPT !.window = TRUE] \in InnerType
        /\ Len([inner EXCEPT !.window = TRUE].queued) <= 1
    BY <1>0 DEF InnerType
  <2>1. Mutable' /\ CountersOK'
    <3>1. CASE UNCHANGED engineVars
      BY <3>1 DEF Mutable, CountersOK, InnerOK
    <3>2. CASE attach_window
      BY <2>0, <3>2 DEF attach_window, Mutable, CountersOK, InnerOK
    <3> QED BY <1>1, <1>a, <1>e, <2>0, <3>1, <3>2 DEF Launched
  <2>2. ENGINE_FAILED' \in BOOLEAN /\ intent' \in Nat
    BY <1>1, <1>a, <1>f DEF Launched, TrayOK
  <2>3. current_status' \in Statuses
    BY <1>1, <1>b DEF Launched
  <2> QED BY <1>1, <1>c, <2>1, <2>2, <2>3, RebuildType DEF Launched, TrayOK
<1>2. CASE OnStatus
  <2>1. Head(statusQ) \in Statuses /\ statusQ' \in Seq(Statuses)
    BY <1>2 DEF OnStatus, Mutable
  <2>2. CASE ~(Head(statusQ) = "Off" /\ START_FAILED)
    <3>1. /\ current_status' = Head(statusQ) /\ Rebuild(Head(statusQ))
          /\ set_mirror_visible(Head(statusQ) = "Connected")
          /\ UNCHANGED <<START_FAILED, task>>
      BY <1>2, <2>2 DEF OnStatus
    <3>2. visible' \in BOOLEAN
      BY <1>0, <3>1 DEF set_mirror_visible, InnerType
    <3>3. Mutable' /\ CountersOK'
      BY <1>2, <2>1, <3>1, <3>2 DEF OnStatus, Mutable, InnerOK, CountersOK
    <3> QED BY <1>2, <1>c, <2>1, <3>1, <3>3, RebuildType DEF OnStatus, TrayOK
  <2>3. CASE Head(statusQ) = "Off" /\ START_FAILED
    BY <1>2, <2>1, <2>3 DEF OnStatus, Mutable, InnerOK, CountersOK, TrayOK
  <2> QED BY <2>2, <2>3
<1>3. CASE FailureReported
  <2>1. visible' \in BOOLEAN
    BY <1>3 DEF FailureReported, set_mirror_visible
  <2>2. Mutable' /\ CountersOK'
    BY <1>0, <1>3, <1>a, <2>1, LifecycleType DEF FailureReported, CountersOK
  <2> QED BY <1>3, <1>b, <1>c, <1>f, <2>2, RebuildType DEF FailureReported, TrayOK
<1>4. CASE OnEngineStopped
  BY <1>4, <1>b, <1>c, OnEngineStoppedType, RebuildType DEF OnEngineStopped, TrayOK
<1>5. CASE OnClick
  <2>0. /\ UNCHANGED <<config, saves, late, events>> /\ task = "idle" /\ clicks # <<>>
        /\ OnStop \/ OnStart \/ OnRestart \/ OnQuit
    BY <1>5 DEF OnClick
  <2>1. CASE OnStop
    BY <1>a, <1>b, <1>c, <1>d, <2>0, <2>1, RebuildType DEF OnStop, TrayOK
  <2>2. CASE OnStart
    <3>1. Mutable' /\ CountersOK' /\ ENGINE_FAILED' \in BOOLEAN
      BY <1>0, <1>a, <1>e, <1>f, <2>2 DEF OnStart
    <3>2. current_status' \in Statuses /\ Rebuild(current_status')
      BY <1>b, <2>2 DEF OnStart, TrayOK
    <3> QED BY <1>a, <1>c, <2>0, <2>2, <3>1, <3>2, RebuildType DEF OnStart, TrayOK
  <2>3. CASE OnRestart
    BY <1>a, <1>b, <1>d, <1>f, <1>g, <2>0, <2>3 DEF OnRestart, TrayOK
  <2>4. CASE OnQuit
    <3>1. InnerOK'
      <4>1. PICK q \in Seq(Nat) : q = <<>> /\ Len(q) = 0
        <5>1. <<>> \in Seq(Nat) /\ Len(<<>>) = 0
          OBVIOUS
        <5> QED BY <5>1, Zenon
      <4>2. inner' = [inner EXCEPT !.airplay = 0, !.running = FALSE, !.transitioning = TRUE,
                                   !.next_cfg = 0, !.queued = q]
        BY <2>4, <4>1 DEF OnQuit, stop_blocking
      <4>3. inner' \in InnerType /\ inner'.queued = q
        BY <1>0, <4>2 DEF InnerType
      <4> QED BY <4>1, <4>3 DEF InnerOK
    <3>2. Mutable' /\ CountersOK'
      BY <2>4, <3>1 DEF OnQuit, stop_blocking, Mutable, CountersOK
    <3> QED BY <1>a, <1>g, <2>0, <2>4, <3>2 DEF OnQuit, TrayOK
  <2> QED BY <2>0, <2>1, <2>2, <2>3, <2>4
<1>6. CASE Exited
  <2>1. InnerOK'
    <3>1. PICK q \in Seq(Nat) : q = <<>> /\ Len(q) = 0
      <4>1. <<>> \in Seq(Nat) /\ Len(<<>>) = 0
        OBVIOUS
      <4> QED BY <4>1, Zenon
    <3>2. inner' = [inner EXCEPT !.transitioning = FALSE, !.queued = q, !.next_cfg = 0]
      BY <1>6, <3>1 DEF Exited, stop_blocking_done
    <3>3. inner' \in InnerType /\ inner'.queued = q
      BY <1>0, <3>2 DEF InnerType
    <3> QED BY <3>1, <3>3 DEF InnerOK
  <2>2. Mutable' /\ CountersOK'
    BY <1>6, <2>1 DEF Exited, stop_blocking_done, Mutable, CountersOK
  <2> QED BY <1>6, <2>2 DEF Exited, TrayOK
<1>7. CASE OnConfig
  <2>1. Mutable' /\ CountersOK' /\ ENGINE_FAILED' \in BOOLEAN /\ intent' \in Nat
    <3>1. CASE UNCHANGED <<engineVars, ENGINE_FAILED, intent>>
      BY <3>1 DEF Mutable, CountersOK, InnerOK, TrayOK
    <3> QED BY <1>7, <1>a, <1>d, <1>f, <3>1 DEF OnConfig
  <2>2. shown.icon \in Statuses /\ current_status' \in Statuses
    BY <1>7 DEF OnConfig, TrayOK
  <2> QED BY <1>7, <1>c, <2>1, <2>2, RebuildType DEF OnConfig, TrayOK
<1>8. CASE Background /\ UNCHANGED tray
  BY <1>8, BackgroundType DEF TrayOK
<1>9. CASE Save
  BY <1>9 DEF Save, TrayOK, Mutable, InnerOK, CountersOK, Configs
<1>10. CASE CloseRequested
  BY <1>10, <1>a, <1>b, <1>c, <1>d, <1>f, RebuildType DEF CloseRequested, TrayOK
<1>11. ASSUME NEW item \in Items, Click(item) PROVE Mutable' /\ CountersOK' /\ TrayOK'
  BY <1>11 DEF Click, TrayOK, Mutable, InnerOK, CountersOK
<1>12. CASE UNCHANGED vars
  BY <1>12 DEF TrayOK, Mutable, InnerOK, CountersOK
<1> QED BY <1>1, <1>2, <1>3, <1>4, <1>5, <1>6, <1>7, <1>8, <1>9, <1>10, <1>11, <1>12
        DEF Next, EventLoop, User

(* Every variable of the macOS application keeps its type.                 *)
THEOREM TypeCorrect == Spec => []TypeOK
BY TypeInit, TypeStep, PTL DEF Spec

----------------------------------------------------------------------------
(* The inductive invariant *)

Ending == task \in {"quit", "exited"}

(* The core is up while the main thread holds it or a thread stops it; a   *)
(* teardown is under way, or its end unheard of, while transitioning.      *)
EngineFollowsInner ==
  /\ inner.airplay # 0 => teardown = "none" /\ ~inner.transitioning
  /\ core # "off" <=> (inner.airplay # 0 \/ teardown \in {"stopping", "last"})
  /\ stopped # 0 => stopped = 1 /\ teardown = "none"
  /\ ~Ending => /\ inner.transitioning <=> (teardown # "none" \/ stopped # 0)
                /\ teardown # "last"

(* running and the two pending requests say the same of the future.        *)
RequestsPending ==
  /\ ~inner.transitioning => /\ inner.queued = <<>> /\ inner.next_cfg = 0
                             /\ inner.running <=> inner.airplay # 0
  /\ inner.transitioning /\ ~Ending => (inner.running <=> inner.next_cfg # 0)
  /\ Ending => inner.airplay = 0 /\ ~inner.running
  /\ task = "launch" => ~inner.running

(* What the engine will run with once the teardown under way is over.      *)
Target ==
  IF ~inner.transitioning THEN inner.airplay
  ELSE IF inner.queued = <<>> THEN inner.next_cfg ELSE Head(inner.queued)

(* A failed start is on record, or its Off on the way.                     *)
OffQueued == START_FAILED /\ \E k \in 1..Len(statusQ) : statusQ[k] = "Off"
FailureKnown == ENGINE_FAILED \/ task = "fail" \/ OffQueued

IntentKept == ~Ending => Target = intent \/ (Target = 0 /\ FailureKnown)

IInv ==
  /\ TypeOK /\ EngineFollowsInner /\ RequestsPending /\ IntentKept
  /\ QuitIsClean

EInv == EngineFollowsInner /\ RequestsPending

(* And in the invariant.                                                   *)
LEMMA InvInit == Init => IInv
<1> SUFFICES ASSUME Init PROVE IInv
  OBVIOUS
<1>1. TypeOK
  BY TypeInit
<1> QED
  BY <1>1 DEF Init, EngineInit, IInv, EngineFollowsInner, RequestsPending, IntentKept, Target,
     Ending, QuitIsClean

(* A deferred start comes up or leaves its Off behind.                     *)
LEMMA StartOrReportEffect ==
  ASSUME NEW i \in InnerType, NEW req \in Nat, start_or_report(i, req), statusQ \in Seq(Statuses),
         core = "off", i.airplay = 0
  PROVE  /\ inner'.transitioning = i.transitioning
         /\ inner'.queued = i.queued /\ inner'.next_cfg = i.next_cfg
         /\ \/ inner'.airplay = req /\ inner'.running = TRUE /\ core' = "starting"
            \/ inner'.airplay = 0 /\ inner'.running = FALSE /\ core' = "off" /\ OffQueued'
<1>1. CASE Started(i, req)
  BY <1>1 DEF Started, InnerType
<1>2. CASE ~Started(i, req)
  <2>1. /\ inner' = [i EXCEPT !.running = FALSE]
        /\ START_FAILED' = TRUE
        /\ statusQ' = Append(statusQ, "Off")
        /\ UNCHANGED core
    BY <1>2 DEF start_or_report
  <2>2. Len(statusQ') = Len(statusQ) + 1 /\ statusQ'[Len(statusQ) + 1] = "Off"
    BY <2>1
  <2>3. Len(statusQ) + 1 \in 1..Len(statusQ')
    BY <2>2
  <2>4. OffQueued'
    BY <2>1, <2>2, <2>3 DEF OffQueued
  <2> QED BY <2>1, <2>4 DEF InnerType
<1> QED BY <1>1, <1>2

(* A stop or restart keeps the invariant, and its request is the target    *)
(* unless a start failed at once.                                          *)
LEMMA BeginEffect ==
  ASSUME InnerOK, statusQ \in Seq(Statuses), EInv, task \in {"idle", "fail"},
         NEW req \in Nat, Lifecycle(inner, req), UNCHANGED stopped, task' = "idle"
  PROVE  /\ EInv'
         /\ Target' = req \/ (Target' = 0 /\ OffQueued')
<1> USE DEF EInv, EngineFollowsInner, RequestsPending, Target, Ending, InnerOK
<1>1. CASE inner.transitioning
  <2>1. inner' = [inner EXCEPT !.queued = <<req>>] /\ UNCHANGED <<teardown, core>>
    BY <1>1 DEF Lifecycle, Queue
  <2>2. Head(<<req>>) = req /\ <<req>> # <<>>
    OBVIOUS
  <2>3. /\ inner'.queued = <<req>> /\ inner'.transitioning = inner.transitioning
        /\ inner'.running = inner.running /\ inner'.airplay = inner.airplay
        /\ inner'.next_cfg = inner.next_cfg
    BY <2>1 DEF InnerType
  <2>4. Target' = req
    BY <1>1, <2>2, <2>3, Zenon
  <2> QED BY <1>1, <2>1, <2>3, <2>4
<1>2. CASE ~inner.transitioning /\ inner.airplay = 0 /\ req # 0
  <2>1. start_or_report(inner, req) /\ UNCHANGED teardown
    BY <1>2 DEF Lifecycle
  <2>2. core = "off"
    BY <1>2
  <2> QED BY <1>2, <2>1, <2>2, StartOrReportEffect
<1>3. CASE ~inner.transitioning /\ inner.airplay = 0 /\ req = 0
  BY <1>3 DEF Lifecycle, InnerType
<1>4. CASE ~inner.transitioning /\ inner.airplay # 0
  BY <1>4 DEF Lifecycle, TearDown, InnerType
<1> QED BY <1>1, <1>2, <1>3, <1>4 DEF InnerType

(* start() is called when the engine does not run; it takes the request as *)
(* the target, or returns the error.                                       *)
LEMMA StartEffect ==
  ASSUME NEW i \in InnerType, EInv, InnerOK, task \in {"launch", "idle"}, ~inner.running,
         i.airplay = inner.airplay, i.running = inner.running, i.queued = inner.queued,
         i.transitioning = inner.transitioning, i.next_cfg = inner.next_cfg,
         NEW req \in Nat \ {0}, NEW result, start(i, req, result), task' = "idle"
  PROVE  /\ EInv'
         /\ Target' = req \/ (Target' = 0 /\ result = "err")
<1> USE DEF EInv, EngineFollowsInner, RequestsPending, Target, Ending, InnerOK
<1>1. CASE inner.transitioning
  <2>1. inner' = [i EXCEPT !.queued = <<req>>] /\ UNCHANGED <<teardown, core, stopped>>
    BY <1>1 DEF start, Queue
  <2>2. Head(<<req>>) = req /\ <<req>> # <<>>
    OBVIOUS
  <2>3. /\ inner'.queued = <<req>> /\ inner'.transitioning = inner.transitioning
        /\ inner'.running = inner.running /\ inner'.airplay = inner.airplay
        /\ inner'.next_cfg = inner.next_cfg
    BY <2>1 DEF InnerType
  <2>4. Target' = req
    BY <1>1, <2>2, <2>3, Zenon
  <2> QED BY <1>1, <2>1, <2>3, <2>4
<1>2. CASE ~inner.transitioning /\ Started(i, req)
  BY <1>2 DEF start, Started, InnerType
<1>3. CASE ~inner.transitioning /\ inner' = i /\ result = "err" /\ UNCHANGED core
  BY <1>3 DEF start, InnerType
<1> QED BY <1>1, <1>2, <1>3 DEF start, InnerType

(* The end of a teardown carries the target out, or fails at it.           *)
LEMMA OnEngineStoppedEffect ==
  ASSUME InnerOK, statusQ \in Seq(Statuses), stopped \in Nat, EInv, task = "idle",
         on_engine_stopped, task' = "idle"
  PROVE  /\ EInv'
         /\ \/ Target' = Target /\ (Target # 0 \/ UNCHANGED <<flags, statusQ>>)
            \/ Target' = 0 /\ OffQueued'
<1> USE DEF EInv, EngineFollowsInner, RequestsPending, Target, Ending, InnerOK
<1> DEFINE i == [inner EXCEPT !.transitioning = FALSE, !.queued = <<>>, !.next_cfg = 0]
<1>1. /\ stopped = 1 /\ stopped' = 0 /\ teardown = "none" /\ inner.transitioning
      /\ inner.airplay = 0 /\ core = "off"
  BY DEF on_engine_stopped
<1>2. /\ i \in InnerType /\ i.transitioning = FALSE /\ i.queued = <<>> /\ i.next_cfg = 0
      /\ i.airplay = 0 /\ i.running = inner.running
  <2>1. PICK q \in Seq(Nat) : q = <<>>
    <3>1. <<>> \in Seq(Nat)
      OBVIOUS
    <3> QED BY <3>1, Zenon
  <2>2. i = [inner EXCEPT !.transitioning = FALSE, !.queued = q, !.next_cfg = 0]
    BY <2>1
  <2> HIDE DEF i
  <2>3. /\ i \in InnerType /\ i.transitioning = FALSE /\ i.queued = q /\ i.next_cfg = 0
        /\ i.airplay = inner.airplay /\ i.running = inner.running
    BY <2>2 DEF InnerType
  <2> QED BY <1>1, <2>1, <2>3
<1>3. \/ inner.queued # <<>> /\ begin(i, Head(inner.queued))
      \/ /\ inner.queued = <<>> /\ inner.next_cfg # 0
         /\ start_or_report(i, inner.next_cfg)
         /\ UNCHANGED <<teardown, visible, log, lines>>
      \/ /\ inner.queued = <<>> /\ inner.next_cfg = 0
         /\ inner' = i
         /\ UNCHANGED <<teardown, core, visible, flags, statusQ, log, lines>>
  BY DEF on_engine_stopped
<1> HIDE DEF i
<1>4. inner.next_cfg \in Nat /\ inner.queued \in Seq(Nat)
  BY DEF InnerType
<1>5. CASE inner.queued # <<>> /\ begin(i, Head(inner.queued))
  <2>1. Head(inner.queued) \in Nat /\ Target = Head(inner.queued)
    BY <1>1, <1>4, <1>5
  <2>2. CASE Target # 0
    <3>1. start_or_report(i, Target) /\ UNCHANGED teardown
      BY <1>2, <1>5, <2>1, <2>2 DEF begin, Lifecycle
    <3> QED BY <1>1, <1>2, <2>1, <2>2, <3>1, StartOrReportEffect
  <2>3. CASE Target = 0
    <3>1. inner' = [i EXCEPT !.running = FALSE] /\ UNCHANGED <<teardown, core, flags, statusQ>>
      BY <1>2, <1>5, <2>1, <2>3 DEF begin, Lifecycle
    <3> QED BY <1>1, <1>2, <2>3, <3>1 DEF InnerType
  <2> QED BY <2>2, <2>3
<1>6. CASE /\ inner.queued = <<>> /\ inner.next_cfg # 0
           /\ start_or_report(i, inner.next_cfg) /\ UNCHANGED teardown
  BY <1>1, <1>2, <1>4, <1>6, StartOrReportEffect
<1>7. CASE /\ inner.queued = <<>> /\ inner.next_cfg = 0
           /\ inner' = i /\ UNCHANGED <<teardown, core, flags, statusQ>>
  BY <1>1, <1>2, <1>7
<1> QED BY <1>3, <1>5, <1>6, <1>7

(* Nothing the other threads do changes the target or loses an Off.        *)
LEMMA BackgroundEffect ==
  ASSUME Mutable, CountersOK, EInv, Background, UNCHANGED tray
  PROVE  EInv' /\ Target' = Target /\ (OffQueued => OffQueued')
<1> USE DEF EInv, EngineFollowsInner, RequestsPending, Target, Ending
<1>1. CASE StopCore
  BY <1>1 DEF StopCore, OffQueued
<1>2. CASE signal_engine_stopped
  BY <1>2 DEF signal_engine_stopped, OffQueued, CountersOK
<1>3. ASSUME NEW t \in LogThreads, LogSend(t)
      PROVE  EInv' /\ Target' = Target /\ (OffQueued => OffQueued')
  <2>1. ASSUME NEW k \in 1..Len(statusQ), statusQ[k] = "Off"
        PROVE  k \in 1..Len(statusQ') /\ statusQ'[k] = "Off"
    <3>1. statusQ' = Append(statusQ, log[t]) /\ log[t] \in Statuses
      BY <1>3 DEF LogSend, CountersOK
    <3> QED BY <2>1, <3>1 DEF Mutable
  <2>2. OffQueued => OffQueued'
    BY <1>3, <2>1 DEF LogSend, OffQueued
  <2> QED BY <1>3, <2>2 DEF LogSend
<1>4. CASE CoreServes
  BY <1>4 DEF CoreServes, OffQueued
<1>5. ASSUME NEW t \in LogThreads, NEW line \in Lines, LogSwap(t, line)
      PROVE  EInv' /\ Target' = Target /\ (OffQueued => OffQueued')
  <2>1. core # "off" /\ core' # "off"
    BY <1>5 DEF LogSwap, Logs
  <2>2. OffQueued => OffQueued'
    BY <1>5 DEF LogSwap, OffQueued
  <2> QED BY <1>5, <2>1, <2>2 DEF LogSwap
<1> QED BY <1>1, <1>2, <1>3, <1>4, <1>5 DEF Background, TeardownThread, CallbackSteps

(* Handling a status keeps an Off that still counts, or acts on it.        *)
LEMMA OnStatusEffect ==
  ASSUME Mutable, EInv, OnStatus
  PROVE  EInv' /\ Target' = Target /\ (FailureKnown => FailureKnown')
<1> USE DEF EInv, EngineFollowsInner, RequestsPending, Target, Ending
<1>1. EInv' /\ Target' = Target
  BY DEF OnStatus
<1>2. CASE task' = "fail"
  BY <1>1, <1>2 DEF FailureKnown
<1>3. CASE task' # "fail"
  <2>1. UNCHANGED <<START_FAILED, ENGINE_FAILED>> /\ task = "idle"
        /\ ~(Head(statusQ) = "Off" /\ START_FAILED)
        /\ statusQ # <<>> /\ statusQ' = Tail(statusQ)
    BY <1>3 DEF OnStatus
  <2>2. ASSUME NEW k \in 1..Len(statusQ), statusQ[k] = "Off", START_FAILED
        PROVE  k - 1 \in 1..Len(statusQ') /\ statusQ'[k - 1] = "Off"
    <3>1. Head(statusQ) = statusQ[1]
      BY <2>1 DEF Mutable
    <3>2. k # 1
      BY <2>1, <2>2, <3>1
    <3> QED BY <2>1, <2>2, <3>2 DEF Mutable
  <2>3. OffQueued => OffQueued'
    BY <2>1, <2>2 DEF OffQueued
  <2> QED BY <1>1, <2>1, <2>3 DEF FailureKnown
<1> QED BY <1>2, <1>3

(* Each step keeps the inductive invariant.                                *)
LEMMA InvStep == IInv /\ [Next]_vars => IInv'
<1> SUFFICES ASSUME IInv, [Next]_vars
             PROVE  EInv' /\ IntentKept' /\ QuitIsClean'
  BY TypeStep DEF IInv, EInv
<1>0. /\ EInv /\ IntentKept /\ InnerOK /\ Mutable /\ CountersOK /\ TrayOK
      /\ statusQ \in Seq(Statuses) /\ stopped \in Nat
  BY TypeParts DEF IInv, EInv, Mutable, CountersOK
<1>a. config \in Nat \ {0} /\ cfg \in Nat \ {0} /\ 0 \in Nat
  BY <1>0 DEF TrayOK, Configs
<1>b. task' # "exited" => QuitIsClean'
  BY DEF QuitIsClean
<1>c. ASSUME NEW req \in Nat, begin(inner, req), UNCHANGED stopped, task = "idle",
             task' = "idle", intent' = req
      PROVE  EInv' /\ IntentKept' /\ QuitIsClean'
  <2>1. EInv' /\ (Target' = req \/ (Target' = 0 /\ OffQueued'))
    BY <1>0, <1>c, BeginEffect DEF begin
  <2> QED BY <1>b, <1>c, <2>1 DEF IntentKept, FailureKnown
<1>1. CASE Launched
  <2>1. task = "launch" /\ task' = "idle" /\ ~inner.running
    BY <1>0, <1>1 DEF Launched, EInv, RequestsPending
  <2>2. CASE UNCHANGED engineVars /\ UNCHANGED intent /\ ENGINE_FAILED'
    BY <1>0, <1>b, <2>1, <2>2 DEF EInv, EngineFollowsInner, RequestsPending, Target, Ending,
       IntentKept, FailureKnown, OffQueued
  <2>3. CASE attach_window /\ UNCHANGED <<ENGINE_FAILED, intent>>
    <3>1. /\ inner'.airplay = inner.airplay /\ inner'.running = inner.running
          /\ inner'.queued = inner.queued /\ inner'.transitioning = inner.transitioning
          /\ inner'.next_cfg = inner.next_cfg
      BY <1>0, <2>3 DEF attach_window, InnerOK, InnerType
    <3> QED BY <1>0, <1>b, <2>1, <2>3, <3>1 DEF attach_window, EInv, EngineFollowsInner,
               RequestsPending, Target, Ending, IntentKept, FailureKnown, OffQueued
  <2>4. ASSUME NEW result, start([inner EXCEPT !.window = TRUE], cfg, result),
               report_engine_start(result), intent' = cfg
        PROVE  EInv' /\ IntentKept' /\ QuitIsClean'
    <3> DEFINE i == [inner EXCEPT !.window = TRUE]
    <3>1. /\ i \in InnerType /\ i.airplay = inner.airplay /\ i.running = inner.running
          /\ i.queued = inner.queued /\ i.transitioning = inner.transitioning
          /\ i.next_cfg = inner.next_cfg
      BY <1>0 DEF InnerOK, InnerType
    <3>2. start(i, cfg, result)
      BY <2>4
    <3> HIDE DEF i
    <3>3. EInv' /\ (Target' = cfg \/ (Target' = 0 /\ result = "err"))
      BY <1>0, <1>a, <2>1, <3>1, <3>2, StartEffect
    <3> QED BY <1>b, <2>1, <2>4, <3>3 DEF IntentKept, FailureKnown, report_engine_start
  <2> QED BY <1>1, <2>2, <2>3, <2>4 DEF Launched, report_engine_start
<1>2. CASE OnStatus
  <2>1. EInv' /\ Target' = Target /\ (FailureKnown => FailureKnown')
    BY <1>0, <1>2, OnStatusEffect
  <2>2. UNCHANGED intent /\ task = "idle" /\ task' \in {"idle", "fail"}
    BY <1>2 DEF OnStatus
  <2> QED BY <1>0, <1>b, <2>1, <2>2 DEF IntentKept, Ending
<1>3. CASE FailureReported
  <2>1. /\ EInv' /\ (Target' = 0 \/ (Target' = 0 /\ OffQueued'))
    BY <1>0, <1>3, <1>a, BeginEffect DEF FailureReported
  <2>2. ENGINE_FAILED' = TRUE
    BY <1>3 DEF FailureReported, report_engine_start
  <2> QED BY <1>3, <1>b, <2>1, <2>2 DEF FailureReported, IntentKept, FailureKnown
<1>4. CASE OnEngineStopped
  <2>1. /\ EInv'
        /\ \/ Target' = Target /\ (Target # 0 \/ UNCHANGED <<flags, statusQ>>)
           \/ Target' = 0 /\ OffQueued'
    BY <1>0, <1>4, OnEngineStoppedEffect DEF OnEngineStopped
  <2>2. UNCHANGED <<intent, task, ENGINE_FAILED>> /\ task = "idle"
    BY <1>4 DEF OnEngineStopped
  <2> QED BY <1>0, <1>b, <2>1, <2>2 DEF IntentKept, FailureKnown, OffQueued, Ending
<1>5. CASE OnClick
  <2>0. task = "idle" /\ (OnStop \/ OnStart \/ OnRestart \/ OnQuit)
    BY <1>5 DEF OnClick
  <2>1. CASE OnStop
    BY <1>a, <1>c, <2>0, <2>1 DEF OnStop
  <2>2. CASE OnStart
    <3>1. PICK result : start(inner, config, result) /\ report_engine_start(result)
      BY <2>2 DEF OnStart
    <3>2. ~inner.running /\ intent' = config /\ task' = "idle"
      BY <2>0, <2>2 DEF OnStart
    <3>3. EInv' /\ (Target' = config \/ (Target' = 0 /\ result = "err"))
      BY <1>0, <1>a, <2>0, <3>1, <3>2, StartEffect DEF InnerOK
    <3> QED BY <1>b, <3>1, <3>2, <3>3 DEF IntentKept, FailureKnown, report_engine_start
  <2>3. CASE OnRestart
    BY <1>a, <1>c, <2>0, <2>3 DEF OnRestart
  <2>4. CASE OnQuit
    <3>1. /\ inner'.airplay = 0 /\ inner'.running = FALSE /\ inner'.transitioning = TRUE
      BY <1>0, <2>4 DEF OnQuit, stop_blocking, InnerOK, InnerType
    <3> QED BY <1>0, <1>b, <2>0, <2>4, <3>1 DEF OnQuit, stop_blocking, EInv, EngineFollowsInner,
               RequestsPending, Ending, IntentKept
  <2> QED BY <2>0, <2>1, <2>2, <2>3, <2>4
<1>6. CASE Exited
  <2>1. /\ inner'.airplay = inner.airplay /\ inner'.running = inner.running
        /\ inner'.transitioning = FALSE /\ inner'.queued = <<>> /\ inner'.next_cfg = 0
    BY <1>0, <1>6 DEF Exited, stop_blocking_done, InnerOK, InnerType
  <2>2. inner.airplay = 0 /\ ~inner.running /\ task' = "exited"
    BY <1>0, <1>6 DEF Exited, EInv, RequestsPending, Ending
  <2>3. UNCHANGED <<teardown, core, stopped>> /\ (~late' => teardown = "none")
    BY <1>0, <1>6 DEF Exited, stop_blocking_done, TornDown, TrayOK
  <2>4. EInv'
    BY <1>0, <2>1, <2>2, <2>3 DEF EInv, EngineFollowsInner, RequestsPending, Ending
  <2>5. QuitIsClean'
    BY <1>0, <2>2, <2>3 DEF EInv, EngineFollowsInner, QuitIsClean
  <2> QED BY <2>2, <2>4, <2>5 DEF IntentKept, Ending
<1>7. CASE OnConfig
  <2>1. CASE UNCHANGED <<engineVars, ENGINE_FAILED, intent>>
    BY <1>0, <1>7, <1>b, <2>1 DEF OnConfig, EInv, EngineFollowsInner, RequestsPending, Target,
       Ending, IntentKept, FailureKnown, OffQueued
  <2> QED BY <1>7, <1>a, <1>c, <2>1 DEF OnConfig
<1>8. CASE Background /\ UNCHANGED tray /\ task # "exited"
  <2>1. EInv' /\ Target' = Target /\ (OffQueued => OffQueued')
    BY <1>0, <1>8, BackgroundEffect
  <2> QED BY <1>0, <1>8, <1>b, <2>1 DEF IntentKept, FailureKnown, Ending
<1>9. CASE CloseRequested
  BY <1>9, <1>a, <1>c DEF CloseRequested
<1>10. CASE UNCHANGED <<engineVars, task, ENGINE_FAILED, intent, late>>
  BY <1>0, <1>10 DEF IInv, EInv, EngineFollowsInner, RequestsPending, Target, Ending, IntentKept,
     FailureKnown, OffQueued, QuitIsClean
<1>11. CASE Save \/ UNCHANGED vars
  BY <1>10, <1>11 DEF Save
<1>12. ASSUME NEW item \in Items, Click(item) PROVE EInv' /\ IntentKept' /\ QuitIsClean'
  BY <1>10, <1>12 DEF Click
<1> QED BY <1>1, <1>2, <1>3, <1>4, <1>5, <1>6, <1>7, <1>8, <1>9, <1>11, <1>12
        DEF Next, EventLoop, User

(* The invariant holds of the macOS application.                           *)
THEOREM InvariantHolds == Spec => []IInv
BY InvInit, InvStep, PTL DEF Spec

(* Latest intent wins: with nothing under way, the engine runs with what   *)
(* was asked for last, or a start has failed and that is on record.        *)
THEOREM LatestIntentWinsHolds == Spec => []LatestIntentWins
<1>1. IInv => LatestIntentWins
  <2> SUFFICES ASSUME IInv, Settled
               PROVE  inner.airplay = intent \/ (inner.airplay = 0 /\ ENGINE_FAILED)
    BY DEF LatestIntentWins
  <2>1. ~inner.transitioning
    BY DEF IInv, EngineFollowsInner, Settled, Ending
  <2>2. ~OffQueued
    BY DEF OffQueued, Settled
  <2> QED BY <2>1, <2>2 DEF IInv, IntentKept, Target, FailureKnown, Settled, Ending
<1> QED BY <1>1, InvariantHolds, PTL

(* is_running() is the truth once nothing is under way.                    *)
THEOREM RunningIsTrueHolds == Spec => []RunningIsTrue
<1>1. IInv => RunningIsTrue
  BY DEF IInv, EngineFollowsInner, RequestsPending, RunningIsTrue, Settled, Ending
<1> QED BY <1>1, InvariantHolds, PTL

(* Quit leaves no core and no teardown behind unless its time was up.      *)
THEOREM QuitIsCleanHolds == Spec => []QuitIsClean
<1>1. IInv => QuitIsClean
  BY DEF IInv
<1> QED BY <1>1, InvariantHolds, PTL

----------------------------------------------------------------------------
(* The menu *)

(* Not every handler rebuilds the menu.  The Restart item does not, but it *)
(* is only offered while the engine runs, so a teardown follows and its    *)
(* end rebuilds the menu; on_config keeps the icon, which is right unless  *)
(* a status, or a log line that sends one, is still on its way.            *)
NoStatusDue == statusQ = <<>> /\ \A t \in LogThreads : log[t] = "idle"

MenuNow ==
  shown = Menu(inner.running, PIN_IGNORED, current_status, ENGINE_FAILED, current_status)

RestartOffered == \A k \in 1..Len(clicks) : clicks[k] = "restart" => shown.running

MenuCurrent ==
  /\ RestartOffered
  /\ task = "idle" /\ ~inner.transitioning =>
       (shown.running <=> inner.running) /\ (NoStatusDue => MenuNow)

(* A rebuilt menu is current, and no click on the old one is left.         *)
LEMMA RebuildCurrent ==
  ASSUME NEW icon, Rebuild(icon), NoStatusDue' => icon = current_status'
  PROVE  MenuCurrent'
<1>1. clicks' = <<>> /\ shown'.running = inner'.running
  BY DEF Rebuild, Menu
<1>2. RestartOffered'
  BY <1>1 DEF RestartOffered
<1>3. NoStatusDue' => MenuNow'
  BY DEF Rebuild, MenuNow, Menu
<1> QED BY <1>1, <1>2, <1>3 DEF MenuCurrent

(* Dropping the first click, or none, keeps the others on offer.           *)
LEMMA ClicksLeft ==
  ASSUME clicks \in Seq(Items), clicks # <<>>, clicks' = Tail(clicks), RestartOffered,
         UNCHANGED shown
  PROVE  RestartOffered'
<1> SUFFICES ASSUME NEW k \in 1..Len(clicks'), clicks'[k] = "restart" PROVE shown.running
  BY DEF RestartOffered
<1>1. k + 1 \in 1..Len(clicks) /\ clicks[k + 1] = clicks'[k]
  OBVIOUS
<1> QED BY <1>1 DEF RestartOffered

(* The other threads announce what they change of the menu's inputs.       *)
LEMMA BackgroundMenu ==
  ASSUME Mutable, CountersOK, MenuCurrent, Background, UNCHANGED tray
  PROVE  MenuCurrent'
<1> USE DEF MenuCurrent, RestartOffered, NoStatusDue, MenuNow
<1>1. CASE StopCore \/ signal_engine_stopped \/ CoreServes
  BY <1>1 DEF StopCore, signal_engine_stopped, CoreServes
<1>2. ASSUME NEW t \in LogThreads, LogSend(t) PROVE MenuCurrent'
  <2>1. statusQ' = Append(statusQ, log[t]) /\ statusQ \in Seq(Statuses)
    BY <1>2 DEF LogSend, Mutable
  <2>2. statusQ' # <<>>
    BY <2>1
  <2> QED BY <1>2, <2>2 DEF LogSend
<1>3. ASSUME NEW t \in LogThreads, NEW line \in Lines, LogSwap(t, line) PROVE MenuCurrent'
  <2>1. ASSUME log'[t] = "idle" PROVE UNCHANGED <<log, PIN_IGNORED>>
    BY <1>3, <2>1 DEF LogSwap, Then, CountersOK
  <2> QED BY <1>3, <2>1 DEF LogSwap
<1> QED BY <1>1, <1>2, <1>3 DEF Background, TeardownThread, CallbackSteps

(* Every step keeps the menu current.                                      *)
LEMMA MenuStep == IInv /\ MenuCurrent /\ [Next]_vars => MenuCurrent'
<1> SUFFICES ASSUME IInv, MenuCurrent, [Next]_vars PROVE MenuCurrent'
  OBVIOUS
<1>0. Mutable /\ CountersOK /\ TrayOK /\ EInv /\ clicks \in Seq(Items)
  BY TypeParts DEF IInv, EInv, TrayOK
<1>1. CASE Launched \/ FailureReported \/ OnEngineStopped \/ CloseRequested
  BY <1>1, RebuildCurrent DEF Launched, FailureReported, OnEngineStopped, CloseRequested
<1>2. CASE OnStatus
  <2>1. CASE task' = "fail"
    BY <1>2, <2>1 DEF OnStatus, MenuCurrent, RestartOffered
  <2>2. CASE task' # "fail"
    <3>1. Rebuild(Head(statusQ)) /\ current_status' = Head(statusQ)
      BY <1>2, <2>2 DEF OnStatus
    <3> QED BY <3>1, RebuildCurrent
  <2> QED BY <2>1, <2>2
<1>3. CASE OnClick
  <2>0. task = "idle" /\ clicks # <<>>
    BY <1>3 DEF OnClick
  <2>1. CASE OnStop \/ OnStart
    BY <2>1, RebuildCurrent DEF OnStop, OnStart
  <2>2. CASE Head(clicks) = "restart" /\ OnRestart
    <3>1. clicks' = Tail(clicks) /\ UNCHANGED <<shown, task>> /\ begin(inner, config)
      BY <2>2 DEF OnRestart
    <3>2. shown.running
      <4>1. 1 \in 1..Len(clicks) /\ clicks[1] = Head(clicks)
        BY <1>0, <2>0
      <4> QED BY <2>2, <4>1 DEF MenuCurrent, RestartOffered
    <3>3. inner'.transitioning
      <4>0. inner \in InnerType
        BY <1>0 DEF Mutable, InnerOK
      <4>1. CASE inner.transitioning
        BY <3>1, <4>0, <4>1 DEF begin, Lifecycle, Queue, InnerType
      <4>2. CASE ~inner.transitioning
        <5>1. inner.running /\ inner.airplay # 0
          BY <1>0, <2>0, <3>2, <4>2 DEF MenuCurrent, EInv, RequestsPending
        <5> QED BY <3>1, <4>0, <4>2, <5>1 DEF begin, Lifecycle, TearDown, InnerType
      <4> QED BY <4>1, <4>2
    <3>4. RestartOffered'
      BY <1>0, <2>0, <3>1, ClicksLeft DEF MenuCurrent
    <3> QED BY <3>3, <3>4 DEF MenuCurrent
  <2>3. CASE OnQuit
    <3>1. clicks' = Tail(clicks) /\ UNCHANGED shown /\ task' = "quit"
      BY <2>3 DEF OnQuit
    <3>2. RestartOffered'
      BY <1>0, <2>0, <3>1, ClicksLeft DEF MenuCurrent
    <3> QED BY <3>1, <3>2 DEF MenuCurrent
  <2> QED BY <1>3, <2>1, <2>2, <2>3 DEF OnClick
<1>4. CASE Exited
  BY <1>4 DEF Exited, MenuCurrent, RestartOffered
<1>5. CASE OnConfig
  <2>0. inner \in InnerType /\ task = "idle" /\ Rebuild(shown.icon) /\ UNCHANGED <<task, current_status>>
    BY <1>0, <1>5 DEF OnConfig, Mutable, InnerOK
  <2>1. CASE UNCHANGED engineVars /\ ~inner.transitioning
    <3>1. NoStatusDue' => NoStatusDue
      BY <2>1 DEF NoStatusDue
    <3>2. NoStatusDue' => shown.icon = current_status'
      BY <2>0, <2>1, <3>1 DEF MenuCurrent, MenuNow, Menu
    <3> QED BY <2>0, <3>2, RebuildCurrent
  <2>2. CASE inner'.transitioning
    BY <2>0, <2>2 DEF MenuCurrent, RestartOffered, Rebuild
  <2>3. CASE begin(inner, config) /\ inner.running
    <3>1. ~inner.transitioning => inner.airplay # 0
      BY <1>0, <2>3 DEF EInv, RequestsPending
    <3>2. inner'.transitioning
      BY <2>0, <2>3, <3>1 DEF begin, Lifecycle, Queue, TearDown, InnerType
    <3> QED BY <2>2, <3>2
  <2> QED BY <1>5, <2>1, <2>2, <2>3 DEF OnConfig
<1>6. CASE Background /\ UNCHANGED tray
  BY <1>0, <1>6, BackgroundMenu
<1>7. CASE Save \/ UNCHANGED vars
  BY <1>7 DEF Save, MenuCurrent, RestartOffered, NoStatusDue, MenuNow
<1>8. ASSUME NEW item \in Items, Click(item) PROVE MenuCurrent'
  <2>1. RestartOffered'
    <3>1. ASSUME NEW k \in 1..Len(clicks'), clicks'[k] = "restart" PROVE shown'.running
      <4>1. clicks' = Append(clicks, item) /\ UNCHANGED shown /\ (item = "restart" => shown.running)
        BY <1>8 DEF Click
      <4>2. (k \in 1..Len(clicks) /\ clicks'[k] = clicks[k]) \/ clicks'[k] = item
        BY <1>0, <4>1
      <4> QED BY <3>1, <4>1, <4>2 DEF MenuCurrent, RestartOffered
    <3> QED BY <3>1 DEF RestartOffered
  <2> QED BY <1>8, <2>1 DEF Click, MenuCurrent, NoStatusDue, MenuNow
<1> QED BY <1>1, <1>2, <1>3, <1>4, <1>5, <1>6, <1>7, <1>8 DEF Next, EventLoop, User

(* The menu ends up what build_menu would make of the state, although the  *)
(* Restart item and the watcher's handler do not bring all of it up to     *)
(* date.                                                                   *)
THEOREM MenuSettlesHolds == Spec => []MenuSettles
<1>1. Init => MenuCurrent
  BY DEF Init, EngineInit, MenuCurrent, RestartOffered
<1>2. IInv /\ MenuCurrent => MenuSettles
  BY DEF IInv, EngineFollowsInner, Ending, MenuCurrent, NoStatusDue, MenuNow, MenuSettles,
     Settled
<1> QED BY <1>1, <1>2, MenuStep, InvariantHolds, PTL DEF Spec

----------------------------------------------------------------------------
(* The contract with uxplay-core *)

(* A callback in progress belongs to a core that is up.                    *)
CallbacksInCore == core = "off" => \A t \in LogThreads : log[t] = "idle"

StartsCore ==
  core = "off" /\ core' = "starting" /\ UNCHANGED <<log, teardown>> /\ teardown = "none"
StopsCore ==
  UNCHANGED <<core, log>> /\ teardown = "none" /\ teardown' \in {"stopping", "last"}

(* What the main thread does to the core.                                  *)
LEMMA MainThreadDrivesCore ==
  ASSUME IInv, [Next]_vars
  PROVE  \/ UNCHANGED <<core, log, teardown>> \/ StartsCore \/ StopsCore
         \/ Background
<1> USE DEF StartsCore, StopsCore
<1>0. /\ EngineFollowsInner /\ RequestsPending /\ inner \in InnerType
      /\ core \in {"off", "starting", "serving", "failed"}
  BY DEF IInv, TypeOK, EngineTypeOK
<1>a. ASSUME NEW i, NEW req, start_or_report(i, req), UNCHANGED <<teardown, log>>, core = "off",
             teardown = "none"
      PROVE  UNCHANGED <<core, log, teardown>> \/ StartsCore
  BY <1>a DEF start_or_report, Started
<1>b. ~Ending /\ ~inner.transitioning => teardown = "none"
  BY <1>0 DEF EngineFollowsInner
<1>c. inner.airplay = 0 /\ teardown = "none" => core = "off"
  BY <1>0 DEF EngineFollowsInner
<1>d. ASSUME NEW req, Lifecycle(inner, req), ~Ending
      PROVE  UNCHANGED <<core, log, teardown>> \/ StartsCore \/ StopsCore
  <2>1. CASE inner.airplay = 0 /\ ~inner.transitioning /\ start_or_report(inner, req)
             /\ UNCHANGED teardown
    BY <1>a, <1>b, <1>c, <1>d, <2>1 DEF Lifecycle
  <2> QED BY <1>b, <1>d, <2>1 DEF Lifecycle, TearDown
<1>e. ASSUME NEW i, i.running = inner.running, i.transitioning = inner.transitioning,
             NEW req, NEW result, start(i, req, result), ~Ending
      PROVE  UNCHANGED <<core, log, teardown>> \/ StartsCore
  <2>1. ~inner.transitioning /\ ~inner.running => core = "off"
    BY <1>0, <1>b, <1>c, <1>e DEF RequestsPending
  <2> QED BY <1>b, <1>e, <2>1 DEF start, Started
<1>1. CASE Launched
  <2>0. ~Ending
    BY <1>1 DEF Launched, Ending
  <2>1. ASSUME NEW result, start([inner EXCEPT !.window = TRUE], cfg, result)
        PROVE  UNCHANGED <<core, log, teardown>> \/ StartsCore
    <3> DEFINE i == [inner EXCEPT !.window = TRUE]
    <3>1. i.running = inner.running /\ i.transitioning = inner.transitioning
      BY <1>0 DEF InnerType
    <3>2. start(i, cfg, result)
      BY <2>1
    <3> HIDE DEF i
    <3> QED BY <1>e, <2>0, <3>1, <3>2
  <2> QED BY <1>1, <2>1 DEF Launched, attach_window
<1>2. CASE OnEngineStopped
  <2>1. teardown = "none" /\ core = "off" /\ task = "idle"
    BY <1>0, <1>2 DEF OnEngineStopped, on_engine_stopped, EngineFollowsInner, Ending, IInv,
       TypeOK, EngineTypeOK
  <2>2. \/ UNCHANGED <<core, log, teardown>>
        \/ \E i, req : start_or_report(i, req) /\ UNCHANGED <<teardown, log>>
    <3> DEFINE i == [inner EXCEPT !.transitioning = FALSE, !.queued = <<>>, !.next_cfg = 0]
    <3>1. \/ inner.queued # <<>> /\ begin(i, Head(inner.queued))
          \/ start_or_report(i, inner.next_cfg) /\ UNCHANGED <<teardown, log>>
          \/ UNCHANGED <<core, log, teardown>>
      BY <1>2 DEF OnEngineStopped, on_engine_stopped
    <3>2. i.airplay = 0 /\ ~i.transitioning
      BY <1>0, <1>2 DEF OnEngineStopped, on_engine_stopped, EngineFollowsInner, InnerType, Ending
    <3> HIDE DEF i
    <3>3. ASSUME begin(i, Head(inner.queued))
          PROVE  \/ UNCHANGED <<core, log, teardown>>
                 \/ start_or_report(i, Head(inner.queued)) /\ UNCHANGED <<teardown, log>>
      BY <3>2, <3>3 DEF begin, Lifecycle
    <3> QED BY <3>1, <3>3
  <2> QED BY <1>a, <2>1, <2>2
<1>3. CASE OnStatus \/ OnConfig \/ FailureReported \/ CloseRequested
  <2>1. ~Ending
    BY <1>3 DEF OnStatus, OnConfig, FailureReported, CloseRequested, Ending
  <2> QED BY <1>3, <1>d, <2>1 DEF OnStatus, OnConfig, FailureReported, CloseRequested, begin
<1>4. CASE OnClick
  <2>1. ~Ending
    BY <1>4 DEF OnClick, Ending
  <2>2. CASE OnStart
    BY <1>e, <2>1, <2>2 DEF OnStart
  <2>3. CASE OnQuit
    BY <1>0, <2>3 DEF OnQuit, stop_blocking, EngineFollowsInner
  <2> QED BY <1>4, <1>d, <2>1, <2>2, <2>3 DEF OnClick, OnStop, OnRestart, begin
<1>5. CASE Exited \/ Save \/ UNCHANGED vars
  BY <1>5 DEF Exited, stop_blocking_done, Save
<1>6. ASSUME NEW item \in Items, Click(item) PROVE UNCHANGED <<core, log, teardown>>
  BY <1>6 DEF Click
<1> QED BY <1>1, <1>2, <1>3, <1>4, <1>5, <1>6 DEF Next, EventLoop, User

(* Callbacks stay within the life of a core.                               *)
LEMMA CallbacksStep ==
  ASSUME IInv, CallbacksInCore, [Next]_vars PROVE CallbacksInCore'
<1> USE DEF CallbacksInCore
<1>1. CASE UNCHANGED <<core, log, teardown>> \/ StartsCore \/ StopsCore
  BY <1>1 DEF StartsCore, StopsCore
<1>2. CASE StopCore \/ signal_engine_stopped \/ CoreServes
  BY <1>2 DEF StopCore, signal_engine_stopped, CoreServes
<1>3. ASSUME NEW t \in LogThreads, LogSend(t) PROVE CallbacksInCore'
  BY <1>3 DEF LogSend, Then
<1>4. ASSUME NEW t \in LogThreads, NEW line \in Lines, LogSwap(t, line) PROVE CallbacksInCore'
  BY <1>4 DEF LogSwap, Logs
<1> QED BY <1>1, <1>2, <1>3, <1>4, MainThreadDrivesCore
        DEF Background, TeardownThread, CallbackSteps

(* What the contract calls alive and stopping.                             *)
Alive == core \in {"starting", "serving"} \/ \E t \in LogThreads : log[t] # "idle"
Stopping == teardown \in {"stopping", "last"}

(* Each step is a step or a stutter of the contract.                       *)
LEMMA ContractStep ==
  ASSUME IInv, CallbacksInCore, [Next]_vars PROVE [Contract!Next]_(Contract!vars)
<1> USE DEF Contract!vars
<1>0. log \in [LogThreads -> Statuses \cup {"idle"}] /\ EngineFollowsInner
  BY DEF IInv, TypeOK, EngineTypeOK
<1>a. ASSUME UNCHANGED <<core, log, teardown>> PROVE UNCHANGED Contract!vars
  BY <1>a
<1>b. ASSUME core # "off", core' # "off", UNCHANGED teardown, Alive' = Alive
      PROVE  UNCHANGED Contract!vars
  BY <1>b DEF Alive
<1>1. CASE StartsCore
  <2>1. ~Alive /\ Alive' /\ ~Stopping /\ ~Stopping'
    BY <1>1 DEF StartsCore, Alive, Stopping, CallbacksInCore
  <2>2. Contract!Start
    BY <1>1, <2>1 DEF StartsCore, Alive, Stopping, Contract!Start
  <2> QED BY <2>2 DEF Contract!Next
<1>2. CASE StopsCore
  <2>1. Contract!Stop
    BY <1>2 DEF StopsCore, Contract!Stop
  <2> QED BY <2>1 DEF Contract!Next
<1>3. CASE StopCore
  <2>1. Contract!Stopped
    BY <1>3 DEF StopCore, Contract!Stopped
  <2> QED BY <2>1 DEF Contract!Next
<1>4. CASE signal_engine_stopped \/ CoreServes
  BY <1>4 DEF signal_engine_stopped, CoreServes
<1>5. ASSUME NEW t \in LogThreads, LogSend(t) PROVE [Contract!Next]_(Contract!vars)
  <2>1. Alive /\ UNCHANGED <<core, teardown>>
    BY <1>5 DEF LogSend, Alive
  <2>2. CASE Alive'
    <3>1. core # "off"
      BY <1>5 DEF LogSend, CallbacksInCore
    <3> QED BY <1>b, <2>1, <2>2, <3>1 DEF Alive
  <2>3. CASE ~Alive'
    <3>1. Contract!End
      BY <2>1, <2>3 DEF Alive, Contract!End
    <3> QED BY <3>1 DEF Contract!Next
  <2> QED BY <2>2, <2>3
<1>6. ASSUME NEW t \in LogThreads, NEW line \in Lines, LogSwap(t, line)
      PROVE  [Contract!Next]_(Contract!vars)
  <2>1. core \in {"starting", "serving"} /\ core' # "off" /\ UNCHANGED teardown
    BY <1>6 DEF LogSwap, Logs
  <2>2. line = "fatal" => log'[t] = "Off"
    BY <1>0, <1>6 DEF LogSwap, Then
  <2>3. line # "fatal" => core' = core
    BY <1>6 DEF LogSwap
  <2>4. Alive /\ Alive'
    BY <2>1, <2>2, <2>3 DEF Alive
  <2> QED BY <1>b, <2>1, <2>4
<1> QED BY <1>1, <1>2, <1>3, <1>4, <1>5, <1>6, <1>a, MainThreadDrivesCore
        DEF Background, TeardownThread, CallbackSteps

(* The macOS application drives uxplay-core within its contract, safety    *)
(* part: no start over a teardown, one stop at a time.                     *)
THEOREM KeepsContractSafely == Spec => KeepsContract
<1>1. Init => CallbacksInCore
  BY DEF Init, EngineInit, CallbacksInCore
<1>2. Init => Contract!Init
  BY DEF Init, EngineInit, Contract!Init
<1>3. IInv /\ CallbacksInCore /\ [Next]_vars => CallbacksInCore'
  BY CallbacksStep
<1>4. IInv /\ CallbacksInCore /\ [Next]_vars => [Contract!Next]_(Contract!vars)
  BY ContractStep
<1> QED BY <1>1, <1>2, <1>3, <1>4, InvariantHolds, PTL DEF Spec, KeepsContract, Contract!Safety
=============================================================================
