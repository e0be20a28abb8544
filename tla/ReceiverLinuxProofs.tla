------------------------ MODULE ReceiverLinuxProofs ------------------------
(***************************************************************************)
(* Theorems about the Linux engine, by itself and driven by the tray, for  *)
(* any set of logging threads, any set of failures and any bounds except   *)
(* where a theorem names its hypotheses.                                   *)
(***************************************************************************)
EXTENDS ReceiverLinux, TLAPS

USE DEF tray, caller, flags, link, window, vars

----------------------------------------------------------------------------
(* The engine by itself, whoever calls it: EngineLinux.  First its types.  *)

(* The states of a thread in the callback are told apart by where it is.   *)
LEMMA LogStateFacts ==
  /\ Idle \in LogStates /\ Bumping \in LogStates /\ Idle # Bumping
  /\ \A line \in Lines : /\ Gated(line) \in LogStates
                         /\ Gated(line) # Idle /\ Gated(line) # Bumping
  /\ \A s \in Statuses : /\ Sending(s) \in LogStates
                         /\ Sending(s) # Idle /\ Sending(s) # Bumping
  /\ \A l \in LogStates : l.at = "send" => l.status \in Statuses
<1>1. Idle.at = "idle" /\ Bumping.at = "bump"
  BY DEF Idle, Bumping
<1>2. ASSUME NEW line \in Lines
      PROVE  Gated(line).at = "gated" /\ Gated(line) \in [at : {"gated"}, line : Lines]
  BY DEF Gated
<1>3. ASSUME NEW s \in Statuses
      PROVE  Sending(s).at = "send" /\ Sending(s) \in [at : {"send"}, status : Statuses]
  BY DEF Sending
<1>4. ASSUME NEW l \in LogStates, l.at = "send" PROVE l.status \in Statuses
  <2>1. l # Idle /\ l # Bumping
    BY <1>1, <1>4
  <2>2. l \notin [at : {"gated"}, line : Lines]
    BY <1>4
  <2> QED BY <2>1, <2>2 DEF LogStates
<1> QED BY <1>1, <1>2, <1>3, <1>4 DEF LogStates

(* Each variable that one step of a callback or a status may change.       *)
LEMMA SendType ==
  ASSUME statusQ \in Seq(Statuses), NEW s \in Statuses, Send(s)
  PROVE  statusQ' \in Seq(Statuses)
BY DEF Send

LEMMA BecomeType ==
  ASSUME log \in [LogThreads -> LogStates], NEW t \in LogThreads, NEW l \in LogStates,
         Become(t, l)
  PROVE  /\ log' \in [LogThreads -> LogStates] /\ log'[t] = l
         /\ \A u \in LogThreads : u # t => log'[u] = log[u]
BY DEF Become

Bools ==
  /\ running \in BOOLEAN /\ restarting \in BOOLEAN /\ START_FAILED \in BOOLEAN
  /\ PIN_IGNORED \in BOOLEAN /\ stop_flag \in BOOLEAN /\ ENGINE_ACTIVE \in BOOLEAN
  /\ CONNECTED \in BOOLEAN /\ mapped \in BOOLEAN /\ delete \in BOOLEAN
  /\ display \in BOOLEAN /\ failed \in BOOLEAN
Names ==
  /\ call \in Calls /\ result \in {"ok", "err"} /\ worker \in WorkerAt
  /\ core \in {"off", "loaded", "starting", "serving", "failed"}
Numbers == CONN_GEN \in Nat /\ last_gen \in Nat /\ lines \in Nat /\ calls \in Nat
Channels == statusQ \in Seq(Statuses) /\ log \in [LogThreads -> LogStates]

LEMMA TypeParts ==
  /\ TypeOK <=> Bools /\ Names /\ Numbers /\ Channels
  /\ TypeOK' <=> Bools' /\ Names' /\ Numbers' /\ Channels'
BY DEF TypeOK, Bools, Names, Numbers, Channels

(* The caller begins idle or, on autostart, with a start().                *)
EngineStart == EngineInit /\ call \in {"none", "claim"}

LEMMA InitType == EngineStart => TypeOK
<1> SUFFICES ASSUME EngineStart PROVE TypeOK
  OBVIOUS
<1>1. log \in [LogThreads -> LogStates]
  BY LogStateFacts DEF EngineStart, EngineInit
<1>2. <<>> \in Seq(Statuses)
  OBVIOUS
<1> QED BY <1>1, <1>2 DEF EngineStart, EngineInit, TypeOK, Calls, WorkerAt

LEMMA TrayThreadType ==
  ASSUME TypeOK, TrayThread
  PROVE  TypeOK'
<1>0. Bools /\ Names /\ Numbers /\ Channels
  BY TypeParts
<1>1. Numbers' /\ Channels'
  BY <1>0 DEF TrayThread, StopRequest, StopJoin, StartClaim, StartSpawn, Numbers, Channels
<1>2. Bools'
  <2>1. running' \in BOOLEAN
    BY <1>0 DEF TrayThread, StopRequest, StopJoin, StartClaim, StartSpawn, Bools
  <2>2. restarting' \in BOOLEAN
    BY <1>0 DEF TrayThread, StopRequest, StopJoin, StartClaim, StartSpawn, Bools
  <2>3. START_FAILED' \in BOOLEAN
    BY <1>0 DEF TrayThread, StopRequest, StopJoin, StartClaim, StartSpawn, Bools
  <2>4. PIN_IGNORED' \in BOOLEAN
    BY <1>0 DEF TrayThread, StopRequest, StopJoin, StartClaim, StartSpawn, Bools
  <2>5. stop_flag' \in BOOLEAN
    BY <1>0 DEF TrayThread, StopRequest, StopJoin, StartClaim, StartSpawn, Bools
  <2>6. ENGINE_ACTIVE' \in BOOLEAN
    BY <1>0 DEF TrayThread, StopRequest, StopJoin, StartClaim, StartSpawn, Bools
  <2>7. CONNECTED' \in BOOLEAN
    BY <1>0 DEF TrayThread, StopRequest, StopJoin, StartClaim, StartSpawn, Bools
  <2>8. mapped' \in BOOLEAN
    BY <1>0 DEF TrayThread, StopRequest, StopJoin, StartClaim, StartSpawn, Bools
  <2>9. delete' \in BOOLEAN
    BY <1>0 DEF TrayThread, StopRequest, StopJoin, StartClaim, StartSpawn, Bools
  <2>10. display' \in BOOLEAN
    BY <1>0 DEF TrayThread, StopRequest, StopJoin, StartClaim, StartSpawn, Bools
  <2>11. failed' \in BOOLEAN
    BY <1>0 DEF TrayThread, StopRequest, StopJoin, StartClaim, StartSpawn, Bools
  <2> QED BY <2>1, <2>2, <2>3, <2>4, <2>5, <2>6, <2>7, <2>8, <2>9, <2>10, <2>11 DEF Bools
<1>3. Names'
  BY <1>0 DEF TrayThread, StopRequest, StopJoin, StartClaim, StartSpawn, Names, Calls, WorkerAt
<1> QED BY <1>1, <1>2, <1>3, TypeParts

LEMMA WorkerType ==
  ASSUME TypeOK, Worker
  PROVE  TypeOK'
<1>0. Bools /\ Names /\ Numbers /\ Channels
  BY TypeParts
<1> USE DEF Worker, NoDisplay, OpenDisplay, PrepareRun, LoadFails, SetupEngine, Announce,
            Loop, PollStop, DrainEvents, SampleGeneration, React, CloseGate, ClearConnected,
            StopCore, DropCore, Destroy, ReportOff, CloseDisplay
<1>1. Numbers'
  BY <1>0 DEF Numbers
<1>2. Bools'
  <2>1. running' \in BOOLEAN
    BY <1>0 DEF Bools
  <2>2. restarting' \in BOOLEAN
    BY <1>0 DEF Bools
  <2>3. START_FAILED' \in BOOLEAN
    BY <1>0 DEF Bools
  <2>4. PIN_IGNORED' \in BOOLEAN
    BY <1>0 DEF Bools
  <2>5. stop_flag' \in BOOLEAN
    BY <1>0 DEF Bools
  <2>6. ENGINE_ACTIVE' \in BOOLEAN
    BY <1>0 DEF Bools
  <2>7. CONNECTED' \in BOOLEAN
    BY <1>0 DEF Bools
  <2>8. mapped' \in BOOLEAN
    BY <1>0 DEF Bools
  <2>9. delete' \in BOOLEAN
    BY <1>0 DEF Bools
  <2>10. display' \in BOOLEAN
    BY <1>0 DEF Bools
  <2>11. failed' \in BOOLEAN
    BY <1>0 DEF Bools
  <2> QED BY <2>1, <2>2, <2>3, <2>4, <2>5, <2>6, <2>7, <2>8, <2>9, <2>10, <2>11 DEF Bools
<1>3. Names'
  BY <1>0 DEF Names, WorkerAt, Polling, Leaving
<1>4. Channels'
  <2>1. UNCHANGED statusQ \/ \E s \in Statuses : Send(s)
    BY DEF Statuses
  <2>2. UNCHANGED log
    OBVIOUS
  <2> QED BY <1>0, <2>1, <2>2, SendType DEF Channels
<1> QED BY <1>1, <1>2, <1>3, <1>4, TypeParts

LEMMA CallbackType ==
  ASSUME TypeOK, NEW t \in LogThreads, Callback(t)
  PROVE  TypeOK'
<1>0. Bools /\ Names /\ Numbers /\ Channels
  BY TypeParts
<1>1. Names' /\ Numbers'
  BY <1>0 DEF Callback, LogSwap, LogSend, LogBump, Names, Numbers
<1>2. Bools'
  <2>1. running' \in BOOLEAN
    BY <1>0 DEF Callback, LogSwap, LogSend, LogBump, Bools
  <2>2. restarting' \in BOOLEAN
    BY <1>0 DEF Callback, LogSwap, LogSend, LogBump, Bools
  <2>3. START_FAILED' \in BOOLEAN
    BY <1>0 DEF Callback, LogSwap, LogSend, LogBump, Bools
  <2>4. PIN_IGNORED' \in BOOLEAN
    BY <1>0 DEF Callback, LogSwap, LogSend, LogBump, Bools
  <2>5. stop_flag' \in BOOLEAN
    BY <1>0 DEF Callback, LogSwap, LogSend, LogBump, Bools
  <2>6. ENGINE_ACTIVE' \in BOOLEAN
    BY <1>0 DEF Callback, LogSwap, LogSend, LogBump, Bools
  <2>7. CONNECTED' \in BOOLEAN
    BY <1>0 DEF Callback, LogSwap, LogSend, LogBump, Bools
  <2>8. mapped' \in BOOLEAN
    BY <1>0 DEF Callback, LogSwap, LogSend, LogBump, Bools
  <2>9. delete' \in BOOLEAN
    BY <1>0 DEF Callback, LogSwap, LogSend, LogBump, Bools
  <2>10. display' \in BOOLEAN
    BY <1>0 DEF Callback, LogSwap, LogSend, LogBump, Bools
  <2>11. failed' \in BOOLEAN
    BY <1>0 DEF Callback, LogSwap, LogSend, LogBump, Bools
  <2> QED BY <2>1, <2>2, <2>3, <2>4, <2>5, <2>6, <2>7, <2>8, <2>9, <2>10, <2>11 DEF Bools
<1>3. CASE LogSwap(t)
  <2>1. \E l \in LogStates : Become(t, l)
    BY <1>3, LogStateFacts DEF LogSwap, Statuses
  <2> QED BY <1>0, <1>1, <1>2, <1>3, <2>1, BecomeType, TypeParts DEF LogSwap, Channels
<1>4. CASE LogSend(t)
  <2>1. log[t].status \in Statuses
    BY <1>0, <1>4, LogStateFacts DEF LogSend, Channels
  <2> QED BY <1>0, <1>1, <1>2, <1>4, <2>1, SendType, BecomeType, LogStateFacts, TypeParts
          DEF LogSend, Channels
<1>5. CASE LogBump(t)
  BY <1>0, <1>1, <1>2, <1>5, BecomeType, LogStateFacts, TypeParts DEF LogBump, Channels
<1> QED BY <1>3, <1>4, <1>5 DEF Callback

LEMMA EnvironmentType ==
  ASSUME TypeOK, Environment
  PROVE  TypeOK'
<1>0. Bools /\ Names /\ Numbers /\ Channels
  BY TypeParts
<1>1. CASE CoreServes \/ UserCloses
  BY <1>0, <1>1, TypeParts DEF CoreServes, UserCloses, Bools, Names, Numbers, Channels
<1>2. ASSUME NEW t \in LogThreads, NEW line \in Lines, LogLine(t, line) PROVE TypeOK'
  <2>1. Bools' /\ Names' /\ Numbers'
    BY <1>0, <1>2 DEF LogLine, Bools, Names, Numbers
  <2>2. UNCHANGED log \/ Become(t, Gated(line))
    BY <1>2 DEF LogLine, Become
  <2>3. Channels'
    BY <1>0, <1>2, <2>2, BecomeType, LogStateFacts DEF LogLine, Channels
  <2> QED BY <2>1, <2>3, TypeParts
<1> QED BY <1>1, <1>2 DEF Environment

LEMMA TypeStep == TypeOK /\ [Next]_vars => TypeOK'
<1> SUFFICES ASSUME TypeOK, [Next]_vars PROVE TypeOK'
  OBVIOUS
<1>0. Bools /\ Names /\ Numbers /\ Channels
  BY TypeParts
<1>1. CASE UNCHANGED vars
  BY <1>1 DEF TypeOK
<1>2. CASE Call
  <2>0. Names'
    BY <1>0, <1>2 DEF Call, BeginStart, BeginStop, BeginRestart, Names, Calls
  <2>1. Bools'
    <3>1. restarting' \in BOOLEAN
      BY <1>2 DEF Call, BeginStart, BeginStop, BeginRestart
    <3> QED BY <1>0, <1>2, <3>1 DEF Call, Bools
  <2>2. Numbers' /\ Channels'
    BY <1>0, <1>2 DEF Call, Numbers, Channels
  <2> QED BY <2>0, <2>1, <2>2, TypeParts
<1>3. CASE Receive
  <2>1. statusQ' \in Seq(Statuses)
    BY <1>0, <1>3 DEF Receive, Channels
  <2> QED BY <1>0, <1>3, <2>1, TypeParts DEF Receive, Bools, Names, Numbers, Channels
<1> QED BY <1>1, <1>2, <1>3, TrayThreadType, WorkerType, CallbackType, EnvironmentType
        DEF Next, EngineNext, CallbackSteps

(* Every variable of the Linux engine keeps its type.                      *)
THEOREM TypeCorrect == Spec => []TypeOK
<1>1. Init => TypeOK
  BY InitType DEF Init, EngineStart
<1> QED BY <1>1, TypeStep, PTL DEF Spec

----------------------------------------------------------------------------
(* The inductive invariant: what is there at each place of the worker.     *)

InCore == {"announce_ok", "leave", "clear", "stopping"} \cup Polling
WithCore == InCore \cup {"announce_err", "drop"}
WithDisplay == WithCore \cup {"open", "prepared", "close"}
Alive == core \in {"starting", "serving", "failed"}

DisplayFollowsWorker ==
  /\ display <=> worker \in WithDisplay
  /\ worker \in {"open", "prepared", "announce_ok", "announce_err"} => ~mapped
CoreFollowsWorker ==
  /\ core # "off" => worker \in WithCore
  /\ Alive => worker \in InCore
LogFollowsCore == \A t \in LogThreads : log[t] # Idle => Alive

(* The next run finds CONNECTED down, and the generation it sampled.       *)
Unconnected == worker = "prepared" => ~CONNECTED /\ last_gen = CONN_GEN
GenerationGrows == last_gen <= CONN_GEN

NoBump == \A t \in LogThreads : log[t] # Bumping

(* Before its loop the worker has not missed anything either.              *)
WindowIsNewest ==
  /\ worker \in {"announce_ok", "announce_err", "poll", "events", "sample"}
  /\ CONN_GEN = last_gen /\ NoBump
  => mapped = CONNECTED

(* start() holds the slot while it waits to spawn the worker.              *)
SlotHeld ==
  /\ call = "spawn" => running /\ worker \in {"none", "closing"}
  /\ call # "spawn" => (running <=> worker \notin {"none", "closing"})

IInv ==
  /\ TypeOK /\ DisplayFollowsWorker /\ CoreFollowsWorker /\ LogFollowsCore
  /\ Unconnected /\ GenerationGrows /\ WindowIsNewest /\ SlotHeld

LEMMA InitIInv == EngineStart => IInv
<1> SUFFICES ASSUME EngineStart PROVE IInv
  OBVIOUS
<1>1. TypeOK
  BY InitType
<1>2. SlotHeld /\ GenerationGrows
  BY DEF EngineStart, EngineInit, SlotHeld, GenerationGrows
<1>3. LogFollowsCore
  BY DEF EngineStart, EngineInit, LogFollowsCore
<1>4. DisplayFollowsWorker /\ CoreFollowsWorker /\ Unconnected /\ WindowIsNewest
  BY DEF EngineStart, EngineInit, DisplayFollowsWorker, CoreFollowsWorker, Unconnected,
         WindowIsNewest, WithDisplay, WithCore, InCore, Polling, Alive
<1> QED BY <1>1, <1>2, <1>3, <1>4 DEF IInv

(* The steps that are not the worker's leave it where it is, or spawn it.  *)
LEMMA OthersKeepWorker ==
  ASSUME TrayThread \/ CallbackSteps \/ Environment \/ Call \/ Receive
  PROVE  /\ UNCHANGED <<display, mapped, last_gen>>
         /\ worker' = worker \/ (worker = "none" /\ worker' = "spawned")
BY DEF TrayThread, StopRequest, StopJoin, StartClaim, StartSpawn, CallbackSteps, Callback,
       LogSwap, LogSend, LogBump, Environment, CoreServes, UserCloses, LogLine, Call, Receive

LEMMA DisplayStep == IInv /\ [Next]_vars => DisplayFollowsWorker'
<1> SUFFICES ASSUME IInv, [Next]_vars PROVE DisplayFollowsWorker'
  OBVIOUS
<1> USE DEF IInv, DisplayFollowsWorker, WithDisplay, WithCore, InCore, Polling
<1>1. CASE UNCHANGED vars
  BY <1>1
<1>2. CASE TrayThread \/ CallbackSteps \/ Environment \/ Call \/ Receive
  BY <1>2, OthersKeepWorker
<1>3. CASE Worker
  BY <1>3 DEF Worker, NoDisplay, OpenDisplay, PrepareRun, LoadFails, SetupEngine, Announce,
              Loop, PollStop, DrainEvents, SampleGeneration, React, CloseGate,
              ClearConnected, StopCore, DropCore, Destroy, ReportOff, CloseDisplay
<1> QED BY <1>1, <1>2, <1>3 DEF Next, EngineNext

LEMMA CoreStep == IInv /\ [Next]_vars => CoreFollowsWorker' /\ LogFollowsCore'
<1> SUFFICES ASSUME IInv, [Next]_vars PROVE CoreFollowsWorker' /\ LogFollowsCore'
  OBVIOUS
<1> USE DEF IInv, CoreFollowsWorker, LogFollowsCore, WithCore, InCore, Polling, Alive
<1>1. CASE UNCHANGED vars
  BY <1>1
<1>2. CASE TrayThread \/ Call \/ Receive
  <2>1. UNCHANGED <<core, log>> /\ (UNCHANGED worker \/ worker = "none")
    BY <1>2, OthersKeepWorker
       DEF TrayThread, StopRequest, StopJoin, StartClaim, StartSpawn, Call, Receive
  <2> QED BY <1>2, <2>1, OthersKeepWorker
<1>3. CASE Worker
  <2>1. UNCHANGED log
    BY <1>3 DEF Worker, NoDisplay, OpenDisplay, PrepareRun, LoadFails, SetupEngine, Announce,
                Loop, PollStop, DrainEvents, SampleGeneration, React, CloseGate,
                ClearConnected, StopCore, DropCore, Destroy, ReportOff
  <2>2. CoreFollowsWorker'
    BY <1>3 DEF Worker, NoDisplay, OpenDisplay, PrepareRun, LoadFails, SetupEngine, Announce,
                Loop, PollStop, DrainEvents, SampleGeneration, React, CloseGate,
                ClearConnected, StopCore, DropCore, Destroy, ReportOff
  <2>3. Alive => Alive' \/ \A t \in LogThreads : log[t] = Idle
    BY <1>3 DEF Worker, NoDisplay, OpenDisplay, PrepareRun, LoadFails, SetupEngine, Announce,
                Loop, PollStop, DrainEvents, SampleGeneration, React, CloseGate,
                ClearConnected, StopCore, DropCore, Destroy, ReportOff
  <2> QED BY <2>1, <2>2, <2>3
<1>4. ASSUME NEW t \in LogThreads, Callback(t)
      PROVE  CoreFollowsWorker' /\ LogFollowsCore'
  <2>1. log[t] # Idle /\ UNCHANGED <<core, worker>>
    BY <1>4, LogStateFacts DEF Callback, LogSwap, LogSend, LogBump, Idle
  <2> QED BY <2>1
<1>5. CASE Environment
  <2>1. UNCHANGED worker /\ (UNCHANGED core \/ (Alive /\ Alive'))
    BY <1>5 DEF Environment, CoreServes, UserCloses, LogLine, Logs
  <2>2. UNCHANGED log \/ Alive'
    BY <1>5 DEF Environment, CoreServes, UserCloses, LogLine, Logs
  <2> QED BY <2>1, <2>2
<1> QED BY <1>1, <1>2, <1>3, <1>4, <1>5 DEF Next, EngineNext, CallbackSteps

LEMMA SlotStep == IInv /\ [Next]_vars => SlotHeld'
<1> SUFFICES ASSUME IInv, [Next]_vars PROVE SlotHeld'
  OBVIOUS
<1> USE DEF IInv, SlotHeld
<1>1. CASE UNCHANGED vars
  BY <1>1
<1>2. CASE TrayThread
  BY <1>2 DEF TrayThread, StopRequest, StopJoin, StartClaim, StartSpawn
<1>3. CASE Worker
  BY <1>3 DEF Worker, NoDisplay, OpenDisplay, PrepareRun, LoadFails, SetupEngine, Announce,
              Loop, PollStop, DrainEvents, SampleGeneration, React, CloseGate,
              ClearConnected, StopCore, DropCore, Destroy, ReportOff
<1>4. CASE CallbackSteps \/ Environment \/ Receive
  BY <1>4 DEF CallbackSteps, Callback, LogSwap, LogSend, LogBump, Environment, CoreServes,
              UserCloses, LogLine, Receive
<1>5. CASE Call
  BY <1>5 DEF Call, BeginStart, BeginStop, BeginRestart
<1> QED BY <1>1, <1>2, <1>3, <1>4, <1>5 DEF Next, EngineNext

LEMMA NewestStep == IInv /\ [Next]_vars => Unconnected' /\ GenerationGrows' /\ WindowIsNewest'
<1> SUFFICES ASSUME IInv, [Next]_vars
             PROVE  Unconnected' /\ GenerationGrows' /\ WindowIsNewest'
  OBVIOUS
<1> USE DEF IInv, Unconnected, GenerationGrows, WindowIsNewest
<1>0. CONN_GEN \in Nat /\ last_gen \in Nat /\ log \in [LogThreads -> LogStates]
  BY DEF TypeOK
<1>1. CASE UNCHANGED vars
  BY <1>1 DEF NoBump
<1>2. CASE TrayThread \/ Call \/ Receive
  <2>1. UNCHANGED <<CONNECTED, CONN_GEN, log>>
    BY <1>2 DEF TrayThread, StopRequest, StopJoin, StartClaim, StartSpawn, Call, Receive
  <2> QED BY <1>2, <2>1, OthersKeepWorker DEF NoBump
<1>3. CASE Worker
  <2>1. UNCHANGED <<CONN_GEN, log>>
    BY <1>3 DEF Worker, NoDisplay, OpenDisplay, PrepareRun, LoadFails, SetupEngine, Announce,
                Loop, PollStop, DrainEvents, SampleGeneration, React, CloseGate,
                ClearConnected, StopCore, DropCore, Destroy, ReportOff
  <2>2. UNCHANGED last_gen \/ last_gen' = CONN_GEN
    BY <1>3 DEF Worker, NoDisplay, OpenDisplay, PrepareRun, LoadFails, SetupEngine, Announce,
                Loop, PollStop, DrainEvents, SampleGeneration, React, CloseGate,
                ClearConnected, StopCore, DropCore, Destroy, ReportOff
  <2>3. GenerationGrows'
    BY <1>0, <2>1, <2>2
  <2>4. Unconnected'
    BY <1>3, <2>1
       DEF Worker, NoDisplay, OpenDisplay, PrepareRun, LoadFails, SetupEngine, Announce,
           Loop, PollStop, DrainEvents, SampleGeneration, React, CloseGate,
           ClearConnected, StopCore, DropCore, Destroy, ReportOff
  <2>5. WindowIsNewest'
    <3>1. NoBump' <=> NoBump
      BY <2>1 DEF NoBump
    <3>2. worker = "prepared" => ~mapped
      BY DEF DisplayFollowsWorker
    <3>3. mapped \in BOOLEAN /\ CONNECTED \in BOOLEAN
      BY DEF TypeOK
    <3> QED BY <1>3, <2>1, <3>1, <3>2, <3>3
         DEF Worker, NoDisplay, OpenDisplay, PrepareRun, LoadFails, SetupEngine, Announce,
             Loop, PollStop, DrainEvents, SampleGeneration, React, CloseGate,
             ClearConnected, StopCore, DropCore, Destroy, ReportOff
  <2> QED BY <2>3, <2>4, <2>5
<1>4. ASSUME NEW t \in LogThreads, Callback(t)
      PROVE  Unconnected' /\ GenerationGrows' /\ WindowIsNewest'
  <2>1. UNCHANGED <<worker, last_gen, mapped>>
    BY <1>4 DEF Callback, LogSwap, LogSend, LogBump
  <2>2. worker # "prepared"
    BY <1>4, LogStateFacts
       DEF Callback, LogSwap, LogSend, LogBump, Idle, LogFollowsCore, CoreFollowsWorker,
           Alive, InCore, Polling
  <2>3. CASE LogSwap(t)
    <3>1. UNCHANGED CONN_GEN /\ \A u \in LogThreads : u # t => log'[u] = log[u]
      BY <1>0, <2>3 DEF LogSwap, Become
    <3>2. log[t] # Bumping
      BY <2>3 DEF LogSwap, Bumping
    <3>3. CONNECTED' = CONNECTED \/ log'[t] = Bumping
      BY <1>0, <2>3 DEF LogSwap, Become
    <3> QED BY <2>1, <2>2, <3>1, <3>2, <3>3 DEF NoBump
  <2>4. CASE LogSend(t)
    <3>1. UNCHANGED <<CONN_GEN, CONNECTED>> /\ \A u \in LogThreads : u # t => log'[u] = log[u]
      BY <1>0, <2>4 DEF LogSend, Become
    <3>2. log[t] # Bumping
      BY <2>4 DEF LogSend, Bumping
    <3> QED BY <2>1, <2>2, <3>1, <3>2 DEF NoBump
  <2>5. CASE LogBump(t)
    BY <1>0, <2>1, <2>2, <2>5 DEF LogBump
  <2> QED BY <1>4, <2>3, <2>4, <2>5 DEF Callback
<1>5. CASE Environment
  <2>1. UNCHANGED <<worker, last_gen, mapped, CONNECTED, CONN_GEN>>
    BY <1>5 DEF Environment, CoreServes, UserCloses, LogLine
  <2>2. NoBump' => NoBump
    <3>1. CASE UNCHANGED log
      BY <3>1 DEF NoBump
    <3>2. ASSUME NEW t \in LogThreads, NEW line \in Lines, LogLine(t, line)
          PROVE  NoBump' => NoBump
      <4>1. log[t] = Idle /\ \A u \in LogThreads : u # t => log'[u] = log[u]
        BY <1>0, <3>2 DEF LogLine
      <4> QED BY <4>1, LogStateFacts DEF NoBump
    <3> QED BY <1>5, <3>1, <3>2 DEF Environment, CoreServes, UserCloses
  <2> QED BY <2>1, <2>2
<1> QED BY <1>1, <1>2, <1>3, <1>4, <1>5 DEF Next, EngineNext, CallbackSteps

LEMMA IInvStep == IInv /\ [Next]_vars => IInv'
BY TypeStep, DisplayStep, CoreStep, SlotStep, NewestStep DEF IInv

(* The display, the core, the callbacks, the generation and the running    *)
(* slot are at every step what the worker's place asks for.                *)
THEOREM InvariantHolds == Spec => []IInv
<1>1. IInv /\ [Next]_vars => IInv'
  BY IInvStep
<1>2. Init => IInv
  BY InitIInv DEF Init, EngineStart
<1> QED BY <1>1, <1>2, PTL DEF Spec

----------------------------------------------------------------------------
(* What follows for whoever calls it. *)

(* The display outlives the core, a run starts fresh, the window follows   *)
(* the connection however many changes fell between two samples, and the   *)
(* running slot is held exactly while a worker has a display.              *)
THEOREM EngineInvariantHolds == Spec => []EngineInvariant
<1>1. IInv => DisplayOutlivesCore
  BY DEF IInv, DisplayFollowsWorker, CoreFollowsWorker, WithDisplay, DisplayOutlivesCore
<1>2. IInv => FreshRun
  BY DEF IInv, Unconnected, LogFollowsCore, CoreFollowsWorker, InCore, Polling, FreshRun
<1>3. IInv => WindowFollowsConnection
  BY DEF IInv, WindowIsNewest, NoBump, WindowFollowsConnection
<1>4. IInv => SlotMatchesWorker
  BY DEF IInv, SlotHeld, SlotMatchesWorker
<1>5. IInv => EngineInvariant
  BY <1>1, <1>2, <1>3, <1>4 DEF IInv, EngineInvariant
<1> QED BY <1>5, InvariantHolds, PTL

----------------------------------------------------------------------------
(* The engine and the tray together: ReceiverLinux.                        *)

(* Every failure among those considered is reported on the status channel. *)
(* A run whose thread cannot be created, that cannot open the display or   *)
(* load the library, ends without a status.                                *)
FailuresAreReported == Failures \subseteq {"setup", "fatal"}

USE DEF engine, trayOwn, App!shared

Starting == {"launch", "start", "restart", "config"}
Fresh == {"spawned", "open", "prepared", "announce_ok", "announce_err"}
Stops == {"request", "join"}
Up == {"starting", "serving"}

Gates(t, line) == log[t].at = "gated" /\ log[t].line = line
Sends(t, s) == log[t].at = "send" /\ log[t].status = s

LEMMA LogPlaces == Idle.at = "idle" /\ Bumping.at = "bump"
BY DEF Idle, Bumping

(* What the engine's invariant says where the app relies on it.            *)
LEMMA WorkerFacts ==
  ASSUME IInv
  PROVE  /\ call # "spawn" => (running <=> worker \notin {"none", "closing"})
         /\ core \in {"starting", "serving", "failed"} => worker \in InCore
         /\ worker \notin InCore => \A t \in LogThreads : log[t] = Idle
         /\ worker \in WorkerAt /\ statusQ \in Seq(Statuses)
         /\ log \in [LogThreads -> LogStates]
         /\ {START_FAILED, failed, CONNECTED, mapped} \subseteq BOOLEAN
BY DEF IInv, TypeOK, SlotHeld, CoreFollowsWorker, LogFollowsCore, Alive

(* The status channel: what is last in it, and what is in it at all.       *)
LastStatus == statusQ[Len(statusQ)]
OffQueued == \E k \in 1..Len(statusQ) : statusQ[k] = "Off"

LEMMA SendStatus ==
  ASSUME statusQ \in Seq(Statuses), NEW s, Send(s)
  PROVE  /\ statusQ' # <<>> /\ LastStatus' = s
         /\ OffQueued \/ s = "Off" => OffQueued'
<1>1. /\ Len(statusQ') = Len(statusQ) + 1 /\ statusQ'[Len(statusQ) + 1] = s
      /\ \A k \in 1..Len(statusQ) : statusQ'[k] = statusQ[k]
      /\ Len(statusQ) \in Nat /\ statusQ' # <<>>
  BY DEF Send
<1>2. LastStatus' = s
  BY <1>1 DEF LastStatus
<1>3. OffQueued \/ s = "Off" => OffQueued'
  BY <1>1 DEF OffQueued
<1> QED BY <1>1, <1>2, <1>3

LEMMA NoOff == statusQ = <<>> => ~OffQueued
<1> SUFFICES ASSUME statusQ = <<>> PROVE ~OffQueued
  OBVIOUS
<1>1. Len(<<>>) = 0
  OBVIOUS
<1>2. Len(statusQ) = 0
  BY <1>1, Zenon
<1> QED BY <1>2 DEF OffQueued

LEMMA TakeStatus ==
  ASSUME statusQ \in Seq(Statuses), statusQ # <<>>, statusQ' = Tail(statusQ)
  PROVE  /\ statusQ' \in Seq(Statuses)
         /\ IF statusQ' = <<>> THEN LastStatus = Head(statusQ) ELSE LastStatus' = LastStatus
         /\ OffQueued /\ Head(statusQ) # "Off" => OffQueued'
<1>0. /\ Len(statusQ') = Len(statusQ) - 1 /\ Head(statusQ) = statusQ[1]
      /\ Len(statusQ) \in Nat \ {0}
      /\ \A k \in 1..Len(statusQ') : statusQ'[k] = statusQ[k + 1]
  OBVIOUS
<1>1. statusQ' \in Seq(Statuses)
  OBVIOUS
<1>2. statusQ' = <<>> => Len(statusQ) = 1
  <2>1. statusQ' = <<>> => Len(statusQ') = 0
    <3>1. Len(<<>>) = 0
      OBVIOUS
    <3> QED BY <3>1, Zenon
  <2> QED BY <1>0, <2>1
<1>3. statusQ' # <<>> => Len(statusQ') # 0
  BY <1>1
<1>4. IF statusQ' = <<>> THEN LastStatus = Head(statusQ) ELSE LastStatus' = LastStatus
  BY <1>0, <1>2, <1>3 DEF LastStatus
<1>5. ASSUME NEW k \in 1..Len(statusQ), statusQ[k] = "Off", Head(statusQ) # "Off" PROVE OffQueued'
  <2>1. k - 1 \in 1..Len(statusQ') /\ statusQ'[k - 1] = "Off"
    BY <1>0, <1>5
  <2> QED BY <2>1 DEF OffQueued
<1> QED BY <1>1, <1>4, <1>5 DEF OffQueued

(* The tray's handlers: what each does to the call in progress, and what   *)
(* else of the engine's it touches.                                        *)
LEMMA TrayMoves ==
  ASSUME App!Next
  PROVE  /\ UNCHANGED <<running, result, PIN_IGNORED>>
         /\ START_FAILED' = START_FAILED \/ START_FAILED' = FALSE
         /\ \/ UNCHANGED <<task, call, restarting>>
            \/ /\ task # "idle" /\ call = "none" /\ UNCHANGED <<call, restarting>>
               /\ task' = "idle" \/ (task = "quit" /\ task' = "exited")
            \/ /\ task = "idle" /\ call = "none"
               /\ \/ task' \in {"stop", "fail", "quit"} /\ call' = "request" /\ restarting' = FALSE
                  \/ task' = "start" /\ call' = "claim" /\ restarting' = FALSE /\ ~running
                  \/ task' \in {"restart", "config"} /\ call' = "request" /\ restarting' = TRUE
         /\ \/ statusQ' = statusQ
            \/ task = "idle" /\ call = "none" /\ statusQ # <<>> /\ statusQ' = Tail(statusQ)
<1> USE DEF App!Enter, App!Stop, App!Start, App!Restart, App!Returned
<1>1. CASE App!Launched \/ App!FailureReported \/ App!Stopped \/ App!Started \/ App!Restarted
           \/ App!Exited \/ App!Reconfigured \/ App!User
  BY <1>1 DEF App!Launched, App!FailureReported, App!Stopped, App!Started, App!Restarted,
     App!Exited, App!Reconfigured, App!User, App!Save, App!Click
<1>2. CASE App!OnStatus
  BY <1>2 DEF App!OnStatus
<1>3. CASE App!OnClick
  BY <1>3 DEF App!OnClick
<1>4. CASE App!OnConfig
  BY <1>4 DEF App!OnConfig
<1> QED BY <1>1, <1>2, <1>3, <1>4 DEF App!Next, App!EventLoop

(* What callbacks and the environment leave alone.                         *)
LEMMA CallbackFrame ==
  ASSUME NEW t \in LogThreads, Callback(t)
  PROVE  UNCHANGED <<worker, call, restarting, result, running, stop_flag, core, ENGINE_ACTIVE,
                     last_gen, mapped, display>>
BY DEF Callback, LogSwap, LogSend, LogBump

LEMMA EnvironmentFrame ==
  ASSUME Environment
  PROVE  UNCHANGED <<worker, call, restarting, result, running, stop_flag, ENGINE_ACTIVE,
                     statusQ, START_FAILED, PIN_IGNORED, failed, CONNECTED, CONN_GEN, last_gen,
                     mapped, display>>
BY DEF Environment, CoreServes, UserCloses, LogLine

(* The steps of the callback, for the thread that takes them.              *)
LEMMA LogSwapMoves ==
  ASSUME IInv, NEW t \in LogThreads, LogSwap(t)
  PROVE  /\ log[t].at = "gated" /\ \A u \in LogThreads : u # t => log'[u] = log[u]
         /\ \/ /\ Gates(t, "fatal") /\ Sends(t, "Off")' /\ START_FAILED' /\ failed'
               /\ UNCHANGED <<PIN_IGNORED, CONNECTED>>
            \/ /\ Gates(t, "pin") /\ UNCHANGED <<START_FAILED, failed, CONNECTED>>
               /\ (log'[t] = Idle /\ UNCHANGED PIN_IGNORED) \/ Sends(t, "Ready")'
            \/ /\ Gates(t, "connect") \/ Gates(t, "teardown")
               /\ UNCHANGED <<START_FAILED, PIN_IGNORED, failed>>
               /\ log'[t] = Idle \/ log'[t] = Bumping
<1>0. log \in [LogThreads -> LogStates] /\ PIN_IGNORED \in BOOLEAN
  BY DEF IInv, TypeOK
<1>1. ASSUME NEW s, Become(t, s)
      PROVE  log'[t] = s /\ \A u \in LogThreads : u # t => log'[u] = log[u]
  BY <1>0, <1>1 DEF Become
<1>2. ASSUME NEW s, Become(t, Sending(s)) PROVE Sends(t, s)'
  BY <1>1, <1>2 DEF Sending, Sends
<1>3. CASE log[t].line = "fatal" /\ START_FAILED' = TRUE /\ failed' = TRUE
           /\ Become(t, Sending("Off")) /\ UNCHANGED <<PIN_IGNORED, CONNECTED>>
  BY <1>1, <1>2, <1>3 DEF LogSwap, Gates
<1>4. CASE log[t].line = "pin" /\ PIN_IGNORED' = TRUE
           /\ Become(t, IF PIN_IGNORED THEN Idle ELSE Sending("Ready"))
           /\ UNCHANGED <<START_FAILED, failed, CONNECTED>>
  BY <1>0, <1>1, <1>2, <1>4 DEF LogSwap, Gates
<1>5. CASE /\ log[t].line \in {"connect", "teardown"}
           /\ Become(t, IF CONNECTED = CONNECTED' THEN Idle ELSE Bumping)
           /\ UNCHANGED <<START_FAILED, PIN_IGNORED, failed>>
  BY <1>1, <1>5 DEF LogSwap, Gates
<1> QED BY <1>3, <1>4, <1>5 DEF LogSwap

LEMMA LogSendMoves ==
  ASSUME IInv, NEW t \in LogThreads, LogSend(t)
  PROVE  /\ \E s \in Statuses : Sends(t, s) /\ Send(s)
         /\ log'[t] = Idle /\ \A u \in LogThreads : u # t => log'[u] = log[u]
<1>1. log[t].status \in Statuses
  BY LogStateFacts DEF LogSend, IInv, TypeOK
<1> QED BY <1>1 DEF LogSend, Sends, Become, IInv, TypeOK

LEMMA LogBumpMoves ==
  ASSUME IInv, NEW t \in LogThreads, LogBump(t)
  PROVE  /\ log[t].at = "bump" /\ log'[t] = Idle
         /\ \A u \in LogThreads : u # t => log'[u] = log[u]
BY LogPlaces DEF LogBump, Become, IInv, TypeOK

LEMMA LogLineMoves ==
  ASSUME IInv, NEW t \in LogThreads, NEW line \in Lines, LogLine(t, line)
  PROVE  /\ log[t] = Idle /\ \A u \in LogThreads : u # t => log'[u] = log[u]
         /\ IF ENGINE_ACTIVE THEN Gates(t, line)' ELSE log'[t] = Idle
BY DEF LogLine, Gated, Gates, IInv, TypeOK

(* The engine's own invariant survives the tray.                           *)
LEMMA IInvAppStep == IInv /\ [AppNext]_appVars => IInv'
<1> SUFFICES ASSUME IInv, [AppNext]_appVars PROVE IInv'
  OBVIOUS
<1>1. CASE EngineNext
  BY <1>1, IInvStep DEF Next
<1>2. CASE App!Next /\ UNCHANGED engine
  <2>1. /\ call' = call \/ (call = "none" /\ call' \in {"request", "claim"})
        /\ restarting' = restarting \/ restarting' \in BOOLEAN
        /\ START_FAILED' = START_FAILED \/ START_FAILED' = FALSE
        /\ UNCHANGED <<running, result, PIN_IGNORED>>
    BY <1>2, TrayMoves
  <2>2. statusQ' \in Seq(Statuses)
    BY <1>2, TrayMoves, TakeStatus, WorkerFacts
  <2>3. Bools' /\ Names' /\ Numbers' /\ Channels'
    <3>1. Bools /\ Names /\ Numbers /\ Channels
      BY TypeParts DEF IInv
    <3>2. restarting' \in BOOLEAN /\ START_FAILED' \in BOOLEAN
      BY <2>1, <3>1 DEF Bools
    <3>3. call' \in Calls
      BY <2>1, <3>1 DEF Names, Calls
    <3> QED BY <1>2, <2>1, <2>2, <3>1, <3>2, <3>3 DEF Bools, Names, Numbers, Channels
  <2>4. TypeOK'
    BY <2>3, TypeParts
  <2>5. SlotHeld'
    BY <1>2, <2>1 DEF IInv, SlotHeld
  <2> QED BY <1>2, <2>4, <2>5 DEF IInv, DisplayFollowsWorker, CoreFollowsWorker, LogFollowsCore,
             Alive, Unconnected, GenerationGrows, WindowIsNewest, NoBump
<1>3. CASE UNCHANGED appVars
  <2>1. UNCHANGED vars
    BY <1>3 DEF appVars
  <2> QED BY <2>1, IInvStep
<1> QED BY <1>1, <1>2, <1>3 DEF AppNext

(* -- The calls the handlers wait for.                                     *)

CallsOfTasks ==
  /\ result = "ok"
  /\ task \in {"idle", "exited"} => call = "none"
  /\ task \in {"stop", "fail", "quit"} =>
       call \in Stops \cup {"none"} /\ ~restarting /\ (call = "none" => worker = "none")
  /\ task \in {"launch", "start"} => call \in {"claim", "spawn", "none"}
  /\ task \in {"restart", "config"} /\ call \in Stops => restarting
  /\ restarting => call \in Stops
  /\ call = "claim" => ~running

LEMMA CallsStep ==
  ASSUME FailuresAreReported, IInv, CallsOfTasks, [AppNext]_appVars
  PROVE  CallsOfTasks'
<1> USE DEF CallsOfTasks, Stops
<1>1. CASE App!Next /\ UNCHANGED engine
  <2>0. UNCHANGED <<running, result, worker>>
    BY <1>1, TrayMoves
  <2>1. CASE UNCHANGED <<task, call, restarting>>
    BY <2>0, <2>1
  <2>2. CASE /\ task # "idle" /\ call = "none" /\ UNCHANGED <<call, restarting>>
             /\ task' = "idle" \/ (task = "quit" /\ task' = "exited")
    BY <2>0, <2>2
  <2>3. CASE task' \in {"stop", "fail", "quit"} /\ call' = "request" /\ ~restarting'
    BY <2>0, <2>3
  <2>4. CASE task' = "start" /\ call' = "claim" /\ ~restarting' /\ ~running
    BY <2>0, <2>4
  <2>5. CASE task' \in {"restart", "config"} /\ call' = "request" /\ restarting'
    BY <2>0, <2>5
  <2> QED BY <1>1, <2>1, <2>2, <2>3, <2>4, <2>5, TrayMoves
<1>2. CASE TrayThread /\ UNCHANGED trayOwn
  <2>1. CASE StopRequest
    BY <1>2, <2>1 DEF StopRequest
  <2>2. CASE StopJoin
    <3>1. call = "join" /\ ~restarting' /\ ~running' /\ worker = "none"
          /\ call' = IF restarting THEN "claim" ELSE "none"
      BY <2>2 DEF StopJoin
    <3>2. UNCHANGED <<result, task, worker>>
      BY <1>2, <2>2 DEF StopJoin
    <3> QED BY <3>1, <3>2
  <2>3. CASE StartClaim
    BY <1>2, <2>3 DEF StartClaim
  <2>4. CASE StartSpawn
    BY <1>2, <2>4 DEF StartSpawn, FailuresAreReported
  <2> QED BY <1>2, <2>1, <2>2, <2>3, <2>4 DEF TrayThread
<1>3. CASE Worker /\ UNCHANGED trayOwn
  <2>1. UNCHANGED <<result, call, restarting, task>> /\ worker # "none"
    BY <1>3 DEF Worker, NoDisplay, OpenDisplay, PrepareRun, LoadFails, SetupEngine, Announce,
       Loop, PollStop, DrainEvents, SampleGeneration, React, CloseGate, ClearConnected,
       StopCore, DropCore, Destroy, ReportOff
  <2>2. running' => running
    <3>1. Announce => running
      BY WorkerFacts DEF Announce, IInv, SlotHeld
    <3> QED
      BY <1>3, <3>1 DEF Worker, NoDisplay, OpenDisplay, PrepareRun, LoadFails, SetupEngine,
         Loop, PollStop, DrainEvents, SampleGeneration, React, CloseGate, ClearConnected,
         StopCore, DropCore, Destroy, ReportOff
  <2> QED BY <2>1, <2>2
<1>4. ASSUME NEW t \in LogThreads, Callback(t), UNCHANGED trayOwn PROVE CallsOfTasks'
  BY <1>4, CallbackFrame
<1>5. CASE Environment /\ UNCHANGED trayOwn
  BY <1>5, EnvironmentFrame
<1>6. CASE UNCHANGED appVars
  BY <1>6 DEF appVars
<1> QED BY <1>1, <1>2, <1>3, <1>4, <1>5, <1>6 DEF AppNext, EngineNext, CallbackSteps

(* -- What the tray has been told, or will be.                             *)

(* A call that has started an engine is followed by a status: the worker   *)
(* has yet to announce itself, or its announcement is in the channel.      *)
Told ==
  task \in Starting /\ call = "none" =>
    worker \in Fresh \/ statusQ # <<>> \/ (task = "launch" /\ worker = "none")

LEMMA ToldStep ==
  ASSUME FailuresAreReported, IInv, CallsOfTasks, Told, [AppNext]_appVars
  PROVE  Told'
<1> USE DEF Told, Starting, Fresh
<1>1. CASE App!Next /\ UNCHANGED engine
  BY <1>1, TrayMoves
<1>2. CASE TrayThread /\ UNCHANGED trayOwn
  <2>1. CASE StopRequest \/ StopJoin
    BY <1>2, <2>1 DEF StopRequest, StopJoin, CallsOfTasks, Stops
  <2>2. CASE StartClaim
    BY <1>2, <2>2 DEF StartClaim, CallsOfTasks
  <2>3. CASE StartSpawn
    BY <1>2, <2>3 DEF StartSpawn, FailuresAreReported
  <2> QED BY <1>2, <2>1, <2>2, <2>3 DEF TrayThread
<1>3. CASE Worker /\ UNCHANGED trayOwn
  <2>0. UNCHANGED <<task, call>>
    BY <1>3 DEF Worker, NoDisplay, OpenDisplay, PrepareRun, LoadFails, SetupEngine, Announce,
       Loop, PollStop, DrainEvents, SampleGeneration, React, CloseGate, ClearConnected,
       StopCore, DropCore, Destroy, ReportOff
  <2>1. CASE Announce \/ ReportOff \/ React
    <3>1. statusQ' # <<>> \/ (UNCHANGED statusQ /\ worker \notin Fresh \cup {"none"})
      BY <2>1, SendStatus, WorkerFacts DEF Announce, ReportOff, React
    <3> QED BY <2>0, <3>1
  <2>2. CASE OpenDisplay \/ PrepareRun \/ SetupEngine
    BY <2>0, <2>2 DEF OpenDisplay, PrepareRun, SetupEngine
  <2>3. CASE PollStop \/ DrainEvents \/ SampleGeneration \/ CloseGate \/ ClearConnected
             \/ StopCore \/ DropCore \/ Destroy
    <3>1. worker \notin Fresh \cup {"none"} /\ UNCHANGED statusQ
      BY <2>3 DEF PollStop, DrainEvents, SampleGeneration, CloseGate, ClearConnected,
         StopCore, DropCore, Destroy
    <3> QED BY <2>0, <3>1
  <2>4. ~NoDisplay /\ ~LoadFails
    BY DEF NoDisplay, LoadFails, FailuresAreReported
  <2> QED BY <1>3, <2>1, <2>2, <2>3, <2>4 DEF Worker, Loop
<1>4. ASSUME NEW t \in LogThreads, Callback(t), UNCHANGED trayOwn PROVE Told'
  <2>1. statusQ' # <<>> \/ UNCHANGED statusQ
    BY <1>4, SendStatus, WorkerFacts DEF Callback, LogSwap, LogSend, LogBump
  <2> QED BY <1>4, <2>1, CallbackFrame
<1>5. CASE Environment /\ UNCHANGED trayOwn
  BY <1>5, EnvironmentFrame
<1>6. CASE UNCHANGED appVars
  BY <1>6 DEF appVars
<1> QED BY <1>1, <1>2, <1>3, <1>4, <1>5, <1>6 DEF AppNext, EngineNext, CallbackSteps

(* A run that is over has said so last, and the tray follows.              *)
QueueEndsOff ==
  /\ worker \in {"none", "spawned", "open", "prepared", "announce_err"} =>
       statusQ = <<>> \/ LastStatus = "Off"
  /\ worker = "none" /\ task = "idle" /\ statusQ = <<>> => current_status = "Off"

LEMMA QueueEndsOffTray ==
  ASSUME IInv, CallsOfTasks, Told, QueueEndsOff, App!Next, UNCHANGED engine
  PROVE  QueueEndsOff'
<1> USE DEF QueueEndsOff, App!Enter, App!Stop, App!Start, App!Restart, App!Returned
<1>0. statusQ \in Seq(Statuses)
  BY DEF IInv, TypeOK
<1>1. CASE App!OnStatus
  <2>1. statusQ # <<>> /\ statusQ' = Tail(statusQ)
    BY <1>1 DEF App!OnStatus
  <2>2. task' = "idle" => current_status' = Head(statusQ)
    BY <1>1 DEF App!OnStatus
  <2> QED BY <1>0, <2>1, <2>2, TakeStatus
<1>2. CASE App!Launched
  <2>1. task = "launch" /\ call = "none" /\ UNCHANGED statusQ
        /\ current_status' = IF running THEN "Ready" ELSE "Off"
    BY <1>2 DEF App!Launched
  <2>2. worker = "none" => ~running
    BY <2>1, WorkerFacts
  <2> QED BY <1>0, <2>1, <2>2 DEF LastStatus
<1>3. CASE App!FailureReported \/ App!Stopped
  BY <1>0, <1>3 DEF App!FailureReported, App!Stopped, LastStatus
<1>4. CASE App!Started \/ App!Restarted \/ App!Reconfigured
  <2>1. task \in {"start", "restart", "config"} /\ call = "none" /\ UNCHANGED statusQ
    BY <1>4 DEF App!Started, App!Restarted, App!Reconfigured
  <2>2. worker = "none" => statusQ # <<>>
    BY <2>1 DEF Told, Starting, Fresh
  <2> QED BY <1>0, <2>1, <2>2 DEF LastStatus
<1>5. CASE App!Exited \/ App!User
  BY <1>0, <1>5 DEF App!Exited, App!User, App!Save, App!Click, LastStatus
<1>6. CASE App!OnClick
  BY <1>0, <1>6 DEF App!OnClick, LastStatus
<1>7. CASE App!OnConfig
  BY <1>0, <1>7 DEF App!OnConfig, LastStatus
<1> QED BY <1>1, <1>2, <1>3, <1>4, <1>5, <1>6, <1>7 DEF App!Next, App!EventLoop

LEMMA QueueEndsOffStep ==
  ASSUME FailuresAreReported, IInv, CallsOfTasks, Told, QueueEndsOff, [AppNext]_appVars
  PROVE  QueueEndsOff'
<1> USE DEF QueueEndsOff, LastStatus
<1>1. CASE App!Next /\ UNCHANGED engine
  BY <1>1, QueueEndsOffTray
<1>2. CASE TrayThread /\ UNCHANGED trayOwn
  <2>1. UNCHANGED <<task, statusQ, current_status>>
        /\ (worker' = worker \/ (worker = "none" /\ worker' = "spawned"))
    BY <1>2 DEF TrayThread, StopRequest, StopJoin, StartClaim, StartSpawn
  <2> QED BY <2>1
<1>3. CASE Worker /\ UNCHANGED trayOwn
  <2>1. CASE ReportOff
    <3>1. Send("Off")
      BY <2>1 DEF ReportOff
    <3> QED BY <3>1, SendStatus, WorkerFacts
  <2>2. CASE OpenDisplay \/ PrepareRun \/ SetupEngine
    <3>1. worker \in {"spawned", "open", "prepared"} /\ worker' # "none" /\ UNCHANGED statusQ
      BY <2>2 DEF OpenDisplay, PrepareRun, SetupEngine
    <3> QED BY <1>3, <3>1
  <2>3. CASE Announce \/ Loop \/ CloseGate \/ ClearConnected \/ StopCore \/ DropCore \/ Destroy
    <3>1. worker' \in Polling \cup Leaving
      BY <2>3 DEF Announce, Loop, PollStop, DrainEvents, SampleGeneration, React, CloseGate,
         ClearConnected, StopCore, DropCore, Destroy, Polling, Leaving
    <3> QED BY <3>1 DEF Polling, Leaving
  <2>4. ~NoDisplay /\ ~LoadFails
    BY DEF NoDisplay, LoadFails, FailuresAreReported
  <2> QED BY <1>3, <2>1, <2>2, <2>3, <2>4 DEF Worker
<1>4. ASSUME NEW t \in LogThreads, Callback(t), UNCHANGED trayOwn PROVE QueueEndsOff'
  <2>1. log[t] # Idle
    BY <1>4, LogPlaces, LogStateFacts DEF Callback, LogSwap, LogSend, LogBump
  <2>2. worker \in InCore
    BY <2>1, WorkerFacts
  <2> QED BY <1>4, <2>2, CallbackFrame DEF InCore, Polling
<1>5. CASE Environment /\ UNCHANGED trayOwn
  BY <1>5, EnvironmentFrame
<1>6. CASE UNCHANGED appVars
  BY <1>6 DEF appVars
<1> QED BY <1>1, <1>2, <1>3, <1>4, <1>5, <1>6 DEF AppNext, EngineNext, CallbackSteps

(* -- Failures.                                                            *)

(* The callback's gate is open from before the engine starts until its     *)
(* loop is left.                                                           *)
GateOpen == worker \in {"announce_ok", "announce_err"} \cup Polling => ENGINE_ACTIVE

LEMMA GateOpenStep ==
  ASSUME GateOpen, [AppNext]_appVars PROVE GateOpen'
<1> USE DEF GateOpen, Polling
<1>1. CASE App!Next /\ UNCHANGED engine
  BY <1>1
<1>2. CASE TrayThread
  BY <1>2 DEF TrayThread, StopRequest, StopJoin, StartClaim, StartSpawn
<1>3. CASE Worker
  BY <1>3 DEF Worker, NoDisplay, OpenDisplay, PrepareRun, LoadFails, SetupEngine, Announce,
     Loop, PollStop, DrainEvents, SampleGeneration, React, CloseGate, ClearConnected,
     StopCore, DropCore, Destroy, ReportOff
<1>4. ASSUME NEW t \in LogThreads, Callback(t) PROVE GateOpen'
  BY <1>4, CallbackFrame
<1>5. CASE Environment
  BY <1>5, EnvironmentFrame
<1>6. CASE UNCHANGED appVars
  BY <1>6 DEF appVars
<1> QED BY <1>1, <1>2, <1>3, <1>4, <1>5, <1>6 DEF AppNext, EngineNext, CallbackSteps

(* An engine that is up has not failed, and no flag of an earlier run is   *)
(* held against it.                                                        *)
FailedRun ==
  /\ \A t \in LogThreads : Sends(t, "Off") \/ Gates(t, "fatal") => core = "failed"
  /\ core \in Up => ~failed /\ ~START_FAILED
  /\ worker \in {"spawned", "open", "prepared"} => ~failed
  /\ worker = "prepared" => ~START_FAILED
  /\ worker \in {"announce_ok"} \cup Polling =>
       core \in Up \/ failed \/ \E t \in LogThreads : Gates(t, "fatal")
  /\ worker = "announce_err" => failed

LEMMA FailedRunWorker ==
  ASSUME FailuresAreReported, IInv, FailedRun, Worker
  PROVE  FailedRun'
<1> USE DEF FailedRun, Up, Polling
<1>0. UNCHANGED log
  BY DEF Worker, NoDisplay, OpenDisplay, PrepareRun, LoadFails, SetupEngine, Announce,
     Loop, PollStop, DrainEvents, SampleGeneration, React, CloseGate, ClearConnected,
     StopCore, DropCore, Destroy, ReportOff
<1>a. ASSUME \A t \in LogThreads : log[t] = Idle
      PROVE  \A t \in LogThreads : ~Sends(t, "Off")' /\ ~Gates(t, "fatal")'
  BY <1>0, <1>a, LogPlaces DEF Sends, Gates
<1>1. CASE OpenDisplay
  BY <1>0, <1>1 DEF OpenDisplay, Sends, Gates
<1>2. CASE PrepareRun
  <2>1. /\ worker = "open" /\ worker' = "prepared" /\ UNCHANGED <<core, failed>>
        /\ ~START_FAILED'
    BY <1>2 DEF PrepareRun
  <2> QED BY <1>0, <2>1 DEF Sends, Gates
<1>3. CASE SetupEngine
  <2>1. worker = "prepared" /\ \A t \in LogThreads : log[t] = Idle
    BY <1>3, WorkerFacts DEF SetupEngine, InCore
  <2>2. \A t \in LogThreads : ~Sends(t, "Off")' /\ ~Gates(t, "fatal")'
    BY <1>a, <2>1
  <2>3. \/ /\ core' = "starting" /\ worker' = "announce_ok"
           /\ START_FAILED' = START_FAILED /\ failed' = failed
        \/ core' = "loaded" /\ worker' = "announce_err" /\ failed' = TRUE
    BY <1>3 DEF SetupEngine
  <2> QED BY <2>1, <2>2, <2>3
<1>4. CASE Announce
  <2>1. /\ worker \in {"announce_ok", "announce_err"} /\ worker' = "poll"
        /\ UNCHANGED <<core, failed, START_FAILED>>
    BY <1>4 DEF Announce
  <2> QED BY <1>0, <2>1 DEF Sends, Gates
<1>5. CASE Loop
  <2>1. /\ worker \in Polling /\ worker' \in Polling \cup {"leave"}
        /\ UNCHANGED <<core, failed, START_FAILED>>
    BY <1>5 DEF Loop, PollStop, DrainEvents, SampleGeneration, React
  <2> QED BY <1>0, <2>1 DEF Sends, Gates
<1>6. CASE CloseGate \/ ClearConnected \/ Destroy \/ ReportOff
  <2>1. worker' \in {"clear", "stopping", "closing", "none"}
        /\ UNCHANGED <<core, failed, START_FAILED>>
    BY <1>6 DEF CloseGate, ClearConnected, Destroy, ReportOff
  <2> QED BY <1>0, <2>1 DEF Sends, Gates
<1>7. CASE StopCore \/ DropCore
  <2>1. /\ worker' \in {"drop", "close"} /\ core' \in {"loaded", "off"}
        /\ \A t \in LogThreads : log[t] = Idle
    BY <1>7, WorkerFacts DEF StopCore, DropCore, InCore
  <2> QED BY <1>a, <2>1
<1>8. ~NoDisplay /\ ~LoadFails
  BY DEF NoDisplay, LoadFails, FailuresAreReported
<1> QED BY <1>1, <1>2, <1>3, <1>4, <1>5, <1>6, <1>7, <1>8 DEF Worker

LEMMA FailedRunStep ==
  ASSUME FailuresAreReported, IInv, GateOpen, FailedRun, [AppNext]_appVars
  PROVE  FailedRun'
<1> USE DEF FailedRun, Up
<1>1. CASE App!Next /\ UNCHANGED engine
  <2>1. UNCHANGED <<failed, worker, core, log>>
    BY <1>1
  <2>2. START_FAILED' => START_FAILED
    BY <1>1, TrayMoves
  <2> QED BY <2>1, <2>2 DEF Sends, Gates
<1>2. CASE TrayThread
  <2>1. UNCHANGED <<core, log, START_FAILED>>
    BY <1>2 DEF TrayThread, StopRequest, StopJoin, StartClaim, StartSpawn
  <2>2. UNCHANGED <<worker, failed>> \/ (worker' = "spawned" /\ failed' = FALSE)
    BY <1>2 DEF TrayThread, StopRequest, StopJoin, StartClaim, StartSpawn
  <2> QED BY <2>1, <2>2 DEF Sends, Gates, Polling
<1>3. CASE Worker
  BY <1>3, FailedRunWorker
<1>4. ASSUME NEW t \in LogThreads, Callback(t) PROVE FailedRun'
  <2>0. UNCHANGED <<worker, core>>
    BY <1>4, CallbackFrame
  <2>1. CASE LogSwap(t)
    <3>1. log[t].at = "gated" /\ \A u \in LogThreads : u # t => log'[u] = log[u]
      BY <2>1, LogSwapMoves
    <3>2. CASE Gates(t, "fatal") /\ Sends(t, "Off")' /\ failed'
      <4>1. core = "failed" /\ worker \in InCore
        BY <3>2, WorkerFacts
      <4>2. core' = "failed" /\ worker' \in InCore
        BY <2>0, <4>1
      <4> QED BY <3>1, <3>2, <4>2 DEF InCore, Polling
    <3>3. CASE /\ ~Gates(t, "fatal") /\ ~Sends(t, "Off")' /\ ~Gates(t, "fatal")'
               /\ UNCHANGED <<failed, START_FAILED>>
      BY <2>0, <3>1, <3>3 DEF Sends, Gates
    <3> QED BY <2>1, <3>2, <3>3, LogSwapMoves, LogPlaces DEF Sends, Gates
  <2>2. CASE LogSend(t) \/ LogBump(t)
    <3>1. /\ log[t].at # "gated" /\ log'[t] = Idle /\ UNCHANGED <<failed, START_FAILED>>
          /\ \A u \in LogThreads : u # t => log'[u] = log[u]
      BY <2>2, LogSendMoves, LogBumpMoves DEF LogSend, LogBump
    <3> QED BY <2>0, <3>1, LogPlaces DEF Sends, Gates
  <2> QED BY <1>4, <2>1, <2>2 DEF Callback
<1>5. CASE Environment
  <2>0. UNCHANGED <<worker, failed, START_FAILED>>
    BY <1>5, EnvironmentFrame
  <2>1. CASE CoreServes
    BY <2>0, <2>1 DEF CoreServes, Sends, Gates
  <2>2. CASE UserCloses
    BY <2>0, <2>2 DEF UserCloses, Sends, Gates
  <2>3. ASSUME NEW t \in LogThreads, NEW line \in Lines, LogLine(t, line) PROVE FailedRun'
    <3>1. log[t] = Idle /\ (\A u \in LogThreads : u # t => log'[u] = log[u])
          /\ IF ENGINE_ACTIVE THEN Gates(t, line)' ELSE log'[t] = Idle
      BY <2>3, LogLineMoves
    <3>2. core \in Up /\ core' = IF line = "fatal" THEN "failed" ELSE core
      BY <2>3 DEF LogLine, Logs
    <3>3. \A u \in LogThreads : ~Sends(u, "Off") /\ ~Gates(u, "fatal")
      BY <3>2
    <3>4. \A u \in LogThreads : ~Sends(u, "Off")' /\ (Gates(u, "fatal")' => line = "fatal")
      BY <3>1, <3>3, LogPlaces DEF Sends, Gates
    <3>5. line = "fatal" /\ worker \in {"announce_ok"} \cup Polling => Gates(t, "fatal")'
      BY <3>1 DEF GateOpen
    <3>6. worker \in InCore
      BY <3>2, WorkerFacts
    <3> QED BY <2>0, <3>2, <3>4, <3>5, <3>6 DEF InCore, Polling
  <2> QED BY <1>5, <2>1, <2>2, <2>3 DEF Environment
<1>6. CASE UNCHANGED appVars
  BY <1>6 DEF appVars, Sends, Gates
<1> QED BY <1>1, <1>2, <1>3, <1>4, <1>5, <1>6 DEF AppNext, EngineNext, CallbackSteps

(* A failure of the newest run is on its way to the tray, being handled,   *)
(* latched for the menu with the run torn down, or about to be left behind *)
(* by a start under way.                                                   *)
FailureKnown ==
  failed =>
    \/ START_FAILED /\ (OffQueued \/ worker = "announce_err"
                          \/ \E t \in LogThreads : Sends(t, "Off"))
    \/ task = "fail"
    \/ ENGINE_FAILED /\ worker = "none" /\ task \notin Starting
    \/ task \in Starting /\ call # "none"

LEMMA FailureKnownTray ==
  ASSUME IInv, CallsOfTasks, FailureKnown, App!Next, UNCHANGED engine
  PROVE  FailureKnown'
<1> USE DEF FailureKnown, Starting, App!Enter, App!Stop, App!Start, App!Restart, App!Returned
<1>0. UNCHANGED <<failed, worker, log>> /\ statusQ \in Seq(Statuses)
  BY DEF IInv, TypeOK
<1>1. CASE App!OnStatus
  <2>0. statusQ # <<>> /\ statusQ' = Tail(statusQ) /\ UNCHANGED ENGINE_FAILED /\ task = "idle"
    BY <1>1 DEF App!OnStatus
  <2>1. CASE task' = "fail"
    BY <2>1
  <2>2. CASE task' # "fail"
    <3>1. ~(Head(statusQ) = "Off" /\ START_FAILED) /\ UNCHANGED <<START_FAILED, task>>
      BY <1>1, <2>2 DEF App!OnStatus
    <3>2. START_FAILED /\ OffQueued => OffQueued'
      BY <1>0, <2>0, <3>1, TakeStatus
    <3> QED BY <1>0, <2>0, <3>1, <3>2 DEF Sends
  <2> QED BY <2>1, <2>2
<1>2. CASE App!FailureReported
  <2>1. ENGINE_FAILED' = TRUE /\ worker = "none" /\ task' = "idle"
    BY <1>2 DEF App!FailureReported, CallsOfTasks
  <2> QED BY <1>0, <2>1
<1>3. CASE App!Launched \/ App!Started \/ App!Restarted \/ App!Reconfigured
  <2>1. UNCHANGED <<statusQ, START_FAILED>> /\ task \in Starting /\ call = "none"
    BY <1>3 DEF App!Launched, App!Started, App!Restarted, App!Reconfigured
  <2> QED BY <1>0, <2>1 DEF OffQueued, Sends
<1>4. CASE App!Stopped \/ App!Exited \/ App!User
  <2>1. UNCHANGED <<statusQ, START_FAILED, ENGINE_FAILED>>
        /\ (UNCHANGED <<task, call>> \/ (task \in {"stop", "quit"} /\ task' \in {"idle", "exited"}))
    BY <1>4 DEF App!Stopped, App!Exited, App!User, App!Save, App!Click
  <2> QED BY <1>0, <2>1 DEF OffQueued, Sends
<1>5. CASE App!OnClick \/ App!OnConfig
  <2>1. UNCHANGED <<statusQ, START_FAILED, ENGINE_FAILED>> /\ task = "idle" /\ call = "none"
        /\ (UNCHANGED task \/ task' \in {"stop", "quit"} \/ (task' \in Starting /\ call' # "none"))
    BY <1>5 DEF App!OnClick, App!OnConfig
  <2> QED BY <1>0, <2>1 DEF OffQueued, Sends
<1> QED BY <1>1, <1>2, <1>3, <1>4, <1>5 DEF App!Next, App!EventLoop

LEMMA FailureKnownStep ==
  ASSUME FailuresAreReported, IInv, CallsOfTasks, FailedRun, FailureKnown, [AppNext]_appVars
  PROVE  FailureKnown'
<1> USE DEF FailureKnown
<1>0. statusQ \in Seq(Statuses)
  BY DEF IInv, TypeOK
<1>1. CASE App!Next /\ UNCHANGED engine
  BY <1>1, FailureKnownTray
<1>2. CASE TrayThread /\ UNCHANGED trayOwn
  <2>1. UNCHANGED <<statusQ, START_FAILED, log>>
    BY <1>2 DEF TrayThread, StopRequest, StopJoin, StartClaim, StartSpawn
  <2>2. CASE StopRequest \/ StopJoin \/ StartClaim
    <3>1. UNCHANGED <<failed, worker>>
      BY <1>2, <2>2 DEF StopRequest, StopJoin, StartClaim
    <3>2. task \in Starting => call' # "none"
      BY <2>2 DEF StopRequest, StopJoin, StartClaim, CallsOfTasks, Starting, Stops
    <3> QED BY <1>2, <2>1, <3>1, <3>2 DEF OffQueued, Sends
  <2>3. CASE StartSpawn
    BY <2>3 DEF StartSpawn, FailuresAreReported
  <2> QED BY <1>2, <2>2, <2>3 DEF TrayThread
<1>3. CASE Worker /\ UNCHANGED trayOwn
  <2>0. UNCHANGED <<log, call>> /\ worker # "none"
    BY <1>3 DEF Worker, NoDisplay, OpenDisplay, PrepareRun, LoadFails, SetupEngine, Announce,
       Loop, PollStop, DrainEvents, SampleGeneration, React, CloseGate, ClearConnected,
       StopCore, DropCore, Destroy, ReportOff
  <2>1. CASE PrepareRun \/ OpenDisplay
    <3>1. worker \in {"spawned", "open"} /\ UNCHANGED failed
      BY <2>1 DEF PrepareRun, OpenDisplay
    <3> QED BY <3>1 DEF FailedRun
  <2>2. CASE SetupEngine
    <3>1. worker = "prepared"
          /\ (UNCHANGED failed \/ (START_FAILED' = TRUE /\ worker' = "announce_err"))
      BY <2>2 DEF SetupEngine
    <3> QED BY <3>1 DEF FailedRun
  <2>3. CASE Announce
    <3>1. Send(IF worker = "announce_ok" THEN "Ready" ELSE "Off")
          /\ (worker = "announce_err" => worker # "announce_ok")
      BY <2>3 DEF Announce
    <3>2. (OffQueued \/ worker = "announce_err") => OffQueued'
      BY <1>0, <3>1, SendStatus
    <3>3. UNCHANGED <<failed, START_FAILED>>
      BY <2>3 DEF Announce
    <3> QED BY <1>3, <2>0, <3>2, <3>3 DEF Sends
  <2>4. CASE Loop \/ CloseGate \/ ClearConnected \/ StopCore \/ DropCore \/ Destroy \/ ReportOff
    <3>1. worker # "announce_err" /\ UNCHANGED <<failed, START_FAILED>>
      BY <2>4 DEF Loop, PollStop, DrainEvents, SampleGeneration, React, CloseGate,
         ClearConnected, StopCore, DropCore, Destroy, ReportOff
    <3>2. UNCHANGED statusQ \/ \E s \in Statuses : Send(s)
      BY <2>4 DEF Loop, PollStop, DrainEvents, SampleGeneration, React, CloseGate,
         ClearConnected, StopCore, DropCore, Destroy, ReportOff, Statuses
    <3>3. OffQueued => OffQueued'
      BY <1>0, <3>2, SendStatus DEF OffQueued
    <3> QED BY <1>3, <2>0, <3>1, <3>3 DEF Sends
  <2>5. ~NoDisplay /\ ~LoadFails
    BY DEF NoDisplay, LoadFails, FailuresAreReported
  <2> QED BY <1>3, <2>1, <2>2, <2>3, <2>4, <2>5 DEF Worker
<1>4. ASSUME NEW t \in LogThreads, Callback(t), UNCHANGED trayOwn PROVE FailureKnown'
  <2>0. UNCHANGED <<worker, call>>
    BY <1>4, CallbackFrame
  <2>1. CASE LogSwap(t)
    <3>1. log[t].at = "gated" /\ (\A u \in LogThreads : u # t => log'[u] = log[u])
          /\ UNCHANGED statusQ
      BY <2>1, LogSwapMoves DEF LogSwap
    <3>2. CASE Sends(t, "Off")' /\ START_FAILED'
      BY <3>2
    <3>3. CASE UNCHANGED <<failed, START_FAILED>>
      <4>1. \A u \in LogThreads : Sends(u, "Off") => Sends(u, "Off")'
        BY <3>1 DEF Sends
      <4> QED BY <1>4, <2>0, <3>1, <3>3, <4>1 DEF OffQueued
    <3> QED BY <2>1, <3>2, <3>3, LogSwapMoves
  <2>2. CASE LogSend(t)
    <3>1. log'[t] = Idle /\ UNCHANGED <<failed, START_FAILED>>
          /\ \A u \in LogThreads : u # t => log'[u] = log[u]
      BY <2>2, LogSendMoves DEF LogSend
    <3>2. OffQueued \/ Sends(t, "Off") => OffQueued'
      <4>1. PICK s \in Statuses : Sends(t, s) /\ Send(s)
        BY <2>2, LogSendMoves
      <4>2. Sends(t, "Off") => s = "Off"
        BY <4>1 DEF Sends
      <4> QED BY <1>0, <4>1, <4>2, SendStatus
    <3>3. ASSUME NEW u \in LogThreads, Sends(u, "Off") PROVE OffQueued' \/ Sends(u, "Off")'
      BY <3>1, <3>2, <3>3 DEF Sends
    <3> QED BY <1>4, <2>0, <3>1, <3>2, <3>3
  <2>3. CASE LogBump(t)
    <3>1. log[t].at = "bump" /\ UNCHANGED <<failed, START_FAILED, statusQ>>
          /\ \A u \in LogThreads : u # t => log'[u] = log[u]
      BY <2>3, LogBumpMoves DEF LogBump
    <3>2. \A u \in LogThreads : Sends(u, "Off") => Sends(u, "Off")'
      BY <3>1 DEF Sends
    <3> QED BY <1>4, <2>0, <3>1, <3>2 DEF OffQueued
  <2> QED BY <1>4, <2>1, <2>2, <2>3 DEF Callback
<1>5. CASE Environment /\ UNCHANGED trayOwn
  <2>0. UNCHANGED <<worker, call, failed, START_FAILED, statusQ>>
    BY <1>5, EnvironmentFrame
  <2>1. ASSUME NEW u \in LogThreads, Sends(u, "Off") PROVE Sends(u, "Off")'
    <3>1. ASSUME NEW t \in LogThreads, NEW line \in Lines, LogLine(t, line)
          PROVE  Sends(u, "Off")'
      BY <2>1, <3>1, LogLineMoves, LogPlaces DEF Sends
    <3> QED BY <1>5, <2>1, <3>1 DEF Environment, CoreServes, UserCloses, Sends
  <2> QED BY <1>5, <2>0, <2>1 DEF OffQueued
<1>6. CASE UNCHANGED appVars
  BY <1>6 DEF appVars, Sends, OffQueued
<1> QED BY <1>1, <1>2, <1>3, <1>4, <1>5, <1>6 DEF AppNext, EngineNext, CallbackSteps

(* -- The menu.                                                            *)

(* Not every handler rebuilds the menu, but each that does not leaves a    *)
(* status on its way, or an engine that has yet to announce itself.        *)
MenuCurrent ==
  /\ task = "idle" /\ statusQ = <<>> /\ worker \in {"none"} \cup Polling
  /\ \A t \in LogThreads : log[t].at # "send"
  => shown = App!Menu(current_status, ENGINE_FAILED, current_status)

LEMMA MenuTray ==
  ASSUME IInv, CallsOfTasks, Told, MenuCurrent, App!Next, UNCHANGED engine
  PROVE  MenuCurrent'
<1> USE DEF MenuCurrent, App!Enter, App!Stop, App!Start, App!Restart, App!Returned, App!Menu,
        App!Rebuild
<1>0. UNCHANGED <<worker, log, running, PIN_IGNORED>>
  BY TrayMoves
<1>1. CASE App!Launched \/ App!FailureReported \/ App!Stopped \/ App!Started
  BY <1>0, <1>1 DEF App!Launched, App!FailureReported, App!Stopped, App!Started
<1>2. CASE App!OnStatus
  <2>1. CASE task' # "idle"
    BY <2>1
  <2>2. CASE task' = "idle"
    <3>1. current_status' = Head(statusQ) /\ UNCHANGED ENGINE_FAILED
          /\ App!Rebuild(Head(statusQ), ENGINE_FAILED, Head(statusQ))
      BY <1>2, <2>2 DEF App!OnStatus
    <3> QED BY <1>0, <3>1
  <2> QED BY <2>1, <2>2
<1>3. CASE App!Restarted \/ App!Reconfigured
  <2>1. task \in {"restart", "config"} /\ call = "none" /\ UNCHANGED statusQ
    BY <1>3 DEF App!Restarted, App!Reconfigured
  <2>2. worker \in Fresh \/ statusQ # <<>>
    BY <2>1 DEF Told, Starting
  <2> QED BY <1>0, <2>1, <2>2 DEF Fresh, Polling
<1>4. CASE App!OnConfig
  <2>0. task = "idle" /\ UNCHANGED <<statusQ, current_status, ENGINE_FAILED>>
    BY <1>4 DEF App!OnConfig
  <2>1. CASE task' = "config"
    BY <2>1
  <2>2. CASE App!Rebuild(current_status, ENGINE_FAILED, shown.icon) /\ UNCHANGED task
    BY <1>0, <2>0, <2>2
  <2>3. CASE UNCHANGED <<task, shown>>
    BY <1>0, <2>0, <2>3
  <2> QED BY <1>4, <2>1, <2>2, <2>3 DEF App!OnConfig
<1>5. CASE App!OnClick \/ App!Exited
  <2>1. task' # "idle"
    BY <1>5 DEF App!OnClick, App!Exited
  <2> QED BY <2>1
<1>6. CASE App!User
  <2>1. UNCHANGED <<task, statusQ, shown, current_status, ENGINE_FAILED>>
    BY <1>6 DEF App!User, App!Save, App!Click
  <2> QED BY <1>0, <2>1
<1> QED BY <1>1, <1>2, <1>3, <1>4, <1>5, <1>6 DEF App!Next, App!EventLoop

LEMMA MenuStep ==
  ASSUME FailuresAreReported, IInv, CallsOfTasks, Told, MenuCurrent, [AppNext]_appVars
  PROVE  MenuCurrent'
<1> USE DEF MenuCurrent, App!Menu
<1>0. statusQ \in Seq(Statuses)
  BY DEF IInv, TypeOK
<1>1. CASE App!Next /\ UNCHANGED engine
  BY <1>1, MenuTray
<1>2. CASE TrayThread /\ UNCHANGED trayOwn
  <2>1. call # "none"
    BY <1>2 DEF TrayThread, StopRequest, StopJoin, StartClaim, StartSpawn
  <2> QED BY <1>2, <2>1 DEF CallsOfTasks
<1>3. CASE Worker /\ UNCHANGED trayOwn
  <2>1. CASE Announce \/ ReportOff
    <3>1. statusQ' # <<>>
      BY <1>0, <2>1, SendStatus DEF Announce, ReportOff
    <3> QED BY <3>1
  <2>2. CASE Loop
    <3>1. statusQ' # <<>> \/ UNCHANGED statusQ
      BY <1>0, <2>2, SendStatus DEF Loop, PollStop, DrainEvents, SampleGeneration, React
    <3>2. worker \in Polling /\ UNCHANGED <<running, PIN_IGNORED, log>>
      BY <2>2 DEF Loop, PollStop, DrainEvents, SampleGeneration, React, Polling
    <3> QED BY <1>3, <3>1, <3>2
  <2>3. CASE OpenDisplay \/ PrepareRun \/ SetupEngine \/ CloseGate \/ ClearConnected \/ StopCore
             \/ DropCore \/ Destroy
    <3>1. worker' \notin {"none"} \cup Polling
      BY <2>3 DEF OpenDisplay, PrepareRun, SetupEngine, CloseGate, ClearConnected, StopCore,
         DropCore, Destroy, Polling
    <3> QED BY <3>1
  <2>4. ~NoDisplay /\ ~LoadFails
    BY DEF NoDisplay, LoadFails, FailuresAreReported
  <2> QED BY <1>3, <2>1, <2>2, <2>3, <2>4 DEF Worker
<1>4. ASSUME NEW t \in LogThreads, Callback(t), UNCHANGED trayOwn PROVE MenuCurrent'
  <2>0. UNCHANGED <<worker, running>>
    BY <1>4, CallbackFrame
  <2>1. CASE LogSwap(t)
    <3>0. log[t].at = "gated" /\ (\A u \in LogThreads : u # t => log'[u] = log[u])
          /\ UNCHANGED statusQ
      BY <2>1, LogSwapMoves DEF LogSwap
    <3>1. UNCHANGED PIN_IGNORED \/ log'[t].at = "send"
      BY <2>1, LogSwapMoves DEF Sends
    <3>2. \A u \in LogThreads : log[u].at = "send" => log'[u].at = "send"
      BY <3>0
    <3> QED BY <1>4, <2>0, <3>0, <3>1, <3>2
  <2>2. CASE LogSend(t)
    <3>1. statusQ' # <<>>
      BY <1>0, <2>2, SendStatus, LogSendMoves
    <3> QED BY <3>1
  <2>3. CASE LogBump(t)
    <3>0. log[t].at = "bump" /\ (\A u \in LogThreads : u # t => log'[u] = log[u])
          /\ UNCHANGED <<statusQ, PIN_IGNORED>>
      BY <2>3, LogBumpMoves DEF LogBump
    <3>1. \A u \in LogThreads : log[u].at = "send" => log'[u].at = "send"
      BY <3>0
    <3> QED BY <1>4, <2>0, <3>0, <3>1
  <2> QED BY <1>4, <2>1, <2>2, <2>3 DEF Callback
<1>5. CASE Environment /\ UNCHANGED trayOwn
  <2>0. UNCHANGED <<worker, running, PIN_IGNORED, statusQ>>
    BY <1>5, EnvironmentFrame
  <2>1. ASSUME NEW u \in LogThreads, log[u].at = "send" PROVE log'[u].at = "send"
    <3>1. ASSUME NEW t \in LogThreads, NEW line \in Lines, LogLine(t, line)
          PROVE  log'[u].at = "send"
      BY <2>1, <3>1, LogLineMoves, LogPlaces
    <3> QED BY <1>5, <2>1, <3>1 DEF Environment, CoreServes, UserCloses
  <2> QED BY <1>5, <2>0, <2>1
<1>6. CASE UNCHANGED appVars
  BY <1>6 DEF appVars
<1> QED BY <1>1, <1>2, <1>3, <1>4, <1>5, <1>6 DEF AppNext, EngineNext, CallbackSteps

(* A run whose display is closed has no window on screen.                  *)
Unmapped == ~display => ~mapped

LEMMA UnmappedStep ==
  ASSUME IInv, Unmapped, [AppNext]_appVars PROVE Unmapped'
<1> USE DEF Unmapped
<1>1. CASE (App!Next /\ UNCHANGED engine) \/ UNCHANGED appVars
  BY <1>1 DEF appVars
<1>2. CASE TrayThread \/ CallbackSteps \/ Environment
  BY <1>2, OthersKeepWorker
<1>3. CASE Worker
  <2>1. CASE React
    BY <2>1 DEF React, IInv, DisplayFollowsWorker, WithDisplay, WithCore, InCore, Polling
  <2> QED BY <1>3, <2>1 DEF Worker, NoDisplay, OpenDisplay, PrepareRun, LoadFails, SetupEngine,
          Announce, Loop, PollStop, DrainEvents, SampleGeneration, CloseGate, ClearConnected,
          StopCore, DropCore, Destroy, ReportOff, CloseDisplay
<1> QED BY <1>1, <1>2, <1>3 DEF AppNext, EngineNext

(* -- The invariant of the app, whatever the number of logging threads.    *)

AppIInv ==
  /\ IInv /\ CallsOfTasks /\ Told /\ QueueEndsOff /\ GateOpen
  /\ FailedRun /\ FailureKnown /\ MenuCurrent /\ Unmapped

LEMMA AppIInvInit == AppInit => AppIInv
<1> SUFFICES ASSUME AppInit PROVE AppIInv
  OBVIOUS
<1>0. EngineInit /\ call \in {"none", "claim"} /\ App!Init
  BY DEF AppInit
<1>1. IInv
  BY <1>0, InitIInv DEF EngineStart
<1>2. /\ worker = "none" /\ statusQ = <<>> /\ core = "off" /\ task = "launch"
      /\ \A t \in LogThreads : log[t] = Idle
  BY <1>0 DEF EngineInit, App!Init
<1>3. CallsOfTasks /\ Told /\ QueueEndsOff /\ GateOpen
  BY <1>0, <1>2 DEF EngineInit, CallsOfTasks, Told, QueueEndsOff, GateOpen, Stops, Polling
<1>4. FailedRun /\ FailureKnown /\ MenuCurrent /\ Unmapped
  BY <1>0, <1>2, LogPlaces DEF EngineInit, FailedRun, FailureKnown, MenuCurrent, Unmapped,
     Sends, Gates, Up, Polling
<1> QED BY <1>1, <1>3, <1>4 DEF AppIInv

LEMMA AppIInvStep ==
  ASSUME FailuresAreReported PROVE AppIInv /\ [AppNext]_appVars => AppIInv'
BY IInvAppStep, CallsStep, ToldStep, QueueEndsOffStep, GateOpenStep, FailedRunStep,
   FailureKnownStep, MenuStep, UnmappedStep DEF AppIInv

(* The engine keeps its invariant when the tray drives it.                 *)
THEOREM EngineInvariantInApp == AppSpec => []IInv
<1>1. AppInit => IInv
  BY AppIInvInit DEF AppIInv
<1> QED BY <1>1, IInvAppStep, PTL DEF AppSpec

(* If failures are reported, the app keeps the invariant that relates the  *)
(* handler in progress, the worker, the status channel and the menu.       *)
THEOREM AppInvariantHolds == FailuresAreReported => (AppSpec => []AppIInv)
<1> SUFFICES ASSUME FailuresAreReported PROVE AppSpec => []AppIInv
  OBVIOUS
<1> QED BY AppIInvInit, AppIInvStep, PTL DEF AppSpec

LEMMA SettledFacts ==
  ASSUME IInv, Settled
  PROVE  /\ worker \in {"none", "poll"} /\ task = "idle" /\ statusQ = <<>> /\ call = "none"
         /\ worker = "poll" => last_gen = CONN_GEN
         /\ running <=> worker # "none"
         /\ \A t \in LogThreads : log[t] = Idle
<1>1. worker \in {"none", "poll"} /\ task = "idle" /\ statusQ = <<>> /\ call = "none"
  BY DEF Settled
<1>2. (worker = "poll" => last_gen = CONN_GEN) /\ \A t \in LogThreads : log[t] = Idle
  BY DEF Settled
<1> QED BY <1>1, <1>2, WorkerFacts

(* The menu and the icon end up what build_menu would make of the state.   *)
THEOREM MenuSettlesHolds == FailuresAreReported => (AppSpec => []MenuSettles)
<1> SUFFICES ASSUME FailuresAreReported PROVE AppSpec => []MenuSettles
  OBVIOUS
<1>1. AppIInv => MenuSettles
  <2> SUFFICES ASSUME AppIInv, Settled
               PROVE  shown = App!Menu(current_status, ENGINE_FAILED, current_status)
    BY DEF MenuSettles
  <2>1. \A t \in LogThreads : log[t].at # "send"
    BY SettledFacts, LogPlaces DEF AppIInv
  <2> QED BY <2>1, SettledFacts DEF AppIInv, MenuCurrent, Polling
<1> QED BY <1>1, AppInvariantHolds, PTL

(* An engine that stopped because it failed says so in the menu.           *)
THEOREM FailureShownHolds == FailuresAreReported => (AppSpec => []FailureShown)
<1> SUFFICES ASSUME FailuresAreReported PROVE AppSpec => []FailureShown
  OBVIOUS
<1>1. AppIInv /\ MenuSettles => FailureShown
  <2> SUFFICES ASSUME AppIInv, MenuSettles, Settled, worker = "none", failed
               PROVE  shown.warns = "failed"
    BY DEF FailureShown
  <2>1. ~running /\ task = "idle" /\ statusQ = <<>>
    BY SettledFacts DEF AppIInv
  <2>2. \A t \in LogThreads : ~Sends(t, "Off")
    BY SettledFacts, LogPlaces DEF AppIInv, Sends
  <2>3. ENGINE_FAILED
    BY <2>1, <2>2, NoOff DEF AppIInv, FailureKnown, Starting
  <2> QED BY <2>1, <2>3 DEF MenuSettles, App!Menu
<1> QED BY <1>1, AppInvariantHolds, MenuSettlesHolds, PTL

(* -- The device: from its log line to the tray.                           *)

(* With several logging threads the message of an older line may be sent   *)
(* after the window has reacted to a newer one; what follows is about one  *)
(* logging thread.                                                         *)
OneLogger == \A t, u \in LogThreads : t = u

PinLine(t) == Gates(t, "pin") \/ Sends(t, "Ready")
DeviceLine(t) == Gates(t, "connect") \/ Gates(t, "teardown") \/ log[t].at = "bump"
Open == {"announce_ok", "announce_err"} \cup Polling

(* Until uxplay-core serves clients nothing says a device is there, and    *)
(* the notice about the PIN has gone out before the first device.          *)
NoDeviceYet ==
  /\ \A t \in LogThreads : (DeviceLine(t) => core = "serving") /\ ~Sends(t, "Connected")
  /\ worker \in Open /\ (core # "serving" \/ \E t \in LogThreads : PinLine(t)) =>
       ~CONNECTED /\ ~mapped

LEMMA IdleIsQuiet ==
  ASSUME NEW t \in LogThreads
  PROVE  /\ log[t] = Idle => ~PinLine(t) /\ ~DeviceLine(t) /\ \A s : ~Sends(t, s) /\ ~Gates(t, s)
         /\ log'[t] = Idle => ~PinLine(t)' /\ ~DeviceLine(t)' /\ \A s : ~Sends(t, s)' /\ ~Gates(t, s)'
BY LogPlaces DEF PinLine, DeviceLine, Gates, Sends

(* A step that changes no log, core or CONNECTED, and maps no window.      *)
LEMMA NoDeviceFrame ==
  ASSUME NoDeviceYet, UNCHANGED <<log, core, CONNECTED>>,
         worker' \in Open => worker \in Open /\ (mapped' => mapped \/ CONNECTED)
  PROVE  NoDeviceYet'
BY DEF NoDeviceYet, DeviceLine, PinLine, Gates, Sends

LEMMA NoDeviceWorker ==
  ASSUME FailuresAreReported, IInv, NoDeviceYet, Worker
  PROVE  NoDeviceYet'
<1>1. CASE OpenDisplay \/ PrepareRun \/ CloseGate \/ ClearConnected \/ StopCore \/ DropCore
           \/ Destroy \/ ReportOff
  <2>1. worker' \notin Open /\ UNCHANGED log /\ (worker \in InCore /\ worker # "stopping" => core' = core)
    BY <1>1 DEF OpenDisplay, PrepareRun, CloseGate, ClearConnected, StopCore, DropCore,
       Destroy, ReportOff, Open, Polling, InCore
  <2>2. worker \notin InCore \/ worker = "stopping" => \A t \in LogThreads : log[t] = Idle
    BY <1>1, WorkerFacts DEF OpenDisplay, PrepareRun, CloseGate, ClearConnected, StopCore,
       DropCore, Destroy, ReportOff, InCore, Polling
  <2>3. CASE \A t \in LogThreads : log[t] = Idle
    <3>1. \A t \in LogThreads : ~DeviceLine(t)' /\ ~Sends(t, "Connected")'
      BY <2>1, <2>3, IdleIsQuiet
    <3> QED BY <2>1, <3>1 DEF NoDeviceYet
  <2>4. CASE worker \in InCore /\ worker # "stopping"
    BY <2>1, <2>4 DEF NoDeviceYet, DeviceLine, Gates, Sends
  <2> QED BY <2>2, <2>3, <2>4
<1>2. CASE SetupEngine
  <2>1. worker = "prepared" /\ UNCHANGED <<log, CONNECTED, mapped>>
    BY <1>2 DEF SetupEngine, link, window
  <2>2. ~CONNECTED' /\ ~mapped'
    BY <2>1 DEF IInv, Unconnected, DisplayFollowsWorker
  <2>3. \A t \in LogThreads : log'[t] = Idle
    BY <2>1, WorkerFacts DEF InCore, Polling
  <2>4. \A t \in LogThreads : ~DeviceLine(t)' /\ ~Sends(t, "Connected")'
    BY <2>3, IdleIsQuiet
  <2> QED BY <2>2, <2>4 DEF NoDeviceYet
<1>3. CASE Announce \/ Loop
  <2>1. UNCHANGED <<log, core, CONNECTED>> /\ worker \in Open
        /\ (mapped' => mapped \/ CONNECTED)
    BY <1>3 DEF Announce, Loop, PollStop, DrainEvents, SampleGeneration, React, Open, Polling,
       link, window
  <2> QED BY <2>1, NoDeviceFrame
<1>4. ~NoDisplay /\ ~LoadFails
  BY DEF NoDisplay, LoadFails, FailuresAreReported
<1> QED BY <1>1, <1>2, <1>3, <1>4 DEF Worker

LEMMA NoDeviceCallback ==
  ASSUME OneLogger, IInv, NoDeviceYet, NEW t \in LogThreads, Callback(t)
  PROVE  NoDeviceYet'
<1>0. LogThreads = {t}
  BY DEF OneLogger
<1>1. UNCHANGED <<worker, core, mapped>>
  BY CallbackFrame
<1>2. CASE LogSwap(t)
  <2>1. CASE Gates(t, "fatal") /\ Sends(t, "Off")' /\ UNCHANGED CONNECTED
    BY <1>0, <1>1, <2>1 DEF NoDeviceYet, DeviceLine, PinLine, Gates, Sends
  <2>2. CASE Gates(t, "pin") /\ UNCHANGED CONNECTED /\ (log'[t] = Idle \/ Sends(t, "Ready")')
    <3>1. PinLine(t) /\ ~DeviceLine(t)' /\ ~Sends(t, "Connected")'
      BY <2>2, LogPlaces DEF DeviceLine, PinLine, Gates, Sends
    <3> QED BY <1>0, <1>1, <2>2, <3>1 DEF NoDeviceYet
  <2>3. CASE /\ Gates(t, "connect") \/ Gates(t, "teardown")
             /\ log'[t] = Idle \/ log'[t] = Bumping
    <3>1. ~PinLine(t)' /\ ~Sends(t, "Connected")' /\ core = "serving"
      BY <2>3, LogPlaces DEF NoDeviceYet, DeviceLine, PinLine, Gates, Sends
    <3> QED BY <1>0, <1>1, <3>1 DEF NoDeviceYet
  <2> QED BY <1>2, <2>1, <2>2, <2>3, LogSwapMoves
<1>3. CASE LogSend(t) \/ LogBump(t)
  <2>1. log'[t] = Idle /\ UNCHANGED CONNECTED
    BY <1>3, LogSendMoves, LogBumpMoves DEF LogSend, LogBump, link
  <2> QED BY <1>0, <1>1, <2>1, IdleIsQuiet DEF NoDeviceYet
<1> QED BY <1>2, <1>3 DEF Callback

LEMMA NoDeviceYetStep ==
  ASSUME FailuresAreReported, OneLogger, IInv, NoDeviceYet, [AppNext]_appVars
  PROVE  NoDeviceYet'
<1>1. CASE (App!Next /\ UNCHANGED engine) \/ UNCHANGED appVars
  BY <1>1, NoDeviceFrame DEF appVars, vars, link, window
<1>2. CASE TrayThread
  <2>1. UNCHANGED <<log, core, CONNECTED, mapped>> /\ (worker' = worker \/ worker' = "spawned")
    BY <1>2 DEF TrayThread, StopRequest, StopJoin, StartClaim, StartSpawn, link, window
  <2> QED BY <2>1, NoDeviceFrame DEF Open, Polling
<1>3. CASE Worker
  BY <1>3, NoDeviceWorker
<1>4. ASSUME NEW t \in LogThreads, Callback(t) PROVE NoDeviceYet'
  BY <1>4, NoDeviceCallback
<1>5. CASE Environment
  <2>0. UNCHANGED <<worker, CONNECTED, mapped>>
    BY <1>5, EnvironmentFrame
  <2>1. CASE CoreServes
    <3>1. core = "starting" /\ core' = "serving" /\ UNCHANGED log
      BY <2>1 DEF CoreServes
    <3> QED BY <2>0, <3>1 DEF NoDeviceYet, DeviceLine, PinLine, Gates, Sends
  <2>2. CASE UserCloses
    BY <2>0, <2>2, NoDeviceFrame DEF UserCloses
  <2>3. ASSUME NEW t \in LogThreads, NEW line \in Lines, LogLine(t, line) PROVE NoDeviceYet'
    <3>0. LogThreads = {t}
      BY DEF OneLogger
    <3>1. log'[t] = Idle \/ Gates(t, line)'
      BY <2>3, LogLineMoves
    <3>2. \A s : ~Sends(t, s)'
      BY <3>1, LogPlaces DEF Sends, Gates
    <3>3. CASE core = "starting"
      <4>1. line \in {"pin", "fatal"} /\ core' \in {"starting", "failed"}
        BY <2>3, <3>3 DEF LogLine, Logs
      <4>2. ~DeviceLine(t)'
        BY <3>1, <4>1, LogPlaces DEF DeviceLine, Gates
      <4> QED BY <2>0, <3>0, <3>2, <3>3, <4>2 DEF NoDeviceYet
    <3>4. CASE core = "serving"
      <4>1. line \in {"connect", "teardown"} /\ core' = "serving"
        BY <2>3, <3>4 DEF LogLine, Logs
      <4>2. ~PinLine(t)'
        BY <3>1, <3>2, <4>1, LogPlaces DEF PinLine, Gates
      <4> QED BY <3>0, <3>2, <4>1, <4>2 DEF NoDeviceYet
    <3> QED BY <2>3, <3>3, <3>4 DEF LogLine, Logs
  <2> QED BY <1>5, <2>1, <2>2, <2>3 DEF Environment
<1> QED BY <1>1, <1>2, <1>3, <1>4, <1>5 DEF AppNext, EngineNext, CallbackSteps

(* What the tray will be showing once it has taken every status sent: it   *)
(* is what the loop did to the window last.                                *)
Sent == IF statusQ = <<>> THEN current_status ELSE LastStatus

StatusFollowsWindow ==
  worker \in Polling /\ core \in Up => Sent = IF mapped THEN "Connected" ELSE "Ready"

(* Nothing the tray does changes what it will have been told last.         *)
LEMMA SentKept ==
  ASSUME IInv, CallsOfTasks, Told, FailedRun, App!Next, UNCHANGED engine,
         worker \in Polling, core \in Up
  PROVE  UNCHANGED Sent
<1> USE DEF Sent, App!Enter, App!Stop, App!Start, App!Restart, App!Returned
<1>0. ~START_FAILED /\ statusQ \in Seq(Statuses) /\ worker # "none" /\ worker \notin Fresh
  BY WorkerFacts DEF FailedRun, Polling, Fresh
<1>1. CASE App!OnStatus
  <2>1. statusQ # <<>> /\ statusQ' = Tail(statusQ) /\ current_status' = Head(statusQ)
    BY <1>0, <1>1 DEF App!OnStatus
  <2> QED BY <1>0, <2>1, TakeStatus
<1>2. CASE App!Launched \/ App!Started \/ App!Restarted \/ App!Reconfigured
  <2>1. task \in Starting /\ call = "none" /\ UNCHANGED statusQ
    BY <1>2 DEF App!Launched, App!Started, App!Restarted, App!Reconfigured, Starting
  <2>2. statusQ # <<>>
    BY <1>0, <2>1 DEF Told
  <2> QED BY <2>1, <2>2 DEF LastStatus
<1>3. CASE App!FailureReported \/ App!Stopped \/ App!Exited
  BY <1>0, <1>3 DEF App!FailureReported, App!Stopped, App!Exited, CallsOfTasks
<1>4. CASE App!OnClick \/ App!OnConfig \/ App!User
  BY <1>4 DEF App!OnClick, App!OnConfig, App!User, App!Save, App!Click, LastStatus
<1> QED BY <1>1, <1>2, <1>3, <1>4 DEF App!Next, App!EventLoop

LEMMA StatusFollowsStep ==
  ASSUME FailuresAreReported, IInv, CallsOfTasks, Told, FailedRun, NoDeviceYet,
         StatusFollowsWindow, [AppNext]_appVars
  PROVE  StatusFollowsWindow'
<1> USE DEF StatusFollowsWindow
<1>0. statusQ \in Seq(Statuses) /\ mapped \in BOOLEAN /\ CONNECTED \in BOOLEAN
  BY DEF IInv, TypeOK
<1>1. CASE App!Next /\ UNCHANGED engine
  <2>1. UNCHANGED <<worker, core, mapped>>
    BY <1>1 DEF window
  <2> QED BY <1>1, <2>1, SentKept
<1>2. CASE TrayThread /\ UNCHANGED trayOwn
  <2>1. UNCHANGED <<core, mapped, statusQ, current_status>>
        /\ (worker' = worker \/ worker' = "spawned")
    BY <1>2 DEF TrayThread, StopRequest, StopJoin, StartClaim, StartSpawn, window
  <2> QED BY <2>1 DEF Sent, LastStatus, Polling
<1>3. CASE Worker /\ UNCHANGED trayOwn
  <2>1. CASE Announce
    <3>1. UNCHANGED <<core, mapped>> /\ worker \in {"announce_ok", "announce_err"}
      BY <2>1 DEF Announce, window
    <3>2. ~mapped
      BY <3>1 DEF IInv, DisplayFollowsWorker
    <3>3. core \in Up => worker = "announce_ok"
      BY <3>1 DEF FailedRun
    <3>4. worker = "announce_ok" => Sent' = "Ready"
      <4>1. worker = "announce_ok" => Send("Ready")
        BY <2>1 DEF Announce
      <4> QED BY <1>0, <4>1, SendStatus DEF Sent
    <3> QED BY <3>1, <3>2, <3>3, <3>4
  <2>2. CASE React
    <3>1. UNCHANGED core /\ worker \in Polling /\ mapped' = CONNECTED
      BY <2>2 DEF React, Polling
    <3>2. CASE CONNECTED = mapped
      BY <1>3, <2>2, <3>1, <3>2 DEF React, Sent, LastStatus
    <3>3. CASE CONNECTED # mapped
      <4>1. Send(IF CONNECTED THEN "Connected" ELSE "Ready")
        BY <2>2, <3>3 DEF React
      <4>2. Sent' = IF CONNECTED THEN "Connected" ELSE "Ready"
        BY <1>0, <4>1, SendStatus DEF Sent
      <4> QED BY <3>1, <4>2
    <3> QED BY <3>2, <3>3
  <2>3. CASE PollStop \/ DrainEvents \/ SampleGeneration
    <3>1. UNCHANGED <<core, mapped, statusQ>> /\ worker \in Polling
      BY <2>3 DEF PollStop, DrainEvents, SampleGeneration, Polling, window
    <3> QED BY <1>3, <3>1 DEF Sent, LastStatus
  <2>4. CASE ~(Announce \/ Loop)
    <3>1. worker' \notin Polling
      BY <1>3, <2>4 DEF Worker, NoDisplay, OpenDisplay, PrepareRun, LoadFails, SetupEngine,
         CloseGate, ClearConnected, StopCore, DropCore, Destroy, ReportOff, Polling
    <3> QED BY <3>1
  <2> QED BY <2>1, <2>2, <2>3, <2>4 DEF Loop
<1>4. ASSUME NEW t \in LogThreads, Callback(t), UNCHANGED trayOwn PROVE StatusFollowsWindow'
  <2>0. UNCHANGED <<worker, core, mapped>>
    BY <1>4, CallbackFrame
  <2>1. CASE LogSwap(t) \/ LogBump(t)
    <3>1. UNCHANGED statusQ
      BY <2>1 DEF LogSwap, LogBump
    <3> QED BY <1>4, <2>0, <3>1 DEF Sent, LastStatus
  <2>2. CASE LogSend(t)
    <3>1. PICK s \in Statuses : Sends(t, s) /\ Send(s)
      BY <2>2, LogSendMoves
    <3>2. core \in Up => s # "Off"
      BY <3>1 DEF FailedRun, Up
    <3>3. s # "Connected"
      BY <3>1 DEF NoDeviceYet
    <3>4. s = "Ready" /\ worker \in Polling => ~mapped
      BY <3>1 DEF NoDeviceYet, PinLine, Open
    <3>5. Sent' = s
      BY <1>0, <3>1, SendStatus DEF Sent
    <3> QED BY <2>0, <3>1, <3>2, <3>3, <3>4, <3>5 DEF Statuses
  <2> QED BY <1>4, <2>1, <2>2 DEF Callback
<1>5. CASE Environment /\ UNCHANGED trayOwn
  <2>1. UNCHANGED <<worker, mapped, statusQ>>
    BY <1>5, EnvironmentFrame
  <2>2. core' \in Up => core \in Up
    BY <1>5 DEF Environment, CoreServes, UserCloses, LogLine, Logs, Up
  <2> QED BY <1>5, <2>1, <2>2 DEF Sent, LastStatus
<1>6. CASE UNCHANGED appVars
  BY <1>6 DEF appVars, vars, window, Sent, LastStatus
<1> QED BY <1>1, <1>2, <1>3, <1>4, <1>5, <1>6 DEF AppNext, EngineNext, CallbackSteps

(* -- The invariant for one logging thread, and what it settles.           *)

DeviceIInv == AppIInv /\ NoDeviceYet /\ StatusFollowsWindow

LEMMA DeviceIInvInit == AppInit => DeviceIInv
<1> SUFFICES ASSUME AppInit PROVE DeviceIInv
  OBVIOUS
<1>1. worker = "none" /\ \A t \in LogThreads : log[t] = Idle
  BY DEF AppInit, EngineInit
<1>2. NoDeviceYet /\ StatusFollowsWindow
  BY <1>1, IdleIsQuiet DEF NoDeviceYet, StatusFollowsWindow, Open, Polling
<1> QED BY <1>2, AppIInvInit DEF DeviceIInv

(* While the engine is up, the last status sent says what the loop last    *)
(* did to the window, and nothing says Connected before a device is there. *)
THEOREM DeviceInvariantHolds ==
  FailuresAreReported /\ OneLogger => (AppSpec => []DeviceIInv)
<1> SUFFICES ASSUME FailuresAreReported, OneLogger PROVE AppSpec => []DeviceIInv
  OBVIOUS
<1>1. DeviceIInv /\ [AppNext]_appVars => DeviceIInv'
  BY AppIInvStep, NoDeviceYetStep, StatusFollowsStep DEF DeviceIInv, AppIInv
<1> QED BY <1>1, DeviceIInvInit, PTL DEF AppSpec

LEMMA SettledDevice ==
  ASSUME DeviceIInv, Settled
  PROVE  /\ worker = "none" => current_status = "Off" /\ ~mapped
         /\ worker = "poll" =>
              mapped = CONNECTED /\ current_status = IF mapped THEN "Connected" ELSE "Ready"
<1>0. /\ IInv /\ FailedRun /\ FailureKnown /\ QueueEndsOff /\ Unmapped /\ StatusFollowsWindow
      /\ task = "idle" /\ statusQ = <<>> /\ \A t \in LogThreads : log[t] = Idle
  BY SettledFacts DEF DeviceIInv, AppIInv
<1>1. ASSUME worker = "none" PROVE current_status = "Off" /\ ~mapped
  <2>1. ~display
    BY <1>0, <1>1 DEF IInv, DisplayFollowsWorker, WithDisplay, WithCore, InCore, Polling
  <2> QED BY <1>0, <1>1, <2>1 DEF QueueEndsOff, Unmapped
<1>2. ASSUME worker = "poll"
      PROVE  mapped = CONNECTED /\ current_status = IF mapped THEN "Connected" ELSE "Ready"
  <2>1. ~failed
    BY <1>0, <1>2, IdleIsQuiet, NoOff DEF FailureKnown, Starting
  <2>2. core \in Up
    BY <1>0, <1>2, <2>1, IdleIsQuiet DEF FailedRun, Polling
  <2>3. mapped = CONNECTED
    <3>1. last_gen = CONN_GEN /\ NoBump
      BY <1>0, <1>2, SettledFacts, LogPlaces DEF NoBump
    <3> QED BY <1>0, <1>2, <3>1 DEF IInv, WindowIsNewest
  <2> QED BY <1>0, <1>2, <2>2, <2>3 DEF StatusFollowsWindow, Sent, Polling
<1> QED BY <1>1, <1>2

(* Once everything in flight has arrived the tray shows the engine as it   *)
(* is, its menu says the same, and the window is on screen exactly while   *)
(* the tray says Connected.                                                *)
THEOREM SettlesHolds == FailuresAreReported /\ OneLogger => (AppSpec => []Settles)
<1> SUFFICES ASSUME FailuresAreReported, OneLogger PROVE AppSpec => []Settles
  OBVIOUS
<1>1. DeviceIInv => StatusSettles /\ Lockstep
  <2> SUFFICES ASSUME DeviceIInv, Settled
               PROVE  current_status = EngineStatus /\ (mapped <=> current_status = "Connected")
    BY DEF StatusSettles, Lockstep
  <2>1. worker \in {"none", "poll"} /\ {mapped, CONNECTED} \subseteq BOOLEAN
    BY SettledFacts, WorkerFacts DEF DeviceIInv, AppIInv
  <2> QED BY <2>1, SettledDevice DEF EngineStatus
<1> QED BY <1>1, DeviceInvariantHolds, MenuSettlesHolds, PTL DEF Settles
=============================================================================
