-------------------------- MODULE UpdateUnixProofs --------------------------
(***************************************************************************)
(* Theorems about UpdateUnix, for any number of install threads, clicks    *)
(* and files.  What becomes of the disk is proved for one tray, for        *)
(* roll-backs that succeed, and for delta tools that are gone before the   *)
(* next install begins, none of which the code guarantees: TwoTrays.cfg,   *)
(* RollbackFails.cfg and OrphanTool.cfg show what happens otherwise.       *)
(***************************************************************************)
EXTENDS UpdateUnix, TLAPS

OneTray == \A p, q \in Trays : p = q

USE DEF flow

----------------------------------------------------------------------------
(* The flow, whatever an install does between its start and its end.       *)

Resting == {"idle", "report ok", "report err"}

(* A thread lives in a process that does.                                  *)
ThreadsLive == \A i \in Installers : thread[i] # "idle" => Alive(owner[i])

FlowInv(places) ==
  FlowTypeOK(places) /\ OneInstall /\ LatchMatchesInstall /\ ThreadsLive

LEMMA FlowInitInv ==
  ASSUME NEW places, FlowInit
  PROVE  FlowInv(places)
<1>1. FlowTypeOK(places)
  BY ConstantsAssumption DEF FlowInit, FlowTypeOK, TrayStates
<1>2. \A i \in Installers : thread[i] = "idle"
  BY DEF FlowInit
<1> QED BY <1>1, <1>2
        DEF FlowInv, FlowInit, OneInstall, LatchMatchesInstall, ThreadsLive, Working

(* Events and check threads come and go without the installs.              *)
LEMMA EventTypes ==
  ASSUME NEW p \in Trays, events \in [Trays -> Seq(Events)], checks \in [Trays -> Nat]
  PROVE  /\ \A e \in Events : [events EXCEPT ![p] = Append(@, e)] \in [Trays -> Seq(Events)]
         /\ events[p] # <<>> => [events EXCEPT ![p] = Tail(@)] \in [Trays -> Seq(Events)]
         /\ [events EXCEPT ![p] = <<>>] \in [Trays -> Seq(Events)]
         /\ [checks EXCEPT ![p] = @ + 1] \in [Trays -> Nat]
         /\ checks[p] > 0 => [checks EXCEPT ![p] = @ - 1] \in [Trays -> Nat]
<1>1. events[p] \in Seq(Events) /\ checks[p] \in Nat
  OBVIOUS
<1>2. \A e \in Events : Append(events[p], e) \in Seq(Events)
  BY <1>1
<1>3. events[p] # <<>> => Tail(events[p]) \in Seq(Events)
  BY <1>1
<1>4. <<>> \in Seq(Events)
  OBVIOUS
<1> QED BY <1>1, <1>2, <1>3, <1>4

LEMMA OneMore == \A n \in Nat : n + 1 \in Nat
OBVIOUS

(* What a step of the event loop, or of the user, leaves of the types.      *)
LEMMA TrayTypes ==
  ASSUME NEW places, FlowTypeOK(places), NEW p \in Trays,
         Checked(p) \/ Handle(p) \/ Click(p) \/ Quit(p) \/ Launch(p)
  PROVE  /\ tray' \in [Trays -> TrayStates] /\ checks' \in [Trays -> Nat]
         /\ events' \in [Trays -> Seq(Events)] /\ clicks' \in Nat
         /\ \A q \in Trays : Alive(q) => Alive(q)'
<1> USE DEF FlowTypeOK, TrayStates, Alive
<1>0. /\ tray \in [Trays -> TrayStates] /\ checks \in [Trays -> Nat]
      /\ events \in [Trays -> Seq(Events)] /\ clicks \in Nat
  OBVIOUS
<1>1. CASE Checked(p)
  <2>1. checks' \in [Trays -> Nat]
    BY <1>0, <1>1, EventTypes DEF Checked
  <2>2. events' \in [Trays -> Seq(Events)]
    <3>1. PICK e \in {"available", "nothing"} : Post(p, e)
      BY <1>1 DEF Checked
    <3>2. e \in Events
      BY DEF Events
    <3> QED BY <1>0, <3>1, <3>2, EventTypes DEF Post
  <2> QED BY <1>0, <1>1, <2>1, <2>2 DEF Checked
<1>2. CASE Handle(p)
  <2>1. events' \in [Trays -> Seq(Events)]
    BY <1>0, <1>2, EventTypes DEF Handle
  <2>2. tray' \in [Trays -> TrayStates] /\ \A q \in Trays : Alive(q) => Alive(q)'
    BY <1>0, <1>2 DEF Handle
  <2> QED BY <1>0, <1>2, <2>1, <2>2 DEF Handle
<1>3. CASE Click(p)
  <2>1. checks' \in [Trays -> Nat]
    BY <1>0, <1>3, EventTypes DEF Click
  <2>2. clicks' \in Nat
    <3>1. clicks' = clicks + 1
      BY <1>3 DEF Click
    <3>2. clicks \in Nat
      BY <1>0
    <3> QED BY <3>1, <3>2, OneMore
  <2> QED BY <1>0, <1>3, <2>1, <2>2 DEF Click
<1>4. CASE Quit(p)
  BY <1>0, <1>4 DEF Quit
<1>5. CASE Launch(p)
  BY <1>0, <1>5 DEF Launch
<1> QED BY <1>1, <1>2, <1>3, <1>4, <1>5

(* Steps that leave the installs and the latch alone.                      *)
LEMMA FlowKept ==
  ASSUME NEW places, FlowInv(places), UNCHANGED <<IN_FLIGHT, thread, owner>>,
         tray' \in [Trays -> TrayStates], checks' \in [Trays -> Nat],
         events' \in [Trays -> Seq(Events)], clicks' \in Nat,
         \A q \in Trays : Alive(q) => Alive(q)'
  PROVE  FlowInv(places)'
<1>1. FlowTypeOK(places)'
  BY DEF FlowInv, FlowTypeOK
<1>2. \A i \in Installers : Working(i)' <=> Working(i)
  BY DEF Working
<1>3. OneInstall'
  BY <1>2 DEF FlowInv, OneInstall
<1>4. LatchMatchesInstall'
  BY <1>2 DEF FlowInv, LatchMatchesInstall
<1>5. ThreadsLive'
  BY DEF FlowInv, FlowTypeOK, ThreadsLive
<1> QED BY <1>1, <1>3, <1>4, <1>5 DEF FlowInv

(* An install begins where none runs: the latch of its tray says so.       *)
LEMMA InstallBegins ==
  ASSUME NEW places, FlowInv(places), NEW p \in Trays, NEW i \in Installers,
         tray' \in [Trays -> TrayStates], checks' \in [Trays -> Nat],
         events' \in [Trays -> Seq(Events)], clicks' \in Nat,
         \A q \in Trays : Alive(q) => Alive(q)',
         Alive(p), ~IN_FLIGHT[p], thread[i] = "idle",
         IN_FLIGHT' = [IN_FLIGHT EXCEPT ![p] = TRUE],
         Goto(i, "start"), owner' = [owner EXCEPT ![i] = p]
  PROVE  FlowInv(places)'
<1>0. /\ IN_FLIGHT \in [Trays -> BOOLEAN] /\ owner \in [Installers -> Trays]
      /\ thread \in [Installers -> places \cup {"idle", "start", "ok", "err", "report ok", "report err"}]
  BY DEF FlowInv, FlowTypeOK
<1>1. FlowTypeOK(places)'
  BY <1>0 DEF Goto, FlowTypeOK
<1>2. /\ thread'[i] = "start" /\ owner'[i] = p /\ IN_FLIGHT'[p]
      /\ \A j \in Installers : j # i => thread'[j] = thread[j] /\ owner'[j] = owner[j]
      /\ \A q \in Trays : q # p => IN_FLIGHT'[q] = IN_FLIGHT[q]
  BY <1>0 DEF Goto
<1>3. /\ \A j \in Installers : j # i => (Working(j)' <=> Working(j))
      /\ Working(i)' /\ ~Working(i)
  BY <1>2 DEF Working
<1>4. \A j \in Installers : Working(j) => owner[j] # p
  BY DEF FlowInv, LatchMatchesInstall
<1>5. OneInstall'
  BY <1>2, <1>3, <1>4 DEF FlowInv, OneInstall
<1>6. LatchMatchesInstall'
  <2>1. \A q \in Trays : q # p =>
          ((\E j \in Installers : Working(j)' /\ owner'[j] = q)
             <=> \E j \in Installers : Working(j) /\ owner[j] = q)
    BY <1>2, <1>3
  <2>2. ASSUME NEW q \in Trays, q # p
        PROVE  IN_FLIGHT'[q] <=> \E j \in Installers : Working(j)' /\ owner'[j] = q
    <3>1. IN_FLIGHT[q] <=> \E j \in Installers : Working(j) /\ owner[j] = q
      BY DEF FlowInv, LatchMatchesInstall
    <3> QED BY <1>2, <2>1, <2>2, <3>1
  <2>3. IN_FLIGHT'[p] /\ \E j \in Installers : Working(j)' /\ owner'[j] = p
    BY <1>2, <1>3
  <2> QED BY <2>2, <2>3 DEF LatchMatchesInstall
<1>7. ThreadsLive'
  BY <1>0, <1>2 DEF FlowInv, ThreadsLive
<1> QED BY <1>1, <1>5, <1>6, <1>7 DEF FlowInv

LEMMA TrayStep ==
  ASSUME NEW places, FlowInv(places), NEW p \in Trays,
         Checked(p) \/ Handle(p) \/ Click(p) \/ Quit(p) \/ Launch(p)
  PROVE  FlowInv(places)'
<1>1. /\ tray' \in [Trays -> TrayStates] /\ checks' \in [Trays -> Nat]
      /\ events' \in [Trays -> Seq(Events)] /\ clicks' \in Nat
      /\ \A q \in Trays : Alive(q) => Alive(q)'
  BY TrayTypes DEF FlowInv
<1>2. CASE UNCHANGED <<IN_FLIGHT, thread, owner>>
  BY <1>1, <1>2, FlowKept
<1>3. CASE Handle(p) /\ spawn_update_apply(p) /\ ~IN_FLIGHT[p]
  <2>1. PICK i \in Installers : /\ thread[i] = "idle"
                                /\ IN_FLIGHT' = [IN_FLIGHT EXCEPT ![p] = TRUE]
                                /\ Goto(i, "start")
                                /\ owner' = [owner EXCEPT ![i] = p]
    BY <1>3 DEF spawn_update_apply
  <2>2. Alive(p)
    BY <1>3 DEF Handle, Alive
  <2> QED BY <1>1, <1>3, <2>1, <2>2, InstallBegins
<1> QED BY <1>2, <1>3 DEF Checked, Handle, Click, Quit, Launch, spawn_update_apply

LEMMA EndStep ==
  ASSUME NEW places, FlowInv(places), NEW p \in Trays, End(p)
  PROVE  FlowInv(places)'
<1>0. /\ tray \in [Trays -> TrayStates] /\ checks \in [Trays -> Nat]
      /\ events \in [Trays -> Seq(Events)] /\ clicks \in Nat
      /\ IN_FLIGHT \in [Trays -> BOOLEAN] /\ owner \in [Installers -> Trays]
      /\ thread \in [Installers -> places \cup {"idle", "start", "ok", "err", "report ok", "report err"}]
  BY DEF FlowInv, FlowTypeOK
<1>1. FlowTypeOK(places)'
  <2>1. events' \in [Trays -> Seq(Events)]
    BY <1>0, EventTypes DEF End
  <2>2. thread' \in [Installers -> places \cup {"idle", "start", "ok", "err", "report ok", "report err"}]
    BY <1>0 DEF End
  <2>3. tray' \in [Trays -> TrayStates] /\ checks' \in [Trays -> Nat]
    BY <1>0 DEF End, TrayStates
  <2>4. IN_FLIGHT' \in [Trays -> BOOLEAN] /\ owner' \in [Installers -> Trays] /\ clicks' \in Nat
    BY <1>0 DEF End
  <2> QED BY <2>1, <2>2, <2>3, <2>4 DEF FlowTypeOK
<1>2. /\ \A i \in Installers : thread'[i] = IF owner[i] = p THEN "idle" ELSE thread[i]
      /\ owner' = owner /\ ~IN_FLIGHT'[p]
      /\ \A q \in Trays : q # p => IN_FLIGHT'[q] = IN_FLIGHT[q] /\ tray'[q] = tray[q]
  BY <1>0 DEF End
<1>3. \A i \in Installers : Working(i)' <=> Working(i) /\ owner[i] # p
  BY <1>2 DEF Working
<1>4. OneInstall'
  BY <1>2, <1>3 DEF FlowInv, OneInstall
<1>5. LatchMatchesInstall'
  <2>1. \A q \in Trays : q # p =>
          ((\E j \in Installers : Working(j)' /\ owner'[j] = q)
             <=> \E j \in Installers : Working(j) /\ owner[j] = q)
    BY <1>2, <1>3
  <2>2. ASSUME NEW q \in Trays, q # p
        PROVE  IN_FLIGHT'[q] <=> \E j \in Installers : Working(j)' /\ owner'[j] = q
    <3>1. IN_FLIGHT[q] <=> \E j \in Installers : Working(j) /\ owner[j] = q
      BY DEF FlowInv, LatchMatchesInstall
    <3> QED BY <1>2, <2>1, <2>2, <3>1
  <2>3. ~IN_FLIGHT'[p] /\ ~\E j \in Installers : Working(j)' /\ owner'[j] = p
    BY <1>2, <1>3
  <2> QED BY <2>2, <2>3 DEF LatchMatchesInstall
<1>6. ThreadsLive'
  BY <1>0, <1>2 DEF FlowInv, ThreadsLive, Alive
<1> QED BY <1>1, <1>4, <1>5, <1>6 DEF FlowInv

(* Steps of the thread of an install that runs, and goes on.               *)
LEMMA InstallGoesOn ==
  ASSUME NEW places, places \cap Resting = {}, FlowInv(places), NEW i \in Installers,
         NEW to \in places \cup {"ok", "err"}, Working(i), Goto(i, to),
         UNCHANGED <<tray, checks, events, IN_FLIGHT, owner, clicks>>
  PROVE  FlowInv(places)'
<1>0. thread \in [Installers -> places \cup {"idle", "start", "ok", "err", "report ok", "report err"}]
  BY DEF FlowInv, FlowTypeOK
<1>1. FlowTypeOK(places)'
  BY <1>0 DEF FlowInv, FlowTypeOK, Goto
<1>2. /\ thread'[i] = to
      /\ \A j \in Installers : j # i => thread'[j] = thread[j]
  BY <1>0 DEF Goto
<1>3. \A j \in Installers : Working(j)' <=> Working(j)
  BY <1>2 DEF Working, Resting
<1>4. OneInstall'
  BY <1>3 DEF FlowInv, OneInstall
<1>5. LatchMatchesInstall'
  BY <1>3 DEF FlowInv, LatchMatchesInstall
<1>6. ThreadsLive'
  BY <1>2 DEF FlowInv, ThreadsLive, Alive, Working
<1> QED BY <1>1, <1>4, <1>5, <1>6 DEF FlowInv

LEMMA ReleaseStep ==
  ASSUME NEW places, FlowInv(places), NEW i \in Installers, Release(i)
  PROVE  FlowInv(places)'
<1>0. /\ IN_FLIGHT \in [Trays -> BOOLEAN] /\ owner \in [Installers -> Trays]
      /\ thread \in [Installers -> places \cup {"idle", "start", "ok", "err", "report ok", "report err"}]
  BY DEF FlowInv, FlowTypeOK
<1>1. FlowTypeOK(places)'
  BY <1>0 DEF FlowInv, FlowTypeOK, Release, Goto
<1>2. /\ thread[i] \in {"ok", "err"} /\ thread'[i] \in {"report ok", "report err"}
      /\ \A j \in Installers : j # i => thread'[j] = thread[j]
      /\ UNCHANGED <<owner, tray>> /\ ~IN_FLIGHT'[owner[i]]
      /\ \A q \in Trays : q # owner[i] => IN_FLIGHT'[q] = IN_FLIGHT[q]
  BY <1>0 DEF Release, Goto
<1>3. \A j \in Installers : Working(j)' <=> Working(j) /\ j # i
  BY <1>2 DEF Working
<1>4. Working(i)
  BY <1>2 DEF Working
<1>5. OneInstall'
  BY <1>2, <1>3 DEF FlowInv, OneInstall
<1>6. LatchMatchesInstall'
  <2>1. \A q \in Trays : q # owner[i] =>
          ((\E j \in Installers : Working(j)' /\ owner'[j] = q)
             <=> \E j \in Installers : Working(j) /\ owner[j] = q)
    BY <1>2, <1>3
  <2>2. ASSUME NEW q \in Trays, q # owner[i]
        PROVE  IN_FLIGHT'[q] <=> \E j \in Installers : Working(j)' /\ owner'[j] = q
    <3>1. IN_FLIGHT[q] <=> \E j \in Installers : Working(j) /\ owner[j] = q
      BY DEF FlowInv, LatchMatchesInstall
    <3> QED BY <1>2, <2>1, <2>2, <3>1
  <2>3. ~\E j \in Installers : Working(j)' /\ owner'[j] = owner[i]
    BY <1>2, <1>3, <1>4 DEF FlowInv, OneInstall
  <2> QED BY <1>2, <2>2, <2>3 DEF LatchMatchesInstall
<1>7. ThreadsLive'
  BY <1>2 DEF FlowInv, ThreadsLive, Alive
<1> QED BY <1>1, <1>5, <1>6, <1>7 DEF FlowInv

LEMMA ReportStep ==
  ASSUME NEW places, FlowInv(places), NEW i \in Installers, Report(i)
  PROVE  FlowInv(places)'
<1>0. /\ events \in [Trays -> Seq(Events)] /\ owner \in [Installers -> Trays]
      /\ checks \in [Trays -> Nat]
      /\ thread \in [Installers -> places \cup {"idle", "start", "ok", "err", "report ok", "report err"}]
  BY DEF FlowInv, FlowTypeOK
<1>1. events' \in [Trays -> Seq(Events)]
  <2>1. owner[i] \in Trays /\ {"installed", "failed"} \subseteq Events
    BY <1>0 DEF Events
  <2> QED BY <1>0, <2>1, EventTypes DEF Report, Post
<1>2. thread' \in [Installers -> places \cup {"idle", "start", "ok", "err", "report ok", "report err"}]
  BY <1>0 DEF Report, Goto
<1>3. FlowTypeOK(places)'
  BY <1>1, <1>2 DEF FlowInv, FlowTypeOK, Report
<1>4. /\ thread[i] \in {"report ok", "report err"} /\ thread'[i] = "idle"
      /\ \A j \in Installers : j # i => thread'[j] = thread[j]
      /\ UNCHANGED <<owner, tray, IN_FLIGHT>>
  BY <1>0 DEF Report, Goto
<1>5. \A j \in Installers : Working(j)' <=> Working(j)
  BY <1>4 DEF Working
<1>6. OneInstall'
  BY <1>4, <1>5 DEF FlowInv, OneInstall
<1>7. LatchMatchesInstall'
  BY <1>4, <1>5 DEF FlowInv, LatchMatchesInstall
<1>8. ThreadsLive'
  BY <1>4 DEF FlowInv, ThreadsLive, Alive
<1> QED BY <1>3, <1>6, <1>7, <1>8 DEF FlowInv

(* With one tray there is one install, in a tray that is alive.            *)
LEMMA Alone ==
  ASSUME NEW places, OneTray, FlowInv(places), NEW i \in Installers, Working(i)
  PROVE  /\ \A j \in Installers : j # i => ~Working(j)
         /\ \A p \in Trays : tray[p] # "down"
<1>1. \A j \in Installers : owner[j] \in Trays
  BY DEF FlowInv, FlowTypeOK
<1>2. \A j \in Installers : Working(j) => j = i
  BY <1>1 DEF OneTray, FlowInv, OneInstall
<1>3. tray[owner[i]] # "down"
  BY DEF FlowInv, ThreadsLive, Alive, Working
<1> QED BY <1>1, <1>2, <1>3 DEF OneTray

----------------------------------------------------------------------------
(* macOS *)

(* Without a bundle the build is aside, and the thread that moved it there *)
(* is about to put one back - or its tray has ended, and none can start.   *)
Swapping ==
  bundle = "none" =>
    /\ old \in {"old", "new"}
    /\ \/ \E i \in Installers : thread[i] \in {"in", "back"}
       \/ \A p \in Trays : tray[p] = "down"

MacDisk ==
  /\ bundle \in {"old", "new", "none"} /\ old \in Mac!Trees /\ staging \in Mac!Trees
  /\ Swapping
  /\ \A i \in Installers : thread[i] \in {"clear", "aside", "in"} => staging = "new"
  /\ \A i \in Installers : thread[i] \in {"in", "back"} => bundle = "none"

MacInv == FlowInv(Mac!Places) /\ MacDisk

(* The steps of the flow are the same in UpdateMac as in UpdateFlow.       *)
LEMMA MacFlow ==
  /\ Mac!FlowInit => FlowInit
  /\ \A p \in Trays :
       /\ Mac!Checked(p) => Checked(p)
       /\ Mac!Handle(p) => Handle(p)
       /\ Mac!Click(p) => Click(p)
       /\ Mac!Quit(p) => Quit(p)
       /\ Mac!Launch(p) => Launch(p)
       /\ Mac!Crash(p) \/ Mac!ExitQuit(p) \/ Mac!ExitRelaunch(p) => End(p)
  /\ \A i \in Installers :
       /\ Mac!Release(i) => Release(i)
       /\ Mac!Report(i) => Report(i)
<1>1. Mac!FlowInit => FlowInit
  BY DEF Mac!FlowInit, FlowInit
<1>2. ASSUME NEW p \in Trays
      PROVE  /\ Mac!Checked(p) => Checked(p)
             /\ Mac!Click(p) => Click(p)
             /\ Mac!Quit(p) => Quit(p)
             /\ Mac!Launch(p) => Launch(p)
  BY DEF Mac!Checked, Mac!Alive, Mac!Post, Mac!Click, Mac!Quit, Mac!Launch,
         Checked, Alive, Post, Click, Quit, Launch
<1>3. ASSUME NEW p \in Trays PROVE Mac!Handle(p) => Handle(p)
  BY DEF Mac!Handle, Mac!spawn_update_apply, Mac!Goto, Handle, spawn_update_apply, Goto
<1>4. ASSUME NEW p \in Trays
      PROVE  Mac!Crash(p) \/ Mac!ExitQuit(p) \/ Mac!ExitRelaunch(p) => End(p)
  BY DEF Mac!Crash, Mac!ExitQuit, Mac!ExitRelaunch, Mac!End, End
<1>5. ASSUME NEW i \in Installers
      PROVE  (Mac!Release(i) => Release(i)) /\ (Mac!Report(i) => Report(i))
  BY DEF Mac!Release, Mac!Report, Mac!Goto, Mac!Post, Release, Report, Goto, Post
<1> QED BY <1>1, <1>2, <1>3, <1>4, <1>5

(* A step of an install moves its thread, and nothing else of the flow.    *)
LEMMA MacStepFlow ==
  ASSUME OneTray, MacInv, NEW i \in Installers,
         NEW from \in Mac!Places \cup {"start"}, NEW to \in Mac!Places \cup {"ok", "err"},
         Mac!Step(i, from, to)
  PROVE  /\ FlowInv(Mac!Places)'
         /\ thread[i] = from /\ thread'[i] = to
         /\ \A j \in Installers : j # i => ~Working(j) /\ thread'[j] = thread[j]
         /\ bundle = "none" => thread[i] \in {"in", "back"}
         /\ \A p \in Trays : tray[p] # "down"
         /\ tray' = tray
<1>1. /\ thread[i] = from /\ Goto(i, to)
      /\ UNCHANGED <<tray, checks, events, IN_FLIGHT, owner, clicks>>
  BY DEF Mac!Step, Mac!Goto, Goto
<1>2. Working(i)
  BY <1>1 DEF Working, Mac!Places
<1>3. FlowInv(Mac!Places)'
  <2>1. Mac!Places \cap Resting = {}
    BY DEF Mac!Places, Resting
  <2> QED BY <1>1, <1>2, <2>1, InstallGoesOn DEF MacInv
<1>4. /\ \A j \in Installers : j # i => ~Working(j)
      /\ \A p \in Trays : tray[p] # "down"
  BY <1>2, Alone DEF MacInv
<1>5. thread'[i] = to /\ \A j \in Installers : j # i => thread'[j] = thread[j]
  BY <1>1 DEF Goto, MacInv, FlowInv, FlowTypeOK
<1>6. bundle = "none" => thread[i] \in {"in", "back"}
  <2>1. \E p \in Trays : TRUE
    BY ConstantsAssumption
  <2> QED BY <1>4, <2>1 DEF MacInv, MacDisk, Swapping, Working
<1> QED BY <1>1, <1>3, <1>4, <1>5, <1>6

(* Whatever leaves the disk and the threads at work alone.                 *)
LEMMA MacDiskKept ==
  ASSUME MacDisk, UNCHANGED macDisk,
         \A i \in Installers : \/ thread'[i] = thread[i]
                               \/ thread[i] \notin Mac!Places /\ thread'[i] \notin Mac!Places,
         bundle = "none" /\ (\A p \in Trays : tray[p] = "down")
           => \A p \in Trays : tray'[p] = "down"
  PROVE  MacDisk'
BY DEF MacDisk, Swapping, macDisk, Mac!Places

LEMMA MacApply ==
  ASSUME OneTray, "back" \notin Faults, MacInv, NEW i \in Installers, Mac!apply(i)
  PROVE  MacInv' /\ (Mac!Build' = Mac!Build \/ Mac!Build' = "new")
<1> DEFINE Moved(from, to) ==
      /\ FlowInv(Mac!Places)'
      /\ thread[i] = from /\ thread'[i] = to
      /\ \A j \in Installers : j # i => ~Working(j) /\ thread'[j] = thread[j]
      /\ bundle = "none" => thread[i] \in {"in", "back"}
      /\ \A p \in Trays : tray[p] # "down"
      /\ tray' = tray
<1>0. \A from \in Mac!Places \cup {"start"}, to \in Mac!Places \cup {"ok", "err"} :
        Mac!Step(i, from, to) => Moved(from, to)
  BY MacStepFlow
<1> HIDE DEF Moved
<1> USE DEF Mac!Places, Mac!Trees, Mac!Left
<1>a. /\ bundle \in {"old", "new", "none"} /\ old \in Mac!Trees /\ staging \in Mac!Trees
      /\ bundle = "none" => old \in {"old", "new"}
  BY DEF MacInv, MacDisk, Swapping
<1>1. CASE Mac!Fetch(i)
  <2>1. \E to \in {"stage", "err"} : Moved("start", to)
    BY <1>0, <1>1 DEF Mac!Fetch
  <2>2. UNCHANGED <<bundle, old, staging>>
    BY <1>1 DEF Mac!Fetch, Mac!disk
  <2> QED BY <1>a, <2>1, <2>2
          DEF Moved, MacInv, MacDisk, Swapping, Working, Mac!Build, Mac!Installed
<1>2. CASE Mac!Stage(i)
  <2>1. \E to \in {"unzip", "err"} : Moved("stage", to)
    BY <1>0, <1>2 DEF Mac!Stage
  <2>2. staging' \in Mac!Trees /\ UNCHANGED <<bundle, old>>
    BY <1>2, <1>a DEF Mac!Stage
  <2> QED BY <1>a, <2>1, <2>2
          DEF Moved, MacInv, MacDisk, Swapping, Working, Mac!Build, Mac!Installed
<1>3. CASE Mac!Unzip(i)
  <2>1. \E to \in {"clear", "err"} : Moved("unzip", to) /\ (to = "clear" => staging' = "new")
    BY <1>0, <1>3 DEF Mac!Unzip
  <2>2. staging' \in Mac!Trees /\ UNCHANGED <<bundle, old>>
    BY <1>3 DEF Mac!Unzip
  <2> QED BY <1>a, <2>1, <2>2
          DEF Moved, MacInv, MacDisk, Swapping, Working, Mac!Build, Mac!Installed
<1>4. CASE Mac!ClearOld(i)
  <2>1. Moved("clear", "aside")
    BY <1>0, <1>4 DEF Mac!ClearOld
  <2>2. old' \in Mac!Trees /\ UNCHANGED <<bundle, staging>>
    BY <1>4, <1>a DEF Mac!ClearOld
  <2> QED BY <1>a, <2>1, <2>2
          DEF Moved, MacInv, MacDisk, Swapping, Working, Mac!Build, Mac!Installed
<1>5. CASE Mac!MoveAside(i)
  <2>1. CASE Mac!Step(i, "aside", "in")
    <3>1. Moved("aside", "in")
      BY <1>0, <2>1
    <3>2. old' = bundle /\ bundle' = "none" /\ bundle # "none" /\ staging' = staging
      BY <1>5, <3>1, <1>0 DEF Mac!MoveAside, Moved
    <3> QED BY <1>a, <3>1, <3>2
            DEF Moved, MacInv, MacDisk, Swapping, Working, Mac!Build, Mac!Installed
  <2>2. CASE Mac!Step(i, "aside", "err")
    <3>1. Moved("aside", "err")
      BY <1>0, <2>2
    <3>2. UNCHANGED <<bundle, old, staging>>
      BY <1>5, <3>1, <1>0 DEF Mac!MoveAside, Moved
    <3> QED BY <1>a, <3>1, <3>2
            DEF Moved, MacInv, MacDisk, Swapping, Working, Mac!Build, Mac!Installed
  <2> QED BY <1>5, <2>1, <2>2 DEF Mac!MoveAside
<1>6. CASE Mac!MoveIn(i)
  <2>1. CASE Mac!Step(i, "in", "tidy")
    <3>1. Moved("in", "tidy")
      BY <1>0, <2>1
    <3>2. staging = "new"
      BY <3>1 DEF Moved, MacInv, MacDisk
    <3>3. bundle' = staging /\ staging' = "none" /\ old' = old
      BY <1>6, <3>1, <1>0 DEF Mac!MoveIn, Moved
    <3> QED BY <1>a, <3>1, <3>2, <3>3
            DEF Moved, MacInv, MacDisk, Swapping, Working, Mac!Build, Mac!Installed
  <2>2. CASE Mac!Step(i, "in", "back")
    <3>1. Moved("in", "back")
      BY <1>0, <2>2
    <3>2. UNCHANGED <<bundle, old, staging>>
      BY <1>6, <3>1, <1>0 DEF Mac!MoveIn, Moved
    <3>3. bundle = "none"
      BY <3>1 DEF Moved, MacInv, MacDisk
    <3> QED BY <1>a, <3>1, <3>2, <3>3
            DEF Moved, MacInv, MacDisk, Swapping, Working, Mac!Build, Mac!Installed
  <2> QED BY <1>6, <2>1, <2>2 DEF Mac!MoveIn
<1>7. CASE Mac!RollBack(i)
  <2>1. Moved("back", "err")
    BY <1>0, <1>7 DEF Mac!RollBack
  <2>2. bundle = "none"
    BY <2>1 DEF Moved, MacInv, MacDisk
  <2>3. bundle' = old /\ old' = "none" /\ staging' \in Mac!Trees
    BY <1>7, <1>a, <2>2 DEF Mac!RollBack
  <2> QED BY <1>a, <2>1, <2>2, <2>3
          DEF Moved, MacInv, MacDisk, Swapping, Working, Mac!Build, Mac!Installed
<1>8. CASE Mac!Tidy(i)
  <2>1. Moved("tidy", "ok")
    BY <1>0, <1>8 DEF Mac!Tidy
  <2>2. old' \in Mac!Trees /\ staging' \in Mac!Trees /\ bundle' = bundle
    BY <1>8, <1>a DEF Mac!Tidy
  <2> QED BY <1>a, <2>1, <2>2
          DEF Moved, MacInv, MacDisk, Swapping, Working, Mac!Build, Mac!Installed
<1> QED BY <1>1, <1>2, <1>3, <1>4, <1>5, <1>6, <1>7, <1>8 DEF Mac!apply

LEMMA MacNext ==
  ASSUME OneTray, "back" \notin Faults, MacInv, Mac!Next
  PROVE  MacInv' /\ (Mac!Build' = Mac!Build \/ Mac!Build' = "new")
<1>1. ASSUME UNCHANGED macDisk PROVE Mac!Build' = Mac!Build
  BY <1>1 DEF macDisk, Mac!Build, Mac!Installed
<1>2. ASSUME NEW p \in Trays, UNCHANGED macDisk,
             Checked(p) \/ Handle(p) \/ Click(p) \/ Quit(p)
                        \/ (Launch(p) /\ bundle \in {"old", "new"})
      PROVE  MacInv'
  <2>1. FlowInv(Mac!Places)'
    BY <1>2, TrayStep DEF MacInv
  <2>2. \A i \in Installers : \/ thread'[i] = thread[i]
                              \/ thread[i] = "idle" /\ thread'[i] = "start"
    BY <1>2 DEF Checked, Handle, Click, Quit, Launch, spawn_update_apply, Goto,
                MacInv, FlowInv, FlowTypeOK
  <2>3. bundle = "none" => tray[p] # "down"
    BY <1>2 DEF Checked, Handle, Click, Quit, Alive
  <2>4. \A i \in Installers : \/ thread'[i] = thread[i]
                              \/ thread[i] \notin Mac!Places /\ thread'[i] \notin Mac!Places
    BY <2>2 DEF Mac!Places
  <2> QED BY <1>2, <2>1, <2>3, <2>4, MacDiskKept DEF MacInv
<1>3. ASSUME NEW p \in Trays, UNCHANGED macDisk, End(p)
      PROVE  MacInv'
  <2>1. FlowInv(Mac!Places)'
    BY <1>3, EndStep DEF MacInv
  <2>2. /\ \A i \in Installers : thread'[i] = "idle"
        /\ \A q \in Trays : tray'[q] = "down"
    BY <1>3 DEF End, OneTray, MacInv, FlowInv, FlowTypeOK
  <2>3. MacDisk'
    BY <1>3, <2>2 DEF MacInv, MacDisk, Swapping, macDisk
  <2> QED BY <2>1, <2>3 DEF MacInv
<1>4. ASSUME NEW i \in Installers, UNCHANGED macDisk, Release(i) \/ Report(i)
      PROVE  MacInv'
  <2>1. FlowInv(Mac!Places)'
    BY <1>4, ReleaseStep, ReportStep DEF MacInv
  <2>2. /\ tray' = tray
        /\ \A j \in Installers : \/ thread'[j] = thread[j]
                                 \/ thread[j] \notin Mac!Places /\ thread'[j] \notin Mac!Places
    BY <1>4 DEF Release, Report, Goto, MacInv, FlowInv, FlowTypeOK, Mac!Places
  <2> QED BY <1>4, <2>1, <2>2, MacDiskKept DEF MacInv
<1>5. ASSUME NEW p \in Trays,
             \/ Mac!TrayLoop(p) \/ Mac!Start(p)
             \/ (Mac!Click(p) \/ Mac!Quit(p) \/ Mac!Crash(p)) /\ UNCHANGED Mac!disk
      PROVE  UNCHANGED macDisk /\ MacInv'
  <2>1. UNCHANGED macDisk
    BY <1>5 DEF Mac!TrayLoop, Mac!Start, Mac!disk, macDisk
  <2>2. \/ Checked(p) \/ Handle(p) \/ Click(p) \/ Quit(p)
        \/ Launch(p) /\ bundle \in {"old", "new"}
        \/ End(p)
    BY <1>5, MacFlow DEF Mac!TrayLoop, Mac!EventLoop, Mac!Start
  <2> QED BY <2>1, <2>2, <1>2, <1>3
<1>6. ASSUME NEW i \in Installers, Mac!InstallThread(i)
      PROVE  MacInv' /\ (Mac!Build' = Mac!Build \/ Mac!Build' = "new")
  <2>1. CASE Mac!apply(i)
    BY <2>1, MacApply
  <2>2. CASE (Mac!Release(i) \/ Mac!Report(i)) /\ UNCHANGED Mac!disk
    <3>1. UNCHANGED macDisk /\ (Release(i) \/ Report(i))
      BY <2>2, MacFlow DEF Mac!disk, macDisk
    <3> QED BY <3>1, <1>1, <1>4
  <2> QED BY <1>6, <2>1, <2>2 DEF Mac!InstallThread
<1> QED BY <1>1, <1>5, <1>6 DEF Mac!Next

----------------------------------------------------------------------------
(* Linux *)

(* What is being written is not the AppImage, and what is about to become  *)
(* the AppImage is the signed build.                                       *)
LinuxDisk ==
  /\ target \in Inodes /\ work \in Inodes \cup {0}
  /\ content \in [Inodes -> Linux!Contents]
  /\ fd \in [Installers -> Inodes \cup {0}]
  /\ content[target] \in {"old", "new"}
  /\ work # target
  /\ orphans \subseteq Inodes \ {target}
  /\ \A i \in Installers :
       /\ fd[i] # target
       /\ thread[i] \in {"seeding", "tool", "writing"} <=> fd[i] # 0
       /\ thread[i] \in Linux!Places => orphans = {}
       /\ thread[i] \in {"swap delta", "swap full"} => work # 0 /\ content[work] = "new"
       /\ thread[i] \in {"ok", "report ok"} => content[target] = "new"

LinuxInv == FlowInv(Linux!Places) /\ LinuxDisk

(* The steps of the flow are the same in UpdateLinux as in UpdateFlow.     *)
LEMMA LinuxFlow ==
  /\ Linux!FlowInit => FlowInit
  /\ \A p \in Trays :
       /\ Linux!Checked(p) => Checked(p)
       /\ Linux!Handle(p) => Handle(p)
       /\ Linux!Click(p) => Click(p)
       /\ Linux!Quit(p) => Quit(p)
       /\ Linux!Launch(p) => Launch(p)
       /\ Linux!Crash(p) \/ Linux!ExitQuit(p) \/ Linux!ExitRelaunch(p) => End(p)
  /\ \A i \in Installers :
       /\ Linux!Release(i) => Release(i)
       /\ Linux!Report(i) => Report(i)
<1>1. Linux!FlowInit => FlowInit
  BY DEF Linux!FlowInit, FlowInit
<1>2. ASSUME NEW p \in Trays
      PROVE  /\ Linux!Checked(p) => Checked(p)
             /\ Linux!Click(p) => Click(p)
             /\ Linux!Quit(p) => Quit(p)
             /\ Linux!Launch(p) => Launch(p)
  BY DEF Linux!Checked, Linux!Alive, Linux!Post, Linux!Click, Linux!Quit, Linux!Launch,
         Checked, Alive, Post, Click, Quit, Launch
<1>3. ASSUME NEW p \in Trays PROVE Linux!Handle(p) => Handle(p)
  BY DEF Linux!Handle, Linux!spawn_update_apply, Linux!Goto, Handle, spawn_update_apply, Goto
<1>4. ASSUME NEW p \in Trays
      PROVE  Linux!Crash(p) \/ Linux!ExitQuit(p) \/ Linux!ExitRelaunch(p) => End(p)
  BY DEF Linux!Crash, Linux!ExitQuit, Linux!ExitRelaunch, Linux!End, End
<1>5. ASSUME NEW i \in Installers
      PROVE  (Linux!Release(i) => Release(i)) /\ (Linux!Report(i) => Report(i))
  BY DEF Linux!Release, Linux!Report, Linux!Goto, Linux!Post, Release, Report, Goto, Post
<1> QED BY <1>1, <1>2, <1>3, <1>4, <1>5

LEMMA LinuxStepFlow ==
  ASSUME OneTray, LinuxInv, NEW i \in Installers,
         NEW from \in Linux!Places \cup {"start"}, NEW to \in Linux!Places \cup {"ok", "err"},
         Linux!Step(i, from, to)
  PROVE  /\ FlowInv(Linux!Places)'
         /\ thread[i] = from /\ thread'[i] = to
         /\ \A j \in Installers : j # i => ~Working(j) /\ thread'[j] = thread[j]
<1>1. /\ thread[i] = from /\ Goto(i, to)
      /\ UNCHANGED <<tray, checks, events, IN_FLIGHT, owner, clicks>>
  BY DEF Linux!Step, Linux!Goto, Goto
<1>2. Working(i)
  BY <1>1 DEF Working, Linux!Places
<1>3. FlowInv(Linux!Places)'
  <2>1. Linux!Places \cap Resting = {}
    BY DEF Linux!Places, Resting
  <2> QED BY <1>1, <1>2, <2>1, InstallGoesOn DEF LinuxInv
<1>4. \A j \in Installers : j # i => ~Working(j)
  BY <1>2, Alone DEF LinuxInv
<1>5. thread'[i] = to /\ \A j \in Installers : j # i => thread'[j] = thread[j]
  BY <1>1 DEF Goto, LinuxInv, FlowInv, FlowTypeOK
<1> QED BY <1>1, <1>3, <1>4, <1>5

LEMMA LinuxDiskKept ==
  ASSUME LinuxDisk, UNCHANGED linuxDisk,
         \A i \in Installers : \/ thread'[i] = thread[i]
                               \/ thread[i] \notin Linux!Places /\ thread'[i] \in {"start", "idle", "report err"}
                               \/ thread[i] = "ok" /\ thread'[i] = "report ok"
  PROVE  LinuxDisk'
<1>1. ASSUME NEW i \in Installers
      PROVE  /\ thread'[i] \in {"seeding", "tool", "writing"} <=> thread[i] \in {"seeding", "tool", "writing"}
             /\ thread'[i] \in Linux!Places => thread[i] \in Linux!Places
             /\ thread'[i] \in {"swap delta", "swap full"} => thread[i] \in {"swap delta", "swap full"}
             /\ thread'[i] \in {"ok", "report ok"} => thread[i] \in {"ok", "report ok"}
  BY DEF Linux!Places
<1> QED BY <1>1 DEF LinuxDisk, linuxDisk

(* The disk after a step of the one install that works: the others rest.   *)
LEMMA LinuxDiskAfter ==
  ASSUME LinuxDisk, NEW i \in Installers,
         \A j \in Installers : j # i => ~Working(j) /\ thread'[j] = thread[j] /\ fd'[j] = fd[j],
         target' \in Inodes, work' \in Inodes \cup {0},
         content' \in [Inodes -> Linux!Contents], fd' \in [Installers -> Inodes \cup {0}],
         content'[target'] \in {"old", "new"}, content[target] = "new" => content'[target'] = "new",
         work' # target', fd'[i] # target', orphans' = {},
         thread'[i] \in {"seeding", "tool", "writing"} <=> fd'[i] # 0,
         thread'[i] \in {"swap delta", "swap full"} => work' # 0 /\ content'[work'] = "new",
         thread'[i] \in {"ok", "report ok"} => content'[target'] = "new"
  PROVE  LinuxDisk'
<1>1. 0 \notin Inodes
  BY SystemsAssumption
<1>2. ASSUME NEW j \in Installers, j # i
      PROVE  /\ fd'[j] # target'
             /\ thread'[j] \in {"seeding", "tool", "writing"} <=> fd'[j] # 0
             /\ thread'[j] \in {"swap delta", "swap full"} => work' # 0 /\ content'[work'] = "new"
             /\ thread'[j] \in {"ok", "report ok"} => content'[target'] = "new"
  <2>1. thread[j] \in {"idle", "report ok", "report err"} /\ thread'[j] = thread[j] /\ fd'[j] = fd[j]
    BY <1>2 DEF Working
  <2>2. fd[j] = 0 /\ (thread[j] = "report ok" => content[target] = "new")
    BY <2>1 DEF LinuxDisk
  <2> QED BY <1>1, <2>1, <2>2
<1> QED BY <1>2 DEF LinuxDisk

(* An install begins, and goes on, with no tool of an earlier tray about.  *)
LEMMA NoOrphans ==
  ASSUME ~OrphansOverlap, LinuxInv, NEW i \in Installers, Linux!apply(i)
  PROVE  orphans = {}
<1>1. CASE Linux!ChoosePath(i)
  BY <1>1 DEF Linux!ChoosePath
<1>2. CASE ~Linux!ChoosePath(i)
  <2>1. \E from \in Linux!Places, to \in Linux!Places \cup {"ok", "err"} : Linux!Step(i, from, to)
    BY <1>2 DEF Linux!apply, Linux!Seed, Linux!Seeded, Linux!RunTool, Linux!UpdateTool,
                Linux!Download, Linux!Downloaded, Linux!Verify, Linux!Swap, Linux!Places
  <2>2. thread[i] \in Linux!Places
    BY <2>1 DEF Linux!Step
  <2> QED BY <2>2 DEF LinuxInv, LinuxDisk
<1> QED BY <1>1, <1>2

LEMMA LinuxApply ==
  ASSUME OneTray, ~OrphansOverlap, LinuxInv, NEW i \in Installers, Linux!apply(i)
  PROVE  LinuxInv' /\ (Linux!Build' = Linux!Build \/ Linux!Build' = "new")
<1> DEFINE Moved(from, to) ==
      /\ FlowInv(Linux!Places)'
      /\ thread[i] = from /\ thread'[i] = to
      /\ \A j \in Installers : j # i => ~Working(j) /\ thread'[j] = thread[j]
<1>0. \A from \in Linux!Places \cup {"start"}, to \in Linux!Places \cup {"ok", "err"} :
        Linux!Step(i, from, to) => Moved(from, to)
  BY LinuxStepFlow
<1> HIDE DEF Moved
<1> USE DEF Linux!Places
<1>a. /\ target \in Inodes /\ work \in Inodes \cup {0} /\ 0 \notin Inodes
      /\ content \in [Inodes -> Linux!Contents] /\ fd \in [Installers -> Inodes \cup {0}]
      /\ content[target] \in {"old", "new"} /\ work # target
      /\ fd[i] # target /\ (thread[i] \in {"seeding", "tool", "writing"} <=> fd[i] # 0)
      /\ \A j \in Installers : fd[j] # target
  BY SystemsAssumption DEF LinuxInv, LinuxDisk
<1>o. orphans = {}
  BY NoOrphans
<1>b. ASSUME NEW to, Linux!OpenWork(i), to \in {"seeding", "writing"},
             \E from \in {"delta", "full"} : Moved(from, to)
      PROVE  LinuxInv' /\ Linux!Build' = Linux!Build
  <2>1. PICK n \in Inodes : /\ IF work = 0 THEN Linux!Free(n) ELSE n = work
                            /\ work' = n
                            /\ content' = [content EXCEPT ![n] = "torn"]
                            /\ fd' = [fd EXCEPT ![i] = n]
                            /\ target' = target /\ orphans' = {}
    BY <1>b, <1>o DEF Linux!OpenWork
  <2>2. n # target /\ n # 0
    BY <1>a, <2>1 DEF Linux!Free
  <2>3. /\ content' \in [Inodes -> Linux!Contents] /\ content'[target'] = content[target]
        /\ fd' \in [Installers -> Inodes \cup {0}] /\ fd'[i] = n
        /\ \A j \in Installers : j # i => fd'[j] = fd[j]
    BY <1>a, <2>1, <2>2 DEF Linux!Contents
  <2>4. LinuxDisk'
    BY <1>a, <1>b, <2>1, <2>2, <2>3, LinuxDiskAfter DEF LinuxInv, Moved
  <2> QED BY <1>b, <2>3, <2>4 DEF LinuxInv, Moved, Linux!Build
<1>c. ASSUME NEW from, NEW to, Moved(from, to), UNCHANGED linuxDisk,
             from \notin {"seeding", "tool", "writing"},
             to \in {"delta", "full", "verify delta", "verify full", "err"}
      PROVE  LinuxInv' /\ Linux!Build' = Linux!Build
  <2>1. LinuxDisk'
    BY <1>a, <1>c, <1>o, LinuxDiskAfter DEF LinuxInv, Moved, linuxDisk
  <2> QED BY <1>c, <2>1 DEF LinuxInv, Moved, linuxDisk, Linux!Build
<1>d. ASSUME NEW from, NEW to, Moved(from, to), Linux!RemoveWork, UNCHANGED fd,
             from \notin {"seeding", "tool", "writing"}, to \in {"full", "err"}
      PROVE  LinuxInv' /\ Linux!Build' = Linux!Build
  <2>1. LinuxDisk'
    BY <1>a, <1>d, <1>o, LinuxDiskAfter DEF LinuxInv, Moved, Linux!RemoveWork
  <2> QED BY <1>d, <2>1 DEF LinuxInv, Moved, Linux!Build, Linux!RemoveWork
<1>e. ASSUME NEW from \in {"seeding", "tool", "writing"},
             NEW to \in {"spawn", "full", "verify delta", "verify full", "err"},
             Moved(from, to), Linux!Close(i), UNCHANGED <<target, orphans>>, work' \in {work, 0},
             \/ content' = content
             \/ \E c \in Linux!Contents : content' = [content EXCEPT ![fd[i]] = c]
      PROVE  LinuxInv' /\ Linux!Build' = Linux!Build
  <2>1. /\ fd' \in [Installers -> Inodes \cup {0}] /\ fd'[i] = 0
        /\ \A j \in Installers : j # i => fd'[j] = fd[j]
    BY <1>a, <1>e DEF Linux!Close
  <2>2. content' \in [Inodes -> Linux!Contents] /\ content'[target'] = content[target]
    BY <1>a, <1>e
  <2>3. LinuxDisk'
    BY <1>a, <1>e, <1>o, <2>1, <2>2, LinuxDiskAfter DEF LinuxInv, Moved
  <2> QED BY <1>e, <2>2, <2>3 DEF LinuxInv, Moved, Linux!Build
<1>1. CASE Linux!ChoosePath(i)
  <2>1. UNCHANGED linuxDisk /\ (Moved("start", "delta") \/ Moved("start", "full"))
    BY <1>0, <1>1 DEF Linux!ChoosePath, Linux!disk, linuxDisk
  <2> QED BY <1>c, <2>1
<1>2. CASE Linux!Seed(i)
  <2>1. \/ Moved("delta", "seeding") /\ Linux!OpenWork(i)
        \/ Moved("delta", "full") /\ UNCHANGED linuxDisk
    BY <1>0, <1>2 DEF Linux!Seed, Linux!disk, linuxDisk
  <2> QED BY <1>b, <1>c, <2>1
<1>3. CASE Linux!Seeded(i)
  <2>1. /\ \/ Moved("seeding", "spawn") /\ content' = [content EXCEPT ![fd[i]] = content[target]]
           \/ Moved("seeding", "full") /\ content' = content
        /\ Linux!Close(i) /\ UNCHANGED <<target, work, orphans>>
    BY <1>0, <1>3 DEF Linux!Seeded
  <2>2. content[target] \in Linux!Contents
    BY <1>a
  <2> QED BY <1>e, <2>1, <2>2
<1>4. CASE Linux!RunTool(i)
  <2>1. CASE Moved("spawn", "tool") /\ work # 0 /\ UNCHANGED <<target, work, orphans>>
             /\ content' = [content EXCEPT ![work] = "torn"]
             /\ fd' = [fd EXCEPT ![i] = work]
    <3>1. /\ content' \in [Inodes -> Linux!Contents] /\ content'[target'] = content[target]
          /\ fd' \in [Installers -> Inodes \cup {0}] /\ fd'[i] = work
          /\ \A j \in Installers : j # i => fd'[j] = fd[j]
      BY <1>a, <2>1 DEF Linux!Contents
    <3>2. LinuxDisk'
      BY <1>a, <1>o, <2>1, <3>1, LinuxDiskAfter DEF LinuxInv, Moved
    <3> QED BY <2>1, <3>1, <3>2 DEF LinuxInv, Moved, Linux!Build
  <2>2. CASE Moved("spawn", "full") /\ Linux!RemoveWork /\ UNCHANGED fd
    BY <1>d, <2>2
  <2> QED BY <1>0, <1>4, <2>1, <2>2 DEF Linux!RunTool
<1>9. CASE Linux!UpdateTool(i)
  <2>1. /\ \/ /\ Moved("tool", "verify delta") /\ UNCHANGED <<target, work, orphans>>
              /\ \E built \in {"new", "bad"} : content' = [content EXCEPT ![fd[i]] = built]
           \/ Moved("tool", "full") /\ Linux!RemoveWork
        /\ Linux!Close(i)
    BY <1>0, <1>9 DEF Linux!UpdateTool
  <2>2. {"new", "bad"} \subseteq Linux!Contents
    BY DEF Linux!Contents
  <2>3. CASE Moved("tool", "verify delta") /\ UNCHANGED <<target, work, orphans>>
             /\ \E built \in {"new", "bad"} : content' = [content EXCEPT ![fd[i]] = built]
    BY <1>e, <2>1, <2>2, <2>3
  <2>4. CASE Moved("tool", "full") /\ Linux!RemoveWork
    BY <1>e, <2>1, <2>4 DEF Linux!RemoveWork
  <2> QED BY <2>1, <2>3, <2>4
<1>5. CASE Linux!Download(i)
  <2>1. \/ Moved("full", "writing") /\ Linux!OpenWork(i)
        \/ Moved("full", "err") /\ UNCHANGED linuxDisk
    BY <1>0, <1>5 DEF Linux!Download, Linux!disk, linuxDisk
  <2> QED BY <1>b, <1>c, <2>1
<1>6. CASE Linux!Downloaded(i)
  <2>1. /\ \/ /\ Moved("writing", "verify full")
              /\ \E served \in {"new", "bad"} : content' = [content EXCEPT ![fd[i]] = served]
           \/ Moved("writing", "err") /\ content' = content
        /\ Linux!Close(i) /\ UNCHANGED <<target, work, orphans>>
    BY <1>0, <1>6 DEF Linux!Downloaded
  <2>2. {"new", "bad"} \subseteq Linux!Contents
    BY DEF Linux!Contents
  <2> QED BY <1>e, <2>1, <2>2
<1>7. CASE Linux!Verify(i)
  <2>1. CASE Linux!Verified /\ UNCHANGED linuxDisk
             /\ (Moved("verify delta", "swap delta") \/ Moved("verify full", "swap full"))
    <3>1. LinuxDisk'
      BY <1>a, <1>o, <2>1, LinuxDiskAfter DEF LinuxInv, Moved, linuxDisk, Linux!Verified
    <3> QED BY <2>1, <3>1 DEF LinuxInv, Moved, linuxDisk, Linux!Build
  <2>2. CASE (Moved("verify delta", "full") \/ Moved("verify full", "err"))
             /\ Linux!RemoveWork /\ UNCHANGED fd
    BY <1>d, <2>2
  <2> QED BY <1>0, <1>7, <2>1, <2>2 DEF Linux!Verify, Linux!disk, linuxDisk
<1>8. CASE Linux!Swap(i)
  <2>1. CASE (Moved("swap delta", "ok") \/ Moved("swap full", "ok"))
             /\ work # 0 /\ target' = work /\ work' = 0
             /\ UNCHANGED <<content, fd, orphans>>
    <3>1. content[work] = "new" /\ content'[target'] = "new"
      BY <2>1 DEF Moved, LinuxInv, LinuxDisk
    <3>2. LinuxDisk'
      BY <1>a, <1>o, <2>1, <3>1, LinuxDiskAfter DEF LinuxInv, Moved
    <3> QED BY <2>1, <3>1, <3>2 DEF LinuxInv, Moved, Linux!Build
  <2>2. CASE (Moved("swap delta", "full") \/ Moved("swap full", "err")) /\ UNCHANGED linuxDisk
    BY <1>c, <2>2
  <2> QED BY <1>0, <1>8, <2>1, <2>2 DEF Linux!Swap, Linux!disk, linuxDisk
<1> QED BY <1>1, <1>2, <1>3, <1>4, <1>5, <1>6, <1>7, <1>8, <1>9 DEF Linux!apply

(* The tool of a tray that has ended writes no file that is the AppImage.  *)
LEMMA LinuxOrphan ==
  ASSUME LinuxInv, NEW n \in orphans, Linux!OrphanWrites(n) \/ Linux!OrphanEnds(n)
  PROVE  LinuxInv' /\ Linux!Build' = Linux!Build
<1>1. /\ UNCHANGED <<flow, target, work, fd>>
      /\ \/ \E c \in Linux!Contents : content' = [content EXCEPT ![n] = c] /\ orphans' = orphans
         \/ content' = content /\ orphans' = orphans \ {n}
  BY DEF Linux!OrphanWrites, Linux!OrphanEnds, Linux!flow, Linux!Contents
<1>2. FlowInv(Linux!Places)'
  BY <1>1 DEF LinuxInv, FlowInv, FlowTypeOK, OneInstall, LatchMatchesInstall, ThreadsLive,
              Working, Alive
<1>3. /\ n \in Inodes /\ n # target /\ \A i \in Installers : thread[i] \notin Linux!Places
      /\ content \in [Inodes -> Linux!Contents] /\ target \in Inodes
  BY DEF LinuxInv, LinuxDisk
<1>4. content' \in [Inodes -> Linux!Contents] /\ content'[target'] = content[target]
  BY <1>1, <1>3
<1>5. LinuxDisk'
  <2>1. \A i \in Installers : thread[i] \notin {"swap delta", "swap full"}
    BY <1>3 DEF Linux!Places
  <2>2. orphans' \subseteq orphans
    BY <1>1
  <2> QED BY <1>1, <1>3, <1>4, <2>1, <2>2 DEF LinuxInv, LinuxDisk
<1> QED BY <1>2, <1>4, <1>5 DEF LinuxInv, Linux!Build

LEMMA LinuxNext ==
  ASSUME OneTray, ~OrphansOverlap, LinuxInv, Linux!Next
  PROVE  LinuxInv' /\ (Linux!Build' = Linux!Build \/ Linux!Build' = "new")
<1>1. ASSUME UNCHANGED linuxDisk PROVE Linux!Build' = Linux!Build
  BY <1>1 DEF linuxDisk, Linux!Build
<1>2. ASSUME NEW p \in Trays, UNCHANGED linuxDisk,
             Checked(p) \/ Handle(p) \/ Click(p) \/ Quit(p) \/ Launch(p)
      PROVE  LinuxInv'
  <2>1. FlowInv(Linux!Places)'
    BY <1>2, TrayStep DEF LinuxInv
  <2>2. \A i \in Installers : \/ thread'[i] = thread[i]
                              \/ thread[i] = "idle" /\ thread'[i] = "start"
    BY <1>2 DEF Checked, Handle, Click, Quit, Launch, spawn_update_apply, Goto,
                LinuxInv, FlowInv, FlowTypeOK
  <2>3. "idle" \notin Linux!Places
    BY DEF Linux!Places
  <2>4. LinuxDisk'
    BY <1>2, <2>2, <2>3, LinuxDiskKept DEF LinuxInv
  <2> QED BY <2>1, <2>4 DEF LinuxInv
<1>3. ASSUME NEW p \in Trays, Linux!CloseAll(p), End(p)
      PROVE  LinuxInv' /\ Linux!Build' = Linux!Build
  <2>1. FlowInv(Linux!Places)'
    BY <1>3, EndStep DEF LinuxInv
  <2>2. \A i \in Installers : thread'[i] = "idle"
    BY <1>3 DEF End, OneTray, LinuxInv, FlowInv, FlowTypeOK
  <2>3. /\ fd' \in [Installers -> Inodes \cup {0}]
        /\ \A i \in Installers : fd'[i] = 0
        /\ UNCHANGED <<target, work, content>>
    BY <1>3 DEF Linux!CloseAll, OneTray, LinuxInv, FlowInv, FlowTypeOK, LinuxDisk
  <2>4. 0 \notin Inodes
    BY SystemsAssumption
  <2>6. orphans' \subseteq Inodes \ {target}
    <3>1. \A i \in Installers : thread[i] = "tool" => fd[i] \in Inodes \ {target}
      BY DEF LinuxInv, LinuxDisk
    <3>2. orphans \subseteq Inodes \ {target}
      BY DEF LinuxInv, LinuxDisk
    <3> QED BY <1>3, <3>1, <3>2 DEF Linux!CloseAll
  <2>7. "idle" \notin Linux!Places
    BY DEF Linux!Places
  <2>5. LinuxDisk'
    BY <2>2, <2>3, <2>4, <2>6, <2>7 DEF LinuxInv, LinuxDisk
  <2> QED BY <2>1, <2>3, <2>5 DEF LinuxInv, Linux!Build
<1>4. ASSUME NEW i \in Installers, UNCHANGED linuxDisk, Release(i) \/ Report(i)
      PROVE  LinuxInv'
  <2>1. FlowInv(Linux!Places)'
    BY <1>4, ReleaseStep, ReportStep DEF LinuxInv
  <2>2. \A j \in Installers :
          \/ thread'[j] = thread[j]
          \/ thread[j] \in {"err", "report ok", "report err"} /\ thread'[j] \in {"idle", "report err"}
          \/ thread[j] = "ok" /\ thread'[j] = "report ok"
    BY <1>4 DEF Release, Report, Goto, LinuxInv, FlowInv, FlowTypeOK
  <2>3. {"err", "report ok", "report err"} \cap Linux!Places = {}
    BY DEF Linux!Places
  <2>4. LinuxDisk'
    BY <1>4, <2>2, <2>3, LinuxDiskKept DEF LinuxInv
  <2> QED BY <2>1, <2>4 DEF LinuxInv
<1>5. ASSUME NEW p \in Trays,
             \/ Linux!TrayLoop(p)
             \/ Linux!Crash(p) /\ Linux!CloseAll(p)
             \/ (Linux!Click(p) \/ Linux!Quit(p) \/ Linux!Launch(p)) /\ UNCHANGED Linux!disk
      PROVE  LinuxInv' /\ Linux!Build' = Linux!Build
  <2>1. \/ /\ UNCHANGED linuxDisk
           /\ Checked(p) \/ Handle(p) \/ Click(p) \/ Quit(p) \/ Launch(p)
        \/ Linux!CloseAll(p) /\ End(p)
    BY <1>5, LinuxFlow DEF Linux!TrayLoop, Linux!disk, linuxDisk
  <2> QED BY <2>1, <1>1, <1>2, <1>3
<1>6. ASSUME NEW i \in Installers, Linux!InstallThread(i)
      PROVE  LinuxInv' /\ (Linux!Build' = Linux!Build \/ Linux!Build' = "new")
  <2>1. CASE Linux!apply(i)
    BY <2>1, LinuxApply
  <2>2. CASE (Linux!Release(i) \/ Linux!Report(i)) /\ UNCHANGED Linux!disk
    <3>1. UNCHANGED linuxDisk /\ (Release(i) \/ Report(i))
      BY <2>2, LinuxFlow DEF Linux!disk, linuxDisk
    <3> QED BY <3>1, <1>1, <1>4
  <2> QED BY <1>6, <2>1, <2>2 DEF Linux!InstallThread
<1> QED BY <1>5, <1>6, LinuxOrphan DEF Linux!Next

----------------------------------------------------------------------------
(* The two systems *)

IInv ==
  \/ system = "mac" /\ MacInv
  \/ system = "linux" /\ LinuxInv

LEMMA InitIInv == Init => IInv /\ Build = "old"
<1> SUFFICES ASSUME Init PROVE IInv /\ Build = "old"
  OBVIOUS
<1>1. CASE system = "mac"
  <2>1. FlowInit /\ bundle = "old" /\ old = "none" /\ staging = "none"
    BY MacFlow DEF Init, Mac!Init
  <2>2. FlowInv(Mac!Places) /\ \A i \in Installers : thread[i] = "idle"
    BY <2>1, FlowInitInv DEF FlowInit
  <2>3. MacDisk
    BY <2>1, <2>2 DEF MacDisk, Swapping, Mac!Trees
  <2> QED BY <1>1, <2>1, <2>2, <2>3 DEF IInv, MacInv, Build, Mac!Build, Mac!Installed
<1>2. CASE system = "linux"
  <2>1. /\ FlowInit /\ target = (CHOOSE n \in Inodes : TRUE) /\ work = 0
        /\ content = [n \in Inodes |-> "old"] /\ fd = [i \in Installers |-> 0]
        /\ orphans = {}
    BY LinuxFlow DEF Init, Linux!Init
  <2>2. target \in Inodes /\ 0 \notin Inodes
    BY <2>1, SystemsAssumption
  <2>3. FlowInv(Linux!Places) /\ \A i \in Installers : thread[i] = "idle"
    BY <2>1, FlowInitInv DEF FlowInit
  <2>4. LinuxDisk
    BY <2>1, <2>2, <2>3 DEF LinuxDisk, Linux!Contents
  <2> QED BY <1>2, <2>1, <2>2, <2>3, <2>4 DEF IInv, LinuxInv, Build, Linux!Build
<1> QED BY <1>1, <1>2 DEF Init

LEMMA StepIInv ==
  ASSUME OneTray, "back" \notin Faults, ~OrphansOverlap, IInv, [Next]_vars
  PROVE  IInv' /\ (Build' = Build \/ Build' = "new")
<1>1. CASE OnMac /\ Mac!Next
  <2>1. system = "mac" /\ system' = "mac" /\ MacInv
    BY <1>1 DEF OnMac, IInv
  <2> QED BY <1>1, <2>1, MacNext DEF IInv, Build
<1>2. CASE OnLinux /\ Linux!Next
  <2>1. system = "linux" /\ system' = "linux" /\ LinuxInv
    BY <1>2 DEF OnLinux, IInv
  <2> QED BY <1>2, <2>1, LinuxNext DEF IInv, Build
<1>3. CASE UNCHANGED vars
  BY <1>3 DEF vars, macDisk, linuxDisk, IInv, MacInv, LinuxInv, FlowInv, FlowTypeOK, OneInstall,
      LatchMatchesInstall, ThreadsLive, Working, Alive, MacDisk, Swapping, LinuxDisk,
      Build, Mac!Build, Mac!Installed, Linux!Build
<1> QED BY <1>1, <1>2, <1>3 DEF Next

(* While an install is anywhere in its work the disk holds what it needs   *)
(* to go on, and a whole build besides: with one tray, roll-backs that     *)
(* succeed and no delta tool left from an ended tray.                      *)
THEOREM InvariantHolds ==
  ASSUME OneTray, "back" \notin Faults, ~OrphansOverlap
  PROVE  Spec => []IInv
BY InitIInv, StepIInv, PTL DEF Spec

LEMMA Inductive ==
  IInv => /\ UpdateInvariant
          /\ Build \in {"old", "new"}
<1>1. ASSUME system = "mac", MacInv
      PROVE  UpdateInvariant /\ Build \in {"old", "new"}
  <2>1. Mac!TypeOK
    BY <1>1 DEF MacInv, MacDisk, FlowInv, FlowTypeOK, TrayStates, Events,
                Mac!TypeOK, Mac!FlowTypeOK, Mac!TrayStates, Mac!Events, Mac!Trees
  <2>2. OneInstall /\ LatchMatchesInstall
    BY <1>1 DEF MacInv, FlowInv
  <2>3. Mac!Build \in {"old", "new"}
    BY <1>1 DEF MacInv, MacDisk, Swapping, Mac!Build, Mac!Installed
  <2> QED BY <1>1, <2>1, <2>2, <2>3 DEF UpdateInvariant, TypeOK, Build
<1>2. ASSUME system = "linux", LinuxInv
      PROVE  UpdateInvariant /\ Build \in {"old", "new"}
  <2>1. Linux!TypeOK
    BY <1>2 DEF LinuxInv, LinuxDisk, FlowInv, FlowTypeOK, TrayStates, Events,
                Linux!TypeOK, Linux!FlowTypeOK, Linux!TrayStates, Linux!Events
  <2>2. OneInstall /\ LatchMatchesInstall
    BY <1>2 DEF LinuxInv, FlowInv
  <2>3. Linux!InstalledIsNew /\ Linux!Build \in {"old", "new"}
    BY <1>2 DEF LinuxInv, LinuxDisk, Linux!InstalledIsNew, Linux!Build
  <2> QED BY <1>2, <2>1, <2>2, <2>3 DEF UpdateInvariant, TypeOK, Build
<1> QED BY <1>1, <1>2 DEF IInv

(* One install at a time, the latch held exactly while it runs, and an     *)
(* AppImage reported as installed is the signed one, under the same        *)
(* hypotheses.                                                             *)
THEOREM UpdateInvariantHolds ==
  ASSUME OneTray, "back" \notin Faults, ~OrphansOverlap
  PROVE  Spec => []UpdateInvariant
BY InvariantHolds, Inductive, PTL

(* Failed deltas, downloads and renames, crashes and quits leave one whole *)
(* build, which an update only ever turns from the old into the new: the   *)
(* refinement of Installation.  The hypotheses name what the code leaves   *)
(* open: a second tray (on macOS and Linux nothing keeps it out), a        *)
(* roll-back that fails, a tool that outlives its tray.                    *)
THEOREM KeepsPromiseHolds ==
  ASSUME OneTray, "back" \notin Faults, ~OrphansOverlap
  PROVE  Spec => KeepsPromise
<1>1. Init => Promise!Init
  BY InitIInv DEF Promise!Init
<1>2. IInv /\ [Next]_vars => [Promise!Install]_Build
  <2> SUFFICES ASSUME IInv, [Next]_vars PROVE Promise!Install \/ Build' = Build
    OBVIOUS
  <2>1. Build \in {"old", "new"} /\ (Build' = Build \/ Build' = "new")
    BY StepIInv, Inductive
  <2> QED BY <2>1 DEF Promise!Install
<1> QED BY <1>1, <1>2, InvariantHolds, PTL DEF Spec, KeepsPromise, Promise!Spec

----------------------------------------------------------------------------
(* The flow alone needs none of the hypotheses. *)

Flow ==
  \/ system = "mac" /\ FlowInv(Mac!Places)
  \/ system = "linux" /\ FlowInv(Linux!Places)

LEMMA MacFlowStep ==
  ASSUME FlowInv(Mac!Places), Mac!Next
  PROVE  FlowInv(Mac!Places)'
<1>1. ASSUME NEW p \in Trays,
             \/ Mac!TrayLoop(p) \/ Mac!Start(p)
             \/ (Mac!Click(p) \/ Mac!Quit(p) \/ Mac!Crash(p)) /\ UNCHANGED Mac!disk
      PROVE  FlowInv(Mac!Places)'
  <2>1. Checked(p) \/ Handle(p) \/ Click(p) \/ Quit(p) \/ Launch(p) \/ End(p)
    BY <1>1, MacFlow DEF Mac!TrayLoop, Mac!EventLoop, Mac!Start
  <2> QED BY <2>1, TrayStep, EndStep
<1>2. ASSUME NEW i \in Installers, Mac!apply(i)
      PROVE  FlowInv(Mac!Places)'
  <2>1. PICK from \in Mac!Places \cup {"start"}, to \in Mac!Places \cup {"ok", "err"} :
          Mac!Step(i, from, to)
    BY <1>2 DEF Mac!apply, Mac!Fetch, Mac!Stage, Mac!Unzip, Mac!ClearOld, Mac!MoveAside,
                Mac!MoveIn, Mac!RollBack, Mac!Tidy, Mac!Places
  <2>2. /\ thread[i] = from /\ Goto(i, to)
        /\ UNCHANGED <<tray, checks, events, IN_FLIGHT, owner, clicks>>
    BY <2>1 DEF Mac!Step, Mac!Goto, Goto
  <2>3. Working(i) /\ Mac!Places \cap Resting = {}
    BY <2>2 DEF Working, Resting, Mac!Places
  <2> QED BY <2>2, <2>3, InstallGoesOn
<1>3. ASSUME NEW i \in Installers, Mac!Release(i) \/ Mac!Report(i)
      PROVE  FlowInv(Mac!Places)'
  BY <1>3, MacFlow, ReleaseStep, ReportStep
<1> QED BY <1>1, <1>2, <1>3 DEF Mac!Next, Mac!InstallThread

LEMMA LinuxFlowStep ==
  ASSUME FlowInv(Linux!Places), Linux!Next
  PROVE  FlowInv(Linux!Places)'
<1>1. ASSUME NEW p \in Trays,
             \/ Linux!TrayLoop(p)
             \/ Linux!Crash(p) /\ Linux!CloseAll(p)
             \/ (Linux!Click(p) \/ Linux!Quit(p) \/ Linux!Launch(p)) /\ UNCHANGED Linux!disk
      PROVE  FlowInv(Linux!Places)'
  <2>1. Checked(p) \/ Handle(p) \/ Click(p) \/ Quit(p) \/ Launch(p) \/ End(p)
    BY <1>1, LinuxFlow DEF Linux!TrayLoop
  <2> QED BY <2>1, TrayStep, EndStep
<1>2. ASSUME NEW i \in Installers, Linux!apply(i)
      PROVE  FlowInv(Linux!Places)'
  <2>1. PICK from \in Linux!Places \cup {"start"}, to \in Linux!Places \cup {"ok", "err"} :
          Linux!Step(i, from, to)
    BY <1>2 DEF Linux!apply, Linux!ChoosePath, Linux!Seed, Linux!Seeded, Linux!RunTool, Linux!UpdateTool,
                Linux!Download, Linux!Downloaded, Linux!Verify, Linux!Swap, Linux!Places
  <2>2. /\ thread[i] = from /\ Goto(i, to)
        /\ UNCHANGED <<tray, checks, events, IN_FLIGHT, owner, clicks>>
    BY <2>1 DEF Linux!Step, Linux!Goto, Goto
  <2>3. Working(i) /\ Linux!Places \cap Resting = {}
    BY <2>2 DEF Working, Resting, Linux!Places
  <2> QED BY <2>2, <2>3, InstallGoesOn
<1>3. ASSUME NEW i \in Installers, Linux!Release(i) \/ Linux!Report(i)
      PROVE  FlowInv(Linux!Places)'
  BY <1>3, LinuxFlow, ReleaseStep, ReportStep
<1>4. ASSUME NEW n, Linux!OrphanWrites(n) \/ Linux!OrphanEnds(n)
      PROVE  FlowInv(Linux!Places)'
  <2>1. UNCHANGED flow
    BY <1>4 DEF Linux!OrphanWrites, Linux!OrphanEnds, Linux!flow
  <2> QED BY <2>1 DEF FlowInv, FlowTypeOK, OneInstall, LatchMatchesInstall, ThreadsLive,
                      Working, Alive
<1> QED BY <1>1, <1>2, <1>3, <1>4 DEF Linux!Next, Linux!InstallThread

(* However many trays run and whatever fails on the disk, a tray never has *)
(* two installs at once, and its latch is held exactly while one runs.     *)
THEOREM OneInstallHolds == Spec => [](OneInstall /\ LatchMatchesInstall)
<1>1. Init => Flow
  BY FlowInitInv, MacFlow, LinuxFlow DEF Init, Mac!Init, Linux!Init, Flow
<1>2. Flow /\ [Next]_vars => Flow'
  <2> SUFFICES ASSUME Flow, [Next]_vars PROVE Flow'
    OBVIOUS
  <2>1. CASE OnMac /\ Mac!Next
    BY <2>1, MacFlowStep DEF OnMac, Flow
  <2>2. CASE OnLinux /\ Linux!Next
    BY <2>2, LinuxFlowStep DEF OnLinux, Flow
  <2>3. CASE UNCHANGED vars
    BY <2>3 DEF vars, Flow, FlowInv, FlowTypeOK, OneInstall, LatchMatchesInstall,
                ThreadsLive, Working, Alive
  <2> QED BY <2>1, <2>2, <2>3 DEF Next
<1>3. Flow => OneInstall /\ LatchMatchesInstall
  BY DEF Flow, FlowInv
<1> QED BY <1>1, <1>2, <1>3, PTL DEF Spec
=============================================================================
