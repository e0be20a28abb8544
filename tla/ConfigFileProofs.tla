-------------------------- MODULE ConfigFileProofs --------------------------
(***************************************************************************)
(* Theorems about ConfigFile, for any Settings windows and any bounds.     *)
(***************************************************************************)
EXTENDS ConfigFile, FiniteSetTheorems, TLAPS

USE DEF disk, writers, engine, trayVars, watcher, counters, vars

----------------------------------------------------------------------------
(* Files and writers *)

LEMMA Names ==
  /\ 1 \in Inodes /\ 0 \notin Inodes
  /\ "tray" \in Writers /\ \A s \in Windows : s \in Writers /\ s # "tray"
  /\ Default \in Configs /\ Torn \notin Configs
<1>1. Cardinality(Writers) \in Nat
  BY ConstantsAssumption, FS_AddElement, FS_CardinalityType DEF Writers
<1>2. 1 \in Inodes /\ 0 \notin Inodes
  BY <1>1 DEF Inodes
<1>3. Default \in Configs
  BY DEF Default, Configs, Settings
<1>4. Torn \notin Configs
  <2> SUFFICES ASSUME NEW c \in Configs, c = [torn |-> TRUE] PROVE FALSE
    BY DEF Torn
  <2>1. DOMAIN c = {"engine", "top"} /\ DOMAIN c = {"torn"}
    BY DEF Configs
  <2>2. "torn" # "engine" /\ "torn" # "top"
    OBVIOUS
  <2> QED BY <2>1, <2>2
<1> QED BY <1>2, <1>3, <1>4, ConstantsAssumption DEF Writers

(* A file that parses holds a config.                                      *)
LEMMA Parsed ==
  ASSUME content \in [Inodes -> Configs \cup {Torn}], NEW n \in Inodes, parses(n)
  PROVE  content[n] \in Configs
BY DEF parses

(* A config is known by its two settings.                                  *)
LEMMA ConfigFields ==
  ASSUME NEW c \in Configs
  PROVE  /\ c.engine \in Settings /\ c.top \in BOOLEAN
         /\ \A b \in BOOLEAN : /\ [c EXCEPT !.top = b] \in Configs
                               /\ [c EXCEPT !.top = b].engine = c.engine
                               /\ [c EXCEPT !.top = b].top = b
         /\ \A e \in Settings : [c EXCEPT !.engine = e] \in Configs
BY DEF Configs

----------------------------------------------------------------------------
(* Types *)

LEMMA InitType == Init => TypeOK
<1> SUFFICES ASSUME Init PROVE TypeOK
  OBVIOUS
<1>1. PICK c \in {[engine |-> "A", top |-> FALSE], Torn} : content = [n \in Inodes |-> c]
  BY DEF Init
<1>2. c \in Configs \cup {Torn}
  <2>1. [engine |-> "A", top |-> FALSE] \in Configs
    BY DEF Configs, Settings
  <2> QED BY <2>1
<1>3. content \in [Inodes -> Configs \cup {Torn}]
  BY <1>1, <1>2
<1>4. cfg \in Configs
  BY <1>3, Names, Parsed DEF Init
<1>5. run_engine \in Settings /\ always_on_top \in BOOLEAN
  BY <1>4, ConfigFields DEF Init
<1> QED BY <1>3, <1>4, <1>5, Names DEF Init, TypeOK, Places

(* What the disk's steps leave typed.                                      *)
DiskOK ==
  /\ path \in Inodes /\ tmp \in Inodes \cup {0}
  /\ content \in [Inodes -> Configs \cup {Torn}]
  /\ mtime \in [Inodes -> Nat] /\ now \in Nat
WritersOK ==
  /\ at \in [Writers -> Places] /\ fd \in [Writers -> Inodes \cup {0}]
  /\ edited \in [Writers -> Configs]
  /\ \A w \in Writers : at[w] = "write" <=> fd[w] # 0
TrayOK ==
  /\ cfg \in Configs /\ always_on_top \in BOOLEAN
  /\ running \in BOOLEAN /\ run_engine \in Settings /\ run \in {0, 1}
  /\ told \in Nat
WatcherOK ==
  /\ watch \in {"off", "first", "poll", "wait"}
  /\ last_mtime \in Nat /\ seen \in Nat
CountersOK == toggles \in Nat /\ edits \in Nat /\ clicks \in Nat

LEMMA TypeParts ==
  /\ TypeOK <=> DiskOK /\ WritersOK /\ TrayOK /\ WatcherOK /\ CountersOK
  /\ TypeOK' <=> DiskOK' /\ WritersOK' /\ TrayOK' /\ WatcherOK' /\ CountersOK'
BY DEF TypeOK, DiskOK, WritersOK, TrayOK, WatcherOK, CountersOK

LEMMA StampType ==
  ASSUME DiskOK, NEW n \in Inodes, NEW c \in Configs \cup {Torn}, Stamp(n, c)
  PROVE  /\ content' \in [Inodes -> Configs \cup {Torn}]
         /\ mtime' \in [Inodes -> Nat] /\ now' \in Nat
BY DEF DiskOK, Stamp

(* A writer's next place keeps the types when its file is open exactly     *)
(* while it writes.                                                        *)
LEMMA WriterType ==
  ASSUME WritersOK, NEW w \in Writers, NEW place \in Places, Goto(w, place),
         NEW n \in Inodes \cup {0}, fd' = [fd EXCEPT ![w] = n],
         place = "write" <=> n # 0, edited' \in [Writers -> Configs]
  PROVE  WritersOK'
BY DEF WritersOK, Goto

LEMMA SaveType ==
  ASSUME TypeOK, NEW w \in Writers, Save(w)
  PROVE  TypeOK'
<1> USE TypeParts
<1>0. DiskOK /\ WritersOK /\ TrayOK /\ WatcherOK /\ CountersOK
  OBVIOUS
<1>1. Done(w) \in {"closed", "open"}
  BY DEF Done
<1>2. UNCHANGED <<trayVars, watcher, counters, edited>>
  BY DEF Save, CheckFile, CreateTmp, WriteTmp, RenameTmp
<1>3. TrayOK' /\ WatcherOK' /\ CountersOK' /\ edited' \in [Writers -> Configs]
  BY <1>0, <1>2 DEF TrayOK, WatcherOK, CountersOK, WritersOK
<1>4. CASE CheckFile(w)
  <2>1. DiskOK'
    BY <1>0, <1>4 DEF CheckFile, DiskOK
  <2>2. PICK place \in {"create", "closed", "open"} : Goto(w, place)
    BY <1>1, <1>4 DEF CheckFile
  <2>3. fd' = [fd EXCEPT ![w] = 0] /\ place \in Places /\ place # "write"
    BY <1>0, <1>4 DEF CheckFile, WritersOK, Places
  <2>4. WritersOK'
    BY <1>0, <1>3, <2>2, <2>3, WriterType
  <2> QED BY <1>3, <2>1, <2>4
<1>5. CASE CreateTmp(w)
  <2>1. PICK n \in Inodes : tmp' = n /\ fd' = [fd EXCEPT ![w] = n] /\ Stamp(n, Torn)
    BY <1>5 DEF CreateTmp
  <2>2. DiskOK'
    BY <1>0, <1>5, <2>1, StampType DEF CreateTmp, DiskOK
  <2>3. WritersOK'
    BY <1>0, <1>3, <1>5, <2>1, WriterType, Names DEF CreateTmp, Places
  <2> QED BY <1>3, <2>2, <2>3
<1>6. CASE WriteTmp(w)
  <2>1. fd[w] \in Inodes /\ edited[w] \in Configs
    BY <1>0, <1>6 DEF WriteTmp, WritersOK
  <2>2. DiskOK'
    BY <1>0, <1>6, <2>1, StampType DEF WriteTmp, DiskOK
  <2>3. WritersOK'
    BY <1>0, <1>3, <1>6, WriterType DEF WriteTmp, Places
  <2> QED BY <1>3, <2>2, <2>3
<1>7. CASE RenameTmp(w)
  <2>1. DiskOK'
    BY <1>0, <1>7 DEF RenameTmp, DiskOK
  <2>2. fd' = [fd EXCEPT ![w] = 0] /\ Goto(w, Done(w)) /\ Done(w) # "write"
    BY <1>0, <1>1, <1>7 DEF RenameTmp, WritersOK
  <2>3. Done(w) \in Places
    BY <1>1 DEF Places
  <2>4. WritersOK'
    BY <1>0, <1>3, <2>2, <2>3, WriterType
  <2> QED BY <1>3, <2>1, <2>4
<1> QED BY <1>4, <1>5, <1>6, <1>7 DEF Save

LEMMA SettingsType ==
  ASSUME TypeOK, NEW s \in Windows, OpenSettings(s) \/ Edit(s) \/ CloseSettings(s)
  PROVE  TypeOK'
<1>0. DiskOK /\ WritersOK /\ TrayOK /\ WatcherOK /\ CountersOK
  BY TypeParts
<1>1. s \in Writers
  BY Names
<1>2. DiskOK' /\ TrayOK' /\ WatcherOK'
  BY <1>0 DEF OpenSettings, Edit, CloseSettings, DiskOK, TrayOK, WatcherOK
<1>3. CountersOK'
  BY <1>0 DEF OpenSettings, Edit, CloseSettings, CountersOK
<1>4. CASE OpenSettings(s)
  <2>1. PICK c \in try_load : edited' = [edited EXCEPT ![s] = c]
    BY <1>4 DEF OpenSettings
  <2>2. c \in Configs
    BY <1>0, <2>1, Parsed DEF try_load, DiskOK
  <2>3. fd' = [fd EXCEPT ![s] = 0] /\ Goto(s, "open")
    BY <1>0, <1>1, <1>4 DEF OpenSettings, WritersOK
  <2>4. edited' \in [Writers -> Configs]
    BY <1>0, <2>1, <2>2 DEF WritersOK
  <2>5. WritersOK'
    BY <1>0, <1>1, <2>3, <2>4, WriterType DEF Places
  <2> QED BY <1>2, <1>3, <2>5, TypeParts
<1>5. CASE Edit(s)
  <2>1. edited[s] \in Configs /\ edited \in [Writers -> Configs]
    BY <1>0, <1>1 DEF WritersOK
  <2>2. ASSUME \E e \in {"A", "B"} : edited' = [edited EXCEPT ![s].engine = e]
        PROVE  edited' \in [Writers -> Configs]
    <3>1. PICK e \in {"A", "B"} : edited' = [edited EXCEPT ![s].engine = e]
      BY <2>2
    <3>2. [edited[s] EXCEPT !.engine = e] \in Configs
      BY <2>1, ConfigFields DEF Settings
    <3> QED BY <1>1, <2>1, <3>1, <3>2
  <2>3. ASSUME edited' = [edited EXCEPT ![s].top = ~@]
        PROVE  edited' \in [Writers -> Configs]
    <3>1. [edited[s] EXCEPT !.top = ~@] \in Configs
      BY <2>1 DEF Configs
    <3> QED BY <1>1, <2>1, <2>3, <3>1
  <2>4. edited' \in [Writers -> Configs]
    BY <1>5, <2>2, <2>3 DEF Edit
  <2>5. fd' = [fd EXCEPT ![s] = 0] /\ Goto(s, "check")
    BY <1>0, <1>1, <1>5 DEF Edit, WritersOK
  <2>6. WritersOK'
    BY <1>0, <1>1, <2>4, <2>5, WriterType DEF Places
  <2> QED BY <1>2, <1>3, <2>6, TypeParts
<1>6. CASE CloseSettings(s)
  <2>1. fd' = [fd EXCEPT ![s] = 0] /\ Goto(s, "closed") /\ edited' \in [Writers -> Configs]
    BY <1>0, <1>6 DEF CloseSettings, WritersOK
  <2>2. WritersOK'
    BY <1>0, <1>1, <2>1, WriterType DEF Places
  <2> QED BY <1>2, <1>3, <2>2, TypeParts
<1> QED BY <1>4, <1>5, <1>6

LEMMA TrayType ==
  ASSUME TypeOK, ToggleOnTop \/ StartStop \/ Restart \/ OnConfigChanged
  PROVE  TypeOK'
<1>0. DiskOK /\ WritersOK /\ TrayOK /\ WatcherOK /\ CountersOK
  BY TypeParts
<1>1. DiskOK' /\ WatcherOK'
  BY <1>0 DEF ToggleOnTop, StartStop, Restart, OnConfigChanged, DiskOK, WatcherOK
<1>2. CountersOK'
  BY <1>0 DEF ToggleOnTop, StartStop, Restart, OnConfigChanged, CountersOK
<1>3. reload_config \in Configs
  BY <1>0, Parsed DEF reload_config, DiskOK, TrayOK
<1>4. CASE ToggleOnTop
  <2>1. cfg' \in Configs /\ always_on_top' \in BOOLEAN
    BY <1>0, <1>4, ConfigFields DEF ToggleOnTop, TrayOK
  <2>2. TrayOK'
    BY <1>0, <1>4, <2>1 DEF ToggleOnTop, TrayOK
  <2>3. edited' \in [Writers -> Configs]
    BY <1>0, <1>4, <2>1 DEF ToggleOnTop, WritersOK
  <2>4. fd' = [fd EXCEPT !["tray"] = 0] /\ Goto("tray", "check")
    BY <1>0, <1>4, Names DEF ToggleOnTop, Idle, WritersOK
  <2>5. WritersOK'
    BY <1>0, <2>3, <2>4, WriterType, Names DEF Places
  <2> QED BY <1>1, <1>2, <2>2, <2>5, TypeParts
<1>5. CASE StartStop \/ Restart
  <2>1. WritersOK'
    BY <1>0, <1>5 DEF StartStop, Restart, WritersOK
  <2>2. \/ UNCHANGED <<cfg, run_engine, run>>
        \/ cfg' = reload_config /\ StartWith(cfg'.engine)
    BY <1>5 DEF StartStop, Restart
  <2>3. cfg' \in Configs /\ run_engine' \in Settings /\ run' \in {0, 1}
    BY <1>0, <1>3, <2>2, ConfigFields DEF TrayOK, StartWith
  <2>4. TrayOK'
    BY <1>0, <1>5, <2>3 DEF StartStop, Restart, TrayOK
  <2> QED BY <1>1, <1>2, <2>1, <2>4, TypeParts
<1>6. CASE OnConfigChanged
  <2>1. WritersOK'
    BY <1>0, <1>6 DEF OnConfigChanged, WritersOK
  <2>2. told' \in Nat
    BY <1>0, <1>6 DEF OnConfigChanged, TrayOK
  <2>3. CASE parses(path)
    <3>1. content[path] \in Configs
      BY <1>0, <2>3, Parsed DEF DiskOK
    <3>2. /\ cfg' \in Configs /\ always_on_top' \in BOOLEAN
          /\ run_engine' \in Settings /\ run' \in {0, 1}
      BY <1>0, <1>6, <2>3, <3>1, ConfigFields DEF OnConfigChanged, TakeOver, StartWith, TrayOK
    <3>3. TrayOK'
      BY <1>0, <1>6, <2>2, <3>2 DEF OnConfigChanged, TrayOK
    <3> QED BY <1>1, <1>2, <2>1, <3>3, TypeParts
  <2>4. CASE ~parses(path)
    <3>1. TrayOK'
      BY <1>0, <1>6, <2>2, <2>4 DEF OnConfigChanged, TrayOK
    <3> QED BY <1>1, <1>2, <2>1, <3>1, TypeParts
  <2> QED BY <2>3, <2>4
<1> QED BY <1>4, <1>5, <1>6

LEMMA TypeStep == TypeOK /\ [Next]_vars => TypeOK'
<1> SUFFICES ASSUME TypeOK, [Next]_vars PROVE TypeOK'
  OBVIOUS
<1>0. DiskOK /\ WritersOK /\ TrayOK /\ WatcherOK /\ CountersOK
  BY TypeParts
<1>1. CASE UNCHANGED vars
  BY <1>1 DEF TypeOK, parses
<1>2. CASE HandEdit
  <2>1. PICK c \in {Torn, [engine |-> "B", top |-> FALSE]} : Stamp(path, c)
    BY <1>2 DEF HandEdit
  <2>2. [engine |-> "B", top |-> FALSE] \in Configs
    BY DEF Configs, Settings
  <2>3. DiskOK'
    BY <1>0, <1>2, <2>1, <2>2, StampType DEF HandEdit, DiskOK
  <2>4. WritersOK' /\ TrayOK' /\ WatcherOK' /\ CountersOK'
    BY <1>0, <1>2 DEF HandEdit, WritersOK, TrayOK, WatcherOK, CountersOK
  <2> QED BY <2>3, <2>4, TypeParts
<1>3. CASE Watcher
  <2>1. DiskOK' /\ WritersOK' /\ CountersOK'
    BY <1>0, <1>3 DEF Watcher, FirstLook, Poll, Tell, DiskOK, WritersOK, CountersOK
  <2>2. mtime[path] \in Nat
    BY <1>0 DEF DiskOK
  <2>3. TrayOK'
    BY <1>0, <1>3 DEF Watcher, FirstLook, Poll, Tell, TrayOK
  <2>4. WatcherOK'
    BY <1>0, <1>3, <2>2 DEF Watcher, FirstLook, Poll, Tell, WatcherOK
  <2> QED BY <2>1, <2>3, <2>4, TypeParts
<1> QED BY <1>1, <1>2, <1>3, SaveType, SettingsType, TrayType DEF Next

(* Every variable of the file, its writers, the tray and the watcher keeps *)
(* its type.                                                               *)
THEOREM TypeCorrect == Spec => []TypeOK
BY InitType, TypeStep, PTL DEF Spec

----------------------------------------------------------------------------
(* The engine and the cache *)

LEMMA CacheStep ==
  TypeOK /\ EngineRunsTheCache /\ [Next]_vars => EngineRunsTheCache'
<1> SUFFICES ASSUME TypeOK, EngineRunsTheCache, [Next]_vars PROVE EngineRunsTheCache'
  OBVIOUS
<1>1. CASE UNCHANGED <<cfg, running, run_engine>>
  BY <1>1 DEF EngineRunsTheCache
<1>2. CASE ToggleOnTop
  <2>1. cfg'.engine = cfg.engine
    BY <1>2, ConfigFields DEF ToggleOnTop, TypeOK
  <2> QED BY <1>2, <2>1 DEF ToggleOnTop, EngineRunsTheCache
<1>3. CASE StartStop \/ Restart
  BY <1>3 DEF StartStop, Restart, StartWith, EngineRunsTheCache
<1>4. CASE OnConfigChanged
  BY <1>4 DEF OnConfigChanged, TakeOver, StartWith, needs_restart, EngineRunsTheCache
<1> QED BY <1>1, <1>2, <1>3, <1>4
        DEF Next, Save, CheckFile, CreateTmp, WriteTmp, RenameTmp, OpenSettings, Edit,
            CloseSettings, HandEdit, Watcher, FirstLook, Poll, Tell

(* A running engine runs with the settings the tray has cached.            *)
THEOREM EngineRunsTheCacheHolds == Spec => []EngineRunsTheCache
<1>1. Init => EngineRunsTheCache
  BY DEF Init, EngineRunsTheCache
<1> QED BY <1>1, CacheStep, TypeCorrect, PTL DEF Spec

(* The tray restarts the engine only for a file whose engine settings are  *)
(* not those it runs with.                                                 *)
THEOREM RestartsForAReasonHolds == Spec => RestartsForAReason
<1>1. ASSUME EngineRunsTheCache, Next, running /\ run' # run /\ told' # told
      PROVE  parses(path) /\ content[path].engine # run_engine
  <2>1. OnConfigChanged
    BY <1>1 DEF Next, Save, CheckFile, CreateTmp, WriteTmp, RenameTmp, OpenSettings, Edit,
                CloseSettings, HandEdit, Watcher, FirstLook, Poll, Tell, ToggleOnTop,
                StartStop, Restart
  <2>2. parses(path) /\ needs_restart(cfg, content[path])
    BY <1>1, <2>1 DEF OnConfigChanged, TakeOver
  <2> QED BY <1>1, <2>2 DEF needs_restart, EngineRunsTheCache
<1>2. EngineRunsTheCache /\ [Next]_vars =>
        [running /\ run' # run /\ told' # told =>
           parses(path) /\ content[path].engine # run_engine]_vars
  BY <1>1
<1> QED BY <1>2, EngineRunsTheCacheHolds, PTL DEF Spec, RestartsForAReason

----------------------------------------------------------------------------
(* The cache and the file.  What keeps the watcher from missing a file is  *)
(* that no other file ever has the modification time it has taken.         *)

InSync == cfg = content[path] /\ always_on_top = cfg.top
Pending == told > 0 \/ watch # "poll" \/ mtime[path] # last_mtime

Clock ==
  /\ last_mtime <= now /\ seen <= now
  /\ \A n \in Inodes : mtime[n] <= now
Fresh == tmp # 0 => tmp # path /\ mtime[tmp] \notin {mtime[path], last_mtime, seen}

(* With nothing to be told, the tray has what the file says, or the file   *)
(* it is about to put in place of it.                                      *)
Known == ~Pending =>
  /\ at["tray"] = "closed" /\ parses(path) => InSync
  /\ at["tray"] = "write" => fd["tray"] = tmp
  /\ at["tray"] = "rename" => tmp # 0

(* Before its first look the watcher notices nothing; only the tray writes. *)
Early == watch = "first" =>
  /\ \A s \in Windows : at[s] \in {"closed", "open"}
  /\ at["tray"] = "closed" /\ parses(path) => InSync
  /\ at["tray"] # "closed" => edited["tray"] = cfg /\ always_on_top = cfg.top
  /\ at["tray"] = "write" => fd["tray"] = tmp
  /\ at["tray"] = "rename" => tmp # 0 /\ content[tmp] = cfg

Watched == Clock /\ Fresh /\ Known /\ Early
TrayIsNoWindow == at["tray"] # "open"

IInv == TypeOK /\ Watched /\ TrayIsNoWindow

LEMMA InitIInv == Init => IInv
<1> SUFFICES ASSUME Init PROVE IInv
  OBVIOUS
<1>1. TypeOK
  BY InitType
<1>2. Clock /\ Fresh
  BY Names DEF Init, Clock, Fresh
<1>3. parses(path) => InSync
  BY DEF Init, InSync, parses
<1>4. at["tray"] = "closed" /\ \A s \in Windows : at[s] = "closed"
  BY Names DEF Init
<1> QED BY <1>1, <1>2, <1>3, <1>4 DEF IInv, Watched, Known, Early, TrayIsNoWindow

(* A write takes a time of its own.                                        *)
LEMMA StampTimes ==
  ASSUME TypeOK, Clock, NEW n \in Inodes, NEW c, Stamp(n, c)
  PROVE  /\ now' = now + 1 /\ mtime'[n] = now + 1 /\ content'[n] = c
         /\ \A m \in Inodes : m # n => mtime'[m] = mtime[m] /\ content'[m] = content[m]
         /\ \A m \in Inodes : mtime'[m] <= now'
         /\ now + 1 \notin {last_mtime, seen}
         /\ \A m \in Inodes : mtime[m] # now + 1
<1>1. now \in Nat /\ last_mtime \in Nat /\ seen \in Nat
      /\ mtime \in [Inodes -> Nat] /\ content \in [Inodes -> Configs \cup {Torn}]
  BY DEF TypeOK
<1>2. now' = now + 1 /\ mtime'[n] = now + 1 /\ content'[n] = c
      /\ \A m \in Inodes : m # n => mtime'[m] = mtime[m] /\ content'[m] = content[m]
  BY <1>1 DEF Stamp
<1>3. \A m \in Inodes : mtime[m] \in Nat /\ mtime[m] <= now
  BY <1>1 DEF Clock
<1> QED BY <1>1, <1>2, <1>3 DEF Clock

(* As long as disk and watcher stay, so do their clocks.                   *)
LEMMA StillStep ==
  ASSUME IInv, UNCHANGED <<disk, watcher>>
  PROVE  Clock' /\ Fresh'
BY DEF IInv, Watched, Clock, Fresh

LEMMA CheckFileStep ==
  ASSUME IInv, NEW w \in Writers, CheckFile(w)
  PROVE  Watched'
<1> USE DEF IInv, Watched, CheckFile, Goto, TypeOK, InSync, Pending, parses
<1>1. Clock' /\ Fresh'
  BY StillStep
<1>2. /\ UNCHANGED <<disk, fd, edited, trayVars, watcher>> /\ at[w] = "check"
      /\ \A v \in Writers : v # w => at'[v] = at[v]
      /\ at'[w] = IF parses(path) THEN "create" ELSE Done(w)
  OBVIOUS
<1>3. CASE w = "tray"
  <2>1. at'["tray"] = IF parses(path) THEN "create" ELSE "closed"
    BY <1>2, <1>3 DEF Done
  <2>2. Known'
    BY <1>2, <2>1 DEF Known
  <2>3. Early'
    BY <1>2, <1>3, <2>1, Names DEF Early
  <2> QED BY <1>1, <2>2, <2>3
<1>4. CASE w \in Windows
  <2>1. at'["tray"] = at["tray"]
    BY <1>2, <1>4, Names
  <2>2. Known'
    BY <1>2, <2>1 DEF Known
  <2>3. watch # "first"
    BY <1>2, <1>4 DEF Early
  <2> QED BY <1>1, <1>2, <2>2, <2>3 DEF Early
<1> QED BY <1>3, <1>4 DEF Writers

LEMMA CreateTmpStep ==
  ASSUME IInv, NEW w \in Writers, CreateTmp(w)
  PROVE  Watched'
<1> USE DEF IInv, Watched
<1>1. PICK n \in Inodes : /\ IF tmp = 0 THEN Free(n) ELSE n = tmp
                          /\ tmp' = n /\ fd' = [fd EXCEPT ![w] = n] /\ Stamp(n, Torn)
  BY DEF CreateTmp
<1>2. n # path
  BY <1>1 DEF Fresh, Free
<1>3. /\ UNCHANGED <<path, edited, trayVars, watcher>> /\ at[w] = "create"
      /\ at'[w] = "write" /\ fd'[w] = n
      /\ \A v \in Writers : v # w => at'[v] = at[v] /\ fd'[v] = fd[v]
  BY <1>1 DEF CreateTmp, Goto, TypeOK
<1>4. path \in Inodes /\ content'[path] = content[path] /\ mtime'[path] = mtime[path]
  BY <1>1, <1>2, StampTimes DEF TypeOK
<1>5. Clock'
  <2>1. now \in Nat /\ last_mtime \in Nat /\ seen \in Nat
    BY DEF TypeOK
  <2> QED BY <1>1, <1>3, <2>1, StampTimes DEF Clock
<1>6. Fresh'
  BY <1>1, <1>2, <1>3, <1>4, StampTimes DEF Fresh
<1>7. Pending' <=> Pending
  BY <1>3, <1>4 DEF Pending
<1>8. InSync' <=> InSync
  BY <1>3, <1>4 DEF InSync
<1>9. CASE w = "tray"
  <2>1. Known'
    BY <1>1, <1>3, <1>9 DEF Known
  <2>2. Early'
    BY <1>1, <1>3, <1>9, Names DEF Early
  <2> QED BY <1>5, <1>6, <2>1, <2>2
<1>10. CASE w \in Windows
  <2>1. at'["tray"] = at["tray"] /\ fd'["tray"] = fd["tray"]
    BY <1>3, <1>10, Names
  <2>2. at["tray"] = "write" => fd["tray"] # 0
    BY Names DEF TypeOK
  <2>3. Known'
    BY <1>1, <1>3, <1>4, <1>7, <1>8, <2>1, <2>2, Names DEF Known, parses
  <2>4. watch # "first"
    BY <1>3, <1>10 DEF Early
  <2> QED BY <1>3, <1>5, <1>6, <2>3, <2>4 DEF Early
<1> QED BY <1>9, <1>10 DEF Writers

LEMMA WriteTmpStep ==
  ASSUME IInv, NEW w \in Writers, WriteTmp(w)
  PROVE  Watched'
<1> USE DEF IInv, Watched
<1> DEFINE n == fd[w]
<1>1. n \in Inodes /\ Stamp(n, edited[w])
  BY DEF WriteTmp, TypeOK
<1>2. /\ UNCHANGED <<path, tmp, edited, trayVars, watcher>> /\ at[w] = "write"
      /\ at'[w] = "rename"
      /\ \A v \in Writers : v # w => at'[v] = at[v] /\ fd'[v] = fd[v]
  BY DEF WriteTmp, Goto, TypeOK
<1>3. path \in Inodes /\ tmp \in Inodes \cup {0} /\ now \in Nat
      /\ last_mtime \in Nat /\ seen \in Nat
  BY DEF TypeOK
<1> HIDE DEF n
<1>4. Clock'
  BY <1>1, <1>2, <1>3, StampTimes DEF Clock
<1>5. Fresh'
  <2> SUFFICES ASSUME tmp # 0 PROVE mtime'[tmp] \notin {mtime'[path], last_mtime, seen}
    BY <1>2 DEF Fresh
  <2>1. tmp # path /\ mtime[tmp] \notin {mtime[path], last_mtime, seen} /\ tmp \in Inodes
    BY <1>3 DEF Fresh
  <2>2. CASE n = tmp
    BY <1>1, <1>3, <2>1, <2>2, StampTimes
  <2>3. CASE n = path
    BY <1>1, <1>3, <2>1, <2>3, StampTimes
  <2>4. CASE n # tmp /\ n # path
    BY <1>1, <1>3, <2>1, <2>4, StampTimes
  <2> QED BY <2>2, <2>3, <2>4
<1>6. CASE n = path
  <2>1. Pending'
    BY <1>1, <1>2, <1>6, StampTimes DEF Pending
  <2>2. watch # "first"
    <3> SUFFICES ASSUME watch = "first" PROVE FALSE
      OBVIOUS
    <3>1. w = "tray"
      BY <1>2 DEF Early, Writers
    <3>2. n = tmp /\ tmp # 0
      BY <1>1, <1>2, <3>1, Names DEF Early, n
    <3> QED BY <1>6, <3>2 DEF Fresh
  <2> QED BY <1>2, <1>4, <1>5, <2>1, <2>2 DEF Known, Early
<1>7. CASE n # path
  <2>1. content'[path] = content[path] /\ mtime'[path] = mtime[path]
    BY <1>1, <1>3, <1>7, StampTimes
  <2>2. (Pending' <=> Pending) /\ (InSync' <=> InSync)
    BY <1>2, <2>1 DEF Pending, InSync
  <2>3. CASE w = "tray"
    <3>1. ~Pending \/ watch = "first" => n = tmp /\ tmp # 0
      BY <1>1, <1>2, <2>3, Names DEF Known, Early, n
    <3>2. Known'
      BY <1>2, <2>2, <2>3, <3>1 DEF Known
    <3>3. Early'
      <4> SUFFICES ASSUME watch = "first" PROVE Early'
        BY <1>2 DEF Early
      <4>1. n = tmp /\ tmp # 0 /\ content'[tmp] = edited["tray"]
        BY <1>1, <2>3, <3>1, StampTimes
      <4>2. \A s \in Windows : at'[s] = at[s]
        BY <1>2, <2>3, Names
      <4> QED BY <1>2, <2>3, <4>1, <4>2 DEF Early
    <3> QED BY <1>4, <1>5, <3>2, <3>3
  <2>4. CASE w \in Windows
    <3>1. at'["tray"] = at["tray"] /\ fd'["tray"] = fd["tray"]
      BY <1>2, <2>4, Names
    <3>2. Known'
      BY <1>2, <2>1, <2>2, <3>1 DEF Known, parses
    <3>3. watch # "first"
      BY <1>2, <2>4 DEF Early
    <3> QED BY <1>2, <1>4, <1>5, <3>2, <3>3 DEF Early
  <2> QED BY <2>3, <2>4 DEF Writers
<1> QED BY <1>6, <1>7

LEMMA RenameTmpStep ==
  ASSUME IInv, NEW w \in Writers, RenameTmp(w)
  PROVE  Watched'
<1> USE DEF IInv, Watched
<1>1. /\ UNCHANGED <<content, mtime, now, fd, edited, trayVars, watcher>>
      /\ at[w] = "rename" /\ at'[w] = Done(w)
      /\ \A v \in Writers : v # w => at'[v] = at[v]
      /\ IF tmp = 0 THEN UNCHANGED <<path, tmp>> ELSE path' = tmp /\ tmp' = 0
  BY DEF RenameTmp, Goto, TypeOK
<1>2. Clock'
  BY <1>1 DEF Clock
<1>3. Fresh'
  BY <1>1, Names DEF Fresh, TypeOK
<1>4. watch = "first" => w = "tray"
  BY <1>1 DEF Early, Writers
<1>5. CASE tmp = 0
  <2>1. watch # "first" /\ (w = "tray" => Pending)
    BY <1>1, <1>4, <1>5 DEF Early, Known
  <2>2. w # "tray" => at'["tray"] = at["tray"]
    BY <1>1, Names
  <2>3. (Pending' <=> Pending) /\ (InSync' <=> InSync)
    BY <1>1, <1>5 DEF Pending, InSync
  <2>4. Known'
    BY <1>1, <1>5, <2>1, <2>2, <2>3 DEF Known, parses
  <2> QED BY <1>1, <1>2, <1>3, <2>1, <2>4 DEF Early
<1>6. CASE tmp # 0
  <2>1. Pending'
    BY <1>1, <1>6 DEF Pending, Fresh
  <2>2. Early'
    <3> SUFFICES ASSUME watch = "first" PROVE Early'
      BY <1>1 DEF Early
    <3>1. /\ content[tmp] = cfg /\ always_on_top = cfg.top
          /\ at'["tray"] = "closed" /\ \A s \in Windows : at'[s] = at[s]
      BY <1>1, <1>4, Names DEF Early, Done
    <3>2. InSync'
      BY <1>1, <1>6, <3>1 DEF InSync
    <3> QED BY <3>1, <3>2 DEF Early
  <2> QED BY <1>2, <1>3, <2>1, <2>2 DEF Known
<1> QED BY <1>5, <1>6

LEMMA SettingsStep ==
  ASSUME ~EarlyEdits, IInv, NEW s \in Windows, OpenSettings(s) \/ Edit(s) \/ CloseSettings(s)
  PROVE  Watched'
<1> USE DEF IInv, Watched
<1>1. UNCHANGED <<disk, trayVars, watcher>>
  BY DEF OpenSettings, Edit, CloseSettings
<1>2. Clock' /\ Fresh'
  BY <1>1, StillStep
<1>3. /\ at'["tray"] = at["tray"] /\ fd'["tray"] = fd["tray"]
      /\ edited'["tray"] = edited["tray"]
  BY Names DEF OpenSettings, Edit, CloseSettings, Goto, TypeOK
<1>4. Known'
  BY <1>1, <1>3 DEF Known, Pending, InSync, parses
<1>5. watch = "first" => \A t \in Windows : at'[t] \in {"closed", "open"}
  BY Names DEF Early, OpenSettings, Edit, MayEdit, CloseSettings, Goto, TypeOK
<1>6. Early'
  BY <1>1, <1>3, <1>5 DEF Early, InSync, parses
<1> QED BY <1>2, <1>4, <1>6

LEMMA HandEditStep ==
  ASSUME ~EarlyEdits, IInv, HandEdit
  PROVE  Watched'
<1> USE DEF IInv, Watched
<1>1. PICK c \in {Torn, [engine |-> "B", top |-> FALSE]} : Stamp(path, c)
  BY DEF HandEdit
<1>2. path \in Inodes /\ tmp \in Inodes \cup {0} /\ now \in Nat
      /\ last_mtime \in Nat /\ seen \in Nat
  BY DEF TypeOK
<1>3. UNCHANGED <<path, tmp, writers, trayVars, watcher>> /\ watch # "first"
  BY DEF HandEdit, MayEdit
<1>4. Clock'
  BY <1>1, <1>2, <1>3, StampTimes DEF Clock
<1>5. Fresh'
  BY <1>1, <1>2, <1>3, StampTimes DEF Fresh
<1>6. Pending'
  BY <1>1, <1>2, <1>3, StampTimes DEF Pending
<1> QED BY <1>3, <1>4, <1>5, <1>6 DEF Known, Early

LEMMA TrayStep ==
  ASSUME IInv, ToggleOnTop \/ StartStop \/ Restart \/ OnConfigChanged
  PROVE  Watched'
<1> USE DEF IInv, Watched
<1>1. UNCHANGED <<disk, watcher, fd>> /\ at["tray"] = "closed"
      /\ \A s \in Windows : at'[s] = at[s]
  BY Names DEF ToggleOnTop, StartStop, Restart, OnConfigChanged, Idle, Goto, TypeOK
<1>2. Clock' /\ Fresh'
  BY <1>1, StillStep
<1>3. CASE ToggleOnTop
  <2>1. at'["tray"] = "check"
    BY <1>3, Names DEF ToggleOnTop, Goto, TypeOK
  <2>2. edited'["tray"] = cfg' /\ always_on_top' = cfg'.top
    BY <1>3, Names, ConfigFields DEF ToggleOnTop, TypeOK
  <2> QED BY <1>1, <1>2, <2>1, <2>2 DEF Known, Early
<1>4. CASE StartStop \/ Restart
  <2>1. UNCHANGED <<at, always_on_top, told>> /\ (cfg' = cfg \/ cfg' = reload_config)
    BY <1>4 DEF StartStop, Restart
  <2>2. parses(path) /\ InSync => InSync'
    BY <1>1, <2>1 DEF InSync, reload_config
  <2>3. Known'
    BY <1>1, <2>1, <2>2 DEF Known, Pending, parses
  <2>4. Early'
    BY <1>1, <2>1, <2>2 DEF Early, parses
  <2> QED BY <1>2, <2>3, <2>4
<1>5. CASE OnConfigChanged
  <2>1. UNCHANGED at
    BY <1>5 DEF OnConfigChanged
  <2>2. parses(path) => InSync'
    BY <1>1, <1>5 DEF OnConfigChanged, TakeOver, InSync
  <2> QED BY <1>1, <1>2, <2>1, <2>2 DEF Known, Early, parses
<1> QED BY <1>3, <1>4, <1>5

LEMMA WatcherStep ==
  ASSUME IInv, Watcher
  PROVE  Watched'
<1> USE DEF IInv, Watched
<1>1. UNCHANGED <<disk, writers, cfg, always_on_top, engine>> /\ watch' # "first"
  BY DEF Watcher, FirstLook, Poll, Tell
<1>2. mtime[path] <= now /\ (tmp # 0 => mtime[tmp] # mtime[path])
  BY DEF Clock, Fresh, TypeOK
<1>3. last_mtime' \in {last_mtime, seen, mtime[path]} /\ seen' \in {seen, mtime[path]}
  BY DEF Watcher, FirstLook, Poll, Tell
<1>4. Clock' /\ Fresh'
  BY <1>1, <1>2, <1>3 DEF Clock, Fresh
<1>5. CASE FirstLook
  <2>1. Known'
    BY <1>1, <1>5 DEF FirstLook, Known, Early, InSync, parses
  <2> QED BY <1>1, <1>4, <2>1 DEF Early
<1>6. CASE Poll \/ Tell
  <2>1. Pending'
    BY <1>6 DEF Poll, Tell, Pending, TypeOK
  <2> QED BY <1>1, <1>4, <2>1 DEF Known, Early
<1> QED BY <1>5, <1>6 DEF Watcher

(* The invariant is inductive.                                             *)
LEMMA StepIInv == ~EarlyEdits /\ IInv /\ [Next]_vars => IInv'
<1> SUFFICES ASSUME ~EarlyEdits, IInv, [Next]_vars PROVE IInv'
  OBVIOUS
<1>1. TypeOK'
  BY TypeStep DEF IInv
<1>2. CASE UNCHANGED vars
  BY <1>1, <1>2
     DEF IInv, Watched, Clock, Fresh, Known, Early, Pending, InSync, parses, TrayIsNoWindow
<1>3. CASE Next
  <2>1. Watched'
    BY <1>3, CheckFileStep, CreateTmpStep, WriteTmpStep, RenameTmpStep, SettingsStep,
       HandEditStep, TrayStep, WatcherStep DEF Next, Save
  <2>2. TrayIsNoWindow'
    BY <1>3, Names
       DEF IInv, TypeOK, TrayIsNoWindow, Next, Save, CheckFile, CreateTmp, WriteTmp, RenameTmp,
           Goto, Done, OpenSettings, Edit, CloseSettings, HandEdit, ToggleOnTop, StartStop,
           Restart, OnConfigChanged, Watcher, FirstLook, Poll, Tell
  <2> QED BY <1>1, <2>1, <2>2 DEF IInv
<1> QED BY <1>2, <1>3

(* With edits only once the watcher looks, no change of the file is ever   *)
(* taken for one that was already told.                                    *)
THEOREM InvariantHolds ==
  ASSUME ~EarlyEdits
  PROVE  Spec => []IInv
BY InitIInv, StepIInv, PTL DEF Spec

(* Once nothing is under way the tray holds what the file says, whoever    *)
(* wrote it and in whatever order.                                         *)
THEOREM CacheIsTheFileHolds ==
  ASSUME ~EarlyEdits
  PROVE  Spec => []CacheIsTheFile
<1>1. IInv => CacheIsTheFile
  <2> SUFFICES ASSUME IInv, Settled, parses(path) PROVE InSync
    BY DEF CacheIsTheFile, InSync
  <2>1. ~Pending /\ at["tray"] = "closed"
    BY Names DEF Settled, Pending, IInv, TypeOK, TrayIsNoWindow
  <2> QED BY <2>1 DEF IInv, Watched, Known
<1> QED BY <1>1, InvariantHolds, PTL
=============================================================================
