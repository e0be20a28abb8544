----------------------------- MODULE ConfigFile -----------------------------
(***************************************************************************)
(* config.json (app/src/config.rs) and those who read and replace it: the  *)
(* tray with its cached copy (main.rs), the Settings windows, each with    *)
(* the copy it was opened on (settings_ui.rs), the user's own editor, and  *)
(* the watcher that tells the tray of a change.                            *)
(*                                                                         *)
(* Names and files are apart: a rename moves a file, and a process that    *)
(* has it open goes on writing into it.                                    *)
(***************************************************************************)
EXTENDS Naturals, FiniteSets

CONSTANTS Windows,      \* Settings windows
          EarlyEdits,   \* edits may come before the watcher's first look
          MaxToggles,   \* bound: clicks on "Always on top"
          MaxEdits,     \* bound: changes made in Settings or in an editor
          MaxEngine     \* bound: clicks on Start, Stop and Restart

ASSUME ConstantsAssumption ==
    /\ IsFiniteSet(Windows) /\ "tray" \notin Windows
    /\ EarlyEdits \in BOOLEAN
    /\ MaxToggles \in Nat /\ MaxEdits \in Nat /\ MaxEngine \in Nat

VARIABLES
  path, tmp,      \* the files named config.json and config.json.tmp, 0 for none
  content,        \* what each file holds
  mtime, now,     \* when each was written, by a clock that ticks per write
  at, fd, edited, \* each writer: its place in save(), open file and copy
  cfg, always_on_top,       \* the tray's cached config and its flag
  running, run_engine, run, \* the engine, its settings, and a bit each start flips
  told,           \* ConfigChanged events the tray has not handled
  watch, last_mtime, seen,  \* the watcher: its place, and the mtimes it holds
  toggles, edits, clicks    \* counters behind the bounds

disk == <<path, tmp, content, mtime, now>>
writers == <<at, fd, edited>>
engine == <<running, run_engine, run>>
trayVars == <<cfg, always_on_top, engine, told>>
watcher == <<watch, last_mtime, seen>>
counters == <<toggles, edits, clicks>>
vars == <<disk, writers, trayVars, watcher, counters>>

Writers == Windows \cup {"tray"}
Inodes == 1..(Cardinality(Writers) + 2)

(* A config, cut down to the settings that need a restart of the engine    *)
(* and one that does not.  Nobody chooses the default settings by hand.    *)
Settings == {"default", "A", "B"}
Configs == [engine : Settings, top : BOOLEAN]
Default == [engine |-> "default", top |-> FALSE]
Torn == [torn |-> TRUE]
parses(n) == content[n] # Torn
Places == {"closed", "open", "check", "create", "write", "rename"}

TypeOK ==
  /\ path \in Inodes /\ tmp \in Inodes \cup {0}
  /\ content \in [Inodes -> Configs \cup {Torn}]
  /\ mtime \in [Inodes -> Nat] /\ now \in Nat
  /\ at \in [Writers -> Places] /\ fd \in [Writers -> Inodes \cup {0}]
  /\ edited \in [Writers -> Configs]
  /\ \A w \in Writers : at[w] = "write" <=> fd[w] # 0
  /\ cfg \in Configs /\ always_on_top \in BOOLEAN
  /\ running \in BOOLEAN /\ run_engine \in Settings /\ run \in {0, 1}
  /\ told \in Nat
  /\ watch \in {"off", "first", "poll", "wait"}
  /\ last_mtime \in Nat /\ seen \in Nat
  /\ toggles \in Nat /\ edits \in Nat /\ clicks \in Nat

(* The tray has loaded the file, and autostarted the engine or not.        *)
Init ==
  /\ path = 1 /\ tmp = 0
  /\ \E c \in {[engine |-> "A", top |-> FALSE], Torn} : content = [n \in Inodes |-> c]
  /\ mtime = [n \in Inodes |-> 1] /\ now = 1
  /\ at = [w \in Writers |-> "closed"] /\ fd = [w \in Writers |-> 0]
  /\ edited = [w \in Writers |-> Default]
  /\ cfg = IF parses(1) THEN content[1] ELSE Default
  /\ always_on_top = cfg.top
  /\ running \in BOOLEAN /\ run_engine = cfg.engine /\ run = 0
  /\ told = 0
  /\ watch = "first" /\ last_mtime = 0 /\ seen = 0
  /\ toggles = 0 /\ edits = 0 /\ clicks = 0

try_load == IF parses(path) THEN {content[path]} ELSE {}
reload_config == IF parses(path) THEN content[path] ELSE cfg
MayEdit == edits < MaxEdits /\ (EarlyEdits \/ watch # "first")

----------------------------------------------------------------------------
(* Config::save, by the tray or by a Settings window.                      *)

Goto(w, place) == at' = [at EXCEPT ![w] = place]
Done(w) == IF w = "tray" THEN "closed" ELSE "open"

(* A file that does not parse is not written over.                         *)
CheckFile(w) ==
  /\ at[w] = "check"
  /\ Goto(w, IF parses(path) THEN "create" ELSE Done(w))
  /\ UNCHANGED <<disk, fd, edited, trayVars, watcher, counters>>

Free(n) == n \notin {path, tmp} /\ \A w \in Writers : fd[w] # n

Stamp(n, c) ==
  /\ content' = [content EXCEPT ![n] = c]
  /\ mtime' = [mtime EXCEPT ![n] = now + 1]
  /\ now' = now + 1

(* fs::write: create or truncate config.json.tmp, then fill it.            *)
CreateTmp(w) ==
  /\ at[w] = "create"
  /\ \E n \in Inodes :
       /\ IF tmp = 0 THEN Free(n) ELSE n = tmp
       /\ tmp' = n
       /\ fd' = [fd EXCEPT ![w] = n]
       /\ Stamp(n, Torn)
  /\ Goto(w, "write")
  /\ UNCHANGED <<path, edited, trayVars, watcher, counters>>

WriteTmp(w) ==
  /\ at[w] = "write"
  /\ Stamp(fd[w], edited[w])
  /\ fd' = [fd EXCEPT ![w] = 0]
  /\ Goto(w, "rename")
  /\ UNCHANGED <<path, tmp, edited, trayVars, watcher, counters>>

RenameTmp(w) ==
  /\ at[w] = "rename"
  /\ IF tmp = 0 THEN UNCHANGED <<path, tmp>> ELSE path' = tmp /\ tmp' = 0
  /\ Goto(w, Done(w))
  /\ UNCHANGED <<content, mtime, now, fd, edited, trayVars, watcher, counters>>

Save(w) == CheckFile(w) \/ CreateTmp(w) \/ WriteTmp(w) \/ RenameTmp(w)

----------------------------------------------------------------------------
(* The user: Settings windows and an editor.                               *)

(* A Settings window opens on the file, if that parses.                    *)
OpenSettings(s) ==
  /\ at[s] = "closed"
  /\ \E c \in try_load : edited' = [edited EXCEPT ![s] = c]
  /\ Goto(s, "open")
  /\ UNCHANGED <<disk, fd, trayVars, watcher, counters>>

(* The user changes one setting, always-on-top among them, and clicks      *)
(* Save, which saves the whole copy.                                       *)
Edit(s) ==
  /\ at[s] = "open" /\ MayEdit
  /\ edits' = edits + 1
  /\ \/ \E e \in {"A", "B"} : edited' = [edited EXCEPT ![s].engine = e]
     \/ edited' = [edited EXCEPT ![s].top = ~@]
  /\ edited' # edited
  /\ Goto(s, "check")
  /\ UNCHANGED <<disk, fd, trayVars, watcher, toggles, clicks>>

(* The window is closed, or killed with the tray, at any point of a save.  *)
CloseSettings(s) ==
  /\ at[s] # "closed"
  /\ Goto(s, "closed")
  /\ fd' = [fd EXCEPT ![s] = 0]
  /\ UNCHANGED <<disk, edited, trayVars, watcher, counters>>

(* An editor saves in place, a good file or one with a typo in it.         *)
HandEdit ==
  /\ MayEdit
  /\ edits' = edits + 1
  /\ \E c \in {Torn, [engine |-> "B", top |-> FALSE]} : Stamp(path, c)
  /\ UNCHANGED <<path, tmp, writers, trayVars, watcher, toggles, clicks>>

----------------------------------------------------------------------------
(* The tray.  It handles nothing else while it saves.                      *)

Idle == at["tray"] = "closed"

ToggleOnTop ==
  /\ Idle /\ toggles < MaxToggles
  /\ toggles' = toggles + 1
  /\ always_on_top' = ~always_on_top
  /\ cfg' = [cfg EXCEPT !.top = always_on_top']
  /\ edited' = [edited EXCEPT !["tray"] = cfg']
  /\ Goto("tray", "check")
  /\ UNCHANGED <<disk, fd, engine, told, watcher, edits, clicks>>

StartWith(e) == run_engine' = e /\ run' = 1 - run

StartStop ==
  /\ Idle /\ clicks < MaxEngine
  /\ clicks' = clicks + 1
  /\ running' = ~running
  /\ IF running THEN UNCHANGED <<cfg, run_engine, run>>
     ELSE cfg' = reload_config /\ StartWith(cfg'.engine)
  /\ UNCHANGED <<disk, writers, always_on_top, told, watcher, toggles, edits>>

(* Mutant: the engine restarts with the new settings, the cache stays.     *)
RestartKeepsCache ==
  /\ Idle /\ clicks < MaxEngine
  /\ clicks' = clicks + 1
  /\ running' = TRUE
  /\ StartWith(reload_config.engine)
  /\ UNCHANGED <<disk, writers, cfg, always_on_top, told, watcher, toggles, edits>>

Restart ==
  /\ Idle /\ clicks < MaxEngine
  /\ clicks' = clicks + 1
  /\ running' = TRUE
  /\ cfg' = reload_config /\ StartWith(cfg'.engine)
  /\ UNCHANGED <<disk, writers, always_on_top, told, watcher, toggles, edits>>

(* A config is taken over; the engine, if it runs, is restarted when needed. *)
TakeOver(c, needed) ==
  /\ cfg' = c
  /\ always_on_top' = c.top
  /\ IF running /\ needed THEN StartWith(c.engine) ELSE UNCHANGED <<run_engine, run>>

needs_restart(old, new) == new.engine # old.engine

(* Mutant: any change of the file restarts the engine.                     *)
OnConfigChangedAlways ==
  /\ Idle /\ told > 0
  /\ told' = told - 1
  /\ IF parses(path) THEN TakeOver(content[path], TRUE)
     ELSE UNCHANGED <<cfg, always_on_top, run_engine, run>>
  /\ UNCHANGED <<disk, writers, running, watcher, counters>>

(* ConfigChanged: a file that does not parse changes nothing; the engine   *)
(* is restarted for a setting it needs a restart for, if it runs.          *)
OnConfigChanged ==
  /\ Idle /\ told > 0
  /\ told' = told - 1
  /\ IF parses(path) THEN TakeOver(content[path], needs_restart(cfg, content[path]))
     ELSE UNCHANGED <<cfg, always_on_top, run_engine, run>>
  /\ UNCHANGED <<disk, writers, running, watcher, counters>>

----------------------------------------------------------------------------
(* The watcher.                                                            *)

FirstLook ==
  /\ watch = "first"
  /\ last_mtime' = mtime[path]
  /\ watch' = "poll"
  /\ UNCHANGED <<disk, writers, trayVars, seen, counters>>

Poll ==
  /\ watch = "poll"
  /\ mtime[path] # last_mtime
  /\ seen' = mtime[path]
  /\ watch' = "wait"
  /\ UNCHANGED <<disk, writers, trayVars, last_mtime, counters>>

(* Mutant: a save during the wait puts the event off, for good.            *)
TellOnce ==
  /\ watch = "wait"
  /\ last_mtime' = mtime[path]
  /\ told' = IF seen = mtime[path] THEN told + 1 ELSE told
  /\ watch' = "poll"
  /\ UNCHANGED <<disk, writers, cfg, always_on_top, engine, seen, counters>>

(* It takes the time it saw, not the time it is: a save during the wait is *)
(* a change of its own.                                                    *)
Tell ==
  /\ watch = "wait"
  /\ last_mtime' = seen
  /\ told' = told + 1
  /\ watch' = "poll"
  /\ UNCHANGED <<disk, writers, cfg, always_on_top, engine, seen, counters>>

Watcher == FirstLook \/ Poll \/ Tell

Next ==
  \/ \E w \in Writers : Save(w)
  \/ \E s \in Windows : OpenSettings(s) \/ Edit(s) \/ CloseSettings(s)
  \/ HandEdit
  \/ ToggleOnTop \/ StartStop \/ Restart \/ OnConfigChanged
  \/ Watcher

Spec == Init /\ [][Next]_vars

TrayThread == Save("tray") \/ OnConfigChanged

Fairness == WF_vars(TrayThread) /\ WF_vars(Watcher)

FairSpec == Spec /\ Fairness

----------------------------------------------------------------------------
(* Properties *)

(* Nothing under way: no save, no event, no change to be seen.             *)
Settled ==
  /\ \A w \in Writers : at[w] \in {"closed", "open"}
  /\ told = 0 /\ watch = "poll" /\ mtime[path] = last_mtime

(* "config.json is the truth - the in-memory Config is a cached read":     *)
(* once settled the tray holds what the file says, unless it cannot be     *)
(* read, and the checkmark agrees.                                         *)
CacheIsTheFile ==
  Settled /\ parses(path) => cfg = content[path] /\ always_on_top = cfg.top

(* A running engine runs with the settings the tray believes it has: the   *)
(* test of needs_restart is made against those.                            *)
EngineRunsTheCache == running => run_engine = cfg.engine

(* Only a file with other engine settings than the engine runs with makes  *)
(* the tray restart it: not a live toggle, which trips the watcher too, nor *)
(* a file that does not parse.                                             *)
RestartsForAReason ==
  [][running /\ run' # run /\ told' # told =>
       parses(path) /\ content[path].engine # run_engine]_vars

(* A change of the file reaches the tray.                                  *)
ChangeReachesTray ==
  (watch = "poll" /\ mtime[path] # last_mtime) ~> told > 0

(* "a crash/power-loss mid-write must NOT truncate the live config": no    *)
(* step of a save leaves a file that does not parse under the name.        *)
SavesAreWhole ==
  [][at' # at => content'[path'] \in {content[path]} \cup Configs]_vars

(* "so a one-field write ... would trade the user's real settings for      *)
(* defaults": a save never puts defaults in place of the user's settings.  *)
DefaultsNeverReplace ==
  [][path' # path /\ parses(path) /\ content[path].engine # "default"
       => content'[path'] = Torn \/ content'[path'].engine # "default"]_vars
=============================================================================
