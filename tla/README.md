# Popyachsa AirPlay in TLA+

Popyachsa AirPlay is a tray application that turns a desktop into an AirPlay
receiver. The tray (Rust, `app/src`) hosts a patched UxPlay (C++,
`uxplay-patches`) as an in-process library, `uxplay-core`, and shows what it is
doing. These modules model how the parts start, stop, fail and talk to each
other, across the threads and processes they run on, and what they leave on the
disk. TLC checks them on small instances and TLAPS proves the main safety
properties for every value of the constants.

## The system

| Part | State it keeps | Operations | Talks to |
|---|---|---|---|
| Tray event loop (`main.rs`) | `current_status`, the menu and its ids, `ENGINE_FAILED`, `IN_FLIGHT`, cached `Config` | status, menu, config, update events | calls the engine; gets `Status` over a channel; watches `config.json` |
| Windows engine (`engine.rs`) | `running`, `stop_req`, `hwnd`, thread handle; statics `CB_HWND`, `CONNECTED`, `ASPECT_WH` | `start`, `stop`, `restart`; worker `run_host_window`; `engine_log_cb` | loads and drives `uxplay-core`; sends `Status`; window messages |
| Linux engine (`engine_linux.rs`) | the same, with `ENGINE_ACTIVE`, `CONN_GEN`, `RESIZE_GEN` instead of `CB_HWND` | the same, a 50 ms poll loop instead of a pump | the same |
| macOS engine (`engine_macos.rs`) | `running`, `transitioning`, `queued`, `next_cfg`, join handle, `pending_refit` | `start`, `begin`, `on_engine_stopped`, `stop_blocking`, `refit_mirror` | teardown on a throw-away thread that sends `EngineStopped` |
| Run flags (`status.rs`) | `START_FAILED`, `PIN_IGNORED` | set by log callbacks, reset per run, consumed by the tray | both sides |
| uxplay-core (`airplay_core.cpp`, fork of `uxplay.cpp`) | `running`, worker thread; `shutdown_requested`, `gmainloop`, `relaunch_video`, `reset_loop` | `start`, `stop`, `destroy`; `airplay_run_blocking`, `main_loop` | log forward to the host |
| Configuration (`config.rs`, `settings_ui.rs`) | `config.json`, its temporary file, a copy in each process | `try_load`, `save` | watcher in the tray |
| Updates (`update*.rs`, `bin/updater.rs`) | staged and old installations, a working copy of the AppImage | check, download, verify, swap, roll back, relaunch | tray events, a separate updater process on Windows |
| macOS video sink (`avsample_sink.m`) | layer, format | create, enqueue, destroy | GStreamer threads, main queue |

Who runs where: the tray's handlers and the engine calls they make share one
thread; every start spawns a worker; UxPlay logs from several threads of its own;
`uxplay-core` runs its GMainLoop on one more; the watcher, update checks and
installs have a thread each, Settings and the Windows updater a process each.
Nothing but atomics, one mutex per core and the queues orders the threads, and
nothing but renames orders the processes.

What is hard: a stop that lands while nothing is there to be stopped yet; a
worker that ends by itself while the tray believes it runs; callbacks that check
a window handle and use it later; flags and statics shared by successive runs;
events of one run that arrive during the next; a counter sampled every 50 ms; a
reconnect racing a shutdown; three writers of one file; a crash between two
renames. `PROJECT.json` lists these hazards at their lines with the properties
that watch them.

What makes each part correct:

* engine: one engine at a time, stop always returns, the window outlives whatever
  renders or posts into it and is fitted to the video, every exit releases the
  running slot;
* tray: once events have settled, status, menu and window agree with the engine;
  failures are torn down and shown; Quit ends the process;
* core: a stop request is never lost and never leaks into the next run, nothing is
  left after stop, a lost client alone does not end the receiver;
* configuration: the tray ends up with what the file says, and restarts the engine
  only for a reason;
* updates: one install at a time; after any failure or crash an installation exists
  that is wholly old or wholly new.

## The modules

| Module | Models |
|---|---|
| `CoreContract` | abstract: what `uxplay-core` promises its host, in three booleans: up, alive, stopping |
| `AirplayCore` | the core behind its C ABI: host threads and worker; implements `CoreContract` |
| `EngineWindows` | the Windows engine, with the core reduced to what callbacks can tell; keeps to `CoreContract` from the other side |
| `EngineLinux` | the Linux engine: the handle, the poll loop, the log callback |
| `Tray` | the event loop, over the engine variables it shares with the Windows or the Linux engine |
| `ReceiverWindows`, `ReceiverLinux` | `Tray` composed with either engine: the applications |
| `EngineMac`, `ReceiverMac` | the macOS engine with its teardown thread, and the macOS event loop on top of it |
| `Fitting` | the integer arithmetic by which all engines fit the window to the video |
| `FitLinux`, `FitWindows`, `FitMac` | sizes, full screen, keys and drags against the window of each system |
| `Mirror` | the three composed as alternatives, with the properties they share |
| `ConfigFile` | `config.json`, the tray, Settings windows, an editor, and the watcher |
| `Installation` | abstract: what every updater promises of the files the user is left with |
| `UpdaterWindows` | `updater.exe`: recovery, staging, swap, roll-back; implements `Installation` |
| `UpdateFlow` | checks, clicks, the latch and the install threads of the tray off Windows |
| `UpdateMac`, `UpdateLinux` | what an install does to the bundle, or to the AppImage, the delta tool's process included |
| `UpdateUnix` | `UpdateFlow` with either of them; implements `Installation` |
| `*Proofs` | theorems about the module they are named after |

`CoreContract` is the joint between the two detailed halves: `AirplayCore` is
shown to implement it, `EngineWindows` and `ReceiverMac` to stay within it, so neither
model needs the other's detail. `Installation` is two lines, an old build that
may become the new one; two mechanisms that share no code implement it.

`UpdateUnix` and `Mirror` put systems side by side that are compiled one at a
time (`cfg(target_os)`): a behaviour picks one of them in its first state and
keeps it. What the systems owe the user is the same, is stated once, and is
checked of all of them.

### EngineWindows

A run is one worker thread and its number stands for its HWND; 0 is no window.
`call` is the tray thread's place inside `Engine::stop/start/restart`: every
shared access there is a step (`StopRequest`, `StopPost`, `StopJoin`,
`StartClaim`, `StartSpawn`), with other threads in between. `worker[r]` is the
place of run `r` inside `run_host_window`; its actions are the stretches between
accesses other threads can see. Window creation and the two stores of the HWND
are one step, since nobody else acts on either between them: a stop that reads
0 just before is the order the handshake is about, and the model has it. The
message queue of the window is a sequence, `quit` is `PostQuitMessage`;
`GetMessage` yields the timer only when nothing is posted, and `WM_QUIT` last.

`engine_log_cb` is three steps per line: the read of `CB_HWND` (`LogLine`), the
flag (`LogSwap`) and the status or message (`LogSend`). What UxPlay may log
depends on `core`: a fatal or an ignored-pin line during startup, the
connect and teardown markers once it serves. `LogThreads` threads do this at once.
`ap.stop()` is one step enabled when no callback is in progress: that is the
contract, see `CoreContract`.

`Failures` selects which starts may fail: spawning the thread, creating the
window, loading the library, a setter or `ap.start()`, or a fatal line after it.
`device` and `failed` are observations: the last connect or teardown marker
logged, and the newest run that failed. `lines` and `calls` only enforce bounds.
The system's own loop, which pumps while the user drags the window, is not here
but in `FitWindows`.

### EngineLinux

The same handle, but there is one X connection per worker and no message queue:
the log callback stores `CONNECTED` and bumps `CONN_GEN`, in two steps, and the
worker samples the counter in each turn of its loop (`poll`, `events`, `sample`,
`react`). `ENGINE_ACTIVE` gates the callbacks. `mapped` is the window on screen,
`last_gen` the worker's copy of the counter. The way out is cut at each thing
another thread can see: `leave`, `clear`, `stopping`, `drop`, `close`, `closing`.

### Tray, ReceiverWindows and ReceiverLinux

A handler that calls the engine is an action before the call and one after it has
returned; the engine's own steps, and other threads', run in between. `shown` is
what the menu and the icon were last built from; rebuilding the menu drops queued
clicks, because they carry ids no branch matches any more. A config change is an
engine restart, a menu rebuild, or nothing (unparsable file). The tray's
process-wide flags `START_FAILED` and `PIN_IGNORED` are shared with the engine.
Update events and always-on-top are in `UpdateFlow` and `ConfigFile`.

### EngineMac and ReceiverMac

On macOS nothing of the engine is shared: the main thread owns `inner`, and each
call of a handler is one operator (`start`, `begin`, `on_engine_stopped`), so a
handler is one action. What runs beside it is the teardown thread (`StopCore`,
`signal_engine_stopped`) and UxPlay's threads (`LogSwap`, `LogSend`). The two
exceptions are the handler of a failed start, cut between the swap of
`START_FAILED` and the stop, and `stop_blocking`, cut at its wait (`task = "quit"`).
The wait ends when the engine is down (`TornDown`) or at any moment (`late`).
`begin` is `Lifecycle` and what it does to the window; the handler of a failed start
hides the window in any case. A start that fails has reset the flags of the run
before if it got as far as `ap.start()` (`FailsLate`).

A configuration is the version of `config.json` it was read from, 0 is `None`;
`next_cfg`, `queued` and `airplay` hold such numbers, so that the model can tell
with which configuration the engine was started. `queued` is the Option around the
request: `<<>>` or `<<req>>`. `statusQ` and `stopped` are two queues because the
code has two bridge threads. `intent` (the configuration last asked for by the
user or the watcher) and `late` are observations.

### AirplayCore

The host is one thread at a time inside `airplay_core_stop` (the `lifecycle` mutex
sees to that), a statement of `airplay_request_shutdown` at a time. The worker
goes through `airplay_run_blocking`: entry, initialisation (which may fail), then
per GMainLoop `NewLoop`, `Publish`, `CheckLatch`, `RunLoop`, the loop,
`Unpublish`, `Unref`, the reconnect gate, the rebuild, and at last the cleanup.
`g_main_loop_quit` clears `is_running`, `g_main_loop_run` sets it, as in GLib, so
a quit in between is lost. `conn_reset` runs on a RAOP thread in two steps, a bus
error or lost feedback quits from inside the loop. `gmainloop` is a plain pointer
read twice in `airplay_request_shutdown`: `QuitLoop` may use either value.

### Fitting, FitLinux, FitWindows, FitMac and Mirror

Sizes are in pixels and every division rounds down, as in the code; `Shaped` says
that a window differs from the video's shape by less than a pixel. How a new size
reaches the window differs:

* Linux: the log callback stores `VIDEO_WH` and bumps `RESIZE_GEN`; a turn of the
  worker's loop handles its X events, then a new size, then a connect or disconnect.
  `whole` is what the window manager shows, `is_fullscreen` what the loop believes.
* Windows: the callback stores `ASPECT_WH` and posts a message, in two steps. While
  `dragging` the system pumps and hands the engine's messages to `wndproc`, which
  knows none of them (`DragPump`). `saved_rect` is the place before full screen.
  What the code sizes is the window as a whole; `FrameWidth` and `FrameHeight` say what
  title bar and borders take of it, and `Content` is the rest, where the video goes.
* macOS: statuses and refits come over two channels. A refit in full screen is put
  off (`pending_refit`) and made good by a later Resized event; `byUser` observes
  that the user chose the size.

### ConfigFile

Names and files are apart: a rename moves a file, and a process that has it open
goes on writing into it. `content` and `mtime` belong to files, `path` and `tmp`
are the two names. A save is four steps (`CheckFile`, `CreateTmp`, `WriteTmp`,
`RenameTmp`), for the tray and for each Settings window, which holds the copy
it was opened on. The watcher is `FirstLook`, `Poll` and, 300 ms later, `Tell`. A
configuration is two settings: always-on-top, which the tray applies live, and
one for all those that need a restart; the tray toggles the first, Settings sets
either (`Edit`, one change per save), an editor both. `Torn` is a file that does not
parse.

### UpdaterWindows, UpdateFlow, UpdateMac, UpdateLinux, UpdateUnix

On Windows a tree gives each file its content (`none`, `torn`, `old`, `new`), so
a copy or an extraction that ends half-way is a tree with such files in it.
Each best-effort `remove_dir_all` may leave any part. `Killed` ends an updater and
`PowerCut` all of them at any step; `RunAgain` is an updater started while the
installation is gone, which only a copy of it in %TEMP% can be. `PowerCut` takes
what was written before as being on the disk, which the updater leaves to the system:
it flushes no file.

`UpdateFlow` is the tray off Windows: check threads, install threads, the latch
`IN_FLIGHT`, and the events that alone relaunch. Ending a process, by Quit, relaunch
or crash, ends its threads where they are, while the disk stays. In `UpdateMac`
`Faults` selects which of the three renames may fail, and files of an earlier staging
that could not be removed are not told apart from those of the new bundle they end up
in; in `UpdateLinux` a thread that has a file open goes on writing into it wherever
the name has moved. `appimageupdatetool` is a process: it opens the working copy
(`RunTool`), and when its tray ends it goes on (`orphans`), writing (`OrphanWrites`)
until it is done (`OrphanEnds`). `OrphansOverlap` says whether a later install may
begin before that.

## The runs

| Run | Bounds |
|---|---|
| `engine_windows` | two calls, two logging threads, all five kinds of failure, two log lines, a user closing the window |
| `receiver_windows` | two clicks or saves, one logging thread, two log lines, failures `setup` and `fatal` |
| `receiver_mac` | three clicks, saves or closed windows, one logging thread, two log lines, all kinds of failure |
| `airplay_core` | two runs, up to four GMainLoops |
| `engine_linux` | two calls, two logging threads, three log lines, all five kinds of failure |
| `receiver_linux` | as `receiver_windows` |
| `updater_windows` | one updater, run up to three times, on three files of which the zip has two |
| `update_unix` | one tray, two install threads, three clicks; failures of the renames aside and in; three files; no install begins while a delta tool is left over |
| `config_file` | one Settings window, one toggle, two edits, one click on Start, Stop or Restart |
| `mirror` | a portrait and a landscape video against a portrait and a landscape screen; two rotations, two keys, three connects, two runs on Linux; four log lines and three acts of the user on Windows and macOS, no frame on Windows |
| `flag_leak`, `orphan_tool` | two statements of the sources that the code does not keep |

`engine_windows`: `TypeOK`; `SingleEngine` (two workers never coexist);
`WindowOutlivesUsers` (the window exists for as long as the core renders into it or a
callback may post to it); `SlotMatchesWorker` (the running slot is neither leaked nor
freed early by any exit); `CallsReturn`; `IdleWindowHidden` (the watchdog);
`KeepsContract`.

`receiver_windows`: `Settles` says that when nothing is in flight the tray's
status, the menu and the window's visibility agree with the engine, `FailureShown`
that a failed start is on display; `FailedEngineTornDown`; `QuitExits`.

`receiver_mac`: `TypeOK`; `LatestIntentWins` (whatever was asked for during a
teardown, once things settle the engine runs with the last request or has failed
and says so); `RunningIsTrue` (`is_running()`, which answers for the future during a
teardown, ends up the truth); `MenuSettles`; `QuitIsClean` (Quit waits for a teardown
of its own and for one begun before it); `QuitExits` (but not for ever); `TransitionsEnd`;
`KeepsContract` (no start over a teardown, one stop at a time).

`airplay_core`: `LatchMeansStop` (the latch is up only for a stop in progress);
`StopReturns` (a stop is never lost, wherever it lands); `Reconnects`; `KeepsContract`.

`engine_linux`: `EngineInvariant`, four facts the code relies on: the display is
open for as long as the core exists; a run starts with nothing of the last one in the
statics; when the loop has seen the newest generation, the window is on screen exactly
while a device is connected; the slot. `CallsReturn`; `ChangeReachesWindow`
(a connect or disconnect reaches the window however it fell between two samples).

`receiver_linux`: `Settles`, where the tray overwrites on its own account a status
that only the worker's loop reports.

`updater_windows`: `TypeOK`; `SaysWhatItDid` (the message of a failed swap tells the
truth about the old build); `KeepsPromise`, the refinement of `Installation`.

`update_unix`: `UpdateInvariant` (one install per tray, the latch held exactly while
it runs, an AppImage reported as installed is the signed one); `KeepsPromise`;
`InstallEnds` (a latch that is taken is freed). All three for one tray, for roll-backs
that succeed and for installs that no delta tool of an ended tray overlaps: what
happens otherwise show `TwoTrays`, `RollbackFails` and `orphan_tool`.

`config_file`: `CacheIsTheFile`; `EngineRunsTheCache` (the test of `needs_restart` is
made against what the engine really runs with); `RestartsForAReason` (a toggle of
always-on-top, which trips the watcher too, restarts nothing); `ChangeReachesTray`
(no change of the file goes unseen, also one that falls into the watcher's wait).

`mirror`: `FitsTheVideo` (once quiet, a window that is neither full screen nor of the
user's own size has the shape of the newest size); `UserDecides` (full screen stays
full screen, a size of the user's own stays until a rotation); `RotationReachesWindow`.
On Windows all three speak of the window with its frame; that the picture inside has
no bars is part of `FitsTheVideo` for a borderless window only (`FramedWindow`).

`flag_leak` (`FailureStopsItsOwnRun`): a run that is being stopped by a restart may
still raise `START_FAILED` and send its Off. Both are pending when the next run has been
spawned but has not yet reset the flags, so the tray takes the new run for the failed
one and stops it (`status.rs:31`, `main.rs:884`).

`orphan_tool` (`VerifiedOnly`): "we operate on a copy and only rename it over the live
`$APPIMAGE` after the bytes hash to the signed value" (`update_linux.rs:14`). The tray
ends, by Quit or a crash, while `appimageupdatetool` writes the `.update` file; the
tool is a child that nothing stops (`update_linux.rs:83`, `main.rs:999`). The tray
started next works on the same file: it is hashed and renamed over the AppImage, and
the tool writes on into it.

### Other disagreements

Each of these configurations makes TLC show a behaviour in which the code does not
do what the quoted line says. They stand beside the runs and are started the same
way (`tlc -config SilentFailure.cfg ReceiverWindows`).

| Configuration, module | Property | What happens |
|---|---|---|
| `SilentFailure`, `ReceiverWindows` | `FailureShown` | "A stopped engine that stopped because it FAILED says so right here" (`main.rs:155`): when the library does not load, or the window cannot be created, no status is sent and the menu keeps offering Stop (`engine.rs:641`); the same on Linux without a display or the library (`engine_linux.rs:297`) |
| `StaleStatusMac`, `ReceiverMac` | `StatusSettles` | "`Off` when the engine is stopped" (`status.rs:3`): the Off of an engine that gave up is handled after a restart has come up and reset `START_FAILED`, and passes for an ordinary one (`main.rs:893`) |
| `MirrorLeftOpen`, `ReceiverMac` | `MirrorHidden` | "show the mirror window while a device streams, hide it otherwise" (`main.rs:894`): a Connected queued before a Stop shows the window after `begin()` has hidden it; the handler of `EngineStopped` corrects the status, not the window |
| `StaleConfigMac`, `ReceiverMac` | `ConfigApplied` | "when the user edits/saves it, reload + restart" (`main.rs:712`): Stop, then Start during the teardown: the Start is queued with its configuration and `is_running()` is false, so a save at that moment does not restart (`main.rs:1051`) |
| `StaleLoop`, `AirplayCore` | `QuitsLiveLoop` | "quit the running GMainLoop" (`clean-full-vs-v1.73.6.diff:3115`): the loop may already be released (`:3123`, `:2089`) |
| `TwoUpdaters`, `UpdaterWindows` | `Whole` | "without ever leaving the live directory half-written" (`updater.rs:188`): nothing keeps a second updater out of `<dir>.new`, and the two leave a mixture (`updater.rs:230`) |
| `RollbackFails`, `UpdateMac` | `Whole` | "a failed or tampered update leaves the running install untouched" (`update_macos.rs:9`): the result of the roll-back is dropped (`:106`); if it fails too, and the next attempt clears `.app.old`, no bundle is left |
| `QuitMidSwap`, `UpdateMac` | `Startable` | "atomically swap the bundle" (`update_macos.rs:9`): a Quit between the two renames leaves nothing to start |
| `SecondInstall`, `UpdateMac` | `SuccessIsLast` | "a success exits the process" (`main.rs:383`): the latch is freed before the success is handled, and a queued check starts a second install |
| `TwoTrays`, `UpdateLinux` | `VerifiedOnly` | "only rename it over the live `$APPIMAGE` after the bytes hash to the signed value" (`update_linux.rs:14`): two trays, which nothing forbids on Linux, share the working copy; one renames what the other has begun to write |
| `SharedTmp`, `ConfigFile` | `SavesAreWhole` | "a crash/power-loss mid-write must NOT truncate the live config" (`config.rs:197`): the tray and Settings use one temporary file; one truncates it, the other renames it |
| `DefaultsSaved`, `ConfigFile` | `DefaultsNeverReplace` | "would trade the user's real settings for defaults" (`config.rs:184`): the guard looks at the file, not at where the saved copy came from |
| `EarlyEdit`, `ConfigFile` | `CacheIsTheFile` | "when the user edits/saves it, reload" (`main.rs:712`): an edit between the tray's load and the watcher's first look is its starting point (`main.rs:718`) |
| `FramedWindow`, `FitWindows` | `NoBars` | "keep the window at the video aspect so no black bars ever appear" (`engine.rs:363`), "so the windowed view has no black bars" (`:301`): fit and drag give the aspect to the window with its title bar and borders (`:496`, `:378`), so with the frame it has by default (`config.rs:119`) what is left for the video has another |
| `LostInDrag`, `FitWindows` | `StatusFollowsDevice` | "Device disconnected: hide the window" (`engine.rs:721`): a message that arrives while the user drags the window goes to `wndproc` (`engine.rs:336`) and is lost |
| `UnfittedRun`, `FitWindows` | `RectFits` | "Video frame size -> fit the window" (`engine.rs:171`): `ASPECT_WH` outlives the run, so the same device after a restart posts no resize to the new window |
| `FullscreenMac`, `FitMac` | `FitsTheVideo` | "apply it on `on_window_resized` once we're windowed again" (`engine_macos.rs:637`): with the full-screen setting on, a rotation in a window that is not full screen is only remembered |

One comment is out of date without anything going wrong: the latch is "cleared at
the top of airplay_run_blocking()" (`clean-full-vs-v1.73.6.diff:1873`), but the host
clears it, deliberately, before it spawns the worker (`:2925`).

### Bounds, and why they are enough

* Two calls on the engine: a start and a stop or restart that catch the worker
  anywhere, which is what the handshake and the slot are about; a restart already
  brings two runs. The proofs remove this bound.
* Two log lines: a connect and its teardown, or a fatal line beside another. Three
  on Linux: a counter that moves twice between two samples, and once more.
* Two tray events after the optional autostart: a start, then a restart, stop or
  save, then Quit, with status events around them. On macOS three, for a stop, a
  start behind its teardown and a third request on top.
* Four GMainLoops over two runs: the shutdown meets a first loop, a rebuilt one
  and the gap between them, in a first run and in one that follows a stop.
* Three updater runs: one that is killed anywhere, one that recovers from it and is
  killed in turn, and a third. Three files: two the zip carries, so that it can
  end between them, and the installer's own.
* Three clicks on the update item and two install threads: an install, one that
  begins before the first has been handled, and a check besides.
* Two edits and a toggle: the second write may fall into the watcher's wait for the
  first, and the tray's own write between them.
* Two shapes of video and of screen, 886 x 1920 and 768 x 1366 either way: their
  quotients are not whole, so rounding happens, and a landscape video meets a
  portrait screen. `MirrorProofs` removes this bound, and names the one case in which
  a window cannot be seen: an aspect so extreme that a side rounds down to 0.

The Windows and Linux tray runs allow one logging thread. With two, the order of a
connect and a teardown logged at the same moment is the order in which UxPlay's
threads swap `CONNECTED`, and the messages may be posted in the other one; whether
UxPlay can log both at once is decided by library code that is not in this
repository, so no finding is made of it. On Linux, where the worker reports devices
itself, a late notice about the PIN ("Ready") can still overtake a device. They also leave out `spawn` and the
failures of window, display and library: the latter are `SilentFailure`, and a thread
that cannot be spawned during a restart on a config change leaves the status as it was.

In `mirror` nothing is logged while the user drags the window, Windows has one run,
and "fullscreen on connect" is off on macOS: the three cases are `LostInDrag`,
`UnfittedRun` and `FullscreenMac`. The window of the run on Windows is borderless, so
that the frame is nothing and the bars can be judged; `MirrorProofs` has any frame. In
`update_unix` the roll-back succeeds, there is one tray, and no install begins before
the delta tool of an ended tray is done; in `config_file` no edit precedes the
watcher's first look.

### Fairness

Weak fairness of each thread that has something to do: the tray thread inside a
call, workers, callbacks, the event loop, the watcher, an install that has begun,
`airplay_core_stop`, the core's worker with its 100 ms tick, and the delta tool. The operating system
runs them and none of them waits for the user. Users, devices, clients, the video
sink, crashes and the core's startup are never fair: no property relies on them
acting. The one thing asked of a user is to let go of a window he drags, in
`mirror`. On macOS the teardown thread is not fair: `QuitExits` has to hold even if
`ap.stop()` never returns. `TransitionsEnd` assumes that it does (strong fairness,
since a callback in progress holds it up each time). `receiver_linux` and
`updater_windows` check safety only: the tray's liveness is that of the same `Tray`
on Windows, and an updater that is killed owes nothing but what it leaves.

Deadlock is not checked: each system legitimately stops, at the bounds, after Quit
or when no one calls.

## The theorems

The properties are not inductive as they stand; each proof module gives the
invariant that is, one lemma per action or kind of action that preserves it, and
the theorems that follow. The assumptions are the named ones on the constants and,
where said, a hypothesis of the theorem.

`ReceiverWindowsProofs` has two halves. The engine: for any set of logging threads,
failures and any bounds, `TypeOK`, `SingleEngine`, `StopHandshake`, `WindowOutlivesUsers`, `SlotMatchesWorker`
and the safety part of `KeepsContract`. `IInv` adds what the code relies on silently:

* `WorkerIsNewest`: the only worker is the last one spawned, since `start` joins
  the one before;
* `WindowFollowsWorker`: the place of the worker says whether its window exists and
  what `hwnd` and `CB_HWND` hold;
* `CoreFollowsWorker`: the core is up only between `ap.start()` and `ap.stop()`,
  with `CB_HWND` this run's window or 0;
* `LogFollowsCore`: a callback in progress belongs to the run whose core is up;
* `SlotHeld`: `running` is what the worker's place says, except between the claim
  and the spawn, when no worker that could clear it is left;
* `StopAnnounced`: `stop_req` is up from its store to the join.

The application: `EngineInvariantInApp` says that the engine keeps this invariant
when the tray's handlers make the calls. `FailureShown`, `MenuSettles` and `Settles`
follow from `AppIInv` and `DeviceIInv`, which say where a piece of news is while
it is on its way:

* `CallsOfTasks`: which calls a handler may be waiting in, and that one which stops the
  engine goes on only when no worker is left;
* `Told`: a handler that has started an engine is followed by a status, so that one
  which does not rebuild the menu leaves the reason for a rebuild behind;
* `QueueEndsOff`: a run that is over has said so last; the tray itself sets "Off" only
  for a run that has;
* `FailedRun`, `FailureKnown`: `START_FAILED` belongs to the newest run or to none that
  is up, and a failure is flagged with its Off queued, being handled, latched with the
  run torn down, or about to be left behind by a start;
* `MenuCurrent`: with the channel empty and nothing to announce, the menu is current;
* `NoDeviceYet`, `DeviceReachesTray`: a device passes from the log line to `CONNECTED`,
  to the window's queue and to the status channel, and where nothing is on its way
  between two of these they agree.

`FailureShown` and `Settles` assume `FailuresAreReported`: among the failures considered
are those the code sends a status for (`setup`, `fatal`). For the others they are false
(`SilentFailure`). `Settles` also assumes `OneLogger`, for the reason given under
Bounds: with two threads logging at once TLC finds it false on either system.

`ReceiverLinuxProofs`, likewise. The engine: `EngineInvariant`, for any logging threads,
failures and bounds.
`DisplayFollowsWorker` and `CoreFollowsWorker` tie display and core to the worker's
place; `GenerationGrows` says that the worker's copy of the counter is never ahead;
`WindowIsNewest`, that a window which differs from `CONNECTED` differs because a bump
is due or unseen; `Unconnected`, that a worker which has prepared its run starts with
`CONNECTED` down and the counter seen. The application: `FailureShown`, `MenuSettles` and
`Settles`, by the same parts and from the same hypotheses. In the place of
`DeviceReachesTray` stands `StatusFollowsWindow`, since here it is the worker's loop that
reports a device: the last status sent is what it last did to the window.

`AirplayCoreProofs`: `TypeOK`, `LatchMeansStop`, `QuietAfterStop` and the safety part
of `KeepsContract` for any number of runs and loops, from `WorkerFollowsRunning`,
`LoopFollowsWorker` and `LatchMeansStop` itself.

`ReceiverMacProofs`, for the whole macOS application: `TypeOK`, `LatestIntentWins`,
`RunningIsTrue`, `MenuSettles`, `QuitIsClean` and `KeepsContract`. They speak of settled states only;
`IInv` says what holds meanwhile:

* `EngineFollowsInner`: the core is up while the main thread holds it or a thread
  is stopping it, and `transitioning` lasts from the start of a teardown until its
  one EngineStopped has been handled;
* `RequestsPending`: during a teardown `running` is true exactly if a restart is
  pending, otherwise exactly if there is an engine;
* `IntentKept`: the target, which is the queued request, else `next_cfg`, else what
  runs, is the last intent, or 0 with the failure recorded or its Off in `statusQ`.

`UpdaterWindowsProofs`: `TypeOK`, `SaysWhatItDid` and `KeepsPromise`, for any set of
files and any number of runs, with at most one updater process (`OneUpdater`; without
it they are false, see `TwoUpdaters`). `IInv` says what each place may count on, which
is what the next step or a later recovery needs: a copy has all files it is past,
an extraction those of the zip it is past, so at the renames `<dir>.new` is the whole
new build; between the renames the old build is in `<dir>.old`; and whatever place
an updater was killed at, `<dir>` is whole, or it is absent and `<dir>.old` is whole.

`UpdateUnixProofs`: that a tray never runs two installs and holds its latch exactly
while one runs, for any number of trays and any failures (`OneInstallHolds`); and
`UpdateInvariant` and `KeepsPromise` for one tray (`OneTray`), roll-backs that succeed
(`"back" \notin Faults`) and installs that no left-over delta tool overlaps
(`~OrphansOverlap`). The code guarantees none of the three: without them the two are
false, see `TwoTrays`, `RollbackFails` and `orphan_tool`. The flow is proved once, for any set of places an install goes
through, and the disk for each system on top of it: one install at a time makes the
disk that thread's own. On macOS, without a bundle at its path the old one is aside
and the thread that put it there is about to put one back, or its tray has ended and
none can start; on Linux, what is being written is not the AppImage, and what is about to be renamed
over it is the signed build. A left-over tool writes to neither, once it is known that
no install runs while there is one.

`ConfigFileProofs`: `TypeOK`, `EngineRunsTheCache` and `RestartsForAReason` for any
number of Settings windows and edits, and `CacheIsTheFile` if no edit precedes the
watcher's first look (`~EarlyEdits`; without it `EarlyEdit` shows it false). Its `IInv`
relates the watcher's two times to the file's: a time it holds is never that of a
later write (`Clock`, `Fresh`), so either the file is in sync with the tray's copy, or a
change is on its way: told, waiting, or still to be seen (`Known`).

`MirrorProofs`, for videos and screens of any size and any bounds: `UserDecides`, and
`FitsTheVideo` under `NothingVanishes` (no video is so long and narrow that on this screen
a side of its window rounds down to 0; the sizes of the run satisfy it). On Windows that
is the shape of the window with a frame of any width, and the absence of bars only
where there is none. It rests on
lemmas about integer division, of which two are about the code: what `shaped` yields has
the shape of the video to within a pixel and fits into the room (`ShapedFits`), and
its sides are positive unless the video vanishes (`ShapedSound`). The three systems use the same
arithmetic, which is proved about once. `IInv` says for each where a size is that the
window does not have yet:

* `LinuxFit`: in `RESIZE_GEN`, as a bump that is due, or with the loop about to place
  the window; and the window manager shows it whole exactly if it manages it and the
  loop wants it;
* `WindowsFit`, `WindowsStatus`: in a message about to be posted or in the queue; and the
  last message about a device says what `CONNECTED` does;
* `MacFit`: in a refit or a status on its way, or put off by a full screen window or one
  whose Resized event has not been handled.

Only model-checked: everything under fairness (`CallsReturn`, `IdleWindowHidden`,
`FailedEngineTornDown`, `QuitExits`, `StopReturns`, `Reconnects`, `ChangeReachesWindow`,
`ChangeReachesTray`, `InstallEnds`, `RotationReachesWindow`, `TransitionsEnd`, and the
liveness half of `KeepsContract`), which the prover does not reach. Every other property
of the passing runs is a theorem.

## Not modelled

* The text of log lines: a line is of a class (fatal, pin, connect, teardown); that
  `status.rs` puts it in the right one is string matching.
* `airplay-lib` and `airplay-lib-sys`: they forward each call; their use is in
  `CoreContract`. Option strings and `split_args`: they prepare argv before a start.
* The media side of UxPlay: RAOP, HLS, audio, renderers. The patches to them change
  no state the run loop shares with its host.
* `avsample_sink.m`: who owns what a dispatched block captures is decided by the
  Objective-C runtime, which is not in the repository. What the sink does to the
  window is `SinkShows` of `EngineWindows` on Windows.
* `update.rs`: signature and version comparison are functions over text and the rest
  is HTTP; its outcomes are the inputs of `UpdateFlow`. The guards of the zip readers
  against paths that leave the archive are failures of the extraction.
* `net_interfaces.rs`, `monitors.rs`, `autostart.rs`, `fonts.rs`, `i18n.rs`, the egui
  layouts and the stub engine keep no shared state.
* In the engines: `set_topmost`, the hit test of the borderless frame, window hints,
  and placement on a monitor other than the work area.
* In the configuration: JSON itself, the first-run defaults, and every setting but
  one live and one that needs a restart.
* After a crash between the updater's renames nothing that is left can start the
  updater by itself: recovery happens if it is run again, and the model says no more.

## The plan

Written, in this order: the Windows engine with its tray and proofs; the core and
its contract; the macOS application; the Linux engine and application; the
configuration file; the updaters and their promise; the fit of the window; the proofs of
the two tray applications and of the fit. Next:

1. What holds of the Windows fit without the restrictions of `mirror` on drags and
   runs, stated so that `LostInDrag` and `UnfittedRun` are its only exceptions.
2. The macOS status without `StaleStatusMac`: `StatusSettles` for the runs in which
   nothing is restarted over a failure.
3. The sink of macOS, once its ownership rules are written down in the code.
