------------------------------ MODULE FitLinux ------------------------------
(***************************************************************************)
(* Fitting the window to the video on Linux (app/src/engine_linux.rs).     *)
(* The log callback leaves the size in VIDEO_WH and then bumps RESIZE_GEN, *)
(* which the worker samples once per turn of its loop, in between the keys *)
(* and the devices.  The X server and the window manager take requests in  *)
(* the order they are made.                                                *)
(*                                                                         *)
(* The end of a run waits for the logging threads: see EngineLinux.        *)
(***************************************************************************)
EXTENDS Fitting, Sequences

CONSTANTS MaxRotations,  \* bound: sizes logged
          MaxPresses,    \* bound: Alt+Enter and Esc pressed
          MaxConnects,   \* bound: devices coming and going
          MaxRuns        \* bound: runs of the worker

VARIABLES
  VIDEO_WH, RESIZE_GEN, CONNECTED,
  bump_due,         \* a size is in VIDEO_WH, RESIZE_GEN not yet bumped
  worker,           \* the place in the loop, "none" outside a run
  last_resize, mapped, is_fullscreen,
  keys,             \* key presses in the X connection
  window, whole,    \* the window's size, and whether the WM shows it full screen
  screen,
  rotations, presses, connects, runs   \* counters behind the bounds

statics == <<VIDEO_WH, RESIZE_GEN, CONNECTED, bump_due>>
loop == <<last_resize, mapped, is_fullscreen>>
desk == <<keys, window, whole, screen>>
counters == <<rotations, presses, connects, runs>>
vars == <<statics, worker, loop, desk, counters>>

Keys == {"alt_enter", "escape"}
Places == {"none", "events", "connection", "resize", "place"}

TypeOK ==
  /\ VIDEO_WH \in Videos \cup {NoVideo} /\ RESIZE_GEN \in Nat
  /\ CONNECTED \in BOOLEAN /\ bump_due \in BOOLEAN
  /\ worker \in Places
  /\ last_resize \in Int /\ mapped \in BOOLEAN /\ is_fullscreen \in BOOLEAN
  /\ keys \in Seq(Keys)
  /\ window \in Sizes /\ window.w > 0 /\ window.h > 0
  /\ whole \in BOOLEAN /\ screen \in Screens
  /\ rotations \in Nat /\ presses \in Nat /\ connects \in Nat /\ runs \in Nat

Init ==
  /\ VIDEO_WH = NoVideo /\ RESIZE_GEN = 0 /\ CONNECTED = FALSE /\ bump_due = FALSE
  /\ worker = "none" /\ last_resize = 0 /\ mapped = FALSE /\ is_fullscreen = FALSE
  /\ keys = <<>> /\ window = Size(1280, 720) /\ whole = FALSE
  /\ screen \in Screens
  /\ rotations = 0 /\ presses = 0 /\ connects = 0 /\ runs = 0

----------------------------------------------------------------------------
(* The log callback.                                                       *)

SwapSize(video) ==
  /\ worker # "none" /\ ~bump_due /\ rotations < MaxRotations
  /\ rotations' = rotations + 1
  /\ VIDEO_WH' = video
  /\ bump_due' = (VIDEO_WH # video)
  /\ UNCHANGED <<RESIZE_GEN, CONNECTED, worker, loop, desk, presses, connects, runs>>

BumpResize ==
  /\ bump_due
  /\ RESIZE_GEN' = RESIZE_GEN + 1
  /\ bump_due' = FALSE
  /\ UNCHANGED <<VIDEO_WH, CONNECTED, worker, loop, desk, counters>>

(* A device comes or goes: CONNECTED and CONN_GEN, as in EngineLinux.      *)
Connection ==
  /\ worker # "none" /\ connects < MaxConnects
  /\ connects' = connects + 1
  /\ CONNECTED' = ~CONNECTED
  /\ UNCHANGED <<VIDEO_WH, RESIZE_GEN, bump_due, worker, loop, desk, rotations, presses, runs>>

----------------------------------------------------------------------------
(* The worker.                                                             *)

(* Mutant: the last run's size is kept.                                    *)
StartRunStale ==
  /\ worker = "none" /\ runs < MaxRuns
  /\ runs' = runs + 1
  /\ CONNECTED' = FALSE
  /\ last_resize' = RESIZE_GEN
  /\ mapped' = FALSE /\ is_fullscreen' \in BOOLEAN
  /\ keys' = <<>> /\ window' = Size(1280, 720) /\ whole' = FALSE
  /\ worker' = "events"
  /\ UNCHANGED <<VIDEO_WH, RESIZE_GEN, bump_due, screen, rotations, presses, connects>>

(* A new window, and what is kept of the last run is reset.                *)
StartRun ==
  /\ worker = "none" /\ runs < MaxRuns
  /\ runs' = runs + 1
  /\ CONNECTED' = FALSE /\ VIDEO_WH' = NoVideo
  /\ last_resize' = RESIZE_GEN
  /\ mapped' = FALSE /\ is_fullscreen' \in BOOLEAN
  /\ keys' = <<>> /\ window' = Size(1280, 720) /\ whole' = FALSE
  /\ worker' = "events"
  /\ UNCHANGED <<RESIZE_GEN, bump_due, screen, rotations, presses, connects>>

(* stop_flag is seen.                                                      *)
EndRun ==
  /\ worker = "events" /\ ~bump_due
  /\ worker' = "none"
  /\ CONNECTED' = FALSE
  /\ UNCHANGED <<VIDEO_WH, RESIZE_GEN, bump_due, loop, desk, counters>>

(* The window manager heeds no request about a window it does not manage.  *)
request_fullscreen(on) == whole' = (on /\ mapped')

(* Alt+Enter toggles full screen, Esc leaves it; leaving it makes the next *)
(* look at RESIZE_GEN differ.                                              *)
KeyPress ==
  /\ worker = "events" /\ keys # <<>>
  /\ keys' = Tail(keys)
  /\ IF Head(keys) = "alt_enter" \/ is_fullscreen
     THEN /\ is_fullscreen' = (Head(keys) # "escape" /\ ~is_fullscreen)
          /\ mapped' = mapped
          /\ request_fullscreen(is_fullscreen')
          /\ last_resize' = IF is_fullscreen' THEN last_resize ELSE last_resize - 1
     ELSE UNCHANGED <<is_fullscreen, mapped, whole, last_resize>>
  /\ UNCHANGED <<statics, worker, window, screen, counters>>

Drained ==
  /\ worker = "events" /\ keys = <<>>
  /\ worker' = "connection"
  /\ UNCHANGED <<statics, loop, desk, counters>>

(* A window that is hidden leaves the window manager's care.               *)
ShowHide ==
  /\ worker = "connection"
  /\ mapped' = CONNECTED
  /\ IF CONNECTED = mapped THEN UNCHANGED whole
     ELSE request_fullscreen(is_fullscreen)
  /\ worker' = "resize"
  /\ UNCHANGED <<statics, last_resize, is_fullscreen, keys, window, screen, counters>>

SampleResize ==
  /\ worker = "resize"
  /\ last_resize' = RESIZE_GEN
  /\ worker' = IF RESIZE_GEN = last_resize THEN "events" ELSE "place"
  /\ UNCHANGED <<statics, mapped, is_fullscreen, desk, counters>>

Room == Size(AtLeast(Part(screen.w), 160), AtLeast(Part(screen.h), 120))

(* The video's own size, or less if the screen has no room for it.         *)
Place ==
  /\ worker = "place"
  /\ IF VIDEO_WH = NoVideo \/ is_fullscreen THEN UNCHANGED window
     ELSE window' = shaped(Least(VIDEO_WH.w, Room.w), VIDEO_WH, Room)
  /\ worker' = "events"
  /\ UNCHANGED <<statics, loop, keys, whole, screen, counters>>

Turn == KeyPress \/ Drained \/ ShowHide \/ SampleResize \/ Place

----------------------------------------------------------------------------
(* The user, who can press keys in a window that is shown.                 *)
Press(key) ==
  /\ mapped /\ presses < MaxPresses
  /\ presses' = presses + 1
  /\ keys' = Append(keys, key)
  /\ UNCHANGED <<statics, worker, loop, window, whole, screen, rotations, connects, runs>>

Next ==
  \/ \E video \in Videos : SwapSize(video)
  \/ BumpResize \/ Connection
  \/ StartRun \/ EndRun \/ Turn
  \/ \E key \in Keys : Press(key)

Spec == Init /\ [][Next]_vars

----------------------------------------------------------------------------
(* Properties *)

(* Nothing to be seen: no key, no new size, no device.                     *)
Quiet ==
  /\ worker = "events" /\ keys = <<>> /\ ~bump_due
  /\ RESIZE_GEN = last_resize /\ CONNECTED = mapped

(* "Fit the window to the video aspect (no black bars)": once quiet, a     *)
(* window that is not full screen has the shape of the newest size logged, *)
(* whatever the order of rotations, keys and devices.                      *)
FitsTheVideo ==
  Quiet /\ VIDEO_WH # NoVideo /\ ~is_fullscreen => Shaped(window, VIDEO_WH)

(* The window manager shows the window full screen when the loop believes  *)
(* it does, also after the device has gone and another has come.           *)
FullscreenAgrees == Quiet /\ mapped => whole = is_fullscreen

(* A size has been logged, and the window follows it.                      *)
Turned == worker # "none" /\ VIDEO_WH # NoVideo
Followed == worker = "none" \/ is_fullscreen \/ Shaped(window, VIDEO_WH)
=============================================================================
