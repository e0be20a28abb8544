------------------------------- MODULE FitMac -------------------------------
(***************************************************************************)
(* Fitting the mirror window to the video on macOS (engine_macos.rs and    *)
(* the handlers in main.rs).  The log callback sends a status when a       *)
(* device comes or goes and a refit when the video turns, on two channels; *)
(* the main thread shows, hides and fits the window, and puts a refit off  *)
(* while the window is full screen.                                        *)
(*                                                                         *)
(* UxPlay logs the size of a stream before "Begin streaming" (external).   *)
(***************************************************************************)
EXTENDS Fitting, Sequences

CONSTANTS FullscreenSetting,  \* "fullscreen on connect" in Settings
          MaxLines,           \* bound: sizes logged, devices coming and going
          MaxActs             \* bound: full screen toggled, window resized

VARIABLES
  ASPECT_WH, CONNECTED,
  statuses, refits,      \* the two channels
  visible, fullscreen,   \* the window, as the system has it
  window,                \* its size when it is not full screen
  resized,               \* Resized events the main thread has not handled
  pending_refit,
  byUser,                \* the user chose the size, and no rotation came since (observed)
  screen,
  lines, acts            \* counters behind the bounds

statics == <<ASPECT_WH, CONNECTED>>
mirror == <<visible, fullscreen, window, resized, pending_refit, byUser>>
counters == <<lines, acts>>
vars == <<statics, statuses, refits, mirror, screen, counters>>

TypeOK ==
  /\ ASPECT_WH \in Videos \cup {NoVideo} /\ CONNECTED \in BOOLEAN
  /\ statuses \in Seq({"Ready", "Connected"}) /\ refits \in Nat
  /\ visible \in BOOLEAN /\ fullscreen \in BOOLEAN
  /\ window \in Sizes /\ window.w > 0 /\ window.h > 0
  /\ resized \in Nat /\ pending_refit \in BOOLEAN /\ byUser \in BOOLEAN
  /\ screen \in Screens
  /\ lines \in Nat /\ acts \in Nat

Init ==
  /\ ASPECT_WH = NoVideo /\ CONNECTED = FALSE
  /\ statuses = <<>> /\ refits = 0
  /\ visible = FALSE /\ fullscreen = FALSE /\ window = Size(1280, 720)
  /\ resized = 0 /\ pending_refit = FALSE /\ byUser = FALSE
  /\ screen \in Screens
  /\ lines = 0 /\ acts = 0

----------------------------------------------------------------------------
(* The log callback.                                                       *)

Line == lines < MaxLines /\ lines' = lines + 1

(* The first size, or one logged while no device is connected, is left to  *)
(* the fit that comes with the showing of the window.                      *)
LogSize(video) ==
  /\ Line
  /\ ASPECT_WH' = video
  /\ refits' = IF ASPECT_WH \notin {NoVideo, video} /\ CONNECTED THEN refits + 1 ELSE refits
  /\ UNCHANGED <<CONNECTED, statuses, mirror, screen, acts>>

LogConnection ==
  /\ Line
  /\ ASPECT_WH # NoVideo
  /\ CONNECTED' = ~CONNECTED
  /\ statuses' = Append(statuses, IF CONNECTED THEN "Ready" ELSE "Connected")
  /\ UNCHANGED <<ASPECT_WH, refits, mirror, screen, acts>>

----------------------------------------------------------------------------
(* The main thread.                                                        *)

Room == Size(Part(screen.w), Part(screen.h))

fit_to_aspect ==
  /\ window' = shaped(Room.w, ASPECT_WH, Room)
  /\ byUser' = FALSE
  /\ resized' = IF window' = window THEN resized ELSE resized + 1

ShowMirror ==
  /\ statuses # <<>> /\ Head(statuses) = "Connected"
  /\ statuses' = Tail(statuses)
  /\ fit_to_aspect
  /\ visible' = TRUE
  /\ fullscreen' = (fullscreen \/ FullscreenSetting)
  /\ UNCHANGED <<statics, refits, pending_refit, screen, counters>>

HideMirror ==
  /\ statuses # <<>> /\ Head(statuses) = "Ready"
  /\ statuses' = Tail(statuses)
  /\ visible' = FALSE /\ fullscreen' = FALSE
  /\ pending_refit' = FALSE
  /\ UNCHANGED <<statics, refits, window, resized, byUser, screen, counters>>

RefitMirror ==
  /\ refits > 0 /\ refits' = refits - 1
  /\ IF FullscreenSetting \/ fullscreen
     THEN pending_refit' = TRUE /\ byUser' = FALSE /\ UNCHANGED <<window, resized>>
     ELSE fit_to_aspect /\ UNCHANGED pending_refit
  /\ UNCHANGED <<statics, statuses, visible, fullscreen, screen, counters>>

OnWindowResized ==
  /\ resized > 0
  /\ IF pending_refit /\ ~fullscreen
     THEN /\ pending_refit' = FALSE
          /\ window' = shaped(Room.w, ASPECT_WH, Room) /\ byUser' = FALSE
          /\ resized' = IF window' = window THEN resized - 1 ELSE resized
     ELSE resized' = resized - 1 /\ UNCHANGED <<pending_refit, window, byUser>>
  /\ UNCHANGED <<statics, statuses, refits, visible, fullscreen, screen, counters>>

MainThread == ShowMirror \/ HideMirror \/ RefitMirror \/ OnWindowResized

----------------------------------------------------------------------------
(* The user, in a window that is shown and whose events have been handled. *)

Act == visible /\ resized = 0 /\ acts < MaxActs /\ acts' = acts + 1

ToggleFullscreen ==
  /\ Act
  /\ fullscreen' = ~fullscreen
  /\ resized' = resized + 1
  /\ UNCHANGED <<statics, statuses, refits, visible, window, pending_refit, byUser, screen, lines>>

Resize(size) ==
  /\ Act /\ ~fullscreen
  /\ window' = size /\ byUser' = TRUE
  /\ resized' = resized + 1
  /\ UNCHANGED <<statics, statuses, refits, visible, fullscreen, pending_refit, screen, lines>>

Next ==
  \/ \E video \in Videos : LogSize(video)
  \/ LogConnection
  \/ MainThread
  \/ ToggleFullscreen
  \/ \E size \in Screens : Resize(size)

Spec == Init /\ [][Next]_vars

----------------------------------------------------------------------------
(* Properties *)

Quiet == statuses = <<>> /\ refits = 0 /\ resized = 0

(* "so the portrait/landscape phone image fills the window": once the main *)
(* thread has handled everything, a window that is shown, not full screen  *)
(* and not of the user's own size has the shape of the newest size.        *)
FitsTheVideo ==
  Quiet /\ visible /\ ~fullscreen /\ ~byUser => Shaped(window, ASPECT_WH)

(* "so it never fights the user's own manual resizes": the size the user   *)
(* has chosen stays until a rotation or a new device asks for another.     *)
RespectsUser ==
  byUser /\ window' # window => refits' # refits \/ statuses' # statuses \/ acts' # acts

(* A rotation was put off while the window was full screen, and it is made *)
(* good when it is no longer.                                              *)
Turned == pending_refit
Followed == ~pending_refit \/ fullscreen
=============================================================================
