------------------------------- MODULE Mirror -------------------------------
(***************************************************************************)
(* The host window and the video it shows, on the three systems: the same  *)
(* feature by three mechanisms - statics that a loop samples (FitLinux),   *)
(* messages to a pump (FitWindows), and events to the main thread          *)
(* (FitMac).  A behaviour is one of the three programs, and what they owe  *)
(* the user is stated once.                                                *)
(***************************************************************************)
EXTENDS Fitting

CONSTANTS MaxRotations, MaxPresses, MaxConnects, MaxRuns,  \* bounds of FitLinux
          MaxLines, MaxActs,   \* bounds of FitWindows and FitMac
          FrameWidth, FrameHeight   \* the frame of the window on Windows

ASSUME FrameAssumption == FrameWidth \in Nat /\ FrameHeight \in Nat
ASSUME BoundsAssumption ==
    {MaxRotations, MaxPresses, MaxConnects, MaxRuns, MaxLines, MaxActs} \subseteq Nat

VARIABLES
  system,
  screen, window, CONNECTED, is_fullscreen, ASPECT_WH, runs, lines, acts,
  \* of FitLinux alone
  VIDEO_WH, RESIZE_GEN, bump_due, worker, last_resize, mapped, keys, whole,
  rotations, presses, connects,
  \* of FitWindows alone
  logging, queue, running, want_fullscreen, saved_rect, dragging, status, sized,
  \* of FitMac alone
  statuses, refits, visible, fullscreen, resized, pending_refit, byUser

linuxOnly == <<VIDEO_WH, RESIZE_GEN, bump_due, worker, last_resize, mapped, keys, whole,
               rotations, presses, connects>>
windowsOnly == <<logging, queue, running, want_fullscreen, saved_rect, dragging, status, sized>>
macOnly == <<statuses, refits, visible, fullscreen, resized, pending_refit, byUser>>
vars == <<system, screen, window, CONNECTED, is_fullscreen, ASPECT_WH, runs, lines, acts,
          linuxOnly, windowsOnly, macOnly>>

Linux == INSTANCE FitLinux

(* In one run, with nothing logged while the user drags: see UnfittedRun   *)
(* and LostInDrag in the README for what the code does otherwise.          *)
Windows == INSTANCE FitWindows WITH MaxRuns <- 1, QuietDrags <- TRUE

(* "fullscreen on connect" is off by default: see FullscreenMac.           *)
Mac == INSTANCE FitMac WITH FullscreenSetting <- FALSE

Init ==
  /\ system \in {"linux", "windows", "mac"}
  /\ Linux!Init /\ Windows!Init /\ Mac!Init

OnLinux ==
  /\ system = "linux"
  /\ UNCHANGED <<system, ASPECT_WH, lines, acts, windowsOnly, macOnly>>
OnWindows ==
  /\ system = "windows"
  /\ UNCHANGED <<system, linuxOnly, macOnly>>
OnMac ==
  /\ system = "mac"
  /\ UNCHANGED <<system, is_fullscreen, runs, linuxOnly, windowsOnly>>

Next ==
  \/ OnLinux /\ Linux!Next
  \/ OnWindows /\ Windows!Next
  \/ OnMac /\ Mac!Next

(* The threads of the app go on, and the user lets go of the window at     *)
(* last; nobody has to press a key, to resize or to stop the engine.       *)
Fairness ==
  /\ WF_vars(OnLinux /\ Linux!Turn) /\ WF_vars(OnLinux /\ Linux!BumpResize)
  /\ WF_vars(OnWindows /\ Windows!Pump) /\ WF_vars(OnWindows /\ Windows!PostMessage)
  /\ WF_vars(OnWindows /\ Windows!EndDrag)
  /\ WF_vars(OnMac /\ Mac!RefitMirror) /\ WF_vars(OnMac /\ Mac!OnWindowResized)
  /\ WF_vars(OnMac /\ (Mac!ShowMirror \/ Mac!HideMirror))

Spec == Init /\ [][Next]_vars
FairSpec == Spec /\ Fairness

----------------------------------------------------------------------------
(* Properties *)

(* "Fit the window to the video aspect (no black bars)": once everything   *)
(* logged has been handled, a window that is not full screen, nor of a     *)
(* size the user chose, has the shape of the newest size logged, whatever  *)
(* the order of rotations, devices, keys, drags and full screen.  On       *)
(* Windows that is the window with its frame, which is what the engine     *)
(* sizes; the picture has no bars if there is no frame (borderless, which  *)
(* is not the default: see FramedWindow in the README).                    *)
FitsTheVideo ==
  /\ Linux!TypeOK /\ Windows!TypeOK /\ Mac!TypeOK
  /\ system = "linux" => Linux!FitsTheVideo
  /\ system = "windows" => /\ Windows!RectFits /\ Windows!StatusFollowsDevice
                           /\ Windows!Borderless => Windows!NoBars
  /\ system = "mac" => Mac!FitsTheVideo

(* What the user asked for stays: a full screen window is shown whole      *)
(* screen by the window manager (Linux), nothing resizes it (Windows), and *)
(* a size of the user's own lasts until a rotation or a device (macOS).    *)
UserDecides ==
  [][/\ system = "linux" => Linux!FullscreenAgrees'
     /\ system = "windows" => Windows!FullscreenCovers'
     /\ system = "mac" => Mac!RespectsUser]_vars

(* A rotation reaches the window, unless it is full screen or its run      *)
(* ends; on Windows the window is again taken with its frame.              *)
RotationReachesWindow ==
  /\ (system = "linux" /\ Linux!Turned) ~> Linux!Followed
  /\ (system = "windows" /\ Windows!Turned) ~> Windows!Followed
  /\ (system = "mac" /\ Mac!Turned) ~> Mac!Followed
=============================================================================
