----------------------------- MODULE FitWindows -----------------------------
(***************************************************************************)
(* Fitting the window to the video on Windows (app/src/engine.rs).  The    *)
(* log callback posts what it has seen to the host window, and the pump    *)
(* takes the messages - its own pump, not the window procedure.  While the *)
(* user drags the window, the system pumps instead (external), and it      *)
(* hands the engine's messages to the procedure, which knows none of them. *)
(*                                                                         *)
(* What is sized is the window as a whole, in the code as here.  A title   *)
(* bar and borders take their part of it; a borderless window has none.    *)
(***************************************************************************)
EXTENDS Fitting, Sequences, SequencesExt

CONSTANTS FrameWidth,  \* what the frame takes of the window's width, 0 when
          FrameHeight, \* borderless, and of its height
          QuietDrags,  \* nothing is logged while the user drags the window
          MaxLines,    \* bound: sizes logged, and devices coming and going
          MaxActs,     \* bound: full screen toggled, drags, sizes dragged to
          MaxRuns      \* bound: runs of the worker

VARIABLES
  ASPECT_WH, CONNECTED,
  logging,       \* the message the log callback is about to post
  queue,         \* messages posted to the host window
  running, want_fullscreen,
  is_fullscreen, saved_rect, window, dragging,
  status,        \* what the tray was told last
  sized,         \* a size has been logged in this run (observed)
  screen,        \* the monitor's work area
  lines, acts, runs   \* counters behind the bounds

statics == <<ASPECT_WH, CONNECTED>>
posts == <<logging, queue>>
state == <<is_fullscreen, saved_rect, window>>
fixed == <<running, want_fullscreen, screen, sized>>
counters == <<lines, acts, runs>>
vars == <<statics, posts, state, dragging, status, fixed, counters>>

Messages == {"WM_APP_CONNECTED", "WM_APP_DISCONNECTED", "WM_APP_RESIZE"}
HostWindow == Size(1280, 720)

TypeOK ==
  /\ ASPECT_WH \in Videos \cup {NoVideo} /\ CONNECTED \in BOOLEAN
  /\ logging \in Messages \cup {"none"} /\ queue \in Seq(Messages)
  /\ running \in BOOLEAN /\ want_fullscreen \in BOOLEAN /\ is_fullscreen \in BOOLEAN
  /\ \A size \in {saved_rect, window} : size \in Sizes /\ size.w > 0 /\ size.h > 0
  /\ dragging \in BOOLEAN /\ sized \in BOOLEAN /\ status \in {"Off", "Ready", "Connected"}
  /\ screen \in Screens
  /\ lines \in Nat /\ acts \in Nat /\ runs \in Nat

Init ==
  /\ ASPECT_WH = NoVideo /\ CONNECTED = FALSE /\ logging = "none" /\ queue = <<>>
  /\ running = FALSE /\ want_fullscreen = FALSE /\ is_fullscreen = FALSE
  /\ saved_rect = HostWindow /\ window = HostWindow /\ dragging = FALSE
  /\ status = "Off" /\ sized = FALSE /\ screen \in Screens
  /\ lines = 0 /\ acts = 0 /\ runs = 0

----------------------------------------------------------------------------
(* The log callback: what has changed is stored, then posted.              *)

MayLog ==
  /\ running /\ logging = "none" /\ lines < MaxLines
  /\ ~(QuietDrags /\ dragging)

LogSize(video) ==
  /\ MayLog /\ lines' = lines + 1
  /\ ASPECT_WH' = video
  /\ logging' = IF ASPECT_WH = video THEN "none" ELSE "WM_APP_RESIZE"
  /\ sized' = TRUE
  /\ UNCHANGED <<CONNECTED, queue, state, dragging, status, running, want_fullscreen,
                 screen, acts, runs>>

LogConnection ==
  /\ MayLog /\ lines' = lines + 1
  /\ CONNECTED' = ~CONNECTED
  /\ logging' = IF CONNECTED THEN "WM_APP_DISCONNECTED" ELSE "WM_APP_CONNECTED"
  /\ UNCHANGED <<ASPECT_WH, queue, state, dragging, status, fixed, acts, runs>>

PostMessage ==
  /\ logging # "none"
  /\ queue' = Append(queue, logging)
  /\ logging' = "none"
  /\ UNCHANGED <<statics, state, dragging, status, fixed, counters>>

----------------------------------------------------------------------------
(* The worker's pump.                                                      *)

Room == Size(Part(screen.w), Part(screen.h))

fit_window_to_aspect ==
  window' = IF ASPECT_WH = NoVideo THEN window ELSE shaped(Room.w, ASPECT_WH, Room)

enter_fullscreen ==
  /\ is_fullscreen' = TRUE
  /\ saved_rect' = window
  /\ window' = screen

(* Mutant: the old place is restored, and that is all.                     *)
leave_unfitted ==
  /\ is_fullscreen' = FALSE
  /\ window' = saved_rect
  /\ UNCHANGED saved_rect

(* The old place is restored, then fitted: the video may have turned.      *)
leave_fullscreen ==
  /\ is_fullscreen' = FALSE
  /\ window' = IF ASPECT_WH = NoVideo THEN saved_rect ELSE shaped(Room.w, ASPECT_WH, Room)
  /\ UNCHANGED saved_rect

OnConnected ==
  /\ status' = "Connected"
  /\ IF want_fullscreen /\ ~is_fullscreen THEN enter_fullscreen ELSE UNCHANGED state

OnDisconnected == status' = "Ready" /\ UNCHANGED state

(* Mutant: the window is fitted, full screen or not.                       *)
OnResizeAlways == fit_window_to_aspect /\ UNCHANGED <<is_fullscreen, saved_rect, status>>

OnResize ==
  /\ IF is_fullscreen THEN UNCHANGED window ELSE fit_window_to_aspect
  /\ UNCHANGED <<is_fullscreen, saved_rect, status>>

Handle(message) ==
  \/ message = "WM_APP_CONNECTED" /\ OnConnected
  \/ message = "WM_APP_DISCONNECTED" /\ OnDisconnected
  \/ message = "WM_APP_RESIZE" /\ OnResize

Pump ==
  /\ running /\ ~dragging /\ queue # <<>>
  /\ queue' = Tail(queue)
  /\ Handle(Head(queue))
  /\ UNCHANGED <<statics, logging, dragging, fixed, counters>>

(* The system's pump hands the message to the window procedure.            *)
DragPump ==
  /\ dragging /\ queue # <<>>
  /\ queue' = Tail(queue)
  /\ UNCHANGED <<statics, logging, state, dragging, status, fixed, counters>>

----------------------------------------------------------------------------
(* The user, in a window that is shown.                                    *)

Acts == status = "Connected" /\ acts < MaxActs /\ acts' = acts + 1

(* Alt+Enter, F, Esc or a double click.                                    *)
Toggle ==
  /\ Acts /\ ~dragging
  /\ IF is_fullscreen THEN leave_fullscreen ELSE enter_fullscreen
  /\ UNCHANGED <<statics, posts, dragging, status, fixed, lines, runs>>

StartDrag ==
  /\ Acts /\ ~dragging /\ ~is_fullscreen
  /\ QuietDrags => queue = <<>> /\ logging = "none"
  /\ dragging' = TRUE
  /\ UNCHANGED <<statics, posts, state, status, fixed, lines, runs>>

(* WM_SIZING: the side the user drags drives the other, frame and all.     *)
DragTo(w, h) ==
  /\ Acts /\ dragging
  /\ IF ASPECT_WH = NoVideo THEN window' = Size(w, h)
     ELSE \/ window' = Size(Width(h, ASPECT_WH), h)
          \/ window' = Size(w, Height(w, ASPECT_WH))
  /\ UNCHANGED <<statics, posts, is_fullscreen, saved_rect, dragging, status, fixed, lines, runs>>

EndDrag ==
  /\ dragging
  /\ dragging' = FALSE
  /\ UNCHANGED <<statics, posts, state, status, fixed, counters>>

User ==
  \/ Toggle \/ StartDrag \/ EndDrag
  \/ \E w \in ScreenSides, h \in ScreenSides : DragTo(w, h)

----------------------------------------------------------------------------
(* A run's start and end.  ASPECT_WH is not reset.                         *)

StartRun ==
  /\ ~running /\ runs < MaxRuns
  /\ runs' = runs + 1
  /\ running' = TRUE /\ want_fullscreen' \in BOOLEAN
  /\ CONNECTED' = FALSE /\ queue' = <<>>
  /\ is_fullscreen' = FALSE /\ saved_rect' = HostWindow /\ window' = HostWindow
  /\ status' = "Ready" /\ sized' = FALSE
  /\ UNCHANGED <<ASPECT_WH, logging, dragging, screen, lines, acts>>

EndRun ==
  /\ running /\ ~dragging /\ logging = "none"
  /\ running' = FALSE
  /\ CONNECTED' = FALSE
  /\ status' = "Off"
  /\ UNCHANGED <<ASPECT_WH, posts, state, dragging, want_fullscreen, screen,
                 sized, counters>>

Next ==
  \/ \E video \in Videos : LogSize(video)
  \/ LogConnection \/ PostMessage
  \/ Pump \/ DragPump \/ User
  \/ StartRun \/ EndRun

Spec == Init /\ [][Next]_vars

----------------------------------------------------------------------------
(* Properties *)

Quiet == running /\ queue = <<>> /\ logging = "none" /\ ~dragging

(* What the window shows the video in, unless it is full screen.           *)
Content == Size(window.w - FrameWidth, window.h - FrameHeight)
Borderless == FrameWidth = 0 /\ FrameHeight = 0

Fitted == Quiet /\ sized /\ ~is_fullscreen

(* Once the pump has taken all messages, a window that is not full screen  *)
(* has, with its frame, the shape of the newest size logged in this run,   *)
(* through full screen, drags and rotations.                               *)
RectFits == Fitted => Shaped(window, ASPECT_WH)

(* "keep the window at the video aspect so no black bars ever appear": the *)
(* same of what is inside the frame.                                       *)
NoBars == Fitted => Shaped(Content, ASPECT_WH)

(* Once the pump has taken all messages the tray has been told of the      *)
(* device there is.                                                        *)
StatusFollowsDevice == Quiet => status = IF CONNECTED THEN "Connected" ELSE "Ready"

(* A full screen window covers the screen: no rotation, drag or device     *)
(* resizes it.                                                             *)
FullscreenCovers == is_fullscreen => window = screen

(* A size has been logged in this run, and the window follows it.          *)
Turned == running /\ sized
Followed == ~running \/ is_fullscreen \/ Shaped(window, ASPECT_WH)
=============================================================================
