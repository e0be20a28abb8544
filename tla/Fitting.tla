------------------------------ MODULE Fitting ------------------------------
(***************************************************************************)
(* The arithmetic all three engines fit the host window to the video with: *)
(* shrink to the larger side, whole pixels, rounded down.                  *)
(***************************************************************************)
EXTENDS Integers

CONSTANTS VideoSides,   \* sides a video may have, in pixels
          ScreenSides   \* sides the screen may have, which is not square

ASSUME SidesAssumption ==
    /\ VideoSides \subseteq Nat \ {0}
    /\ ScreenSides \subseteq Nat \ {0}

Size(w, h) == [w |-> w, h |-> h]
Videos == {Size(w, h) : w \in VideoSides, h \in VideoSides}
Screens == {Size(w, h) : w \in ScreenSides, h \in ScreenSides}
             \ {Size(w, w) : w \in ScreenSides}
NoVideo == Size(0, 0)
Sizes == [w : Nat, h : Nat]

AtLeast(n, least) == IF n < least THEN least ELSE n
Least(m, n) == IF m < n THEN m ELSE n
Part(n) == (n * 85) \div 100

Width(h, video) == (h * video.w) \div video.h

Height(w, video) == (w * video.h) \div video.w

(* A window w wide of the video's shape, or as high as there is room.      *)
shaped(w, video, room) ==
  IF Height(w, video) > room.h THEN Size(Width(room.h, video), room.h)
                               ELSE Size(w, Height(w, video))

(* Of the video's shape, but for less than a pixel: no black bars.         *)
Shaped(window, video) ==
  LET d == window.w * video.h - window.h * video.w
  IN  d < AtLeast(video.w, video.h) /\ -d < AtLeast(video.w, video.h)

Inside(window, room) == window.w <= room.w /\ window.h <= room.h
=============================================================================
