---------------------------- MODULE MirrorProofs ----------------------------
(***************************************************************************)
(* Proofs about the fit of the window (Mirror), for videos and screens of  *)
(* any size: first the integer arithmetic all systems share (Fitting),     *)
(* then the invariant of each system, then the three side by side.         *)
(***************************************************************************)
EXTENDS Mirror, Sequences, TLAPS

(* -- The arithmetic.                                                      *)

LEMMA Quotient ==
  ASSUME NEW a \in Nat, NEW b \in Nat \ {0}
  PROVE  /\ a \div b \in Nat
         /\ b * (a \div b) <= a
         /\ a < b * (a \div b) + b
<1>1. a \div b \in Nat
  OBVIOUS
<1>2. b * (a \div b) <= a
  OBVIOUS
<1>3. a < b * (a \div b) + b
  OBVIOUS
<1> QED BY <1>1, <1>2, <1>3

LEMMA Product ==
  ASSUME NEW a \in Nat, NEW b \in Nat
  PROVE  /\ a * b \in Nat /\ a * b = b * a
         /\ \A c \in Nat : a <= c => a * b <= c * b
OBVIOUS

LEMMA Dimensions ==
  /\ \A video \in Videos : video.w \in Nat \ {0} /\ video.h \in Nat \ {0} /\ video # NoVideo
  /\ \A s \in Screens : s \in Sizes /\ s.w \in ScreenSides /\ s.h \in ScreenSides
  /\ \A side \in ScreenSides : side \in Nat \ {0} /\ Part(side) \in Nat /\ Part(side) <= side
<1>1. \A video \in Videos : video.w \in Nat \ {0} /\ video.h \in Nat \ {0} /\ video # NoVideo
  BY SidesAssumption DEF Videos, NoVideo, Size
<1>2. \A s \in Screens : s \in Sizes /\ s.w \in ScreenSides /\ s.h \in ScreenSides
  BY SidesAssumption DEF Screens, Sizes, Size
<1>3. ASSUME NEW side \in ScreenSides
      PROVE  side \in Nat \ {0} /\ Part(side) \in Nat /\ Part(side) <= side
  <2>1. side \in Nat \ {0}
    BY SidesAssumption
  <2> QED BY <2>1 DEF Part
<1> QED BY <1>1, <1>2, <1>3

(* A side computed from the other is less than a pixel short.              *)
LEMMA HeightOf ==
  ASSUME NEW w \in Nat, NEW video \in Videos
  PROVE  /\ Height(w, video) \in Nat
         /\ Height(w, video) * video.w <= w * video.h
         /\ w * video.h < Height(w, video) * video.w + video.w
         /\ video.w <= w * video.h => Height(w, video) > 0
         /\ Shaped(Size(w, Height(w, video)), video)
<1>0. video.w \in Nat \ {0} /\ video.h \in Nat \ {0}
  BY Dimensions
<1> DEFINE q == Height(w, video)
           a == w * video.h
           b == q * video.w
<1>1. a \in Nat
  BY <1>0, Product
<1>2. q \in Nat /\ video.w * q <= a /\ a < video.w * q + video.w
  BY <1>0, <1>1, Quotient DEF Height
<1>3. b \in Nat /\ b = video.w * q
  BY <1>0, <1>2, Product
<1>4. b <= a /\ a < b + video.w
  BY <1>2, <1>3
<1>5. video.w <= a => q > 0
  <2>1. q = 0 => b = 0
    BY <1>0
  <2> HIDE DEF q, a, b
  <2> QED BY <1>0, <1>1, <1>2, <1>3, <1>4, <2>1
<1>6. a - b < AtLeast(video.w, video.h) /\ -(a - b) < AtLeast(video.w, video.h)
  <2> HIDE DEF q, a, b
  <2> QED BY <1>0, <1>1, <1>3, <1>4 DEF AtLeast
<1>7. Shaped(Size(w, q), video)
  <2>1. Size(w, q).w = w /\ Size(w, q).h = q
    BY DEF Size
  <2> QED BY <1>6, <2>1 DEF Shaped
<1> QED BY <1>2, <1>4, <1>5, <1>7

LEMMA WidthOf ==
  ASSUME NEW h \in Nat, NEW video \in Videos
  PROVE  /\ Width(h, video) \in Nat
         /\ Width(h, video) * video.h <= h * video.w
         /\ h * video.w < Width(h, video) * video.h + video.h
         /\ video.h <= h * video.w => Width(h, video) > 0
         /\ Shaped(Size(Width(h, video), h), video)
<1>0. video.w \in Nat \ {0} /\ video.h \in Nat \ {0}
  BY Dimensions
<1> DEFINE q == Width(h, video)
           a == h * video.w
           b == q * video.h
<1>1. a \in Nat
  BY <1>0, Product
<1>2. q \in Nat /\ video.h * q <= a /\ a < video.h * q + video.h
  BY <1>0, <1>1, Quotient DEF Width
<1>3. b \in Nat /\ b = video.h * q
  BY <1>0, <1>2, Product
<1>4. b <= a /\ a < b + video.h
  BY <1>2, <1>3
<1>5. video.h <= a => q > 0
  <2>1. q = 0 => b = 0
    BY <1>0
  <2> HIDE DEF q, a, b
  <2> QED BY <1>0, <1>1, <1>2, <1>3, <1>4, <2>1
<1>6. b - a < AtLeast(video.w, video.h) /\ -(b - a) < AtLeast(video.w, video.h)
  <2> HIDE DEF q, a, b
  <2> QED BY <1>0, <1>1, <1>3, <1>4 DEF AtLeast
<1>7. Shaped(Size(q, h), video)
  <2>1. Size(q, h).w = q /\ Size(q, h).h = h
    BY DEF Size
  <2> QED BY <1>6, <2>1 DEF Shaped
<1> QED BY <1>2, <1>4, <1>5, <1>7

(* shaped() yields a window of the video's shape, for any video, and one   *)
(* that stays in the room it is given.                                     *)
THEOREM ShapedFits ==
  ASSUME NEW w \in Nat, NEW video \in Videos, NEW room \in Sizes
  PROVE  /\ shaped(w, video, room) \in Sizes
         /\ Shaped(shaped(w, video, room), video)
         /\ w <= room.w => Inside(shaped(w, video, room), room)
<1>0. /\ room.h \in Nat /\ room.w \in Nat /\ video.w \in Nat \ {0} /\ video.h \in Nat \ {0}
      /\ \A x, y : Size(x, y).w = x /\ Size(x, y).h = y
      /\ \A x, y \in Nat : Size(x, y) \in Sizes
  BY Dimensions DEF Sizes, Size
<1>1. CASE Height(w, video) > room.h
  <2>1. shaped(w, video, room) = Size(Width(room.h, video), room.h)
    BY <1>1 DEF shaped
  <2>2. /\ Width(room.h, video) \in Nat
        /\ Width(room.h, video) * video.h <= room.h * video.w
        /\ Shaped(Size(Width(room.h, video), room.h), video)
    BY <1>0, WidthOf
  <2>3. Width(room.h, video) <= w
    <3>1. /\ Height(w, video) \in Nat
          /\ Height(w, video) * video.w <= w * video.h
      BY HeightOf
    <3>2. room.h * video.w <= Height(w, video) * video.w
      BY <1>0, <1>1, <3>1, Product
    <3> DEFINE q == Width(room.h, video)
    <3>3. q * video.h <= w * video.h
      <4>1. {q * video.h, room.h * video.w, Height(w, video) * video.w, w * video.h} \subseteq Nat
        BY <1>0, <2>2, <3>1, Product
      <4> QED BY <2>2, <3>1, <3>2, <4>1
    <3>4. ~(w + 1 <= q)
      <4> SUFFICES ASSUME w + 1 <= q PROVE FALSE
        OBVIOUS
      <4>1. (w + 1) * video.h <= q * video.h
        BY <1>0, <2>2, Product
      <4>2. (w + 1) * video.h = w * video.h + video.h
        BY <1>0
      <4>3. {w * video.h, q * video.h} \subseteq Nat
        BY <1>0, <2>2, Product
      <4> HIDE DEF q
      <4> QED BY <1>0, <3>3, <4>1, <4>2, <4>3
    <3> QED BY <2>2, <3>4
  <2> QED BY <1>0, <2>1, <2>2, <2>3 DEF Inside
<1>2. CASE ~(Height(w, video) > room.h)
  <2>1. shaped(w, video, room) = Size(w, Height(w, video))
    BY <1>2 DEF shaped
  <2>2. Height(w, video) \in Nat /\ Shaped(Size(w, Height(w, video)), video)
    BY HeightOf
  <2> QED BY <1>0, <1>2, <2>1, <2>2 DEF Inside
<1> QED BY <1>1, <1>2

----------------------------------------------------------------------------
(* The variables the systems share, and those of each.                     *)

(* No video is so long and narrow that on this screen its shape has no     *)
(* width, or no height: it would be rounded down to 0.                     *)
NothingVanishes ==
  \A video \in Videos, side \in ScreenSides :
    video.w <= Part(side) * video.h /\ video.h <= Part(side) * video.w

Sound(size) == size \in Sizes /\ (NothingVanishes => size.w > 0 /\ size.h > 0)

CommonType ==
  /\ system \in {"linux", "windows", "mac"} /\ screen \in Screens /\ Sound(window)
  /\ CONNECTED \in BOOLEAN /\ is_fullscreen \in BOOLEAN
  /\ ASPECT_WH \in Videos \cup {NoVideo}
  /\ runs \in Nat /\ lines \in Nat /\ acts \in Nat

LinuxType ==
  /\ VIDEO_WH \in Videos \cup {NoVideo} /\ RESIZE_GEN \in Nat /\ bump_due \in BOOLEAN
  /\ worker \in Linux!Places /\ last_resize \in Int /\ mapped \in BOOLEAN
  /\ keys \in Seq(Linux!Keys) /\ whole \in BOOLEAN
  /\ rotations \in Nat /\ presses \in Nat /\ connects \in Nat

WindowsType ==
  /\ logging \in Windows!Messages \cup {"none"} /\ queue \in Seq(Windows!Messages)
  /\ running \in BOOLEAN /\ want_fullscreen \in BOOLEAN /\ Sound(saved_rect)
  /\ dragging \in BOOLEAN /\ sized \in BOOLEAN
  /\ status \in {"Off", "Ready", "Connected"}

MacType ==
  /\ statuses \in Seq({"Ready", "Connected"}) /\ refits \in Nat
  /\ visible \in BOOLEAN /\ fullscreen \in BOOLEAN /\ resized \in Nat
  /\ pending_refit \in BOOLEAN /\ byUser \in BOOLEAN

LEMMA SoundSizes ==
  /\ Sound(Size(1280, 720))
  /\ \A s \in Screens : Sound(s)
  /\ \A w, h \in ScreenSides : Sound(Size(w, h))
<1>1. \A w, h \in Nat \ {0} : Sound(Size(w, h))
  BY DEF Sound, Sizes, Size
<1>2. \A s \in Screens : s = Size(s.w, s.h) /\ s.w \in Nat \ {0} /\ s.h \in Nat \ {0}
  BY SidesAssumption DEF Screens, Size
<1>3. Sound(Size(1280, 720))
  BY <1>1
<1>4. \A s \in Screens : Sound(s)
  BY <1>1, <1>2
<1> QED BY <1>1, <1>3, <1>4, Dimensions

(* What shaped() yields can be seen, if the video has an extent both ways  *)
(* in the room there is.                                                   *)
LEMMA ShapedSound ==
  ASSUME NEW w \in Nat, NEW video \in Videos, NEW room \in Sizes,
         NothingVanishes => video.w <= w * video.h /\ video.h <= room.h * video.w
  PROVE  Sound(shaped(w, video, room)) /\ Shaped(shaped(w, video, room), video)
<1>0. /\ room.h \in Nat /\ video.w \in Nat \ {0} /\ video.h \in Nat \ {0}
      /\ \A x, y : Size(x, y).w = x /\ Size(x, y).h = y
  BY Dimensions DEF Sizes, Size
<1>1. shaped(w, video, room) \in Sizes /\ Shaped(shaped(w, video, room), video)
  BY ShapedFits
<1> SUFFICES ASSUME NothingVanishes
             PROVE  shaped(w, video, room).w > 0 /\ shaped(w, video, room).h > 0
  BY <1>1 DEF Sound
<1>2. CASE Height(w, video) > room.h
  <2>1. Width(room.h, video) > 0
    BY <1>0, WidthOf
  <2>2. room.h > 0
    <3>1. room.h = 0 => room.h * video.w = 0
      BY <1>0
    <3> QED BY <1>0, <3>1
  <2> QED BY <1>0, <1>2, <2>1, <2>2 DEF shaped
<1>3. CASE ~(Height(w, video) > room.h)
  <2>1. Height(w, video) > 0
    BY HeightOf
  <2>2. w > 0
    <3>1. w = 0 => w * video.h = 0
      BY <1>0
    <3> QED BY <1>0, <3>1
  <2> QED BY <1>0, <1>3, <2>1, <2>2 DEF shaped
<1> QED BY <1>2, <1>3

(* As large as a part of the screen, or larger, is large enough.           *)
LEMMA LargeEnough ==
  ASSUME NothingVanishes, NEW video \in Videos, NEW side \in ScreenSides,
         NEW n \in Nat, Part(side) <= n
  PROVE  video.w <= n * video.h /\ video.h <= n * video.w
<1>0. video.w \in Nat \ {0} /\ video.h \in Nat \ {0} /\ Part(side) \in Nat
  BY Dimensions
<1>1. video.w <= Part(side) * video.h /\ video.h <= Part(side) * video.w
  BY DEF NothingVanishes
<1>2. Part(side) * video.h <= n * video.h /\ Part(side) * video.w <= n * video.w
  BY <1>0, Product
<1>3. {Part(side) * video.h, n * video.h, Part(side) * video.w, n * video.w} \subseteq Nat
  BY <1>0, Product
<1> QED BY <1>0, <1>1, <1>2, <1>3

(* Each system's copy of the arithmetic is this one.                       *)
LEMMA LinuxArithmetic ==
  /\ Linux!NoVideo = NoVideo /\ Linux!Videos = Videos
  /\ Linux!Screens = Screens /\ Linux!Sizes = Sizes
  /\ \A w, h : Linux!Size(w, h) = Size(w, h)
  /\ \A n : Linux!Part(n) = Part(n)
  /\ \A w, video : Linux!Height(w, video) = Height(w, video)
  /\ \A h, video : Linux!Width(h, video) = Width(h, video)
  /\ \A w, video, room : Linux!shaped(w, video, room) = shaped(w, video, room)
  /\ \A size, video : Linux!Shaped(size, video) <=> Shaped(size, video)
  /\ \A m, n : Linux!AtLeast(m, n) = AtLeast(m, n) /\ Linux!Least(m, n) = Least(m, n)
BY DEF Linux!NoVideo, Linux!Videos, Linux!Screens, Linux!Sizes, Linux!Size, Linux!Part,
       Linux!Height, Linux!Width, Linux!shaped, Linux!Shaped, Linux!AtLeast, Linux!Least,
       NoVideo, Videos, Screens, Sizes, Size, Part, Height, Width, shaped, Shaped, AtLeast, Least

LEMMA WindowsArithmetic ==
  /\ Windows!NoVideo = NoVideo /\ Windows!Videos = Videos
  /\ Windows!Screens = Screens /\ Windows!Sizes = Sizes
  /\ \A w, h : Windows!Size(w, h) = Size(w, h)
  /\ \A n : Windows!Part(n) = Part(n)
  /\ \A w, video : Windows!Height(w, video) = Height(w, video)
  /\ \A h, video : Windows!Width(h, video) = Width(h, video)
  /\ \A w, video, room : Windows!shaped(w, video, room) = shaped(w, video, room)
  /\ \A size, video : Windows!Shaped(size, video) <=> Shaped(size, video)
  /\ \A m, n : Windows!AtLeast(m, n) = AtLeast(m, n) /\ Windows!Least(m, n) = Least(m, n)
BY DEF Windows!NoVideo, Windows!Videos, Windows!Screens, Windows!Sizes, Windows!Size, Windows!Part,
       Windows!Height, Windows!Width, Windows!shaped, Windows!Shaped,
       Windows!AtLeast, Windows!Least,
       NoVideo, Videos, Screens, Sizes, Size, Part, Height, Width, shaped, Shaped, AtLeast, Least

LEMMA MacArithmetic ==
  /\ Mac!NoVideo = NoVideo /\ Mac!Videos = Videos
  /\ Mac!Screens = Screens /\ Mac!Sizes = Sizes
  /\ \A w, h : Mac!Size(w, h) = Size(w, h)
  /\ \A n : Mac!Part(n) = Part(n)
  /\ \A w, video : Mac!Height(w, video) = Height(w, video)
  /\ \A h, video : Mac!Width(h, video) = Width(h, video)
  /\ \A w, video, room : Mac!shaped(w, video, room) = shaped(w, video, room)
  /\ \A size, video : Mac!Shaped(size, video) <=> Shaped(size, video)
  /\ \A m, n : Mac!AtLeast(m, n) = AtLeast(m, n) /\ Mac!Least(m, n) = Least(m, n)
BY DEF Mac!NoVideo, Mac!Videos, Mac!Screens, Mac!Sizes, Mac!Size, Mac!Part,
       Mac!Height, Mac!Width, Mac!shaped, Mac!Shaped, Mac!AtLeast, Mac!Least,
       NoVideo, Videos, Screens, Sizes, Size, Part, Height, Width, shaped, Shaped, AtLeast, Least

----------------------------------------------------------------------------
(* Linux: what the loop has not fitted yet it is bound to see, in          *)
(* RESIZE_GEN or as a bump that is due.  The window manager shows the      *)
(* window full screen exactly if it manages it and the loop wants it.      *)
LinuxFit ==
  /\ worker = "none" => ~bump_due
  /\ last_resize <= RESIZE_GEN
  /\ whole = (is_fullscreen /\ mapped)
  /\ VIDEO_WH # NoVideo /\ ~is_fullscreen =>
       Shaped(window, VIDEO_WH) \/ bump_due \/ RESIZE_GEN # last_resize \/ worker = "place"

LEMMA LinuxPlaces ==
  ASSUME screen \in Screens, NEW video \in Videos
  PROVE  LET w == Least(video.w, Linux!Room.w)
         IN  Sound(shaped(w, video, Linux!Room)) /\ Shaped(shaped(w, video, Linux!Room), video)
<1> DEFINE room == Linux!Room
           w == Least(video.w, room.w)
<1>0. /\ video.w \in Nat \ {0} /\ video.h \in Nat \ {0}
      /\ screen.w \in ScreenSides /\ screen.h \in ScreenSides
      /\ Part(screen.w) \in Nat /\ Part(screen.h) \in Nat
  BY Dimensions
<1>a. room = Size(AtLeast(Part(screen.w), 160), AtLeast(Part(screen.h), 120))
  BY LinuxArithmetic DEF Linux!Room
<1>1. /\ room \in Sizes /\ room.w \in Nat /\ room.h \in Nat
      /\ Part(screen.w) <= room.w /\ Part(screen.h) <= room.h
  BY <1>0, <1>a DEF AtLeast, Sizes, Size
<1>2. w \in Nat /\ w \in {video.w, room.w}
  BY <1>0, <1>1 DEF Least
<1>3. ASSUME NothingVanishes PROVE video.w <= w * video.h /\ video.h <= room.h * video.w
  <2>1. video.h <= room.h * video.w
    BY <1>0, <1>1, <1>3, LargeEnough
  <2>2. CASE w = room.w
    BY <1>0, <1>1, <1>3, <2>1, <2>2, LargeEnough
  <2>3. CASE w = video.w
    <3>1. video.w * 1 <= video.w * video.h
      BY <1>0
    <3> QED BY <1>0, <2>1, <2>3, <3>1
  <2> QED BY <1>2, <2>1, <2>2, <2>3
<1> HIDE DEF room, w
<1>4. Sound(shaped(w, video, room)) /\ Shaped(shaped(w, video, room), video)
  BY <1>1, <1>2, <1>3, ShapedSound
<1> QED BY <1>4 DEF room, w

LEMMA LinuxStep ==
  ASSUME CommonType, LinuxType, LinuxFit, OnLinux, Linux!Next
  PROVE  CommonType' /\ LinuxType' /\ LinuxFit'
<1> USE DEF OnLinux, Linux!statics, Linux!loop, Linux!desk, Linux!counters, Linux!Places
<1>0. \A s \in Videos : s # NoVideo
  BY Dimensions
<1>1. ASSUME NEW video \in Videos, Linux!SwapSize(video)
      PROVE  CommonType' /\ LinuxType' /\ LinuxFit'
  <2>1. CommonType' /\ LinuxType'
    BY <1>1 DEF Linux!SwapSize, CommonType, LinuxType
  <2>2. LinuxFit'
    BY <1>0, <1>1 DEF Linux!SwapSize, LinuxFit
  <2> QED BY <2>1, <2>2
<1>2. CASE Linux!BumpResize
  <2>a. RESIZE_GEN \in Nat
    BY DEF LinuxType
  <2>b. RESIZE_GEN' = RESIZE_GEN + 1 /\ bump_due' = FALSE
    BY <1>2 DEF Linux!BumpResize
  <2>c. RESIZE_GEN' \in Nat
    BY <2>a, <2>b
  <2>d. bump_due' \in BOOLEAN
    BY <2>b
  <2>1. CommonType' /\ LinuxType'
    BY <1>2, <2>c, <2>d DEF Linux!BumpResize, CommonType, LinuxType
  <2>2. LinuxFit'
    BY <1>2 DEF Linux!BumpResize, LinuxFit, LinuxType
  <2> QED BY <2>1, <2>2
<1>3. CASE Linux!Connection
  BY <1>3 DEF Linux!Connection, CommonType, LinuxType, LinuxFit
<1>4. CASE Linux!StartRun
  <2>1. /\ VIDEO_WH' = NoVideo /\ Sound(window') /\ last_resize' = RESIZE_GEN /\ keys' = <<>>
        /\ worker' = "events" /\ mapped' = FALSE /\ whole' = FALSE /\ CONNECTED' = FALSE
        /\ is_fullscreen' \in BOOLEAN /\ runs' = runs + 1
    BY <1>4, LinuxArithmetic, SoundSizes DEF Linux!StartRun
  <2>2. UNCHANGED <<system, screen, RESIZE_GEN, bump_due, rotations, presses, connects,
                    ASPECT_WH, lines, acts>>
    BY <1>4 DEF Linux!StartRun
  <2>3. runs' \in Nat /\ last_resize' \in Int /\ last_resize' <= RESIZE_GEN
    BY <2>1 DEF CommonType, LinuxType
  <2>4. CommonType'
    BY <2>1, <2>2, <2>3 DEF CommonType
  <2>a. keys' \in Seq(Linux!Keys)
    BY <2>1
  <2>b. {mapped', whole'} \subseteq BOOLEAN /\ worker' \in Linux!Places
    BY <2>1
  <2>5. LinuxType'
    BY <2>1, <2>2, <2>3, <2>a, <2>b DEF LinuxType
  <2>6. LinuxFit'
    BY <2>1, <2>2, <2>3 DEF LinuxFit
  <2> QED BY <2>4, <2>5, <2>6
<1>5. CASE Linux!EndRun
  <2>1. CommonType' /\ LinuxType'
    BY <1>5 DEF Linux!EndRun, CommonType, LinuxType
  <2>2. LinuxFit'
    BY <1>5 DEF Linux!EndRun, LinuxFit
  <2> QED BY <2>1, <2>2
<1>6. CASE Linux!KeyPress
  <2>0. keys' \in Seq(Linux!Keys)
    BY <1>6 DEF Linux!KeyPress, LinuxType
  <2>a. ASSUME Head(keys) = "alt_enter" \/ is_fullscreen
        PROVE  /\ is_fullscreen' \in BOOLEAN /\ mapped' = mapped
               /\ whole' = (is_fullscreen' /\ mapped)
               /\ last_resize' = IF is_fullscreen' THEN last_resize ELSE last_resize - 1
    <3>1. /\ is_fullscreen' = (Head(keys) # "escape" /\ ~is_fullscreen) /\ mapped' = mapped
          /\ whole' = (is_fullscreen' /\ mapped')
          /\ last_resize' = IF is_fullscreen' THEN last_resize ELSE last_resize - 1
      BY <1>6, <2>a, Zenon DEF Linux!KeyPress, Linux!request_fullscreen
    <3> QED BY <3>1
  <2>b. ASSUME ~(Head(keys) = "alt_enter" \/ is_fullscreen)
        PROVE  is_fullscreen' \in BOOLEAN /\ UNCHANGED <<is_fullscreen, mapped, whole, last_resize>>
    BY <1>6, <2>b DEF Linux!KeyPress, CommonType
  <2>1. /\ keys' \in Seq(Linux!Keys) /\ is_fullscreen' \in BOOLEAN /\ mapped' = mapped
        /\ \/ UNCHANGED <<is_fullscreen, whole, last_resize>>
           \/ /\ whole' = (is_fullscreen' /\ mapped)
              /\ last_resize' = IF is_fullscreen' THEN last_resize ELSE last_resize - 1
    BY <2>0, <2>a, <2>b
  <2>2. UNCHANGED <<VIDEO_WH, RESIZE_GEN, CONNECTED, bump_due, worker, window, screen,
                    rotations, presses, connects, runs>> /\ worker = "events"
    BY <1>6 DEF Linux!KeyPress
  <2>3. whole' \in BOOLEAN /\ last_resize' \in Int
    BY <2>1 DEF CommonType, LinuxType
  <2>4. CommonType' /\ LinuxType'
    BY <2>1, <2>2, <2>3 DEF CommonType, LinuxType
  <2>5. CASE UNCHANGED <<is_fullscreen, whole, last_resize>>
    BY <2>1, <2>2, <2>4, <2>5 DEF LinuxFit
  <2>6. CASE /\ whole' = (is_fullscreen' /\ mapped)
             /\ last_resize' = IF is_fullscreen' THEN last_resize ELSE last_resize - 1
    <3>1. last_resize' <= RESIZE_GEN /\ (~is_fullscreen' => last_resize' # RESIZE_GEN)
      BY <2>6 DEF LinuxFit, LinuxType
    <3> QED BY <2>1, <2>2, <2>4, <2>6, <3>1 DEF LinuxFit
  <2> QED BY <2>1, <2>5, <2>6
<1>7. CASE Linux!Drained
  BY <1>7 DEF Linux!Drained, CommonType, LinuxType, LinuxFit
<1>8. CASE Linux!ShowHide
  <2>1. whole' = (is_fullscreen /\ mapped')
    BY <1>8 DEF Linux!ShowHide, Linux!request_fullscreen, LinuxFit, LinuxType, CommonType
  <2>2. CommonType' /\ LinuxType'
    BY <1>8, <2>1 DEF Linux!ShowHide, CommonType, LinuxType
  <2>3. LinuxFit'
    BY <1>8, <2>1 DEF Linux!ShowHide, LinuxFit
  <2> QED BY <2>2, <2>3
<1>9. CASE Linux!SampleResize
  <2>1. CommonType' /\ LinuxType'
    BY <1>9 DEF Linux!SampleResize, CommonType, LinuxType
  <2>2. LinuxFit'
    BY <1>9 DEF Linux!SampleResize, LinuxFit, LinuxType
  <2> QED BY <2>1, <2>2
<1>10. CASE Linux!Place
  <2>1. CASE VIDEO_WH = NoVideo \/ is_fullscreen
    <3>1. UNCHANGED window
      BY <1>10, <2>1, LinuxArithmetic DEF Linux!Place
    <3>2. CommonType' /\ LinuxType'
      BY <1>10, <3>1 DEF Linux!Place, CommonType, LinuxType
    <3>3. LinuxFit'
      BY <1>10, <2>1, <3>1 DEF Linux!Place, LinuxFit
    <3> QED BY <3>2, <3>3
  <2>2. CASE ~(VIDEO_WH = NoVideo \/ is_fullscreen)
    <3>1. VIDEO_WH \in Videos /\ screen \in Screens
      BY <2>2 DEF LinuxType, CommonType
    <3>2. Sound(window') /\ Shaped(window', VIDEO_WH)
      BY <1>10, <2>2, <3>1, LinuxPlaces, LinuxArithmetic DEF Linux!Place
    <3>3. CommonType' /\ LinuxType'
      BY <1>10, <3>2 DEF Linux!Place, CommonType, LinuxType
    <3>4. LinuxFit'
      BY <1>10, <3>2 DEF Linux!Place, LinuxFit
    <3> QED BY <3>3, <3>4
  <2> QED BY <2>1, <2>2
<1>11. ASSUME NEW key \in Linux!Keys, Linux!Press(key)
       PROVE  CommonType' /\ LinuxType' /\ LinuxFit'
  <2>1. CommonType' /\ LinuxType'
    BY <1>11 DEF Linux!Press, CommonType, LinuxType
  <2>2. LinuxFit'
    BY <1>11 DEF Linux!Press, LinuxFit
  <2> QED BY <2>1, <2>2
<1> QED BY <1>1, <1>2, <1>3, <1>4, <1>5, <1>6, <1>7, <1>8, <1>9, <1>10, <1>11, LinuxArithmetic
    DEF Linux!Next, Linux!Turn

----------------------------------------------------------------------------
(* Windows and macOS fit the window to a part of the screen.               *)
Room == Size(Part(screen.w), Part(screen.h))

LEMMA RoomPlaces ==
  ASSUME screen \in Screens, NEW video \in Videos
  PROVE  Sound(shaped(Room.w, video, Room)) /\ Shaped(shaped(Room.w, video, Room), video)
<1>0. /\ screen.w \in ScreenSides /\ screen.h \in ScreenSides
      /\ Part(screen.w) \in Nat /\ Part(screen.h) \in Nat
  BY Dimensions
<1>1. Room \in Sizes /\ Room.w = Part(screen.w) /\ Room.h = Part(screen.h)
  BY <1>0 DEF Room, Sizes, Size
<1>2. NothingVanishes => video.w <= Room.w * video.h /\ video.h <= Room.h * video.w
  BY <1>0, <1>1 DEF NothingVanishes
<1> QED BY <1>0, <1>1, <1>2, ShapedSound

(* The user drags one side, the other follows.                             *)
LEMMA DragPlaces ==
  ASSUME NEW side \in ScreenSides, NEW video \in Videos
  PROVE  /\ Sound(Size(Width(side, video), side)) /\ Shaped(Size(Width(side, video), side), video)
         /\ Sound(Size(side, Height(side, video))) /\ Shaped(Size(side, Height(side, video)), video)
<1>0. side \in Nat \ {0} /\ Part(side) <= side
  BY Dimensions
<1>1. /\ Width(side, video) \in Nat /\ Shaped(Size(Width(side, video), side), video)
      /\ Height(side, video) \in Nat /\ Shaped(Size(side, Height(side, video)), video)
  BY <1>0, WidthOf, HeightOf
<1>2. NothingVanishes => Width(side, video) > 0 /\ Height(side, video) > 0
  BY <1>0, LargeEnough, WidthOf, HeightOf
<1> QED BY <1>0, <1>1, <1>2 DEF Sound, Sizes, Size

(* The messages of a queue: whether one asks for a new fit, and what the   *)
(* last one about a device says.                                           *)
Refits(q) == \E i \in 1..Len(q) : q[i] = "WM_APP_RESIZE"
NoDevice(q) == \A i \in 1..Len(q) : q[i] = "WM_APP_RESIZE"
Newest(q, m) ==
  \E i \in 1..Len(q) : q[i] = m /\ \A j \in (i + 1)..Len(q) : q[j] = "WM_APP_RESIZE"
Connections == {"WM_APP_CONNECTED", "WM_APP_DISCONNECTED"}

LEMMA NoMessage == ~Refits(<<>>) /\ NoDevice(<<>>) /\ \A m : ~Newest(<<>>, m)
<1>1. Len(<<>>) = 0
  OBVIOUS
<1> QED BY <1>1 DEF Refits, NoDevice, Newest

LEMMA MessagePosted ==
  ASSUME NEW q \in Seq(Windows!Messages), NEW m \in Windows!Messages
  PROVE  /\ Refits(q) \/ m = "WM_APP_RESIZE" => Refits(Append(q, m))
         /\ m = "WM_APP_RESIZE" => (NoDevice(Append(q, m)) => NoDevice(q))
         /\ m \in Connections => ~NoDevice(Append(q, m))
         /\ \A n \in Connections : Newest(Append(q, m), n) =>
              IF m = "WM_APP_RESIZE" THEN Newest(q, n) ELSE n = m
<1> DEFINE p == Append(q, m)
<1>1. /\ Len(p) = Len(q) + 1 /\ p[Len(q) + 1] = m /\ Len(q) \in Nat
      /\ \A i \in 1..Len(q) : p[i] = q[i]
  OBVIOUS
<1>2. Len(q) + 1 \in 1..Len(p) /\ \A i \in 1..Len(q) : i \in 1..Len(p)
  BY <1>1
<1> HIDE DEF p
<1>3. Refits(q) \/ m = "WM_APP_RESIZE" => Refits(p)
  BY <1>1, <1>2 DEF Refits
<1>4. NoDevice(p) => NoDevice(q)
  BY <1>1, <1>2 DEF NoDevice
<1>5. m \in Connections => ~NoDevice(p)
  BY <1>1, <1>2 DEF NoDevice, Connections
<1>6. ASSUME NEW n \in Connections, Newest(p, n)
      PROVE  IF m = "WM_APP_RESIZE" THEN Newest(q, n) ELSE n = m
  <2>1. PICK i \in 1..Len(p) : p[i] = n /\ \A j \in (i + 1)..Len(p) : p[j] = "WM_APP_RESIZE"
    BY <1>6 DEF Newest
  <2>2. CASE i = Len(q) + 1
    BY <1>1, <1>6, <2>1, <2>2 DEF Connections
  <2>3. CASE i \in 1..Len(q)
    <3>1. Len(q) + 1 \in (i + 1)..Len(p)
      BY <1>1, <2>3
    <3>2. m = "WM_APP_RESIZE" /\ q[i] = n
      BY <1>1, <2>1, <2>3, <3>1
    <3>3. ASSUME NEW j \in (i + 1)..Len(q) PROVE q[j] = "WM_APP_RESIZE"
      <4>1. j \in (i + 1)..Len(p) /\ j \in 1..Len(q)
        BY <1>1, <2>3, <3>3
      <4> QED BY <1>1, <2>1, <4>1
    <3> QED BY <2>3, <3>2, <3>3 DEF Newest
  <2> QED BY <1>1, <2>1, <2>2, <2>3
<1>7. /\ Refits(p) \/ ~(Refits(q) \/ m = "WM_APP_RESIZE")
      /\ m = "WM_APP_RESIZE" => (NoDevice(p) => NoDevice(q))
      /\ m \in Connections => ~NoDevice(p)
      /\ \A n \in Connections : Newest(p, n) => IF m = "WM_APP_RESIZE" THEN Newest(q, n) ELSE n = m
  BY <1>3, <1>4, <1>5, <1>6
<1> QED BY <1>7 DEF p

LEMMA MessageTaken ==
  ASSUME NEW q \in Seq(Windows!Messages), q # <<>>
  PROVE  /\ Head(q) \in Windows!Messages /\ Tail(q) \in Seq(Windows!Messages)
         /\ Refits(q) => Head(q) = "WM_APP_RESIZE" \/ Refits(Tail(q))
         /\ NoDevice(Tail(q)) => IF Head(q) = "WM_APP_RESIZE" THEN NoDevice(q)
                                                              ELSE Newest(q, Head(q))
         /\ \A n : Newest(Tail(q), n) => Newest(q, n)
<1> DEFINE p == Tail(q)
<1>1. /\ Len(p) = Len(q) - 1 /\ Head(q) = q[1] /\ Len(q) \in Nat \ {0}
      /\ \A i \in 1..Len(p) : p[i] = q[i + 1]
  OBVIOUS
<1>2. Head(q) \in Windows!Messages /\ p \in Seq(Windows!Messages)
  OBVIOUS
<1> HIDE DEF p
<1>3. Refits(q) => Head(q) = "WM_APP_RESIZE" \/ Refits(p)
  <2> SUFFICES ASSUME NEW i \in 1..Len(q), q[i] = "WM_APP_RESIZE", i # 1 PROVE Refits(p)
    BY <1>1 DEF Refits
  <2>1. i - 1 \in 1..Len(p) /\ p[i - 1] = q[i]
    BY <1>1
  <2> QED BY <2>1 DEF Refits
<1>4. ASSUME NoDevice(p)
      PROVE  IF Head(q) = "WM_APP_RESIZE" THEN NoDevice(q) ELSE Newest(q, Head(q))
  <2>1. \A j \in 2..Len(q) : q[j] = "WM_APP_RESIZE"
    <3> SUFFICES ASSUME NEW j \in 2..Len(q) PROVE q[j] = "WM_APP_RESIZE"
      OBVIOUS
    <3>1. j - 1 \in 1..Len(p) /\ p[j - 1] = q[j]
      BY <1>1
    <3> QED BY <1>4, <3>1 DEF NoDevice
  <2>2. ASSUME Head(q) = "WM_APP_RESIZE", NEW i \in 1..Len(q) PROVE q[i] = "WM_APP_RESIZE"
    <3>1. i = 1 \/ i \in 2..Len(q)
      BY <1>1
    <3> QED BY <1>1, <2>1, <2>2, <3>1
  <2>3. Newest(q, Head(q))
    <3>1. 1 \in 1..Len(q) /\ 1 + 1 = 2
      BY <1>1
    <3> QED BY <1>1, <2>1, <3>1 DEF Newest
  <2> QED BY <2>2, <2>3 DEF NoDevice
<1>5. ASSUME NEW n, Newest(p, n) PROVE Newest(q, n)
  <2>1. PICK i \in 1..Len(p) : p[i] = n /\ \A j \in (i + 1)..Len(p) : p[j] = "WM_APP_RESIZE"
    BY <1>5 DEF Newest
  <2>2. i + 1 \in 1..Len(q) /\ q[i + 1] = n
    BY <1>1, <2>1
  <2>3. ASSUME NEW j \in (i + 1 + 1)..Len(q) PROVE q[j] = "WM_APP_RESIZE"
    <3>1. j - 1 \in (i + 1)..Len(p) /\ j - 1 \in 1..Len(p)
      BY <1>1, <2>1, <2>3
    <3>2. p[j - 1] = q[j]
      BY <1>1, <2>3, <3>1
    <3> QED BY <2>1, <3>1, <3>2
  <2> QED BY <2>2, <2>3 DEF Newest
<1> QED BY <1>2, <1>3, <1>4, <1>5 DEF p

(* Windows, in one run with quiet drags.  A size that the window does not  *)
(* have is about to be posted, or in the queue.                            *)
WindowsFit ==
  /\ running => runs = 1
  /\ runs = 0 => ~sized
  /\ ASPECT_WH = NoVideo <=> ~sized
  /\ ~running => logging = "none" /\ ~dragging /\ status = "Off"
  /\ dragging => queue = <<>> /\ logging = "none" /\ ~is_fullscreen
  /\ is_fullscreen => window = screen
  /\ sized /\ ~is_fullscreen =>
       Shaped(window, ASPECT_WH) \/ logging = "WM_APP_RESIZE" \/ Refits(queue)

(* The last message about a device says what CONNECTED does; when there is *)
(* none, the tray has been told.                                           *)
WindowsStatus ==
  running =>
    /\ logging = "WM_APP_CONNECTED" => CONNECTED
    /\ logging = "WM_APP_DISCONNECTED" => ~CONNECTED
    /\ logging \notin Connections =>
         /\ Newest(queue, "WM_APP_CONNECTED") => CONNECTED
         /\ Newest(queue, "WM_APP_DISCONNECTED") => ~CONNECTED
         /\ NoDevice(queue) => status = IF CONNECTED THEN "Connected" ELSE "Ready"

WindowsKeep == CommonType' /\ WindowsType' /\ WindowsFit' /\ WindowsStatus'

LEMMA WindowsFitted ==
  ASSUME CommonType
  PROVE  /\ Windows!Room = Room /\ Windows!NoVideo = NoVideo /\ Windows!Videos = Videos
         /\ Windows!HostWindow = Size(1280, 720)
         /\ ASPECT_WH # NoVideo =>
              /\ Sound(Windows!shaped(Windows!Room.w, ASPECT_WH, Windows!Room))
              /\ Shaped(Windows!shaped(Windows!Room.w, ASPECT_WH, Windows!Room), ASPECT_WH)
<1>1. Windows!Room = Room /\ Windows!HostWindow = Size(1280, 720)
  BY WindowsArithmetic DEF Windows!Room, Room, Windows!HostWindow
<1> QED BY <1>1, WindowsArithmetic, RoomPlaces DEF CommonType

LEMMA WindowsCallback ==
  ASSUME CommonType, WindowsType, WindowsFit, WindowsStatus, OnWindows,
         (\E video \in Videos : Windows!LogSize(video)) \/ Windows!LogConnection
           \/ Windows!PostMessage
  PROVE  WindowsKeep
<1> USE DEF WindowsKeep, OnWindows, Windows!statics, Windows!posts, Windows!state, Windows!fixed,
            Windows!counters
<1>0. \A v \in Videos : v # NoVideo
  BY Dimensions
<1>1. ASSUME NEW video \in Videos, Windows!LogSize(video) PROVE WindowsKeep
  <2>1. /\ running /\ ~dragging /\ logging = "none" /\ lines' = lines + 1 /\ ASPECT_WH' = video
        /\ logging' = IF ASPECT_WH = video THEN "none" ELSE "WM_APP_RESIZE"
        /\ sized' = TRUE
        /\ UNCHANGED <<system, CONNECTED, queue, is_fullscreen, saved_rect, window, dragging,
                       status, running, want_fullscreen, screen, acts, runs>>
    BY <1>1 DEF Windows!LogSize, Windows!MayLog
  <2>2. lines' \in Nat
    BY <2>1 DEF CommonType
  <2>3. CommonType'
    BY <2>1, <2>2 DEF CommonType
  <2>4. WindowsType'
    BY <2>1 DEF WindowsType, Windows!Messages
  <2>5. WindowsFit'
    BY <1>0, <2>1 DEF WindowsFit
  <2>6. WindowsStatus'
    BY <2>1 DEF WindowsStatus, Connections
  <2> QED BY <2>3, <2>4, <2>5, <2>6
<1>2. CASE Windows!LogConnection
  <2>1. /\ running /\ ~dragging /\ logging = "none" /\ lines' = lines + 1
        /\ CONNECTED' = ~CONNECTED
        /\ logging' = IF CONNECTED THEN "WM_APP_DISCONNECTED" ELSE "WM_APP_CONNECTED"
        /\ UNCHANGED <<system, ASPECT_WH, queue, is_fullscreen, saved_rect, window, dragging,
                       status, running, want_fullscreen, screen, sized, acts, runs>>
    BY <1>2 DEF Windows!LogConnection, Windows!MayLog
  <2>2. lines' \in Nat
    BY <2>1 DEF CommonType
  <2>a. CONNECTED' \in BOOLEAN
    BY <2>1
  <2>3. CommonType'
    BY <2>1, <2>2, <2>a DEF CommonType
  <2>4. WindowsType'
    BY <2>1 DEF WindowsType, Windows!Messages
  <2>5. WindowsFit'
    BY <2>1 DEF WindowsFit
  <2>6. WindowsStatus'
    BY <2>1 DEF WindowsStatus, Connections
  <2> QED BY <2>3, <2>4, <2>5, <2>6
<1>3. CASE Windows!PostMessage
  <2>1. /\ logging # "none" /\ queue' = Append(queue, logging) /\ logging' = "none"
        /\ UNCHANGED <<system, ASPECT_WH, CONNECTED, is_fullscreen, saved_rect, window, dragging,
                       status, running, want_fullscreen, screen, sized, lines, acts, runs>>
    BY <1>3 DEF Windows!PostMessage
  <2>2. logging \in Windows!Messages /\ queue \in Seq(Windows!Messages)
    BY <2>1 DEF WindowsType
  <2>3. /\ Refits(queue) \/ logging = "WM_APP_RESIZE" => Refits(queue')
        /\ logging = "WM_APP_RESIZE" => (NoDevice(queue') => NoDevice(queue))
        /\ logging \in Connections => ~NoDevice(queue')
        /\ \A n \in Connections : Newest(queue', n) =>
             IF logging = "WM_APP_RESIZE" THEN Newest(queue, n) ELSE n = logging
    BY <2>1, <2>2, MessagePosted
  <2>4. CommonType'
    BY <2>1 DEF CommonType
  <2>a. queue' \in Seq(Windows!Messages)
    BY <2>1, <2>2
  <2>5. WindowsType'
    BY <2>1, <2>a DEF WindowsType
  <2>6. WindowsFit'
    <3>1. ~dragging /\ running
      BY <2>1 DEF WindowsFit
    <3> QED BY <2>1, <2>3, <3>1 DEF WindowsFit
  <2>7. WindowsStatus'
    <3>1. logging \in {"WM_APP_RESIZE", "WM_APP_CONNECTED", "WM_APP_DISCONNECTED"}
      BY <2>2 DEF Windows!Messages
    <3> QED BY <2>1, <2>3, <3>1 DEF WindowsStatus, Connections
  <2> QED BY <2>4, <2>5, <2>6, <2>7
<1> QED BY <1>1, <1>2, <1>3

LEMMA WindowsPump ==
  ASSUME CommonType, WindowsType, WindowsFit, WindowsStatus, OnWindows,
         Windows!Pump \/ Windows!DragPump
  PROVE  WindowsKeep
<1> USE DEF WindowsKeep, OnWindows, Windows!statics, Windows!posts, Windows!state, Windows!fixed,
            Windows!counters
<1>1. Windows!Pump
  BY DEF Windows!DragPump, WindowsFit
<1>2. /\ running /\ ~dragging /\ queue # <<>> /\ queue' = Tail(queue)
      /\ Windows!Handle(Head(queue))
      /\ UNCHANGED <<system, ASPECT_WH, CONNECTED, logging, dragging, running, want_fullscreen,
                     screen, sized, lines, acts, runs>>
  BY <1>1 DEF Windows!Pump
<1>3. queue \in Seq(Windows!Messages)
  BY DEF WindowsType
<1>4. /\ Head(queue) \in Windows!Messages /\ queue' \in Seq(Windows!Messages)
      /\ Refits(queue) => Head(queue) = "WM_APP_RESIZE" \/ Refits(queue')
      /\ NoDevice(queue') => IF Head(queue) = "WM_APP_RESIZE" THEN NoDevice(queue)
                                                             ELSE Newest(queue, Head(queue))
      /\ \A n : Newest(queue', n) => Newest(queue, n)
  BY <1>2, <1>3, MessageTaken
<1>5. CASE Head(queue) \in Connections
  <2>1. status' = IF Head(queue) = "WM_APP_CONNECTED" THEN "Connected" ELSE "Ready"
    BY <1>2, <1>5 DEF Windows!Handle, Windows!OnConnected, Windows!OnDisconnected, Connections
  <2>2. \/ UNCHANGED <<is_fullscreen, saved_rect, window>>
        \/ is_fullscreen' = TRUE /\ window' = screen /\ saved_rect' = window
    BY <1>2, <1>5 DEF Windows!Handle, Windows!OnConnected, Windows!OnDisconnected,
       Windows!enter_fullscreen, Connections
  <2>3. is_fullscreen' \in BOOLEAN /\ Sound(window') /\ Sound(saved_rect')
    <3>1. /\ Sound(window) /\ Sound(saved_rect) /\ Sound(screen)
          /\ is_fullscreen \in BOOLEAN
      BY SoundSizes DEF CommonType, WindowsType
    <3>2. CASE UNCHANGED <<is_fullscreen, saved_rect, window>>
      BY <3>1, <3>2
    <3>3. CASE is_fullscreen' = TRUE /\ window' = screen /\ saved_rect' = window
      BY <3>1, <3>3
    <3> QED BY <2>2, <3>2, <3>3
  <2>4. CommonType'
    BY <1>2, <2>3 DEF CommonType
  <2>5. WindowsType'
    BY <1>2, <1>4, <2>1, <2>3 DEF WindowsType
  <2>6. WindowsFit'
    BY <1>2, <1>4, <1>5, <2>2 DEF WindowsFit, Connections
  <2>7. WindowsStatus'
    BY <1>2, <1>4, <1>5, <2>1 DEF WindowsStatus, Connections
  <2> QED BY <2>4, <2>5, <2>6, <2>7
<1>6. CASE Head(queue) = "WM_APP_RESIZE"
  <2>1. UNCHANGED <<is_fullscreen, saved_rect, status>>
        /\ IF is_fullscreen \/ ASPECT_WH = NoVideo THEN UNCHANGED window
           ELSE window' = Windows!shaped(Windows!Room.w, ASPECT_WH, Windows!Room)
    BY <1>2, <1>6, WindowsFitted DEF Windows!Handle, Windows!OnResize, Windows!fit_window_to_aspect
  <2>2. Sound(window') /\ (~is_fullscreen /\ ASPECT_WH # NoVideo => Shaped(window', ASPECT_WH))
    BY <2>1, WindowsFitted DEF CommonType
  <2>3. is_fullscreen => UNCHANGED window
    BY <2>1
  <2>4. CommonType'
    BY <1>2, <2>1, <2>2 DEF CommonType
  <2>5. WindowsType'
    BY <1>2, <1>4, <2>1 DEF WindowsType
  <2>6. WindowsFit'
    BY <1>2, <1>4, <1>6, <2>1, <2>2, <2>3 DEF WindowsFit
  <2>7. WindowsStatus'
    BY <1>2, <1>4, <1>6, <2>1 DEF WindowsStatus
  <2> QED BY <2>4, <2>5, <2>6, <2>7
<1> QED BY <1>4, <1>5, <1>6 DEF Windows!Messages, Connections

LEMMA WindowsUser ==
  ASSUME CommonType, WindowsType, WindowsFit, WindowsStatus, OnWindows, Windows!User
  PROVE  WindowsKeep
<1> USE DEF WindowsKeep, OnWindows, Windows!statics, Windows!posts, Windows!state, Windows!fixed,
            Windows!counters
<1>0. Windows!Acts => acts' = acts + 1 /\ acts' \in Nat /\ status = "Connected"
  BY DEF Windows!Acts, CommonType
<1>1. CASE Windows!Toggle
  <2>1. /\ ~dragging /\ acts' \in Nat
        /\ UNCHANGED <<system, ASPECT_WH, CONNECTED, logging, queue, dragging, status, running,
                       want_fullscreen, screen, sized, lines, runs>>
    BY <1>0, <1>1 DEF Windows!Toggle
  <2>2. \/ is_fullscreen' = TRUE /\ window' = screen /\ saved_rect' = window
        \/ /\ is_fullscreen' = FALSE /\ UNCHANGED saved_rect
           /\ window' = IF ASPECT_WH = NoVideo THEN saved_rect
                        ELSE Windows!shaped(Windows!Room.w, ASPECT_WH, Windows!Room)
    BY <1>1, WindowsFitted DEF Windows!Toggle, Windows!enter_fullscreen, Windows!leave_fullscreen
  <2>3. /\ is_fullscreen' \in BOOLEAN /\ Sound(window') /\ Sound(saved_rect')
        /\ is_fullscreen' => window' = screen
        /\ ~is_fullscreen' /\ ASPECT_WH # NoVideo => Shaped(window', ASPECT_WH)
    <3>1. Sound(window) /\ Sound(saved_rect) /\ Sound(screen)
      BY SoundSizes DEF CommonType, WindowsType
    <3>2. CASE is_fullscreen' = TRUE /\ window' = screen /\ saved_rect' = window
      BY <3>1, <3>2
    <3>3. CASE /\ is_fullscreen' = FALSE /\ UNCHANGED saved_rect
               /\ window' = IF ASPECT_WH = NoVideo THEN saved_rect
                            ELSE Windows!shaped(Windows!Room.w, ASPECT_WH, Windows!Room)
      <4>1. Sound(window') /\ (ASPECT_WH # NoVideo => Shaped(window', ASPECT_WH))
        BY <3>1, <3>3, WindowsFitted
      <4> QED BY <3>1, <3>3, <4>1
    <3> QED BY <2>2, <3>2, <3>3
  <2>4. CommonType'
    BY <2>1, <2>3 DEF CommonType
  <2>5. WindowsType'
    BY <2>1, <2>3 DEF WindowsType
  <2>6. WindowsFit'
    BY <2>1, <2>3 DEF WindowsFit
  <2>7. WindowsStatus'
    BY <2>1 DEF WindowsStatus
  <2> QED BY <2>4, <2>5, <2>6, <2>7
<1>2. CASE Windows!StartDrag \/ Windows!EndDrag
  <2>1. /\ dragging' \in BOOLEAN /\ acts' \in Nat
        /\ dragging' => ~is_fullscreen /\ queue = <<>> /\ logging = "none" /\ status = "Connected"
        /\ UNCHANGED <<system, ASPECT_WH, CONNECTED, logging, queue, is_fullscreen, saved_rect,
                       window, status, running, want_fullscreen, screen, sized, lines, runs>>
    <3>1. CASE Windows!StartDrag
      BY <1>0, <3>1 DEF Windows!StartDrag
    <3>2. CASE Windows!EndDrag
      BY <3>2 DEF Windows!EndDrag, CommonType
    <3> QED BY <1>2, <3>1, <3>2
  <2>2. CommonType' /\ WindowsType' /\ WindowsStatus'
    BY <2>1 DEF CommonType, WindowsType, WindowsStatus
  <2>3. WindowsFit'
    BY <2>1 DEF WindowsFit
  <2> QED BY <2>2, <2>3
<1>3. ASSUME NEW w \in ScreenSides, NEW h \in ScreenSides, Windows!DragTo(w, h) PROVE WindowsKeep
  <2>1. /\ dragging /\ acts' \in Nat
        /\ UNCHANGED <<system, ASPECT_WH, CONNECTED, logging, queue, is_fullscreen, saved_rect,
                       dragging, status, running, want_fullscreen, screen, sized, lines, runs>>
    BY <1>0, <1>3 DEF Windows!DragTo
  <2>2. IF ASPECT_WH = NoVideo THEN window' = Size(w, h)
        ELSE window' \in {Size(Width(h, ASPECT_WH), h), Size(w, Height(w, ASPECT_WH))}
    BY <1>3, WindowsArithmetic DEF Windows!DragTo
  <2>3. Sound(window') /\ (ASPECT_WH # NoVideo => Shaped(window', ASPECT_WH))
    BY <2>2, DragPlaces, SoundSizes DEF CommonType
  <2>4. CommonType' /\ WindowsType' /\ WindowsStatus'
    BY <2>1, <2>3 DEF CommonType, WindowsType, WindowsStatus
  <2>5. WindowsFit'
    BY <2>1, <2>3 DEF WindowsFit
  <2> QED BY <2>4, <2>5
<1> QED BY <1>1, <1>2, <1>3 DEF Windows!User

LEMMA WindowsRun ==
  ASSUME CommonType, WindowsType, WindowsFit, WindowsStatus, OnWindows,
         Windows!StartRun \/ Windows!EndRun
  PROVE  WindowsKeep
<1> USE DEF WindowsKeep, OnWindows, Windows!statics, Windows!posts, Windows!state, Windows!fixed,
            Windows!counters
<1>1. CASE Windows!StartRun
  <2>1. /\ ~running /\ runs < 1 /\ runs' = runs + 1
        /\ running' = TRUE /\ want_fullscreen' \in BOOLEAN /\ CONNECTED' = FALSE
        /\ queue' = <<>> /\ is_fullscreen' = FALSE
        /\ saved_rect' = Size(1280, 720) /\ window' = Size(1280, 720)
        /\ status' = "Ready" /\ sized' = FALSE
        /\ UNCHANGED <<system, ASPECT_WH, logging, dragging, screen, lines, acts>>
    BY <1>1, WindowsFitted DEF Windows!StartRun
  <2>2. runs = 0 /\ runs' = 1
    BY <2>1 DEF CommonType
  <2>a. Sound(window') /\ Sound(saved_rect')
    BY <2>1, SoundSizes
  <2>b. queue' \in Seq(Windows!Messages)
    BY <2>1
  <2>c. {running', CONNECTED', is_fullscreen', sized'} \subseteq BOOLEAN
    BY <2>1
  <2>3. /\ Sound(window') /\ Sound(saved_rect') /\ queue' \in Seq(Windows!Messages)
        /\ {running', CONNECTED', is_fullscreen', sized'} \subseteq BOOLEAN
    BY <2>a, <2>b, <2>c
  <2>4. CommonType'
    BY <2>1, <2>2, <2>3 DEF CommonType
  <2>5. WindowsType'
    BY <2>1, <2>3 DEF WindowsType
  <2>6. WindowsFit'
    BY <2>1, <2>2 DEF WindowsFit
  <2>7. WindowsStatus'
    <3>1. logging = "none" /\ \A m : ~Newest(queue', m)
      BY <2>1, NoMessage DEF WindowsFit
    <3> QED BY <2>1, <3>1 DEF WindowsStatus
  <2> QED BY <2>4, <2>5, <2>6, <2>7
<1>2. CASE Windows!EndRun
  <2>1. /\ running' = FALSE /\ ~dragging /\ logging = "none" /\ CONNECTED' = FALSE
        /\ status' = "Off"
        /\ UNCHANGED <<system, ASPECT_WH, logging, queue, is_fullscreen, saved_rect, window,
                       dragging, want_fullscreen, screen, sized, lines, acts, runs>>
    BY <1>2 DEF Windows!EndRun
  <2>2. running' \in BOOLEAN /\ CONNECTED' \in BOOLEAN
    BY <2>1
  <2>3. CommonType' /\ WindowsType'
    BY <2>1, <2>2 DEF CommonType, WindowsType
  <2>4. WindowsFit' /\ WindowsStatus'
    BY <2>1 DEF WindowsFit, WindowsStatus
  <2> QED BY <2>3, <2>4
<1> QED BY <1>1, <1>2

LEMMA WindowsStep ==
  ASSUME CommonType, WindowsType, WindowsFit, WindowsStatus, OnWindows, Windows!Next
  PROVE  WindowsKeep
BY WindowsCallback, WindowsPump, WindowsUser, WindowsRun, WindowsArithmetic DEF Windows!Next
----------------------------------------------------------------------------
(* macOS.  The last status on its way says what CONNECTED does; a refit    *)
(* that is put off has a full screen window, or a Resized event that will  *)
(* make it good.                                                           *)
MacFit ==
  /\ ASPECT_WH = NoVideo =>
       ~CONNECTED /\ ~visible /\ statuses = <<>> /\ refits = 0 /\ ~pending_refit
  /\ statuses = <<>> => (visible <=> CONNECTED)
  /\ statuses # <<>> => statuses[Len(statuses)] = IF CONNECTED THEN "Connected" ELSE "Ready"
  /\ pending_refit => ~byUser /\ (fullscreen \/ resized > 0)
  /\ visible /\ ~byUser =>
       Shaped(window, ASPECT_WH) \/ refits > 0 \/ statuses # <<>> \/ pending_refit

(* What the invariant keeps, and the user's size that a step respects.     *)
MacKeep == CommonType' /\ MacType' /\ MacFit' /\ Mac!RespectsUser

LEMMA MacFitted ==
  ASSUME CommonType
  PROVE  /\ Mac!NoVideo = NoVideo
         /\ ASPECT_WH # NoVideo =>
              /\ Sound(Mac!shaped(Mac!Room.w, ASPECT_WH, Mac!Room))
              /\ Shaped(Mac!shaped(Mac!Room.w, ASPECT_WH, Mac!Room), ASPECT_WH)
<1>1. Mac!Room = Room
  BY MacArithmetic DEF Mac!Room, Room
<1> QED BY <1>1, MacArithmetic, RoomPlaces DEF CommonType

(* A status is taken: when none is left, it was the last one sent.         *)
LEMMA StatusTaken ==
  ASSUME NEW q \in Seq({"Ready", "Connected"}), q # <<>>
  PROVE  /\ Head(q) \in {"Ready", "Connected"} /\ Tail(q) \in Seq({"Ready", "Connected"})
         /\ Tail(q) = <<>> => Head(q) = q[Len(q)]
         /\ Tail(q) # <<>> => Tail(q)[Len(Tail(q))] = q[Len(q)]
<1>1. /\ Len(Tail(q)) = Len(q) - 1 /\ Head(q) = q[1] /\ Len(q) \in Nat \ {0}
      /\ \A i \in 1..Len(Tail(q)) : Tail(q)[i] = q[i + 1]
  OBVIOUS
<1>2. Head(q) \in {"Ready", "Connected"} /\ Tail(q) \in Seq({"Ready", "Connected"})
  OBVIOUS
<1>3. Tail(q) = <<>> => Len(Tail(q)) = 0
  <2>1. Len(<<>>) = 0
    OBVIOUS
  <2> QED BY <2>1, Zenon
<1>4. Tail(q) # <<>> => Len(Tail(q)) \in 1..Len(Tail(q))
  BY <1>2
<1>5. Tail(q) = <<>> => Len(q) = 1
  BY <1>1, <1>3
<1>6. ASSUME Tail(q) # <<>> PROVE Tail(q)[Len(Tail(q))] = q[Len(q)]
  <2>1. Tail(q)[Len(Tail(q))] = q[Len(Tail(q)) + 1] /\ Len(Tail(q)) + 1 = Len(q)
    BY <1>1, <1>4, <1>6
  <2> QED BY <2>1
<1> QED BY <1>1, <1>2, <1>5, <1>6

LEMMA StatusSent ==
  ASSUME NEW q \in Seq({"Ready", "Connected"}), NEW s \in {"Ready", "Connected"}
  PROVE  /\ Append(q, s) \in Seq({"Ready", "Connected"}) /\ Append(q, s) # <<>>
         /\ Append(q, s)[Len(Append(q, s))] = s
<1>1. /\ Append(q, s) \in Seq({"Ready", "Connected"}) /\ Len(Append(q, s)) = Len(q) + 1
      /\ Append(q, s)[Len(q) + 1] = s /\ Len(q) \in Nat
  OBVIOUS
<1>2. Append(q, s) = <<>> => Len(Append(q, s)) = 0
  OBVIOUS
<1> QED BY <1>1, <1>2

LEMMA MacCallback ==
  ASSUME CommonType, MacType, MacFit, OnMac,
         (\E video \in Videos : Mac!LogSize(video)) \/ Mac!LogConnection
  PROVE  MacKeep
<1> USE DEF MacKeep, OnMac, Mac!mirror
<1>0. (\A v \in Videos : v # NoVideo) /\ Mac!NoVideo = NoVideo
  BY Dimensions, MacArithmetic
<1>1. ASSUME NEW video \in Videos, Mac!LogSize(video) PROVE MacKeep
  <2>1. /\ lines' = lines + 1 /\ ASPECT_WH' = video
        /\ refits' = IF ASPECT_WH \notin {NoVideo, video} /\ CONNECTED THEN refits + 1 ELSE refits
        /\ UNCHANGED <<system, CONNECTED, statuses, visible, fullscreen, window, resized,
                       pending_refit, byUser, screen, acts, is_fullscreen, runs>>
    BY <1>0, <1>1 DEF Mac!LogSize, Mac!Line
  <2>2. lines' \in Nat /\ refits' \in Nat /\ (refits > 0 => refits' > 0)
        /\ (ASPECT_WH \notin {NoVideo, video} /\ CONNECTED => refits' > 0)
    BY <2>1 DEF CommonType, MacType
  <2>3. CommonType'
    BY <2>1, <2>2 DEF CommonType
  <2>4. MacType'
    BY <2>1, <2>2 DEF MacType
  <2>5. MacFit'
    BY <1>0, <2>1, <2>2 DEF MacFit
  <2>6. Mac!RespectsUser
    BY <2>1 DEF Mac!RespectsUser
  <2> QED BY <2>3, <2>4, <2>5, <2>6
<1>2. CASE Mac!LogConnection
  <2>1. /\ ASPECT_WH # NoVideo /\ lines' = lines + 1 /\ CONNECTED' = ~CONNECTED
        /\ statuses' = Append(statuses, IF CONNECTED THEN "Ready" ELSE "Connected")
        /\ UNCHANGED <<system, ASPECT_WH, refits, visible, fullscreen, window, resized,
                       pending_refit, byUser, screen, acts, is_fullscreen, runs>>
    BY <1>0, <1>2 DEF Mac!LogConnection, Mac!Line
  <2>2. lines' \in Nat
    BY <2>1 DEF CommonType
  <2>a. CONNECTED' \in BOOLEAN
    BY <2>1
  <2>3. CommonType'
    BY <2>1, <2>2, <2>a DEF CommonType
  <2>4. /\ statuses' \in Seq({"Ready", "Connected"}) /\ statuses' # <<>>
        /\ statuses'[Len(statuses')] = IF CONNECTED THEN "Ready" ELSE "Connected"
    BY <2>1, StatusSent DEF MacType
  <2>5. MacType'
    BY <2>1, <2>4 DEF MacType
  <2>6. MacFit'
    BY <2>1, <2>4 DEF MacFit
  <2>7. Mac!RespectsUser
    BY <2>1 DEF Mac!RespectsUser
  <2> QED BY <2>3, <2>5, <2>6, <2>7
<1> QED BY <1>1, <1>2, MacArithmetic

(* The window, once it is fitted.                                          *)
LEMMA MacFits ==
  ASSUME CommonType, MacType, ASPECT_WH # NoVideo, Mac!fit_to_aspect
  PROVE  /\ Sound(window') /\ Shaped(window', ASPECT_WH) /\ byUser' = FALSE
         /\ resized' \in Nat /\ resized' >= resized
<1>1. /\ window' = Mac!shaped(Mac!Room.w, ASPECT_WH, Mac!Room) /\ byUser' = FALSE
      /\ resized' = IF window' = window THEN resized ELSE resized + 1
  BY DEF Mac!fit_to_aspect
<1>2. resized' \in Nat /\ resized' >= resized
  BY <1>1 DEF MacType
<1> QED BY <1>1, <1>2, MacFitted

LEMMA MacMain ==
  ASSUME CommonType, MacType, MacFit, OnMac, Mac!MainThread
  PROVE  MacKeep
<1> USE DEF MacKeep, OnMac, Mac!statics, Mac!counters
<1>1. CASE Mac!ShowMirror \/ Mac!HideMirror
  <2>1. /\ statuses # <<>> /\ statuses' = Tail(statuses)
        /\ UNCHANGED <<system, ASPECT_WH, CONNECTED, refits, screen, lines, acts,
                       is_fullscreen, runs>>
    BY <1>1 DEF Mac!ShowMirror, Mac!HideMirror
  <2>2. /\ Head(statuses) \in {"Ready", "Connected"} /\ statuses' \in Seq({"Ready", "Connected"})
        /\ statuses' = <<>> => Head(statuses) = statuses[Len(statuses)]
        /\ statuses' # <<>> => statuses'[Len(statuses')] = statuses[Len(statuses)]
        /\ statuses' # statuses
    <3>1. statuses \in Seq({"Ready", "Connected"})
      BY DEF MacType
    <3>2. Len(statuses') = Len(statuses) - 1 /\ Len(statuses) \in Nat
      BY <2>1, <3>1
    <3>3. statuses' # statuses
      BY <3>2
    <3> QED BY <2>1, <3>1, <3>3, StatusTaken
  <2>3. ASPECT_WH # NoVideo
    BY <2>1 DEF MacFit
  <2>4. Mac!RespectsUser
    BY <2>2 DEF Mac!RespectsUser
  <2>5. CASE Mac!ShowMirror
    <3>1. /\ Head(statuses) = "Connected" /\ visible' = TRUE /\ fullscreen' = (fullscreen \/ FALSE)
          /\ Mac!fit_to_aspect /\ UNCHANGED pending_refit
      BY <2>5 DEF Mac!ShowMirror
    <3>2. /\ Sound(window') /\ Shaped(window', ASPECT_WH) /\ byUser' = FALSE
          /\ resized' \in Nat /\ resized' >= resized
      BY <2>3, <3>1, MacFits
    <3>3. (fullscreen' <=> fullscreen) /\ fullscreen' \in BOOLEAN
      BY <3>1 DEF MacType
    <3>4. resized > 0 => resized' > 0
      BY <3>2 DEF MacType
    <3>5. CommonType'
      BY <2>1, <3>2 DEF CommonType
    <3>a. visible' \in BOOLEAN /\ byUser' \in BOOLEAN
      BY <3>1, <3>2
    <3>6. MacType'
      BY <2>1, <2>2, <3>1, <3>2, <3>3, <3>a DEF MacType
    <3>7. statuses' = <<>> => (visible' <=> CONNECTED')
      BY <2>1, <2>2, <3>1 DEF MacFit
    <3>8. MacFit'
      BY <2>1, <2>2, <2>3, <3>1, <3>2, <3>3, <3>4, <3>7 DEF MacFit
    <3> QED BY <2>4, <3>5, <3>6, <3>8
  <2>6. CASE Mac!HideMirror
    <3>1. /\ Head(statuses) = "Ready" /\ visible' = FALSE /\ fullscreen' = FALSE
          /\ pending_refit' = FALSE /\ UNCHANGED <<window, resized, byUser>>
      BY <2>6 DEF Mac!HideMirror
    <3>2. visible' \in BOOLEAN /\ fullscreen' \in BOOLEAN /\ pending_refit' \in BOOLEAN
      BY <3>1
    <3>3. CommonType'
      BY <2>1, <3>1 DEF CommonType
    <3>4. MacType'
      BY <2>1, <2>2, <3>1, <3>2 DEF MacType
    <3>5. statuses' = <<>> => (visible' <=> CONNECTED')
      BY <2>1, <2>2, <3>1 DEF MacFit
    <3>6. MacFit'
      BY <2>1, <2>2, <2>3, <3>1, <3>5 DEF MacFit
    <3> QED BY <2>4, <3>3, <3>4, <3>6
  <2> QED BY <1>1, <2>5, <2>6
<1>2. CASE Mac!RefitMirror
  <2>1. /\ refits > 0 /\ refits' = refits - 1
        /\ IF fullscreen
           THEN pending_refit' = TRUE /\ byUser' = FALSE /\ UNCHANGED <<window, resized>>
           ELSE Mac!fit_to_aspect /\ UNCHANGED pending_refit
        /\ UNCHANGED <<system, ASPECT_WH, CONNECTED, statuses, visible, fullscreen, screen,
                       lines, acts, is_fullscreen, runs>>
    BY <1>2 DEF Mac!RefitMirror
  <2>2. ASPECT_WH # NoVideo
    BY <2>1 DEF MacFit, MacType
  <2>3. refits' \in Nat /\ refits' # refits
    BY <2>1 DEF MacType
  <2>4. Mac!RespectsUser
    BY <2>3 DEF Mac!RespectsUser
  <2>5. CASE fullscreen
    <3>1. pending_refit' = TRUE /\ byUser' = FALSE /\ UNCHANGED <<window, resized>>
      BY <2>1, <2>5
    <3>2. pending_refit' \in BOOLEAN /\ byUser' \in BOOLEAN
      BY <3>1
    <3>3. CommonType'
      BY <2>1, <3>1 DEF CommonType
    <3>4. MacType'
      BY <2>1, <2>3, <3>1, <3>2 DEF MacType
    <3>5. MacFit'
      BY <2>1, <2>2, <2>5, <3>1 DEF MacFit
    <3> QED BY <2>4, <3>3, <3>4, <3>5
  <2>6. CASE ~fullscreen
    <3>1. Mac!fit_to_aspect /\ UNCHANGED pending_refit
      BY <2>1, <2>6
    <3>2. /\ Sound(window') /\ Shaped(window', ASPECT_WH) /\ byUser' = FALSE
          /\ resized' \in Nat /\ resized' >= resized
      BY <2>2, <3>1, MacFits
    <3>3. byUser' \in BOOLEAN
      BY <3>2
    <3>4. resized > 0 => resized' > 0
      BY <3>2 DEF MacType
    <3>5. CommonType'
      BY <2>1, <3>2 DEF CommonType
    <3>6. MacType'
      BY <2>1, <2>3, <3>1, <3>2, <3>3 DEF MacType
    <3>7. MacFit'
      BY <2>1, <2>2, <3>1, <3>2, <3>4 DEF MacFit
    <3> QED BY <2>4, <3>5, <3>6, <3>7
  <2> QED BY <2>5, <2>6
<1>3. CASE Mac!OnWindowResized
  <2>1. /\ resized > 0
        /\ IF pending_refit /\ ~fullscreen
           THEN /\ pending_refit' = FALSE
                /\ window' = Mac!shaped(Mac!Room.w, ASPECT_WH, Mac!Room) /\ byUser' = FALSE
                /\ resized' = IF window' = window THEN resized - 1 ELSE resized
           ELSE resized' = resized - 1 /\ UNCHANGED <<pending_refit, window, byUser>>
        /\ UNCHANGED <<system, ASPECT_WH, CONNECTED, statuses, refits, visible, fullscreen,
                       screen, lines, acts, is_fullscreen, runs>>
    BY <1>3 DEF Mac!OnWindowResized
  <2>2. resized' = resized - 1 \/ resized' = resized
    BY <2>1
  <2>3. resized' \in Nat
    BY <2>1, <2>2 DEF MacType
  <2>4. CASE pending_refit /\ ~fullscreen
    <3>1. /\ pending_refit' = FALSE /\ byUser' = FALSE
          /\ window' = Mac!shaped(Mac!Room.w, ASPECT_WH, Mac!Room)
      BY <2>1, <2>4
    <3>2. ASPECT_WH # NoVideo /\ ~byUser
      BY <2>4 DEF MacFit
    <3>3. Sound(window') /\ Shaped(window', ASPECT_WH)
      BY <3>1, <3>2, MacFitted
    <3>4. pending_refit' \in BOOLEAN /\ byUser' \in BOOLEAN
      BY <3>1
    <3>5. CommonType'
      BY <2>1, <3>3 DEF CommonType
    <3>6. MacType'
      BY <2>1, <2>3, <3>4 DEF MacType
    <3>7. MacFit'
      BY <2>1, <3>1, <3>2, <3>3 DEF MacFit
    <3>8. Mac!RespectsUser
      BY <3>2 DEF Mac!RespectsUser
    <3> QED BY <3>5, <3>6, <3>7, <3>8
  <2>5. CASE ~(pending_refit /\ ~fullscreen)
    <3>1. UNCHANGED <<pending_refit, window, byUser>>
      BY <2>1, <2>5
    <3>2. CommonType'
      BY <2>1, <3>1 DEF CommonType
    <3>3. MacType'
      BY <2>1, <2>3, <3>1 DEF MacType
    <3>4. MacFit'
      BY <2>1, <2>5, <3>1 DEF MacFit
    <3>5. Mac!RespectsUser
      BY <3>1 DEF Mac!RespectsUser
    <3> QED BY <3>2, <3>3, <3>4, <3>5
  <2> QED BY <2>4, <2>5
<1> QED BY <1>1, <1>2, <1>3 DEF Mac!MainThread

LEMMA MacUser ==
  ASSUME CommonType, MacType, MacFit, OnMac,
         Mac!ToggleFullscreen \/ \E size \in Screens : Mac!Resize(size)
  PROVE  MacKeep
<1> USE DEF MacKeep, OnMac, Mac!statics
<1>0. Mac!Act => /\ visible /\ resized = 0 /\ acts' \in Nat /\ acts' # acts
  BY DEF Mac!Act, CommonType
<1>1. CASE Mac!ToggleFullscreen
  <2>1. /\ Mac!Act /\ fullscreen' = ~fullscreen /\ resized' = resized + 1
        /\ UNCHANGED <<system, ASPECT_WH, CONNECTED, statuses, refits, visible, window,
                       pending_refit, byUser, screen, lines, is_fullscreen, runs>>
    BY <1>1 DEF Mac!ToggleFullscreen
  <2>2. resized' \in Nat /\ resized' > 0
    BY <2>1 DEF MacType
  <2>3. fullscreen' \in BOOLEAN
    BY <2>1
  <2>4. CommonType'
    BY <1>0, <2>1 DEF CommonType
  <2>5. MacType'
    BY <2>1, <2>2, <2>3 DEF MacType
  <2>6. MacFit'
    BY <2>1, <2>2 DEF MacFit
  <2>7. Mac!RespectsUser
    BY <2>1 DEF Mac!RespectsUser
  <2> QED BY <2>4, <2>5, <2>6, <2>7
<1>2. ASSUME NEW size \in Screens, Mac!Resize(size) PROVE MacKeep
  <2>1. /\ Mac!Act /\ ~fullscreen /\ window' = size /\ byUser' = TRUE /\ resized' = resized + 1
        /\ UNCHANGED <<system, ASPECT_WH, CONNECTED, statuses, refits, visible, fullscreen,
                       pending_refit, screen, lines, is_fullscreen, runs>>
    BY <1>2 DEF Mac!Resize
  <2>2. resized' \in Nat
    BY <2>1 DEF MacType
  <2>3. byUser' \in BOOLEAN
    BY <2>1
  <2>4. Sound(window')
    BY <2>1, SoundSizes
  <2>5. CommonType'
    BY <1>0, <2>1, <2>4 DEF CommonType
  <2>6. MacType'
    BY <2>1, <2>2, <2>3 DEF MacType
  <2>7. ~pending_refit'
    BY <1>0, <2>1 DEF MacFit
  <2>8. MacFit'
    BY <2>1, <2>7 DEF MacFit
  <2>9. Mac!RespectsUser
    BY <1>0, <2>1 DEF Mac!RespectsUser
  <2> QED BY <2>5, <2>6, <2>8, <2>9
<1> QED BY <1>1, <1>2

LEMMA MacStep ==
  ASSUME CommonType, MacType, MacFit, OnMac, Mac!Next
  PROVE  MacKeep
BY MacCallback, MacMain, MacUser, MacArithmetic DEF Mac!Next

----------------------------------------------------------------------------
(* The three systems together.                                             *)
IInv ==
  /\ CommonType /\ LinuxType /\ WindowsType /\ MacType
  /\ system = "linux" => LinuxFit
  /\ system = "windows" => WindowsFit /\ WindowsStatus
  /\ system = "mac" => MacFit

LEMMA Initially == Init => IInv
<1> SUFFICES ASSUME Init PROVE IInv
  OBVIOUS
<1>1. /\ system \in {"linux", "windows", "mac"}
      /\ screen \in Screens /\ window = Size(1280, 720) /\ saved_rect = Size(1280, 720)
      /\ ASPECT_WH = NoVideo /\ VIDEO_WH = NoVideo
      /\ runs = 0 /\ lines = 0 /\ acts = 0
  BY LinuxArithmetic, WindowsArithmetic, MacArithmetic
  DEF Init, Linux!Init, Windows!Init, Mac!Init, Windows!HostWindow
<1>2. /\ RESIZE_GEN = 0 /\ worker = "none" /\ last_resize = 0 /\ keys = <<>>
      /\ rotations = 0 /\ presses = 0 /\ connects = 0
      /\ logging = "none" /\ queue = <<>> /\ status = "Off"
      /\ statuses = <<>> /\ refits = 0 /\ resized = 0
  BY DEF Init, Linux!Init, Windows!Init, Mac!Init
<1>3. /\ CONNECTED = FALSE /\ is_fullscreen = FALSE
      /\ bump_due = FALSE /\ mapped = FALSE /\ whole = FALSE
      /\ running = FALSE /\ want_fullscreen = FALSE /\ dragging = FALSE /\ sized = FALSE
      /\ visible = FALSE /\ fullscreen = FALSE /\ pending_refit = FALSE /\ byUser = FALSE
  BY DEF Init, Linux!Init, Windows!Init, Mac!Init
<1>4. /\ {CONNECTED, is_fullscreen, bump_due, mapped, whole, running, want_fullscreen, dragging,
          sized, visible, fullscreen, pending_refit, byUser} \subseteq BOOLEAN
  BY <1>3
<1>5. keys \in Seq(Linux!Keys) /\ queue \in Seq(Windows!Messages)
      /\ statuses \in Seq({"Ready", "Connected"})
  BY <1>2
<1>6. Sound(window) /\ Sound(saved_rect)
  BY <1>1, SoundSizes
<1>7. CommonType
  BY <1>1, <1>4, <1>6 DEF CommonType
<1>8. LinuxType
  BY <1>1, <1>2, <1>4, <1>5 DEF LinuxType, Linux!Places
<1>9. WindowsType
  BY <1>2, <1>4, <1>5, <1>6 DEF WindowsType
<1>10. MacType
  BY <1>2, <1>4, <1>5 DEF MacType
<1>11. LinuxFit
  <2>1. whole = (is_fullscreen /\ mapped)
    BY <1>3
  <2> QED BY <1>1, <1>2, <1>3, <2>1 DEF LinuxFit
<1>12. WindowsFit /\ WindowsStatus
  BY <1>1, <1>2, <1>3 DEF WindowsFit, WindowsStatus
<1>13. MacFit
  BY <1>1, <1>2, <1>3 DEF MacFit
<1> QED BY <1>7, <1>8, <1>9, <1>10, <1>11, <1>12, <1>13 DEF IInv

(* A step of one system leaves what the other two keep alone.              *)
LEMMA LinuxAlone == ASSUME LinuxType, UNCHANGED linuxOnly PROVE LinuxType'
BY DEF LinuxType, linuxOnly

LEMMA WindowsAlone == ASSUME WindowsType, UNCHANGED windowsOnly PROVE WindowsType'
BY DEF WindowsType, windowsOnly

LEMMA MacAlone == ASSUME MacType, UNCHANGED macOnly PROVE MacType'
BY DEF MacType, macOnly

LEMMA SystemStep ==
  ASSUME IInv, Next
  PROVE  IInv' /\ (system = "mac" => Mac!RespectsUser)
<1>0. CommonType /\ LinuxType /\ WindowsType /\ MacType
  BY DEF IInv
<1>1. CASE OnLinux /\ Linux!Next
  <2>1. system = "linux" /\ system' = "linux"
    BY <1>1 DEF OnLinux
  <2>2. LinuxFit
    BY <2>1 DEF IInv
  <2>3. CommonType' /\ LinuxType' /\ LinuxFit'
    BY <1>0, <1>1, <2>2, LinuxStep
  <2>4. WindowsType' /\ MacType'
    BY <1>0, <1>1, WindowsAlone, MacAlone DEF OnLinux
  <2> QED BY <2>1, <2>3, <2>4 DEF IInv
<1>2. CASE OnWindows /\ Windows!Next
  <2>1. system = "windows" /\ system' = "windows"
    BY <1>2 DEF OnWindows
  <2>2. WindowsFit /\ WindowsStatus
    BY <2>1 DEF IInv
  <2>3. CommonType' /\ WindowsType' /\ WindowsFit' /\ WindowsStatus'
    BY <1>0, <1>2, <2>2, WindowsStep DEF WindowsKeep
  <2>4. LinuxType' /\ MacType'
    BY <1>0, <1>2, LinuxAlone, MacAlone DEF OnWindows
  <2> QED BY <2>1, <2>3, <2>4 DEF IInv
<1>3. CASE OnMac /\ Mac!Next
  <2>1. system = "mac" /\ system' = "mac"
    BY <1>3 DEF OnMac
  <2>2. MacFit
    BY <2>1 DEF IInv
  <2>3. CommonType' /\ MacType' /\ MacFit' /\ Mac!RespectsUser
    BY <1>0, <1>3, <2>2, MacStep DEF MacKeep
  <2>4. LinuxType' /\ WindowsType'
    BY <1>0, <1>3, LinuxAlone, WindowsAlone DEF OnMac
  <2> QED BY <2>1, <2>3, <2>4 DEF IInv
<1> QED BY <1>1, <1>2, <1>3 DEF Next

LEMMA Stutters ==
  ASSUME IInv, UNCHANGED vars
  PROVE  IInv'
<1>1. UNCHANGED <<system, screen, window, CONNECTED, is_fullscreen, ASPECT_WH, runs, lines, acts>>
      /\ UNCHANGED linuxOnly /\ UNCHANGED windowsOnly /\ UNCHANGED macOnly
  BY DEF vars
<1>2. CommonType' /\ LinuxType' /\ WindowsType' /\ MacType'
  <2>1. CommonType'
    BY <1>1 DEF IInv, CommonType
  <2> QED BY <1>1, <2>1, LinuxAlone, WindowsAlone, MacAlone DEF IInv
<1>3. system = "linux" => LinuxFit'
  BY <1>1 DEF IInv, LinuxFit, linuxOnly
<1>4. system = "windows" => WindowsFit' /\ WindowsStatus'
  BY <1>1 DEF IInv, WindowsFit, WindowsStatus, windowsOnly
<1>5. system = "mac" => MacFit'
  BY <1>1 DEF IInv, MacFit, macOnly
<1> QED BY <1>1, <1>2, <1>3, <1>4, <1>5 DEF IInv

(* What is not fitted yet stays known to the loop (Linux), the queue       *)
(* (Windows) or the main thread (macOS), and the last message or status on *)
(* its way speaks of the device there is: whatever the order of rotations, *)
(* devices, keys, drags and full screen, for screens and videos of any     *)
(* size.                                                                   *)
THEOREM InvariantHolds == Spec => []IInv
<1>1. IInv /\ [Next]_vars => IInv'
  BY SystemStep, Stutters
<1> QED BY Initially, <1>1, PTL DEF Spec

(* What the invariant says once all that was logged has been handled.      *)
LEMMA Fits ==
  ASSUME IInv, NothingVanishes
  PROVE  FitsTheVideo
<1>0. CommonType /\ LinuxType /\ WindowsType /\ MacType
  BY DEF IInv
<1>1. Linux!TypeOK
  <2>1. window \in Sizes /\ window.w > 0 /\ window.h > 0
    BY <1>0 DEF CommonType, Sound
  <2> QED BY <1>0, <2>1, LinuxArithmetic DEF CommonType, LinuxType, Linux!TypeOK
<1>2. Windows!TypeOK
  <2>1. \A size \in {saved_rect, window} : size \in Sizes /\ size.w > 0 /\ size.h > 0
    BY <1>0 DEF CommonType, WindowsType, Sound
  <2> QED BY <1>0, <2>1, WindowsArithmetic DEF CommonType, WindowsType, Windows!TypeOK
<1>3. Mac!TypeOK
  <2>1. window \in Sizes /\ window.w > 0 /\ window.h > 0
    BY <1>0 DEF CommonType, Sound
  <2> QED BY <1>0, <2>1, MacArithmetic DEF CommonType, MacType, Mac!TypeOK
<1>4. system = "linux" => Linux!FitsTheVideo
  BY LinuxArithmetic DEF IInv, LinuxFit, Linux!FitsTheVideo, Linux!Quiet
<1>5. ASSUME system = "windows"
      PROVE  /\ Windows!RectFits /\ Windows!StatusFollowsDevice
             /\ Windows!Borderless => Windows!NoBars
  <2>1. WindowsFit /\ WindowsStatus
    BY <1>5 DEF IInv
  <2>2. Windows!RectFits
    BY <2>1, NoMessage, WindowsArithmetic
       DEF WindowsFit, Windows!RectFits, Windows!Fitted, Windows!Quiet
  <2>3. Windows!StatusFollowsDevice
    BY <2>1, NoMessage DEF WindowsStatus, Connections, Windows!StatusFollowsDevice, Windows!Quiet
  <2>4. ASSUME Windows!Borderless PROVE Windows!Content = window
    <3>1. window \in [w : Nat, h : Nat]
      BY <1>0 DEF CommonType, Sound, Sizes
    <3>2. window.w - 0 = window.w /\ window.h - 0 = window.h
      BY <3>1
    <3>3. Windows!Content = [w |-> window.w, h |-> window.h]
      BY <2>4, <3>2 DEF Windows!Borderless, Windows!Content, Windows!Size
    <3> QED BY <3>1, <3>3
  <2>5. Windows!Borderless => Windows!NoBars
    BY <2>2, <2>4 DEF Windows!RectFits, Windows!NoBars
  <2> QED BY <2>2, <2>3, <2>5
<1>6. ASSUME system = "mac" PROVE Mac!FitsTheVideo
  <2>1. MacFit
    BY <1>6 DEF IInv
  <2>2. ~fullscreen /\ resized = 0 => ~pending_refit
    BY <2>1 DEF MacFit
  <2>3. refits = 0 => ~(refits > 0)
    OBVIOUS
  <2> QED BY <2>1, <2>2, <2>3, MacArithmetic DEF MacFit, Mac!FitsTheVideo, Mac!Quiet
<1> QED BY <1>1, <1>2, <1>3, <1>4, <1>5, <1>6 DEF FitsTheVideo

(* On any screen and for any video that is not too long and narrow to be   *)
(* seen: once everything logged has been handled, the window has the shape *)
(* of the newest size - on Windows with its frame, of whatever width, and  *)
(* so without black bars only where it has no frame (borderless); and the  *)
(* Windows tray knows the device.                                          *)
THEOREM FitsTheVideoHolds == NothingVanishes => (Spec => []FitsTheVideo)
<1> SUFFICES ASSUME NothingVanishes PROVE Spec => []FitsTheVideo
  OBVIOUS
<1>1. IInv => FitsTheVideo
  BY Fits
<1> QED BY InvariantHolds, <1>1, PTL

LEMMA Decides ==
  ASSUME IInv, [Next]_vars
  PROVE  [/\ system = "linux" => Linux!FullscreenAgrees'
          /\ system = "windows" => Windows!FullscreenCovers'
          /\ system = "mac" => Mac!RespectsUser]_vars
<1> SUFFICES ASSUME Next
             PROVE  /\ system = "linux" => Linux!FullscreenAgrees'
                    /\ system = "windows" => Windows!FullscreenCovers'
                    /\ system = "mac" => Mac!RespectsUser
  OBVIOUS
<1>1. IInv' /\ (system = "mac" => Mac!RespectsUser)
  BY SystemStep
<1>2. system' = system
  BY DEF Next, OnLinux, OnWindows, OnMac
<1>3. ASSUME system = "linux" PROVE Linux!FullscreenAgrees'
  <2>1. whole' = (is_fullscreen' /\ mapped')
    BY <1>1, <1>2, <1>3 DEF IInv, LinuxFit
  <2>2. is_fullscreen' \in BOOLEAN
    BY <1>1 DEF IInv, CommonType
  <2>3. mapped' => whole' = is_fullscreen'
    BY <2>1, <2>2
  <2> QED BY <2>3 DEF Linux!FullscreenAgrees
<1>4. system = "windows" => Windows!FullscreenCovers'
  BY <1>1, <1>2 DEF IInv, WindowsFit, Windows!FullscreenCovers
<1> QED BY <1>1, <1>3, <1>4

(* What the user asked for stays, on any system, screen and video: full    *)
(* screen is shown as the loop believes it is, covers the screen, and a    *)
(* size of the user's own lasts until a rotation or a device.              *)
THEOREM UserDecidesHolds == Spec => UserDecides
<1>1. IInv /\ [Next]_vars =>
        [/\ system = "linux" => Linux!FullscreenAgrees'
         /\ system = "windows" => Windows!FullscreenCovers'
         /\ system = "mac" => Mac!RespectsUser]_vars
  BY Decides
<1> QED BY InvariantHolds, <1>1, PTL DEF Spec, UserDecides
=============================================================================
