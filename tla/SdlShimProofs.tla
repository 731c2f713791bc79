---------------------------- MODULE SdlShimProofs ----------------------------
(***************************************************************************)
(* Modes, events and touches of src/sdl_webos_shim.c, proved for every     *)
(* panel, every set of requests, points and environments and every bound.  *)
(*                                                                         *)
(* The screen that a mode is clamped to is the window there is, so what is *)
(* said of modes needs an invariant about windows: WindowFits and          *)
(* WindowIsScreen.  What is said of touches needs one about the queue: the *)
(* events still in it lead, motion by motion, from where the game was told *)
(* the finger is to where SDL2 has it (Linked, Followed).                  *)
(***************************************************************************)
EXTENDS Display, SequenceTheorems, WellFoundedInduction, TLAPS

USE SdlAssumption DEF NoSize

Extents   == [w : Nat \ {0}, h : Nat \ {0}]
Sizes     == Extents \union {NoSize}
Positions == [x : Nat, y : Nat]
Motions   == [x : Int, y : Int]
Asks      == [w : Int, h : Int]
Events    == [type : {"resize", "tap", "motion"}, at : Positions, rel : Motions, size : Sizes]

TypeOK ==
  /\ env \in Environments /\ shell \in {Desktop, Turned(Desktop)}
  /\ window \in Sizes /\ mode \in Sizes /\ react \in Sizes /\ gl \in BOOLEAN
  /\ queue \in Seq(Events) /\ pointer \in Positions
  /\ drag \in [on : BOOLEAN, from : Motions, sum : Motions, n : Nat]

\* SDL has made the window, so it fits a view of the screen.
WindowFits == window # NoSize => Works(window)

\* With PDK_NO_UPSCALE unset, a window is as large as the screen on one view of it, and
\* on the only one when the two agree; without the clamp that is so when they agree.
WindowIsScreen ==
  ~env.noUpscale =>
    /\ ~env.noClamp => window \in {NoSize, shell, Fallback}
    /\ shell = Fallback => window \in {NoSize, shell}

\* The call that is cached is the one the window was made by.
CacheIsCurrent == cache.gl = gl

\* The mode a request gets on a screen of the fallback's size.
Kept(r) ==
  IF r.w <= 0 \/ r.h <= 0 THEN Fallback
  ELSE IF ~env.noClamp /\ (r.w > Fallback.w \/ r.h > Fallback.h) THEN Fallback ELSE r

\* What ResetIsStable compares with: the mode is what the request gets again.
ModeIsKept ==
  request.gl /\ ~env.noUpscale /\ (shell = Fallback \/ FitsBoth(request.size)) =>
    mode = Kept(request.size)

\* PDK_SCREEN_WIDTH and _HEIGHT ask for no more than the panel.
OverridesFit == \A e \in Environments : e.screen.w <= Desktop.w /\ e.screen.h <= Desktop.h
-----------------------------------------------------------------------------
(* The screen.                                                             *)

\* The environment's variables are set or not, the override has an extent or none.
LEMMA EnvTypes ==
  ASSUME env \in Environments
  PROVE  /\ {env.noClamp, env.noUpscale, env.allowResize, env.modeCache, env.noWindow, env.noInput}
              \subseteq BOOLEAN
         /\ env.screen \in Sizes
         /\ Fallback \in Extents
  BY DEF Sizes, Extents, Fallback

\* The display rectangle has an extent.
LEMMA RectType == ASSUME TypeOK PROVE DisplayRect \in Extents
<1>1. Fallback \in Extents  BY EnvTypes DEF TypeOK
<1>2. CASE window # NoSize /\ found /\ ~env.noWindow
  BY <1>2 DEF DisplayRect, TypeOK, Sizes
<1>3. CASE ~(window # NoSize /\ found /\ ~env.noWindow)
  BY <1>1, <1>3, Zenon DEF DisplayRect
<1> QED  BY <1>2, <1>3

\* It is the fallback's or the window's.
LEMMA RectIs == DisplayRect = Fallback \/ (DisplayRect = window /\ window # NoSize)
  BY Zenon DEF DisplayRect

\* The mode that is set has an extent, and is the screen's when it is clamped.
LEMMA ModeType ==
  ASSUME TypeOK, NEW r \in Asks
  PROVE  LET m == Clamped(Native(r))
         IN /\ m \in Extents
            /\ ~env.noClamp => m.w <= DisplayRect.w /\ m.h <= DisplayRect.h
            /\ m = DisplayRect \/ (m = r /\ r.w > 0 /\ r.h > 0)
<1>1. DisplayRect \in Extents  BY RectType
<1> DEFINE D == DisplayRect
<1> HIDE DEF D
<1>2. D \in Extents  BY <1>1 DEF D
<1>3. D.w \in Nat \ {0} /\ D.h \in Nat \ {0} /\ r.w \in Int /\ r.h \in Int  BY <1>2 DEF Extents, Asks
<1>4. CASE r.w <= 0 \/ r.h <= 0
  <2>1. Native(r) = D  BY <1>4 DEF Native, D
  <2>2. Clamped(D) = D  BY DEF Clamped, D
  <2> QED  BY <2>1, <2>2, <1>2, <1>3 DEF D
<1>5. CASE ~(r.w <= 0 \/ r.h <= 0)
  <2>1. Native(r) = r  BY <1>5 DEF Native
  <2>2. r.w > 0 /\ r.h > 0 /\ r \in Extents  BY <1>3, <1>5 DEF Asks, Extents
  <2>3. CASE ~env.noClamp /\ (r.w > D.w \/ r.h > D.h)
    <3>1. Clamped(r) = D  BY <2>3 DEF Clamped, D
    <3> QED  BY <2>1, <3>1, <1>2, <1>3 DEF D
  <2>4. CASE ~(~env.noClamp /\ (r.w > D.w \/ r.h > D.h))
    <3>1. Clamped(r) = r  BY <2>4 DEF Clamped, D
    <3>2. ~env.noClamp => r.w <= D.w /\ r.h <= D.h  BY <2>4, <1>3
    <3> QED  BY <2>1, <2>2, <3>1, <3>2 DEF D
  <2> QED  BY <2>3, <2>4
<1> QED  BY <1>4, <1>5

\* Where the screen is the fallback's size or the request fits, it gets what it got.
LEMMA SameMode ==
  ASSUME TypeOK, WindowIsScreen, ~env.noUpscale, NEW r \in Asks, shell = Fallback \/ FitsBoth(r)
  PROVE  Clamped(Native(r)) = Kept(r)
<1>1. CASE shell = Fallback
  <2>1. DisplayRect = Fallback  BY <1>1, RectIs DEF WindowIsScreen
  <2>2. Native(r) = IF r.w <= 0 \/ r.h <= 0 THEN Fallback ELSE r  BY <2>1 DEF Native
  <2>3. CASE r.w <= 0 \/ r.h <= 0
    <3>1. Native(r) = Fallback /\ Kept(r) = Fallback  BY <2>2, <2>3 DEF Kept
    <3> QED  BY <2>1, <3>1 DEF Clamped
  <2>4. CASE ~(r.w <= 0 \/ r.h <= 0)
    <3>1. Native(r) = r  BY <2>2, <2>4
    <3> QED  BY <2>1, <2>4, <3>1 DEF Clamped, Kept
  <2> QED  BY <2>3, <2>4
<1>2. CASE FitsBoth(r)
  <2>1. Fallback \in Extents /\ shell \in Extents
    BY EnvTypes DEF TypeOK, Extents, Turned
  <2>2. /\ r.w \in Int /\ r.h \in Int /\ r.w > 0 /\ r.h > 0
        /\ r.w <= Fallback.w /\ r.h <= Fallback.h /\ r.w <= shell.w /\ r.h <= shell.h
        /\ {Fallback.w, Fallback.h, shell.w, shell.h} \subseteq Int
    BY <1>2, <2>1 DEF FitsBoth, Extents, Asks
  <2>3. Native(r) = r /\ Kept(r) = r  BY <2>2 DEF Native, Kept
  <2>4. CASE env.noClamp  BY <2>3, <2>4 DEF Clamped
  <2>5. CASE ~env.noClamp
    <3>1. DisplayRect = Fallback \/ DisplayRect = shell  BY <2>5, RectIs DEF WindowIsScreen
    <3>2. ~(r.w > DisplayRect.w \/ r.h > DisplayRect.h)
      <4>1. CASE DisplayRect = Fallback  BY <2>2, <4>1
      <4>2. CASE DisplayRect = shell  BY <2>2, <4>2
      <4> QED  BY <3>1, <4>1, <4>2
    <3> QED  BY <2>3, <3>2 DEF Clamped
  <2> QED  BY <2>4, <2>5
<1> QED  BY <1>1, <1>2
-----------------------------------------------------------------------------
(* SDL_SetVideoMode.                                                       *)

\* The outcomes of the real call: the surface of the call before it, a new window, or
\* none for a mode that fits no view of the screen.
LEMMA RealOutcomes ==
  ASSUME NEW m, NEW g \in BOOLEAN, NEW full \in BOOLEAN, Real(m, g, full)
  PROVE  \/ /\ cache = [size |-> m, gl |-> g, full |-> full] /\ surface' = m
            /\ UNCHANGED <<window, gl, queue, cache>>
         \/ /\ Works(m) /\ window' = (IF full THEN shell ELSE m) /\ gl' = g
            /\ surface' = m /\ cache' = [size |-> m, gl |-> g, full |-> full]
            /\ (queue' = queue \/ queue' = Append(queue, Resize(window')))
         \/ /\ ~Works(m) /\ surface' = NoSize
            /\ UNCHANGED <<window, gl, queue, cache>>
<1> DEFINE call == [size |-> m, gl |-> g, full |-> full]
<1> DEFINE hit == env.modeCache /\ cache = call
<1>1. CASE hit
  <2>1. surface' = m /\ UNCHANGED <<window, found, gl, queue, cache>>  BY <1>1, Zenon DEF Real
  <2> QED  BY <1>1, <2>1
<1>2. CASE ~hit /\ Works(m)
  <2>1. /\ Create(IF full THEN shell ELSE m, g)
        /\ surface' = m /\ cache' = call
    BY <1>2, Zenon DEF Real
  <2>2. window' = (IF full THEN shell ELSE m) /\ gl' = g
    BY <2>1, Zenon DEF Create
  <2>3. queue' = queue \/ queue' = Append(queue, Resize(window'))
    BY <2>1, <2>2, Zenon DEF Create
  <2> QED  BY <1>2, <2>1, <2>2, <2>3
<1>3. CASE ~hit /\ ~Works(m)
  <2>1. surface' = NoSize /\ UNCHANGED <<window, found, gl, queue, cache>>  BY <1>3, Zenon DEF Real
  <2> QED  BY <1>3, <2>1
<1> QED  BY <1>1, <1>2, <1>3

\* A view of the screen, a window there is, and a mode no larger than one of them work.
LEMMA RectWorks ==
  ASSUME TypeOK, WindowFits, OverridesFit, NEW m \in Extents,
         m.w <= DisplayRect.w, m.h <= DisplayRect.h
  PROVE  Works(m)
<1>1. Works(DisplayRect)
  <2>1. CASE DisplayRect = window /\ window # NoSize  BY <2>1 DEF WindowFits
  <2>2. CASE DisplayRect = Fallback
    <3>1. Fallback.w <= Desktop.w /\ Fallback.h <= Desktop.h
      <4>1. CASE env.screen # NoSize  BY <4>1 DEF Fallback, OverridesFit, TypeOK
      <4>2. CASE env.screen = NoSize  BY <4>2 DEF Fallback
      <4> QED  BY <4>1, <4>2
    <3> QED  BY <2>2, <3>1 DEF Works
  <2> QED  BY <2>1, <2>2, RectIs
<1>2. PICK s \in {Desktop, shell} : DisplayRect.w <= s.w /\ DisplayRect.h <= s.h
  BY <1>1 DEF Works
<1>3. DisplayRect \in Extents  BY RectType
<1>4. s \in Extents  BY DEF TypeOK, Extents, Turned
<1> DEFINE D == DisplayRect
<1> HIDE DEF D
<1>5. m.w <= s.w /\ m.h <= s.h
  <2>1. D \in Extents /\ m.w <= D.w /\ m.h <= D.h /\ D.w <= s.w /\ D.h <= s.h
    BY <1>2, <1>3 DEF D
  <2> QED  BY <2>1, <1>4 DEF Extents
<1> QED  BY <1>5 DEF Works

\* What a step does to the window and to what depends on it.
ModesKept == WindowFits /\ WindowIsScreen /\ CacheIsCurrent /\ ModesAgree /\ ModeIsKept

\* SetVideoMode keeps the invariants of modes; the mode it sets is Clamped(Native(req)).
LEMMA SetStep ==
  ASSUME TypeOK, ModesKept, NEW req \in Asks, NEW g \in BOOLEAN, NEW full \in BOOLEAN,
         SetVideoMode(req, g, full)
  PROVE  /\ ModesKept'
         /\ window' \in Sizes /\ mode' \in Sizes /\ gl' \in BOOLEAN
         /\ queue' = queue \/ \E s \in Sizes : queue' = Append(queue, Resize(s))
         /\ UNCHANGED <<env, shell, pointer, got>> /\ drag' = NoDrag
         /\ OverridesFit => (SurfaceNotNull)'
<1> DEFINE m == Clamped(Native(req))
           wide == full \/ Undersized(m)
<1>1. /\ mode' = m /\ glmode' = (IF g THEN m ELSE glmode) /\ Real(m, g, wide)
      /\ request' = [size |-> req, gl |-> g] /\ drag' = NoDrag
      /\ UNCHANGED <<env, shell, pointer, got, moves, turns>>
  BY DEF SetVideoMode
<1>2. /\ m \in Extents
      /\ ~env.noClamp => m.w <= DisplayRect.w /\ m.h <= DisplayRect.h
      /\ m = DisplayRect \/ (m = req /\ req.w > 0 /\ req.h > 0)
  BY ModeType
<1>3. wide \in BOOLEAN  BY DEF Undersized
<1>4. ~wide /\ ~env.noUpscale => m.w >= DisplayRect.w /\ m.h >= DisplayRect.h
  <2>1. DisplayRect \in Extents  BY RectType
  <2> DEFINE D == DisplayRect
  <2>2. ~wide /\ ~env.noUpscale => ~(m.w < D.w \/ m.h < D.h)  BY DEF Undersized
  <2> HIDE DEF D, m
  <2>3. D \in Extents /\ m \in Extents  BY <1>2, <2>1 DEF D
  <2> QED  BY <2>2, <2>3 DEF Extents, D
<1>5. ~env.noUpscale /\ (shell = Fallback \/ FitsBoth(req)) => m = Kept(req)
  BY SameMode DEF ModesKept
<1>6. WindowFits /\ WindowIsScreen /\ CacheIsCurrent /\ ModesAgree  BY DEF ModesKept
<1> HIDE DEF m, wide
<1>7. \/ /\ cache = [size |-> m, gl |-> g, full |-> wide] /\ surface' = m
         /\ UNCHANGED <<window, gl, queue, cache>>
      \/ /\ Works(m) /\ window' = (IF wide THEN shell ELSE m) /\ gl' = g
         /\ surface' = m /\ cache' = [size |-> m, gl |-> g, full |-> wide]
         /\ (queue' = queue \/ queue' = Append(queue, Resize(window')))
      \/ /\ ~Works(m) /\ surface' = NoSize
         /\ UNCHANGED <<window, gl, queue, cache>>
  BY <1>1, <1>3, RealOutcomes
<1>8. Fallback' = Fallback /\ (WindowFits' <=> (window' # NoSize => Works(window')))
  <2>1. ASSUME NEW s PROVE Works(s)' = Works(s)  BY <1>1 DEF Works
  <2> QED  BY <1>1, <2>1 DEF Fallback, WindowFits, Works
<1>9. window' \in Sizes
  BY <1>2, <1>7 DEF TypeOK, Sizes, Extents, Turned
<1>10. WindowFits'
  <2>1. Works(shell)  BY DEF Works, TypeOK, Turned
  <2> QED  BY <1>6, <1>7, <1>8, <2>1 DEF WindowFits
<1>11. ~wide /\ ~env.noUpscale =>
         /\ ~env.noClamp => m \in {shell, Fallback}
         /\ shell = Fallback /\ Works(m) => m = shell
  <2> SUFFICES ASSUME ~wide, ~env.noUpscale
               PROVE  /\ ~env.noClamp => m \in {shell, Fallback}
                      /\ shell = Fallback /\ Works(m) => m = shell
    OBVIOUS
  <2>1. DisplayRect \in Extents  BY RectType
  <2> DEFINE D == DisplayRect
  <2>2. D \in Extents /\ m.w >= D.w /\ m.h >= D.h  BY <1>4, <2>1
  <2>3. D = Fallback \/ (D = window /\ window # NoSize)  BY RectIs
  <2>4. ~env.noClamp => m.w <= D.w /\ m.h <= D.h  BY <1>2
  <2> HIDE DEF D
  <2>5. ASSUME ~env.noClamp PROVE m \in {shell, Fallback}
    <3>1. m.w = D.w /\ m.h = D.h  BY <1>2, <2>2, <2>4, <2>5 DEF Extents
    <3>2. m = D  BY <3>1, <1>2, <2>2 DEF Extents
    <3> QED  BY <3>2, <2>3, <2>5, <1>6 DEF WindowIsScreen
  <2>6. ASSUME shell = Fallback, Works(m) PROVE m = shell
    <3>1. D = shell  BY <2>3, <2>6, <1>6 DEF WindowIsScreen
    <3>2. PICK s \in {Desktop, shell} : m.w <= s.w /\ m.h <= s.h  BY <2>6 DEF Works
    <3>3. shell \in Extents /\ s \in Extents  BY DEF TypeOK, Extents, Turned
    <3>4. m.w >= shell.w /\ m.h >= shell.h  BY <2>2, <3>1
    <3>5. CASE s = shell
      <4>1. m.w = shell.w /\ m.h = shell.h  BY <1>2, <3>2, <3>3, <3>4, <3>5 DEF Extents
      <4> QED  BY <4>1, <1>2, <3>3 DEF Extents
    <3>6. CASE s = Desktop /\ shell = Turned(Desktop)
      <4>1. Desktop \in Extents /\ shell.w = Desktop.h /\ shell.h = Desktop.w
        BY <3>6 DEF Extents, Turned
      <4>2. m.w <= Desktop.w /\ m.h <= Desktop.h  BY <3>2, <3>6
      <4>3. m.w = shell.w /\ m.h = shell.h  BY <1>2, <3>4, <4>1, <4>2 DEF Extents
      <4> QED  BY <4>3, <1>2, <3>3 DEF Extents
    <3> QED  BY <3>5, <3>6 DEF TypeOK
  <2> QED  BY <2>5, <2>6
<1>12. WindowIsScreen'
  BY <1>1, <1>6, <1>7, <1>8, <1>11 DEF WindowIsScreen
<1>13. CacheIsCurrent'  BY <1>6, <1>7 DEF CacheIsCurrent
<1>14. ModesAgree'
  <2>1. CASE surface' = NoSize  BY <2>1 DEF ModesAgree
  <2>2. CASE gl' = g  BY <1>1, <2>2 DEF ModesAgree
  <2>3. gl' = g \/ surface' = NoSize  BY <1>6, <1>7 DEF CacheIsCurrent
  <2> QED  BY <2>1, <2>2, <2>3
<1>15. ModeIsKept'
  <2>1. FitsBoth(req)' = FitsBoth(req) /\ Kept(req)' = Kept(req)
    BY <1>1, <1>8 DEF FitsBoth, Kept
  <2>2. request'.size = req  BY <1>1
  <2>3. /\ FitsBoth(request.size)' => FitsBoth(req)
        /\ Kept(request.size)' = Kept(req)
    BY <1>1, <1>8, <2>2 DEF FitsBoth, Kept
  <2> QED  BY <1>1, <1>5, <1>8, <2>3 DEF ModeIsKept
<1>16. ASSUME OverridesFit PROVE SurfaceNotNull'
  <2>1. ~env.noClamp => Works(m)  BY <1>2, <1>6, <1>16, RectWorks
  <2>2. m # NoSize  BY <1>2 DEF Extents
  <2> QED  BY <1>1, <1>7, <2>1, <2>2 DEF SurfaceNotNull
<1>17. mode' \in Sizes  BY <1>1, <1>2 DEF Sizes
<1>18. queue' = queue \/ \E s \in Sizes : queue' = Append(queue, Resize(s))
  BY <1>7, <1>9
<1>19. gl' \in BOOLEAN
  <2>1. gl' = g \/ gl' = gl  BY <1>7
  <2> QED  BY <2>1 DEF TypeOK
<1> QED  BY <1>1, <1>9, <1>10, <1>12, <1>13, <1>14, <1>15, <1>16, <1>17, <1>18, <1>19 DEF ModesKept
-----------------------------------------------------------------------------
(* The queue.                                                              *)

IsMouse(e) == e.type # "resize"

\* Where the finger was before a motion.
Before(e) == [x |-> e.at.x - e.rel.x, y |-> e.at.y - e.rel.y]

\* The last mouse event of a queue is where SDL2's pointer p is, and every motion
\* starts where the mouse event before it ended.
Linked(q, p) ==
  /\ \A i \in DOMAIN q :
       IsMouse(q[i]) /\ (\A j \in DOMAIN q : i < j => ~IsMouse(q[j])) => q[i].at = p
  /\ \A i, j \in DOMAIN q :
       /\ i < j /\ IsMouse(q[i]) /\ q[j].type = "motion"
       /\ \A n \in DOMAIN q : i < n /\ n < j => ~IsMouse(q[n])
       => q[i].at = Before(q[j])

\* A queue takes the finger on from position r to the pointer's, p.
Followed(q, r, p) ==
  /\ (\A i \in DOMAIN q : ~IsMouse(q[i])) => r = p
  /\ \A i \in DOMAIN q :
       q[i].type = "motion" /\ (\A j \in DOMAIN q : j < i => ~IsMouse(q[j])) => Before(q[i]) = r

\* The places of a queue, and of what is appended to it or left of it.
LEMMA Places ==
  ASSUME NEW q \in Seq(Events)
  PROVE  /\ DOMAIN q = 1..Len(q) /\ Len(q) \in Nat /\ DOMAIN q \subseteq Nat
         /\ \A i \in DOMAIN q : q[i] \in Events
  OBVIOUS

\* An event put at the end of the queue.
LEMMA AfterAppend ==
  ASSUME NEW q \in Seq(Events), NEW e \in Events
  PROVE  /\ Append(q, e) \in Seq(Events)
         /\ DOMAIN Append(q, e) = DOMAIN q \union {Len(q) + 1}
         /\ Append(q, e)[Len(q) + 1] = e
         /\ \A i \in DOMAIN q : Append(q, e)[i] = q[i] /\ i < Len(q) + 1
         /\ Len(q) + 1 \in Nat /\ Len(q) + 1 \notin DOMAIN q
  OBVIOUS

\* The events left when the first n are taken.
LEMMA AfterTake ==
  ASSUME NEW q \in Seq(Events), NEW n \in DOMAIN q
  PROVE  LET t == SubSeq(q, n + 1, Len(q))
         IN /\ t \in Seq(Events)
            /\ DOMAIN t = 1..(Len(q) - n)
            /\ \A i \in DOMAIN t : t[i] = q[i + n] /\ i + n \in DOMAIN q /\ n < i + n
            /\ \A i \in DOMAIN q : n < i => i - n \in DOMAIN t /\ t[i - n] = q[i]
<1> DEFINE t == SubSeq(q, n + 1, Len(q))
<1>1. n \in Nat /\ 1 <= n /\ n <= Len(q) /\ Len(q) \in Nat  OBVIOUS
<1>2. t \in Seq(Events) /\ Len(t) = Len(q) - n /\ \A i \in 1..Len(t) : t[i] = q[n + 1 + i - 1]
  <2>1. \A i \in (n + 1)..Len(q) : q[i] \in Events  BY <1>1
  <2>2. n + 1 \in Int /\ Len(q) \in Int  BY <1>1
  <2>3. /\ t \in Seq(Events)
        /\ Len(t) = IF n + 1 <= Len(q) THEN Len(q) - (n + 1) + 1 ELSE 0
        /\ \A i \in 1..(Len(q) - (n + 1) + 1) : t[i] = q[n + 1 + i - 1]
    BY <2>1, <2>2, SubSeqProperties
  <2> HIDE DEF t
  <2>4. Len(t) = Len(q) - n /\ Len(q) - (n + 1) + 1 = Len(q) - n  BY <1>1, <2>3
  <2> QED  BY <2>3, <2>4
<1>3. DOMAIN t = 1..(Len(q) - n)  BY <1>2
<1>4. \A i \in DOMAIN t : t[i] = q[i + n] /\ i + n \in DOMAIN q /\ n < i + n
  <2> SUFFICES ASSUME NEW i \in DOMAIN t PROVE t[i] = q[i + n] /\ i + n \in DOMAIN q /\ n < i + n
    OBVIOUS
  <2>1. i \in 1..(Len(q) - n)  BY <1>3
  <2>2. i \in Int /\ 1 <= i /\ i <= Len(q) - n  BY <2>1, <1>1
  <2>3. n + 1 + i - 1 = i + n  BY <1>1, <2>2
  <2> HIDE DEF t
  <2>4. t[i] = q[i + n]  BY <1>2, <1>3, <2>1, <2>3
  <2> QED  BY <1>1, <2>2, <2>4
<1>5. \A i \in DOMAIN q : n < i => i - n \in DOMAIN t /\ t[i - n] = q[i]
  <2> SUFFICES ASSUME NEW i \in DOMAIN q, n < i PROVE i - n \in DOMAIN t /\ t[i - n] = q[i]
    OBVIOUS
  <2>1. i \in Int /\ i <= Len(q)  BY <1>1
  <2>2. i - n \in 1..(Len(q) - n) /\ (i - n) + n = i  BY <1>1, <2>1
  <2> HIDE DEF t
  <2> QED  BY <1>3, <1>4, <2>2
<1> QED  BY <1>2, <1>3, <1>4, <1>5

\* A resize in the queue changes nothing for the mouse.
LEMMA ResizeLinked ==
  ASSUME NEW q \in Seq(Events), NEW p, NEW e \in Events, ~IsMouse(e), Linked(q, p)
  PROVE  Linked(Append(q, e), p)
<1> DEFINE t == Append(q, e)
<1>1. /\ DOMAIN t = DOMAIN q \union {Len(q) + 1} /\ t[Len(q) + 1] = e
      /\ \A i \in DOMAIN q : t[i] = q[i]
      /\ Len(q) + 1 \notin DOMAIN q
  BY AfterAppend
<1>2. e.type # "motion"  BY DEF IsMouse
<1> HIDE DEF t
<1>3. ASSUME NEW i \in DOMAIN t, IsMouse(t[i]), \A j \in DOMAIN t : i < j => ~IsMouse(t[j])
      PROVE  t[i].at = p
  BY <1>1, <1>3 DEF Linked
<1>4. ASSUME NEW i \in DOMAIN t, NEW j \in DOMAIN t, i < j, IsMouse(t[i]), t[j].type = "motion",
             \A n \in DOMAIN t : i < n /\ n < j => ~IsMouse(t[n])
      PROVE  t[i].at = Before(t[j])
  <2>1. i \in DOMAIN q /\ j \in DOMAIN q /\ t[i] = q[i] /\ t[j] = q[j]
    BY <1>1, <1>2, <1>4
  <2> QED  BY <1>1, <1>4, <2>1 DEF Linked
<1>5. Linked(t, p)  BY <1>3, <1>4 DEF Linked
<1> QED  BY <1>5 DEF t

\* A mouse event in the queue brings the pointer; a motion starts where it was.
LEMMA MouseLinked ==
  ASSUME NEW q \in Seq(Events), NEW p, NEW e \in Events, IsMouse(e), Linked(q, p),
         e.type = "motion" => Before(e) = p
  PROVE  Linked(Append(q, e), e.at)
<1> DEFINE t == Append(q, e)
<1> DEFINE newest == Len(q) + 1
<1>1. /\ DOMAIN t = DOMAIN q \union {newest} /\ t[newest] = e
      /\ \A i \in DOMAIN q : t[i] = q[i] /\ i < newest
      /\ newest \notin DOMAIN q /\ newest \in Nat /\ DOMAIN q \subseteq Nat
  BY AfterAppend, Places
<1> HIDE DEF t, newest
<1>3. ASSUME NEW i \in DOMAIN t, \A j \in DOMAIN t : i < j => ~IsMouse(t[j])
      PROVE  t[i].at = e.at
  BY <1>1, <1>3
<1>4. ASSUME NEW i \in DOMAIN t, NEW j \in DOMAIN t, i < j, IsMouse(t[i]), t[j].type = "motion",
             \A n \in DOMAIN t : i < n /\ n < j => ~IsMouse(t[n])
      PROVE  t[i].at = Before(t[j])
  <2>1. i \in DOMAIN q
    <3>1. i # newest
      <4> SUFFICES ASSUME i = newest PROVE FALSE  OBVIOUS
      <4>1. j \in Nat /\ (j \in DOMAIN q => j < newest)  BY <1>1
      <4> QED  BY <1>1, <1>4, <4>1
    <3> QED  BY <1>1, <3>1
  <2>2. CASE j \in DOMAIN q
    <3>1. t[i] = q[i] /\ t[j] = q[j]  BY <1>1, <2>1, <2>2
    <3>2. \A n \in DOMAIN q : i < n /\ n < j => ~IsMouse(q[n])  BY <1>1, <1>4
    <3> QED  BY <1>4, <2>1, <2>2, <3>1, <3>2 DEF Linked
  <2>3. CASE j = newest
    <3>1. IsMouse(q[i])  BY <1>1, <1>4, <2>1
    <3>2. \A n \in DOMAIN q : i < n => ~IsMouse(q[n])  BY <1>1, <1>4, <2>3
    <3>3. q[i].at = p  BY <2>1, <3>1, <3>2 DEF Linked
    <3> QED  BY <1>1, <1>4, <2>1, <2>3, <3>3
  <2> QED  BY <1>1, <2>2, <2>3
<1>5. Linked(t, e.at)  BY <1>3, <1>4 DEF Linked
<1> QED  BY <1>5 DEF t

\* What is left of a queue is as linked as it was.
LEMMA TakeLinked ==
  ASSUME NEW q \in Seq(Events), NEW p, NEW n \in DOMAIN q, Linked(q, p)
  PROVE  Linked(SubSeq(q, n + 1, Len(q)), p)
<1> DEFINE t == SubSeq(q, n + 1, Len(q))
<1>1. /\ \A i \in DOMAIN t : t[i] = q[i + n] /\ i + n \in DOMAIN q /\ i \in Int
      /\ \A i \in DOMAIN q : n < i => i - n \in DOMAIN t /\ t[i - n] = q[i]
      /\ n \in Nat /\ DOMAIN q \subseteq Nat
  <2>1. /\ DOMAIN t = 1..(Len(q) - n) /\ n \in Nat /\ DOMAIN q \subseteq Nat
        /\ \A i \in DOMAIN t : t[i] = q[i + n] /\ i + n \in DOMAIN q
        /\ \A i \in DOMAIN q : n < i => i - n \in DOMAIN t /\ t[i - n] = q[i]
    BY AfterTake, Places
  <2> QED  BY <2>1
<1> HIDE DEF t
<1>3. ASSUME NEW i \in DOMAIN t, IsMouse(t[i]), \A j \in DOMAIN t : i < j => ~IsMouse(t[j])
      PROVE  t[i].at = p
  <2>1. i + n \in DOMAIN q /\ IsMouse(q[i + n]) /\ t[i] = q[i + n]  BY <1>1, <1>3
  <2>2. ASSUME NEW j \in DOMAIN q, i + n < j PROVE ~IsMouse(q[j])
    <3>1. n < j /\ i < j - n
      <4>1. i \in DOMAIN t /\ i \in Int /\ j \in Int  BY <1>1
      <4>2. 1 <= i  BY AfterTake DEF t
      <4> QED  BY <1>1, <2>2, <4>1, <4>2
    <3> QED  BY <1>1, <1>3, <3>1
  <2> QED  BY <2>1, <2>2 DEF Linked
<1>4. ASSUME NEW i \in DOMAIN t, NEW j \in DOMAIN t, i < j, IsMouse(t[i]), t[j].type = "motion",
             \A k \in DOMAIN t : i < k /\ k < j => ~IsMouse(t[k])
      PROVE  t[i].at = Before(t[j])
  <2>1. /\ i + n \in DOMAIN q /\ IsMouse(q[i + n]) /\ t[i] = q[i + n]
        /\ j + n \in DOMAIN q /\ q[j + n].type = "motion" /\ t[j] = q[j + n]
        /\ i + n < j + n
    BY <1>1, <1>4
  <2>2. ASSUME NEW k \in DOMAIN q, i + n < k, k < j + n PROVE ~IsMouse(q[k])
    <3>1. n < k /\ i < k - n /\ k - n < j
      <4>1. i \in Int /\ j \in Int /\ k \in Int  BY <1>1
      <4>2. 1 <= i  BY AfterTake DEF t
      <4> QED  BY <1>1, <2>2, <4>1, <4>2
    <3> QED  BY <1>1, <1>4, <3>1
  <2> QED  BY <2>1, <2>2 DEF Linked
<1>5. Linked(t, p)  BY <1>3, <1>4 DEF Linked
<1> QED  BY <1>5 DEF t

\* A resize does not move the finger.
LEMMA ResizeFollowed ==
  ASSUME NEW q \in Seq(Events), NEW r, NEW p, NEW e \in Events, ~IsMouse(e), Followed(q, r, p)
  PROVE  Followed(Append(q, e), r, p)
<1> DEFINE t == Append(q, e)
<1>1. /\ DOMAIN t = DOMAIN q \union {Len(q) + 1} /\ t[Len(q) + 1] = e
      /\ \A i \in DOMAIN q : t[i] = q[i]
  BY AfterAppend
<1>2. e.type # "motion"  BY DEF IsMouse
<1> HIDE DEF t
<1>3. (\A i \in DOMAIN t : ~IsMouse(t[i])) => r = p  BY <1>1 DEF Followed
<1>4. ASSUME NEW i \in DOMAIN t, t[i].type = "motion", \A j \in DOMAIN t : j < i => ~IsMouse(t[j])
      PROVE  Before(t[i]) = r
  <2>1. i \in DOMAIN q /\ t[i] = q[i]  BY <1>1, <1>2, <1>4
  <2> QED  BY <1>1, <1>4, <2>1 DEF Followed
<1>5. Followed(t, r, p)  BY <1>3, <1>4 DEF Followed
<1> QED  BY <1>5 DEF t

\* A motion that starts where the pointer was goes on from there; nothing is followed
\* past a tap.
LEMMA MouseFollowed ==
  ASSUME NEW q \in Seq(Events), NEW r, NEW p, NEW e \in Events, IsMouse(e), Followed(q, r, p),
         e.type = "motion" => Before(e) = p, NEW to
  PROVE  Followed(Append(q, e), r, to)
<1> DEFINE t == Append(q, e)
<1> DEFINE newest == Len(q) + 1
<1>1. /\ DOMAIN t = DOMAIN q \union {newest} /\ t[newest] = e
      /\ \A i \in DOMAIN q : t[i] = q[i] /\ i < newest
  BY AfterAppend
<1> HIDE DEF t, newest
<1>3. ~(\A i \in DOMAIN t : ~IsMouse(t[i]))  BY <1>1
<1>4. ASSUME NEW i \in DOMAIN t, t[i].type = "motion", \A j \in DOMAIN t : j < i => ~IsMouse(t[j])
      PROVE  Before(t[i]) = r
  <2>1. CASE i \in DOMAIN q
    <3>1. \A j \in DOMAIN q : j < i => ~IsMouse(q[j])  BY <1>1, <1>4
    <3> QED  BY <1>1, <1>4, <2>1, <3>1 DEF Followed
  <2>2. CASE i = newest
    <3>1. \A j \in DOMAIN q : ~IsMouse(q[j])  BY <1>1, <1>4, <2>2
    <3>2. r = p  BY <3>1 DEF Followed
    <3> QED  BY <1>1, <1>4, <2>2, <3>2
  <2> QED  BY <1>1, <2>1, <2>2
<1>5. Followed(t, r, to)  BY <1>3, <1>4 DEF Followed
<1> QED  BY <1>5 DEF t

\* Resizes at the front of the queue are read past.
LEMMA TakeFollowed ==
  ASSUME NEW q \in Seq(Events), NEW r, NEW p, NEW n \in DOMAIN q, Followed(q, r, p),
         \A i \in DOMAIN q : i <= n => ~IsMouse(q[i])
  PROVE  Followed(SubSeq(q, n + 1, Len(q)), r, p)
<1> DEFINE t == SubSeq(q, n + 1, Len(q))
<1>1. /\ \A i \in DOMAIN t : t[i] = q[i + n] /\ i + n \in DOMAIN q
      /\ \A i \in DOMAIN q : n < i => i - n \in DOMAIN t /\ t[i - n] = q[i]
  BY AfterTake
<1>2. n \in Nat /\ DOMAIN q \subseteq Nat /\ DOMAIN t \subseteq Int
  <2>1. DOMAIN t = 1..(Len(q) - n) /\ n \in Nat /\ DOMAIN q \subseteq Nat  BY AfterTake, Places
  <2> QED  BY <2>1
<1> HIDE DEF t
<1>3. ASSUME \A i \in DOMAIN t : ~IsMouse(t[i]) PROVE r = p
  <2>1. ASSUME NEW i \in DOMAIN q PROVE ~IsMouse(q[i])
    <3>1. CASE i <= n  BY <3>1
    <3>2. CASE n < i  BY <1>1, <1>3, <3>2
    <3> QED  BY <1>2, <3>1, <3>2
  <2> QED  BY <2>1 DEF Followed
<1>4. ASSUME NEW i \in DOMAIN t, t[i].type = "motion", \A j \in DOMAIN t : j < i => ~IsMouse(t[j])
      PROVE  Before(t[i]) = r
  <2>1. i + n \in DOMAIN q /\ q[i + n].type = "motion" /\ t[i] = q[i + n]  BY <1>1, <1>4
  <2>2. ASSUME NEW j \in DOMAIN q, j < i + n PROVE ~IsMouse(q[j])
    <3>1. CASE j <= n  BY <3>1
    <3>2. CASE n < j
      <4>1. j - n < i  BY <1>2, <2>2
      <4> QED  BY <1>1, <1>4, <3>2, <4>1
    <3> QED  BY <1>2, <3>1, <3>2
  <2> QED  BY <2>1, <2>2 DEF Followed
<1>5. Followed(t, r, p)  BY <1>3, <1>4 DEF Followed
<1> QED  BY <1>5 DEF t

\* After a mouse event, the rest of the queue goes on from where that was.
LEMMA RestFollowed ==
  ASSUME NEW q \in Seq(Events), NEW p, NEW n \in DOMAIN q, Linked(q, p), IsMouse(q[n])
  PROVE  Followed(SubSeq(q, n + 1, Len(q)), q[n].at, p)
<1> DEFINE t == SubSeq(q, n + 1, Len(q))
<1>1. /\ \A i \in DOMAIN t : t[i] = q[i + n] /\ i + n \in DOMAIN q /\ n < i + n
      /\ \A i \in DOMAIN q : n < i => i - n \in DOMAIN t /\ t[i - n] = q[i]
  BY AfterTake
<1>2. n \in Nat /\ DOMAIN q \subseteq Nat /\ DOMAIN t \subseteq Int
  <2>1. DOMAIN t = 1..(Len(q) - n) /\ n \in Nat /\ DOMAIN q \subseteq Nat  BY AfterTake, Places
  <2> QED  BY <2>1
<1> HIDE DEF t
<1>3. ASSUME \A i \in DOMAIN t : ~IsMouse(t[i]) PROVE q[n].at = p
  <2>1. \A j \in DOMAIN q : n < j => ~IsMouse(q[j])  BY <1>1, <1>3
  <2> QED  BY <2>1 DEF Linked
<1>4. ASSUME NEW i \in DOMAIN t, t[i].type = "motion", \A j \in DOMAIN t : j < i => ~IsMouse(t[j])
      PROVE  Before(t[i]) = q[n].at
  <2>1. i + n \in DOMAIN q /\ q[i + n].type = "motion" /\ t[i] = q[i + n] /\ n < i + n
    BY <1>1, <1>4
  <2>2. ASSUME NEW j \in DOMAIN q, n < j, j < i + n PROVE ~IsMouse(q[j])
    <3>1. j - n < i  BY <1>2, <2>2
    <3> QED  BY <1>1, <1>4, <2>2, <3>1
  <2> QED  BY <2>1, <2>2 DEF Linked
<1>5. Followed(t, q[n].at, p)  BY <1>3, <1>4 DEF Followed
<1> QED  BY <1>5 DEF t
-----------------------------------------------------------------------------
(* Positions and motions in the game's units.                              *)

\* The whole part of a quotient, also of a negative one.
LEMMA FloorIs ==
  ASSUME NEW n \in Int, NEW s \in Nat \ {0}
  PROVE  n \div s \in Int /\ s * (n \div s) <= n /\ n < s * (n \div s) + s
  OBVIOUS

\* A multiple of the divisor that is larger is one of a larger number.
LEMMA Multiples ==
  ASSUME NEW a \in Int, NEW b \in Int, NEW s \in Nat \ {0}, s * a < s * b
  PROVE  a < b
  OBVIOUS

\* Two whole parts add up to the whole part of the sum, or fall one short of it.
LEMMA FloorSum ==
  ASSUME NEW a \in Int, NEW b \in Int, NEW s \in Nat \ {0}
  PROVE  ((a + b) \div s) - (a \div s) - (b \div s) \in {0, 1}
<1> DEFINE x == a \div s
           y == b \div s
           z == (a + b) \div s
<1>1. x \in Int /\ s * x <= a /\ a < s * x + s  BY FloorIs
<1>2. y \in Int /\ s * y <= b /\ b < s * y + s  BY FloorIs
<1>3. a + b \in Int  OBVIOUS
<1>4. z \in Int /\ s * z <= a + b /\ a + b < s * z + s  BY <1>3, FloorIs
<1> HIDE DEF x, y, z
<1>5. /\ s * (x + y) = s * x + s * y /\ s * (x + y + 2) = s * x + s * y + s + s
      /\ s * (z + 1) = s * z + s
  BY <1>1, <1>2, <1>4
<1>6. s * (x + y) < s * (z + 1) /\ s * z < s * (x + y + 2)
  <2>1. s * x \in Int /\ s * y \in Int /\ s * z \in Int  BY <1>1, <1>2, <1>4
  <2> QED  BY <1>1, <1>2, <1>4, <1>5, <2>1
<1>7. x + y < z + 1 /\ z < x + y + 2
  <2>1. x + y \in Int /\ z + 1 \in Int /\ x + y + 2 \in Int  BY <1>1, <1>2, <1>4
  <2> QED  BY <1>4, <1>6, <2>1, Multiples
<1>8. z - x - y \in {0, 1}  BY <1>1, <1>2, <1>4, <1>7
<1> QED  BY <1>8 DEF x, y, z

\* A window coordinate v in the game's units, before it is cut at the edge.
Cell(v, extent, screen) == (v * extent) \div screen

\* The place on a grid is a number.
LEMMA CellType ==
  ASSUME NEW v \in Nat, NEW extent \in Nat \ {0}, NEW screen \in Nat \ {0}
  PROVE  Cell(v, extent, screen) \in Int
<1>1. v * extent \in Int  OBVIOUS
<1> QED  BY <1>1, FloorIs DEF Cell

\* A motion is told as the difference of the positions, to less than a pixel.
LEMMA ShareOfMotion ==
  ASSUME NEW v \in Nat, NEW d \in Int, NEW extent \in Nat \ {0}, NEW screen \in Nat \ {0}
  PROVE  /\ Share(d, extent, screen) \in Int
         /\ Cell(v + d, extent, screen) - Cell(v, extent, screen) - Share(d, extent, screen) \in {-1, 0, 1}
<1> DEFINE a == v * extent
           b == d * extent
<1>1. a \in Int /\ b \in Int /\ (v + d) * extent = a + b  OBVIOUS
<1>2. CASE d >= 0
  <2>1. Share(d, extent, screen) = b \div screen  BY <1>2 DEF Share
  <2>2. ((a + b) \div screen) - (a \div screen) - (b \div screen) \in {0, 1}  BY <1>1, FloorSum
  <2>3. b \div screen \in Int  BY <1>1, FloorIs
  <2> QED  BY <1>1, <2>1, <2>2, <2>3 DEF Cell
<1>3. CASE ~(d >= 0)
  <2> DEFINE n == -b
  <2>1. -d * extent = n  OBVIOUS
  <2>2. n \in Int /\ (a + b) + n = a /\ a + b \in Int  BY <1>1
  <2>3. Share(d, extent, screen) = -(n \div screen)  BY <1>3, <2>1 DEF Share
  <2> HIDE DEF n
  <2>4. (((a + b) + n) \div screen) - ((a + b) \div screen) - (n \div screen) \in {0, 1}
    BY <2>2, FloorSum
  <2> DEFINE x == a \div screen
             y == (a + b) \div screen
             z == n \div screen
  <2>5. x \in Int /\ y \in Int /\ z \in Int  BY <1>1, <2>2, FloorIs
  <2>6. x - y - z \in {0, 1}  BY <2>2, <2>4
  <2>7. Cell(v + d, extent, screen) = y /\ Cell(v, extent, screen) = x  BY <1>1 DEF Cell
  <2> HIDE DEF x, y, z
  <2>8. Share(d, extent, screen) = -z  BY <2>3 DEF z
  <2>9. y - x - (-z) \in {-1, 0, 1}  BY <2>5, <2>6
  <2> QED  BY <2>5, <2>7, <2>8, <2>9
<1> QED  BY <1>2, <1>3

\* On the screen nothing is cut.
LEMMA CellWithin ==
  ASSUME NEW v \in Nat, NEW extent \in Nat \ {0}, NEW screen \in Nat \ {0}, v < screen
  PROVE  /\ Cell(v, extent, screen) \in Nat
         /\ Within(Cell(v, extent, screen), extent) = Cell(v, extent, screen)
<1> DEFINE n == v * extent
           c == n \div screen
<1>1. n \in Nat  OBVIOUS
<1>2. c \in Int /\ screen * c <= n /\ n < screen * c + screen  BY <1>1, FloorIs
<1>3. n < screen * extent
  <2>1. extent * v < extent * screen  OBVIOUS
  <2> QED  BY <2>1
<1> HIDE DEF c, n
<1>4. c < extent
  <2>1. screen * c < screen * extent  BY <1>1, <1>2, <1>3
  <2> QED  BY <1>2, <2>1, Multiples
<1>5. c >= 0
  <2>1. screen * (c + 1) = screen * c + screen  BY <1>2
  <2>2. screen * 0 < screen * (c + 1)
    <3>1. screen * c \in Int /\ screen * 0 = 0  BY <1>2
    <3> QED  BY <1>1, <1>2, <2>1, <3>1
  <2>3. 0 < c + 1  BY <1>2, <2>2, Multiples
  <2> QED  BY <1>2, <2>3
<1>6. ~(c < 0) /\ ~(c > extent - 1)  BY <1>2, <1>4, <1>5
<1>7. Within(c, extent) = c  BY <1>6 DEF Within
<1> QED  BY <1>2, <1>5, <1>7 DEF Cell, c, n
-----------------------------------------------------------------------------
(* The invariant.                                                          *)

QueueLinked == Linked(queue, pointer)

\* A drag d that has been told as far as window position r is there in the game's
\* units, on a screen of extent s and in mode m, to less than a pixel per motion.
Tracks(d, r, m, s) ==
  /\ Cell(r.x, m.w, s.w) - d.from.x - d.sum.x \in -d.n..d.n
  /\ Cell(r.y, m.h, s.h) - d.from.y - d.sum.y \in -d.n..d.n

\* A drag was told as far as some position, and the queue leads on from there.
DragFollowed ==
  drag.on =>
    Scaling /\ \E r \in Positions : Followed(queue, r, pointer) /\ Tracks(drag, r, mode, DisplayRect)

IInv ==
  /\ TypeOK /\ ModesKept /\ QueueLinked /\ DragFollowed
  /\ OverridesFit => SurfaceNotNull

\* The queue and the pointer of the next state.
LEMMA LinkedNext ==
  ASSUME NEW q, NEW p, queue' = q, pointer' = p, Linked(q, p) PROVE QueueLinked'
  BY DEF QueueLinked, Linked

\* Without a drag there is nothing to follow.
LEMMA NoDragFollowed ==
  ASSUME drag' = NoDrag PROVE DragFollowed' /\ drag' \in [on : BOOLEAN, from : Motions, sum : Motions, n : Nat]
  BY DEF NoDrag, DragFollowed, Motions

\* Events that are put into the queue.
LEMMA ResizeEvent == ASSUME NEW s \in Sizes PROVE Resize(s) \in Events /\ ~IsMouse(Resize(s))
  BY DEF Resize, Event, Events, IsMouse, Origin, Positions, Motions

\* An event of the pointer has its position and type.
LEMMA MouseEvent ==
  ASSUME NEW p \in Positions, NEW rel \in Motions, NEW type \in {"tap", "motion"}
  PROVE  /\ Event(type, p, rel, NoSize) \in Events /\ IsMouse(Event(type, p, rel, NoSize))
         /\ Event(type, p, rel, NoSize).at = p /\ Event(type, p, rel, NoSize).type = type
  BY DEF Event, Events, IsMouse, Sizes

\* A game that has set no mode.
LEMMA InitIInv == Init => IInv
<1> SUFFICES ASSUME Init PROVE IInv  OBVIOUS
<1>1. queue = <<>> /\ DOMAIN queue = {}
  <2>1. queue = <<>>  BY Zenon DEF Init
  <2> QED  BY <2>1
<1>2. TypeOK
  <2>1. /\ env \in Environments /\ shell \in {Desktop, Turned(Desktop)}
        /\ window = NoSize /\ mode = NoSize /\ react = NoSize /\ pointer = Origin /\ drag = NoDrag
    BY Zenon DEF Init
  <2>2. drag \in [on : BOOLEAN, from : Motions, sum : Motions, n : Nat]
    BY <2>1 DEF NoDrag, Motions
  <2>3. queue \in Seq(Events)  BY <1>1
  <2>4. gl = FALSE  BY Zenon DEF Init
  <2> QED  BY <2>1, <2>2, <2>3, <2>4 DEF TypeOK, Sizes, Positions, Origin
<1>3. window = NoSize /\ mode = NoSize /\ gl = FALSE /\ cache = NoCall /\ request = NoRequest
  BY Zenon DEF Init
<1>4. ModesKept
  <2>1. WindowFits /\ WindowIsScreen  BY <1>3 DEF WindowFits, WindowIsScreen
  <2>2. CacheIsCurrent /\ ModesAgree /\ ModeIsKept
    BY <1>3 DEF CacheIsCurrent, ModesAgree, ModeIsKept, NoCall, NoRequest
  <2> QED  BY <2>1, <2>2 DEF ModesKept
<1>5. QueueLinked  BY <1>1 DEF QueueLinked, Linked
<1>6. DragFollowed
  <2>1. drag = NoDrag  BY Zenon DEF Init
  <2> QED  BY <2>1 DEF DragFollowed, NoDrag
<1>7. SurfaceNotNull  BY <1>3 DEF SurfaceNotNull
<1> QED  BY <1>2, <1>4, <1>5, <1>6, <1>7 DEF IInv

\* A mode that is set ends every drag; the window may report a resize.
LEMMA SetsStep ==
  ASSUME IInv, NEW req \in Asks, NEW g \in BOOLEAN, NEW full \in BOOLEAN,
         SetVideoMode(req, g, full), react' \in Sizes
  PROVE  IInv'
<1>1. TypeOK /\ ModesKept /\ QueueLinked  BY DEF IInv
<1>2. /\ ModesKept' /\ window' \in Sizes /\ mode' \in Sizes /\ gl' \in BOOLEAN
      /\ queue' = queue \/ \E s \in Sizes : queue' = Append(queue, Resize(s))
      /\ UNCHANGED <<env, shell, pointer, got>> /\ drag' = NoDrag
      /\ OverridesFit => SurfaceNotNull'
  BY <1>1, SetStep
<1>3. queue \in Seq(Events) /\ Linked(queue, pointer)  BY <1>1 DEF TypeOK, QueueLinked
<1>4. queue' \in Seq(Events) /\ QueueLinked'
  <2>1. CASE queue' = queue  BY <1>2, <1>3, <2>1, LinkedNext
  <2>2. CASE \E s \in Sizes : queue' = Append(queue, Resize(s))
    <3>1. PICK s \in Sizes : queue' = Append(queue, Resize(s))  BY <2>2
    <3>2. Resize(s) \in Events /\ ~IsMouse(Resize(s))  BY ResizeEvent
    <3>3. Linked(Append(queue, Resize(s)), pointer)  BY <1>3, <3>2, ResizeLinked
    <3>4. queue' \in Seq(Events)  BY <1>3, <3>1, <3>2, AfterAppend
    <3>5. QueueLinked'  BY <1>2, <3>1, <3>3, LinkedNext
    <3> QED  BY <3>4, <3>5
  <2> QED  BY <1>2, <2>1, <2>2
<1>5. DragFollowed' /\ drag' \in [on : BOOLEAN, from : Motions, sum : Motions, n : Nat]
  BY <1>2, NoDragFollowed
<1>6. TypeOK'
  <2>1. pointer' \in Positions /\ env' \in Environments /\ shell' \in {Desktop, Turned(Desktop)}
    BY <1>1, <1>2 DEF TypeOK
  <2> QED  BY <1>2, <1>4, <1>5, <2>1 DEF TypeOK
<1>7. OverridesFit' = OverridesFit  BY DEF OverridesFit
<1> QED  BY <1>2, <1>4, <1>5, <1>6, <1>7 DEF IInv

\* The shell turns its screen and every window with it.
LEMMA RotateStep == ASSUME IInv, Rotate PROVE IInv'
<1>1. /\ shell' = Turned(shell) /\ window' = (IF window = NoSize THEN NoSize ELSE Turned(shell))
      /\ (queue' = queue \/ queue' = Append(queue, Resize(Turned(shell))))
      /\ request' = NoRequest /\ drag' = NoDrag
      /\ UNCHANGED <<env, mode, glmode, gl, surface, cache, react, pointer>>
  BY DEF Rotate
<1>2. TypeOK /\ ModesKept /\ QueueLinked /\ (OverridesFit => SurfaceNotNull)  BY DEF IInv
<1>3. shell' \in {Desktop, Turned(Desktop)} /\ shell' \in Extents /\ window' \in Sizes
  BY <1>1, <1>2 DEF TypeOK, Turned, Extents, Sizes
<1>4. queue \in Seq(Events) /\ Linked(queue, pointer)  BY <1>2 DEF TypeOK, QueueLinked
<1>5. queue' \in Seq(Events) /\ QueueLinked'
  <2>1. CASE queue' = queue  BY <1>1, <1>4, <2>1, LinkedNext
  <2>2. CASE queue' = Append(queue, Resize(Turned(shell)))
    <3>1. Turned(shell) \in Sizes  BY <1>1, <1>3 DEF Sizes
    <3>2. Resize(Turned(shell)) \in Events /\ ~IsMouse(Resize(Turned(shell)))  BY <3>1, ResizeEvent
    <3>3. Linked(Append(queue, Resize(Turned(shell))), pointer)  BY <1>4, <3>2, ResizeLinked
    <3>4. queue' \in Seq(Events)  BY <1>4, <2>2, <3>2, AfterAppend
    <3>5. QueueLinked'  BY <1>1, <2>2, <3>3, LinkedNext
    <3> QED  BY <3>4, <3>5
  <2> QED  BY <1>1, <2>1, <2>2
<1>6. DragFollowed' /\ drag' \in [on : BOOLEAN, from : Motions, sum : Motions, n : Nat]
  BY <1>1, NoDragFollowed
<1>7. TypeOK'
  <2>1. /\ env' \in Environments /\ mode' \in Sizes /\ react' \in Sizes /\ pointer' \in Positions
        /\ gl' \in BOOLEAN
    BY <1>1, <1>2 DEF TypeOK
  <2> QED  BY <1>3, <1>5, <1>6, <2>1 DEF TypeOK
<1>8. ModesKept'
  <2>1. WindowFits'
    <3>1. window' # NoSize => window' = shell'  BY <1>1
    <3>2. shell'.w <= shell'.w /\ shell'.h <= shell'.h  BY <1>3 DEF Extents
    <3>3. window' # NoSize => \E s \in {Desktop, shell'} : window'.w <= s.w /\ window'.h <= s.h
      BY <3>1, <3>2
    <3> QED  BY <3>3 DEF WindowFits, Works
  <2>2. WindowIsScreen'  BY <1>1 DEF WindowIsScreen
  <2>3. CacheIsCurrent' /\ ModesAgree'  BY <1>1, <1>2 DEF ModesKept, CacheIsCurrent, ModesAgree
  <2>4. ModeIsKept'  BY <1>1 DEF ModeIsKept, NoRequest
  <2> QED  BY <2>1, <2>2, <2>3, <2>4 DEF ModesKept
<1>9. OverridesFit' = OverridesFit /\ (SurfaceNotNull => SurfaceNotNull')
  BY <1>1 DEF OverridesFit, SurfaceNotNull
<1> QED  BY <1>2, <1>5, <1>6, <1>7, <1>8, <1>9 DEF IInv

\* Steps that leave modes and windows alone keep what is said of them.
LEMMA SameModes ==
  ASSUME IInv, UNCHANGED <<env, shell, window, mode, glmode, gl, surface, cache, request>>
  PROVE  ModesKept' /\ (OverridesFit' => SurfaceNotNull')
<1>1. Fallback' = Fallback  BY DEF Fallback
<1>2. WindowFits' /\ WindowIsScreen'  BY <1>1 DEF IInv, ModesKept, WindowFits, WindowIsScreen, Works
<1>3. CacheIsCurrent' /\ ModesAgree'  BY DEF IInv, ModesKept, CacheIsCurrent, ModesAgree
<1>4. ModeIsKept'
  <2>1. FitsBoth(request.size)' <=> FitsBoth(request.size)  BY <1>1 DEF FitsBoth
  <2>2. Kept(request.size)' = Kept(request.size)  BY <1>1 DEF Kept
  <2> QED  BY <1>1, <2>1, <2>2 DEF IInv, ModesKept, ModeIsKept
<1> QED  BY <1>2, <1>3, <1>4 DEF IInv, ModesKept, OverridesFit, SurfaceNotNull
-----------------------------------------------------------------------------
(* Touches and their events.                                               *)

\* The screen the shim believes in, and whether it scales, stay as they are.
LEMMA SameScale ==
  ASSUME UNCHANGED <<env, window, mode>>, found' <=> found
  PROVE  DisplayRect' = DisplayRect /\ (Scaling' <=> Scaling)
<1>1. Fallback' = Fallback  BY DEF Fallback
<1>2. DisplayRect' = DisplayRect  BY <1>1 DEF DisplayRect
<1> QED  BY <1>2 DEF Scaling

\* A finger that comes down or moves.
LEMMA PointStep ==
  ASSUME IInv, NEW p \in Points, NEW type \in {"tap", "motion"}, PointTo(p, type)
  PROVE  IInv'
<1> DEFINE rel == [x |-> p.x - pointer.x, y |-> p.y - pointer.y]
           ev == Event(type, p, IF type = "motion" THEN rel ELSE Origin, NoSize)
<1>1. /\ pointer' = p /\ queue' = Append(queue, ev) /\ found' = TRUE
      /\ drag' = (IF found THEN drag ELSE NoDrag)
      /\ UNCHANGED <<env, shell, window, mode, glmode, gl, surface, cache, request, react>>
  BY DEF PointTo
<1>2. TypeOK /\ Linked(queue, pointer) /\ queue \in Seq(Events) /\ pointer \in Positions
  BY DEF IInv, QueueLinked, TypeOK
<1>3. p \in Positions  BY DEF Positions
<1>4. rel \in Motions /\ Origin \in Motions  BY <1>2, <1>3 DEF Motions, Positions, Origin
<1> HIDE DEF rel
<1>5. ev \in Events /\ IsMouse(ev) /\ ev.at = p /\ ev.type = type
  BY <1>3, <1>4, MouseEvent
<1>6. ASSUME ev.type = "motion" PROVE Before(ev) = pointer
  <2>1. ev.rel = rel /\ ev.at = p  BY <1>5, <1>6 DEF Event
  <2> HIDE DEF ev
  <2>2. p.x - (p.x - pointer.x) = pointer.x /\ p.y - (p.y - pointer.y) = pointer.y
    BY <1>2, <1>3 DEF Positions
  <2> QED  BY <1>2, <2>1, <2>2 DEF Before, Positions, rel
<1> HIDE DEF ev
<1>7. queue' \in Seq(Events)  BY <1>1, <1>2, <1>5, AfterAppend
<1>8. QueueLinked'
  <2>1. Linked(Append(queue, ev), p)  BY <1>2, <1>5, <1>6, MouseLinked
  <2> QED  BY <1>1, <2>1, LinkedNext
<1>9. DragFollowed' /\ drag' \in [on : BOOLEAN, from : Motions, sum : Motions, n : Nat]
  <2>1. CASE ~found  BY <1>1, <2>1, NoDragFollowed
  <2>2. CASE found
    <3>1. drag' = drag /\ DisplayRect' = DisplayRect /\ (Scaling' <=> Scaling) /\ mode' = mode
      BY <1>1, <2>2, SameScale
    <3>2. ASSUME drag'.on
          PROVE  Scaling' /\ \E r \in Positions : Followed(queue', r, pointer') /\ Tracks(drag', r, mode', DisplayRect')
      <4>1. Scaling /\ \E r \in Positions : Followed(queue, r, pointer) /\ Tracks(drag, r, mode, DisplayRect)
        BY <3>1, <3>2 DEF IInv, DragFollowed
      <4>2. PICK r \in Positions : Followed(queue, r, pointer) /\ Tracks(drag, r, mode, DisplayRect)
        BY <4>1
      <4>3. Followed(Append(queue, ev), r, p)  BY <1>2, <1>5, <1>6, <4>2, MouseFollowed
      <4> QED  BY <1>1, <3>1, <4>1, <4>2, <4>3
    <3>3. DragFollowed'  BY <3>2 DEF DragFollowed
    <3> QED  BY <1>2, <3>1, <3>3 DEF TypeOK
  <2> QED  BY <2>1, <2>2
<1>10. TypeOK'  BY <1>1, <1>2, <1>3, <1>7, <1>9 DEF TypeOK
<1>11. ModesKept' /\ (OverridesFit' => SurfaceNotNull')  BY <1>1, SameModes
<1> QED  BY <1>8, <1>9, <1>10, <1>11 DEF IInv

\* A set of numbers that is not empty has a least one.
LEMMA LeastOf ==
  ASSUME NEW T, T \subseteq Nat, T # {} PROVE \E x \in T : \A y \in T : x <= y
<1> DEFINE R == OpToRel(<, Nat)
<1>1. IsWellFoundedOn(R, Nat)  BY NatLessThanWellFounded
<1>2. ASSUME NEW x \in Nat, NEW y \in Nat, ~(<<y, x>> \in R) PROVE x <= y
  <2>1. <<y, x>> \in Nat \X Nat  OBVIOUS
  <2>2. R = {ss \in Nat \X Nat : ss[1] < ss[2]}  BY Zenon DEF OpToRel
  <2> HIDE DEF R
  <2>3. ~(y < x)  BY <1>2, <2>1, <2>2
  <2> QED  BY <2>3
<1> HIDE DEF R
<1>3. PICK x \in T : \A y \in T : ~(<<y, x>> \in R)  BY <1>1, WFMin
<1> QED  BY <1>2, <1>3

\* The event that a poll delivers: the first that is not dropped; those before it are
\* resizes.
LEMMA Delivered ==
  ASSUME TypeOK, PollEvent, Deliverable # {}
  PROVE  \E n \in DOMAIN queue :
           /\ queue' = SubSeq(queue, n + 1, Len(queue)) /\ Deliver(queue[n])
           /\ \A i \in DOMAIN queue : i < n => ~IsMouse(queue[i])
<1> DEFINE first == CHOOSE i \in Deliverable : \A j \in Deliverable : i <= j
<1>1. Deliverable \subseteq Nat /\ Deliverable \subseteq DOMAIN queue
  BY Places DEF Deliverable, TypeOK
<1>2. \E i \in Deliverable : \A j \in Deliverable : i <= j  BY <1>1, LeastOf
<1>3. first \in Deliverable /\ \A j \in Deliverable : first <= j  BY <1>2
<1>4. queue' = SubSeq(queue, first + 1, Len(queue)) /\ Deliver(queue[first])
  BY DEF PollEvent
<1> HIDE DEF first
<1>5. ASSUME NEW i \in DOMAIN queue, i < first PROVE ~IsMouse(queue[i])
  <2>1. i \in Nat /\ first \in Nat  BY <1>1, <1>3, Places DEF TypeOK
  <2>2. i \notin Deliverable  BY <1>3, <1>5, <2>1
  <2>3. Dropped(queue[i])  BY <2>2 DEF Deliverable
  <2> QED  BY <2>3 DEF Dropped, IsMouse
<1> QED  BY <1>1, <1>3, <1>4, <1>5

\* A motion that is told brings the drag on by what it is in the game's units.
LEMMA NearAfter ==
  ASSUME TypeOK, Scaling, NEW e \in Events, NEW r \in Positions, Before(e) = r,
         NEW d \in [on : BOOLEAN, from : Motions, sum : Motions, n : Nat],
         Tracks(d, r, mode, DisplayRect),
         NEW f, f = [d EXCEPT !.n = @ + 1, !.sum = [x |-> @.x + Moved(e).x, y |-> @.y + Moved(e).y]]
  PROVE  /\ Tracks(f, e.at, mode, DisplayRect)
         /\ f \in [on : BOOLEAN, from : Motions, sum : Motions, n : Nat]
<1> DEFINE s == DisplayRect
<1>1. s \in Extents  BY RectType
<1>2. mode \in Extents  BY DEF TypeOK, Sizes, Scaling
<1>3. Moved(e) = [x |-> Share(e.rel.x, mode.w, s.w), y |-> Share(e.rel.y, mode.h, s.h)]
  BY DEF Moved
<1> HIDE DEF s
<1>4. /\ {mode.w, mode.h, s.w, s.h} \subseteq Nat \ {0}
      /\ r.x \in Nat /\ r.y \in Nat /\ e.rel.x \in Int /\ e.rel.y \in Int
      /\ e.at.x \in Nat /\ e.at.y \in Nat
  BY <1>1, <1>2 DEF Extents, Positions, Motions, Events
<1>5. e.at.x = r.x + e.rel.x /\ e.at.y = r.y + e.rel.y
  <2>1. r.x = e.at.x - e.rel.x /\ r.y = e.at.y - e.rel.y  BY DEF Before
  <2> QED  BY <1>4, <2>1
<1> DEFINE mx == Share(e.rel.x, mode.w, s.w)
           my == Share(e.rel.y, mode.h, s.h)
           x0 == Cell(r.x, mode.w, s.w)
           y0 == Cell(r.y, mode.h, s.h)
           x1 == Cell(e.at.x, mode.w, s.w)
           y1 == Cell(e.at.y, mode.h, s.h)
<1>6. mx \in Int /\ my \in Int /\ x1 - x0 - mx \in {-1, 0, 1} /\ y1 - y0 - my \in {-1, 0, 1}
  BY <1>4, <1>5, ShareOfMotion
<1>7. {x0, x1, y0, y1} \subseteq Int
  <2>1. x0 \in Int /\ x1 \in Int  BY <1>4, CellType
  <2>2. y0 \in Int /\ y1 \in Int  BY <1>4, CellType
  <2> QED  BY <2>1, <2>2
<1>8. /\ f.on = d.on /\ f.from = d.from /\ f.n = d.n + 1
      /\ f.sum = [x |-> d.sum.x + mx, y |-> d.sum.y + my]
      /\ f = [on |-> f.on, from |-> f.from, sum |-> f.sum, n |-> f.n]
  <2>1. Moved(e).x = mx /\ Moved(e).y = my  BY <1>3
  <2> HIDE DEF mx, my
  <2>2. f = [d EXCEPT !.n = @ + 1, !.sum = [x |-> @.x + mx, y |-> @.y + my]]  BY <2>1
  <2> QED  BY <2>2
<1>9. {d.from.x, d.from.y, d.sum.x, d.sum.y} \subseteq Int /\ d.n \in Nat  BY DEF Motions
<1>10. x0 - d.from.x - d.sum.x \in -d.n..d.n /\ y0 - d.from.y - d.sum.y \in -d.n..d.n
  BY DEF Tracks, s
<1> HIDE DEF mx, my, x0, y0, x1, y1
<1>11. x1 - d.from.x - (d.sum.x + mx) \in -(d.n + 1)..(d.n + 1)
  BY <1>6, <1>7, <1>9, <1>10
<1>12. y1 - d.from.y - (d.sum.y + my) \in -(d.n + 1)..(d.n + 1)
  BY <1>6, <1>7, <1>9, <1>10
<1>13. Tracks(f, e.at, mode, DisplayRect)
  <2>1. x1 - f.from.x - f.sum.x \in -f.n..f.n /\ y1 - f.from.y - f.sum.y \in -f.n..f.n
    BY <1>8, <1>11, <1>12
  <2> QED  BY <2>1 DEF Tracks, s, x1, y1
<1>14. f \in [on : BOOLEAN, from : Motions, sum : Motions, n : Nat]
  <2>1. f.sum \in Motions  BY <1>6, <1>8, <1>9 DEF Motions
  <2>2. f.on \in BOOLEAN /\ f.from \in Motions /\ f.n \in Nat  BY <1>8, <1>9
  <2> QED  BY <1>8, <2>1, <2>2
<1> QED  BY <1>13, <1>14

\* A drag that begins is told where the pointer is.
LEMMA NearStart ==
  ASSUME TypeOK, Scaling, OnScreen, NEW e, NEW f,
         f = [on |-> TRUE, from |-> Told(e), sum |-> [x |-> 0, y |-> 0], n |-> 0]
  PROVE  /\ Tracks(f, pointer, mode, DisplayRect)
         /\ f \in [on : BOOLEAN, from : Motions, sum : Motions, n : Nat]
<1> DEFINE s == DisplayRect
<1>1. s \in Extents  BY RectType
<1>2. mode \in Extents /\ pointer \in Positions  BY DEF TypeOK, Sizes, Scaling
<1>3. pointer.x < s.w /\ pointer.y < s.h  BY DEF OnScreen
<1>4. Told(e) = [x |-> Within((pointer.x * mode.w) \div s.w, mode.w),
                 y |-> Within((pointer.y * mode.h) \div s.h, mode.h)]
  BY DEF Told, Scaled
<1> HIDE DEF s
<1>5. /\ {mode.w, mode.h, s.w, s.h} \subseteq Nat \ {0}
      /\ pointer.x \in Nat /\ pointer.y \in Nat
  BY <1>1, <1>2 DEF Extents, Positions
<1> DEFINE cx == Cell(pointer.x, mode.w, s.w)
           cy == Cell(pointer.y, mode.h, s.h)
<1>6. cx \in Nat /\ Within(cx, mode.w) = cx  BY <1>3, <1>5, CellWithin
<1>7. cy \in Nat /\ Within(cy, mode.h) = cy  BY <1>3, <1>5, CellWithin
<1>8. Told(e) = [x |-> cx, y |-> cy]  BY <1>4, <1>6, <1>7 DEF Cell
<1> HIDE DEF cx, cy
<1>10. /\ f.from.x = cx /\ f.from.y = cy
       /\ f.sum.x = 0 /\ f.sum.y = 0 /\ f.n = 0
  BY <1>8
<1>11. cx - f.from.x - f.sum.x \in -f.n..f.n /\ cy - f.from.y - f.sum.y \in -f.n..f.n
  <2>1. \A c \in Nat : c - c - 0 \in (-0)..0  OBVIOUS
  <2>2. cx \in Nat /\ cy \in Nat  BY <1>6, <1>7
  <2> QED  BY <1>10, <2>1, <2>2
<1>12. Tracks(f, pointer, mode, DisplayRect)  BY <1>11 DEF Tracks, s, cx, cy
<1>13. [x |-> cx, y |-> cy] \in Motions /\ [x |-> 0, y |-> 0] \in Motions  BY <1>6, <1>7 DEF Motions
<1>14. f \in [on : BOOLEAN, from : Motions, sum : Motions, n : Nat]  BY <1>8, <1>13
<1> QED  BY <1>12, <1>14

\* Reading an event keeps the drag and the queue together.
LEMMA DeliverStep ==
  ASSUME IInv, PollEvent, NEW n \in DOMAIN queue,
         queue' = SubSeq(queue, n + 1, Len(queue)), Deliver(queue[n]),
         \A i \in DOMAIN queue : i < n => ~IsMouse(queue[i])
  PROVE  DragFollowed' /\ drag' \in [on : BOOLEAN, from : Motions, sum : Motions, n : Nat]
<1> DEFINE ev == queue[n]
           start == Scaling /\ OnScreen /\ ~Moving(queue')
           rest == SubSeq(queue, n + 1, Len(queue))
<1>1. TypeOK /\ queue \in Seq(Events) /\ Linked(queue, pointer) /\ ev \in Events
  BY Places DEF IInv, TypeOK, QueueLinked
<1>2. UNCHANGED <<env, window, found, mode, pointer>>  BY DEF PollEvent, videoVars
<1>3. DisplayRect' = DisplayRect /\ (Scaling' <=> Scaling)  BY <1>2, SameScale
<1>4. /\ ev.type = "tap" /\ start => drag' = [NoDrag EXCEPT !.on = TRUE, !.from = Told(ev)]
      /\ ev.type = "tap" /\ ~start => drag' = NoDrag
      /\ ev.type = "motion" /\ drag.on =>
           drag' = [drag EXCEPT !.n = @ + 1, !.sum = [x |-> @.x + Moved(ev).x, y |-> @.y + Moved(ev).y]]
      /\ ev.type # "tap" /\ ~(ev.type = "motion" /\ drag.on) => drag' = drag
  <2>1. drag' = CASE ev.type = "tap" /\ start -> [NoDrag EXCEPT !.on = TRUE, !.from = Told(ev)]
                  [] ev.type = "tap" /\ ~start -> NoDrag
                  [] ev.type = "motion" /\ drag.on ->
                       [drag EXCEPT !.n = @ + 1, !.sum = [x |-> @.x + Moved(ev).x, y |-> @.y + Moved(ev).y]]
                  [] OTHER -> drag
    BY Zenon DEF Deliver
  <2> HIDE DEF ev, start
  <2>2. CASE ev.type = "tap" /\ start
    <3>1. drag' = [NoDrag EXCEPT !.on = TRUE, !.from = Told(ev)]  BY <2>1, <2>2
    <3> QED  BY <2>2, <3>1
  <2>3. CASE ev.type = "tap" /\ ~start
    <3>1. drag' = NoDrag  BY <2>1, <2>3
    <3> QED  BY <2>3, <3>1
  <2>4. CASE ev.type = "motion" /\ drag.on
    <3>1. drag' = [drag EXCEPT !.n = @ + 1, !.sum = [x |-> @.x + Moved(ev).x, y |-> @.y + Moved(ev).y]]
      BY <2>1, <2>4
    <3> QED  BY <2>4, <3>1
  <2>5. CASE ev.type # "tap" /\ ~(ev.type = "motion" /\ drag.on)
    <3>1. drag' = drag  BY <2>1, <2>5
    <3> QED  BY <2>5, <3>1
  <2> QED  BY <2>2, <2>3, <2>4, <2>5
<1>5. CASE ev.type = "tap" /\ start
  <2>1. Tracks(drag', pointer, mode, DisplayRect) /\ drag' \in [on : BOOLEAN, from : Motions, sum : Motions, n : Nat]
    <3>1. drag' = [on |-> TRUE, from |-> Told(ev), sum |-> [x |-> 0, y |-> 0], n |-> 0]
      BY <1>4, <1>5 DEF NoDrag
    <3> QED  BY <1>1, <1>5, <3>1, NearStart
  <2>2. \A i \in DOMAIN queue' : queue'[i].type # "motion"  BY <1>5 DEF Moving
  <2>3. Followed(queue', pointer, pointer)  BY <2>2 DEF Followed
  <2>4. pointer \in Positions  BY <1>1 DEF TypeOK
  <2>5. Scaling' /\ \E r \in Positions : Followed(queue', r, pointer') /\ Tracks(drag', r, mode', DisplayRect')
    BY <1>2, <1>3, <1>5, <2>1, <2>3, <2>4
  <2> QED  BY <2>1, <2>5 DEF DragFollowed
<1>6. CASE ev.type = "tap" /\ ~start
  BY <1>4, <1>6, NoDragFollowed
<1>7. CASE ev.type = "motion" /\ drag.on
  <2>1. Scaling /\ \E r \in Positions : Followed(queue, r, pointer) /\ Tracks(drag, r, mode, DisplayRect)
    BY <1>7 DEF IInv, DragFollowed
  <2>2. PICK r \in Positions : Followed(queue, r, pointer) /\ Tracks(drag, r, mode, DisplayRect)  BY <2>1
  <2>3. Before(ev) = r  BY <1>7, <2>2 DEF Followed
  <2>4. drag \in [on : BOOLEAN, from : Motions, sum : Motions, n : Nat]  BY <1>1 DEF TypeOK
  <2>5. drag' = [drag EXCEPT !.n = @ + 1, !.sum = [x |-> @.x + Moved(ev).x, y |-> @.y + Moved(ev).y]]
    BY <1>4, <1>7
  <2>6. /\ Tracks(drag', ev.at, mode, DisplayRect)
        /\ drag' \in [on : BOOLEAN, from : Motions, sum : Motions, n : Nat]
    <3> HIDE DEF ev
    <3> QED  BY <1>1, <2>1, <2>2, <2>3, <2>4, <2>5, NearAfter
  <2>7. IsMouse(ev) /\ ev.at \in Positions  BY <1>1, <1>7 DEF IsMouse, Events
  <2>8. Followed(rest, ev.at, pointer)  BY <1>1, <2>7, RestFollowed
  <2>9. Scaling' /\ \E q \in Positions : Followed(queue', q, pointer') /\ Tracks(drag', q, mode', DisplayRect')
    BY <1>2, <1>3, <2>1, <2>6, <2>7, <2>8
  <2> QED  BY <2>6, <2>9 DEF DragFollowed
<1>8. CASE ev.type # "tap" /\ ~(ev.type = "motion" /\ drag.on)
  <2>1. drag' = drag  BY <1>4, <1>8
  <2>2. ASSUME drag'.on
        PROVE  Scaling' /\ \E r \in Positions : Followed(queue', r, pointer') /\ Tracks(drag', r, mode', DisplayRect')
    <3>1. Scaling /\ \E r \in Positions : Followed(queue, r, pointer) /\ Tracks(drag, r, mode, DisplayRect)
      BY <2>1, <2>2 DEF IInv, DragFollowed
    <3>2. PICK r \in Positions : Followed(queue, r, pointer) /\ Tracks(drag, r, mode, DisplayRect)  BY <3>1
    <3>3. ~IsMouse(ev)  BY <1>1, <1>8, <2>1, <2>2 DEF IsMouse, Events
    <3>4. \A i \in DOMAIN queue : i <= n => ~IsMouse(queue[i])
      <4>1. DOMAIN queue \subseteq Nat  BY <1>1, Places
      <4> QED  BY <3>3, <4>1
    <3>5. Followed(rest, r, pointer)  BY <1>1, <3>2, <3>4, TakeFollowed
    <3> QED  BY <1>2, <1>3, <2>1, <3>1, <3>2, <3>5
  <2>3. DragFollowed'  BY <2>2 DEF DragFollowed
  <2> QED  BY <1>1, <2>1, <2>3 DEF TypeOK
<1> QED  BY <1>5, <1>6, <1>7, <1>8

\* The game reads an event, or finds that all there were are dropped.
LEMMA PollStep == ASSUME IInv, PollEvent PROVE IInv'
<1>1. UNCHANGED <<env, shell, window, found, mode, glmode, gl, surface, cache, request, pointer>>
  BY DEF PollEvent, videoVars
<1>2. TypeOK /\ queue \in Seq(Events) /\ Linked(queue, pointer)  BY DEF IInv, TypeOK, QueueLinked
<1>3. ModesKept' /\ (OverridesFit' => SurfaceNotNull')  BY <1>1, SameModes
<1>4. CASE Deliverable = {}
  <2>1. queue' = <<>> /\ UNCHANGED <<react, got, drag>>  BY <1>4 DEF PollEvent
  <2>2. \A i \in DOMAIN queue : ~IsMouse(queue[i])  BY <1>4 DEF Deliverable, Dropped, IsMouse
  <2>3. queue' \in Seq(Events) /\ DOMAIN queue' = {}  BY <2>1
  <2>4. QueueLinked'  BY <2>3 DEF QueueLinked, Linked
  <2>5. DisplayRect' = DisplayRect /\ (Scaling' <=> Scaling)  BY <1>1, SameScale
  <2>6. ASSUME drag'.on
        PROVE  Scaling' /\ \E r \in Positions : Followed(queue', r, pointer') /\ Tracks(drag', r, mode', DisplayRect')
    <3>1. Scaling /\ \E r \in Positions : Followed(queue, r, pointer) /\ Tracks(drag, r, mode, DisplayRect)
      BY <2>1, <2>6 DEF IInv, DragFollowed
    <3>2. PICK r \in Positions : Followed(queue, r, pointer) /\ Tracks(drag, r, mode, DisplayRect)  BY <3>1
    <3>3. r = pointer  BY <2>2, <3>2 DEF Followed
    <3>4. Followed(queue', r, pointer')  BY <1>1, <2>3, <3>3 DEF Followed
    <3> QED  BY <1>1, <2>1, <2>5, <3>1, <3>2, <3>4
  <2>7. DragFollowed'  BY <2>6 DEF DragFollowed
  <2>8. TypeOK'  BY <1>1, <1>2, <2>1, <2>3 DEF TypeOK
  <2> QED  BY <1>3, <2>4, <2>7, <2>8 DEF IInv
<1>5. CASE Deliverable # {}
  <2>1. PICK n \in DOMAIN queue :
          /\ queue' = SubSeq(queue, n + 1, Len(queue)) /\ Deliver(queue[n])
          /\ \A i \in DOMAIN queue : i < n => ~IsMouse(queue[i])
    BY <1>2, <1>5, Delivered
  <2>2. DragFollowed' /\ drag' \in [on : BOOLEAN, from : Motions, sum : Motions, n : Nat]
    BY <2>1, DeliverStep
  <2>3. queue' \in Seq(Events)  BY <1>2, <2>1, AfterTake
  <2>4. QueueLinked'
    <3>1. Linked(SubSeq(queue, n + 1, Len(queue)), pointer)  BY <1>2, TakeLinked
    <3> QED  BY <1>1, <2>1, <3>1, LinkedNext
  <2>5. react' \in Sizes
    <3>1. queue[n].size \in Sizes  BY <1>2, Places DEF Events
    <3>2. react' \in {NoSize, queue[n].size}  BY <2>1 DEF Deliver
    <3> QED  BY <3>1, <3>2 DEF Sizes
  <2>6. TypeOK'  BY <1>1, <1>2, <2>2, <2>3, <2>5 DEF TypeOK
  <2> QED  BY <1>3, <2>2, <2>4, <2>6 DEF IInv
<1> QED  BY <1>4, <1>5

\* Every step keeps the invariant.
LEMMA NextIInv == ASSUME IInv, [Next]_vars PROVE IInv'
<1>1. CASE UNCHANGED vars
  <2>1. /\ UNCHANGED <<env, shell, window, mode, glmode, gl, surface, cache, request>>
        /\ UNCHANGED <<found, react, queue, pointer, drag>>
    BY <1>1 DEF vars, videoVars
  <2>2. ModesKept' /\ (OverridesFit' => SurfaceNotNull')  BY <2>1, SameModes
  <2>3. TypeOK'  BY <2>1 DEF IInv, TypeOK
  <2>4. QueueLinked'  BY <2>1 DEF IInv, QueueLinked, Linked
  <2>5. DisplayRect' = DisplayRect /\ (Scaling' <=> Scaling)  BY <2>1, SameScale
  <2>6. DragFollowed'
    <3>1. ASSUME drag.on
          PROVE  Scaling' /\ \E r \in Positions : Followed(queue', r, pointer') /\ Tracks(drag', r, mode', DisplayRect')
      <4>1. Scaling /\ \E r \in Positions : Followed(queue, r, pointer) /\ Tracks(drag, r, mode, DisplayRect)
        BY <3>1 DEF IInv, DragFollowed
      <4> QED  BY <2>1, <2>5, <4>1
    <3> QED  BY <2>1, <3>1 DEF DragFollowed
  <2> QED  BY <2>2, <2>3, <2>4, <2>6 DEF IInv
<1>2. CASE GameSets
  <2>1. PICK r \in Requests, g \in BOOLEAN, full \in BOOLEAN : SetVideoMode(r, g, full)  BY <1>2 DEF GameSets
  <2>2. r \in Asks /\ react' \in Sizes  BY <1>2 DEF GameSets, Asks, IInv, TypeOK
  <2> QED  BY <2>1, <2>2, SetsStep
<1>3. CASE EngineReacts
  <2>1. PICK full \in BOOLEAN : SetVideoMode(react, gl, full)  BY <1>3 DEF EngineReacts
  <2>2. react \in Asks /\ react' \in Sizes
    BY <1>3 DEF EngineReacts, IInv, TypeOK, Sizes, Extents, Asks
  <2>3. gl \in BOOLEAN  BY DEF IInv, TypeOK
  <2> QED  BY <2>1, <2>2, <2>3, SetsStep
<1>4. CASE PollEvent  BY <1>4, PollStep
<1>5. CASE Touch
  <2>1. PICK p \in Points : PointTo(p, "tap")  BY <1>5 DEF Touch
  <2> QED  BY <2>1, PointStep
<1>6. CASE Move
  <2>1. PICK p \in Points : PointTo(p, "motion")  BY <1>6 DEF Move
  <2> QED  BY <2>1, PointStep
<1>7. CASE Rotate  BY <1>7, RotateStep
<1> QED  BY <1>1, <1>2, <1>3, <1>4, <1>5, <1>6, <1>7 DEF Next

\* The event that is told last is where polling tells the pointer to be.
LEMMA LastIsTold ==
  ASSUME IInv, PollEvent, got' # got, \A i \in DOMAIN queue' : queue'[i].type = "resize"
  PROVE  got' = MouseState
<1>1. TypeOK /\ queue \in Seq(Events) /\ Linked(queue, pointer)  BY DEF IInv, TypeOK, QueueLinked
<1>2. Deliverable # {}  BY DEF PollEvent
<1>3. PICK n \in DOMAIN queue :
        /\ queue' = SubSeq(queue, n + 1, Len(queue)) /\ Deliver(queue[n])
        /\ \A i \in DOMAIN queue : i < n => ~IsMouse(queue[i])
  BY <1>1, <1>2, Delivered
<1>4. IsMouse(queue[n]) /\ got' = Told(queue[n])
  <2>1. got' = IF queue[n].type = "resize" THEN got ELSE Told(queue[n])
    <3>1. Deliver(queue[n])  BY <1>3
    <3> QED  BY <3>1, Zenon DEF Deliver
  <2> QED  BY <2>1 DEF IsMouse
<1>5. CASE Scaling  BY <1>4, <1>5 DEF Told, MouseState
<1>6. CASE ~Scaling
  <2>1. \A j \in DOMAIN queue : n < j => ~IsMouse(queue[j])
    <3> SUFFICES ASSUME NEW j \in DOMAIN queue, n < j PROVE ~IsMouse(queue[j])  OBVIOUS
    <3> DEFINE t == SubSeq(queue, n + 1, Len(queue))
    <3>2. \A i \in DOMAIN queue : n < i => i - n \in DOMAIN t /\ t[i - n] = queue[i]
      BY <1>1, AfterTake
    <3>3. queue' = t  BY <1>3
    <3> HIDE DEF t
    <3>1. j - n \in DOMAIN queue' /\ queue'[j - n] = queue[j]  BY <3>2, <3>3
    <3> QED  BY <3>1 DEF IsMouse
  <2>2. queue[n].at = pointer  BY <1>1, <1>4, <2>1 DEF Linked
  <2> QED  BY <1>4, <1>6, <2>2 DEF Told, MouseState
<1> QED  BY <1>5, <1>6

\* With nothing left to read, the drag was told as far as the pointer is.
LEMMA DragIsTold == ASSUME IInv PROVE DragAddsUp
<1> SUFFICES ASSUME drag.on, OnScreen, \A i \in DOMAIN queue : queue[i].type = "resize"
             PROVE  /\ MouseState.x - drag.from.x - drag.sum.x \in -drag.n..drag.n
                    /\ MouseState.y - drag.from.y - drag.sum.y \in -drag.n..drag.n
  BY DEF DragAddsUp
<1>1. Scaling /\ \E r \in Positions : Followed(queue, r, pointer) /\ Tracks(drag, r, mode, DisplayRect)
  BY DEF IInv, DragFollowed
<1>2. PICK r \in Positions : Followed(queue, r, pointer) /\ Tracks(drag, r, mode, DisplayRect)  BY <1>1
<1>3. r = pointer  BY <1>2 DEF Followed, IsMouse
<1> DEFINE s == DisplayRect
<1>4. s \in Extents  BY RectType DEF IInv
<1>5. mode \in Extents /\ pointer \in Positions  BY <1>1 DEF IInv, TypeOK, Sizes, Scaling
<1>6. pointer.x < s.w /\ pointer.y < s.h  BY DEF OnScreen
<1>7. MouseState = [x |-> Within((pointer.x * mode.w) \div s.w, mode.w),
                    y |-> Within((pointer.y * mode.h) \div s.h, mode.h)]
  BY <1>1 DEF MouseState, Scaled
<1> HIDE DEF s
<1>8. /\ {mode.w, mode.h, s.w, s.h} \subseteq Nat \ {0}
      /\ pointer.x \in Nat /\ pointer.y \in Nat
  BY <1>4, <1>5 DEF Extents, Positions
<1>9. Within(Cell(pointer.x, mode.w, s.w), mode.w) = Cell(pointer.x, mode.w, s.w)
  BY <1>6, <1>8, CellWithin
<1>10. Within(Cell(pointer.y, mode.h, s.h), mode.h) = Cell(pointer.y, mode.h, s.h)
  BY <1>6, <1>8, CellWithin
<1>11. MouseState.x = Cell(pointer.x, mode.w, s.w) /\ MouseState.y = Cell(pointer.y, mode.h, s.h)
  BY <1>7, <1>9, <1>10 DEF Cell
<1> QED  BY <1>2, <1>3, <1>11 DEF Tracks, s
-----------------------------------------------------------------------------
\* In every reachable state windows fit the screen, the records of the mode belong to
\* the window and the queue leads from the last position told to the pointer.
THEOREM Invariance == Spec => []IInv
<1>1. IInv /\ [Next]_vars => IInv'  BY NextIInv
<1> QED  BY InitIInv, <1>1, PTL DEF Spec

\* Where the override of the screen's size is no larger than the panel, no call of
\* SDL_SetVideoMode gives NULL (src/sdl_webos_shim.c:186-202).
THEOREM SurfaceCorrect == ASSUME OverridesFit PROVE Spec => []SurfaceNotNull
<1>1. IInv => SurfaceNotNull  BY DEF IInv
<1> QED  BY Invariance, <1>1, PTL

\* Touches and pixels are mapped for one mode (src/sdl_webos_shim.c:216-232).
THEOREM ModesCorrect == Spec => []ModesAgree
<1>1. IInv => ModesAgree  BY DEF IInv, ModesKept
<1> QED  BY Invariance, <1>1, PTL

\* The motions of a drag add up to the way the pointer is told to have gone
\* (src/sdl_webos_shim.c:353-365).
THEOREM DragCorrect == Spec => []DragAddsUp
<1>1. IInv => DragAddsUp  BY DragIsTold
<1> QED  BY Invariance, <1>1, PTL

\* Events and polling agree on the last tap (src/sdl_webos_shim.c:330-350).
THEOREM PollingCorrect == Spec => EventsAgreeWithPolling
<1>1. IInv /\ [Next]_vars =>
        [PollEvent /\ got' # got /\ (\A i \in DOMAIN queue' : queue'[i].type = "resize")
           => got' = MouseState]_vars
  BY LastIsTold
<1> QED  BY Invariance, <1>1, PTL DEF Spec, EventsAgreeWithPolling

\* An engine that sets its mode again keeps it (src/sdl_webos_shim.c:284-286).
THEOREM ResetCorrect == Spec => ResetIsStable
<1>1. IInv /\ [Next]_vars =>
        [/\ GameSets \/ EngineReacts
         /\ request' = request /\ request.gl /\ ~env.noUpscale
         /\ (shell = Fallback \/ FitsBoth(request.size))
         => mode' = mode]_vars
  <2> SUFFICES ASSUME IInv, GameSets \/ EngineReacts,
                      request' = request, request.gl, ~env.noUpscale,
                      shell = Fallback \/ FitsBoth(request.size)
               PROVE  mode' = mode
    OBVIOUS
  <2>1. \E r \in Asks, g, full \in BOOLEAN : SetVideoMode(r, g, full)
    <3>1. CASE GameSets  BY <3>1 DEF GameSets, Asks
    <3>2. CASE EngineReacts
      <4>1. react \in Asks /\ gl \in BOOLEAN  BY DEF IInv, TypeOK, Sizes, Extents, Asks
      <4> QED  BY <3>2, <4>1 DEF EngineReacts
    <3> QED  BY <3>1, <3>2
  <2>2. PICK r \in Asks, g \in BOOLEAN, full \in BOOLEAN : SetVideoMode(r, g, full)  BY <2>1
  <2>3. mode' = Clamped(Native(r)) /\ request' = [size |-> r, gl |-> g]  BY <2>2 DEF SetVideoMode
  <2>4. request.size = r  BY <2>3
  <2>5. Clamped(Native(r)) = Kept(r)  BY <2>4, SameMode DEF IInv, ModesKept
  <2>6. mode = Kept(r)  BY <2>4 DEF IInv, ModesKept, ModeIsKept
  <2> QED  BY <2>3, <2>5, <2>6
<1> QED  BY Invariance, <1>1, PTL DEF Spec, ResetIsStable

-----------------------------------------------------------------------------
(* Both shims in one game: a finger on what the game drew at a point is    *)
(* told at that point, for every panel, mode and window, as long as the    *)
(* viewport is the whole window.                                           *)
(*                                                                         *)
(* The composition takes the steps of SdlShim and no others (IsSdlShim),   *)
(* so the invariant above holds of it.  What is added relates the surface  *)
(* the game draws for to the mode touches are mapped for, and the window   *)
(* the game has to the one the shim finds.                                 *)

\* The surface the game was given has the mode's size, and a GL window is found.
SurfaceIsMode == surface # NoSize => surface = mode
GlIsFound     == gl => found /\ window # NoSize

\* The whole of the two: a GL title is mapped by its own window and mode.
Matched == SurfaceIsMode /\ GlIsFound
-----------------------------------------------------------------------------
\* Whatever the game draws, its modes, events and touches are those of SdlShim.
LEMMA StepIsSdlShim == ASSUME [DisplayNext]_allVars PROVE [Next]_vars
<1>1. CASE UNCHANGED allVars  BY <1>1 DEF allVars
<1>2. CASE SetsMode  BY <1>2 DEF SetsMode, Next
<1>3. CASE Elsewhere  BY <1>3 DEF Elsewhere, Next
<1>4. CASE Draws  BY <1>4 DEF Draws
<1>5. CASE SetsViewport  BY <1>5 DEF SetsViewport
<1> QED  BY <1>1, <1>2, <1>3, <1>4, <1>5 DEF DisplayNext

\* A mode that is set gives a surface of its size or none, and a GL window is current.
LEMMA MatchedBySet ==
  ASSUME TypeOK, CacheIsCurrent, Matched, NEW req \in Asks, NEW g \in BOOLEAN, NEW full \in BOOLEAN,
         SetVideoMode(req, g, full)
  PROVE  Matched'
<1> DEFINE m == Clamped(Native(req))
           wide == full \/ Undersized(m)
           call == [size |-> m, gl |-> g, full |-> wide]
           hit == env.modeCache /\ cache = call
<1>1. mode' = m /\ Real(m, g, wide)  BY DEF SetVideoMode
<1>2. m \in Extents  BY ModeType
<1>3. CASE hit
  <2>1. surface' = m /\ UNCHANGED <<window, found, gl, queue, cache>>  BY <1>1, <1>3, Zenon DEF Real
  <2> QED  BY <1>1, <2>1 DEF Matched, SurfaceIsMode, GlIsFound
<1>4. CASE ~hit /\ Works(m)
  <2>1. Create(IF wide THEN shell ELSE m, g) /\ surface' = m  BY <1>1, <1>4, Zenon DEF Real
  <2>2. /\ window' = (IF wide THEN shell ELSE m) /\ gl' = g
        /\ found' \in IF g THEN {TRUE} ELSE BOOLEAN
    BY <2>1, Zenon DEF Create
  <2>3. shell \in Extents  BY DEF TypeOK, Extents, Turned
  <2>4. window' # NoSize
    <3>1. window' \in Extents  BY <1>2, <2>2, <2>3
    <3> QED  BY <3>1 DEF Extents
  <2>5. gl' => found'  BY <2>2
  <2> QED  BY <1>1, <2>1, <2>4, <2>5 DEF Matched, SurfaceIsMode, GlIsFound
<1>5. CASE ~hit /\ ~Works(m)
  <2>1. surface' = NoSize /\ UNCHANGED <<window, found, gl, queue, cache>>
    BY <1>1, <1>5, Zenon DEF Real
  <2> QED  BY <2>1 DEF Matched, SurfaceIsMode, GlIsFound
<1> QED  BY <1>3, <1>4, <1>5

\* Every step of SdlShim keeps them matched.
LEMMA MatchedStep == ASSUME IInv, Matched, [Next]_vars PROVE Matched'
<1>1. TypeOK /\ CacheIsCurrent  BY DEF IInv, ModesKept
<1>2. CASE GameSets
  <2>1. PICK r \in Requests, g \in BOOLEAN, full \in BOOLEAN : SetVideoMode(r, g, full)  BY <1>2 DEF GameSets
  <2>2. r \in Asks  BY DEF Asks
  <2> QED  BY <1>1, <2>1, <2>2, MatchedBySet
<1>3. CASE EngineReacts
  <2>1. PICK full \in BOOLEAN : SetVideoMode(react, gl, full)  BY <1>3 DEF EngineReacts
  <2>2. react \in Asks /\ gl \in BOOLEAN  BY <1>1 DEF TypeOK, Sizes, Extents, Asks
  <2> QED  BY <1>1, <2>1, <2>2, MatchedBySet
<1>4. CASE PollEvent \/ UNCHANGED vars
  <2>1. UNCHANGED <<surface, mode, gl, found, window>>  BY <1>4 DEF PollEvent, vars, videoVars
  <2> QED  BY <2>1 DEF Matched, SurfaceIsMode, GlIsFound
<1>5. CASE Touch \/ Move
  <2>1. PICK p \in Points, type \in {"tap", "motion"} : PointTo(p, type)  BY <1>5 DEF Touch, Move
  <2>2. UNCHANGED <<surface, mode, gl, window>> /\ found' = TRUE  BY <2>1 DEF PointTo
  <2> QED  BY <2>2 DEF Matched, SurfaceIsMode, GlIsFound
<1>6. CASE Rotate
  <2>1. /\ UNCHANGED <<surface, mode, gl, found>>
        /\ window' = IF window = NoSize THEN NoSize ELSE Turned(shell)
    BY <1>6 DEF Rotate
  <2>2. Turned(shell) # NoSize  BY <1>1 DEF TypeOK, Turned
  <2> QED  BY <2>1, <2>2 DEF Matched, SurfaceIsMode, GlIsFound
<1> QED  BY <1>2, <1>3, <1>4, <1>5, <1>6 DEF Next
-----------------------------------------------------------------------------
(* There and back.                                                         *)

\* A point of the game's s pixels, shown on w of the window's and told in s again, is
\* the same to a pixel of the coarser grid.
LEMMA ThereAndBack ==
  ASSUME NEW s \in Nat \ {0}, NEW w \in Nat \ {0}, NEW p \in 0..(s - 1)
  PROVE  LET a == (p * w) \div s
             t == Within((a * s) \div w, s)
         IN a \in 0..(w - 1) /\ (t - p) * w \in -(w + s)..(w + s)
<1> DEFINE a == (p * w) \div s
           c == (a * s) \div w
<1>1. p \in Nat /\ p < s /\ p * w \in Int  OBVIOUS
<1>2. a \in Nat /\ a < w
  <2>1. Cell(p, w, s) \in Nat /\ Within(Cell(p, w, s), w) = Cell(p, w, s)  BY <1>1, CellWithin
  <2>2. a \in Nat /\ Within(a, w) = a  BY <2>1 DEF Cell
  <2> HIDE DEF a
  <2>3. CASE a > w - 1
    <3>1. Within(a, w) = w - 1  BY <2>2, <2>3 DEF Within
    <3> QED  BY <2>2, <2>3, <3>1
  <2> QED  BY <2>2, <2>3
<1>3. s * a <= p * w /\ p * w < s * a + s  BY <1>1, FloorIs
<1> HIDE DEF a
<1>4. Within(c, s) = c /\ c \in Nat
  <2>1. Cell(a, s, w) \in Nat /\ Within(Cell(a, s, w), s) = Cell(a, s, w)  BY <1>2, CellWithin
  <2> QED  BY <2>1 DEF Cell
<1>5. a * s \in Int /\ a * s = s * a  BY <1>2
<1>6. w * c <= a * s /\ a * s < w * c + w  BY <1>5, FloorIs
<1> HIDE DEF c
<1>7. (c - p) * w = w * c - p * w /\ w * c \in Int  BY <1>1, <1>4
<1>8. (c - p) * w \in -(w + s)..(w + s)
  <2>1. w * c - p * w <= 0  BY <1>1, <1>3, <1>5, <1>6, <1>7
  <2>2. w * c - p * w > -(w + s)  BY <1>1, <1>3, <1>5, <1>6, <1>7
  <2>3. w * c - p * w \in Int  BY <1>1, <1>7
  <2> QED  BY <1>7, <2>1, <2>2, <2>3
<1> QED  BY <1>2, <1>4, <1>8 DEF a, c

\* A position the same to a pixel of either grid.
LEMMA NearItself ==
  ASSUME NEW i \in Int, NEW s \in Nat, NEW w \in Nat PROVE (i - i) * w \in -(w + s)..(w + s)
<1>1. i - i = 0 /\ 0 * w = 0  OBVIOUS
<1> QED  BY <1>1

\* Dividing by what one has multiplied with.
LEMMA SameGrid ==
  ASSUME NEW s \in Nat \ {0}, NEW p \in Nat PROVE (p * s) \div s = p
<1> DEFINE c == (p * s) \div s
<1>1. p * s \in Int /\ p * s = s * p  OBVIOUS
<1>2. c \in Int /\ s * c <= s * p /\ s * p < s * c + s  BY <1>1, FloorIs
<1> HIDE DEF c
<1>3. s * (c + 1) = s * c + s /\ s * (p + 1) = s * p + s  BY <1>2
<1>4. s * p < s * (c + 1) /\ s * c < s * (p + 1)
  <2>1. s * p \in Int /\ s * c \in Int  BY <1>2
  <2> QED  BY <1>2, <1>3, <2>1
<1>5. p < c + 1 /\ c < p + 1  BY <1>2, <1>4, Multiples
<1> QED  BY <1>2, <1>5 DEF c

\* The two mappings agree where they are matched and the viewport is the whole window.
LEMMA Meets == ASSUME IInv, Matched PROVE FingerMeetsPicture
<1> SUFFICES ASSUME Plain, Shows, viewport = Gles!Fixed(window.w, window.h),
                    NEW p \in Screen(surface)
             PROVE  Close(ToldAt(Shown(p)), p)
  BY DEF FingerMeetsPicture, Agree
<1>1. surface = mode /\ found /\ window # NoSize /\ DisplayRect = window
  BY DEF Shows, Matched, SurfaceIsMode, GlIsFound, Plain, DisplayRect
<1>2. window \in Extents /\ mode \in Extents  BY <1>1 DEF IInv, TypeOK, Sizes, Shows
<1>3. viewport.x = 0 /\ viewport.y = 0 /\ viewport.w = window.w /\ viewport.h = window.h
  BY DEF Gles!Fixed
<1>4. /\ {mode.w, mode.h, window.w, window.h} \subseteq Nat \ {0}
      /\ p.x \in 0..(mode.w - 1) /\ p.y \in 0..(mode.h - 1)
  BY <1>1, <1>2 DEF Extents, Screen
<1> DEFINE ax == (p.x * window.w) \div mode.w
           ay == (p.y * window.h) \div mode.h
<1>5. Shown(p) = [x |-> ax, y |-> ay]
  <2>1. ax \in 0..(window.w - 1)  BY <1>4, ThereAndBack
  <2>2. ay \in 0..(window.h - 1)  BY <1>4, ThereAndBack
  <2>3. Shown(p) = [x |-> 0 + ax, y |-> 0 + ay]  BY <1>1, <1>3 DEF Shown
  <2> HIDE DEF ax, ay
  <2>4. 0 + ax = ax /\ 0 + ay = ay  BY <1>4, <2>1, <2>2
  <2> QED  BY <2>3, <2>4
<1>6. CASE Scaling
  <2>1. ToldAt(Shown(p)) = [x |-> Within((ax * mode.w) \div window.w, mode.w),
                            y |-> Within((ay * mode.h) \div window.h, mode.h)]
    BY <1>1, <1>5, <1>6 DEF ToldAt, Scaled
  <2>2. (Within((ax * mode.w) \div window.w, mode.w) - p.x) * window.w \in -(window.w + mode.w)..(window.w + mode.w)
    BY <1>4, ThereAndBack
  <2>3. (Within((ay * mode.h) \div window.h, mode.h) - p.y) * window.h \in -(window.h + mode.h)..(window.h + mode.h)
    BY <1>4, ThereAndBack
  <2> HIDE DEF ax, ay
  <2> QED  BY <1>1, <2>1, <2>2, <2>3 DEF Close, Near
<1>7. CASE ~Scaling
  <2>1. window = mode  BY <1>1, <1>2, <1>7 DEF Scaling, Plain, Extents
  <2>2. ax = p.x /\ ay = p.y
    <3>1. p.x \in Nat /\ p.y \in Nat  BY <1>4
    <3>2. (p.x * mode.w) \div mode.w = p.x  BY <1>4, <3>1, SameGrid
    <3>3. (p.y * mode.h) \div mode.h = p.y  BY <1>4, <3>1, SameGrid
    <3> QED  BY <2>1, <3>2, <3>3
  <2>3. ToldAt(Shown(p)) = [x |-> p.x, y |-> p.y]
    <3>1. ToldAt(Shown(p)) = Raw([x |-> p.x, y |-> p.y])  BY <1>5, <1>7, <2>2 DEF ToldAt
    <3>2. ~(p.x > surface.w) /\ ~(p.y > surface.h)  BY <1>1, <1>4
    <3> QED  BY <3>1, <3>2 DEF Raw
  <2>4. (p.x - p.x) * window.w \in -(window.w + mode.w)..(window.w + mode.w)
    BY <1>4, NearItself
  <2>5. (p.y - p.y) * window.h \in -(window.h + mode.h)..(window.h + mode.h)
    BY <1>4, NearItself
  <2> QED  BY <1>1, <2>3, <2>4, <2>5 DEF Close, Near
<1> QED  BY <1>6, <1>7
-----------------------------------------------------------------------------
\* With both shims in one process, the SDL shim behaves as it does alone.
THEOREM IsSdlShim == DisplaySpec => Spec
<1>1. DisplayInit => Init  BY DEF DisplayInit
<1>2. [DisplayNext]_allVars => [Next]_vars  BY StepIsSdlShim
<1> QED  BY <1>1, <1>2, PTL DEF DisplaySpec, Spec

\* The surface is of the mode touches are mapped for, and the window found is its own.
THEOREM MatchedAlways == DisplaySpec => []Matched
<1>1. Init => Matched
  <2> SUFFICES ASSUME Init PROVE Matched  OBVIOUS
  <2>1. surface = NoSize /\ gl = FALSE  BY Zenon DEF Init
  <2> QED  BY <2>1 DEF Matched, SurfaceIsMode, GlIsFound
<1>2. IInv /\ Matched /\ [Next]_vars => Matched'  BY MatchedStep
<1> QED  BY <1>1, <1>2, IsSdlShim, Invariance, PTL DEF Spec

\* A finger on what the game drew at a point is told at that point, to a pixel, with the
\* viewport on the whole window (src/sdl_webos_shim.c:631-632).
THEOREM TouchCorrect == DisplaySpec => []FingerMeetsPicture
<1>1. IInv /\ Matched => FingerMeetsPicture  BY Meets
<1> QED  BY <1>1, IsSdlShim, Invariance, MatchedAlways, PTL
=============================================================================
