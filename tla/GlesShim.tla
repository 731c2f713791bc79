----------------------------- MODULE GlesShim ------------------------------
(***************************************************************************)
(* src/gles_oes_shim.c: the wrappers around glViewport, glScissor and      *)
(* glClear that scale a game drawn for a fixed Palm-era mode to the        *)
(* drawable it really has.  The scale factors are computed once and kept   *)
(* in static variables (scale_ready, gl_sx, gl_sy, gl_ox, gl_oy); every    *)
(* 30th glClear looks whether the drawable has changed size.               *)
(*                                                                         *)
(* The factors are kept here as what they were computed from, a mode and a *)
(* drawable: the rectangle a wrapper passes on is a function of these.     *)
(* The doubles of the code are exact rationals here and a cast to GLint    *)
(* truncates towards zero.  The game, the SDL shim that publishes the mode *)
(* and the compositor that rotates the screen are external.                *)
(***************************************************************************)
EXTENDS Integers

CONSTANTS
  Modes,        \* sizes the game may ask SetVideoMode for
  Drawables,    \* sizes the compositor may give the drawable
  Rects,        \* viewports and scissors the game may set
  Period,       \* VIEWPORT_CHECK_FRAMES
  Environments, \* whether PDK_NO_GL_SCALE and PDK_GL_STRETCH are set, and
                \* framebuffer objects are used, by the game or sdl12-compat
  MaxTurns      \* bound: rotations and mode changes

NoSize == [w |-> 0, h |-> 0]
Fixed(w, h) == [x |-> 0, y |-> 0, w |-> w, h |-> h]
PositiveSizes == [w : Nat \ {0}, h : Nat \ {0}]

ASSUME GlesAssumption ==
  /\ Modes \subseteq PositiveSizes
  /\ Drawables \subseteq PositiveSizes
  /\ Rects \subseteq [x : Int, y : Int, w : Nat, h : Nat]
  /\ Period \in Nat \ {0} /\ MaxTurns \in Nat
  /\ Environments \subseteq [noScale : BOOLEAN, stretch : BOOLEAN, fbo : BOOLEAN]

VARIABLES
  env,       \* the environment the game was started in
  mode,      \* PDK_GL_MODE_WIDTH and _HEIGHT, NoSize when not published
  drawable,  \* the size eglQuerySurface() reports
  fbo,       \* a framebuffer object is bound
  scale,     \* scale_ready, and the mode and drawable the factors came from
  last,      \* last_dw and last_dh
  frames,    \* calls of glClear, modulo Period
  viewport,  \* GL_VIEWPORT
  scissor,   \* GL_SCISSOR_BOX
  asked,     \* history: the viewport the game last set on framebuffer 0
  turns      \* rotations and mode changes so far

vars == <<env, mode, drawable, fbo, scale, last, frames, viewport, scissor, asked, turns>>
world == <<env, mode, drawable, fbo, turns>>

-----------------------------------------------------------------------------
(* The mapping of a game's rectangle onto the drawable.                    *)

Trunc(n, d) == IF n >= 0 THEN n \div d ELSE -((-n) \div d)

\* Mutant: the larger factor is taken.
Factors_Larger(m, d) ==
  LET sx == <<d.w, m.w>>
      sy == <<d.h, m.h>>
      s  == IF d.w * m.h > d.h * m.w THEN sx ELSE sy
  IN IF env.stretch THEN <<sx, sy>> ELSE <<s, s>>

\* The factors of the two axes as <<numerator, denominator>>: both are the
\* smaller of dw/mw and dh/mh, unless PDK_GL_STRETCH asks for one per axis.
Factors(m, d) ==
  LET sx == <<d.w, m.w>>
      sy == <<d.h, m.h>>
      s  == IF d.w * m.h < d.h * m.w THEN sx ELSE sy
  IN IF env.stretch THEN <<sx, sy>> ELSE <<s, s>>

\* gl_o + p * gl_s with gl_o = (extent - size * s) / 2, cast to GLint.
Place(p, size, extent, s) == Trunc(extent * s[2] - size * s[1] + 2 * p * s[1], 2 * s[2])
\* Mutant: lengths are rounded up.
Length_Up(l, s) == Trunc(l * s[1] + s[2] - 1, s[2])

Length(l, s) == Trunc(l * s[1], s[2])

Mapped(r, f) ==
  LET s == Factors(f.mode, f.drawable)
  IN [x |-> Place(r.x, f.mode.w, f.drawable.w, s[1]),
      y |-> Place(r.y, f.mode.h, f.drawable.h, s[2]),
      w |-> Length(r.w, s[1]), h |-> Length(r.h, s[2])]

\* Mutant: the viewport stands in for the mode although one is published.
Resolved_ViewportFirst(v) ==
  LET m == IF v # NoSize THEN v ELSE mode
  IN IF \/ env.noScale \/ m.w <= 0 \/ m.h <= 0 \/ drawable = NoSize
        \/ drawable.w <= m.w /\ drawable.h <= m.h
     THEN [scale EXCEPT !.ready = -1]
     ELSE [ready |-> 1, mode |-> m, drawable |-> drawable]

\* resolve_scale(vw, vh).
Resolved(v) ==
  LET m == IF mode # NoSize THEN mode ELSE v
  IN IF \/ env.noScale \/ m.w <= 0 \/ m.h <= 0 \/ drawable = NoSize
        \/ drawable.w <= m.w /\ drawable.h <= m.h
     THEN [scale EXCEPT !.ready = -1]
     ELSE [ready |-> 1, mode |-> m, drawable |-> drawable]

Current(v) == IF scale.ready = 0 THEN Resolved(v) ELSE scale

\* glScissor: only a rectangle that fits the published mode is the game's own.
InModeSpace(r) == mode = NoSize \/ (r.x + r.w <= mode.w /\ r.y + r.h <= mode.h)

-----------------------------------------------------------------------------
Init ==
  /\ env \in Environments /\ mode \in Modes \union {NoSize} /\ drawable = NoSize
  /\ fbo = FALSE /\ last = NoSize /\ frames = 0 /\ turns = 0
  /\ scale = [ready |-> 0, mode |-> NoSize, drawable |-> NoSize]
  /\ viewport = Fixed(0, 0) /\ scissor = Fixed(0, 0) /\ asked = Fixed(0, 0)

\* What a call leaves in the GL state: nothing when no context is current.
Set(r, old) == IF drawable = NoSize THEN old ELSE r

glViewport(r) ==
  /\ scale' = IF fbo THEN scale ELSE Current([w |-> r.w, h |-> r.h])
  /\ viewport' = Set(IF ~fbo /\ scale'.ready = 1 THEN Mapped(r, scale') ELSE r, viewport)
  /\ asked' = IF fbo THEN asked ELSE Set(r, asked)
  /\ UNCHANGED <<world, last, frames, scissor>>

glScissor(r) ==
  /\ scale' = IF fbo THEN scale ELSE Current(NoSize)
  /\ scissor' = Set(IF ~fbo /\ scale'.ready = 1 /\ InModeSpace(r)
                    THEN Mapped(r, scale') ELSE r, scissor)
  /\ UNCHANGED <<world, last, frames, viewport, asked>>

\* Mutant: PDK_NO_GL_SCALE is not looked at.
Check_NoOptOut ==
  /\ last' = drawable
  /\ scale' = IF drawable # last THEN [scale EXCEPT !.ready = 0] ELSE scale
  /\ viewport' = IF viewport.w = drawable.w /\ viewport.h = drawable.h
                 THEN viewport ELSE Fixed(drawable.w, drawable.h)

\* Mutant: the factors outlive the drawable they were computed from.
Check_KeepsFactors ==
  /\ last' = drawable /\ UNCHANGED scale
  /\ viewport' = IF env.noScale \/ (viewport.w = drawable.w /\ viewport.h = drawable.h)
                 THEN viewport ELSE Fixed(drawable.w, drawable.h)

\* Mutant: factors are dropped, but not the decision that there are none.
Check_KeepsDecision ==
  /\ last' = drawable
  /\ scale' = IF drawable # last /\ scale.ready = 1 THEN [scale EXCEPT !.ready = 0] ELSE scale
  /\ viewport' = IF env.noScale \/ (viewport.w = drawable.w /\ viewport.h = drawable.h)
                 THEN viewport ELSE Fixed(drawable.w, drawable.h)

\* The periodic check: the factors are dropped when the drawable has changed,
\* and a viewport that is not the drawable's size is made so.
Check ==
  /\ last' = drawable
  /\ scale' = IF drawable # last THEN [scale EXCEPT !.ready = 0] ELSE scale
  /\ viewport' = IF env.noScale \/ (viewport.w = drawable.w /\ viewport.h = drawable.h)
                 THEN viewport ELSE Fixed(drawable.w, drawable.h)

Due == frames = 0 /\ ~fbo /\ drawable # NoSize

\* Mutant: the check is made at startup only.
glClear_Startup ==
  /\ IF Due THEN Check ELSE UNCHANGED <<last, scale, viewport>>
  /\ frames' = IF Due THEN 1 ELSE frames
  /\ UNCHANGED <<world, scissor, asked>>

glClear ==
  /\ IF Due THEN Check ELSE UNCHANGED <<last, scale, viewport>>
  /\ frames' = (frames + 1) % Period
  /\ UNCHANGED <<world, scissor, asked>>

-----------------------------------------------------------------------------
(* External: the game's framebuffers, the SDL shim and the compositor.     *)

BindFramebuffer ==
  /\ env.fbo /\ fbo' = ~fbo
  /\ UNCHANGED <<env, mode, drawable, turns, scale, last, frames, viewport, scissor, asked>>

\* The game makes its context current; the viewport it comes up with has the
\* drawable's size, or a mode's.
MakeCurrent ==
  /\ drawable = NoSize /\ drawable' \in Drawables
  /\ viewport' \in {Fixed(d.w, d.h) : d \in {drawable'} \union Modes}
  /\ scissor' = viewport'
  /\ UNCHANGED <<env, mode, fbo, turns, scale, last, frames, asked>>

Turn == turns < MaxTurns /\ turns' = turns + 1

Rotate ==
  /\ Turn /\ drawable # NoSize /\ drawable' \in Drawables \ {drawable}
  /\ UNCHANGED <<env, mode, fbo, scale, last, frames, viewport, scissor, asked>>

PublishMode ==
  /\ Turn /\ mode' \in Modes \ {mode}
  /\ UNCHANGED <<env, drawable, fbo, scale, last, frames, viewport, scissor, asked>>

Next == \/ glClear \/ BindFramebuffer \/ MakeCurrent \/ Rotate \/ PublishMode
        \/ \E r \in Rects : glViewport(r) \/ glScissor(r)

Spec == Init /\ [][Next]_vars

\* The game draws on: it clears the screen again and again.
FairSpec == Spec /\ WF_vars(MakeCurrent) /\ WF_vars(glClear) /\ SF_vars(glClear /\ ~fbo)

-----------------------------------------------------------------------------
(* Properties.                                                             *)

Fits(r, s) == r.x >= 0 /\ r.y >= 0 /\ r.x + r.w <= s.w /\ r.y + r.h <= s.h
Apart(p, q) == p.x + p.w <= q.x \/ q.x + q.w <= p.x \/ p.y + p.h <= q.y \/ q.y + q.h <= p.y

\* Columns and rows of the game's screen: the mapping treats the axes apart.
Panes(m) ==
  {p \in [x : 0..(m.w - 1), y : {0}, w : 1..m.w, h : {m.h}] : Fits(p, m)} \union
  {p \in [x : {0}, y : 0..(m.h - 1), w : {m.w}, h : 1..m.h] : Fits(p, m)}

\* With the factors in force, a rectangle of the game's screen lands inside the
\* drawable they were computed from: the letterbox never pushes it off an edge.
MapsInside ==
  scale.ready = 1 => \A p \in Panes(scale.mode) : Fits(Mapped(p, scale), scale.drawable)

\* Split panes and mini-maps that do not overlap in the game's space do not
\* overlap on the drawable, whatever the rounding of each edge.
PanesStayApart ==
  scale.ready = 1 =>
    \A p, q \in Panes(scale.mode) :
      Apart(p, q) => Apart(Mapped(p, scale), Mapped(q, scale))

\* PDK_NO_GL_SCALE: what a game without framebuffers sets is what GL has, across
\* rotations, mode changes and checks.
OptOutHolds ==
  env.noScale /\ ~env.fbo /\ asked # Fixed(0, 0) => viewport = asked

\* A title that stops calling glViewport, or never does, ends up drawing on the
\* whole drawable, however often the screen was rotated before.
PanelCovered ==
  <>[][\A r \in Rects : ~glViewport(r)]_vars /\ []~(env.noScale \/ env.fbo)
    => <>[](viewport.w = drawable.w /\ viewport.h = drawable.h)

\* "the scissor and viewport factors have to be worked out again"
\* (src/gles_oes_shim.c:268-269): once a title that is turned at most once has drawn
\* on, the factors in force were computed from the drawable there is.  Turned twice
\* it may be left with factors of a drawable no check has seen.
SettledFactors ==
  [](turns <= 1) /\ []~env.fbo => <>[](scale.ready = 1 => scale.drawable = drawable)

\* The wrapper called first decides, and may do so before there is a drawable or for
\* one that is turned away: for a title whose mode is published the decision not to
\* scale is in the end only kept where there is nothing to gain or scaling is off.
DecisionIsSound ==
  \A m \in Modes :
    [](mode = m) /\ [](turns <= 1) /\ []~env.fbo =>
      <>[](scale.ready = -1 => env.noScale \/ (drawable.w <= m.w /\ drawable.h <= m.h))

-----------------------------------------------------------------------------
(* What the comments say and the code does not do.                         *)

\* "Scissor rectangles have to follow exactly that mapping - a uniform scale with
\* letterbox offsets [...] would clip the wrong pixels" (src/gles_oes_shim.c:74-77):
\* with the viewport on the whole drawable, a scissor is put, to the pixel, where the
\* viewport draws that part of the game's screen.
Near(v, n, d) == v * d - n \in -d..d

ScissorFollowsViewport ==
  [][\A r \in Rects :
       /\ glScissor(r) /\ Fits(r, mode) /\ scale'.ready = 1
       /\ scale'.mode = mode /\ scale'.drawable = drawable
       /\ viewport = Fixed(drawable.w, drawable.h)
       => /\ Near(scissor'.x, r.x * drawable.w, mode.w) /\ Near(scissor'.w, r.w * drawable.w, mode.w)
          /\ Near(scissor'.y, r.y * drawable.h, mode.h) /\ Near(scissor'.h, r.h * drawable.h, mode.h)]_vars
=============================================================================
