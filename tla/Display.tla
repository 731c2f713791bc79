------------------------------ MODULE Display -------------------------------
(***************************************************************************)
(* The two shims in one game: SdlShim publishes the mode in the process's  *)
(* environment (PDK_GL_MODE_WIDTH) and maps touches from the window to it; *)
(* GlesShim reads the mode and maps what the game draws to the window.     *)
(* Neither knows what the other has done with it, nor when: the factors of *)
(* GlesShim outlive the modes of SdlShim, and its check comes every so     *)
(* many frames.  A GL title's drawable is its window; framebuffer objects  *)
(* and scissors are left to GlesShim.                                      *)
(***************************************************************************)
EXTENDS SdlShim

CONSTANTS
  Rects,   \* viewports the game may set
  Period   \* VIEWPORT_CHECK_FRAMES

VARIABLES
  scale, last, frames, viewport, asked   \* those of GlesShim

glVars == <<scale, last, frames, viewport, asked>>

\* A GL title has a drawable as long as its window.
Drawable == IF gl THEN window ELSE NoSize

GlesDefault == [noScale |-> FALSE, stretch |-> FALSE, fbo |-> FALSE]

Gles == INSTANCE GlesShim WITH
  Modes <- {Desktop}, Drawables <- {Desktop},
  Environments <- {GlesDefault}, env <- [GlesDefault EXCEPT !.fbo = FALSE], fbo <- GlesDefault.fbo,
  mode <- glmode, drawable <- Drawable, scissor <- [x |-> 0, y |-> 0, w |-> 0, h |-> 0]

DisplayInit ==
  /\ Init
  /\ scale = [ready |-> 0, mode |-> NoSize, drawable |-> NoSize] /\ last = NoSize /\ frames = 0
  /\ viewport = Gles!Fixed(0, 0) /\ asked = Gles!Fixed(0, 0)

\* SDL (external): a window made anew comes with a new context, whose viewport has the
\* size of the window or of the mode.  The shim's static variables stay.
NewContext ==
  /\ viewport' \in {Gles!Fixed(s.w, s.h) : s \in {window', mode'}}
  /\ UNCHANGED <<scale, last, frames, asked>>

SetsMode ==
  /\ GameSets \/ EngineReacts
  /\ IF gl' /\ surface' # NoSize THEN NewContext ELSE UNCHANGED glVars

\* Motions of the finger are left to SdlShim: they differ from touches in what is told.
Elsewhere == (PollEvent \/ Touch \/ Rotate) /\ UNCHANGED glVars

\* The game draws: a frame, or a viewport of its own.
Draws == UNCHANGED vars /\ Gles!glClear
SetsViewport == UNCHANGED vars /\ (\E r \in Rects : Gles!glViewport(r))

DisplayNext == SetsMode \/ Elsewhere \/ Draws \/ SetsViewport

allVars == <<vars, glVars>>

DisplaySpec == /\ DisplayInit /\ [][DisplayNext]_allVars
               /\ WF_allVars(Draws) /\ WF_allVars(PollEvent /\ UNCHANGED glVars)
               /\ WF_allVars(EngineReacts /\ SetsMode)

-----------------------------------------------------------------------------
(* Properties.                                                             *)

\* The window pixel at which point p of the game's screen is drawn, and the point
\* the game is told when that pixel is touched.
Shown(p) == [x |-> viewport.x + (p.x * viewport.w) \div surface.w,
             y |-> viewport.y + (p.y * viewport.h) \div surface.h]
ToldAt(q) == IF Scaling THEN Scaled(q) ELSE Raw(q)

Screen(s) == [x : 0..(s.w - 1), y : 0..(s.h - 1)]
\* The same point, to a pixel of the coarser of the two grids.
Near(i, j, game, win) == (i - j) * win \in -(win + game)..(win + game)
Close(p, q) == Near(p.x, q.x, surface.w, window.w) /\ Near(p.y, q.y, surface.h, window.h)

\* A title that is on the screen and leaves both shims at their defaults.
Shows == gl /\ surface # NoSize
Plain == ~env.noWindow /\ ~env.noInput

Agree == \A p \in Screen(surface) : Close(ToldAt(Shown(p)), p)

\* "This is the input half of the same problem the GLES shim fixes for pixels"
\* (src/sdl_webos_shim.c:631-632): with the viewport on the whole window, a finger on
\* what the game drew at p is told at p, to a pixel, whichever modes, rotations and
\* failed mode-sets came before.
FingerMeetsPicture ==
  Plain /\ Shows /\ viewport = Gles!Fixed(window.w, window.h) => Agree

\* A title that in the end sets no viewport gets there and stays, after its last mode
\* and the last rotation: the check of one shim catches up with the other.
PictureSettles ==
  []Plain /\ <>[][\A r \in Rects : ~Gles!glViewport(r)]_allVars => <>[](Shows => Agree)

\* Factors are those of the mode the game has, for one that sets a single mode and is
\* told of no resizes; a second mode in a window of the same size leaves them as they
\* were (src/gles_oes_shim.c:159).
FactorsFollowMode ==
  [](sets <= 1) /\ []~env.allowResize => <>[](scale.ready = 1 => scale.mode = glmode)
=============================================================================
