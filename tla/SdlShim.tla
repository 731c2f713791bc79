------------------------------ MODULE SdlShim ------------------------------
(***************************************************************************)
(* src/sdl_webos_shim.c: what libSDL's wrappers make of the video modes a  *)
(* PDK game sets, of the events it reads and of its touches.               *)
(*                                                                         *)
(* SDL_SetVideoMode resolves a request of no size, clamps one larger than the     *)
(* screen and turns a smaller one into fullscreen, where the screen is     *)
(* what SDL_WebOsHookGetDisplayRect says at that moment: the live window   *)
(* if it can be found, else a fallback.  SDL_PollEvent drops resizes and   *)
(* rewrites the position of mouse events from the pointer SDL2 has now, and *)
(* the relative motion of a drag by the ratio of mode and screen.          *)
(*                                                                         *)
(* External: sdl12-compat and SDL2 below (the window, the event queue, the *)
(* pointer), the compositor that rotates, and the game above.              *)
(***************************************************************************)
EXTENDS Integers, Sequences

CONSTANTS
  Requests,     \* sizes the game asks SetVideoMode for, 0x0 among them
  Desktop,      \* SDL_GetDesktopDisplayMode: the panel, which never turns
  Points,       \* window positions that are touched
  Environments, \* which of PDK_NO_CLAMP, PDK_NO_UPSCALE, PDK_ALLOW_RESIZE,
                \* PDK_MODE_CACHE, PDK_NO_WINDOW_SIZE and PDK_NO_INPUT_SCALE are
                \* set, and PDK_SCREEN_WIDTH and _HEIGHT, NoSize when they are not
  QueueCap,     \* bound: events in SDL's queue
  MaxMoves,     \* bound: motions of the finger
  MaxSets,      \* bound: modes the game sets of its own accord
  MaxTurns      \* bound: rotations

NoSize == [w |-> 0, h |-> 0]
NoCall == [size |-> NoSize, gl |-> FALSE, full |-> FALSE]
NoRequest == [size |-> NoSize, gl |-> FALSE]
NoDrag == [on |-> FALSE, from |-> [x |-> 0, y |-> 0], sum |-> [x |-> 0, y |-> 0], n |-> 0]
Turned(s) == [w |-> s.h, h |-> s.w]

ASSUME SdlAssumption ==
  /\ Requests \subseteq [w : Int, h : Int] /\ Points \subseteq [x : Nat, y : Nat]
  /\ Desktop \in [w : Nat \ {0}, h : Nat \ {0}]
  /\ Environments \subseteq
       [noClamp : BOOLEAN, noUpscale : BOOLEAN, allowResize : BOOLEAN, modeCache : BOOLEAN,
        noWindow : BOOLEAN, noInput : BOOLEAN,
        screen : {NoSize} \union [w : Nat \ {0}, h : Nat \ {0}]]
  /\ QueueCap \in Nat \ {0} /\ {MaxMoves, MaxSets, MaxTurns} \subseteq Nat

VARIABLES
  env,      \* the environment the game was started in
  shell,    \* the shell's logical size: what a fullscreen window gets
  window,   \* the size of the game's window, NoSize before there is one
  found,    \* SDL2 has a current GL window, or a window with mouse focus
  mode,     \* pdkshim_mode_w and pdkshim_mode_h
  glmode,   \* PDK_GL_MODE_WIDTH and _HEIGHT
  gl,       \* the last mode was set with SDL_OPENGL
  surface,  \* the size of the surface the game was given, NoSize for NULL
  cache,    \* the last call that succeeded, with its surface
  react,    \* the size of the resize the engine is reacting to, or NoSize
  queue,    \* SDL's event queue
  pointer,  \* SDL2's mouse position, in window pixels
  got,      \* the last mouse event delivered: where the game is told it was
  request,  \* history: the last mode asked for, NoRequest once the screen has turned
  drag,     \* history: where the game was told the finger came down, and the
            \* motions it was told since, while mode and screen are the same
  moves,    \* motions of the finger
  sets,     \* modes set by the game of its own accord
  turns     \* rotations so far

videoVars == <<window, found, mode, glmode, gl, surface, cache, request>>
bounds == <<moves, sets, turns>>
vars == <<env, shell, videoVars, react, queue, pointer, got, drag, bounds>>

Origin    == [x |-> 0, y |-> 0]
Event(type, p, rel, s) == [type |-> type, at |-> p, rel |-> rel, size |-> s]
Resize(s) == Event("resize", Origin, Origin, s)

Init ==
  /\ env \in Environments /\ shell \in {Desktop, Turned(Desktop)}
  /\ window = NoSize /\ found = FALSE /\ mode = NoSize /\ glmode = NoSize
  /\ gl = FALSE /\ surface = NoSize /\ cache = NoCall /\ react = NoSize
  /\ queue = <<>>
  /\ pointer = Origin /\ got = Origin
  /\ request = NoRequest /\ drag = NoDrag /\ moves = 0 /\ sets = 0 /\ turns = 0

-----------------------------------------------------------------------------
(* SDL_SetVideoMode.                                                       *)

\* SDL_WebOsHookGetDisplayRect: the live window, else the override, else the panel.
Fallback == IF env.screen # NoSize THEN env.screen ELSE Desktop
DisplayRect == IF window # NoSize /\ found /\ ~env.noWindow THEN window ELSE Fallback

Native(r) == IF r.w <= 0 \/ r.h <= 0 THEN DisplayRect ELSE r

\* Mutant: an oversized mode is passed on.
Clamped_Not(r) == r

\* Mutant: a mode that is too small is stretched to the screen as well.
Clamped_Grown(r) == IF env.noClamp THEN r ELSE DisplayRect

Clamped(r) ==
  IF ~env.noClamp /\ (r.w > DisplayRect.w \/ r.h > DisplayRect.h) THEN DisplayRect ELSE r

\* A mode smaller than the screen is set fullscreen.
Undersized(m) == ~env.noUpscale /\ (m.w < DisplayRect.w \/ m.h < DisplayRect.h)

\* sdl12-compat (external): a mode larger than the screen on both views of it
\* fails; a window comes up, and may or may not report a resize.
Works(m) == \E s \in {Desktop, shell} : m.w <= s.w /\ m.h <= s.h

Create(size, g) ==
  /\ window' = size /\ gl' = g
  /\ found' \in IF g THEN {TRUE} ELSE BOOLEAN
  /\ \/ queue' = queue
     \/ Len(queue) < QueueCap /\ queue' = Append(queue, Resize(size))

\* Mutant: an identical call rebuilds the window all the same.
Real_Uncached(m, g, full) ==
  IF Works(m)
  THEN /\ Create(IF full THEN shell ELSE m, g)
       /\ surface' = m /\ cache' = [size |-> m, gl |-> g, full |-> full]
  ELSE surface' = NoSize /\ UNCHANGED <<window, found, gl, queue, cache>>

\* The real SDL_SetVideoMode, or the surface of an identical call before it.
Real(m, g, full) ==
  LET call == [size |-> m, gl |-> g, full |-> full]
  IN CASE env.modeCache /\ cache = call ->
            surface' = m /\ UNCHANGED <<window, found, gl, queue, cache>>
       [] ~(env.modeCache /\ cache = call) /\ Works(m) ->
            /\ Create(IF full THEN shell ELSE m, g)
            /\ surface' = m /\ cache' = call
       [] OTHER -> surface' = NoSize /\ UNCHANGED <<window, found, gl, queue, cache>>

\* Mutant: the GLES shim is told of the first mode only.
SetVideoMode_PublishOnce(req, g, full) ==
  LET m == Clamped(Native(req))
  IN /\ mode' = m
     /\ glmode' = IF g /\ glmode = NoSize THEN m ELSE glmode
     /\ Real(m, g, full \/ Undersized(m))
     /\ request' = [size |-> req, gl |-> g] /\ drag' = NoDrag
     /\ UNCHANGED <<env, shell, pointer, got, moves, turns>>

SetVideoMode(req, g, full) ==
  LET m == Clamped(Native(req))
  IN /\ mode' = m
     /\ glmode' = IF g THEN m ELSE glmode
     /\ Real(m, g, full \/ Undersized(m))
     /\ request' = [size |-> req, gl |-> g] /\ drag' = NoDrag
     /\ UNCHANGED <<env, shell, pointer, got, moves, turns>>

GameSets ==
  /\ react = NoSize /\ sets < MaxSets /\ sets' = sets + 1
  /\ \E r \in Requests, g, full \in BOOLEAN : SetVideoMode(r, g, full)
  /\ UNCHANGED react

EngineReacts ==
  /\ react # NoSize /\ react' = NoSize
  /\ \E full \in BOOLEAN : SetVideoMode(react, gl, full)
  /\ UNCHANGED sets

-----------------------------------------------------------------------------
(* Touches.                                                                *)

Within(v, extent) ==
  CASE v < 0 -> 0 [] v > extent - 1 -> extent - 1 [] OTHER -> v

\* Mutant: both axes are scaled by the factor of the first.
Scaled_Uniform(p) == [x |-> Within((p.x * mode.w) \div DisplayRect.w, mode.w),
                      y |-> Within((p.y * mode.w) \div DisplayRect.w, mode.h)]

\* scale_mouse: a window position in the game's coordinates, axis by axis.
Scaled(p) == [x |-> Within((p.x * mode.w) \div DisplayRect.w, mode.w),
              y |-> Within((p.y * mode.h) \div DisplayRect.h, mode.h)]

Scaling == ~env.noInput /\ mode # NoSize /\ DisplayRect # mode

\* sdl12-compat (external): the window position clamped to the surface.
Raw(p) == [x |-> IF p.x > surface.w THEN surface.w ELSE p.x,
           y |-> IF p.y > surface.h THEN surface.h ELSE p.y]

\* SDL_GetMouseState.
MouseState == IF Scaling THEN Scaled(pointer) ELSE Raw(pointer)

\* Mutant: events keep the position sdl12-compat gave them.
Told_Raw(ev) == Raw(ev.at)

\* fix_event_coords: the pointer SDL2 has now, not the event's own position.
Told(ev) == IF Scaling THEN Scaled(pointer) ELSE Raw(ev.at)

\* Mutant: the motion is left in window pixels.
Moved_Raw(ev) == ev.rel

Share(v, extent, screen) ==
  IF v >= 0 THEN (v * extent) \div screen ELSE -((-v * extent) \div screen)

\* fix_event_coords: xrel and yrel, scaled like the position and truncated.
Moved(ev) == IF Scaling THEN [x |-> Share(ev.rel.x, mode.w, DisplayRect.w),
                              y |-> Share(ev.rel.y, mode.h, DisplayRect.h)]
                        ELSE ev.rel

-----------------------------------------------------------------------------
(* Events.                                                                 *)

Dropped(ev) == ev.type = "resize" /\ ~env.allowResize

\* SDL_PollEvent and SDL_WaitEvent: pop until an event that is not dropped.
Deliverable == {i \in DOMAIN queue : ~Dropped(queue[i])}

\* History: a drag is followed from a touch the game reads before the finger moves.
OnScreen == pointer.x < DisplayRect.w /\ pointer.y < DisplayRect.h
Moving(q) == \E i \in DOMAIN q : q[i].type = "motion"

Deliver(ev) ==
  /\ react' \in IF ev.type = "resize" THEN {NoSize, ev.size} ELSE {NoSize}   \* the game's
  /\ got' = IF ev.type = "resize" THEN got ELSE Told(ev)
  /\ drag' = CASE ev.type = "tap" /\ Scaling /\ OnScreen /\ ~Moving(queue') ->
                    [NoDrag EXCEPT !.on = TRUE, !.from = Told(ev)]
               [] ev.type = "tap" /\ ~(Scaling /\ OnScreen /\ ~Moving(queue')) -> NoDrag
               [] ev.type = "motion" /\ drag.on ->
                    [drag EXCEPT !.n = @ + 1, !.sum = [x |-> @.x + Moved(ev).x,
                                                      y |-> @.y + Moved(ev).y]]
               [] OTHER -> drag

PollEvent ==
  /\ react = NoSize /\ queue # <<>>
  /\ IF Deliverable = {}
     THEN queue' = <<>> /\ UNCHANGED <<react, got, drag>>
     ELSE LET n == CHOOSE i \in Deliverable : \A j \in Deliverable : i <= j
          IN queue' = SubSeq(queue, n + 1, Len(queue)) /\ Deliver(queue[n])
  /\ UNCHANGED <<env, shell, videoVars, pointer, bounds>>

-----------------------------------------------------------------------------
(* The user and the compositor (external).                                 *)

\* SDL2's pointer is at p; a window under it has mouse focus.
PointTo(p, type) ==
  /\ window # NoSize /\ Len(queue) < QueueCap /\ p.x < window.w /\ p.y < window.h
  /\ pointer' = p
  /\ LET rel == [x |-> p.x - pointer.x, y |-> p.y - pointer.y]
     IN queue' = Append(queue, Event(type, p, IF type = "motion" THEN rel ELSE Origin, NoSize))
  /\ found' = TRUE /\ drag' = IF found THEN drag ELSE NoDrag
  /\ UNCHANGED <<env, shell, window, mode, glmode, gl, surface, cache, request, react, got,
                 sets, turns>>

Touch == \E p \in Points : PointTo(p, "tap") /\ UNCHANGED moves

Move == /\ moves < MaxMoves /\ moves' = moves + 1
        /\ \E p \in Points \ {pointer} : PointTo(p, "motion")

\* The shell swaps its logical size and reconfigures every window to it.
Rotate ==
  /\ turns < MaxTurns /\ turns' = turns + 1
  /\ shell' = Turned(shell)
  /\ window' = IF window = NoSize THEN NoSize ELSE Turned(shell)
  /\ \/ queue' = queue
     \/ /\ window # NoSize /\ Len(queue) < QueueCap
        /\ queue' = Append(queue, Resize(Turned(shell)))
  /\ request' = NoRequest /\ drag' = NoDrag
  /\ UNCHANGED <<env, found, mode, glmode, gl, surface, cache, react, pointer, got, moves, sets>>

Next == GameSets \/ EngineReacts \/ PollEvent \/ Touch \/ Move \/ Rotate

Spec == Init /\ [][Next]_vars

\* A game reads its events and an engine that reacts to one does react.
FairSpec == Spec /\ WF_vars(PollEvent) /\ WF_vars(EngineReacts)

-----------------------------------------------------------------------------
(* Properties.                                                             *)

\* A game that does not check gets a surface from every SetVideoMode, whatever
\* it asks for, however the screen was turned and whichever view of it the shim
\* had (src/sdl_webos_shim.c:186-189).
SurfaceNotNull == mode # NoSize /\ ~env.noClamp => surface # NoSize

\* The two records of the game's mode agree while it has a GL surface: touches are
\* mapped for the same mode as pixels (src/sdl_webos_shim.c:216-232), although the
\* records are written before SDL is asked.
ModesAgree == gl /\ surface # NoSize => glmode = mode

\* A drag told as relative motion ends where the pointer is told to be, to less
\* than a pixel for each motion, when the game had read the touch before the finger
\* moved (src/sdl_webos_shim.c:353-355): no motion is told in other units than the
\* position, whatever modes and windows came before.  Off the screen the shim believes
\* in, positions are cut at the edge and motions are not.
DragAddsUp ==
  drag.on /\ OnScreen /\ (\A i \in DOMAIN queue : queue[i].type = "resize") =>
    /\ MouseState.x - drag.from.x - drag.sum.x \in -drag.n..drag.n
    /\ MouseState.y - drag.from.y - drag.sum.y \in -drag.n..drag.n

\* A GL engine that sets its mode again and again (src/sdl_webos_shim.c:284-286)
\* keeps it while the screen does not turn, although the first call measures the
\* panel and the later ones the window: when both have one shape, or the size it
\* asks for fits them both.  With PDK_NO_UPSCALE a mode may leave a window smaller
\* than the screen, and the next mode is clamped to that window.
FitsBoth(s) == /\ s.w \in 1..Fallback.w /\ s.h \in 1..Fallback.h
               /\ s.w <= shell.w /\ s.h <= shell.h

ResetIsStable ==
  [][/\ GameSets \/ EngineReacts
     /\ request' = request /\ request.gl /\ ~env.noUpscale
     /\ (shell = Fallback \/ FitsBoth(request.size))
     => mode' = mode]_vars

\* Games that read events and games that poll see the same finger: a tap that is
\* the last one made is told where SDL_GetMouseState says it is, in every mode and
\* after every rotation (src/sdl_webos_shim.c:330-338).
EventsAgreeWithPolling ==
  [][PollEvent /\ got' # got /\ (\A i \in DOMAIN queue' : queue'[i].type = "resize")
       => got' = MouseState]_vars

\* "engines that respond by calling SetVideoMode again end up in a feedback loop"
\* (src/sdl_webos_shim.c:270-273).  Where PDK_ALLOW_RESIZE lets an engine react, and
\* every mode it sets makes the next resize, PDK_MODE_CACHE damps the loop (237-240):
\* a GL engine that comes to ask with the same flags each time stops reacting.
LoopEnds ==
  \A f \in BOOLEAN :
    /\ <>[](env.allowResize => env.modeCache /\ gl)
    /\ <>[][EngineReacts => SetVideoMode(react, gl, f)]_vars
    => <>[](react = NoSize)

=============================================================================
