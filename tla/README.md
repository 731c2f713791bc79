# A verification project for pdk-luneos

pdk-luneos lets 2010-era Palm PDK games run on LuneOS. It is a set of small C
programs and preloaded libraries, and a few scripts. This directory holds TLA+
models of the parts that keep state and are hard to test, the TLC runs that check
them on small instances, and proofs, checked with TLAPS, that most of their safety
properties hold for every value of the constants.
`PROJECT.json` lists components, runs, mutants, the source lines behind every
definition, findings, hazards and theorems.

To check something: `tlc -workers 2 -config PdkHost_session.cfg MCPdkHost`,
`tlapm PdkHostProofs.tla`.

## 1. Inventory of the system

| Part | State it keeps | Operations | Hard behaviour |
| --- | --- | --- | --- |
| `src/pdkhost.c`, the PIpc host that stands in for LunaSysMgr | `g_client`, `g_window`, `g_w`/`g_h`, the accepted socket, the listening socket's backlog, the control FIFO's descriptor | accept, hello, select loop, frame reader, `on_message`, `handle_control_line`, blocking `send_all` | one thread for accept, reading, sending and the FIFO; apps that die anywhere; state that outlives a session |
| control FIFO of the host | kernel buffer, open ends, the host's descriptor | shells open/write/close; host reads 255 bytes, closes and reopens on end of file | a writer that comes between two system calls of the host |
| `src/gles_oes_shim.c`: viewport, scissor, clear | `scale_ready`, `gl_sx/sy/ox/oy`, `frames`, `last_dw/dh`; GL's viewport and scissor | `glViewport`, `glScissor`, `glClear` | lazily computed, cached factors; rotation of the drawable; framebuffer objects; truncation |
| `src/gles_oes_shim.c`: forwarded OES names | one cached pointer per function | `FWD` wrappers | none |
| `src/sdl_webos_shim.c`: modes, events, touches | `pdkshim_mode_w/h`, `PDK_GL_MODE_*`, the mode cache | `SDL_SetVideoMode`, `SDL_PollEvent`/`WaitEvent`, `SDL_GetMouseState`, the display rectangle and its overrides | the answer to "how big is the screen" changes while the game runs; queued events meet present state |
| `src/sdl_webos_shim.c`: virtual joystick | `v` of `vjoy_active`, `s_vjoy_opened` | joystick wrappers | a decision made once, hot plugging |
| `src/sdl_webos_shim.c`: hooks, callbacks, haptics | flags nothing reads | setters, constant answers | none |
| `src/libpdl.c` | `s_initialised`, `s_appid`, `s_apppath`, cached preferences | lookups with truncation, `luna-send` calls in the background | an unchecked read that is kept; substring lookups; success reported before anything is known |
| `src/sdl_cinema_stub.c`, `src/egltest.c`, `src/msgnames.h` | none | constants, a probe, a table | none |
| `src/crashcatch.c` | five one-shot signal handlers | reports a fault and exits with 128 + the signal | faults in the handler and in other threads; allocation inside it |
| `tools/pdk-run` | the environment of the game | chooses loader, libraries and GL stack | which fallback is reached |
| `tools/install-games.sh` | files on the device | pack, upload, remove, unpack, restart | a connection lost between two remote steps; local steps whose status nobody reads |
| `tools/resolve-deps.py` | the sysroot | adds packages until a loader is content | termination of the loop |
| `tools/mk-*.sh`, `tools/DecompileAll.java`, Makefile, `yocto/` | build products | builds | none modelled |

How they meet: `pdk-run` sets the environment and starts the game; in the game's
process the SDL shim publishes the mode in `PDK_GL_MODE_*`, which the GLES shim
reads; `libpdl` calls the SDL shim's hooks. The host is another process and talks
to the game (its libnapp, which is not in the repository) over a stream socket
and to an operator's shell over the FIFO.

What makes each part correct: the *host* must not let one app's session show in
the next, must answer every SYNC call once, must stay in step with the frames and
must come back for the next app; the *FIFO* must stay usable and never reorder, repeat or
splice lines; the *GLES shim* must map panes inside the drawable and apart, and
must follow the drawable; the *SDL shim* must hand back a surface, keep the two
records of the mode equal and tell touches and drags in the game's coordinates; *both
together* must put a finger on what is drawn under it; the *crash handler* must end the
process with a report that is true; the
*joystick* must never give SDL a handle SDL did not make. The hazards in
`PROJECT.json` name the line where each can go wrong.

## 2. The modules

```
PipcService  <== refined by ==  PdkHostService -- extends --> PdkHost
ControlFifo      (the FIFO below PdkHost's queue of lines)
SdlShim <-- extends -- Display -- INSTANCE --> GlesShim
                 (both shims in one game; alone, GlesShim has PublishMode for SdlShim)
VirtualJoystick
Crashcatch
LibPdl           (the application directory it keeps is what an installer rewrites)
InstallGames

Proofs (TLAPS), each extending the module it is named for, or the one that extends that:
PdkHostProofs    (of PdkHost and of PdkHostService)
SdlShimProofs    (of SdlShim and of Display)
ControlFifoProofs  GlesShimProofs  VirtualJoystickProofs
CrashcatchProofs   LibPdlProofs    InstallGamesProofs

MC*              (instances for TLC)
```

Definitions named `Op_Something` next to `Op` are mutants: the operator with a
plausible bug. The property each must break is in `PROJECT.json`.

### PdkHost

One action per step the host's single thread can be seen to make: `Accept`,
`ReadHello`/`HelloLost`, `Select` (with the `read()` of the FIFO), `HandleLine` / `Quit`,
`ControlDone` (the `FD_ISSET` test), `ReadLength`/`BadLength`, `ReadBody` (all of
`on_message`), `EndOfStream` (all of `close` and the resets), `SendOne` (one `send_all`),
`SigPipe` and `SendFails` (a send that was blocked when the app died may report an error and
raise nothing) and `SelectFails`. A handler computes the list `todo` of the messages it will
send; nothing else of the host runs until the list is out, as in the code, where `send`
blocks. Apps are external: a launch connects once, writes its hello, frames (with lengths
the host accepts or rejects), blocks in a SYNC call until the reply, and may die in any
state.

Abstractions. Window keys are labelled by the app that owns them and sizes by who
chose them. The byte stream is cut at what one `read_full()` returns: partial
reads inside a unit have no effect but delay. Message types that `on_message`
does not handle are one kind, "other". A frame with the SYNC and the REPLY bit, to which
the host does not reply, is a frame without a call id. The FIFO is a queue of
whole lines. `g_client` is written to by nobody else, so it and the `cfd` in
`main` are one variable.

### PipcService and PdkHostService

`PipcService` is what the host promises: apps are served one at a time in the
order they connected, and a SYNC call is answered only by the host while it serves
the caller, only while the call is pending. `PdkHostService` gives the refinement
mapping (a call is *pending* once the frame is written and *answered* once the
reply is in the app's receive buffer) and `ImplementsService`.

### ControlFifo

The FIFO in units smaller than a line. The kernel's rules are external: an open
for writing blocks until there is a reader, a write with no reader fails, the
buffer dies with the last open end, and a reader sees end of file only when a
writer has come and gone. The host reads at most `Chunk` units, hands each token
of the chunk to the handler, and on end of file closes and opens again in two
steps, between which a shell may do anything. The last unit of a line is its newline, which
only separates tokens, as for `strtok_r`: a chunk that ends just before it has the whole
command, and one that begins with it no token more; a chunk that ends in the text gives
two fragments, both of which are handed on. `handled` keeps the units of each token.

### GlesShim

The factors are kept as what they were computed from: a mode and a drawable. The
rectangle a wrapper passes on is a function of these, computed with exact
rationals and truncated as the cast does. The code computes in doubles; where the
exact offset is a whole number the double can fall below it (1024x768 on
1280x800 is such a case) and the cast then gives the pixel before. This is outside
the model and listed as a hazard. `Environments` gives the combinations of
`PDK_NO_GL_SCALE`, `PDK_GL_STRETCH` and of games that use framebuffer objects.
When `drawable = NoSize` no context is current and GL calls do nothing. `frames` is
kept modulo the period.

### SdlShim

`SDL_SetVideoMode` with its resolution of empty requests, clamp, promotion to
fullscreen, the two records of the mode and the mode cache; the display rectangle
(the live window if one is found, else `PDK_SCREEN_*`, else the panel); the event loop
that drops resizes; and the rewriting of event positions and of the relative motion of
a drag, each truncated as the cast does. External: whether SDL accepts a mode (it does
when the mode fits the panel or the turned panel), the size of the window it makes,
whether a resize event follows, and the position sdl12-compat gives an event.
`request` and `drag` are history: the last mode asked for since the screen last turned,
and a drag the game has followed from its touch in one mode and on one screen. An
override of the screen's size (`PDK_SCREEN_*`) has an extent or is not set; one that
`atoi` reads as zero or less, which turns the clamp off, is left out.

### Display

The title's process: `SdlShim` extended by an instance of `GlesShim` whose `mode` is
the published one and whose drawable is the title's window. A step is a step of one
of them; a window made anew also brings a context with its first viewport (`NewContext`,
external) while the GLES shim's static variables stay. Framebuffer objects, scissors
and motions are left to the modules alone. `Shown` says where a point of the game's
screen is drawn and `ToldAt` where it is told to be touched: they are computed by
different code from different state, and the properties compare them.

### VirtualJoystick

The decision of `vjoy_active` at the first call of any wrapper, opens, uses and
closes, while joysticks are plugged and unplugged.

### LibPdl

Two things a game can see drift apart while it runs: the preferences (a static copy of the
file, made at the first lookup that can open it) and the application directory (kept once
found). The result of `fread` is not looked at, so a first read gives all the rows or any
first part of them, down to none (`Reads`), the last one possibly cut in its value or in its
key (`Cuts`), and what it gave is kept for the life of the process; only a file that cannot
be opened, is empty or is too large is tried again. A key is found wherever its text is, so
`country` is found in a `countryCode` that comes first, and the answer is then the rest of
that key. A buffer of the caller that is too small, or none, gets an error and no answer, but
the lookup has been made. A call is one step: a file that can first be opened between the two
lookups of one call is left out.

The requests are left out. Each formats one command line and hands it to a shell that runs
`luna-send` in the background; the library keeps nothing of it and reads nothing back, so
there is no state to relate. What one can come to is in the list at the end of section 3.

### InstallGames

The loop as the script runs it, and next to it the chains of commands that run on
the target. A connection can be lost in every remote step. When it is lost while the
script waits for a chain, the chain becomes a *stray*: it goes on, or is killed, while
the script pushes the next package to the same `/tmp/app.tgz`. Locally the script looks at
neither the status of `tar` nor that of `python3`, so a tree may be *flawed* when it is packed
(`made`): of a torn package it always is, of any other when the local disk fails. A flawed
tree is pushed, installed and reported like a whole one. A directory on the target is absent,
part, or all of a tree that was whole or flawed; a part takes half its size. A package may
grow to more than the script's estimate. `MaxLost` bounds lost connections and failures of
the local disk together. The script and the app manager are
left alone otherwise: no other program fills the target's disk. One application per
package: two packages of one application are left out, and so is an empty list (with which
the loop has no body to run).

### Crashcatch

The handlers still armed, per thread a stack of handlers that are running, and what
they have written. `Fault` is a signal a thread raises, in the game or in a handler: an
armed one runs its handler and disarms it, any other kills the process. A report is
written in three parts; between the first and the second `backtrace()` takes the
allocator's lock (`Loads`), which is not recursive. dladdr's lock is recursive and
therefore left out, as are the text, writes that fail and a stack that has run out, on which no
handler can start (there is no alternate stack).

## 3. What is checked

All runs finish within about three minutes on two cores. `CHECK_DEADLOCK FALSE` is set
where the system may stop: the host exits on `quit`, apps end, and a game makes a
bounded number of calls.

| Run | Shows | Bounds |
| --- | --- | --- |
| `host_session` | types; the host's place in `main` agrees with its session (`SessionConsistent`); nothing routed to another app's window (`RoutingIsOwn`); a reply answers an outstanding call, once (`ReplyIsAwaited`); framing in step (`FramingInSync`); press/release and resize/focus pairs stay adjacent (`PairsIntact`); refinement of `PipcService` | two apps with a window each, two frames and one, one control line (`key` or `quit`), receive buffer of 2 |
| `host_live` | a SYNC call of the app in service is answered (`SyncServed`); if apps end some day, a queued connection is accepted (`NextClientServed`) | two apps, a frame each, one line out of `key`, `unfocus` (which is sent as `focus` is), `resize` and `touch` (which sends nothing), receive buffer of 1, so every second send of a handler blocks |
| `fifo` | what is handed on is in order and nothing twice (`HandledInOrder`), no command is made of two lines or of pieces that were apart (`TokensOfOneLine`), a waiting shell is let in (`FifoStaysUsable`), and, while the host keeps coming back to `select`, only lines in the FIFO between a `read()` of 0 and the reopen can be lost (`UnracedLinesHandled`) | three shells, lines of two units and a newline, a chunk of four, so that lines are cut in the text and just before the newline |
| `gles` | panes stay on the drawable (`MapsInside`) and apart (`PanesStayApart`), the opt-out holds (`OptOutHolds`), a title without viewports ends on the whole drawable (`PanelCovered`), after one turn the factors are those of the drawable there is (`SettledFactors`), and a decision not to scale, whoever made it, is not kept where there is something to gain (`DecisionIsSound`) | three modes, four drawables, either axis tight, factors that are not whole; a check every second clear; one rotation or mode change |
| `sdl` | a surface from every call (`SurfaceNotNull`), equal records of the mode (`ModesAgree`), the motions of a drag add up to the way the pointer is told to have gone (`DragAddsUp`), an engine that sets its mode again keeps it, without `PDK_NO_UPSCALE` (`ResetIsStable`), events and polling agree on the last tap (`EventsAgreeWithPolling`), where resizes reach a GL engine that sets its mode on each, the mode cache ends the loop (`LoopEnds`) | four requests (native, small, turned, too large), two points, two motions, two events queued, two modes, one rotation, five environments |
| `display` | with the viewport on the whole window a finger is told what is drawn under it, to a pixel of the coarser grid (`FingerMeetsPicture`); a title that stops setting viewports gets there and stays (`PictureSettles`); the factors of a title with one mode are that mode's (`FactorsFollowMode`) | a mode that fits and one that is clamped, one viewport, two modes, one rotation, a check every second clear, three environments |
| `vjoy` | a handle returns to the side that made it (`HandleGoesHome`), closed means closed (`OpenedIsHeld`) | two joysticks, four plugs, three handles |
| `libpdl` | one directory in all paths (`OneHome`), defaults end when the file can be opened (`DefaultsGiveWay`), an answer from the file never changes, and another at most once (`AnswersSettle`) | four databases, one of them without rows, read whole or in any part, buffers with room and without, two directories, two rewrites |
| `install` | reported OK means there as it was packed (`OkIsAsPacked`), the reserve is kept as far as the estimates hold (`ReserveKept`), reruns repair and end in the launcher (`RerunsRepair`) | a package of every fate: torn, one that fits, one that fits if the first failed and then outgrows its estimate, an empty one, one whose directory does not fit; two lost connections or failures of the local disk, any number of reruns |
| `crash` | the status of a process that exits names a signal with one report, whole and by one thread (`StatusHasItsReport`); a fault ends the process unless a thread raised a signal inside the allocator (`FaultEndsProcess`) | two threads, three signals, four faults: one signal is raised twice |

Why the bounds are enough: what the host can leak needs a first and a second
session and one message of each; the FIFO's race needs a shell to leave and one to
come; a cached factor goes stale with one rotation; two events are what it takes
for one to be read late; a report is cut by one other thread or one fault in it. Larger
values repeat these cases, except where the proofs said otherwise (section 4). For every
safety property of a passing run the proofs below remove the bounds.

Fairness. The host is one thread that is scheduled, so some step of it that stays possible
is taken (weak fairness of `HostStep`). An app that lives reads its socket (libnapp has a
reader), ends the hello and the frame it has begun, and notices the end of its stream.
`NextClientServed` adds, as its own hypothesis `AppsLeave`, that apps end: without it the
claim is false, see below. `SelectFails` is not a step of `HostStep`: nothing says that it
comes. The FIFO needs strong fairness of its reads: whenever the host is in `select` it
looks at the FIFO first. That it comes back there is not assumed, as `accept()` and the
reads of a hello or a frame may block for ever; it is the hypothesis of
`UnracedLinesHandled`. A game clears the screen again and again (`glClear`), makes its
context current, and reads its events; it asks for its locale again and again. In `Display`
a title draws, reads its events and sets the mode when it reacts to one. A thread that
crashes runs its handler on, and one that allocates leaves the allocator; a handler that
waits for the lock gets it in the end. The installer's script and the chain it waits for run
on, and its user starts it again and again; connections are lost finitely often.

### Where the code and its comments disagree

Two runs expect a violation, and each is a finding:

* `host_sigpipe`: a send to an app that has died raises SIGPIPE and ends the host,
  though the code prepares to report the error and serve the next client. The
  shortest way: the app dies after a SYNC frame.
* `gles_scissor`: the comment above the factors says scissors follow the viewport's
  per-axis mapping exactly and not a uniform scale with letterbox offsets. That is what
  the code computes, while the viewport is on the whole drawable: the one the context came up
  with, as in the run's trace, or the one `glClear` sets.

Met while modelling, and not given a run: the check in `glClear` makes a letterboxed
viewport as large as the drawable, so a title that sets its viewport once is stretched from
the next check on; while a letterboxed viewport is in force touches are still mapped per
axis, so a finger misses what it points at (hence the hypothesis of `FingerMeetsPicture`);
factors computed from a drawable that comes back between two checks stay in force (hence the
single turn of `SettledFactors`); a second mode in a window of the same size leaves the
factors of the first (hence the single mode of `FactorsFollowMode`); two taps in the queue
are both told at the second one's place; motions of less than a game pixel are told as none,
so a slow drag does not move; in a turned shell a mode that fits only the panel, or a native
request made before there is a window, is another mode when it is set again (hence the
hypothesis of `ResetIsStable`); a thread that crashes inside the allocator hangs in its
report; of two threads that crash at once with one signal, the second ends the process and
cuts the report of the first; before there is a window the screen is the panel, which does
not turn, so a game started in a landscape shell has its landscape mode clamped; `g_w`/`g_h`
survive a session, so an app that adds a window without preparing one is told the last app's
size; keys go to the window prepared last even if another has the focus; `touch` is
documented and not implemented; a `quit` written while no app is served waits for one; an
app in the backlog is blocked in its SYNC call until the one before it ends; a line written
between a `read()` of 0 and the `close()` is lost, and one whose text lies across the end of
a read is handled as two; a scissor before the first viewport of a title without a mode
turns scaling off until a check sees another drawable; the clear check is skipped, not
postponed, under a framebuffer object; `SDL_GetMultiMouseState` is not scaled; a joystick
plugged after the first joystick call is never used, and one unplugged after it leaves
device 0 NULL; with `PDK_NO_UPSCALE` a mode is clamped to the window of the mode before, so
it can never grow past it, and a game that asks for a small mode, then twice for a larger
one, may be given two different modes (hence the other hypothesis of `ResetIsStable`); with
an override of the screen that is larger than the panel, as `pdk-run` sets 1024x768 when it
cannot read the panel's mode, the clamp may let through a mode SDL refuses; with
`PDK_ALLOW_RESIZE` and without the mode cache, or for an engine without GL, whose window the
shim may or may not find, the reaction to resizes need not end (hence the hypotheses of
`LoopEnds`). In libpdl: what a short or failed first read of the preferences gave is kept
for ever, so a file that has been opened before its rows are written leaves the game with
the defaults; a request is reported as done once a shell has started, though the header of
the file promises `PDL_NOTIMPLEMENTED` for services that are not there, and
`PDL_NotifyMusicPlaying` reports success even without `luna-send`; an apostrophe in an
address, a subject or a payload ends the quoting of the shell's command line, which is then
refused or run in part; two requests may arrive in either order; `PDL_LaunchBrowser` with a
long address sends cut JSON and reports success; `country` is found inside `countryCode`; a
service callback is never called. In the installer: a torn package, a full local disk or an
`appinfo.json` that cannot be rewritten goes unnoticed, and what is left of the application
is installed over a good one and reported OK; what a package takes above the estimate of
line 95 comes out of the reserve, before which line 27 promises to stop; when `df` gets no
answer the comparison fails and the package is installed past the reserve; an archive left
in `/tmp` by a failed push is removed only by a later success, and if it fills the disk
every package is skipped from then on; a rerun needs the room of a first installation, so a
broken application on a nearly full target is skipped instead of repaired; a stray that is
still running at a rerun can remove an application after it was reported OK; a restart of
the app manager that fails is not reported.

## 4. What is proved

Each theorem holds for all values of the constants that satisfy the module's `ASSUME`
(TLC evaluates it on the run's instance). Each module of proofs has an inductive
invariant `IInv`, a lemma per action or per part of it, `Invariance` (`Spec => []IInv`),
and the properties as consequences.

| Module | Theorems: property | The inductive invariant, and why it is needed |
| --- | --- | --- |
| `PdkHostProofs` | `TypeCorrect`: `TypeOK`; `SessionCorrect`: `SessionConsistent`; `RoutingCorrect`: `RoutingIsOwn` | `SessionOwnership` besides the types: all that is in `todo`, in the stream and in an app's buffer names the app's own windows, and `g_window` is none whenever there is no client or the hello is not read. That is needed for `HelloLost`, the one end of a session that does not reset `g_window` and need not. |
| `PdkHostProofs`, what travels | `FramingCorrect`: `FramingInSync`; `RepliesCorrect`: `ReplyIsAwaited`; `PairsCorrect`: `PairsIntact`; `HostImplementsService`: `ImplementsService` | `JInv`, about what travels: an app in the backlog is there once and has been sent nothing; a stream is a sequence of frames, cut where `main` says it is; a SYNC call is in one place at most (a frame in the stream, a reply in `todo`, or a reply in the buffer), under the id the app waits for; pairs are whole. The refinement is a step simulation: one step of `PipcService` or a stutter per action of the host. |
| `GlesShimProofs` | `InsideCorrect`: `MapsInside`; `ApartCorrect`: `PanesStayApart`; `OptOutCorrect`: `OptOutHolds` | The factors in force are of a mode and a drawable that have an extent; none are with `PDK_NO_GL_SCALE`. The rest is arithmetic: truncation is monotone and loses less than a pixel, for factors of either axis. |
| `SdlShimProofs` | `SurfaceCorrect`: `SurfaceNotNull`; `ModesCorrect`: `ModesAgree`; `DragCorrect`: `DragAddsUp`; `PollingCorrect`: `EventsAgreeWithPolling`; `ResetCorrect`: `ResetIsStable` | Windows fit the screen and are the screen unless a small mode left a small one; the cached call is the one the window was made by; a mode that is kept is what the clamp gives again. The queue is *linked*: each motion starts where the event before it ends and the last ends at the pointer, and a followed drag is told to the pixel per motion up to where the queue starts. |
| `SdlShimProofs`, both shims | `TouchCorrect`: `FingerMeetsPicture`; `IsSdlShim`, `MatchedAlways` | `DisplaySpec` implements the `Spec` of `SdlShim`, so its invariant holds of the two shims together; added is `Matched`: the surface has the mode's size, and a GL title has a window and it is found. Then scaling down and up again is off by less than a pixel of the coarser grid. |
| `ControlFifoProofs` | `LinesInOrder`: `HandledInOrder`; `TokensCorrect`: `TokensOfOneLine`; `LinesHandledOnce`, `NothingElseIsLost` | What has been handed on is in order only if what is still in the buffer is: units lie in the order they were written (`BufferInOrder`), everything there comes after everything handed on (`HandledFirst`), and a shell writes once (`WritesOnce`). `TokensCorrect` needs one more: the parts of a line follow each other in the buffer (`BufferIsLines`), so that a run of units without a newline is of one line. `NothingElseIsLost` is the safety half of `UnracedLinesHandled`: but for the time between the `read()` of 0 and the reopen, a unit that is no newline leaves the buffer only by being handed on. |
| `CrashcatchProofs` | `StatusIsReported`: `StatusHasItsReport`; `NoSecondReport` | A handler is taken away when its signal is delivered, so a signal is on one stack, once (`HandledOnce`), and stderr holds of it the parts its handler has come to, in order and by that thread, wherever it was interrupted (`HandlersReport`). |
| `VirtualJoystickProofs` | `OpenedCorrect`: `OpenedIsHeld`; `HandlesCorrect`: `HandleGoesHome` | `DecisionBinds`: a game holds handles only of the side that the first call decided for. |
| `LibPdlProofs` | `AnswersCorrect`: `AnswersSettle`; `PathsCorrect`: `OneHome` | What was told is what the static copies answer: `ToldIsKept`, `PathIsKept`. |
| `InstallGamesProofs` | `TypeCorrect`: `TypeOK`; `OkCorrect`: `OkIsAsPacked`; `ReserveCorrect`: `ReserveKept` | Nothing is reported yet of packages to come; the chain the script waits for works on the script's package and on the tree that was packed; from the push on the archive in `/tmp` is that package's, with that tree, or gone; what is removed under the chain a stray has removed. For the reserve: while every reading was good, at most one chain runs, and the room the check promised is there without its directory; each directory counts as no more than its estimate, so nothing is assumed of how far a package really grows. |

Hypotheses beyond the constants' assumptions. `SurfaceCorrect` assumes `OverridesFit`: an
override of the screen's size is no larger than the panel. The code does not ensure it
(see the list above); the instance of the `sdl` run satisfies it. `ReserveCorrect` assumes
`MinFree <= Disk`: the target has the reserve before anything is installed, which the
script does not check either. `DragCorrect` and the others need no more than the
constants' assumptions.

Induction over data. The library's induction theorems are about operators and cannot be used
by the installed provers. Where a sum or a search needs induction, the proofs use a set
instead: a set of numbers that is not empty has a least element (`LeastOf` in
`SdlShimProofs`; `AllNumbers` in `InstallGamesProofs` and `ControlFifoProofs`, from
`WFMin`), hence `AllSubsets` for subsets of a finite set, hence `SumExists` (the fold
`MapThenSumSet` has a value), `SumType` and `SumChange` (one directory changes the sum by as
much). That is how `ReserveKept` holds for any number of packages.

What the proofs changed. `ResetIsStable` was once stated without its `PDK_NO_UPSCALE`
hypothesis, and the `sdl` run, with two modes, agreed. The proof did not go through, and
TLC with three modes (2x3, then 3x4 twice) gave the counterexample described in
section 3; three modes take too long for the run itself. `InstallAssumption` now
says that the list has no package twice: `OkIsAsPacked` fails of a package that is
installed a second time after its OK. The prover has no definition of `SelectSeq` or of
sorting: the tokens of a chunk are now numbered by their rank among the cuts (`Nth`, whose
order `NthInOrder` proves by counting), `HandledInOrder` compares positions of `handled`
and `StatusHasItsReport` asks for the three positions of the report (`OneReport`). The
behaviours are the same, the properties no weaker, and the mutants still break them.

Only model-checked:

* every liveness property: `SyncServed`, `NextClientServed`, `FifoStaysUsable`,
  `UnracedLinesHandled`, `PanelCovered`, `SettledFactors`, `DecisionIsSound`, `LoopEnds`,
  `PictureSettles`, `FactorsFollowMode`, `DefaultsGiveWay`, `RerunsRepair`,
  `FaultEndsProcess`. They rest on fairness, which the prover cannot reason about
  (`ENABLED`). Of one of them the part that is a safety property is proved
  (`NothingElseIsLost`);
* the two findings.

## 5. Not modelled

Build files, the Yocto layer and the sysroot builders (no behaviour of the program);
constant stubs (haptics, cinema); the forwarding wrappers; the probe and the name table; in
libpdl the requests, which keep nothing (section 2), the constants, the forwarding to SDL
hooks and the text of the last error, which no call reads back into a decision; in the SDL
shim the peek `SDL_PollEvent(NULL)` and the multi-mouse calls, which pass SDL's position on.
`pdk-run` chooses once, from paths on the device, and keeps no state; the resolver is a loop
of sixty rounds over the network whose end is its counter. Whether host and app can block in
`send` against each other depends on libnapp's writes, which are not in the repository.

## 6. Plan

Order: the host first, since every app depends on it; then the two shims, where
state is cached across calls; then the parts below.

1. *Extended*: the parts named above are modelled. What is left out keeps no state or
   depends on code outside the repository.
2. *Proved*: every safety property of the passing runs: those of the host and its
   refinement of `PipcService`, of the FIFO, of both shims and the two together, of the
   joystick, the crash handler, libpdl and the installer.
3. *Left*: the liveness properties, whose fairness the prover cannot reason about. Their safety
   halves could be proved as was done for the FIFO, first for the
   host: that a host which waits has nobody it could serve.
