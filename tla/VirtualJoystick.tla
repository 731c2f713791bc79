-------------------------- MODULE VirtualJoystick --------------------------
(***************************************************************************)
(* src/sdl_webos_shim.c: the joystick wrappers.  When SDL has no joystick  *)
(* at the first call of any of them, the shim presents one of its own, the *)
(* level accelerometer, from then on; otherwise it passes everything on.   *)
(* All virtual opens return the one handle s_vjoy_handle.                  *)
(*                                                                         *)
(* External: SDL's joysticks, plugged and unplugged while a game runs, and *)
(* the game, which uses and closes the handles it was given.               *)
(***************************************************************************)
EXTENDS Integers

CONSTANTS
  MaxReal,   \* bound: joysticks plugged at once
  MaxPlugs,  \* bound: joysticks plugged or unplugged
  MaxHeld,   \* bound: handles the game holds
  NoVjoy     \* PDK_NO_VJOY is set

ASSUME JoystickAssumption ==
  MaxReal \in Nat /\ MaxPlugs \in Nat /\ MaxHeld \in Nat \ {0} /\ NoVjoy \in BOOLEAN

Handles == {"virtual", "real"}
NoCall  == [fn |-> "none", handle |-> "null", by |-> "sdl", index |-> 0]

VARIABLES
  present,  \* SDL's joysticks
  v,        \* vjoy_active()'s v: -1 before the first call
  opened,   \* s_vjoy_opened
  held,     \* handles the game was given and has not closed
  call,     \* the last wrapper called, with its handle and who answered
  plugs     \* joysticks plugged or unplugged so far

vars == <<present, v, opened, held, call, plugs>>

Init ==
  /\ present \in 0..MaxReal /\ v = -1 /\ opened = FALSE
  /\ held = [h \in Handles |-> 0] /\ call = NoCall /\ plugs = 0

-----------------------------------------------------------------------------
\* Mutant: asked again at every call.
Active_Live == IF NoVjoy \/ present > 0 THEN 0 ELSE 1

\* vjoy_active(): decided at the first call.
Active == IF v # -1 THEN v ELSE IF NoVjoy \/ present > 0 THEN 0 ELSE 1

\* is_vjoy: the answer to a handle comes from the shim.
IsVjoy(h) == Active = 1 /\ h = "virtual"

AnsweredBy(h) == IF IsVjoy(h) THEN "shim" ELSE "sdl"

SDL_NumJoysticks ==
  /\ v' = Active
  /\ call' = [fn |-> "num", handle |-> "null",
              by |-> IF Active = 1 THEN "shim" ELSE "sdl",
              index |-> IF Active = 1 THEN 1 ELSE present]
  /\ UNCHANGED <<present, opened, held, plugs>>

\* What an open returns: the virtual handle, one of SDL's, or NULL.
OpenReturns(i) ==
  CASE Active = 1 /\ i = 0       -> "virtual"
    [] Active = 0 /\ i < present -> "real"
    [] OTHER                     -> "null"

SDL_JoystickOpen(i) ==
  /\ v' = Active
  /\ opened' = (opened \/ OpenReturns(i) = "virtual")
  /\ call' = [fn |-> "open", handle |-> OpenReturns(i),
              by |-> IF Active = 1 THEN "shim" ELSE "sdl", index |-> i]
  /\ held' = [h \in Handles |-> IF h = OpenReturns(i) THEN held[h] + 1 ELSE held[h]]
  /\ \A h \in Handles : held'[h] <= MaxHeld
  /\ UNCHANGED <<present, plugs>>

\* SDL_JoystickGetAxis and the other functions of a handle.
Use(h) ==
  /\ held[h] > 0
  /\ v' = Active
  /\ call' = [fn |-> "use", handle |-> h, by |-> AnsweredBy(h), index |-> 0]
  /\ UNCHANGED <<present, opened, held, plugs>>

\* Mutant: a virtual handle that is closed stays open.
SDL_JoystickClose_Passed(h) ==
  /\ held[h] > 0 /\ held' = [held EXCEPT ![h] = @ - 1]
  /\ v' = Active
  /\ call' = [fn |-> "close", handle |-> h, by |-> AnsweredBy(h), index |-> 0]
  /\ UNCHANGED <<present, opened, plugs>>

SDL_JoystickClose(h) ==
  /\ held[h] > 0 /\ held' = [held EXCEPT ![h] = @ - 1]
  /\ v' = Active
  /\ opened' = (opened /\ ~IsVjoy(h))
  /\ call' = [fn |-> "close", handle |-> h, by |-> AnsweredBy(h), index |-> 0]
  /\ UNCHANGED <<present, plugs>>

\* External: a joystick is plugged or unplugged.
Plug ==
  /\ plugs < MaxPlugs /\ plugs' = plugs + 1
  /\ present' \in {present - 1, present + 1} \intersect (0..MaxReal)
  /\ UNCHANGED <<v, opened, held, call>>

Next ==
  \/ SDL_NumJoysticks \/ Plug
  \/ \E i \in {0, 1} : SDL_JoystickOpen(i)
  \/ \E h \in Handles : Use(h) \/ SDL_JoystickClose(h)

Spec == Init /\ [][Next]_vars

-----------------------------------------------------------------------------
(* Properties.                                                             *)

\* s_vjoy_handle never reaches SDL, which would take it for a pointer to its own
\* structure, and a handle of SDL's is never answered with a level reading,
\* whatever was plugged since it was opened (src/sdl_webos_shim.c:803).
HandleGoesHome ==
  call.fn \in {"use", "close"} => call.by = IF call.handle = "virtual" THEN "shim" ELSE "sdl"

\* SDL_JoystickOpened(0) does not say open when the game has closed every handle.
OpenedIsHeld == opened => held["virtual"] > 0
=============================================================================
