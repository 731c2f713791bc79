----------------------- MODULE VirtualJoystickProofs -----------------------
(***************************************************************************)
(* Proofs about VirtualJoystick, for any number of joysticks, plugs and    *)
(* handles, with and without PDK_NO_VJOY.                                  *)
(***************************************************************************)
EXTENDS VirtualJoystick, TLAPS

\* What the variables may hold.
TypeOK ==
  /\ v \in {-1, 0, 1} /\ opened \in BOOLEAN
  /\ held \in [Handles -> Nat]

\* The decision of the first call binds every handle the game got since: with the
\* shim's joystick in place SDL gave none, and without it the shim gave none.
DecisionBinds ==
  /\ held["virtual"] > 0 => v = 1
  /\ held["real"] > 0 => v = 0

IInv == TypeOK /\ DecisionBinds /\ OpenedIsHeld

\* The decision is made once, and is one of the two.
LEMMA ActiveDecides ==
  ASSUME TypeOK
  PROVE  Active \in {0, 1} /\ (v # -1 => Active = v)
BY DEF Active, TypeOK

\* An open returns a handle of the side the decision is for, or NULL.
LEMMA OpenDecides ==
  ASSUME NEW i
  PROVE  /\ OpenReturns(i) = "virtual" => Active = 1
         /\ OpenReturns(i) = "real" => Active = 0
<1>1. CASE Active = 1 /\ i = 0
  BY <1>1 DEF OpenReturns
<1>2. CASE ~(Active = 1 /\ i = 0) /\ Active = 0 /\ i < present
  BY <1>2 DEF OpenReturns
<1>3. CASE ~(Active = 1 /\ i = 0) /\ ~(Active = 0 /\ i < present)
  BY <1>3 DEF OpenReturns
<1>. QED BY <1>1, <1>2, <1>3

\* The game holds no handle before the first call.
LEMMA InitIInv == Init => IInv
<1>. SUFFICES ASSUME Init PROVE IInv
  OBVIOUS
<1>1. v = -1 /\ opened = FALSE /\ held = [h \in Handles |-> 0]
  BY DEF Init
<1>2. held \in [Handles -> Nat] /\ held["virtual"] = 0 /\ held["real"] = 0
  BY <1>1 DEF Handles
<1>3. TypeOK
  BY <1>1, <1>2 DEF TypeOK
<1>4. DecisionBinds /\ OpenedIsHeld
  BY <1>1, <1>2 DEF DecisionBinds, OpenedIsHeld
<1>. QED BY <1>3, <1>4 DEF IInv

\* Every wrapper keeps the handles with the decision, and every close returns what
\* an open gave.
LEMMA IInvStep == IInv /\ [Next]_vars => IInv'
<1>. SUFFICES ASSUME IInv, [Next]_vars PROVE IInv'
  OBVIOUS
<1>. USE DEF IInv, TypeOK, DecisionBinds, OpenedIsHeld, Handles
<1>1. CASE SDL_NumJoysticks
  BY <1>1, ActiveDecides DEF SDL_NumJoysticks
<1>2. ASSUME NEW i \in {0, 1}, SDL_JoystickOpen(i) PROVE IInv'
  <2>. DEFINE got == OpenReturns(i)
  <2>1. /\ v' = Active /\ opened' = (opened \/ got = "virtual")
        /\ held' = [h \in Handles |-> IF h = got THEN held[h] + 1 ELSE held[h]]
    BY <1>2 DEF SDL_JoystickOpen
  <2>2. (got = "virtual" => Active = 1) /\ (got = "real" => Active = 0)
    BY OpenDecides
  <2>3. Active \in {0, 1} /\ (v # -1 => Active = v)
    BY ActiveDecides
  <2>. HIDE DEF got
  <2>4. TypeOK'
    BY <2>1, <2>3
  <2>5. /\ held'["virtual"] = IF got = "virtual" THEN held["virtual"] + 1 ELSE held["virtual"]
        /\ held'["real"] = IF got = "real" THEN held["real"] + 1 ELSE held["real"]
        /\ held["virtual"] \in Nat /\ held["real"] \in Nat
    BY <2>1
  <2>6. DecisionBinds' /\ OpenedIsHeld'
    BY <2>1, <2>2, <2>3, <2>5
  <2>. QED BY <2>4, <2>6
<1>3. ASSUME NEW h \in Handles, Use(h) PROVE IInv'
  BY <1>3, ActiveDecides DEF Use
<1>4. ASSUME NEW h \in Handles, SDL_JoystickClose(h) PROVE IInv'
  <2>1. /\ v' = Active /\ Active \in {0, 1} /\ (v # -1 => Active = v) /\ held[h] > 0
        /\ held' = [held EXCEPT ![h] = held[h] - 1]
    BY <1>4, ActiveDecides DEF SDL_JoystickClose
  <2>2. held' \in [Handles -> Nat] /\ DecisionBinds'
    BY <2>1
  <2>3. h = "virtual" => IsVjoy(h)
    BY <2>1 DEF IsVjoy
  <2>4. opened' \in BOOLEAN /\ (opened' => opened /\ h # "virtual")
    BY <1>4, <2>3 DEF SDL_JoystickClose
  <2>5. OpenedIsHeld'
    BY <2>1, <2>4
  <2>. QED BY <2>1, <2>2, <2>4, <2>5
<1>5. CASE Plug \/ UNCHANGED vars
  BY <1>5 DEF Plug, vars
<1>. QED BY <1>1, <1>2, <1>3, <1>4, <1>5 DEF Next

\* A handle the game holds is answered by the side that gave it.
LEMMA AnsweredAtHome ==
  ASSUME IInv, NEW h \in Handles, held[h] > 0
  PROVE  AnsweredBy(h) = IF h = "virtual" THEN "shim" ELSE "sdl"
BY ActiveDecides DEF IInv, TypeOK, DecisionBinds, Handles, AnsweredBy, IsVjoy

\* A step routes a handle by the decision that gave it.
LEMMA HomeStep == IInv /\ HandleGoesHome /\ [Next]_vars => HandleGoesHome'
<1>. SUFFICES ASSUME IInv, HandleGoesHome, [Next]_vars PROVE HandleGoesHome'
  OBVIOUS
<1>1. ASSUME NEW h \in Handles, Use(h) \/ SDL_JoystickClose(h) PROVE HandleGoesHome'
  <2>1. held[h] > 0 /\ call'.by = AnsweredBy(h) /\ call'.handle = h
    BY <1>1 DEF Use, SDL_JoystickClose
  <2>. QED BY <2>1, AnsweredAtHome DEF HandleGoesHome
<1>2. ASSUME NEW i \in {0, 1}, SDL_JoystickOpen(i) PROVE HandleGoesHome'
  BY <1>2 DEF SDL_JoystickOpen, HandleGoesHome
<1>3. CASE SDL_NumJoysticks \/ Plug \/ UNCHANGED vars
  BY <1>3 DEF SDL_NumJoysticks, Plug, vars, HandleGoesHome
<1>. QED BY <1>1, <1>2, <1>3 DEF Next

-----------------------------------------------------------------------------
\* Every reachable state satisfies the inductive invariant.
THEOREM Invariance == Spec => []IInv
BY InitIInv, IInvStep, PTL DEF Spec

\* The shim never tells a game that its joystick is open when the game has closed
\* every handle it was given.
THEOREM OpenedCorrect == Spec => []OpenedIsHeld
<1>1. IInv => OpenedIsHeld
  BY DEF IInv
<1>. QED BY <1>1, Invariance, PTL

\* No handle reaches the side that did not give it, however many joysticks are
\* plugged or unplugged after the first call.
THEOREM HandlesCorrect == Spec => []HandleGoesHome
<1>1. Init => HandleGoesHome
  BY DEF Init, NoCall, HandleGoesHome
<1>. QED BY <1>1, HomeStep, Invariance, PTL DEF Spec
=============================================================================
