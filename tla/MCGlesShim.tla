---------------------------- MODULE MCGlesShim -----------------------------
(* Small instances of GlesShim for TLC.  The sizes are chosen so that both *)
(* axes can be the tight one, factors are not whole numbers, and a drawable *)
(* can be smaller than a mode on one axis.                                 *)
EXTENDS GlesShim

Size(w, h) == [w |-> w, h |-> h]
Box(x, y, w, h) == [x |-> x, y |-> y, w |-> w, h |-> h]

Portrait  == {Size(2, 3)}
AllModes  == {Size(2, 3), Size(3, 2), Size(3, 4)}
TwoPanels == {Size(5, 8), Size(8, 5)}
AllPanels == {Size(5, 8), Size(8, 5), Size(3, 2), Size(7, 7)}

\* A sub-viewport, and a rectangle outside every mode.
InAndOut  == {Box(1, 0, 1, 1), Box(-1, 2, 4, 6)}
Whole     == {Box(0, 0, 2, 3), Box(1, 0, 1, 1)}

Env(n, s, f) == [noScale |-> n, stretch |-> s, fbo |-> f]
Plain    == {Env(FALSE, FALSE, FALSE)}
AllEnvs  == {Env(FALSE, FALSE, FALSE), Env(TRUE, FALSE, FALSE), Env(FALSE, TRUE, FALSE),
             Env(FALSE, FALSE, TRUE)}
=============================================================================
