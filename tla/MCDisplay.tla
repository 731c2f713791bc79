----------------------------- MODULE MCDisplay -----------------------------
(* A small instance of Display for TLC: a mode that fits, one that is      *)
(* clamped, and a viewport of the size of the first.                       *)
EXTENDS Display

Size(w, h) == [w |-> w, h |-> h]
Box(x, y, w, h) == [x |-> x, y |-> y, w |-> w, h |-> h]

Panel   == Size(5, 8)
Asked   == {Size(2, 3), Size(9, 9)}
Middle  == {[x |-> 2, y |-> 3]}
InMode  == {Box(0, 0, 2, 3)}

Default == [noClamp |-> FALSE, noUpscale |-> FALSE, allowResize |-> FALSE, modeCache |-> FALSE,
            noWindow |-> FALSE, noInput |-> FALSE, screen |-> NoSize]
Envs == {Default, [Default EXCEPT !.noClamp = TRUE, !.allowResize = TRUE],
         [Default EXCEPT !.noUpscale = TRUE, !.modeCache = TRUE]}
=============================================================================
