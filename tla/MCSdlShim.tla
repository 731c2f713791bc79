----------------------------- MODULE MCSdlShim -----------------------------
(* Small instances of SdlShim for TLC: a portrait panel, modes of no size, *)
(* ones that fit upright, turned or not at all, touches in and outside them. *)
EXTENDS SdlShim

Size(w, h) == [w |-> w, h |-> h]
At(x, y)   == [x |-> x, y |-> y]

Panel     == Size(5, 8)
Asked     == {Size(-1, 3), Size(2, 3), Size(8, 5), Size(9, 9)}
Corners   == {At(0, 2), At(4, 7)}

Default == [noClamp |-> FALSE, noUpscale |-> FALSE, allowResize |-> FALSE, modeCache |-> FALSE,
            noWindow |-> FALSE, noInput |-> FALSE, screen |-> NoSize]
AllEnvs == {Default, [Default EXCEPT !.noClamp = TRUE, !.noInput = TRUE],
            [Default EXCEPT !.noUpscale = TRUE, !.modeCache = TRUE, !.allowResize = TRUE],
            [Default EXCEPT !.allowResize = TRUE, !.modeCache = TRUE],
            [Default EXCEPT !.noWindow = TRUE, !.screen = Size(3, 5)]}
=============================================================================
