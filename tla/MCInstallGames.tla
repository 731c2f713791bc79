--------------------------- MODULE MCInstallGames ---------------------------
(* A small instance of InstallGames for TLC: a torn package, a game that   *)
(* fits, one that fits if the first failed and then takes more than its    *)
(* estimate, an empty package, and a game whose archive fits, if at all,   *)
(* without its directory.  A web app only differs from a package there is  *)
(* no room for in what is printed.                                         *)
EXTENDS InstallGames

AllIpks == <<"torn", "small", "huge", "empty", "vast">>
Kinds    == [torn |-> "torn", small |-> "game", huge |-> "game", empty |-> "bad", vast |-> "game"]
Sizes    == [torn |-> 1, small |-> 10, huge |-> 60, empty |-> 70, vast |-> 210]
Unpack   == [torn |-> 2, small |-> 12, huge |-> 160, empty |-> 0, vast |-> 200]
=============================================================================
