--------------------------- MODULE MCControlFifo ---------------------------
(* Small instances of ControlFifo for TLC.                                 *)
EXTENDS ControlFifo
=============================================================================
