------------------------- MODULE MCVirtualJoystick -------------------------
(* Small instances of VirtualJoystick for TLC: its constants are numbers. *)
EXTENDS VirtualJoystick
=============================================================================
