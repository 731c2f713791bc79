---------------------------- MODULE MCCrashcatch ----------------------------
(* A small instance of Crashcatch for TLC: fewer signals than faults, so    *)
(* that a signal is raised again while its first report is being written.  *)
EXTENDS Crashcatch

Signals == {6, 8, 11}   \* ABRT, FPE and SEGV
=============================================================================
