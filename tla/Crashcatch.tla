----------------------------- MODULE Crashcatch -----------------------------
(***************************************************************************)
(* src/crashcatch.c: a preloaded handler that reports a game's fault on    *)
(* stderr and ends the process with 128 + the signal.  It is installed for *)
(* five signals with SA_RESETHAND, an empty mask and no alternate stack:   *)
(* the first delivery of a signal takes its handler away, its own signal   *)
(* is blocked while it runs, another signal interrupts it, and the other   *)
(* threads of the game run on beside it.                                   *)
(*                                                                         *)
(* External: the kernel that delivers signals, the game's threads, and the *)
(* allocator, whose lock is not recursive: backtrace() loads its unwinder  *)
(* and so allocates.  (The loader's own lock, which dladdr takes, is       *)
(* recursive: its holder may crash.)  Text and registers are left out.     *)
(***************************************************************************)
EXTENDS Naturals, SequencesExt

CONSTANTS
  Threads,    \* threads of the game
  Caught,     \* the signals install() names: SEGV, FPE, BUS, ILL and ABRT
  NoThread,   \* the allocator's lock is free
  MaxFaults   \* bound: signals raised

ASSUME CrashAssumption == NoThread \notin Threads /\ MaxFaults \in Nat /\ Caught \subseteq 1..127

VARIABLES
  armed,    \* signals whose handler is still in place
  stack,    \* per thread: its running handlers, the innermost last
  stderr,   \* what they have written, in order
  heap,     \* the thread that holds the allocator's lock, or NoThread
  ended,    \* how the process has ended
  faults,   \* signals raised so far
  inHeap    \* history: a signal was raised by a thread that held the heap

vars == <<armed, stack, stderr, heap, ended, faults, inHeap>>

Steps   == <<"head", "load", "trace", "tail">>
Parts   == <<"head", "trace", "tail">>   \* those that write
Running == [by |-> "none", code |-> 0]

\* install().
Init ==
  /\ armed = Caught /\ stack = [t \in Threads |-> <<>>] /\ stderr = <<>>
  /\ heap = NoThread /\ ended = Running /\ faults = 0 /\ inHeap = FALSE

-----------------------------------------------------------------------------
(* The kernel (external).                                                  *)

\* Mutant: SA_RESETHAND is not given.
Deliver_Keep(t, s) ==
  /\ stack' = [stack EXCEPT ![t] = Append(@, [sig |-> s, at |-> 1])]
  /\ UNCHANGED <<armed, ended>>

\* A caught signal runs its handler and disarms it.
Deliver(t, s) ==
  /\ stack' = [stack EXCEPT ![t] = Append(@, [sig |-> s, at |-> 1])]
  /\ armed' = armed \ {s} /\ UNCHANGED ended

\* A thread faults or aborts, in the game or in a handler that is on its way.
Fault(t, s) ==
  /\ ended = Running /\ faults < MaxFaults /\ faults' = faults + 1
  /\ inHeap' = (inHeap \/ heap = t)
  /\ IF s \in armed
     THEN Deliver(t, s)
     ELSE ended' = [by |-> "signal", code |-> s] /\ UNCHANGED <<armed, stack>>
  /\ UNCHANGED <<stderr, heap>>

\* The game allocates.
Allocates(t) ==
  /\ ended = Running /\ stack[t] = <<>> /\ heap = NoThread /\ heap' = t
  /\ UNCHANGED <<armed, stack, stderr, ended, faults, inHeap>>

Frees(t) ==
  /\ ended = Running /\ stack[t] = <<>> /\ heap = t /\ heap' = NoThread
  /\ UNCHANGED <<armed, stack, stderr, ended, faults, inHeap>>

-----------------------------------------------------------------------------
(* handler().                                                              *)

Top(t) == Last(stack[t])

Reporting(t, parts) ==
  /\ ended = Running /\ stack[t] # <<>> /\ Top(t).at <= Len(Steps)
  /\ Steps[Top(t).at] \in parts
  /\ stack' = [stack EXCEPT ![t][Len(stack[t])].at = @ + 1]
  /\ UNCHANGED <<armed, ended, faults, inHeap>>

\* backtrace() takes the heap; a thread that crashed with it waits for itself.
Loads(t) == Reporting(t, {"load"}) /\ heap = NoThread /\ heap' = t /\ UNCHANGED stderr

Writes(t) ==
  /\ Reporting(t, Range(Parts))
  /\ stderr' = Append(stderr, [by |-> t, sig |-> Top(t).sig, part |-> Steps[Top(t).at]])
  /\ heap' = IF Steps[Top(t).at] = "trace" THEN NoThread ELSE heap

\* Mutant: a handler lets the reports of other threads finish first.
Exits_Last(t) ==
  /\ ended = Running /\ stack[t] # <<>> /\ Top(t).at > Len(Steps)
  /\ \A u \in Threads \ {t} : stack[u] = <<>>
  /\ ended' = [by |-> "exit", code |-> 128 + Top(t).sig]
  /\ UNCHANGED <<armed, stack, stderr, heap, faults, inHeap>>

\* _exit(128 + sig).
Exits(t) ==
  /\ ended = Running /\ stack[t] # <<>> /\ Top(t).at > Len(Steps)
  /\ ended' = [by |-> "exit", code |-> 128 + Top(t).sig]
  /\ UNCHANGED <<armed, stack, stderr, heap, faults, inHeap>>

Next == \E t \in Threads : \/ Allocates(t) \/ Frees(t) \/ Loads(t) \/ Writes(t) \/ Exits(t)
                           \/ \E s \in Caught : Fault(t, s)

\* Every thread is scheduled: a handler goes on, and so does a game that allocates.
Spec == /\ Init /\ [][Next]_vars
        /\ \A t \in Threads : WF_vars(Writes(t) \/ Exits(t)) /\ WF_vars(Frees(t))
                              /\ SF_vars(Loads(t))

-----------------------------------------------------------------------------
(* Properties.                                                             *)

\* The lines of stderr about a signal are one report by one thread, whole and in order.
OneReport(t, s) ==
  \E at \in [DOMAIN Parts -> DOMAIN stderr] :
    /\ \A i, j \in DOMAIN Parts : i < j => at[i] < at[j]
    /\ \A i \in DOMAIN Parts : stderr[at[i]] = [by |-> t, sig |-> s, part |-> Parts[i]]
    /\ \A n \in DOMAIN stderr : stderr[n].sig = s => n \in Range(at)

\* The status the process exits with names a signal of which stderr holds one report,
\* whole and in order, by one thread, however the reports of other faults cut into it
\* (src/crashcatch.c:99,108): who reads the log is not led to a second crash site.
StatusHasItsReport ==
  ended.by = "exit" => \E t \in Threads, s \in Caught : ended.code = 128 + s /\ OneReport(t, s)

\* A fault ends the process, also one in a handler or beside one, unless a thread
\* raised it from inside the allocator: the title never hangs in its last report
\* (src/crashcatch.c:83).
FaultEndsProcess ==
  []~inHeap => (faults > 0 ~> ended # Running)
=============================================================================
