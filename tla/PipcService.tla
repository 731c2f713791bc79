---------------------------- MODULE PipcService ----------------------------
(***************************************************************************)
(* What the PIpc host promises the apps (src/pdkhost.c:1-5, :300,          *)
(* docs/pipc.md), with no sockets, buffers or handlers: apps are served    *)
(* one at a time in the order they connected, and a SYNC call is answered  *)
(* only by the host that is serving its app, only while it is pending.     *)
(***************************************************************************)
EXTENDS Sequences

CONSTANTS Apps, NoApp

VARIABLES
  queue,   \* the apps connected and not served yet
  served,  \* the app in service, or NoApp
  call,    \* each app's SYNC call: none, pending, or answered and on its way
  running  \* the host has not ended

vars == <<queue, served, call, running>>

Init == /\ queue = <<>> /\ served = NoApp /\ running = TRUE
        /\ call = [a \in Apps |-> "none"]

Connect(a) == /\ running /\ queue' = Append(queue, a)
              /\ UNCHANGED <<served, call, running>>

Serve == /\ running /\ served = NoApp /\ queue # <<>>
         /\ served' = Head(queue) /\ queue' = Tail(queue)
         /\ UNCHANGED <<call, running>>

EndSession == served # NoApp /\ served' = NoApp /\ UNCHANGED <<queue, call, running>>

\* An app may ask before it is served, or after: it only writes to its socket.
Ask(a) == /\ call[a] = "none" /\ call' = [call EXCEPT ![a] = "pending"]
          /\ UNCHANGED <<queue, served, running>>

Answer == /\ served # NoApp /\ call[served] = "pending"
          /\ call' = [call EXCEPT ![served] = "answered"]
          /\ UNCHANGED <<queue, served, running>>

\* The app takes the answer, or dies with the call in whatever state it is.
Finish(a) == /\ call[a] # "none" /\ call' = [call EXCEPT ![a] = "none"]
             /\ UNCHANGED <<queue, served, running>>

HostEnds == /\ running /\ running' = FALSE /\ queue' = <<>> /\ served' = NoApp
            /\ UNCHANGED call

Next == \/ Serve \/ EndSession \/ Answer \/ HostEnds
        \/ \E a \in Apps : Connect(a) \/ Ask(a) \/ Finish(a)

Spec == Init /\ [][Next]_vars
=============================================================================
