-------------------------- MODULE PdkHostService --------------------------
(***************************************************************************)
(* PdkHost implements PipcService.  A call is pending from the moment the  *)
(* app writes the frame, answered from the moment the reply is in the      *)
(* app's receive buffer.                                                   *)
(***************************************************************************)
EXTENDS PdkHost

Replied(a) == \E i \in DOMAIN toApp[a] : toApp[a][i].type = "reply"

CallOf(a) == CASE Replied(a)                     -> "answered"
               [] ~Replied(a) /\ waiting[a] # 0 -> "pending"
               [] OTHER                          -> "none"

Service == INSTANCE PipcService
             WITH queue <- backlog, served <- client,
                  call <- [a \in Apps |-> CallOf(a)], running <- Alive

\* The host implements the service: every step of its sockets, select loop and
\* handlers is a step of PipcService or leaves what PipcService sees alone.
ImplementsService == Service!Spec
=============================================================================
