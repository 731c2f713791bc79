------------------------------ MODULE PdkHost ------------------------------
(***************************************************************************)
(* src/pdkhost.c: a single-threaded PIpc host that stands in for           *)
(* LunaSysMgr.  It serves one app at a time over a stream socket, answers  *)
(* the window and SYNC messages of that app, and injects input that an     *)
(* operator writes to a control FIFO.                                      *)
(*                                                                         *)
(* The apps (libnapp, not in the repository) are external: a launch        *)
(* connects, sends its hello and then frames, receives what the host       *)
(* sends, blocks while a SYNC call is outstanding, and may die anywhere.   *)
(* Window keys are labelled by the app that owns them and window sizes by  *)
(* who chose them, so that what leaks from one session into the next can   *)
(* be seen.  The control FIFO is a queue of whole lines here; its bytes,   *)
(* its writers and its close/reopen are in ControlFifo.                    *)
(***************************************************************************)
EXTENDS Integers, Sequences, FiniteSets

CONSTANTS
  Apps,          \* app launches: a launch connects at most once
  Windows,       \* the nonzero window keys (a key is also the routing id)
  Owner,         \* the app whose window a key names
  Commands,      \* the control commands the operator may write
  NoApp,         \* g_client = -1
  NoWindow,      \* key or routing 0
  NoSize,        \* width or height 0
  OperatorSize,  \* a size given on a control line
  OutCap,        \* messages the app's receive buffer holds before send() blocks
  Backlog,       \* connections listen() lets wait for accept()
  ChunkLines,    \* control lines one read() of the FIFO returns at most
  MaxFrames,     \* bound: frames each launch sends
  MaxCommands    \* bound: lines the operator writes

ASSUME PdkHostAssumption ==
  /\ NoApp \notin Apps /\ NoWindow \notin Windows
  /\ NoSize \notin Apps /\ OperatorSize \notin Apps /\ NoSize # OperatorSize
  /\ Owner \in [Windows -> Apps]
  /\ Commands \subseteq {"key", "focus", "unfocus", "resize", "quit", "touch"}
  /\ OutCap \in Nat \ {0} /\ Backlog \in Nat \ {0} /\ ChunkLines \in Nat \ {0}
  /\ MaxFrames \in [Apps -> Nat] /\ MaxCommands \in Nat

VARIABLES
  app,          \* what each launch is doing
  conn,         \* each launch's connection
  backlog,      \* connections made and not accepted
  toHost,       \* the byte stream from each app, in units the host reads
  toApp,        \* the messages sent to each app and not yet received
  waiting,      \* the id of each app's outstanding SYNC call, 0 for none
  sent,         \* frames each app has sent
  status,       \* where the host's main() is
  client,       \* g_client
  g_window,     \* the routing id of the app's window
  g_size,       \* g_w and g_h: whose size they hold
  clientReady,  \* FD_ISSET(cfd, &rf) as the last select() left it
  lines,        \* the lines of the chunk being handled
  todo,         \* the messages the current handler has still to send
  control,      \* the lines in the FIFO
  typed         \* lines the operator has written

appVars  == <<app, waiting, sent>>
hostVars == <<client, g_window, g_size, clientReady, lines>>
opVars   == <<control, typed>>
vars == <<app, conn, backlog, toHost, toApp, waiting, sent, status, client,
          g_window, g_size, clientReady, lines, todo, control, typed>>

KeysOf(a) == {w \in Windows : Owner[w] = a} \union {NoWindow}
Sizes     == Apps \union {NoSize, OperatorSize}

Frame == [kind : {"prepare", "add", "other"},  \* h.type
          key : Windows \union {NoWindow},     \* the payload's window key
          size : Apps \union {NoSize},          \* the payload's width and height
          routing : Windows \union {NoWindow}, \* h.routing
          id : Nat]                            \* h.id of a SYNC message, else 0

NoFrame == [kind |-> "other", key |-> NoWindow, size |-> NoSize,
            routing |-> NoWindow, id |-> 0]

\* What the host reads in one read_full(): the hello, a length, a frame body.
Item == [tag : {"hello", "len", "badlen", "frame"}, body : Frame]

Message == [type : {"resize", "focus", "unfocus", "press", "release", "reply"},
            routing : Windows \union {NoWindow}, size : Sizes, id : Nat]

Mark(t) == [tag |-> t, body |-> NoFrame]
ToHost(a, item) == toHost' = [toHost EXCEPT ![a] = Append(@, item)]
Taken(a)        == toHost' = [toHost EXCEPT ![a] = Tail(@)]

-----------------------------------------------------------------------------
\* The messages of each handler, in the order it sends them.

View(type, routing) == [type |-> type, routing |-> routing, size |-> NoSize, id |-> 0]
Resize(size, routing) == [View("resize", routing) EXCEPT !.size = size]

\* Mutant: the key release is forgotten.
LineMsgs_NoRelease(line, window) ==
  IF line = "key" THEN <<View("press", window)>> ELSE <<>>

\* handle_control_line: what a line makes the host send ("quit" never returns).
LineMsgs(line, window) ==
  CASE line = "key"     -> <<View("press", window), View("release", window)>>
    [] line = "focus"   -> <<View("focus", window)>>
    [] line = "unfocus" -> <<View("unfocus", window)>>
    [] line = "resize"  -> <<Resize(OperatorSize, window)>>
    [] OTHER            -> <<>>

\* Mutant: the fields of the payload are read in the wrong order.
WindowAfter_Swapped(f) == IF f.kind = "prepare" THEN f.size ELSE g_window

\* on_message, PrepareAddWindow and AddWindow: the new g_window and g_w, g_h.
WindowAfter(f) ==
  IF f.kind = "prepare" \/ (f.kind = "add" /\ f.key # NoWindow) THEN f.key ELSE g_window
SizeAfter(f) == IF f.kind = "prepare" THEN f.size ELSE g_size

\* on_message, AddWindow: a resize when a size is known, then the focus.
Greeting(f) ==
  IF f.kind # "add" THEN <<>>
  ELSE (IF g_size = NoSize THEN <<>> ELSE <<Resize(g_size, WindowAfter(f))>>)
       \o <<View("focus", WindowAfter(f))>>

\* Mutants: a reply to messages that are not SYNC; none after a case of the switch.
Reply_ToEverything(f) == <<[View("reply", f.routing) EXCEPT !.id = f.id]>>
Reply_NotAfterCase(f) ==
  IF f.id = 0 \/ f.kind # "other" THEN <<>>
  ELSE <<[View("reply", f.routing) EXCEPT !.id = f.id]>>

\* on_message: the automatic reply to a SYNC message.
Reply(f) ==
  IF f.id = 0 THEN <<>> ELSE <<[View("reply", f.routing) EXCEPT !.id = f.id]>>

-----------------------------------------------------------------------------
Init ==
  /\ app = [a \in Apps |-> "idle"] /\ conn = [a \in Apps |-> "none"]
  /\ toHost = [a \in Apps |-> <<>>] /\ toApp = [a \in Apps |-> <<>>]
  /\ waiting = [a \in Apps |-> 0] /\ sent = [a \in Apps |-> 0]
  /\ backlog = <<>> /\ status = "accept" /\ client = NoApp
  /\ g_window = NoWindow /\ g_size = NoSize
  /\ clientReady = FALSE /\ lines = <<>> /\ todo = <<>>
  /\ control = <<>> /\ typed = 0

-----------------------------------------------------------------------------
(* The apps and the operator (external).                                   *)

Alive == status \notin {"exited", "killed"}

AppConnect(a) ==
  /\ app[a] = "idle" /\ Len(backlog) < Backlog /\ Alive
  /\ app' = [app EXCEPT ![a] = "connected"]
  /\ conn' = [conn EXCEPT ![a] = "queued"]
  /\ backlog' = Append(backlog, a)
  /\ UNCHANGED <<toHost, toApp, waiting, sent, status, todo, hostVars, opVars>>

AppHello(a) ==
  /\ app[a] = "connected"
  /\ app' = [app EXCEPT ![a] = "ready"]
  /\ ToHost(a, Mark("hello"))
  /\ UNCHANGED <<conn, backlog, toApp, waiting, sent, status, todo, hostVars, opVars>>

\* A length the host accepts is followed by the body; one it rejects by nothing.
AppLength(a) ==
  /\ app[a] = "ready" /\ conn[a] # "closed"
  /\ waiting[a] = 0 /\ sent[a] < MaxFrames[a]
  /\ sent' = [sent EXCEPT ![a] = @ + 1]
  /\ \/ ToHost(a, Mark("len")) /\ app' = [app EXCEPT ![a] = "midframe"]
     \/ ToHost(a, Mark("badlen")) /\ UNCHANGED app
  /\ UNCHANGED <<conn, backlog, toApp, waiting, status, todo, hostVars, opVars>>

\* A short payload leaves the fields the host reads at their default, 0.
AppBody(a) ==
  /\ app[a] = "midframe" /\ conn[a] # "closed"
  /\ app' = [app EXCEPT ![a] = "ready"]
  /\ \E kind \in {"prepare", "add", "other"}, key, routing \in KeysOf(a),
        size \in {a, NoSize}, id \in {0, sent[a]} :
       /\ IF kind = "other" THEN key = NoWindow ELSE routing = key
       /\ kind # "prepare" => size = NoSize
       /\ ToHost(a, [tag |-> "frame",
                     body |-> [kind |-> kind, key |-> key, size |-> size,
                               routing |-> routing, id |-> id]])
       /\ waiting' = [waiting EXCEPT ![a] = id]
  /\ UNCHANGED <<conn, backlog, toApp, sent, status, todo, hostVars, opVars>>

AppRecv(a) ==
  /\ app[a] \in {"ready", "midframe"} /\ toApp[a] # <<>>
  /\ toApp' = [toApp EXCEPT ![a] = Tail(@)]
  /\ waiting' = [waiting EXCEPT ![a] = IF Head(toApp[a]).type = "reply" THEN 0 ELSE @]
  /\ UNCHANGED <<app, conn, backlog, toHost, sent, status, todo, hostVars, opVars>>

\* The app exits or crashes; its socket closes with what it had not received.
AppDown(a) ==
  /\ app[a] \notin {"idle", "down"}
  /\ app' = [app EXCEPT ![a] = "down"]
  /\ toApp' = [toApp EXCEPT ![a] = <<>>]
  /\ waiting' = [waiting EXCEPT ![a] = 0]
  /\ UNCHANGED <<conn, backlog, toHost, sent, status, todo, hostVars, opVars>>

\* libnapp reads the end of the stream the host closed.
AppEof(a) == conn[a] = "closed" /\ toApp[a] = <<>> /\ AppDown(a)

OperatorWrites ==
  /\ typed < MaxCommands
  /\ \E c \in Commands : control' = Append(control, c)
  /\ typed' = typed + 1
  /\ UNCHANGED <<conn, backlog, toHost, toApp, status, todo, appVars, hostVars>>

-----------------------------------------------------------------------------
(* The host: one thread, one step at a time.  A handler's sends block one  *)
(* by one, and nothing else happens until the last of them is out.         *)

At(s) == status = s /\ todo = <<>>
Readable(a) == toHost[a] # <<>> \/ app[a] = "down"

\* The process ends: the system closes its sockets, the waiting ones too.
HostDies(how) ==
  /\ status' = how
  /\ conn' = [a \in Apps |-> IF conn[a] = "none" THEN "none" ELSE "closed"]
  /\ backlog' = <<>> /\ client' = NoApp /\ g_window' = NoWindow
  /\ lines' = <<>> /\ todo' = <<>>

Accept ==
  /\ At("accept") /\ backlog # <<>>
  /\ client' = Head(backlog) /\ backlog' = Tail(backlog)
  /\ conn' = [conn EXCEPT ![Head(backlog)] = "open"]
  /\ status' = "hello"
  /\ UNCHANGED <<toHost, toApp, todo, g_window, g_size, clientReady, lines,
                 appVars, opVars>>

\* A blocking read_full() of the hello: the whole of it, or the end of the stream.
ReadHello ==
  /\ At("hello") /\ toHost[client] # <<>>
  /\ Taken(client) /\ status' = "select"
  /\ UNCHANGED <<conn, backlog, toApp, todo, appVars, hostVars, opVars>>

\* Mutant: g_client keeps the descriptor that was closed.
HelloLost_KeepsClient ==
  /\ At("hello") /\ toHost[client] = <<>> /\ app[client] = "down"
  /\ conn' = [conn EXCEPT ![client] = "closed"] /\ status' = "accept"
  /\ UNCHANGED <<backlog, toHost, toApp, todo, hostVars, appVars, opVars>>

HelloLost ==
  /\ At("hello") /\ toHost[client] = <<>> /\ app[client] = "down"
  /\ conn' = [conn EXCEPT ![client] = "closed"]
  /\ client' = NoApp /\ status' = "accept"
  /\ UNCHANGED <<backlog, toHost, toApp, todo, g_window, g_size, clientReady, lines,
                 appVars, opVars>>

\* select(), and the read() of the FIFO when it has something.
Select ==
  /\ At("select") /\ (control # <<>> \/ Readable(client))
  /\ clientReady' = Readable(client)
  /\ LET n == IF Len(control) < ChunkLines THEN Len(control) ELSE ChunkLines
     IN /\ lines' = SubSeq(control, 1, n)
        /\ control' = SubSeq(control, n + 1, Len(control))
  /\ status' = "control"
  /\ UNCHANGED <<conn, backlog, toHost, toApp, todo, client, g_window, g_size,
                 typed, appVars>>

HandleLine ==
  /\ At("control") /\ lines # <<>> /\ Head(lines) # "quit"
  /\ lines' = Tail(lines)
  /\ todo' = LineMsgs(Head(lines), g_window)
  /\ UNCHANGED <<conn, backlog, toHost, toApp, status, client, g_window, g_size,
                 clientReady, appVars, opVars>>

\* handle_control_line: exit(0).
Quit ==
  /\ At("control") /\ lines # <<>> /\ Head(lines) = "quit"
  /\ HostDies("exited")
  /\ UNCHANGED <<toHost, toApp, g_size, clientReady, appVars, opVars>>

\* if (!FD_ISSET(cfd, &rf)) continue;  the next select() starts from FD_ZERO.
ControlDone ==
  /\ At("control") /\ lines = <<>>
  /\ status' = IF clientReady THEN "frame" ELSE "select"
  /\ clientReady' = FALSE
  /\ UNCHANGED <<conn, backlog, toHost, toApp, todo, client, g_window, g_size, lines,
                 appVars, opVars>>

\* Mutant: g_window outlives the session.
CloseSession_KeepsWindow ==
  /\ conn' = [conn EXCEPT ![client] = "closed"]
  /\ client' = NoApp /\ status' = "accept"
  /\ UNCHANGED <<backlog, toApp, todo, g_window, g_size, clientReady, lines, appVars, opVars>>

\* The end of a session: g_w and g_h keep what they had.
CloseSession ==
  /\ conn' = [conn EXCEPT ![client] = "closed"]
  /\ client' = NoApp /\ g_window' = NoWindow
  /\ status' = "accept"
  /\ UNCHANGED <<backlog, toApp, todo, g_size, clientReady, lines, appVars, opVars>>

\* Mutant: the length is not checked.
ReadLength_Unchecked ==
  /\ At("frame") /\ toHost[client] # <<>>
  /\ Taken(client) /\ status' = "body"
  /\ UNCHANGED <<conn, backlog, toApp, todo, appVars, hostVars, opVars>>

ReadLength ==
  /\ At("frame") /\ toHost[client] # <<>> /\ Head(toHost[client]).tag = "len"
  /\ Taken(client) /\ status' = "body"
  /\ UNCHANGED <<conn, backlog, toApp, todo, appVars, hostVars, opVars>>

BadLength ==
  /\ At("frame") /\ toHost[client] # <<>> /\ Head(toHost[client]).tag # "len"
  /\ Taken(client) /\ CloseSession

ReadBody ==
  /\ At("body") /\ toHost[client] # <<>>
  /\ LET f == Head(toHost[client]).body
     IN /\ g_window' = WindowAfter(f) /\ g_size' = SizeAfter(f)
        /\ todo' = Greeting(f) \o Reply(f)
  /\ Taken(client) /\ status' = "select"
  /\ UNCHANGED <<conn, backlog, toApp, client, clientReady, lines, appVars, opVars>>

\* Mutant: the end of the stream is noticed between frames only.
EndOfStream_BetweenFrames ==
  /\ At("frame") /\ toHost[client] = <<>> /\ app[client] = "down"
  /\ UNCHANGED toHost /\ CloseSession

\* read_full() meets the end of the stream, at a frame's start or inside one.
EndOfStream ==
  /\ At("frame") \/ At("body")
  /\ toHost[client] = <<>> /\ app[client] = "down"
  /\ UNCHANGED toHost /\ CloseSession

\* send_msg: blocks while the app's buffer is full.
SendOne ==
  /\ todo # <<>> /\ app[client] # "down" /\ Len(toApp[client]) < OutCap
  /\ toApp' = [toApp EXCEPT ![client] = Append(@, Head(todo))]
  /\ todo' = Tail(todo)
  /\ UNCHANGED <<conn, backlog, toHost, status, appVars, hostVars, opVars>>

\* send() to a peer that is gone: flags 0 and SIGPIPE at its default action.
SigPipe ==
  /\ todo # <<>> /\ app[client] = "down"
  /\ HostDies("killed")
  /\ UNCHANGED <<toHost, toApp, g_size, clientReady, appVars, opVars>>

\* A send() that was blocked when the app died may report it (ECONNRESET) and raise
\* nothing: send_all gives up its message, send_msg says so, and the handler goes on.
SendFails ==
  /\ todo # <<>> /\ app[client] = "down"
  /\ todo' = Tail(todo)
  /\ UNCHANGED <<conn, backlog, toHost, toApp, status, appVars, hostVars, opVars>>

\* select() itself fails (out of memory): the session ends with the app alive.
SelectFails == At("select") /\ UNCHANGED toHost /\ CloseSession

-----------------------------------------------------------------------------
HostStep == \/ Accept \/ ReadHello \/ HelloLost \/ Select \/ HandleLine \/ Quit \/ ControlDone
            \/ ReadLength \/ BadLength \/ ReadBody \/ EndOfStream \/ SendOne \/ SigPipe
            \/ SendFails

AppStep(a) == \/ AppConnect(a) \/ AppHello(a) \/ AppLength(a) \/ AppBody(a)
              \/ AppRecv(a) \/ AppDown(a)

\* SelectFails is no HostStep: nothing says that a failure ever comes.
Next == HostStep \/ SelectFails \/ OperatorWrites \/ \E a \in Apps : AppStep(a)

Spec == Init /\ [][Next]_vars

\* The host is scheduled; an app that lives receives what it is sent, finishes
\* the hello and the frame it has begun, and notices the end of its stream.
Fairness ==
  /\ WF_vars(HostStep)
  /\ \A a \in Apps : /\ WF_vars(AppHello(a)) /\ WF_vars(AppBody(a))
                     /\ WF_vars(AppRecv(a)) /\ WF_vars(AppEof(a))

FairSpec == Spec /\ Fairness

\* Every app ends some day.
AppsLeave == \A a \in Apps : WF_vars(AppDown(a))
-----------------------------------------------------------------------------
(* Properties.                                                             *)

\* Type invariant: what every variable of main(), of the sockets and of the
\* apps may hold.
TypeOK ==
  /\ app \in [Apps -> {"idle", "connected", "ready", "midframe", "down"}]
  /\ conn \in [Apps -> {"none", "queued", "open", "closed"}]
  /\ backlog \in Seq(Apps)
  /\ toHost \in [Apps -> Seq(Item)] /\ toApp \in [Apps -> Seq(Message)]
  /\ waiting \in [Apps -> Nat] /\ sent \in [Apps -> Nat]
  /\ status \in {"accept", "hello", "select", "control", "frame", "body",
                 "exited", "killed"}
  /\ client \in Apps \union {NoApp}
  /\ g_window \in Windows \union {NoWindow} /\ g_size \in Apps \union {NoSize}
  /\ clientReady \in BOOLEAN
  /\ lines \in Seq(Commands) /\ control \in Seq(Commands) /\ typed \in Nat
  /\ todo \in Seq(Message)

\* The host has a client exactly in a session, it is the one app whose
\* connection is open, and only a session has messages left to send.
SessionConsistent ==
  /\ (client = NoApp) <=> (status \in {"accept", "exited", "killed"})
  /\ \A a \in Apps : (conn[a] = "open") <=> (client = a)
  /\ todo # <<>> => client # NoApp

\* Whatever an app is sent is routed to a window of its own or to none: what a
\* session leaves behind (g_window, control lines queued with no client, the
\* routing of a reply) never reaches the windows of another app's numbering.
RoutingIsOwn ==
  \A a \in Apps :
    \A i \in DOMAIN toApp[a] : toApp[a][i].routing \in KeysOf(a)

\* on_message's reply: a reply on its way to an app answers the SYNC call that
\* app is blocked in, and a call is answered once.
ReplyIsAwaited ==
  \A a \in Apps :
    LET Replies == {i \in DOMAIN toApp[a] : toApp[a][i].type = "reply"}
    IN \A i \in Replies : /\ toApp[a][i].id = waiting[a] /\ waiting[a] # 0
                          /\ \A j \in Replies : j = i

\* RoutingIsOwn made inductive: what an app has written and what the host holds
\* of the session (g_window, the messages still to send) name the app's own
\* windows, and until the hello is read the host holds no window.  An app that has not
\* connected has no connection, so what accept() takes has never been served.
OwnItem(a)    == {i \in Item : {i.body.key, i.body.routing} \subseteq KeysOf(a)}
OwnMessage(a) == {m \in Message : m.routing \in KeysOf(a)}

SessionOwnership ==
  /\ \A a \in Apps : toHost[a] \in Seq(OwnItem(a)) /\ toApp[a] \in Seq(OwnMessage(a))
  /\ client # NoApp => todo \in Seq(OwnMessage(client)) /\ g_window \in KeysOf(client)
  /\ client = NoApp \/ status = "hello" => g_window = NoWindow
  /\ \A a \in Apps : app[a] = "idle" =>
       conn[a] = "none" /\ \A i \in DOMAIN backlog : backlog[i] # a

\* The host and the stream agree on where a frame starts: main() looks for a
\* hello, a length or a body exactly when that is what comes next.
FramingInSync ==
  client # NoApp /\ toHost[client] # <<>> =>
    LET tag == Head(toHost[client]).tag
    IN CASE status = "hello" -> tag = "hello"
         [] status = "body"  -> tag = "frame"
         [] OTHER            -> tag \in {"len", "badlen"}

\* What a handler sends as a pair stays a pair on the wire, across the sends
\* that block between its halves: a key press is followed by its release and
\* the resize that answers AddWindow by the focus (docs/pipc.md:84).
PairsIntact ==
  client # NoApp =>
    LET out == toApp[client] \o todo
        Follows(i, t) == /\ i < Len(out) /\ out[i + 1].type = t
                         /\ out[i + 1].routing = out[i].routing
    IN \A i \in DOMAIN out :
         /\ out[i].type = "press" => Follows(i, "release")
         /\ out[i].type = "resize" /\ out[i].size # OperatorSize => Follows(i, "focus")

\* A SYNC call of the app being served is answered, however the operator's
\* lines and the app's own frames interleave with it, unless a process ends.
SyncServed ==
  \A a \in Apps :
    (waiting[a] # 0 /\ conn[a] = "open")
      ~> (waiting[a] = 0 \/ conn[a] = "closed" \/ ~Alive)

\* When every app ends some day, by whatever it leaves half sent, each one that
\* waits in the backlog is accepted.
NextClientServed ==
  AppsLeave =>
    \A a \in Apps : (conn[a] = "queued") ~> (conn[a] # "queued" \/ ~Alive)
-----------------------------------------------------------------------------
(* What the comments and the docs say and the code does not do.            *)

\* A send that fails is reported and the host goes on to the next client
\* (src/pdkhost.c:154-155 and :419).
HostOutlivesApps == status # "killed"
=============================================================================
