--------------------------- MODULE PdkHostProofs ---------------------------
(***************************************************************************)
(* Proofs about PdkHost, for every set of apps, windows and commands and   *)
(* every capacity and bound that PdkHostAssumption allows: what a session  *)
(* leaves behind, what travels between an app and the host (the framing of *)
(* the stream, the SYNC calls and their replies, the pairs of messages),   *)
(* and that PdkHost implements PipcService.                                *)
(***************************************************************************)
EXTENDS PdkHostService, SequenceTheorems, TLAPS

USE PdkHostAssumption

IInv == TypeOK /\ SessionConsistent /\ SessionOwnership

-----------------------------------------------------------------------------
(* The sequence operations the host and the apps use on their queues.      *)

\* Queues are emptied, appended to and taken from at the head.
LEMMA QueueOps ==
  ASSUME NEW S
  PROVE  /\ <<>> \in Seq(S)
         /\ \A s \in Seq(S), e \in S : Append(s, e) \in Seq(S)
         /\ \A s \in Seq(S) : s # <<>> => Head(s) \in S /\ Tail(s) \in Seq(S)
<1>1. \A s \in Seq(S) : s # <<>> => Head(s) \in S /\ Tail(s) \in Seq(S)
  BY HeadTailProperties
<1>. QED BY <1>1, EmptySeq

\* What Append leaves in the queue was there, or is what was appended.
LEMMA QueueAdd ==
  ASSUME NEW S, NEW s \in Seq(S), NEW e \in S, NEW i \in DOMAIN Append(s, e)
  PROVE  (i \in DOMAIN s /\ Append(s, e)[i] = s[i]) \/ Append(s, e)[i] = e
<1>1. i \in 1..(Len(s) + 1) /\ DOMAIN s = 1..Len(s) /\ Len(s) \in Nat
  BY AppendProperties, LenProperties
<1>. QED BY <1>1, AppendProperties

\* What is taken from the head was first, and what Tail leaves was there.
LEMMA QueueTake ==
  ASSUME NEW S, NEW s \in Seq(S), s # <<>>
  PROVE  /\ 1 \in DOMAIN s /\ Head(s) = s[1]
         /\ \A i \in DOMAIN Tail(s) : i + 1 \in DOMAIN s /\ Tail(s)[i] = s[i + 1]
<1>1. Len(s) \in Nat /\ Len(s) # 0 /\ DOMAIN s = 1..Len(s)
  BY EmptySeq, LenProperties
<1>2. Head(s) = s[1] /\ Tail(s) \in Seq(S) /\ Len(Tail(s)) = Len(s) - 1
      /\ \A i \in 1..Len(Tail(s)) : Tail(s)[i] = s[i + 1]
  BY HeadTailProperties
<1>3. DOMAIN Tail(s) = 1..(Len(s) - 1)
  BY <1>2, LenProperties
<1>. QED BY <1>1, <1>2, <1>3

\* A read() takes at most a chunk, and never more than the FIFO holds.
LEMMA ChunkSize ==
  ASSUME NEW len \in Nat
  PROVE  (IF len < ChunkLines THEN len ELSE ChunkLines) \in 0..len
OBVIOUS

\* One read() splits the FIFO in two.
LEMMA QueueSplit ==
  ASSUME NEW S, NEW s \in Seq(S), NEW n \in 0..Len(s)
  PROVE  SubSeq(s, 1, n) \in Seq(S) /\ SubSeq(s, n + 1, Len(s)) \in Seq(S)
<1>1. \A i \in 1..Len(s) : s[i] \in S
  BY ElementOfSeq
<1>2. Len(s) \in Nat
  OBVIOUS
<1>3. SubSeq(s, 1, n) \in Seq(S)
  BY <1>1, <1>2, SubSeqProperties
<1>4. SubSeq(s, n + 1, Len(s)) \in Seq(S)
  BY <1>1, <1>2, SubSeqProperties
<1>. QED BY <1>3, <1>4

-----------------------------------------------------------------------------
(* What the records and handlers of the module produce.                    *)

\* A mark of the stream (hello, a length) names no window: it is an item any
\* app may write.
LEMMA MarkIsOwn ==
  ASSUME NEW a \in Apps, NEW t \in {"hello", "len", "badlen"}
  PROVE  Mark(t) \in OwnItem(a)
BY DEF Mark, NoFrame, OwnItem, Item, Frame, KeysOf, Sizes

\* What an app may write and be sent is of the types of the streams, and its
\* windows are windows.
LEMMA OwnIsTyped ==
  ASSUME NEW a \in Apps
  PROVE  /\ OwnItem(a) \subseteq Item
         /\ OwnMessage(a) \subseteq Message
         /\ KeysOf(a) \subseteq Windows \union {NoWindow}
BY DEF OwnItem, OwnMessage, KeysOf

\* A control line sends only messages routed to the window it is given.
LEMMA LineMsgsOwn ==
  ASSUME NEW a \in Apps, NEW line \in Commands, NEW w \in KeysOf(a)
  PROVE  LineMsgs(line, w) \in Seq(OwnMessage(a))
<1>1. \A t \in {"press", "release", "focus", "unfocus"} : View(t, w) \in OwnMessage(a)
  BY OwnIsTyped DEF View, OwnMessage, Message, Sizes
<1>2. Resize(OperatorSize, w) \in OwnMessage(a)
  BY OwnIsTyped DEF Resize, View, OwnMessage, Message, Sizes
<1>. QED BY <1>1, <1>2 DEF LineMsgs

\* A frame of app a leaves the host with a window and with messages of a.
LEMMA BodyOwn ==
  ASSUME NEW a \in Apps, NEW i \in OwnItem(a),
         g_window \in KeysOf(a), g_size \in Apps \union {NoSize}
  PROVE  /\ WindowAfter(i.body) \in KeysOf(a)
         /\ SizeAfter(i.body) \in Apps \union {NoSize}
         /\ Greeting(i.body) \o Reply(i.body) \in Seq(OwnMessage(a))
<1>. DEFINE f == i.body
<1>1. /\ f \in Frame /\ f.key \in KeysOf(a) /\ f.routing \in KeysOf(a)
  BY DEF OwnItem, Item
<1>2. WindowAfter(f) \in KeysOf(a)
  BY <1>1 DEF WindowAfter
<1>3. SizeAfter(f) \in Apps \union {NoSize}
  BY <1>1 DEF SizeAfter, Frame
<1>4. View("focus", WindowAfter(f)) \in OwnMessage(a)
  BY <1>2, OwnIsTyped DEF View, OwnMessage, Message, Sizes
<1>5. Resize(g_size, WindowAfter(f)) \in OwnMessage(a)
  BY <1>2, OwnIsTyped DEF Resize, View, OwnMessage, Message, Sizes
<1>6. Greeting(f) \in Seq(OwnMessage(a))
  BY <1>4, <1>5 DEF Greeting
<1>7. [View("reply", f.routing) EXCEPT !.id = f.id] \in OwnMessage(a)
  BY <1>1, OwnIsTyped DEF View, OwnMessage, Message, Sizes, Frame
<1>8. Reply(f) \in Seq(OwnMessage(a))
  BY <1>7 DEF Reply
<1>. QED BY <1>2, <1>3, <1>6, <1>8

\* The body an app writes is a frame of its own, and its id the call it waits in.
LEMMA BodyWritten ==
  ASSUME NEW a \in Apps, AppBody(a), sent \in [Apps -> Nat]
  PROVE  \E i \in OwnItem(a), id \in Nat :
           /\ ToHost(a, i) /\ waiting' = [waiting EXCEPT ![a] = id]
           /\ i.tag = "frame" /\ i.body.id = id
<1>1. PICK kind \in {"prepare", "add", "other"}, key \in KeysOf(a), routing \in KeysOf(a),
           size \in {a, NoSize}, id \in {0, sent[a]} :
        /\ ToHost(a, [tag |-> "frame",
                      body |-> [kind |-> kind, key |-> key, size |-> size,
                                routing |-> routing, id |-> id]])
        /\ waiting' = [waiting EXCEPT ![a] = id]
  BY DEF AppBody
<1>2. id \in Nat
  BY <1>1
<1>3. [tag |-> "frame", body |-> [kind |-> kind, key |-> key, size |-> size,
                                  routing |-> routing, id |-> id]] \in OwnItem(a)
  BY <1>1, <1>2, OwnIsTyped DEF OwnItem, Item, Frame
<1>. QED BY <1>1, <1>2, <1>3

-----------------------------------------------------------------------------
(* The inductive invariant.                                                *)

\* Before the first app connects there is no session, no window and no item.
LEMMA InitIInv == Init => IInv
<1>. SUFFICES ASSUME Init PROVE IInv
  OBVIOUS
<1>1. TypeOK
  BY QueueOps DEF Init, TypeOK
<1>2. SessionConsistent
  BY DEF Init, SessionConsistent
<1>3. SessionOwnership
  BY QueueOps DEF Init, SessionOwnership
<1>. QED BY <1>1, <1>2, <1>3 DEF IInv

USE DEF appVars, hostVars, opVars, ToHost, Taken, At

\* Type correctness is kept by every step that starts in a consistent session:
\* the host only touches the streams of a client it has.
LEMMA TypeStep == IInv /\ [Next]_vars => TypeOK'
<1>. SUFFICES ASSUME TypeOK, SessionConsistent, SessionOwnership, [Next]_vars PROVE TypeOK'
  BY DEF IInv
<1>. USE QueueOps DEF TypeOK
<1>1. ASSUME NEW a \in Apps, AppConnect(a) PROVE TypeOK'
  BY <1>1 DEF AppConnect
<1>2. ASSUME NEW a \in Apps, AppHello(a) PROVE TypeOK'
  BY <1>2, MarkIsOwn, OwnIsTyped DEF AppHello
<1>3. ASSUME NEW a \in Apps, AppLength(a) PROVE TypeOK'
  <2>1. Mark("len") \in Item /\ Mark("badlen") \in Item
    BY MarkIsOwn, OwnIsTyped
  <2>2. toHost' \in [Apps -> Seq(Item)]
    <3>1. CASE ToHost(a, Mark("len"))
      BY <2>1, <3>1
    <3>2. CASE ToHost(a, Mark("badlen"))
      BY <2>1, <3>2
    <3>. QED BY <1>3, <3>1, <3>2 DEF AppLength
  <2>4. sent' \in [Apps -> Nat]
    BY <1>3 DEF AppLength
  <2>3. app' \in [Apps -> {"idle", "connected", "ready", "midframe", "down"}]
    BY <1>3 DEF AppLength
  <2>. QED BY <1>3, <2>2, <2>3, <2>4 DEF AppLength
<1>4. ASSUME NEW a \in Apps, AppBody(a) PROVE TypeOK'
  <2>1. PICK i \in OwnItem(a), id \in Nat :
          ToHost(a, i) /\ waiting' = [waiting EXCEPT ![a] = id]
    BY <1>4, BodyWritten
  <2>2. toHost' \in [Apps -> Seq(Item)] /\ waiting' \in [Apps -> Nat]
    BY <2>1, OwnIsTyped
  <2>. QED BY <1>4, <2>2 DEF AppBody
<1>5. ASSUME NEW a \in Apps, AppRecv(a) PROVE TypeOK'
  BY <1>5 DEF AppRecv
<1>6. ASSUME NEW a \in Apps, AppDown(a) PROVE TypeOK'
  BY <1>6 DEF AppDown
<1>7. CASE OperatorWrites
  <2>1. control' \in Seq(Commands) /\ typed' \in Nat
    BY <1>7 DEF OperatorWrites
  <2>. QED BY <1>7, <2>1 DEF OperatorWrites
<1>8. CASE Accept
  BY <1>8 DEF Accept
<1>9. CASE ReadHello
  BY <1>9 DEF ReadHello
<1>10. CASE HelloLost
  BY <1>10 DEF HelloLost
<1>11. CASE Select
  <2>1. PICK n \in 0..Len(control) : /\ lines' = SubSeq(control, 1, n)
                                     /\ control' = SubSeq(control, n + 1, Len(control))
    <3>. DEFINE n == IF Len(control) < ChunkLines THEN Len(control) ELSE ChunkLines
    <3>1. n \in 0..Len(control)
      BY ChunkSize, LenProperties
    <3>2. lines' = SubSeq(control, 1, n) /\ control' = SubSeq(control, n + 1, Len(control))
      BY <1>11 DEF Select
    <3>. QED BY <3>1, <3>2
  <2>2. lines' \in Seq(Commands) /\ control' \in Seq(Commands)
    BY <2>1, QueueSplit
  <2>3. clientReady' \in BOOLEAN
    BY <1>11 DEF Select, Readable
  <2>. QED BY <1>11, <2>2, <2>3 DEF Select
<1>12. CASE HandleLine
  <2>1. client \in Apps /\ g_window \in KeysOf(client)
    BY <1>12 DEF HandleLine, SessionConsistent, SessionOwnership
  <2>2. Head(lines) \in Commands
    BY <1>12 DEF HandleLine
  <2>3. todo' \in Seq(OwnMessage(client))
    BY <1>12, <2>1, <2>2, LineMsgsOwn DEF HandleLine
  <2>4. todo' \in Seq(Message)
    BY <2>1, <2>3, OwnIsTyped, SeqMonotonic
  <2>. QED BY <1>12, <2>4 DEF HandleLine
<1>13. CASE Quit
  BY <1>13 DEF Quit, HostDies
<1>14. CASE ControlDone
  BY <1>14 DEF ControlDone
<1>15. CASE ReadLength
  BY <1>15 DEF ReadLength
<1>16. CASE BadLength
  BY <1>16 DEF BadLength, CloseSession
<1>17. CASE ReadBody
  <2>1. client \in Apps /\ g_window \in KeysOf(client)
    BY <1>17 DEF ReadBody, SessionConsistent, SessionOwnership
  <2>2. Head(toHost[client]) \in OwnItem(client)
    BY <1>17, <2>1 DEF ReadBody, SessionOwnership
  <2>3. /\ g_window' \in KeysOf(client) /\ g_size' \in Apps \union {NoSize}
        /\ todo' \in Seq(OwnMessage(client))
    BY <1>17, <2>1, <2>2, BodyOwn DEF ReadBody
  <2>4. g_window' \in Windows \union {NoWindow} /\ todo' \in Seq(Message)
    BY <2>1, <2>3, OwnIsTyped, SeqMonotonic
  <2>. QED BY <1>17, <2>3, <2>4 DEF ReadBody
<1>18. CASE EndOfStream
  BY <1>18 DEF EndOfStream, CloseSession
<1>19. CASE SendOne
  BY <1>19 DEF SendOne
<1>20. CASE SigPipe
  BY <1>20 DEF SigPipe, HostDies
<1>21. CASE SendFails
  BY <1>21, QueueOps DEF SendFails
<1>22. CASE SelectFails
  BY <1>22 DEF SelectFails, CloseSession
<1>23. CASE UNCHANGED vars
  BY <1>23 DEF vars
<1>. QED
  BY <1>1, <1>2, <1>3, <1>4, <1>5, <1>6, <1>7, <1>8, <1>9, <1>10, <1>11, <1>12, <1>13,
     <1>14, <1>15, <1>16, <1>17, <1>18, <1>19, <1>20, <1>21, <1>22, <1>23
     DEF Next, HostStep, AppStep
\* The session is opened by accept() and ended by the three ways out of it.
LEMMA SessionStep == IInv /\ [Next]_vars => SessionConsistent'
<1>. SUFFICES ASSUME TypeOK, SessionConsistent, SessionOwnership, [Next]_vars
              PROVE  SessionConsistent'
  BY DEF IInv
<1>. USE DEF SessionConsistent
<1>1. ASSUME NEW a \in Apps, AppConnect(a) PROVE SessionConsistent'
  BY <1>1 DEF AppConnect, TypeOK, SessionOwnership
<1>2. ASSUME NEW a \in Apps, AppHello(a) PROVE SessionConsistent'
  BY <1>2 DEF AppHello, TypeOK
<1>3. ASSUME NEW a \in Apps, AppLength(a) PROVE SessionConsistent'
  BY <1>3 DEF AppLength, TypeOK
<1>4. ASSUME NEW a \in Apps, AppBody(a) PROVE SessionConsistent'
  BY <1>4 DEF AppBody, TypeOK
<1>5. ASSUME NEW a \in Apps, AppRecv(a) PROVE SessionConsistent'
  BY <1>5 DEF AppRecv, TypeOK
<1>6. ASSUME NEW a \in Apps, AppDown(a) PROVE SessionConsistent'
  BY <1>6 DEF AppDown, TypeOK
<1>7. CASE OperatorWrites
  BY <1>7 DEF OperatorWrites, TypeOK
<1>8. CASE Accept
  <2>1. Head(backlog) \in Apps /\ NoApp \notin Apps
    BY <1>8, QueueOps DEF Accept, TypeOK
  <2>2. client' = Head(backlog) /\ status' = "hello" /\ todo' = <<>>
        /\ conn' = [conn EXCEPT ![Head(backlog)] = "open"]
    BY <1>8 DEF Accept
  <2>3. \A b \in Apps : conn[b] # "open"
    BY <1>8 DEF Accept
  <2>. QED BY <2>1, <2>2, <2>3 DEF TypeOK
<1>9. CASE ReadHello
  BY <1>9 DEF ReadHello, TypeOK
<1>10. CASE HelloLost
  BY <1>10 DEF HelloLost, TypeOK
<1>11. CASE Select
  BY <1>11 DEF Select, TypeOK
<1>12. CASE HandleLine
  BY <1>12 DEF HandleLine, TypeOK
<1>13. CASE Quit
  BY <1>13 DEF Quit, HostDies, TypeOK
<1>14. CASE ControlDone
  BY <1>14 DEF ControlDone, TypeOK
<1>15. CASE ReadLength
  BY <1>15 DEF ReadLength, TypeOK
<1>16. CASE BadLength
  BY <1>16 DEF BadLength, CloseSession, TypeOK
<1>17. CASE ReadBody
  BY <1>17 DEF ReadBody, TypeOK
<1>18. CASE EndOfStream
  BY <1>18 DEF EndOfStream, CloseSession, TypeOK
<1>19. CASE SendOne
  BY <1>19 DEF SendOne, TypeOK
<1>20. CASE SigPipe
  BY <1>20 DEF SigPipe, HostDies, TypeOK
<1>21. CASE SendFails
  BY <1>21 DEF SendFails, TypeOK
<1>22. CASE SelectFails
  BY <1>22 DEF SelectFails, CloseSession, TypeOK
<1>23. CASE UNCHANGED vars
  BY <1>23 DEF vars
<1>. QED
  BY <1>1, <1>2, <1>3, <1>4, <1>5, <1>6, <1>7, <1>8, <1>9, <1>10, <1>11, <1>12, <1>13,
     <1>14, <1>15, <1>16, <1>17, <1>18, <1>19, <1>20, <1>21, <1>22, <1>23
     DEF Next, HostStep, AppStep

\* Connecting and accepting leave an app that has not connected without a
\* connection and out of the backlog.
LEMMA ConnectSparesIdle ==
  ASSUME TypeOK, SessionOwnership, NEW a \in Apps, AppConnect(a),
         NEW b \in Apps, app'[b] = "idle"
  PROVE  conn'[b] = "none" /\ \A i \in DOMAIN backlog' : backlog'[i] # b
<1>1. b # a /\ app[b] = "idle" /\ conn'[b] = conn[b]
  BY DEF AppConnect, TypeOK
<1>2. backlog \in Seq(Apps) /\ backlog' = Append(backlog, a)
  BY DEF AppConnect, TypeOK
<1>3. conn[b] = "none" /\ \A i \in DOMAIN backlog : backlog[i] # b
  BY <1>1 DEF SessionOwnership
<1>4. ASSUME NEW i \in DOMAIN Append(backlog, a) PROVE Append(backlog, a)[i] # b
  <2>1. (i \in DOMAIN backlog /\ Append(backlog, a)[i] = backlog[i])
        \/ Append(backlog, a)[i] = a
    BY <1>2, QueueAdd
  <2>. QED BY <2>1, <1>1, <1>3
<1>. QED BY <1>1, <1>2, <1>3, <1>4

\* An accept leaves an app that is idle out of the backlog and without a connection.
LEMMA AcceptSparesIdle ==
  ASSUME TypeOK, SessionOwnership, Accept, NEW b \in Apps, app'[b] = "idle"
  PROVE  conn'[b] = "none" /\ \A i \in DOMAIN backlog' : backlog'[i] # b
<1>1. backlog \in Seq(Apps) /\ backlog # <<>> /\ backlog' = Tail(backlog)
      /\ conn' = [conn EXCEPT ![Head(backlog)] = "open"] /\ app' = app
  BY DEF Accept, TypeOK, appVars
<1>2. conn[b] = "none" /\ \A i \in DOMAIN backlog : backlog[i] # b
  BY <1>1 DEF SessionOwnership
<1>3. Head(backlog) # b
  BY <1>1, <1>2, QueueTake
<1>4. conn'[b] = conn[b]
  BY <1>1, <1>3 DEF TypeOK
<1>5. ASSUME NEW i \in DOMAIN Tail(backlog) PROVE Tail(backlog)[i] # b
  BY <1>1, <1>2, QueueTake
<1>. QED BY <1>1, <1>2, <1>4, <1>5

\* Ownership: an app writes its own keys, a handler turns them into messages for
\* the same app, and the end of the session forgets the window.
LEMMA OwnershipStep == IInv /\ [Next]_vars => SessionOwnership'
<1>. SUFFICES ASSUME TypeOK, SessionConsistent, SessionOwnership, [Next]_vars
              PROVE  SessionOwnership'
  BY DEF IInv
<1>. USE QueueOps DEF SessionOwnership
<1>1. ASSUME NEW a \in Apps, AppConnect(a) PROVE SessionOwnership'
  <2>1. \A b \in Apps : app'[b] = "idle" =>
          conn'[b] = "none" /\ \A i \in DOMAIN backlog' : backlog'[i] # b
    BY <1>1, ConnectSparesIdle
  <2>. QED BY <1>1, <2>1 DEF AppConnect
<1>2. ASSUME NEW a \in Apps, AppHello(a) PROVE SessionOwnership'
  <2>1. Mark("hello") \in OwnItem(a)
    BY MarkIsOwn
  <2>2. \A b \in Apps : toHost'[b] \in Seq(OwnItem(b))
    BY <1>2, <2>1 DEF AppHello, TypeOK
  <2>. QED BY <1>2, <2>2 DEF AppHello, TypeOK
<1>3. ASSUME NEW a \in Apps, AppLength(a) PROVE SessionOwnership'
  <2>1. Mark("len") \in OwnItem(a) /\ Mark("badlen") \in OwnItem(a)
    BY MarkIsOwn
  <2>2. \A b \in Apps : toHost'[b] \in Seq(OwnItem(b))
    <3>1. CASE ToHost(a, Mark("len"))
      BY <2>1, <3>1 DEF TypeOK
    <3>2. CASE ToHost(a, Mark("badlen"))
      BY <2>1, <3>2 DEF TypeOK
    <3>. QED BY <1>3, <3>1, <3>2 DEF AppLength
  <2>3. \A b \in Apps : app'[b] = "idle" => app[b] = "idle"
    BY <1>3 DEF AppLength, TypeOK
  <2>. QED BY <1>3, <2>2, <2>3 DEF AppLength
<1>4. ASSUME NEW a \in Apps, AppBody(a) PROVE SessionOwnership'
  <2>1. PICK i \in OwnItem(a) : ToHost(a, i)
    BY <1>4, BodyWritten DEF TypeOK
  <2>2. \A b \in Apps : toHost'[b] \in Seq(OwnItem(b))
    BY <2>1 DEF TypeOK
  <2>. QED BY <1>4, <2>2 DEF AppBody, TypeOK
<1>5. ASSUME NEW a \in Apps, AppRecv(a) PROVE SessionOwnership'
  BY <1>5 DEF AppRecv, TypeOK, SessionConsistent
<1>6. ASSUME NEW a \in Apps, AppDown(a) PROVE SessionOwnership'
  BY <1>6 DEF AppDown, TypeOK, SessionConsistent
<1>7. CASE OperatorWrites
  BY <1>7 DEF OperatorWrites, TypeOK, SessionConsistent
<1>8. CASE Accept
  <2>1. \A b \in Apps : app'[b] = "idle" =>
          conn'[b] = "none" /\ \A i \in DOMAIN backlog' : backlog'[i] # b
    BY <1>8, AcceptSparesIdle
  <2>2. g_window' = NoWindow /\ todo' = <<>> /\ client' \in Apps
    BY <1>8 DEF Accept, SessionConsistent, TypeOK
  <2>3. todo' \in Seq(OwnMessage(client')) /\ g_window' \in KeysOf(client')
    BY <2>2 DEF KeysOf
  <2>. QED BY <1>8, <2>1, <2>2, <2>3 DEF Accept
<1>9. CASE ReadHello
  BY <1>9 DEF ReadHello, TypeOK, SessionConsistent
<1>10. CASE HelloLost
  BY <1>10 DEF HelloLost, TypeOK, SessionConsistent
<1>11. CASE Select
  BY <1>11 DEF Select, TypeOK, SessionConsistent
<1>12. CASE HandleLine
  <2>1. client \in Apps /\ g_window \in KeysOf(client) /\ Head(lines) \in Commands
    BY <1>12 DEF HandleLine, TypeOK, SessionConsistent
  <2>2. todo' \in Seq(OwnMessage(client))
    BY <1>12, <2>1, LineMsgsOwn DEF HandleLine
  <2>. QED BY <1>12, <2>1, <2>2 DEF HandleLine, TypeOK
<1>13. CASE Quit
  BY <1>13 DEF Quit, HostDies, TypeOK, SessionConsistent
<1>14. CASE ControlDone
  BY <1>14 DEF ControlDone, TypeOK, SessionConsistent
<1>15. CASE ReadLength
  BY <1>15 DEF ReadLength, TypeOK, SessionConsistent
<1>16. CASE BadLength
  BY <1>16 DEF BadLength, CloseSession, TypeOK, SessionConsistent
<1>17. CASE ReadBody
  <2>1. client \in Apps /\ g_window \in KeysOf(client) /\ g_size \in Apps \union {NoSize}
    BY <1>17 DEF ReadBody, TypeOK, SessionConsistent
  <2>2. Head(toHost[client]) \in OwnItem(client)
    BY <1>17, <2>1 DEF ReadBody
  <2>3. g_window' \in KeysOf(client) /\ todo' \in Seq(OwnMessage(client))
    BY <1>17, <2>1, <2>2, BodyOwn DEF ReadBody
  <2>4. \A b \in Apps : toHost'[b] \in Seq(OwnItem(b))
    BY <1>17 DEF ReadBody, TypeOK
  <2>. QED BY <1>17, <2>1, <2>3, <2>4 DEF ReadBody, TypeOK
<1>18. CASE EndOfStream
  BY <1>18 DEF EndOfStream, CloseSession, TypeOK, SessionConsistent
<1>19. CASE SendOne
  BY <1>19 DEF SendOne, TypeOK, SessionConsistent
<1>20. CASE SigPipe
  BY <1>20 DEF SigPipe, HostDies, TypeOK, SessionConsistent
<1>21. CASE SendFails
  BY <1>21 DEF SendFails, TypeOK, SessionConsistent
<1>22. CASE SelectFails
  BY <1>22 DEF SelectFails, CloseSession, TypeOK, SessionConsistent
<1>23. CASE UNCHANGED vars
  BY <1>23 DEF vars
<1>. QED
  BY <1>1, <1>2, <1>3, <1>4, <1>5, <1>6, <1>7, <1>8, <1>9, <1>10, <1>11, <1>12, <1>13,
     <1>14, <1>15, <1>16, <1>17, <1>18, <1>19, <1>20, <1>21, <1>22, <1>23
     DEF Next, HostStep, AppStep
-----------------------------------------------------------------------------
(* The theorems.                                                           *)

\* Every reachable state of the host, its sockets and its apps satisfies the
\* inductive invariant.
THEOREM Invariance == Spec => []IInv
<1>1. IInv /\ [Next]_vars => IInv'
  BY TypeStep, SessionStep, OwnershipStep DEF IInv
<1>. QED BY <1>1, InitIInv, PTL DEF Spec

\* Type correctness of main()'s state, the streams and the handlers' messages.
THEOREM TypeCorrect == Spec => []TypeOK
<1>1. IInv => TypeOK
  BY DEF IInv
<1>. QED BY <1>1, Invariance, PTL

\* g_client names the one open connection exactly while a session lasts.
THEOREM SessionCorrect == Spec => []SessionConsistent
<1>1. IInv => SessionConsistent
  BY DEF IInv
<1>. QED BY <1>1, Invariance, PTL

\* No app is ever sent a message routed to another app's window, whatever the
\* order of sessions, control lines, short frames and deaths.
THEOREM RoutingCorrect == Spec => []RoutingIsOwn
<1>1. IInv => RoutingIsOwn
  <2>. SUFFICES ASSUME IInv, NEW a \in Apps, NEW i \in DOMAIN toApp[a]
                PROVE  toApp[a][i].routing \in KeysOf(a)
    BY DEF RoutingIsOwn
  <2>1. toApp[a] \in Seq(OwnMessage(a))
    BY DEF IInv, SessionOwnership
  <2>2. toApp[a][i] \in OwnMessage(a)
    BY <2>1, LenProperties, ElementOfSeq
  <2>. QED BY <2>2 DEF OwnMessage
<1>. QED BY <1>1, Invariance, PTL

-----------------------------------------------------------------------------
(* The backlog.                                                            *)

\* Who waits in the backlog waits there once, and has been sent nothing.
BacklogUnserved ==
  /\ \A i \in DOMAIN backlog : conn[backlog[i]] = "queued"
  /\ \A i, j \in DOMAIN backlog : backlog[i] = backlog[j] => i = j
  /\ \A a \in Apps : conn[a] \in {"none", "queued"} => toApp[a] = <<>>

\* A new connection goes to the end of the backlog, and was not in it.
LEMMA ConnectQueues ==
  ASSUME IInv, BacklogUnserved, NEW a \in Apps, AppConnect(a)
  PROVE  BacklogUnserved'
<1>1. /\ app[a] = "idle" /\ backlog \in Seq(Apps) /\ backlog' = Append(backlog, a)
      /\ conn' = [conn EXCEPT ![a] = "queued"] /\ toApp' = toApp
      /\ conn \in [Apps -> {"none", "queued", "open", "closed"}]
  BY DEF AppConnect, IInv, TypeOK
<1>2. conn[a] = "none" /\ \A i \in DOMAIN backlog : backlog[i] # a
  BY <1>1 DEF IInv, SessionOwnership
<1>3. \A b \in Apps : conn'[b] \in {"none", "queued"} => toApp'[b] = <<>>
  BY <1>1, <1>2 DEF BacklogUnserved
<1>. DEFINE n == Len(backlog)
            q == Append(backlog, a)
<1>4. /\ n \in Nat /\ DOMAIN backlog = 1..n /\ DOMAIN q = 1..(n + 1)
      /\ q[n + 1] = a /\ \A i \in 1..n : q[i] = backlog[i] /\ backlog[i] \in Apps
  BY <1>1, AppendProperties, LenProperties, ElementOfSeq
<1>. HIDE DEF n, q
<1>5. \A i \in 1..n : conn'[q[i]] = "queued" /\ q[i] # a
  BY <1>1, <1>2, <1>4 DEF BacklogUnserved
<1>6. conn'[q[n + 1]] = "queued"
  BY <1>1, <1>4
<1>7. \A i, j \in 1..n : q[i] = q[j] => i = j
  BY <1>4 DEF BacklogUnserved
<1>8. \A i \in DOMAIN q : conn'[q[i]] = "queued"
  BY <1>4, <1>5, <1>6
<1>9. \A i, j \in DOMAIN q : q[i] = q[j] => i = j
  BY <1>4, <1>5, <1>7
<1>. QED BY <1>1, <1>3, <1>8, <1>9 DEF BacklogUnserved, q

\* accept() takes the first of the backlog: it was waiting, and waits no more.
LEMMA AcceptTakes ==
  ASSUME IInv, BacklogUnserved, Accept
  PROVE  BacklogUnserved' /\ client' \in Apps /\ conn[client'] = "queued"
<1>1. /\ backlog \in Seq(Apps) /\ backlog # <<>> /\ backlog' = Tail(backlog)
      /\ client' = Head(backlog) /\ toApp' = toApp
      /\ conn' = [conn EXCEPT ![Head(backlog)] = "open"]
      /\ conn \in [Apps -> {"none", "queued", "open", "closed"}]
  BY DEF Accept, IInv, TypeOK
<1>2. 1 \in DOMAIN backlog /\ Head(backlog) = backlog[1] /\ Head(backlog) \in Apps
  BY <1>1, QueueTake, QueueOps
<1>3. client' \in Apps /\ conn[client'] = "queued"
  BY <1>1, <1>2 DEF BacklogUnserved
<1>. DEFINE q == Tail(backlog)
<1>4. \A i \in DOMAIN q : /\ i \in Nat /\ i > 0
                          /\ i + 1 \in DOMAIN backlog /\ q[i] = backlog[i + 1]
  <2>1. q \in Seq(Apps)
    BY <1>1, QueueOps
  <2>2. \A i \in DOMAIN q : i \in Nat /\ i > 0
    BY <2>1, LenProperties
  <2>. QED BY <1>1, <2>2, QueueTake
<1>. HIDE DEF q
<1>5. \A i \in DOMAIN q : q[i] # Head(backlog)
  <2>. SUFFICES ASSUME NEW i \in DOMAIN q, q[i] = Head(backlog) PROVE FALSE
    OBVIOUS
  <2>1. i + 1 = 1
    BY <1>2, <1>4 DEF BacklogUnserved
  <2>. QED BY <1>4, <2>1
<1>6. \A i \in DOMAIN q : conn'[q[i]] = "queued"
  BY <1>1, <1>4, <1>5 DEF BacklogUnserved
<1>7. \A i, j \in DOMAIN q : q[i] = q[j] => i = j
  <2>. SUFFICES ASSUME NEW i \in DOMAIN q, NEW j \in DOMAIN q, q[i] = q[j]
                PROVE  i = j
    OBVIOUS
  <2>1. i + 1 = j + 1
    BY <1>4 DEF BacklogUnserved
  <2>. QED BY <1>4, <2>1
<1>8. \A b \in Apps : conn'[b] \in {"none", "queued"} => toApp'[b] = <<>>
  BY <1>1 DEF BacklogUnserved
<1>. QED BY <1>1, <1>3, <1>6, <1>7, <1>8 DEF BacklogUnserved, q

\* A step that leaves the backlog alone, and the connections of those who wait,
\* and sends nothing to who is not being served.
LEMMA BacklogKept ==
  ASSUME IInv, BacklogUnserved, backlog' = backlog,
         \A b \in Apps :
           /\ conn'[b] = conn[b] \/ (conn[b] = "open" /\ conn'[b] = "closed")
           /\ toApp'[b] = toApp[b] \/ toApp'[b] = <<>> \/ conn[b] = "open"
              \/ toApp[b] # <<>>
  PROVE  BacklogUnserved'
<1>1. \A i \in DOMAIN backlog : backlog[i] \in Apps
  BY LenProperties, ElementOfSeq DEF IInv, TypeOK
<1>. QED BY <1>1 DEF BacklogUnserved

\* The end of the host empties the backlog.
LEMMA BacklogGone ==
  ASSUME BacklogUnserved, NEW how, HostDies(how), toApp' = toApp
  PROVE  BacklogUnserved'
<1>1. backlog' = <<>> /\ DOMAIN <<>> = {}
  BY DEF HostDies
<1>2. \A b \in Apps : conn'[b] \in {"none", "queued"} => conn[b] = "none"
  BY DEF HostDies
<1>. QED BY <1>1, <1>2 DEF BacklogUnserved

\* Every step keeps the backlog one of apps that wait once and were sent nothing.
LEMMA BacklogStep == IInv /\ BacklogUnserved /\ [Next]_vars => BacklogUnserved'
<1>. SUFFICES ASSUME IInv, BacklogUnserved, [Next]_vars PROVE BacklogUnserved'
  OBVIOUS
<1>0. TypeOK /\ SessionConsistent
  BY DEF IInv
<1>1. ASSUME NEW a \in Apps, AppConnect(a) PROVE BacklogUnserved'
  BY <1>1, ConnectQueues
<1>2. ASSUME NEW a \in Apps, AppHello(a) \/ AppLength(a) \/ AppBody(a)
      PROVE  BacklogUnserved'
  BY <1>2, BacklogKept DEF AppHello, AppLength, AppBody
<1>5. ASSUME NEW a \in Apps, AppRecv(a) PROVE BacklogUnserved'
  <2>1. \A b \in Apps : toApp'[b] = toApp[b] \/ toApp[b] # <<>>
    BY <1>0, <1>5 DEF AppRecv, TypeOK
  <2>. QED BY <1>5, <2>1, BacklogKept DEF AppRecv
<1>6. ASSUME NEW a \in Apps, AppDown(a) PROVE BacklogUnserved'
  <2>1. \A b \in Apps : toApp'[b] = toApp[b] \/ toApp'[b] = <<>>
    BY <1>0, <1>6 DEF AppDown, TypeOK
  <2>. QED BY <1>6, <2>1, BacklogKept DEF AppDown
<1>7. CASE OperatorWrites \/ ReadHello \/ Select \/ HandleLine \/ ControlDone
           \/ ReadLength \/ ReadBody \/ SendFails \/ UNCHANGED vars
  BY <1>7, BacklogKept
     DEF OperatorWrites, ReadHello, Select, HandleLine, ControlDone, ReadLength,
         ReadBody, SendFails, vars
<1>8. CASE Accept
  BY <1>8, AcceptTakes
<1>9. CASE HelloLost \/ BadLength \/ EndOfStream \/ SelectFails
  <2>1. client # NoApp
    BY <1>0, <1>9 DEF HelloLost, BadLength, EndOfStream, SelectFails, SessionConsistent
  <2>2. \A b \in Apps :
          conn'[b] = conn[b] \/ (conn[b] = "open" /\ conn'[b] = "closed")
    BY <1>0, <1>9, <2>1
       DEF HelloLost, BadLength, EndOfStream, SelectFails, CloseSession, TypeOK, SessionConsistent
  <2>. QED BY <1>9, <2>2, BacklogKept
           DEF HelloLost, BadLength, EndOfStream, SelectFails, CloseSession
<1>10. CASE SendOne
  <2>1. client # NoApp /\ \A b \in Apps : toApp'[b] = toApp[b] \/ conn[b] = "open"
    BY <1>0, <1>10 DEF SendOne, TypeOK, SessionConsistent
  <2>. QED BY <1>10, <2>1, BacklogKept DEF SendOne
<1>11. CASE Quit \/ SigPipe
  BY <1>11, BacklogGone DEF Quit, SigPipe
<1>. QED
  BY <1>1, <1>2, <1>5, <1>6, <1>7, <1>8, <1>9, <1>10, <1>11
     DEF Next, HostStep, AppStep

-----------------------------------------------------------------------------
(* The stream of an app.                                                   *)

\* What may follow what in a stream: the hello, then lengths, each with its
\* body or rejected.  "start" stands before the hello.
Comes(prev, next) ==
  /\ prev = "start" => next = "hello"
  /\ prev = "len" => next = "frame"
  /\ prev \notin {"start", "len"} => next \in {"len", "badlen"}

Stream(prev, s) ==
  \A i \in DOMAIN s : /\ i = 1 => Comes(prev, s[i].tag)
                      /\ i > 1 => Comes(s[i - 1].tag, s[i].tag)

Ending(prev, s) == IF s = <<>> THEN prev ELSE s[Len(s)].tag

\* What the host has read last from app a's stream, as its place in main() tells.
Before(a) == IF client # a \/ status = "hello" THEN "start"
             ELSE IF status = "body" THEN "len" ELSE "frame"

\* What the app will write next agrees with what it wrote last.
Writes(state, last) ==
  state # "down" => /\ (state \in {"idle", "connected"}) <=> (last = "start")
                    /\ (state = "midframe") <=> (last = "len")

\* FramingInSync made inductive: it speaks of every unit in the stream, of what
\* the host read before it and of what the app writes after it.
StreamsFramed ==
  \A a \in Apps : conn[a] # "closed" =>
    Stream(Before(a), toHost[a]) /\ Writes(app[a], Ending(Before(a), toHost[a]))

\* What is appended continues the stream from its ending.
LEMMA StreamAdd ==
  ASSUME NEW prev, NEW s \in Seq(Item), NEW e \in Item,
         Stream(prev, s), Comes(Ending(prev, s), e.tag)
  PROVE  Stream(prev, Append(s, e)) /\ Ending(prev, Append(s, e)) = e.tag
<1>. DEFINE t == Append(s, e)
<1>1. /\ Len(s) \in Nat /\ DOMAIN s = 1..Len(s) /\ (s = <<>> <=> Len(s) = 0)
      /\ t \in Seq(Item) /\ Len(t) = Len(s) + 1 /\ DOMAIN t = 1..(Len(s) + 1)
      /\ \A i \in 1..Len(s) : t[i] = s[i]
      /\ t[Len(s) + 1] = e /\ t # <<>>
  BY AppendProperties, EmptySeq, LenProperties
<1>. HIDE DEF t
<1>2. ASSUME NEW i \in DOMAIN t
      PROVE  /\ i = 1 => Comes(prev, t[i].tag)
             /\ i > 1 => Comes(t[i - 1].tag, t[i].tag)
  <2>1. CASE i \in 1..Len(s)
    BY <1>1, <2>1 DEF Stream
  <2>2. CASE i = Len(s) + 1 /\ Len(s) = 0
    BY <1>1, <2>2 DEF Ending
  <2>3. CASE i = Len(s) + 1 /\ Len(s) # 0
    BY <1>1, <2>3 DEF Ending
  <2>. QED BY <1>1, <2>1, <2>2, <2>3
<1>. QED BY <1>1, <1>2 DEF Stream, Ending, t

\* What is taken from the head comes after what was read before it, and the
\* rest comes after what is taken.
LEMMA StreamTake ==
  ASSUME NEW prev, NEW s \in Seq(Item), s # <<>>, Stream(prev, s)
  PROVE  /\ Comes(prev, Head(s).tag)
         /\ Stream(Head(s).tag, Tail(s))
         /\ Ending(Head(s).tag, Tail(s)) = Ending(prev, s)
<1>. DEFINE t == Tail(s)
<1>1. /\ Len(s) \in Nat \ {0} /\ DOMAIN s = 1..Len(s) /\ Head(s) = s[1]
      /\ t \in Seq(Item) /\ Len(t) = Len(s) - 1 /\ DOMAIN t = 1..(Len(s) - 1)
      /\ \A i \in 1..(Len(s) - 1) : t[i] = s[i + 1]
      /\ (t = <<>> <=> Len(s) = 1)
  <2>1. /\ Len(s) \in Nat \ {0} /\ DOMAIN s = 1..Len(s) /\ Head(s) = s[1]
        /\ t \in Seq(Item) /\ Len(t) = Len(s) - 1
        /\ \A i \in 1..Len(t) : t[i] = s[i + 1]
    BY HeadTailProperties, EmptySeq, LenProperties
  <2>2. DOMAIN t = 1..Len(t) /\ (t = <<>> <=> Len(t) = 0)
    BY <2>1, EmptySeq, LenProperties
  <2>. HIDE DEF t
  <2>. QED BY <2>1, <2>2
<1>. HIDE DEF t
<1>2. Comes(prev, Head(s).tag)
  <2>1. 1 \in DOMAIN s
    BY <1>1
  <2>2. Comes(prev, s[1].tag)
    BY <2>1 DEF Stream
  <2>. QED BY <1>1, <2>2
<1>3. ASSUME NEW i \in DOMAIN t
      PROVE  /\ i = 1 => Comes(Head(s).tag, t[i].tag)
             /\ i > 1 => Comes(t[i - 1].tag, t[i].tag)
  <2>1. Comes(s[i].tag, s[i + 1].tag)
    <3>1. i + 1 \in DOMAIN s /\ i + 1 > 1 /\ (i + 1) - 1 = i
      BY <1>1
    <3>2. Comes(s[(i + 1) - 1].tag, s[i + 1].tag)
      BY <3>1 DEF Stream
    <3>. QED BY <3>1, <3>2
  <2>2. CASE i = 1
    BY <1>1, <2>1, <2>2
  <2>3. CASE i # 1
    <3>1. t[i - 1] = s[i] /\ t[i] = s[i + 1]
      BY <1>1, <2>3
    <3>. QED BY <2>1, <2>3, <3>1
  <2>. QED BY <2>2, <2>3
<1>4. Ending(Head(s).tag, t) = Ending(prev, s)
  <2>1. CASE Len(s) = 1
    BY <1>1, <2>1 DEF Ending
  <2>2. CASE Len(s) # 1
    <3>1. t[Len(t)] = s[Len(s)]
      BY <1>1, <2>2
    <3>. QED BY <1>1, <2>2, <3>1 DEF Ending
  <2>. QED BY <2>1, <2>2
<1>. QED BY <1>2, <1>3, <1>4 DEF Stream, t

\* After a hello, a rejected length or a frame a length comes next: which of the
\* three it was makes no difference to the rest.
LEMMA StreamAfter ==
  ASSUME NEW t \in {"hello", "badlen", "frame"}, NEW s \in Seq(Item), NEW state,
         Stream(t, s), Writes(state, Ending(t, s))
  PROVE  Stream("frame", s) /\ Writes(state, Ending("frame", s))
<1>1. Stream("frame", s)
  BY DEF Stream, Comes
<1>2. Writes(state, Ending("frame", s))
  BY DEF Ending, Writes
<1>. QED BY <1>1, <1>2

\* Before the first app connects no stream holds anything.
LEMMA StreamsInit == Init => StreamsFramed
<1>. SUFFICES ASSUME Init, NEW a \in Apps
              PROVE  Stream(Before(a), toHost[a])
                     /\ Writes(app[a], Ending(Before(a), toHost[a]))
  BY DEF StreamsFramed
<1>1. toHost[a] = <<>> /\ app[a] = "idle" /\ Before(a) = "start"
  BY DEF Init, Before
<1>2. Stream("start", <<>>) /\ Ending("start", <<>>) = "start"
  BY DEF Stream, Ending
<1>. QED BY <1>1, <1>2 DEF Writes

\* What an app writes continues its stream; the streams of the others stay.
LEMMA StreamWritten ==
  ASSUME IInv, StreamsFramed, NEW a \in Apps, NEW e \in Item,
         ToHost(a, e), UNCHANGED <<conn, client, status>>,
         app' = [app EXCEPT ![a] = app'[a]],
         conn[a] # "closed" =>
           /\ Comes(Ending(Before(a), toHost[a]), e.tag)
           /\ Writes(app'[a], e.tag)
  PROVE  StreamsFramed'
<1>. SUFFICES ASSUME NEW b \in Apps, conn[b] # "closed"
              PROVE  Stream(Before(b), toHost'[b])
                     /\ Writes(app'[b], Ending(Before(b), toHost'[b]))
  BY DEF StreamsFramed, Before
<1>1. toHost[b] \in Seq(Item) /\ toHost \in [Apps -> Seq(Item)]
  BY DEF IInv, TypeOK
<1>2. Stream(Before(b), toHost[b]) /\ Writes(app[b], Ending(Before(b), toHost[b]))
  BY DEF StreamsFramed
<1>3. CASE b = a
  <2>1. toHost'[b] = Append(toHost[b], e)
    BY <1>1, <1>3
  <2>2. Stream(Before(b), Append(toHost[b], e))
        /\ Ending(Before(b), Append(toHost[b], e)) = e.tag
    BY <1>1, <1>2, <1>3, StreamAdd
  <2>. QED BY <1>3, <2>1, <2>2
<1>4. CASE b # a
  <2>1. toHost'[b] = toHost[b] /\ app'[b] = app[b]
    BY <1>1, <1>4 DEF IInv, TypeOK
  <2>. QED BY <1>2, <2>1
<1>. QED BY <1>3, <1>4

\* What the host takes from its client's stream is what it read last.
LEMMA StreamRead ==
  ASSUME IInv, StreamsFramed, client # NoApp, toHost[client] # <<>>, Taken(client),
         UNCHANGED <<conn, client, app>>,
         LET tag == Head(toHost[client]).tag
         IN Comes(Before(client), tag) =>
              \/ tag = Before(client)'
              \/ tag \in {"hello", "badlen", "frame"} /\ Before(client)' = "frame"
  PROVE  StreamsFramed'
<1>. SUFFICES ASSUME NEW b \in Apps, conn[b] # "closed"
              PROVE  Stream(Before(b)', toHost'[b])
                     /\ Writes(app[b], Ending(Before(b)', toHost'[b]))
  BY DEF StreamsFramed
<1>1. toHost[b] \in Seq(Item) /\ toHost \in [Apps -> Seq(Item)] /\ client \in Apps
  BY DEF IInv, TypeOK
<1>2. Stream(Before(b), toHost[b]) /\ Writes(app[b], Ending(Before(b), toHost[b]))
  BY DEF StreamsFramed
<1>3. CASE b = client
  <2>. DEFINE h == Head(toHost[b]).tag
              rest == Tail(toHost[b])
  <2>1. toHost'[b] = rest /\ rest \in Seq(Item)
    BY <1>1, <1>3, HeadTailProperties
  <2>2. /\ Comes(Before(b), h) /\ Stream(h, rest)
        /\ Ending(h, rest) = Ending(Before(b), toHost[b])
    BY <1>1, <1>2, <1>3, StreamTake
  <2>3. \/ h = Before(b)'
        \/ h \in {"hello", "badlen", "frame"} /\ Before(b)' = "frame"
    BY <1>3, <2>2
  <2>. HIDE DEF h, rest
  <2>4. CASE h = Before(b)'
    BY <1>2, <2>1, <2>2, <2>4
  <2>5. CASE h \in {"hello", "badlen", "frame"} /\ Before(b)' = "frame"
    <3>1. Writes(app[b], Ending(h, rest))
      BY <1>2, <2>2
    <3>2. Stream("frame", rest) /\ Writes(app[b], Ending("frame", rest))
      BY <2>1, <2>2, <2>5, <3>1, StreamAfter
    <3>. QED BY <2>1, <2>5, <3>2
  <2>. QED BY <2>3, <2>4, <2>5
<1>4. CASE b # client
  <2>1. toHost'[b] = toHost[b]
    BY <1>1, <1>4
  <2>2. Before(b)' = Before(b)
    BY <1>4 DEF Before
  <2>. QED BY <1>2, <2>1, <2>2
<1>. QED BY <1>3, <1>4

\* A step that touches no stream and leaves the host where it is in each.
LEMMA StreamKept ==
  ASSUME StreamsFramed, toHost' = toHost,
         \A b \in Apps : conn'[b] # "closed" =>
           /\ conn[b] # "closed" /\ Before(b)' = Before(b)
           /\ \/ app'[b] \in {app[b], "down"}
              \/ {app[b], app'[b]} \subseteq {"idle", "connected"}
  PROVE  StreamsFramed'
<1>. SUFFICES ASSUME NEW b \in Apps, conn'[b] # "closed"
              PROVE  Stream(Before(b)', toHost[b])
                     /\ Writes(app'[b], Ending(Before(b)', toHost[b]))
  BY DEF StreamsFramed
<1>1. Stream(Before(b), toHost[b]) /\ Writes(app[b], Ending(Before(b), toHost[b]))
  BY DEF StreamsFramed
<1>. QED BY <1>1 DEF Writes

\* The framing of every stream survives every step: the app writes what comes next,
\* the host's place in main() follows what it takes, and the end of a session
\* leaves the stream for good.
LEMMA StreamStep ==
  IInv /\ BacklogUnserved /\ StreamsFramed /\ [Next]_vars => StreamsFramed'
<1>. SUFFICES ASSUME IInv, BacklogUnserved, StreamsFramed, [Next]_vars
              PROVE  StreamsFramed'
  OBVIOUS
<1>0. TypeOK /\ SessionConsistent
  BY DEF IInv
<1>. USE DEF Before
<1>1. ASSUME NEW a \in Apps, AppConnect(a) PROVE StreamsFramed'
  <2>1. conn[a] = "none"
    BY <1>1 DEF AppConnect, IInv, SessionOwnership
  <2>. QED BY <1>0, <1>1, <2>1, StreamKept DEF AppConnect, TypeOK
<1>2. ASSUME NEW a \in Apps, AppHello(a) PROVE StreamsFramed'
  <2>1. Mark("hello") \in Item /\ Mark("hello").tag = "hello"
    BY MarkIsOwn, OwnIsTyped DEF Mark
  <2>2. conn[a] # "closed" => Ending(Before(a), toHost[a]) = "start"
    BY <1>2 DEF AppHello, StreamsFramed, Writes
  <2>3. app' = [app EXCEPT ![a] = app'[a]] /\ app'[a] = "ready"
    BY <1>0, <1>2 DEF AppHello, TypeOK
  <2>4. Comes("start", "hello") /\ Writes("ready", "hello")
    BY DEF Comes, Writes
  <2>. HIDE DEF Before
  <2>. QED BY <1>2, <2>1, <2>2, <2>3, <2>4, StreamWritten DEF AppHello
<1>3. ASSUME NEW a \in Apps, AppLength(a) PROVE StreamsFramed'
  <2>1. /\ Mark("len") \in Item /\ Mark("len").tag = "len"
        /\ Mark("badlen") \in Item /\ Mark("badlen").tag = "badlen"
    BY MarkIsOwn, OwnIsTyped DEF Mark
  <2>2. Ending(Before(a), toHost[a]) \notin {"start", "len"}
    BY <1>3 DEF AppLength, StreamsFramed, Writes
  <2>3. \/ ToHost(a, Mark("len")) /\ app' = [app EXCEPT ![a] = "midframe"]
        \/ ToHost(a, Mark("badlen")) /\ UNCHANGED app
    BY <1>3 DEF AppLength
  <2>4. /\ Comes(Ending(Before(a), toHost[a]), "len")
        /\ Comes(Ending(Before(a), toHost[a]), "badlen")
        /\ Writes("midframe", "len") /\ Writes("ready", "badlen")
    BY <2>2 DEF Comes, Writes
  <2>. HIDE DEF Before
  <2>5. CASE ToHost(a, Mark("len")) /\ app' = [app EXCEPT ![a] = "midframe"]
    <3>1. app' = [app EXCEPT ![a] = app'[a]] /\ app'[a] = "midframe"
      BY <1>0, <2>5 DEF TypeOK
    <3>. QED BY <1>3, <2>1, <2>4, <2>5, <3>1, StreamWritten DEF AppLength
  <2>6. CASE ToHost(a, Mark("badlen")) /\ UNCHANGED app
    <3>1. app' = [app EXCEPT ![a] = app'[a]] /\ app'[a] = "ready"
      BY <1>0, <1>3, <2>6 DEF TypeOK, AppLength
    <3>. QED BY <1>3, <2>1, <2>4, <2>6, <3>1, StreamWritten DEF AppLength
  <2>. QED BY <2>3, <2>5, <2>6
<1>4. ASSUME NEW a \in Apps, AppBody(a) PROVE StreamsFramed'
  <2>1. PICK i \in Item : ToHost(a, i) /\ i.tag = "frame"
    BY <1>0, <1>4, BodyWritten, OwnIsTyped DEF TypeOK
  <2>2. Ending(Before(a), toHost[a]) = "len"
    BY <1>4 DEF AppBody, StreamsFramed, Writes
  <2>3. app' = [app EXCEPT ![a] = app'[a]] /\ app'[a] = "ready"
    BY <1>0, <1>4 DEF AppBody, TypeOK
  <2>4. Comes("len", "frame") /\ Writes("ready", "frame")
    BY DEF Comes, Writes
  <2>5. UNCHANGED <<conn, client, status>>
    BY <1>4 DEF AppBody
  <2>. HIDE DEF Before
  <2>. QED BY <2>1, <2>2, <2>3, <2>4, <2>5, StreamWritten
<1>5. ASSUME NEW a \in Apps, AppRecv(a) PROVE StreamsFramed'
  BY <1>5, StreamKept DEF AppRecv
<1>6. ASSUME NEW a \in Apps, AppDown(a) PROVE StreamsFramed'
  BY <1>0, <1>6, StreamKept DEF AppDown, TypeOK
<1>7. CASE OperatorWrites
  BY <1>7, StreamKept DEF OperatorWrites
<1>8. CASE Accept
  <2>1. client' \in Apps /\ conn[client'] = "queued"
    BY <1>8, AcceptTakes
  <2>. QED BY <1>0, <1>8, <2>1, StreamKept DEF Accept, TypeOK, SessionConsistent
<1>9. CASE ReadHello
  <2>1. client # NoApp /\ Before(client) = "start" /\ Before(client)' = "frame"
    BY <1>0, <1>9 DEF ReadHello, SessionConsistent
  <2>. HIDE DEF Before
  <2>. QED BY <1>9, <2>1, StreamRead DEF ReadHello, Comes
<1>10. CASE HelloLost
  BY <1>0, <1>10, StreamKept DEF HelloLost, TypeOK, SessionConsistent
<1>11. CASE Select
  BY <1>11, StreamKept DEF Select
<1>12. CASE HandleLine
  BY <1>12, StreamKept DEF HandleLine
<1>13. CASE Quit
  BY <1>0, <1>13, StreamKept DEF Quit, HostDies, TypeOK, SessionConsistent
<1>14. CASE ControlDone
  BY <1>14, StreamKept DEF ControlDone
<1>15. CASE ReadLength
  <2>1. client # NoApp /\ Before(client)' = "len"
    BY <1>0, <1>15 DEF ReadLength, SessionConsistent
  <2>. HIDE DEF Before
  <2>. QED BY <1>15, <2>1, StreamRead DEF ReadLength
<1>16. CASE BadLength
  <2>1. \A b \in Apps : conn'[b] # "closed" =>
          b # client /\ conn[b] = conn'[b] /\ toHost'[b] = toHost[b]
    BY <1>0, <1>16 DEF BadLength, CloseSession, TypeOK
  <2>2. ASSUME NEW b \in Apps, conn'[b] # "closed"
        PROVE  Stream(Before(b)', toHost'[b])
               /\ Writes(app'[b], Ending(Before(b)', toHost'[b]))
    <3>1. Before(b) = "start" /\ Before(b)' = "start" /\ app'[b] = app[b]
      BY <1>16, <2>1, <2>2 DEF BadLength, CloseSession
    <3>2. Stream(Before(b), toHost[b]) /\ Writes(app[b], Ending(Before(b), toHost[b]))
      BY <2>1, <2>2 DEF StreamsFramed
    <3>. HIDE DEF Before
    <3>. QED BY <2>1, <2>2, <3>1, <3>2
  <2>. QED BY <2>2 DEF StreamsFramed
<1>17. CASE ReadBody
  <2>1. client # NoApp /\ Before(client) = "len" /\ Before(client)' = "frame"
    BY <1>0, <1>17 DEF ReadBody, SessionConsistent
  <2>. HIDE DEF Before
  <2>. QED BY <1>17, <2>1, StreamRead DEF ReadBody, Comes
<1>18. CASE EndOfStream
  BY <1>0, <1>18, StreamKept DEF EndOfStream, CloseSession, TypeOK, SessionConsistent
<1>19. CASE SendOne
  BY <1>19, StreamKept DEF SendOne
<1>20. CASE SigPipe
  BY <1>0, <1>20, StreamKept DEF SigPipe, HostDies, TypeOK, SessionConsistent
<1>21. CASE SendFails
  BY <1>21, StreamKept DEF SendFails
<1>22. CASE SelectFails
  BY <1>0, <1>22, StreamKept DEF SelectFails, CloseSession, TypeOK, SessionConsistent
<1>23. CASE UNCHANGED vars
  BY <1>23, StreamKept DEF vars
<1>. QED
  BY <1>1, <1>2, <1>3, <1>4, <1>5, <1>6, <1>7, <1>8, <1>9, <1>10, <1>11, <1>12, <1>13,
     <1>14, <1>15, <1>16, <1>17, <1>18, <1>19, <1>20, <1>21, <1>22, <1>23
     DEF Next, HostStep, AppStep

-----------------------------------------------------------------------------
(* SYNC calls.                                                             *)

\* A queue without an element of T, and one with at most one, which is in V.
Free(s, T)     == \A i \in DOMAIN s : s[i] \notin T
Holds(s, T, V) == /\ \A i \in DOMAIN s : s[i] \in T => s[i] \in V
                  /\ \A i, j \in DOMAIN s : s[i] \in T /\ s[j] \in T => i = j

Requests     == {i \in Item : i.body.id # 0}
Replies      == {m \in Message : m.type = "reply"}
CallsOf(id)  == {i \in Item : i.body.id = id}
AnswersTo(id) == {m \in Message : m.id = id}

\* What the host has still to send to app a.
Pending(a) == IF client = a THEN todo ELSE <<>>

\* ReplyIsAwaited made inductive: a call is in one place at most, on its way to the
\* host, in the handler or on its way back, under the id the app waits for; and an
\* app in the middle of a frame waits for nothing.
CallInOnePlace(a) ==
  /\ Holds(toHost[a], Requests, CallsOf(waiting[a]))
  /\ Holds(Pending(a), Replies, AnswersTo(waiting[a]))
  /\ Holds(toApp[a], Replies, AnswersTo(waiting[a]))
  /\ Free(toHost[a], Requests) \/ Free(Pending(a), Replies)
  /\ Free(toHost[a], Requests) \/ Free(toApp[a], Replies)
  /\ Free(Pending(a), Replies) \/ Free(toApp[a], Replies)
  /\ waiting[a] = 0 => Free(Pending(a), Replies) /\ Free(toApp[a], Replies)
  /\ app[a] = "midframe" => waiting[a] = 0

Tracked(a) == IF app[a] = "down" THEN toApp[a] = <<>> /\ waiting[a] = 0
                                 ELSE CallInOnePlace(a)
CallsTracked == \A a \in Apps : Tracked(a)

\* A queue without an element of T holds at most one; the empty queue has none.
LEMMA FreeHolds ==
  /\ \A T : Free(<<>>, T)
  /\ \A s, T, V : Free(s, T) => Holds(s, T, V)
BY DEF Free, Holds

\* Appending to a queue.
LEMMA HoldAdd ==
  ASSUME NEW S, NEW s \in Seq(S), NEW e \in S, NEW T, NEW V
  PROVE  /\ Free(s, T) /\ e \notin T => Free(Append(s, e), T)
         /\ Holds(s, T, V) /\ e \notin T => Holds(Append(s, e), T, V)
         /\ Free(s, T) /\ e \in V => Holds(Append(s, e), T, V)
<1>. DEFINE n == Len(s)
            q == Append(s, e)
<1>1. /\ n \in Nat /\ DOMAIN s = 1..n /\ DOMAIN q = 1..(n + 1)
      /\ q[n + 1] = e /\ \A i \in 1..n : q[i] = s[i]
  BY AppendProperties, LenProperties
<1>. HIDE DEF n, q
<1>2. \A i \in 1..(n + 1) : (i \in 1..n /\ q[i] = s[i]) \/ (i = n + 1 /\ q[i] = e)
  BY <1>1
<1>3. Free(s, T) /\ e \notin T => Free(q, T)
  BY <1>1, <1>2 DEF Free
<1>4. Holds(s, T, V) /\ e \notin T => Holds(q, T, V)
  BY <1>1, <1>2 DEF Holds
<1>5. Free(s, T) /\ e \in V => Holds(q, T, V)
  BY <1>1, <1>2 DEF Holds, Free
<1>. QED BY <1>3, <1>4, <1>5 DEF q

\* Taking from the head of a queue.
LEMMA HoldTake ==
  ASSUME NEW S, NEW s \in Seq(S), s # <<>>, NEW T, NEW V
  PROVE  /\ Free(s, T) => Free(Tail(s), T) /\ Head(s) \notin T
         /\ Holds(s, T, V) => Holds(Tail(s), T, V)
         /\ Holds(s, T, V) /\ Head(s) \in T => Head(s) \in V /\ Free(Tail(s), T)
<1>. DEFINE q == Tail(s)
<1>1. /\ 1 \in DOMAIN s /\ Head(s) = s[1]
      /\ \A i \in DOMAIN q : i + 1 \in DOMAIN s /\ q[i] = s[i + 1]
      /\ \A i \in DOMAIN q : i \in Nat /\ i # 0
  BY QueueTake, QueueOps, LenProperties
<1>. HIDE DEF q
<1>2. \A i, j \in DOMAIN q : i + 1 = j + 1 => i = j
  BY <1>1
<1>3. \A i \in DOMAIN q : i + 1 # 1
  BY <1>1
<1>4. Free(s, T) => Free(q, T) /\ Head(s) \notin T
  BY <1>1 DEF Free
<1>5. Holds(s, T, V) => Holds(q, T, V)
  BY <1>1, <1>2 DEF Holds
<1>6. Holds(s, T, V) /\ Head(s) \in T => Head(s) \in V /\ Free(q, T)
  BY <1>1, <1>3 DEF Holds, Free
<1>. QED BY <1>4, <1>5, <1>6 DEF q

\* A queue is free of T when its ends are and the rest is.
LEMMA FreeEnds ==
  ASSUME NEW S, NEW s \in Seq(S), NEW T
  PROVE  /\ \A e \in S : Free(Append(s, e), T) <=> Free(s, T) /\ e \notin T
         /\ s # <<>> => (Free(s, T) <=> Head(s) \notin T /\ Free(Tail(s), T))
<1>1. ASSUME NEW e \in S PROVE Free(Append(s, e), T) <=> Free(s, T) /\ e \notin T
  <2>. DEFINE n == Len(s)
              q == Append(s, e)
  <2>1. /\ n \in Nat /\ DOMAIN s = 1..n /\ DOMAIN q = 1..(n + 1)
        /\ q[n + 1] = e /\ \A i \in 1..n : q[i] = s[i]
    BY AppendProperties, LenProperties
  <2>. HIDE DEF n, q
  <2>2. \A i \in 1..n : i \in 1..(n + 1)
    BY <2>1
  <2>3. n + 1 \in 1..(n + 1)
    BY <2>1
  <2>4. Free(q, T) => Free(s, T) /\ e \notin T
    BY <2>1, <2>2, <2>3 DEF Free
  <2>. QED BY <2>4, HoldAdd DEF q
<1>2. ASSUME s # <<>>, Head(s) \notin T, Free(Tail(s), T) PROVE Free(s, T)
  <2>. DEFINE n == Len(s)
              q == Tail(s)
  <2>1. /\ n \in Nat /\ DOMAIN s = 1..n /\ Head(s) = s[1]
        /\ q \in Seq(S) /\ Len(q) = n - 1 /\ \A i \in 1..(n - 1) : q[i] = s[i + 1]
    BY <1>2, HeadTailProperties, LenProperties, QueueTake
  <2>2. DOMAIN q = 1..(n - 1)
    BY <2>1, LenProperties
  <2>. HIDE DEF n, q
  <2>3. ASSUME NEW i \in 1..n, i # 1 PROVE s[i] \notin T
    <3>1. i - 1 \in 1..(n - 1) /\ (i - 1) + 1 = i
      BY <2>1, <2>3
    <3>2. q[i - 1] \notin T
      BY <1>2, <2>2, <3>1 DEF Free, q
    <3>3. q[i - 1] = s[(i - 1) + 1]
      BY <2>1, <3>1
    <3>. QED BY <3>1, <3>2, <3>3
  <2>. QED BY <1>2, <2>1, <2>3 DEF Free
<1>3. s # <<>> /\ Free(s, T) => Head(s) \notin T /\ Free(Tail(s), T)
  BY HoldTake
<1>. QED BY <1>1, <1>2, <1>3

\* A reply after messages that are none.
LEMMA HoldConcat ==
  ASSUME NEW S, NEW s \in Seq(S), NEW t \in Seq(S), NEW T, NEW V, Free(s, T)
  PROVE  /\ Free(t, T) => Free(s \o t, T)
         /\ Holds(t, T, V) => Holds(s \o t, T, V)
<1>. DEFINE n == Len(s)
            m == Len(t)
            q == s \o t
<1>1. /\ n \in Nat /\ m \in Nat /\ DOMAIN s = 1..n /\ DOMAIN t = 1..m
      /\ q \in Seq(S) /\ Len(q) = n + m
      /\ \A i \in 1..(n + m) : q[i] = IF i <= n THEN s[i] ELSE t[i - n]
  BY ConcatProperties, LenProperties
<1>2. DOMAIN q = 1..(n + m)
  BY <1>1, LenProperties
<1>. HIDE DEF n, m, q
<1>3. \A i \in 1..(n + m) : \/ i \in 1..n /\ q[i] = s[i]
                            \/ i - n \in 1..m /\ q[i] = t[i - n]
  BY <1>1
<1>4. Free(t, T) => Free(q, T)
  BY <1>1, <1>2, <1>3 DEF Free
<1>5. ASSUME Holds(t, T, V) PROVE Holds(q, T, V)
  <2>1. \A i \in DOMAIN q : q[i] \in T => i - n \in DOMAIN t /\ q[i] = t[i - n]
    BY <1>1, <1>2, <1>3 DEF Free
  <2>2. \A i, j \in DOMAIN q : i - n = j - n => i = j
    BY <1>1, <1>2
  <2>. QED BY <1>5, <2>1, <2>2 DEF Holds
<1>. QED BY <1>4, <1>5 DEF q

\* Queues of one and of two.
LEMMA FreeShort ==
  ASSUME NEW T, NEW m, NEW n, m \notin T, n \notin T
  PROVE  Free(<<m>>, T) /\ Free(<<m, n>>, T)
<1>1. DOMAIN <<m>> = {1} /\ <<m>>[1] = m
  OBVIOUS
<1>2. DOMAIN <<m, n>> = {1, 2} /\ <<m, n>>[1] = m /\ <<m, n>>[2] = n
  OBVIOUS
<1>. QED BY <1>1, <1>2 DEF Free

\* No control line and no greeting is a reply.
LEMMA LineMsgsFree ==
  ASSUME NEW line, NEW w PROVE Free(LineMsgs(line, w), Replies)
<1>1. /\ View("press", w) \notin Replies /\ View("release", w) \notin Replies
      /\ View("focus", w) \notin Replies /\ View("unfocus", w) \notin Replies
      /\ Resize(OperatorSize, w) \notin Replies
  BY DEF View, Resize, Replies
<1>. QED BY <1>1, FreeShort, FreeHolds DEF LineMsgs

\* The messages that greet a window hold no reply.
LEMMA GreetingFree ==
  ASSUME NEW f PROVE Free(Greeting(f), Replies)
<1>. DEFINE resize == Resize(g_size, WindowAfter(f))
            focus == View("focus", WindowAfter(f))
            S == {resize, focus}
<1>1. resize \notin Replies /\ focus \notin Replies
  BY DEF View, Resize, Replies
<1>2. Greeting(f) \in {<<>>, <<>> \o <<focus>>, <<resize>> \o <<focus>>}
  BY DEF Greeting
<1>. HIDE DEF resize, focus
<1>3. /\ Free(<<>>, Replies) /\ Free(<<resize>>, Replies) /\ Free(<<focus>>, Replies)
  BY <1>1, FreeShort, FreeHolds
<1>4. <<>> \in Seq(S) /\ <<resize>> \in Seq(S) /\ <<focus>> \in Seq(S)
  OBVIOUS
<1>. HIDE DEF S
<1>5. Free(<<>> \o <<focus>>, Replies) /\ Free(<<resize>> \o <<focus>>, Replies)
  BY <1>3, <1>4, HoldConcat
<1>. QED BY <1>2, <1>3, <1>5

\* The steps that neither write a call, answer one, nor deliver an answer: what is
\* taken from the stream, or dropped by the host, is in no place at all.
LEMMA CallKept ==
  ASSUME IInv, NEW b \in Apps, CallInOnePlace(b),
         \/ toHost'[b] = toHost[b]
         \/ toHost[b] # <<>> /\ toHost'[b] = Tail(toHost[b])
         \/ \E e \in Item : e \notin Requests /\ toHost'[b] = Append(toHost[b], e),
         Pending(b)' \in {Pending(b), <<>>},
         toApp'[b] = toApp[b], waiting'[b] = waiting[b],
         app'[b] = "midframe" => app[b] = "midframe" \/ waiting[b] = 0
  PROVE  CallInOnePlace(b)'
<1>. DEFINE V == CallsOf(waiting[b])
            W == AnswersTo(waiting[b])
<1>1. toHost[b] \in Seq(Item)
  BY DEF IInv, TypeOK
<1>. HIDE DEF V, W
<1>2. /\ Free(toHost[b], Requests) => Free(toHost'[b], Requests)
      /\ Holds(toHost[b], Requests, V) => Holds(toHost'[b], Requests, V)
  <2>1. CASE toHost[b] # <<>> /\ toHost'[b] = Tail(toHost[b])
    BY <1>1, <2>1, HoldTake
  <2>2. ASSUME NEW e \in Item, e \notin Requests, toHost'[b] = Append(toHost[b], e)
        PROVE  /\ Free(toHost[b], Requests) => Free(toHost'[b], Requests)
               /\ Holds(toHost[b], Requests, V) => Holds(toHost'[b], Requests, V)
    BY <1>1, <2>2, HoldAdd
  <2>. QED BY <2>1, <2>2
<1>3. /\ Free(Pending(b), Replies) => Free(Pending(b)', Replies)
      /\ Holds(Pending(b), Replies, W) => Holds(Pending(b)', Replies, W)
  BY FreeHolds
<1>. QED BY <1>2, <1>3
         DEF CallInOnePlace, CallsOf, AnswersTo, Requests, Replies, V, W

\* The app begins a call: none was anywhere.
LEMMA CallAsked ==
  ASSUME IInv, CallsTracked, NEW a \in Apps, AppBody(a)
  PROVE  CallInOnePlace(a)'
<1>1. PICK i \in Item, id \in Nat :
        /\ ToHost(a, i) /\ waiting' = [waiting EXCEPT ![a] = id] /\ i.body.id = id
  BY BodyWritten, OwnIsTyped DEF IInv, TypeOK
<1>2. /\ app[a] = "midframe" /\ app' = [app EXCEPT ![a] = "ready"]
      /\ UNCHANGED <<toApp, client, todo>>
  BY DEF AppBody, hostVars
<1>3. CallInOnePlace(a) /\ waiting[a] = 0
  BY <1>2 DEF CallsTracked, Tracked, CallInOnePlace
<1>4. /\ toHost[a] \in Seq(Item) /\ toHost'[a] = Append(toHost[a], i)
      /\ waiting'[a] = id /\ app'[a] = "ready"
  BY <1>1, <1>2 DEF IInv, TypeOK
<1>5. Free(Pending(a), Replies) /\ Free(toApp[a], Replies)
  BY <1>3 DEF CallInOnePlace
<1>6. Free(toHost[a], Requests)
  BY <1>3 DEF CallInOnePlace, Free, Holds, Requests, CallsOf
<1>7. Holds(toHost'[a], Requests, CallsOf(id))
  BY <1>1, <1>4, <1>6, HoldAdd DEF CallsOf
<1>8. Pending(a)' = Pending(a) /\ toApp'[a] = toApp[a]
  BY <1>2 DEF Pending
<1>9. /\ Holds(Pending(a), Replies, AnswersTo(id))
      /\ Holds(toApp[a], Replies, AnswersTo(id))
  BY <1>5, FreeHolds
<1>. QED BY <1>4, <1>5, <1>7, <1>8, <1>9
         DEF CallInOnePlace, CallsOf, AnswersTo, Requests, Replies

\* The host takes a frame: the call it carries moves from the stream to the handler.
LEMMA CallTaken ==
  ASSUME IInv, CallsTracked, ReadBody, app[client] # "down"
  PROVE  CallInOnePlace(client)'
<1>. DEFINE i == Head(toHost[client])
            rest == Tail(toHost[client])
            id == waiting[client]
<1>1. client \in Apps /\ client' = client /\ toHost[client] # <<>> /\ todo = <<>>
  BY DEF ReadBody, IInv, TypeOK, SessionConsistent
<1>2. /\ toHost[client] \in Seq(Item) /\ toHost'[client] = rest /\ i \in Item
  BY <1>1, QueueOps DEF ReadBody, IInv, TypeOK
<1>3. /\ todo' = Greeting(i.body) \o Reply(i.body)
      /\ Pending(client)' = todo'
      /\ UNCHANGED <<toApp, waiting, app>>
  BY <1>1 DEF ReadBody, Pending
<1>4. CallInOnePlace(client)
  BY <1>1 DEF CallsTracked, Tracked
<1>. DEFINE answer == [View("reply", i.body.routing) EXCEPT !.id = i.body.id]
<1>5. /\ Reply(i.body) = IF i.body.id = 0 THEN <<>> ELSE <<answer>>
      /\ answer.type = "reply" /\ answer.id = i.body.id
  BY DEF Reply, View
<1>6. i.body \in Frame
  BY <1>2 DEF Item
<1>10. Greeting(i.body) \in Seq(Message) /\ Reply(i.body) \in Seq(Message)
       /\ answer \in Message
  <2>1. answer \in Message
    BY <1>6 DEF View, Message, Frame, Sizes
  <2>2. WindowAfter(i.body) \in Windows \union {NoWindow}
    BY <1>6 DEF WindowAfter, Frame, IInv, TypeOK
  <2>3. View("focus", WindowAfter(i.body)) \in Message
        /\ Resize(g_size, WindowAfter(i.body)) \in Message
    BY <2>2 DEF View, Resize, Message, Sizes, IInv, TypeOK
  <2>4. Greeting(i.body) \in Seq(Message)
    BY <2>3 DEF Greeting
  <2>. HIDE DEF answer
  <2>5. Reply(i.body) \in Seq(Message)
    <3>1. <<answer>> \in Seq(Message) /\ <<>> \in Seq(Message)
      BY <2>1
    <3>. QED BY <1>5, <3>1
  <2>. QED BY <2>1, <2>4, <2>5
<1>. HIDE DEF i, rest, id, answer
<1>7. Free(Greeting(i.body), Replies)
  BY GreetingFree
<1>8. CASE i.body.id = 0
  <2>1. Free(todo', Replies)
    BY <1>3, <1>5, <1>7, <1>8, <1>10, HoldConcat, FreeHolds
  <2>2. /\ Free(toHost[client], Requests) => Free(rest, Requests)
        /\ Holds(toHost[client], Requests, CallsOf(id))
             => Holds(rest, Requests, CallsOf(id))
    BY <1>1, <1>2, HoldTake DEF rest
  <2>. QED BY <1>1, <1>2, <1>3, <1>4, <2>1, <2>2, FreeHolds
           DEF CallInOnePlace, CallsOf, AnswersTo, Requests, Replies, id
<1>9. CASE i.body.id # 0
  <2>1. i \in Requests
    BY <1>2, <1>9 DEF Requests
  <2>2. Holds(toHost[client], Requests, CallsOf(id)) /\ ~Free(toHost[client], Requests)
    <3>1. Holds(toHost[client], Requests, CallsOf(id))
      BY <1>4 DEF CallInOnePlace, id
    <3>. QED BY <1>1, <1>2, <2>1, <3>1, HoldTake DEF i
  <2>3. i \in CallsOf(id) /\ Free(rest, Requests)
    BY <1>1, <1>2, <2>1, <2>2, HoldTake DEF i, rest
  <2>4. answer \in AnswersTo(id) /\ id # 0
    BY <1>5, <1>9, <1>10, <2>3 DEF CallsOf, AnswersTo
  <2>5. Free(toApp[client], Replies)
    BY <1>4, <2>2 DEF CallInOnePlace
  <2>6. Holds(<<answer>>, Replies, AnswersTo(id))
    <3>1. DOMAIN <<answer>> = {1} /\ <<answer>>[1] = answer
      OBVIOUS
    <3>. QED BY <2>4, <3>1 DEF Holds
  <2>7. Holds(todo', Replies, AnswersTo(id))
    <3>1. Holds(Reply(i.body), Replies, AnswersTo(id))
      BY <1>5, <1>9, <2>6
    <3>. QED BY <1>3, <1>7, <1>10, <3>1, HoldConcat
  <2>. QED BY <1>1, <1>2, <1>3, <1>4, <2>3, <2>4, <2>5, <2>7, FreeHolds
           DEF CallInOnePlace, CallsOf, AnswersTo, Requests, Replies, id
<1>. QED BY <1>8, <1>9

\* send_msg: an answer moves from the handler to the app's receive buffer.
LEMMA CallAnswered ==
  ASSUME IInv, CallsTracked, SendOne
  PROVE  CallInOnePlace(client)'
<1>. DEFINE m == Head(todo)
            W == AnswersTo(waiting[client])
<1>1. /\ client \in Apps /\ client' = client /\ todo # <<>> /\ todo \in Seq(Message)
      /\ todo' = Tail(todo) /\ toApp'[client] = Append(toApp[client], m)
      /\ toApp[client] \in Seq(Message) /\ app[client] # "down"
      /\ UNCHANGED <<toHost, waiting, app>>
  BY DEF SendOne, IInv, TypeOK, SessionConsistent
<1>2. CallInOnePlace(client) /\ Pending(client) = todo /\ Pending(client)' = Tail(todo)
  BY <1>1 DEF CallsTracked, Tracked, Pending
<1>3. m \in Message
  BY <1>1, QueueOps
<1>. HIDE DEF m
<1>4. CASE m \notin Replies
  <2>1. /\ Free(todo, Replies) => Free(Tail(todo), Replies)
        /\ Holds(todo, Replies, W) => Holds(Tail(todo), Replies, W)
    BY <1>1, HoldTake
  <2>2. /\ Free(toApp[client], Replies) => Free(toApp'[client], Replies)
        /\ Holds(toApp[client], Replies, W) => Holds(toApp'[client], Replies, W)
    BY <1>1, <1>3, <1>4, HoldAdd
  <2>. QED BY <1>1, <1>2, <2>1, <2>2
           DEF CallInOnePlace, CallsOf, AnswersTo, Requests, Replies
<1>5. CASE m \in Replies
  <2>1. ~Free(todo, Replies) /\ m \in W /\ Free(Tail(todo), Replies)
    <3>1. Holds(todo, Replies, W)
      BY <1>2 DEF CallInOnePlace
    <3>. QED BY <1>1, <1>5, <3>1, HoldTake DEF m
  <2>2. /\ Free(toApp[client], Replies) /\ Free(toHost[client], Requests)
        /\ waiting[client] # 0
    BY <1>2, <2>1 DEF CallInOnePlace
  <2>3. Holds(toApp'[client], Replies, W)
    BY <1>1, <1>3, <2>1, <2>2, HoldAdd
  <2>. QED BY <1>1, <1>2, <2>1, <2>2, <2>3, FreeHolds
           DEF CallInOnePlace, CallsOf, AnswersTo, Requests, Replies
<1>. QED BY <1>4, <1>5

\* The app receives: the answer ends its call, and nothing of the call is left.
LEMMA CallReceived ==
  ASSUME IInv, CallsTracked, NEW a \in Apps, AppRecv(a)
  PROVE  CallInOnePlace(a)'
<1>. DEFINE m == Head(toApp[a])
            W == AnswersTo(waiting[a])
<1>1. /\ toApp[a] \in Seq(Message) /\ toApp[a] # <<>> /\ toApp'[a] = Tail(toApp[a])
      /\ waiting'[a] = IF m.type = "reply" THEN 0 ELSE waiting[a]
      /\ app[a] # "down" /\ UNCHANGED <<toHost, app, client, todo>>
  BY DEF AppRecv, IInv, TypeOK
<1>2. CallInOnePlace(a) /\ Pending(a)' = Pending(a)
  BY <1>1 DEF CallsTracked, Tracked, Pending
<1>3. m \in Message
  BY <1>1, QueueOps
<1>4. CASE m.type # "reply"
  <2>1. /\ Free(toApp[a], Replies) => Free(Tail(toApp[a]), Replies)
        /\ Holds(toApp[a], Replies, W) => Holds(Tail(toApp[a]), Replies, W)
    BY <1>1, HoldTake
  <2>. QED BY <1>1, <1>2, <1>4, <2>1
           DEF CallInOnePlace, CallsOf, AnswersTo, Requests, Replies
<1>5. CASE m.type = "reply"
  <2>1. m \in Replies
    BY <1>3, <1>5 DEF Replies
  <2>2. ~Free(toApp[a], Replies) /\ Free(Tail(toApp[a]), Replies)
    <3>1. Holds(toApp[a], Replies, W)
      BY <1>2 DEF CallInOnePlace
    <3>. QED BY <1>1, <2>1, <3>1, HoldTake
  <2>3. Free(toHost[a], Requests) /\ Free(Pending(a), Replies)
    BY <1>2, <2>2 DEF CallInOnePlace
  <2>4. waiting'[a] = 0
    BY <1>1, <1>5
  <2>. QED BY <1>1, <1>2, <2>2, <2>3, <2>4, FreeHolds
           DEF CallInOnePlace, CallsOf, AnswersTo, Requests, Replies
<1>. QED BY <1>4, <1>5

\* The same for an app in whatever state it is, when the step does not end it.
LEMMA TrackKept ==
  ASSUME IInv, CallsTracked, NEW b \in Apps,
         \/ toHost'[b] = toHost[b]
         \/ toHost[b] # <<>> /\ toHost'[b] = Tail(toHost[b])
         \/ \E e \in Item : e \notin Requests /\ toHost'[b] = Append(toHost[b], e),
         Pending(b)' \in {Pending(b), <<>>},
         toApp'[b] = toApp[b], waiting'[b] = waiting[b],
         app'[b] = "midframe" => app[b] = "midframe" \/ waiting[b] = 0,
         app'[b] = "down" <=> app[b] = "down"
  PROVE  Tracked(b)'
<1>1. CASE app[b] = "down"
  BY <1>1 DEF CallsTracked, Tracked
<1>2. CASE app[b] # "down"
  <2>1. CallInOnePlace(b)
    BY <1>2 DEF CallsTracked, Tracked
  <2>2. CallInOnePlace(b)'
    BY <2>1, CallKept
  <2>. QED BY <1>2, <2>2 DEF Tracked
<1>. QED BY <1>1, <1>2

\* A step of app a is no step of any other app's call.
LEMMA TrackOthers ==
  ASSUME IInv, CallsTracked, NEW a \in Apps, AppStep(a), NEW b \in Apps, b # a
  PROVE  Tracked(b)'
<1>1. /\ app'[b] = app[b] /\ toHost'[b] = toHost[b] /\ toApp'[b] = toApp[b]
      /\ waiting'[b] = waiting[b] /\ UNCHANGED <<client, todo>>
  <2>1. TypeOK
    BY DEF IInv
  <2>2. CASE AppConnect(a) \/ AppHello(a) \/ AppRecv(a) \/ AppDown(a)
    BY <2>1, <2>2 DEF AppConnect, AppHello, AppRecv, AppDown, TypeOK
  <2>3. CASE AppLength(a)
    BY <2>1, <2>3 DEF AppLength, TypeOK
  <2>4. CASE AppBody(a)
    <3>1. PICK i \in OwnItem(a), id \in Nat :
            ToHost(a, i) /\ waiting' = [waiting EXCEPT ![a] = id]
      BY <2>1, <2>4, BodyWritten DEF TypeOK
    <3>2. app' = [app EXCEPT ![a] = "ready"] /\ UNCHANGED <<toApp, client, todo>>
      BY <2>4 DEF AppBody
    <3>. QED BY <2>1, <3>1, <3>2 DEF TypeOK
  <2>. QED BY <2>2, <2>3, <2>4 DEF AppStep
<1>. QED BY <1>1, TrackKept DEF Pending

\* A mark carries no call.
LEMMA MarkIsNoCall ==
  ASSUME NEW t \in {"hello", "len", "badlen"}
  PROVE  Mark(t) \in Item /\ Mark(t) \notin Requests
BY DEF Mark, NoFrame, Item, Frame, Requests

\* Every call is tracked through every step: a handler's message or the end of a
\* session can neither duplicate a call nor answer one that nobody waits for.
LEMMA CallStep == IInv /\ CallsTracked /\ [Next]_vars => CallsTracked'
<1>. SUFFICES ASSUME IInv, CallsTracked, [Next]_vars, NEW b \in Apps PROVE Tracked(b)'
  BY DEF CallsTracked
<1>0. TypeOK /\ SessionConsistent
  BY DEF IInv
<1>. USE DEF Pending
<1>1. CASE AppConnect(b)
  BY <1>0, <1>1, TrackKept DEF AppConnect, TypeOK
<1>2. CASE AppHello(b)
  <2>1. app'[b] = "ready" /\ app[b] = "connected"
        /\ toHost'[b] = Append(toHost[b], Mark("hello"))
        /\ UNCHANGED <<client, todo, toApp, waiting>>
    BY <1>0, <1>2 DEF AppHello, TypeOK
  <2>. QED BY <2>1, MarkIsNoCall, TrackKept
<1>3. CASE AppLength(b)
  <2>1. /\ app'[b] \in {"midframe", "ready"} /\ app[b] = "ready" /\ waiting[b] = 0
        /\ UNCHANGED <<client, todo, toApp, waiting>>
    BY <1>0, <1>3 DEF AppLength, TypeOK
  <2>2. \/ toHost'[b] = Append(toHost[b], Mark("len"))
        \/ toHost'[b] = Append(toHost[b], Mark("badlen"))
    BY <1>0, <1>3 DEF AppLength, TypeOK
  <2>. QED BY <2>1, <2>2, MarkIsNoCall, TrackKept
<1>4. CASE AppBody(b)
  <2>1. app'[b] # "down"
    BY <1>0, <1>4 DEF AppBody, TypeOK
  <2>. QED BY <1>4, <2>1, CallAsked DEF Tracked
<1>5. CASE AppRecv(b)
  <2>1. app'[b] # "down"
    BY <1>0, <1>5 DEF AppRecv, TypeOK
  <2>. QED BY <1>5, <2>1, CallReceived DEF Tracked
<1>6. CASE AppDown(b)
  BY <1>0, <1>6 DEF AppDown, TypeOK, Tracked
<1>7. ASSUME NEW a \in Apps, AppStep(a), a # b PROVE Tracked(b)'
  BY <1>7, TrackOthers
<1>8. CASE OperatorWrites
  BY <1>8, TrackKept DEF OperatorWrites
<1>9. CASE Accept
  BY <1>9, TrackKept DEF Accept
<1>10. CASE HelloLost
  BY <1>10, TrackKept DEF HelloLost
<1>11. CASE Select \/ ControlDone
  BY <1>11, TrackKept DEF Select, ControlDone
<1>12. CASE HandleLine
  <2>1. /\ todo = <<>> /\ client' = client /\ Free(todo', Replies)
        /\ UNCHANGED <<toHost, toApp, app, waiting>>
    BY <1>12, LineMsgsFree DEF HandleLine
  <2>2. CASE app[b] = "down" \/ client # b
    BY <2>1, <2>2, TrackKept DEF CallsTracked, Tracked
  <2>3. CASE app[b] # "down" /\ client = b
    <3>1. CallInOnePlace(b)
      BY <2>3 DEF CallsTracked, Tracked
    <3>2. CallInOnePlace(b)'
      BY <2>1, <2>3, <3>1, FreeHolds
         DEF CallInOnePlace, CallsOf, AnswersTo, Requests, Replies
    <3>. QED BY <2>1, <2>3, <3>2 DEF Tracked
  <2>. QED BY <2>2, <2>3
<1>13. CASE Quit \/ SigPipe
  BY <1>13, TrackKept DEF Quit, SigPipe, HostDies
<1>14. CASE ReadHello \/ ReadLength \/ BadLength
  <2>1. /\ client # NoApp /\ toHost[client] # <<>> /\ Taken(client) /\ todo' = <<>>
        /\ UNCHANGED <<toApp, app, waiting>>
    BY <1>0, <1>14
       DEF ReadHello, ReadLength, BadLength, CloseSession, SessionConsistent
  <2>2. toHost'[b] = toHost[b] \/ (toHost[b] # <<>> /\ toHost'[b] = Tail(toHost[b]))
    BY <1>0, <2>1 DEF TypeOK
  <2>. QED BY <2>1, <2>2, TrackKept
<1>15. CASE ReadBody
  <2>1. /\ client' = client /\ todo = <<>> /\ toHost[client] # <<>> /\ Taken(client)
        /\ UNCHANGED <<toApp, app, waiting>>
    BY <1>15 DEF ReadBody
  <2>2. CASE app[b] = "down"
    BY <2>1, <2>2 DEF CallsTracked, Tracked
  <2>3. CASE app[b] # "down" /\ client = b
    <3>1. CallInOnePlace(b)'
      BY <1>15, <2>1, <2>3, CallTaken
    <3>. QED BY <2>1, <2>3, <3>1 DEF Tracked
  <2>4. CASE client # b
    <3>1. toHost'[b] = toHost[b]
      BY <1>0, <2>1, <2>4 DEF TypeOK
    <3>. QED BY <2>1, <2>4, <3>1, TrackKept
  <2>. QED BY <2>2, <2>3, <2>4
<1>16. CASE EndOfStream \/ SelectFails
  BY <1>16, TrackKept DEF EndOfStream, SelectFails, CloseSession
<1>17. CASE SendOne
  <2>1. /\ client' = client /\ app[client] # "down"
        /\ toApp' = [toApp EXCEPT ![client] = Append(@, Head(todo))]
        /\ UNCHANGED <<toHost, app, waiting>>
    BY <1>17 DEF SendOne
  <2>2. CASE client = b
    <3>1. CallInOnePlace(b)'
      BY <1>17, <2>1, <2>2, CallAnswered
    <3>. QED BY <2>1, <2>2, <3>1 DEF Tracked
  <2>3. CASE client # b
    <3>1. toApp'[b] = toApp[b]
      BY <1>0, <2>1, <2>3 DEF TypeOK
    <3>. QED BY <2>1, <2>3, <3>1, TrackKept
  <2>. QED BY <2>2, <2>3
<1>18. CASE SendFails
  <2>1. /\ client' = client /\ app[client] = "down"
        /\ UNCHANGED <<toHost, toApp, app, waiting>>
    BY <1>18 DEF SendFails
  <2>2. CASE client = b
    BY <2>1, <2>2 DEF CallsTracked, Tracked
  <2>3. CASE client # b
    BY <2>1, <2>3, TrackKept
  <2>. QED BY <2>2, <2>3
<1>19. CASE UNCHANGED vars
  BY <1>19, TrackKept DEF vars
<1>. QED
  BY <1>1, <1>2, <1>3, <1>4, <1>5, <1>6, <1>7, <1>8, <1>9, <1>10, <1>11, <1>12, <1>13,
     <1>14, <1>15, <1>16, <1>17, <1>18, <1>19
     DEF Next, HostStep, AppStep

-----------------------------------------------------------------------------
(* Pairs of messages.                                                      *)

\* PairsIntact, of one queue.
Paired(out) ==
  LET Follows(i, t) == /\ i < Len(out) /\ out[i + 1].type = t
                       /\ out[i + 1].routing = out[i].routing
  IN \A i \in DOMAIN out :
       /\ out[i].type = "press" => Follows(i, "release")
       /\ out[i].type = "resize" /\ out[i].size # OperatorSize => Follows(i, "focus")

\* A queue of whole pairs, cut at the head or continued, is one.
LEMMA PairedTail ==
  ASSUME NEW s \in Seq(Message), s # <<>>, Paired(s)
  PROVE  Paired(Tail(s))
<1>. DEFINE q == Tail(s)
<1>1. /\ Len(s) \in Nat /\ DOMAIN s = 1..Len(s) /\ q \in Seq(Message)
      /\ Len(q) = Len(s) - 1 /\ \A i \in 1..Len(q) : q[i] = s[i + 1]
  BY HeadTailProperties, LenProperties
<1>2. DOMAIN q = 1..Len(q)
  BY <1>1, LenProperties
<1>. HIDE DEF q
<1>3. \A i \in DOMAIN q : /\ i + 1 \in DOMAIN s /\ q[i] = s[i + 1]
                          /\ i + 1 < Len(s) => i < Len(q) /\ q[i + 1] = s[(i + 1) + 1]
  BY <1>1, <1>2
<1>4. Paired(q)
  BY <1>3 DEF Paired
<1>. QED BY <1>4 DEF q

\* Lists of whole pairs, one after the other, are a list of whole pairs.
LEMMA PairedConcat ==
  ASSUME NEW s \in Seq(Message), NEW t \in Seq(Message), Paired(s), Paired(t)
  PROVE  Paired(s \o t)
<1>. DEFINE n == Len(s)
            m == Len(t)
            q == s \o t
<1>1. /\ n \in Nat /\ m \in Nat /\ DOMAIN s = 1..n /\ DOMAIN t = 1..m
      /\ q \in Seq(Message) /\ Len(q) = n + m
      /\ \A i \in 1..(n + m) : q[i] = IF i <= n THEN s[i] ELSE t[i - n]
  BY ConcatProperties, LenProperties
<1>2. DOMAIN q = 1..(n + m)
  BY <1>1, LenProperties
<1>3. n = Len(s) /\ m = Len(t)
  OBVIOUS
<1>. HIDE DEF n, m, q
<1>4. \A i \in 1..n : q[i] = s[i] /\ (i < n => i < Len(q) /\ q[i + 1] = s[i + 1])
  BY <1>1
<1>5. \A i \in (n + 1)..(n + m) :
        /\ i - n \in 1..m /\ q[i] = t[i - n]
        /\ i - n < m => i < Len(q) /\ q[i + 1] = t[(i - n) + 1]
  BY <1>1
<1>6. ASSUME NEW i \in DOMAIN q
      PROVE  /\ q[i].type = "press" => /\ i < Len(q) /\ q[i + 1].type = "release"
                                       /\ q[i + 1].routing = q[i].routing
             /\ q[i].type = "resize" /\ q[i].size # OperatorSize =>
                  /\ i < Len(q) /\ q[i + 1].type = "focus"
                  /\ q[i + 1].routing = q[i].routing
  <2>1. CASE i \in 1..n
    BY <1>1, <1>3, <1>4, <2>1 DEF Paired
  <2>2. CASE i \in (n + 1)..(n + m)
    <3>1. PICK j \in DOMAIN t : /\ j = i - n /\ q[i] = t[j]
                                /\ j < m => i < Len(q) /\ q[i + 1] = t[j + 1]
      BY <1>1, <1>5, <2>2
    <3>2. /\ t[j].type = "press" => /\ j < m /\ t[j + 1].type = "release"
                                    /\ t[j + 1].routing = t[j].routing
          /\ t[j].type = "resize" /\ t[j].size # OperatorSize =>
               /\ j < m /\ t[j + 1].type = "focus"
               /\ t[j + 1].routing = t[j].routing
      BY <1>3 DEF Paired
    <3>. QED BY <3>1, <3>2
  <2>. QED BY <1>1, <1>2, <2>1, <2>2
<1>. QED BY <1>6 DEF Paired, q

\* A queue in which nothing is half a pair, and one that is a pair.
LEMMA PairedOne ==
  ASSUME NEW m, m.type # "press", m.type = "resize" => m.size = OperatorSize
  PROVE  Paired(<<m>>)
<1>1. DOMAIN <<m>> = {1} /\ <<m>>[1] = m
  OBVIOUS
<1>. QED BY <1>1 DEF Paired

\* A press and a release, or a resize and a focus, are a list of whole pairs.
LEMMA PairedTwo ==
  ASSUME NEW s \in Seq(Message), Len(s) = 2, s[1].routing = s[2].routing,
         \/ s[1].type = "press" /\ s[2].type = "release"
         \/ s[1].type = "resize" /\ s[2].type = "focus"
  PROVE  Paired(s)
<1>1. DOMAIN s = {1, 2}
  BY LenProperties
<1>. QED BY <1>1 DEF Paired

\* A control line sends whole pairs.
LEMMA LineMsgsPaired ==
  ASSUME NEW line, NEW w \in Windows \union {NoWindow}
  PROVE  Paired(LineMsgs(line, w))
<1>1. CASE line = "key"
  <2>. DEFINE s == <<View("press", w), View("release", w)>>
  <2>1. View("press", w) \in Message /\ View("release", w) \in Message
    BY DEF View, Message, Sizes
  <2>2. s \in Seq(Message) /\ Len(s) = 2
        /\ s[1] = View("press", w) /\ s[2] = View("release", w)
    BY <2>1
  <2>3. Paired(s)
    BY <2>2, PairedTwo DEF View
  <2>. QED BY <1>1, <2>3 DEF LineMsgs
<1>2. CASE line = "focus"
  BY <1>2, PairedOne DEF LineMsgs, View
<1>3. CASE line = "unfocus"
  BY <1>3, PairedOne DEF LineMsgs, View
<1>4. CASE line = "resize"
  BY <1>4, PairedOne DEF LineMsgs, View, Resize
<1>5. CASE line \notin {"key", "focus", "unfocus", "resize"}
  BY <1>5 DEF LineMsgs, Paired
<1>. QED BY <1>1, <1>2, <1>3, <1>4, <1>5

\* on_message sends whole pairs: the greeting of AddWindow, and then the reply.
LEMMA AnswersPaired ==
  ASSUME NEW f \in Frame, g_window \in Windows \union {NoWindow},
         g_size \in Apps \union {NoSize}
  PROVE  /\ Paired(Greeting(f) \o Reply(f))
         /\ Greeting(f) \o Reply(f) \in Seq(Message)
<1>. DEFINE w == WindowAfter(f)
            resize == Resize(g_size, w)
            focus == View("focus", w)
            answer == [View("reply", f.routing) EXCEPT !.id = f.id]
<1>1. w \in Windows \union {NoWindow}
  BY DEF WindowAfter, Frame
<1>2. resize \in Message /\ focus \in Message /\ answer \in Message
  BY <1>1 DEF View, Resize, Message, Frame, Sizes
<1>3. /\ resize.type = "resize" /\ focus.type = "focus" /\ answer.type = "reply"
      /\ focus.routing = resize.routing
  BY DEF View, Resize
<1>4. /\ Greeting(f) \in {<<>>, <<>> \o <<focus>>, <<resize>> \o <<focus>>}
      /\ Reply(f) \in {<<>>, <<answer>>}
  BY DEF Greeting, Reply
<1>. HIDE DEF w, resize, focus, answer
<1>5. Paired(<<>>) /\ Paired(<<focus>>) /\ Paired(<<answer>>)
  BY <1>3, PairedOne DEF Paired
<1>6. <<>> \in Seq(Message) /\ <<focus>> \in Seq(Message)
      /\ <<resize>> \in Seq(Message) /\ <<answer>> \in Seq(Message)
  BY <1>2
<1>7. Paired(<<>> \o <<focus>>)
  BY <1>5, <1>6, PairedConcat
<1>8. Paired(<<resize>> \o <<focus>>)
  <2>. DEFINE s == <<resize>> \o <<focus>>
  <2>1. /\ Len(<<resize>>) = 1 /\ Len(<<focus>>) = 1
        /\ <<resize>>[1] = resize /\ <<focus>>[1] = focus
    OBVIOUS
  <2>2. s \in Seq(Message) /\ Len(s) = 2 /\ s[1] = resize /\ s[2] = focus
    BY <1>6, <2>1, ConcatProperties
  <2>. HIDE DEF s
  <2>3. Paired(s)
    BY <1>3, <2>2, PairedTwo
  <2>. QED BY <2>3 DEF s
<1>9. /\ Greeting(f) \in Seq(Message) /\ Reply(f) \in Seq(Message)
      /\ Paired(Greeting(f)) /\ Paired(Reply(f))
  <2>1. <<>> \o <<focus>> \in Seq(Message) /\ <<resize>> \o <<focus>> \in Seq(Message)
    BY <1>6, ConcatProperties
  <2>. QED BY <1>4, <1>5, <1>6, <1>7, <1>8, <2>1
<1>. QED BY <1>9, PairedConcat, ConcatProperties

\* send_msg moves the head of what is to be sent to the end of what was sent.
LEMMA OutMoves ==
  ASSUME NEW s \in Seq(Message), NEW t \in Seq(Message), t # <<>>
  PROVE  Append(s, Head(t)) \o Tail(t) = s \o t
<1>1. /\ Head(t) \in Message /\ <<Head(t)>> \in Seq(Message)
      /\ Tail(t) \in Seq(Message) /\ <<Head(t)>> \o Tail(t) = t
  BY HeadTailProperties
<1>2. Append(s, Head(t)) = s \o <<Head(t)>>
  BY <1>1, AppendIsConcat
<1>3. (s \o <<Head(t)>>) \o Tail(t) = s \o (<<Head(t)>> \o Tail(t))
  BY <1>1, ConcatAssociative
<1>. QED BY <1>1, <1>2, <1>3

\* An app that receives takes the head of what it was and will be sent.
LEMMA OutTaken ==
  ASSUME NEW s \in Seq(Message), NEW t \in Seq(Message), s # <<>>, Paired(s \o t)
  PROVE  Paired(Tail(s) \o t)
<1>1. /\ <<Head(s)>> \in Seq(Message) /\ Tail(s) \in Seq(Message)
      /\ <<Head(s)>> \o Tail(s) = s
  BY HeadTailProperties, AppendIsConcat
<1>2. Tail(s) \o t \in Seq(Message) /\ s \o t \in Seq(Message)
  BY <1>1, ConcatProperties
<1>3. s \o t = <<Head(s)>> \o (Tail(s) \o t)
  BY <1>1, ConcatAssociative
<1>. DEFINE q == <<Head(s)>> \o (Tail(s) \o t)
            r == Tail(s) \o t
<1>4. q # <<>> /\ Tail(q) = r
  <2>1. /\ Len(<<Head(s)>>) = 1 /\ q \in Seq(Message) /\ Len(r) \in Nat
        /\ Len(q) = 1 + Len(r)
        /\ \A i \in 1..Len(r) : q[i + 1] = r[i]
    BY <1>1, <1>2, ConcatProperties, LenProperties
  <2>. HIDE DEF q, r
  <2>2. q # <<>>
    BY <2>1, EmptySeq
  <2>3. /\ Tail(q) \in Seq(Message) /\ Len(Tail(q)) = Len(r)
        /\ \A i \in 1..Len(Tail(q)) : Tail(q)[i] = r[i]
    BY <2>1, <2>2, HeadTailProperties
  <2>4. r \in Seq(Message)
    BY <1>2 DEF r
  <2>. QED BY <2>2, <2>3, <2>4, SeqEqual
<1>. QED BY <1>2, <1>3, <1>4, PairedTail

\* What an app died with is gone; what is still to be sent to it are whole pairs.
LEMMA OutDropped ==
  ASSUME NEW s \in Seq(Message), NEW t \in Seq(Message), Paired(s \o t)
  PROVE  Paired(<<>> \o t)
<1>. DEFINE q == s \o t
            n == Len(s)
            m == Len(t)
<1>1. <<>> \o t = t
  BY ConcatEmptySeq
<1>2. /\ n \in Nat /\ m \in Nat /\ DOMAIN t = 1..m
      /\ q \in Seq(Message) /\ Len(q) = n + m
      /\ \A i \in 1..(n + m) : q[i] = IF i <= n THEN s[i] ELSE t[i - n]
  BY ConcatProperties, LenProperties
<1>3. DOMAIN q = 1..(n + m) /\ m = Len(t)
  BY <1>2, LenProperties
<1>. HIDE DEF q, n, m
<1>4. ASSUME NEW i \in DOMAIN t
      PROVE  /\ n + i \in DOMAIN q /\ q[n + i] = t[i]
             /\ n + i < Len(q) => i < m /\ q[(n + i) + 1] = t[i + 1]
  <2>1. ASSUME NEW j \in 1..m PROVE n + j \in 1..(n + m) /\ q[n + j] = t[j]
    <3>1. n + j \in 1..(n + m) /\ ~(n + j <= n) /\ (n + j) - n = j
      BY <1>2
    <3>. QED BY <1>2, <3>1
  <2>2. i \in 1..m
    BY <1>2
  <2>3. ASSUME n + i < Len(q) PROVE i < m /\ q[(n + i) + 1] = t[i + 1]
    <3>1. i < m /\ i + 1 \in 1..m /\ (n + i) + 1 = n + (i + 1)
      BY <1>2, <2>2, <2>3
    <3>. QED BY <2>1, <3>1
  <2>. QED BY <1>3, <2>1, <2>2, <2>3
<1>5. Paired(q)
  BY DEF q
<1>6. Paired(t)
  BY <1>3, <1>4, <1>5 DEF Paired
<1>. QED BY <1>1, <1>6

\* PairsIntact says that what the client was and will be sent are whole pairs.
LEMMA PairsArePaired ==
  PairsIntact <=> (client # NoApp => Paired(toApp[client] \o todo))
BY DEF PairsIntact, Paired

\* A step that sends nothing, in a session or at its end, leaves the pairs whole.
LEMMA PairsKept ==
  ASSUME PairsIntact, client' \in {client, NoApp}, todo' = todo,
         client' # NoApp => toApp'[client] = toApp[client]
  PROVE  PairsIntact'
<1>1. client' # NoApp => Paired(toApp'[client'] \o todo')
  BY PairsArePaired
<1>. QED BY <1>1 DEF PairsIntact, Paired

\* The handlers send whole pairs, a send that blocks between the halves of one lets
\* nothing in between, and a session begins with nothing sent.
LEMMA PairsStep ==
  IInv /\ BacklogUnserved /\ CallsTracked /\ PairsIntact /\ [Next]_vars => PairsIntact'
<1>. SUFFICES ASSUME IInv, BacklogUnserved, CallsTracked, PairsIntact, [Next]_vars
              PROVE  PairsIntact'
  OBVIOUS
<1>0. TypeOK /\ SessionConsistent
  BY DEF IInv
<1>1. ASSUME client' # NoApp, Paired(toApp'[client'] \o todo') PROVE PairsIntact'
  BY <1>1 DEF PairsIntact, Paired
<1>2. client # NoApp =>
        /\ client \in Apps /\ Paired(toApp[client] \o todo)
        /\ toApp[client] \in Seq(Message) /\ todo \in Seq(Message)
  BY <1>0, PairsArePaired DEF TypeOK
<1>3. ASSUME NEW a \in Apps,
             AppConnect(a) \/ AppHello(a) \/ AppLength(a) \/ AppBody(a)
      PROVE  PairsIntact'
  BY <1>3, PairsKept DEF AppConnect, AppHello, AppLength, AppBody
<1>4. ASSUME NEW a \in Apps, AppRecv(a) PROVE PairsIntact'
  <2>1. CASE client = a
    <3>1. Paired(Tail(toApp[a]) \o todo)
      BY <1>0, <1>2, <1>4, <2>1, OutTaken DEF AppRecv
    <3>2. client' = a /\ todo' = todo /\ toApp'[a] = Tail(toApp[a]) /\ a # NoApp
      BY <1>0, <1>4, <2>1 DEF AppRecv, TypeOK
    <3>. QED BY <1>1, <3>1, <3>2
  <2>2. CASE client # a
    BY <1>0, <1>4, <2>2, PairsKept DEF AppRecv, TypeOK
  <2>. QED BY <2>1, <2>2
<1>5. ASSUME NEW a \in Apps, AppDown(a) PROVE PairsIntact'
  <2>1. CASE client = a
    <3>1. Paired(<<>> \o todo)
      BY <1>0, <1>2, <2>1, OutDropped
    <3>2. client' = a /\ todo' = todo /\ toApp'[a] = <<>> /\ a # NoApp
      BY <1>0, <1>5, <2>1 DEF AppDown, TypeOK
    <3>. QED BY <1>1, <3>1, <3>2
  <2>2. CASE client # a
    BY <1>0, <1>5, <2>2, PairsKept DEF AppDown, TypeOK
  <2>. QED BY <2>1, <2>2
<1>6. CASE OperatorWrites \/ ReadHello \/ Select \/ ControlDone \/ ReadLength
           \/ UNCHANGED vars
  BY <1>6, PairsKept DEF OperatorWrites, ReadHello, Select, ControlDone, ReadLength, vars
<1>7. CASE Accept
  <2>1. client' \in Apps /\ conn[client'] = "queued"
    BY <1>7, AcceptTakes
  <2>2. toApp'[client'] = <<>> /\ todo' = <<>> /\ client' # NoApp
    BY <1>7, <2>1 DEF Accept, BacklogUnserved
  <2>3. Paired(<<>> \o <<>>)
    <3>1. <<>> \in Seq(Message) /\ Paired(<<>>)
      BY DEF Paired
    <3>. QED BY <3>1, PairedConcat
  <2>. QED BY <1>1, <2>2, <2>3
<1>8. CASE HelloLost \/ BadLength \/ EndOfStream \/ SelectFails \/ Quit \/ SigPipe
  <2>1. client' = NoApp
    BY <1>8 DEF HelloLost, BadLength, EndOfStream, SelectFails, CloseSession, Quit, SigPipe, HostDies
  <2>. QED BY <2>1 DEF PairsIntact
<1>9. CASE HandleLine
  <2>1. /\ client' = client /\ client # NoApp /\ todo = <<>> /\ toApp' = toApp
        /\ todo' = LineMsgs(Head(lines), g_window)
        /\ Head(lines) \in Commands /\ g_window \in Windows \union {NoWindow}
    BY <1>0, <1>9, QueueOps DEF HandleLine, TypeOK, SessionConsistent
  <2>2. Paired(toApp[client]) /\ toApp[client] \in Seq(Message)
    BY <1>2, <2>1, ConcatEmptySeq
  <2>3. Paired(todo')
    BY <2>1, LineMsgsPaired
  <2>4. todo' \in Seq(Message)
    BY TypeStep DEF TypeOK
  <2>. QED BY <1>1, <2>1, <2>2, <2>3, <2>4, PairedConcat
<1>10. CASE ReadBody
  <2>. DEFINE f == Head(toHost[client]).body
  <2>1. /\ client' = client /\ client # NoApp /\ todo = <<>> /\ toApp' = toApp
        /\ todo' = Greeting(f) \o Reply(f)
    BY <1>0, <1>10 DEF ReadBody, SessionConsistent
  <2>2. f \in Frame
    <3>1. Head(toHost[client]) \in Item
      BY <1>0, <1>2, <1>10, <2>1, QueueOps DEF ReadBody, TypeOK
    <3>. QED BY <3>1 DEF Item
  <2>3. Paired(toApp[client]) /\ toApp[client] \in Seq(Message)
    BY <1>2, <2>1, ConcatEmptySeq
  <2>. HIDE DEF f
  <2>4. Paired(todo') /\ todo' \in Seq(Message)
    BY <1>0, <2>1, <2>2, AnswersPaired DEF TypeOK
  <2>. QED BY <1>1, <2>1, <2>3, <2>4, PairedConcat
<1>11. CASE SendOne
  <2>1. /\ client # NoApp /\ client' = client /\ todo # <<>> /\ todo' = Tail(todo)
        /\ toApp'[client] = Append(toApp[client], Head(todo))
    BY <1>0, <1>11 DEF SendOne, TypeOK, SessionConsistent
  <2>. QED BY <1>1, <1>2, <2>1, OutMoves
<1>12. CASE SendFails
  <2>1. /\ client # NoApp /\ client' = client /\ todo # <<>> /\ todo' = Tail(todo)
        /\ toApp' = toApp /\ toApp[client] = <<>>
    BY <1>0, <1>12 DEF SendFails, SessionConsistent, TypeOK, CallsTracked, Tracked
  <2>2. Paired(toApp'[client'] \o todo')
    <3>1. todo \in Seq(Message) /\ Tail(todo) \in Seq(Message) /\ <<>> \o todo = todo
          /\ <<>> \o Tail(todo) = Tail(todo)
      BY <1>2, <2>1, QueueOps, ConcatEmptySeq
    <3>. QED BY <1>2, <2>1, <3>1, PairedTail
  <2>. QED BY <1>1, <2>1, <2>2
<1>. QED
  BY <1>3, <1>4, <1>5, <1>6, <1>7, <1>8, <1>9, <1>10, <1>11, <1>12
     DEF Next, HostStep, AppStep

-----------------------------------------------------------------------------
(* What travels, in every reachable state.                                 *)

\* The inductive invariant of the streams, the calls and the pairs.
JInv == BacklogUnserved /\ StreamsFramed /\ CallsTracked /\ PairsIntact

\* Before the first app connects nothing travels.
LEMMA InitJInv == Init => JInv
<1>. SUFFICES ASSUME Init PROVE JInv
  OBVIOUS
<1>1. /\ backlog = <<>> /\ client = NoApp /\ todo = <<>>
      /\ \A a \in Apps : /\ app[a] = "idle" /\ waiting[a] = 0
                         /\ toHost[a] = <<>> /\ toApp[a] = <<>>
  BY DEF Init
<1>2. BacklogUnserved
  BY <1>1 DEF BacklogUnserved
<1>3. CallsTracked
  BY <1>1, FreeHolds DEF CallsTracked, Tracked, CallInOnePlace, Pending
<1>4. PairsIntact
  BY <1>1 DEF PairsIntact
<1>. QED BY <1>2, <1>3, <1>4, StreamsInit DEF JInv

\* Every reachable state satisfies both inductive invariants.
THEOREM TravelInvariance == Spec => [](IInv /\ JInv)
<1>1. IInv /\ JInv /\ [Next]_vars => JInv'
  BY BacklogStep, StreamStep, CallStep, PairsStep DEF JInv
<1>. QED BY <1>1, InitJInv, Invariance, PTL DEF Spec

\* main() and the stream agree on where a frame starts, whatever was rejected, read
\* in part or left behind by earlier sessions.
THEOREM FramingCorrect == Spec => []FramingInSync
<1>1. IInv /\ JInv => FramingInSync
  <2>. SUFFICES ASSUME IInv, JInv, client # NoApp, toHost[client] # <<>>
                PROVE  LET tag == Head(toHost[client]).tag
                       IN CASE status = "hello" -> tag = "hello"
                            [] status = "body"  -> tag = "frame"
                            [] OTHER            -> tag \in {"len", "badlen"}
    BY DEF FramingInSync
  <2>1. client \in Apps /\ conn[client] # "closed" /\ toHost[client] \in Seq(Item)
    BY DEF IInv, TypeOK, SessionConsistent
  <2>2. Stream(Before(client), toHost[client])
    BY <2>1 DEF JInv, StreamsFramed
  <2>3. Comes(Before(client), Head(toHost[client]).tag)
    BY <2>1, <2>2, StreamTake
  <2>. QED BY <2>3 DEF Comes, Before
<1>. QED BY <1>1, TravelInvariance, PTL

\* A reply on its way to an app answers the SYNC call the app is blocked in, and
\* there is one reply to a call.
THEOREM RepliesCorrect == Spec => []ReplyIsAwaited
<1>1. IInv /\ JInv => ReplyIsAwaited
  <2>. SUFFICES ASSUME IInv, JInv, NEW a \in Apps,
                       NEW i \in DOMAIN toApp[a], toApp[a][i].type = "reply"
                PROVE  /\ toApp[a][i].id = waiting[a] /\ waiting[a] # 0
                       /\ \A j \in DOMAIN toApp[a] : toApp[a][j].type = "reply" => j = i
    BY DEF ReplyIsAwaited
  <2>1. \A j \in DOMAIN toApp[a] : toApp[a][j].type = "reply" => toApp[a][j] \in Replies
    BY LenProperties, ElementOfSeq DEF IInv, TypeOK, Replies
  <2>2. toApp[a] # <<>>
    OBVIOUS
  <2>3. CallInOnePlace(a)
    BY <2>2 DEF JInv, CallsTracked, Tracked
  <2>4. Holds(toApp[a], Replies, AnswersTo(waiting[a])) /\ ~Free(toApp[a], Replies)
    BY <2>1, <2>3 DEF CallInOnePlace, Free
  <2>5. waiting[a] # 0
    BY <2>3, <2>4 DEF CallInOnePlace
  <2>. QED BY <2>1, <2>4, <2>5 DEF Holds, AnswersTo
<1>. QED BY <1>1, TravelInvariance, PTL

\* A press and its release, a resize and its focus reach the app together, across
\* the sends that block between them.
THEOREM PairsCorrect == Spec => []PairsIntact
<1>1. IInv /\ JInv => PairsIntact
  BY DEF JInv
<1>. QED BY <1>1, TravelInvariance, PTL

-----------------------------------------------------------------------------
(* PdkHost implements PipcService.                                         *)

\* The calls, as PipcService sees them.
Calls == [a \in Apps |-> CallOf(a)]

\* The state of a call, from the app's side of the socket, before and after a step.
LEMMA CallOfIs ==
  ASSUME NEW a
  PROVE  /\ CallOf(a) = IF Replied(a) THEN "answered"
                        ELSE IF waiting[a] # 0 THEN "pending" ELSE "none"
         /\ CallOf(a)' = IF Replied(a)' THEN "answered"
                         ELSE IF waiting'[a] # 0 THEN "pending" ELSE "none"
BY DEF CallOf

\* A reply in the receive buffer is what makes it hold one.
LEMMA RepliedIs ==
  ASSUME IInv, NEW a \in Apps
  PROVE  Replied(a) <=> ~Free(toApp[a], Replies)
<1>1. \A i \in DOMAIN toApp[a] : toApp[a][i] \in Message
  BY LenProperties, ElementOfSeq DEF IInv, TypeOK
<1>. QED BY <1>1 DEF Replied, Free, Replies

\* A call changes only for the app that writes, receives or ends, or is answered.
LEMMA CallSame ==
  ASSUME NEW a \in Apps, toApp'[a] = toApp[a], waiting'[a] = waiting[a]
  PROVE  CallOf(a)' = CallOf(a)
BY CallOfIs DEF Replied

\* Where no app's call changes, the calls do not.
LEMMA CallsSame ==
  ASSUME \A a \in Apps : CallOf(a)' = CallOf(a)
  PROVE  Calls' = Calls
BY DEF Calls

\* Where one app's call changes, the calls change at it.
LEMMA CallsChange ==
  ASSUME NEW a \in Apps, NEW v, CallOf(a)' = v,
         \A b \in Apps : b # a => CallOf(b)' = CallOf(b)
  PROVE  Calls[a] = CallOf(a) /\ Calls' = [Calls EXCEPT ![a] = v]
BY DEF Calls

\* A frame with an id is a question, and finds no call under way.
LEMMA BodyAsks ==
  ASSUME IInv, JInv, NEW a \in Apps, AppBody(a)
  PROVE  Service!Ask(a) \/ UNCHANGED Service!vars
<1>1. PICK i \in OwnItem(a), id \in Nat :
        ToHost(a, i) /\ waiting' = [waiting EXCEPT ![a] = id]
  BY BodyWritten DEF IInv, TypeOK
<1>2. app[a] = "midframe" /\ UNCHANGED <<backlog, client, status, toApp>>
  BY DEF AppBody, hostVars
<1>3. CallInOnePlace(a) /\ waiting[a] = 0 /\ waiting'[a] = id
  BY <1>1, <1>2 DEF JInv, CallsTracked, Tracked, CallInOnePlace, IInv, TypeOK
<1>4. ~Replied(a) /\ ~Replied(a)'
  <2>1. Free(toApp[a], Replies)
    BY <1>3 DEF CallInOnePlace
  <2>2. ~Replied(a)
    BY <2>1, RepliedIs
  <2>. QED BY <1>2, <2>2 DEF Replied
<1>5. CallOf(a) = "none" /\ CallOf(a)' = IF id # 0 THEN "pending" ELSE "none"
  BY <1>3, <1>4, CallOfIs
<1>6. \A b \in Apps : b # a => CallOf(b)' = CallOf(b)
  BY <1>1, <1>2, CallSame DEF IInv, TypeOK
<1>7. CASE id = 0
  <2>1. Calls' = Calls
    BY <1>5, <1>6, <1>7, CallsSame
  <2>. QED BY <1>2, <2>1 DEF Service!vars, Calls, Alive
<1>8. CASE id # 0
  <2>1. Calls[a] = "none" /\ Calls' = [Calls EXCEPT ![a] = "pending"]
    BY <1>5, <1>6, <1>8, CallsChange
  <2>. QED BY <1>2, <2>1 DEF Service!Ask, Calls, Alive
<1>. QED BY <1>7, <1>8

\* Taking the answer finishes the call; taking anything else is not seen.
LEMMA RecvFinishes ==
  ASSUME IInv, JInv, NEW a \in Apps, AppRecv(a)
  PROVE  Service!Finish(a) \/ UNCHANGED Service!vars
<1>. DEFINE m == Head(toApp[a])
<1>1. /\ toApp[a] \in Seq(Message) /\ toApp[a] # <<>> /\ toApp'[a] = Tail(toApp[a])
      /\ waiting'[a] = IF m.type = "reply" THEN 0 ELSE waiting[a]
      /\ app[a] # "down" /\ UNCHANGED <<backlog, client, status>>
  BY DEF AppRecv, IInv, TypeOK
<1>2. CallInOnePlace(a) /\ m \in Message
  BY <1>1, QueueOps DEF JInv, CallsTracked, Tracked
<1>3. \A b \in Apps : b # a => CallOf(b)' = CallOf(b)
  BY CallSame DEF AppRecv, IInv, TypeOK
<1>4. Replied(a)' <=> ~Free(Tail(toApp[a]), Replies)
  <2>1. \A i \in DOMAIN Tail(toApp[a]) : Tail(toApp[a])[i] \in Message
    BY <1>1, QueueOps, LenProperties, ElementOfSeq
  <2>. QED BY <1>1, <2>1 DEF Replied, Free, Replies
<1>. HIDE DEF m
<1>5. CASE m.type = "reply"
  <2>1. Holds(toApp[a], Replies, AnswersTo(waiting[a])) /\ m \in Replies
    BY <1>2, <1>5 DEF CallInOnePlace, Replies
  <2>2. Replied(a) /\ ~Replied(a)'
    BY <1>1, <1>4, <2>1, HoldTake, RepliedIs DEF m
  <2>3. CallOf(a) = "answered" /\ CallOf(a)' = "none"
    BY <1>1, <1>5, <2>2, CallOfIs
  <2>4. Calls[a] = "answered" /\ Calls' = [Calls EXCEPT ![a] = "none"]
    BY <1>3, <2>3, CallsChange
  <2>. QED BY <1>1, <2>4 DEF Service!Finish, Calls, Alive
<1>6. CASE m.type # "reply"
  <2>1. m \notin Replies
    BY <1>6 DEF Replies
  <2>2. Free(toApp[a], Replies) <=> Free(Tail(toApp[a]), Replies)
    BY <1>1, <2>1, FreeEnds DEF m
  <2>3. Replied(a)' <=> Replied(a)
    BY <1>4, <2>2, RepliedIs
  <2>4. CallOf(a)' = CallOf(a)
    BY <1>1, <1>6, <2>3, CallOfIs
  <2>5. Calls' = Calls
    BY <1>3, <2>4, CallsSame
  <2>. QED BY <1>1, <2>5 DEF Service!vars, Calls, Alive
<1>. QED BY <1>5, <1>6

\* An app that ends finishes its call in whatever state it is.
LEMMA DownFinishes ==
  ASSUME IInv, JInv, NEW a \in Apps, AppDown(a)
  PROVE  Service!Finish(a) \/ UNCHANGED Service!vars
<1>1. /\ toApp'[a] = <<>> /\ waiting'[a] = 0 /\ UNCHANGED <<backlog, client, status>>
  BY DEF AppDown, IInv, TypeOK
<1>2. \A b \in Apps : b # a => CallOf(b)' = CallOf(b)
  BY CallSame DEF AppDown, IInv, TypeOK
<1>3. CallOf(a)' = "none"
  <2>1. ~Replied(a)'
    BY <1>1 DEF Replied
  <2>. QED BY <1>1, <2>1, CallOfIs
<1>4. Calls[a] = CallOf(a) /\ Calls' = [Calls EXCEPT ![a] = "none"]
  BY <1>2, <1>3, CallsChange
<1>5. CASE CallOf(a) = "none"
  <2>1. Calls' = Calls
    BY <1>2, <1>3, <1>5, CallsSame
  <2>. QED BY <1>1, <2>1 DEF Service!vars, Calls, Alive
<1>6. CASE CallOf(a) # "none"
  BY <1>1, <1>4, <1>6 DEF Service!Finish, Calls, Alive
<1>. QED BY <1>5, <1>6

\* The send that carries a reply is the answer to the pending call of the client.
LEMMA SendAnswers ==
  ASSUME IInv, JInv, SendOne, NEW a \in Apps, client = a
  PROVE  Service!Answer \/ UNCHANGED Service!vars
<1>. DEFINE m == Head(todo)
            W == AnswersTo(waiting[a])
<1>1. /\ client # NoApp /\ todo # <<>> /\ todo \in Seq(Message)
      /\ toApp'[a] = Append(toApp[a], m)
      /\ toApp[a] \in Seq(Message) /\ app[a] # "down"
      /\ UNCHANGED <<waiting, backlog, client, status>>
  BY DEF SendOne, IInv, TypeOK, SessionConsistent
<1>2. CallInOnePlace(a) /\ Pending(a) = todo /\ m \in Message
  BY <1>1, QueueOps DEF JInv, CallsTracked, Tracked, Pending
<1>3. \A b \in Apps : b # a => CallOf(b)' = CallOf(b)
  BY <1>1, CallSame DEF SendOne, IInv, TypeOK
<1>. HIDE DEF m, W
<1>4. Replied(a)' <=> ~Free(Append(toApp[a], m), Replies)
  <2>1. Append(toApp[a], m) \in Seq(Message)
    BY <1>1, <1>2, AppendProperties
  <2>2. \A i \in DOMAIN Append(toApp[a], m) : Append(toApp[a], m)[i] \in Message
    BY <2>1, LenProperties, ElementOfSeq
  <2>. QED BY <1>1, <2>2 DEF Replied, Free, Replies
<1>5. CASE m \in Replies
  <2>1. ~Free(Pending(a), Replies)
    BY <1>1, <1>2, <1>5, FreeEnds DEF m
  <2>2. Free(toApp[a], Replies) /\ waiting[a] # 0
    BY <1>2, <2>1 DEF CallInOnePlace
  <2>3. ~Replied(a) /\ Replied(a)'
    BY <1>1, <1>2, <1>4, <1>5, <2>2, RepliedIs, FreeEnds
  <2>4. CallOf(a) = "pending" /\ CallOf(a)' = "answered"
    BY <2>2, <2>3, CallOfIs
  <2>5. Calls[a] = "pending" /\ Calls' = [Calls EXCEPT ![a] = "answered"]
    BY <1>3, <2>4, CallsChange
  <2>. QED BY <1>1, <2>5 DEF Service!Answer, Calls, Alive
<1>6. CASE m \notin Replies
  <2>1. Replied(a)' <=> Replied(a)
    BY <1>1, <1>2, <1>4, <1>6, RepliedIs, FreeEnds
  <2>2. CallOf(a)' = CallOf(a)
    BY <1>1, <2>1, CallOfIs
  <2>3. Calls' = Calls
    BY <1>3, <2>2, CallsSame
  <2>. QED BY <1>1, <2>3 DEF Service!vars, Calls, Alive
<1>. QED BY <1>5, <1>6

\* The steps that move no call.
LEMMA CallsUntouched ==
  ASSUME toApp' = toApp, waiting' = waiting
  PROVE  Calls' = Calls
BY CallSame, CallsSame

\* Each step of the host, the apps and the operator is a step of the service or is
\* not seen by it.
LEMMA ServiceStep ==
  IInv /\ JInv /\ [Next]_vars => [Service!Next]_(Service!vars)
<1>. SUFFICES ASSUME IInv, JInv, [Next]_vars
              PROVE  Service!Next \/ UNCHANGED Service!vars
  OBVIOUS
<1>0. TypeOK /\ SessionConsistent
  BY DEF IInv
<1>. USE DEF Service!Next
<1>1. ASSUME NEW a \in Apps, AppConnect(a) PROVE Service!Connect(a)
  <2>1. /\ Alive /\ backlog' = Append(backlog, a)
        /\ UNCHANGED <<client, status, toApp, waiting>>
    BY <1>1 DEF AppConnect
  <2>2. Calls' = Calls
    BY <2>1, CallsUntouched
  <2>. QED BY <2>1, <2>2 DEF Service!Connect, Calls, Alive
<1>2. ASSUME NEW a \in Apps, AppHello(a) \/ AppLength(a) PROVE UNCHANGED Service!vars
  <2>1. UNCHANGED <<backlog, client, status, toApp, waiting>>
    BY <1>2 DEF AppHello, AppLength
  <2>. QED BY <2>1, CallsUntouched DEF Service!vars, Calls, Alive
<1>3. ASSUME NEW a \in Apps, AppBody(a) PROVE Service!Ask(a) \/ UNCHANGED Service!vars
  BY <1>3, BodyAsks
<1>4. ASSUME NEW a \in Apps, AppRecv(a)
      PROVE  Service!Finish(a) \/ UNCHANGED Service!vars
  BY <1>4, RecvFinishes
<1>5. ASSUME NEW a \in Apps, AppDown(a)
      PROVE  Service!Finish(a) \/ UNCHANGED Service!vars
  BY <1>5, DownFinishes
<1>6. CASE Accept
  <2>1. /\ status = "accept" /\ backlog # <<>> /\ status' = "hello" /\ client = NoApp
        /\ client' = Head(backlog) /\ backlog' = Tail(backlog)
        /\ UNCHANGED <<toApp, waiting>>
    BY <1>0, <1>6 DEF Accept, SessionConsistent
  <2>2. Calls' = Calls
    BY <2>1, CallsUntouched
  <2>3. Service!Serve
    BY <2>1, <2>2 DEF Service!Serve, Calls, Alive
  <2>. QED BY <2>3
<1>7. CASE HelloLost \/ BadLength \/ EndOfStream \/ SelectFails
  <2>1. /\ client # NoApp /\ client' = NoApp /\ status \notin {"exited", "killed"}
        /\ status' = "accept" /\ UNCHANGED <<backlog, toApp, waiting>>
    BY <1>0, <1>7 DEF HelloLost, BadLength, EndOfStream, SelectFails, CloseSession, SessionConsistent
  <2>2. Calls' = Calls
    BY <2>1, CallsUntouched
  <2>3. Service!EndSession
    BY <2>1, <2>2 DEF Service!EndSession, Calls, Alive
  <2>. QED BY <2>3
<1>8. CASE Quit \/ SigPipe
  <2>1. /\ Alive /\ ~Alive' /\ backlog' = <<>> /\ client' = NoApp
        /\ UNCHANGED <<toApp, waiting>>
    BY <1>0, <1>8 DEF Quit, SigPipe, HostDies, SessionConsistent, Alive
  <2>2. Calls' = Calls
    BY <2>1, CallsUntouched
  <2>3. Service!HostEnds
    BY <2>1, <2>2 DEF Service!HostEnds, Calls
  <2>. QED BY <2>3
<1>9. CASE SendOne
  <2>1. client \in Apps
    BY <1>0, <1>9 DEF SendOne, TypeOK, SessionConsistent
  <2>. QED BY <1>9, <2>1, SendAnswers
<1>10. CASE ReadHello \/ Select \/ HandleLine \/ ControlDone \/ ReadLength \/ ReadBody
            \/ SendFails \/ OperatorWrites \/ UNCHANGED vars
  <2>1. UNCHANGED <<backlog, client, toApp, waiting>> /\ Alive' = Alive
    BY <1>10 DEF ReadHello, Select, HandleLine, ControlDone, ReadLength, ReadBody,
                 SendFails, OperatorWrites, vars, Alive
  <2>. QED BY <2>1, CallsUntouched DEF Service!vars, Calls
<1>. QED
  BY <1>1, <1>2, <1>3, <1>4, <1>5, <1>6, <1>7, <1>8, <1>9, <1>10
     DEF Next, HostStep, AppStep

\* Before the first app connects nobody is served and nobody asks.
LEMMA ServiceInit == Init => Service!Init
<1>. SUFFICES ASSUME Init PROVE Service!Init
  OBVIOUS
<1>1. /\ backlog = <<>> /\ client = NoApp /\ Alive
      /\ \A a \in Apps : waiting[a] = 0 /\ toApp[a] = <<>>
  BY DEF Init, Alive
<1>2. \A a \in Apps : CallOf(a) = "none"
  <2>1. \A a \in Apps : ~Replied(a)
    BY <1>1 DEF Replied
  <2>. QED BY <1>1, <2>1, CallOfIs
<1>. QED BY <1>1, <1>2 DEF Service!Init

\* The host with its sockets, buffers and handlers does what PipcService promises:
\* one app at a time in the order they connected, and no answer but to the pending
\* call of the app in service.
THEOREM HostImplementsService == Spec => ImplementsService
<1>. QED BY ServiceInit, ServiceStep, TravelInvariance, PTL
         DEF Spec, ImplementsService, Service!Spec
=============================================================================
