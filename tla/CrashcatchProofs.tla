-------------------------- MODULE CrashcatchProofs --------------------------
(***************************************************************************)
(* The reports of src/crashcatch.c, for every number of threads, every set *)
(* of signals and every number of faults.                                  *)
(*                                                                         *)
(* A signal's handler is taken away when it is delivered, so it is on one  *)
(* stack, once (HandledOnce); what stderr holds about the signal is then   *)
(* the part of the report that this handler has come to (HandlersReport),  *)
(* wherever it was interrupted.                                            *)
(***************************************************************************)
EXTENDS Crashcatch, SequenceTheorems, TLAPS

Handler == [sig : Caught, at : 1..5]
Line    == [by : Threads, sig : Caught, part : {"head", "trace", "tail"}]

TypeOK ==
  /\ armed \subseteq Caught /\ stack \in [Threads -> Seq(Handler)] /\ stderr \in Seq(Line)

\* A signal is on one stack, once, and is not armed.
HandledOnce ==
  /\ \A t \in Threads : \A i \in DOMAIN stack[t] : stack[t][i].sig \notin armed
  /\ \A t, u \in Threads : \A i \in DOMAIN stack[t], j \in DOMAIN stack[u] :
       stack[t][i].sig = stack[u][j].sig => t = u /\ i = j

\* Every line was written by a handler of its signal, on its thread's stack.
LinesHaveHandlers ==
  \A n \in DOMAIN stderr :
    \E i \in DOMAIN stack[stderr[n].by] : stack[stderr[n].by][i].sig = stderr[n].sig

\* The lines about s are the first k parts of one report by t.
ReportedTo(t, s, k) ==
  \E at \in [1..k -> DOMAIN stderr] :
    /\ \A i, j \in 1..k : i < j => at[i] < at[j]
    /\ \A i \in 1..k : stderr[at[i]] = [by |-> t, sig |-> s, part |-> Parts[i]]
    /\ \A n \in DOMAIN stderr : stderr[n].sig = s => \E i \in 1..k : at[i] = n

\* How many parts a handler has written when it is at a step: load writes none.
Progress == <<0, 1, 1, 2, 3>>

HandlersReport ==
  \A t \in Threads : \A i \in DOMAIN stack[t] :
    ReportedTo(t, stack[t][i].sig, Progress[stack[t][i].at])

IInv == TypeOK /\ HandledOnce /\ LinesHaveHandlers /\ HandlersReport /\ StatusHasItsReport

-----------------------------------------------------------------------------
(* A line is written.                                                      *)

\* The lines stay where they are, and the new one is behind them.
LEMMA LineAdded ==
  ASSUME stderr \in Seq(Line), NEW l \in Line, stderr' = Append(stderr, l)
  PROVE  /\ stderr' \in Seq(Line)
         /\ Len(stderr) \in Nat /\ DOMAIN stderr = 1..Len(stderr)
         /\ DOMAIN stderr' = DOMAIN stderr \union {Len(stderr) + 1}
         /\ Len(stderr) + 1 \notin DOMAIN stderr
         /\ stderr'[Len(stderr) + 1] = l
         /\ \A n \in DOMAIN stderr : stderr'[n] = stderr[n] /\ n < Len(stderr) + 1
<1>1. Len(stderr) \in Nat /\ DOMAIN stderr = 1..Len(stderr)  BY LenProperties
<1>2. stderr' \in Seq(Line) /\ Len(stderr') = Len(stderr) + 1  BY AppendProperties
<1>3. DOMAIN stderr' = 1..Len(stderr) + 1  BY <1>2, LenProperties
<1>4. stderr'[Len(stderr) + 1] = l /\ \A n \in DOMAIN stderr : stderr'[n] = stderr[n]
  BY <1>1, AppendProperties
<1>5. /\ 1..Len(stderr) + 1 = (1..Len(stderr)) \union {Len(stderr) + 1}
      /\ Len(stderr) + 1 \notin 1..Len(stderr)
      /\ \A n \in 1..Len(stderr) : n < Len(stderr) + 1
  BY <1>1
<1> QED  BY <1>1, <1>2, <1>3, <1>4, <1>5

\* A line about another signal leaves a report as it is.
LEMMA OtherLine ==
  ASSUME stderr \in Seq(Line), NEW l \in Line, stderr' = Append(stderr, l),
         NEW t, NEW s, NEW k, l.sig # s, ReportedTo(t, s, k)
  PROVE  ReportedTo(t, s, k)'
<1>1. PICK at \in [1..k -> DOMAIN stderr] :
        /\ \A i, j \in 1..k : i < j => at[i] < at[j]
        /\ \A i \in 1..k : stderr[at[i]] = [by |-> t, sig |-> s, part |-> Parts[i]]
        /\ \A n \in DOMAIN stderr : stderr[n].sig = s => \E i \in 1..k : at[i] = n
  BY DEF ReportedTo
<1>2. at \in [1..k -> DOMAIN stderr']  BY LineAdded
<1>3. \A i \in 1..k : stderr'[at[i]] = [by |-> t, sig |-> s, part |-> Parts[i]]
  BY <1>1, LineAdded
<1>4. \A n \in DOMAIN stderr' : stderr'[n].sig = s => \E i \in 1..k : at[i] = n
  BY <1>1, LineAdded
<1> QED  BY <1>1, <1>2, <1>3, <1>4 DEF ReportedTo

\* The next part of a report goes on with it.
LEMMA OwnLine ==
  ASSUME stderr \in Seq(Line), NEW t \in Threads, NEW s \in Caught, NEW k \in Nat,
         [by |-> t, sig |-> s, part |-> Parts[k + 1]] \in Line,
         stderr' = Append(stderr, [by |-> t, sig |-> s, part |-> Parts[k + 1]]),
         ReportedTo(t, s, k)
  PROVE  ReportedTo(t, s, k + 1)'
<1> DEFINE l == [by |-> t, sig |-> s, part |-> Parts[k + 1]]
           end == Len(stderr) + 1
<1>1. PICK at \in [1..k -> DOMAIN stderr] :
        /\ \A i, j \in 1..k : i < j => at[i] < at[j]
        /\ \A i \in 1..k : stderr[at[i]] = [by |-> t, sig |-> s, part |-> Parts[i]]
        /\ \A n \in DOMAIN stderr : stderr[n].sig = s => \E i \in 1..k : at[i] = n
  BY DEF ReportedTo
<1>2. l \in Line /\ stderr' = Append(stderr, l)  OBVIOUS
<1> HIDE DEF l
<1>3. /\ DOMAIN stderr' = DOMAIN stderr \union {end}
      /\ stderr'[end] = l
      /\ \A n \in DOMAIN stderr : stderr'[n] = stderr[n] /\ n < end
  BY <1>2, LineAdded
<1> HIDE DEF end
<1> DEFINE next == [i \in 1..k + 1 |-> IF i = k + 1 THEN end ELSE at[i]]
<1>4. /\ 1..k + 1 = (1..k) \union {k + 1} /\ k + 1 \notin 1..k
      /\ \A i \in 1..k : i < k + 1 /\ ~(k + 1 < i)
      /\ ~(k + 1 < k + 1)
  OBVIOUS
<1>5. next[k + 1] = end /\ \A i \in 1..k : next[i] = at[i]  BY <1>4
<1>6. next \in [1..k + 1 -> DOMAIN stderr']  BY <1>3, <1>4
<1> HIDE DEF next
<1>7. ASSUME NEW i \in 1..k + 1, NEW j \in 1..k + 1, i < j PROVE next[i] < next[j]
  <2>1. i \in 1..k  BY <1>4, <1>7
  <2>2. CASE j \in 1..k  BY <1>1, <1>5, <1>7, <2>1, <2>2
  <2>3. CASE j = k + 1  BY <1>3, <1>5, <2>1, <2>3
  <2> QED  BY <1>4, <2>2, <2>3
<1>8. ASSUME NEW i \in 1..k + 1
      PROVE  stderr'[next[i]] = [by |-> t, sig |-> s, part |-> Parts[i]]
  <2>1. CASE i \in 1..k  BY <1>1, <1>3, <1>5, <2>1
  <2>2. CASE i = k + 1  BY <1>3, <1>5, <2>2 DEF l
  <2> QED  BY <1>4, <2>1, <2>2
<1>9. ASSUME NEW n \in DOMAIN stderr', stderr'[n].sig = s PROVE \E i \in 1..k + 1 : next[i] = n
  <2>1. CASE n \in DOMAIN stderr
    <3>1. PICK i \in 1..k : at[i] = n  BY <1>1, <1>3, <1>9, <2>1
    <3> QED  BY <1>4, <1>5, <3>1
  <2>2. CASE n = end  BY <1>4, <1>5, <2>2
  <2> QED  BY <1>3, <2>1, <2>2
<1> QED  BY <1>6, <1>7, <1>8, <1>9 DEF ReportedTo

-----------------------------------------------------------------------------
(* A handler goes on, and a handler is entered.                            *)

\* A stack is a sequence of handlers.
LEMMA StackOps ==
  ASSUME TypeOK, NEW t \in Threads
  PROVE  /\ stack[t] \in Seq(Handler) /\ Len(stack[t]) \in Nat /\ DOMAIN stack[t] = 1..Len(stack[t])
         /\ \A i \in DOMAIN stack[t] : stack[t][i] \in Handler
         /\ stack[t] # <<>> => Len(stack[t]) \in DOMAIN stack[t] /\ Top(t) = stack[t][Len(stack[t])]
<1>1. stack[t] \in Seq(Handler)  BY DEF TypeOK
<1>2. Len(stack[t]) \in Nat /\ DOMAIN stack[t] = 1..Len(stack[t])  BY <1>1, LenProperties
<1>3. \A i \in DOMAIN stack[t] : stack[t][i] \in Handler  BY <1>1, <1>2, ElementOfSeq
<1>4. stack[t] # <<>> => Len(stack[t]) \in DOMAIN stack[t]  BY <1>1, <1>2, EmptySeq
<1>5. Top(t) = stack[t][Len(stack[t])]  BY DEF Top, Last
<1> QED  BY <1>1, <1>2, <1>3, <1>4, <1>5

\* Only the innermost handler of the thread goes on, by one step.
LEMMA Advances ==
  ASSUME TypeOK, NEW t \in Threads, NEW parts, Reporting(t, parts)
  PROVE  LET k == Len(stack[t])
             h == stack[t][k]
         IN  /\ k \in DOMAIN stack[t] /\ h \in Handler /\ h.at \in 1..4 /\ Steps[h.at] \in parts
             /\ stack' \in [Threads -> Seq(Handler)]
             /\ \A u \in Threads : DOMAIN stack'[u] = DOMAIN stack[u]
             /\ \A u \in Threads : \A i \in DOMAIN stack[u] :
                  stack'[u][i] = IF u = t /\ i = k THEN [sig |-> h.sig, at |-> h.at + 1] ELSE stack[u][i]
             /\ UNCHANGED <<armed, ended, faults, inHeap>> /\ ended = Running
<1> DEFINE k == Len(stack[t])
           h == stack[t][k]
           one == [stack[t] EXCEPT ![k] = [sig |-> h.sig, at |-> h.at + 1]]
<1>1. /\ stack[t] # <<>> /\ Top(t).at <= Len(Steps) /\ Steps[Top(t).at] \in parts
      /\ stack' = [stack EXCEPT ![t][k].at = @ + 1]
      /\ UNCHANGED <<armed, ended, faults, inHeap>> /\ ended = Running
  BY DEF Reporting
<1>2. k \in DOMAIN stack[t] /\ h \in Handler /\ Top(t) = h  BY <1>1, StackOps
<1>3. Len(Steps) = 4  BY DEF Steps
<1>4. h.at \in 1..4  BY <1>1, <1>2, <1>3 DEF Handler
<1>5. stack \in [Threads -> Seq(Handler)]  BY DEF TypeOK
<1>6. stack[t] \in [1..k -> Handler] /\ k \in Nat /\ DOMAIN stack[t] = 1..k  BY StackOps
<1>7. [h EXCEPT !.at = h.at + 1] = [sig |-> h.sig, at |-> h.at + 1]  BY <1>2 DEF Handler
<1>8. [sig |-> h.sig, at |-> h.at + 1] \in Handler  BY <1>2, <1>4 DEF Handler
<1>9. stack' = [stack EXCEPT ![t] = one]  BY <1>1, <1>7
<1>10. one \in Seq(Handler)
  <2>1. one \in [1..k -> Handler]  BY <1>6, <1>8
  <2> HIDE DEF one, k
  <2> QED  BY <1>6, <2>1, SeqDef
<1>11. DOMAIN one = DOMAIN stack[t]
       /\ \A i \in DOMAIN stack[t] :
            one[i] = IF i = k THEN [sig |-> h.sig, at |-> h.at + 1] ELSE stack[t][i]
  OBVIOUS
<1> HIDE DEF one
<1>12. stack' \in [Threads -> Seq(Handler)] /\ stack'[t] = one
       /\ \A u \in Threads : u # t => stack'[u] = stack[u]
  BY <1>5, <1>9, <1>10
<1> QED  BY <1>1, <1>2, <1>4, <1>11, <1>12

\* Handlers that go on are the handlers there were.
LEMMA SameHandlers ==
  ASSUME HandledOnce, UNCHANGED armed,
         \A u \in Threads : /\ DOMAIN stack'[u] = DOMAIN stack[u]
                            /\ \A i \in DOMAIN stack[u] : stack'[u][i].sig = stack[u][i].sig
  PROVE  HandledOnce'
<1>1. ASSUME NEW u \in Threads, NEW i \in DOMAIN stack'[u] PROVE stack'[u][i].sig \notin armed
  <2>1. i \in DOMAIN stack[u] /\ stack'[u][i].sig = stack[u][i].sig  BY <1>1
  <2> QED  BY <2>1 DEF HandledOnce
<1>2. ASSUME NEW u \in Threads, NEW v \in Threads, NEW i \in DOMAIN stack'[u],
             NEW j \in DOMAIN stack'[v], stack'[u][i].sig = stack'[v][j].sig
      PROVE  u = v /\ i = j
  <2>1. i \in DOMAIN stack[u] /\ stack'[u][i].sig = stack[u][i].sig  BY <1>2
  <2>2. j \in DOMAIN stack[v] /\ stack'[v][j].sig = stack[v][j].sig  BY <1>2
  <2>3. stack[u][i].sig = stack[v][j].sig  BY <1>2, <2>1, <2>2
  <2> QED  BY <2>1, <2>2, <2>3 DEF HandledOnce
<1> QED  BY <1>1, <1>2 DEF HandledOnce

\* While the unwinder is loaded nothing is written, and no report is further on.
LEMMA LoadsKeeps == ASSUME IInv, NEW t \in Threads, Loads(t) PROVE IInv'
<1> DEFINE k == Len(stack[t])
           h == stack[t][k]
<1>1. TypeOK /\ Reporting(t, {"load"}) /\ UNCHANGED stderr  BY DEF IInv, Loads
<1>2. /\ k \in DOMAIN stack[t] /\ h \in Handler /\ h.at \in 1..4 /\ Steps[h.at] = "load"
      /\ stack' \in [Threads -> Seq(Handler)]
      /\ \A u \in Threads : DOMAIN stack'[u] = DOMAIN stack[u]
      /\ \A u \in Threads : \A i \in DOMAIN stack[u] :
           stack'[u][i] = IF u = t /\ i = k THEN [sig |-> h.sig, at |-> h.at + 1] ELSE stack[u][i]
      /\ UNCHANGED <<armed, ended>> /\ ended = Running
  BY <1>1, Advances
<1>3. \A u \in Threads : \A i \in DOMAIN stack[u] : stack'[u][i].sig = stack[u][i].sig
  BY <1>2
<1>4. h.at = 2
  <2>1. Steps[1] = "head" /\ Steps[2] = "load" /\ Steps[3] = "trace" /\ Steps[4] = "tail"
    BY DEF Steps
  <2>2. h.at = 1 \/ h.at = 2 \/ h.at = 3 \/ h.at = 4  BY <1>2
  <2> QED  BY <1>2, <2>1, <2>2
<1>5. \A u \in Threads : \A i \in DOMAIN stack[u] : Progress[stack'[u][i].at] = Progress[stack[u][i].at]
  <2>1. Progress[2] = 1 /\ Progress[3] = 1  BY DEF Progress
  <2> QED  BY <1>2, <1>4, <2>1
<1>6. \A u, s, n : ReportedTo(u, s, n)' <=> ReportedTo(u, s, n)  BY <1>1 DEF ReportedTo
<1> HIDE DEF k, h
<1>7. TypeOK'  BY <1>1, <1>2 DEF TypeOK
<1>8. HandledOnce'  BY <1>2, <1>3, SameHandlers DEF IInv
<1>9. LinesHaveHandlers'
  <2>1. \A n \in DOMAIN stderr : stderr[n].by \in Threads
    <3>1. \A n \in DOMAIN stderr : stderr[n] \in Line
      BY <1>1, LenProperties, ElementOfSeq DEF TypeOK
    <3> QED  BY <3>1 DEF Line
  <2> QED  BY <1>1, <1>2, <1>3, <2>1 DEF IInv, LinesHaveHandlers
<1>10. HandlersReport'
  <2> SUFFICES ASSUME NEW u \in Threads, NEW i \in DOMAIN stack'[u]
               PROVE  ReportedTo(u, stack'[u][i].sig, Progress[stack'[u][i].at])
    BY <1>6 DEF HandlersReport
  <2>1. i \in DOMAIN stack[u]  BY <1>2
  <2>2. ReportedTo(u, stack[u][i].sig, Progress[stack[u][i].at])  BY <2>1 DEF IInv, HandlersReport
  <2> QED  BY <1>3, <1>5, <2>1, <2>2
<1>11. StatusHasItsReport'  BY <1>2 DEF StatusHasItsReport, Running
<1> QED  BY <1>7, <1>8, <1>9, <1>10, <1>11 DEF IInv

\* A part of a report is written by the handler of its signal, behind the parts that
\* handler has written; the other reports are as they were.
LEMMA WritesKeeps == ASSUME IInv, NEW t \in Threads, Writes(t) PROVE IInv'
<1> DEFINE k == Len(stack[t])
           h == stack[t][k]
           l == [by |-> t, sig |-> h.sig, part |-> Steps[h.at]]
<1>1. TypeOK /\ HandledOnce /\ Reporting(t, Range(Parts))  BY DEF IInv, Writes
<1>2. /\ k \in DOMAIN stack[t] /\ h \in Handler /\ h.at \in 1..4 /\ Steps[h.at] \in Range(Parts)
      /\ stack' \in [Threads -> Seq(Handler)]
      /\ \A u \in Threads : DOMAIN stack'[u] = DOMAIN stack[u]
      /\ \A u \in Threads : \A i \in DOMAIN stack[u] :
           stack'[u][i] = IF u = t /\ i = k THEN [sig |-> h.sig, at |-> h.at + 1] ELSE stack[u][i]
      /\ UNCHANGED <<armed, ended>> /\ ended = Running
  BY <1>1, Advances
<1>3. \A u \in Threads : \A i \in DOMAIN stack[u] : stack'[u][i].sig = stack[u][i].sig
  BY <1>2
<1>4. stderr' = Append(stderr, l)
  <2>1. Top(t) = h
    <3>1. stack[t] # <<>>  BY <1>1 DEF Reporting
    <3> QED  BY <1>1, <3>1, StackOps
  <2> QED  BY <2>1 DEF Writes
<1>5. /\ h.at \in {1, 3, 4} /\ Steps[h.at] \in {"head", "trace", "tail"}
      /\ Progress[h.at] \in Nat /\ Progress[h.at + 1] = Progress[h.at] + 1
      /\ Steps[h.at] = Parts[Progress[h.at] + 1]
  <2>1. /\ Steps[1] = "head" /\ Steps[2] = "load" /\ Steps[3] = "trace" /\ Steps[4] = "tail"
        /\ Parts[1] = "head" /\ Parts[2] = "trace" /\ Parts[3] = "tail"
        /\ Progress[1] = 0 /\ Progress[2] = 1 /\ Progress[3] = 1 /\ Progress[4] = 2 /\ Progress[5] = 3
    BY DEF Steps, Parts, Progress
  <2>2. h.at = 1 \/ h.at = 2 \/ h.at = 3 \/ h.at = 4  BY <1>2
  <2>3. h.at # 2
    <3>1. DOMAIN Parts = 1..3  BY DEF Parts
    <3>2. \A i \in 1..3 : i = 1 \/ i = 2 \/ i = 3  OBVIOUS
    <3>3. Range(Parts) = {"head", "trace", "tail"}  BY <2>1, <3>1, <3>2 DEF Range
    <3> QED  BY <1>2, <2>1, <3>3
  <2>4. CASE h.at = 1
    <3>1. h.at + 1 = 2 /\ Progress[h.at] + 1 = 1  BY <2>1, <2>4
    <3> QED  BY <2>1, <2>4, <3>1
  <2>5. CASE h.at = 3
    <3>1. h.at + 1 = 4 /\ Progress[h.at] + 1 = 2  BY <2>1, <2>5
    <3> QED  BY <2>1, <2>5, <3>1
  <2>6. CASE h.at = 4
    <3>1. h.at + 1 = 5 /\ Progress[h.at] + 1 = 3  BY <2>1, <2>6
    <3> QED  BY <2>1, <2>6, <3>1
  <2> QED  BY <2>2, <2>3, <2>4, <2>5, <2>6
<1>6. l \in Line /\ l.by = t /\ l.sig = h.sig /\ h.sig \in Caught  BY <1>2, <1>5 DEF Handler, Line
<1>7. stderr \in Seq(Line)  BY <1>1 DEF TypeOK
<1>8. ReportedTo(t, h.sig, Progress[h.at])  BY <1>2 DEF IInv, HandlersReport
<1>9. PICK sg \in Caught, n \in Nat : sg = h.sig /\ n = Progress[h.at]  BY <1>5, <1>6
<1>10. ReportedTo(t, sg, n + 1)'
  <2>1. ReportedTo(t, sg, n) /\ l = [by |-> t, sig |-> sg, part |-> Parts[n + 1]]
    BY <1>5, <1>8, <1>9
  <2>2. /\ [by |-> t, sig |-> sg, part |-> Parts[n + 1]] \in Line
        /\ stderr' = Append(stderr, [by |-> t, sig |-> sg, part |-> Parts[n + 1]])
    BY <1>4, <1>6, <2>1
  <2> HIDE DEF l, h
  <2> QED  BY <1>7, <2>1, <2>2, OwnLine
<1> HIDE DEF l, h, k
<1>11. TypeOK'
  <2>1. stderr' \in Seq(Line)  BY <1>4, <1>6, <1>7, LineAdded
  <2> QED  BY <1>1, <1>2, <2>1 DEF TypeOK
<1>12. HandledOnce'  BY <1>1, <1>2, <1>3, SameHandlers
<1>13. LinesHaveHandlers'
  <2> SUFFICES ASSUME NEW q \in DOMAIN stderr'
               PROVE  \E i \in DOMAIN stack'[stderr'[q].by] :
                        stack'[stderr'[q].by][i].sig = stderr'[q].sig
    BY DEF LinesHaveHandlers
  <2>1. CASE q \in DOMAIN stderr
    <3>1. stderr'[q] = stderr[q]  BY <1>4, <1>6, <1>7, <2>1, LineAdded
    <3>2. stderr[q].by \in Threads
      <4>1. stderr[q] \in Line  BY <1>7, <2>1, LenProperties, ElementOfSeq
      <4> QED  BY <4>1 DEF Line
    <3>3. PICK i \in DOMAIN stack[stderr[q].by] : stack[stderr[q].by][i].sig = stderr[q].sig
      BY <2>1 DEF IInv, LinesHaveHandlers
    <3> QED  BY <1>2, <1>3, <3>1, <3>2, <3>3
  <2>2. CASE q \notin DOMAIN stderr
    <3>1. stderr'[q] = l  BY <1>4, <1>6, <1>7, <2>2, LineAdded
    <3>2. k \in DOMAIN stack'[t] /\ stack'[t][k].sig = h.sig  BY <1>2, <1>3 DEF h
    <3> QED  BY <1>6, <3>1, <3>2
  <2> QED  BY <2>1, <2>2
<1>14. HandlersReport'
  <2> SUFFICES ASSUME NEW u \in Threads, NEW i \in DOMAIN stack'[u], NEW s, NEW m,
                      s = stack'[u][i].sig, m = Progress[stack'[u][i].at]
               PROVE  ReportedTo(u, s, m)'
    BY DEF HandlersReport
  <2>1. i \in DOMAIN stack[u]  BY <1>2
  <2>2. CASE u = t /\ i = k
    <3>1. stack'[u][i].sig = h.sig /\ Progress[stack'[u][i].at] = Progress[h.at] + 1
      BY <1>2, <1>5, <2>1, <2>2
    <3> QED  BY <1>9, <1>10, <2>2, <3>1
  <2>3. CASE ~(u = t /\ i = k)
    <3>1. stack'[u][i] = stack[u][i]  BY <1>2, <2>1, <2>3
    <3>2. l.sig # s  BY <1>1, <1>2, <1>6, <2>1, <2>3, <3>1 DEF HandledOnce, h
    <3>3. ReportedTo(u, s, m)  BY <2>1, <3>1 DEF IInv, HandlersReport
    <3> QED  BY <1>4, <1>6, <1>7, <3>2, <3>3, OtherLine
  <2> QED  BY <2>2, <2>3
<1>15. StatusHasItsReport'  BY <1>2 DEF StatusHasItsReport, Running
<1> QED  BY <1>11, <1>12, <1>13, <1>14, <1>15 DEF IInv

\* A signal is delivered that no handler has had: no line is about it yet.
LEMMA FaultKeeps == ASSUME IInv, NEW t \in Threads, NEW s \in Caught, Fault(t, s) PROVE IInv'
<1> DEFINE k == Len(stack[t])
<1>1. TypeOK /\ HandledOnce /\ ended = Running /\ UNCHANGED stderr  BY DEF IInv, Fault
<1>2. \A u, g, n : ReportedTo(u, g, n)' <=> ReportedTo(u, g, n)  BY <1>1 DEF ReportedTo
<1>3. CASE s \notin armed
  <2>1. ended' = [by |-> "signal", code |-> s] /\ UNCHANGED <<armed, stack>>  BY <1>3 DEF Fault
  <2>2. TypeOK'  BY <1>1, <2>1 DEF TypeOK
  <2>3. HandledOnce'  BY <1>1, <2>1 DEF HandledOnce
  <2>4. LinesHaveHandlers'  BY <1>1, <2>1 DEF IInv, LinesHaveHandlers
  <2>5. HandlersReport'  BY <1>2, <2>1 DEF IInv, HandlersReport
  <2>6. StatusHasItsReport'  BY <2>1 DEF StatusHasItsReport
  <2> QED  BY <2>2, <2>3, <2>4, <2>5, <2>6 DEF IInv
<1>4. CASE s \in armed
  <2>1. /\ stack' = [stack EXCEPT ![t] = Append(stack[t], [sig |-> s, at |-> 1])]
        /\ armed' = armed \ {s} /\ UNCHANGED ended
    BY <1>4 DEF Fault, Deliver
  <2>2. /\ stack[t] \in Seq(Handler) /\ k \in Nat /\ DOMAIN stack[t] = 1..k
        /\ [sig |-> s, at |-> 1] \in Handler
    <3>1. [sig |-> s, at |-> 1] \in Handler  BY DEF Handler
    <3>2. stack[t] \in Seq(Handler) /\ k \in Nat /\ DOMAIN stack[t] = 1..k  BY <1>1, StackOps
    <3> QED  BY <3>1, <3>2
  <2>3. /\ Append(stack[t], [sig |-> s, at |-> 1]) \in Seq(Handler)
        /\ Len(Append(stack[t], [sig |-> s, at |-> 1])) = k + 1
        /\ \A i \in 1..k : Append(stack[t], [sig |-> s, at |-> 1])[i] = stack[t][i]
        /\ Append(stack[t], [sig |-> s, at |-> 1])[k + 1] = [sig |-> s, at |-> 1]
    BY <2>2, AppendProperties
  <2>4. /\ stack' \in [Threads -> Seq(Handler)]
        /\ \A u \in Threads : u # t => stack'[u] = stack[u]
        /\ stack'[t] = Append(stack[t], [sig |-> s, at |-> 1])
    BY <1>1, <2>1, <2>3 DEF TypeOK
  <2>5. DOMAIN stack'[t] = DOMAIN stack[t] \union {k + 1} /\ k + 1 \notin DOMAIN stack[t]
    <3>1. DOMAIN stack'[t] = 1..k + 1  BY <2>3, <2>4, LenProperties
    <3>2. 1..k + 1 = (1..k) \union {k + 1} /\ k + 1 \notin 1..k  BY <2>2
    <3> QED  BY <2>2, <3>1, <3>2
  <2>6. /\ \A i \in DOMAIN stack[t] : stack'[t][i] = stack[t][i]
        /\ stack'[t][k + 1] = [sig |-> s, at |-> 1]
    BY <2>2, <2>3, <2>4
  <2> HIDE DEF k
  <2>7. \A u \in Threads : \A i \in DOMAIN stack'[u] :
          \/ i \in DOMAIN stack[u] /\ stack'[u][i] = stack[u][i] /\ stack[u][i].sig # s
          \/ u = t /\ i = k + 1 /\ stack'[u][i].sig = s
    BY <1>1, <1>4, <2>4, <2>5, <2>6 DEF HandledOnce
  <2>8. TypeOK'  BY <1>1, <2>1, <2>4 DEF TypeOK
  <2>9. HandledOnce'
    <3>1. ASSUME NEW u \in Threads, NEW i \in DOMAIN stack'[u] PROVE stack'[u][i].sig \notin armed'
      BY <1>1, <2>1, <2>7 DEF HandledOnce
    <3>2. ASSUME NEW u \in Threads, NEW v \in Threads, NEW i \in DOMAIN stack'[u],
                 NEW j \in DOMAIN stack'[v], stack'[u][i].sig = stack'[v][j].sig
          PROVE  u = v /\ i = j
      BY <1>1, <2>7, <3>2 DEF HandledOnce
    <3> QED  BY <3>1, <3>2 DEF HandledOnce
  <2>10. \A n \in DOMAIN stderr : /\ stderr[n].by \in Threads
                                 /\ \E i \in DOMAIN stack[stderr[n].by] :
                                      stack[stderr[n].by][i].sig = stderr[n].sig
    <3>1. \A n \in DOMAIN stderr : stderr[n] \in Line
      BY <1>1, LenProperties, ElementOfSeq DEF TypeOK
    <3> QED  BY <3>1 DEF Line, IInv, LinesHaveHandlers
  <2>11. \A u \in Threads : \A i \in DOMAIN stack[u] :
           i \in DOMAIN stack'[u] /\ stack'[u][i] = stack[u][i]
    BY <2>4, <2>5, <2>6
  <2>12. LinesHaveHandlers'  BY <1>1, <2>10, <2>11 DEF LinesHaveHandlers
  <2>13. ReportedTo(t, s, 0)
    <3>1. \A n \in DOMAIN stderr : stderr[n].sig # s  BY <1>1, <1>4, <2>10 DEF HandledOnce
    <3> DEFINE at == [i \in 1..0 |-> 0]
    <3>2. at \in [1..0 -> DOMAIN stderr] /\ \A i \in 1..0 : FALSE  OBVIOUS
    <3> HIDE DEF at
    <3> QED  BY <3>1, <3>2 DEF ReportedTo
  <2>14. HandlersReport'
    <3> SUFFICES ASSUME NEW u \in Threads, NEW i \in DOMAIN stack'[u]
                 PROVE  ReportedTo(u, stack'[u][i].sig, Progress[stack'[u][i].at])
      BY <1>2 DEF HandlersReport
    <3>1. CASE i \in DOMAIN stack[u]
      BY <2>11, <3>1 DEF IInv, HandlersReport
    <3>2. CASE i \notin DOMAIN stack[u]
      <4>1. u = t /\ stack'[u][i] = [sig |-> s, at |-> 1]  BY <2>6, <2>7, <3>2
      <4>2. Progress[1] = 0  BY DEF Progress
      <4> QED  BY <2>13, <4>1, <4>2
    <3> QED  BY <3>1, <3>2
  <2>15. StatusHasItsReport'  BY <1>1, <2>1 DEF StatusHasItsReport, Running
  <2> QED  BY <2>8, <2>9, <2>12, <2>14, <2>15 DEF IInv
<1> QED  BY <1>3, <1>4

\* A handler exits when its report is whole, and with its own signal's status.
LEMMA ExitsKeeps == ASSUME IInv, NEW t \in Threads, Exits(t) PROVE IInv'
<1> DEFINE k == Len(stack[t])
           h == stack[t][k]
<1>1. /\ TypeOK /\ stack[t] # <<>> /\ Top(t).at > Len(Steps)
      /\ ended' = [by |-> "exit", code |-> 128 + Top(t).sig]
      /\ UNCHANGED <<armed, stack, stderr>>
  BY DEF IInv, Exits
<1>2. k \in DOMAIN stack[t] /\ h \in Handler /\ Top(t) = h  BY <1>1, StackOps
<1>3. h.sig \in Caught /\ h.at = 5 /\ ended'.code = 128 + h.sig
  <2>1. Len(Steps) = 4  BY DEF Steps
  <2>2. h.at \in 1..5 /\ h.at > 4 /\ h.sig \in Caught  BY <1>1, <1>2, <2>1 DEF Handler
  <2>3. h.at = 5  BY <2>2
  <2>4. ended'.code = 128 + Top(t).sig  BY <1>1
  <2> QED  BY <1>2, <2>2, <2>3, <2>4
<1>4. ReportedTo(t, h.sig, 3)
  <2>1. Progress[5] = 3  BY DEF Progress
  <2> QED  BY <1>2, <1>3, <2>1 DEF IInv, HandlersReport
<1> HIDE DEF h
<1>5. OneReport(t, h.sig)
  <2>1. DOMAIN Parts = 1..3  BY DEF Parts
  <2>2. PICK at \in [1..3 -> DOMAIN stderr] :
          /\ \A i, j \in 1..3 : i < j => at[i] < at[j]
          /\ \A i \in 1..3 : stderr[at[i]] = [by |-> t, sig |-> h.sig, part |-> Parts[i]]
          /\ \A n \in DOMAIN stderr : stderr[n].sig = h.sig => \E i \in 1..3 : at[i] = n
    BY <1>4 DEF ReportedTo
  <2>3. \A n \in DOMAIN stderr : stderr[n].sig = h.sig => n \in Range(at)
    BY <2>2 DEF Range
  <2> QED  BY <2>1, <2>2, <2>3 DEF OneReport
<1>6. StatusHasItsReport'
  <2>1. \A s : OneReport(t, s)' <=> OneReport(t, s)  BY <1>1 DEF OneReport
  <2>2. PICK s \in Caught : s = h.sig /\ ended'.code = 128 + s  BY <1>3
  <2> QED  BY <1>5, <2>1, <2>2 DEF StatusHasItsReport
<1>7. \A u, s, n : ReportedTo(u, s, n)' <=> ReportedTo(u, s, n)  BY <1>1 DEF ReportedTo
<1>8. TypeOK' /\ HandledOnce' /\ LinesHaveHandlers'
  BY <1>1 DEF IInv, TypeOK, HandledOnce, LinesHaveHandlers
<1>9. HandlersReport'  BY <1>1, <1>7 DEF IInv, HandlersReport
<1> QED  BY <1>6, <1>8, <1>9 DEF IInv

-----------------------------------------------------------------------------
\* Before the first fault every signal is armed and nothing is written.
LEMMA InitIInv == Init => IInv
<1> SUFFICES ASSUME Init PROVE IInv  OBVIOUS
<1>1. armed = Caught /\ stack = [t \in Threads |-> <<>>] /\ stderr = <<>> /\ ended = Running
  BY DEF Init
<1>2. TypeOK  BY <1>1, EmptySeq DEF TypeOK
<1>3. \A t \in Threads : DOMAIN stack[t] = {}  BY <1>1
<1>4. DOMAIN stderr = {}  BY <1>1
<1>5. StatusHasItsReport  BY <1>1 DEF StatusHasItsReport, Running
<1> QED  BY <1>2, <1>3, <1>4, <1>5 DEF IInv, HandledOnce, LinesHaveHandlers, HandlersReport

\* Every fault, and every step of a handler or of the game, keeps the reports apart.
LEMMA Invariant == IInv /\ [Next]_vars => IInv'
<1> SUFFICES ASSUME IInv, [Next]_vars PROVE IInv'  OBVIOUS
<1>1. ASSUME UNCHANGED <<armed, stack, stderr, ended>> PROVE IInv'
  <2>1. /\ \A u, s, n : ReportedTo(u, s, n)' <=> ReportedTo(u, s, n)
        /\ \A u, s : OneReport(u, s)' <=> OneReport(u, s)
    BY <1>1 DEF ReportedTo, OneReport
  <2>2. TypeOK' /\ HandledOnce' /\ LinesHaveHandlers'
    BY <1>1 DEF IInv, TypeOK, HandledOnce, LinesHaveHandlers
  <2>3. HandlersReport'  BY <1>1, <2>1 DEF IInv, HandlersReport
  <2>4. StatusHasItsReport'  BY <1>1, <2>1 DEF IInv, StatusHasItsReport
  <2> QED  BY <2>2, <2>3, <2>4 DEF IInv
<1>2. ASSUME NEW t \in Threads, Allocates(t) PROVE IInv'  BY <1>1, <1>2 DEF Allocates
<1>3. ASSUME NEW t \in Threads, Frees(t) PROVE IInv'  BY <1>1, <1>3 DEF Frees
<1>4. CASE UNCHANGED vars  BY <1>1, <1>4 DEF vars
<1> QED
  BY <1>2, <1>3, <1>4, LoadsKeeps, WritesKeeps, ExitsKeeps, FaultKeeps DEF Next

\* IInv holds in every behaviour.
LEMMA Invariance == Spec => []IInv
<1> QED  BY InitIInv, Invariant, PTL DEF Spec

\* The signal in the exit status has one whole report, by one thread
\* (src/crashcatch.c:99,108).
THEOREM StatusIsReported == Spec => []StatusHasItsReport
<1>1. IInv => StatusHasItsReport  BY DEF IInv
<1> QED  BY <1>1, Invariance, PTL

ReportedOnce ==
  \A m, n \in DOMAIN stderr : stderr[m].sig = stderr[n].sig =>
    /\ stderr[m].by = stderr[n].by
    /\ stderr[m].part = stderr[n].part => m = n

\* At every moment, and however the process ends: no part of a signal's report is
\* written twice, and none by a second thread.
THEOREM NoSecondReport == Spec => []ReportedOnce
<1>1. IInv => ReportedOnce
  <2> SUFFICES ASSUME IInv, NEW m \in DOMAIN stderr, NEW n \in DOMAIN stderr,
                      stderr[m].sig = stderr[n].sig
               PROVE  /\ stderr[m].by = stderr[n].by
                      /\ stderr[m].part = stderr[n].part => m = n
    BY DEF ReportedOnce
  <2> DEFINE t == stderr[m].by
             s == stderr[m].sig
  <2>1. t \in Threads
    <3>1. stderr[m] \in Line  BY LenProperties, ElementOfSeq DEF IInv, TypeOK
    <3> QED  BY <3>1 DEF Line
  <2>2. PICK i \in DOMAIN stack[t] : stack[t][i].sig = s  BY DEF IInv, LinesHaveHandlers
  <2> DEFINE k == Progress[stack[t][i].at]
  <2>3. ReportedTo(t, s, k)  BY <2>1, <2>2 DEF IInv, HandlersReport
  <2>4. k \in 0..3
    <3>1. TypeOK  BY DEF IInv
    <3>2. stack[t][i].at \in 1..5  BY <2>1, <2>2, <3>1, StackOps DEF Handler
    <3> DEFINE a == stack[t][i].at
    <3>3. a = 1 \/ a = 2 \/ a = 3 \/ a = 4 \/ a = 5  BY <3>2
    <3>4. Progress[1] = 0 /\ Progress[2] = 1 /\ Progress[3] = 1 /\ Progress[4] = 2 /\ Progress[5] = 3
      BY DEF Progress
    <3> QED  BY <3>3, <3>4
  <2> HIDE DEF k, t, s
  <2>5. PICK at \in [1..k -> DOMAIN stderr] :
          /\ \A g \in 1..k : stderr[at[g]] = [by |-> t, sig |-> s, part |-> Parts[g]]
          /\ \A l \in DOMAIN stderr : stderr[l].sig = s => \E g \in 1..k : at[g] = l
    BY <2>3 DEF ReportedTo
  <2>6. PICK g \in 1..k : at[g] = m  BY <2>5 DEF s
  <2>7. PICK f \in 1..k : at[f] = n  BY <2>5 DEF s
  <2>8. /\ stderr[m] = [by |-> t, sig |-> s, part |-> Parts[g]]
        /\ stderr[n] = [by |-> t, sig |-> s, part |-> Parts[f]]
    BY <2>5, <2>6, <2>7, Zenon
  <2>9. stderr[m].by = stderr[n].by /\ stderr[m].part = Parts[g] /\ stderr[n].part = Parts[f]
    BY <2>8
  <2>10. ASSUME Parts[g] = Parts[f] PROVE g = f
    <3>1. Parts[1] = "head" /\ Parts[2] = "trace" /\ Parts[3] = "tail"  BY DEF Parts
    <3>2. g \in 1..3 /\ f \in 1..3  BY <2>4
    <3>3. (g = 1 \/ g = 2 \/ g = 3) /\ (f = 1 \/ f = 2 \/ f = 3)  BY <3>2
    <3>4. "head" # "trace" /\ "head" # "tail" /\ "trace" # "tail"  OBVIOUS
    <3> QED  BY <2>10, <3>1, <3>3, <3>4
  <2> QED  BY <2>6, <2>7, <2>9, <2>10
<1> QED  BY <1>1, Invariance, PTL

=============================================================================
