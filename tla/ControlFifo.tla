---------------------------- MODULE ControlFifo ----------------------------
(***************************************************************************)
(* The control FIFO of src/pdkhost.c below the queue of whole lines that   *)
(* PdkHost sees: shells that open, write one line and close; the host's    *)
(* read() of at most Chunk units; and its close and reopen when a read()   *)
(* returns 0.  The kernel's FIFO is external: an open for writing blocks   *)
(* until a reader exists, a write without a reader fails, and what is in   *)
(* the buffer is discarded when the last end closes.                       *)
(***************************************************************************)
EXTENDS Integers, Sequences, FiniteSets

CONSTANTS
  Writers,  \* shells, each writing one line: echo <line> > /tmp/pdkhost.ctl
  LineLen,  \* units in a line, the newline being the last
  Chunk     \* units one read() returns at most: sizeof(line) - 1

ASSUME ControlFifoAssumption == LineLen \in Nat \ {0} /\ Chunk \in Nat \ {0}

VARIABLES
  writer,   \* what each shell is doing
  wrote,    \* the shells whose write succeeded, in order
  cfifo,    \* the host has the FIFO open
  hangup,   \* a writer has come since the host opened it: its leaving is EOF
  buffer,   \* the units in the FIFO: which line's, and which of its parts
  host,     \* the host: busy (accept, or a frame), in select(), reopening
  handled   \* the tokens handle_control_line() was given: the units of each

vars == <<writer, wrote, cfifo, hangup, buffer, host, handled>>

Opened == \E w \in Writers : writer[w] \in {"open", "written"}

Init ==
  /\ writer = [w \in Writers |-> "idle"] /\ wrote = <<>>
  /\ cfifo = TRUE /\ hangup = FALSE /\ buffer = <<>>
  /\ host = "busy" /\ handled = <<>>

-----------------------------------------------------------------------------
(* The shells (external).                                                  *)

Open(w) ==
  /\ writer[w] = "idle"
  /\ writer' = [writer EXCEPT ![w] = "opening"]
  /\ UNCHANGED <<wrote, cfifo, hangup, buffer, host, handled>>

OpenReturns(w) ==
  /\ writer[w] = "opening" /\ cfifo
  /\ writer' = [writer EXCEPT ![w] = "open"] /\ hangup' = TRUE
  /\ UNCHANGED <<wrote, cfifo, buffer, host, handled>>

Write(w) ==
  /\ writer[w] = "open" /\ cfifo
  /\ writer' = [writer EXCEPT ![w] = "written"]
  /\ wrote' = Append(wrote, w)
  /\ buffer' = buffer \o [i \in 1..LineLen |-> [line |-> w, part |-> i]]
  /\ UNCHANGED <<cfifo, hangup, host, handled>>

WriteFails(w) ==
  /\ writer[w] = "open" /\ ~cfifo
  /\ writer' = [writer EXCEPT ![w] = "failed"]
  /\ UNCHANGED <<wrote, cfifo, hangup, buffer, host, handled>>

Close(w) ==
  /\ writer[w] = "written"
  /\ writer' = [writer EXCEPT ![w] = "done"]
  /\ buffer' = IF cfifo \/ Opened' THEN buffer ELSE <<>>
  /\ UNCHANGED <<wrote, cfifo, hangup, host, handled>>

-----------------------------------------------------------------------------
(* The host.                                                               *)

\* strtok_r(line, "\n"): newlines only separate the tokens of a chunk.  One that
\* starts or ends inside a line's text is a fragment, and is handed on all the same.
Newline(unit) == unit.part = LineLen

Starts(chunk) ==
  {i \in DOMAIN chunk : ~Newline(chunk[i]) /\ (i = 1 \/ Newline(chunk[i - 1]))}

\* Mutant: the token is not ended at the newline behind it.
TokenAt_Unended(chunk, i) == {chunk[j] : j \in {k \in i..Len(chunk) : ~Newline(chunk[k])}}

TokenAt(chunk, i) ==
  {chunk[j] : j \in {k \in i..Len(chunk) : \A n \in i..k : ~Newline(chunk[n])}}

\* The n-th of a set of positions.
Nth(S, n) == CHOOSE i \in S : Cardinality({j \in S : j <= i}) = n

\* Mutant: the scan restarts at the start of the chunk.
Tokens_Restarted(chunk) ==
  LET starts == Starts(chunk)
  IN [n \in 1..Cardinality(starts) + 1 |->
        TokenAt(chunk, IF n > Cardinality(starts) THEN 1 ELSE Nth(starts, n))]

Tokens(chunk) ==
  [n \in 1..Cardinality(Starts(chunk)) |-> TokenAt(chunk, Nth(Starts(chunk), n))]

\* A session has started or a frame has been read: the host is back in select().
Enter == /\ host = "busy" /\ host' = "select"
         /\ UNCHANGED <<writer, wrote, cfifo, hangup, buffer, handled>>

\* The client is served, or its session ends and the host is in accept().
Leave == /\ host = "select" /\ host' = "busy"
         /\ UNCHANGED <<writer, wrote, cfifo, hangup, buffer, handled>>

Took(chunk) ==
  /\ handled' = handled \o Tokens(chunk)
  /\ buffer' = SubSeq(buffer, Len(chunk) + 1, Len(buffer))

ReadLines ==
  /\ host = "select" /\ buffer # <<>>
  /\ Took(SubSeq(buffer, 1, IF Len(buffer) < Chunk THEN Len(buffer) ELSE Chunk))
  /\ UNCHANGED <<writer, wrote, cfifo, hangup, host>>

\* Mutant: a writer that left is taken for the end of what it wrote.
ReadEof_BeforeData ==
  /\ host = "select" /\ hangup /\ ~Opened
  /\ host' = "close"
  /\ UNCHANGED <<writer, wrote, cfifo, hangup, buffer, handled>>

\* read() returns 0: every writer has left and the buffer is empty.
ReadEof ==
  /\ host = "select" /\ buffer = <<>> /\ hangup /\ ~Opened
  /\ host' = "close"
  /\ UNCHANGED <<writer, wrote, cfifo, hangup, buffer, handled>>

\* Mutant: the FIFO is closed and not opened again.
CloseFifo_ForGood ==
  /\ host = "close" /\ cfifo' = FALSE /\ host' = "select"
  /\ buffer' = (IF Opened THEN buffer ELSE <<>>)
  /\ UNCHANGED <<writer, wrote, hangup, handled>>

CloseFifo ==
  /\ host = "close" /\ cfifo' = FALSE /\ host' = "reopen"
  /\ buffer' = (IF Opened THEN buffer ELSE <<>>)
  /\ UNCHANGED <<writer, wrote, hangup, handled>>

ReopenFifo ==
  /\ host = "reopen" /\ cfifo' = TRUE /\ host' = "select"
  /\ hangup' = Opened
  /\ UNCHANGED <<writer, wrote, buffer, handled>>

-----------------------------------------------------------------------------
Shell(w) == Open(w) \/ OpenReturns(w) \/ Write(w) \/ WriteFails(w) \/ Close(w)
FifoStep == ReadLines \/ ReadEof \/ CloseFifo \/ ReopenFifo

Next == Enter \/ Leave \/ FifoStep \/ \E w \in Writers : Shell(w)

Spec == Init /\ [][Next]_vars

\* A shell that has started runs on, and the host looks at the FIFO whenever it is
\* in select() (the FIFO is handled before the client).  Nothing says that it comes
\* back there: accept() and the reads of a hello or a frame may block for ever.
Fairness ==
  /\ \A w \in Writers : WF_vars(OpenReturns(w) \/ Write(w) \/ WriteFails(w) \/ Close(w))
  /\ SF_vars(ReadLines) /\ SF_vars(ReadEof)
  /\ WF_vars(CloseFifo) /\ WF_vars(ReopenFifo)

FairSpec == Spec /\ Fairness

-----------------------------------------------------------------------------
(* Properties.                                                             *)

Before(v, w) == \E m, n \in DOMAIN wrote : m < n /\ wrote[m] = v /\ wrote[n] = w

\* u was written before v.
Precedes(u, v) == Before(u.line, v.line) \/ (u.line = v.line /\ u.part < v.part)

\* What is handed on is in the order it was written, and no part of a line is handed
\* on twice, however the reads cut the lines and whatever is lost between them.
HandledInOrder ==
  \A i, j \in DOMAIN handled : i < j =>
    \A u \in handled[i], v \in handled[j] : Precedes(u, v)

\* One command is never made of two shells' lines, nor of pieces of a line that were
\* not next to each other: a read that cuts a line gives fragments, never a splice.
TokensOfOneLine ==
  \A i \in DOMAIN handled : \A u, v \in handled[i] :
    u.line = v.line /\ \A p \in u.part..v.part : [line |-> u.line, part |-> p] \in handled[i]

\* Of the line, all but its newline has been handed on.
Handled(w) ==
  \A p \in 1..LineLen - 1 : \E i \in DOMAIN handled : [line |-> w, part |-> p] \in handled[i]

\* Only the window between a read() of 0 and the reopen can lose a line: one that is
\* in the FIFO while the host is anywhere else is handed on, all of it, as long as
\* the host keeps coming back to select().
UnracedLinesHandled ==
  \A w \in Writers :
    []<>(host = "select") =>
      ((host \in {"busy", "select"} /\ \E i \in DOMAIN buffer : buffer[i].line = w)
         ~> Handled(w))

\* The comment at the reopen (src/pdkhost.c:391): a shell that comes after another
\* one left is let in, even while the host waits elsewhere.
FifoStaysUsable == \A w \in Writers : writer[w] = "opening" ~> writer[w] = "open"
=============================================================================
