-------------------------- MODULE ControlFifoProofs --------------------------
(***************************************************************************)
(* The lines of pdkhost's control FIFO are handled in the order they were  *)
(* written, for every set of shells, every length of a line and every size *)
(* of a read.                                                              *)
(*                                                                         *)
(* HandledInOrder speaks of what has been handled; the invariant that      *)
(* carries it speaks of what is still in the buffer too: its units are in  *)
(* the order they were written (BufferInOrder), and they come after all    *)
(* that has been handed on (HandledFirst).                                 *)
(***************************************************************************)
EXTENDS ControlFifo, FiniteSetTheorems, SequenceTheorems, TLAPS

Units  == [line : Writers, part : 1..LineLen]
Given  == SUBSET Units

TypeOK ==
  /\ writer \in [Writers -> {"idle", "opening", "open", "written", "failed", "done"}]
  /\ cfifo \in BOOLEAN /\ hangup \in BOOLEAN
  /\ host \in {"busy", "select", "close", "reopen"}
  /\ wrote \in Seq(Writers) /\ buffer \in Seq(Units) /\ handled \in Seq(Given)

\* A shell writes once.
WritesOnce ==
  /\ \A m \in DOMAIN wrote : writer[wrote[m]] \in {"written", "done"}
  /\ \A m, n \in DOMAIN wrote : wrote[m] = wrote[n] => m = n

Written(w) == \E m \in DOMAIN wrote : wrote[m] = w

AllWritten ==
  /\ \A i \in DOMAIN buffer : Written(buffer[i].line)
  /\ \A i \in DOMAIN handled : \A u \in handled[i] : Written(u.line)

BufferInOrder ==
  \A i, j \in DOMAIN buffer : i < j => Precedes(buffer[i], buffer[j])

HandledFirst ==
  \A i \in DOMAIN handled, j \in DOMAIN buffer :
    \A u \in handled[i] : Precedes(u, buffer[j])

IInv == TypeOK /\ WritesOnce /\ AllWritten /\ BufferInOrder /\ HandledFirst /\ HandledInOrder

-----------------------------------------------------------------------------
(* The units in the FIFO, and the tokens of a chunk.                       *)

\* The first k units of a buffer, and what is behind them.
LEMMA Cut ==
  ASSUME NEW b \in Seq(Units), NEW k \in 0..Len(b)
  PROVE  /\ k \in Nat /\ k <= Len(b)
         /\ SubSeq(b, 1, k) \in Seq(Units)
         /\ Len(SubSeq(b, 1, k)) = k /\ DOMAIN SubSeq(b, 1, k) = 1..k
         /\ \A i \in 1..k : i \in DOMAIN b /\ SubSeq(b, 1, k)[i] = b[i]
         /\ SubSeq(b, k + 1, Len(b)) \in Seq(Units)
         /\ Len(SubSeq(b, k + 1, Len(b))) = Len(b) - k
         /\ DOMAIN SubSeq(b, k + 1, Len(b)) = 1..Len(b) - k
         /\ \A j \in 1..Len(b) - k : k + j \in DOMAIN b /\ SubSeq(b, k + 1, Len(b))[j] = b[k + j]
<1> DEFINE front == SubSeq(b, 1, k)
           rest == SubSeq(b, k + 1, Len(b))
<1>1. Len(b) \in Nat /\ DOMAIN b = 1..Len(b)  BY LenProperties
<1>2. k \in Nat /\ k <= Len(b)  BY <1>1
<1>3. \A i \in 1..Len(b) : b[i] \in Units  BY <1>1, ElementOfSeq
<1>4. /\ front \in Seq(Units) /\ Len(front) = IF 1 <= k THEN k - 1 + 1 ELSE 0
      /\ \A i \in 1..k - 1 + 1 : front[i] = b[1 + i - 1]
  <2>1. \A i \in 1..k : b[i] \in Units  BY <1>1, <1>2, <1>3
  <2> QED  BY <1>2, <2>1, SubSeqProperties
<1>5. /\ rest \in Seq(Units)
      /\ Len(rest) = IF k + 1 <= Len(b) THEN Len(b) - (k + 1) + 1 ELSE 0
      /\ \A j \in 1..Len(b) - (k + 1) + 1 : rest[j] = b[(k + 1) + j - 1]
  <2>1. \A i \in k + 1..Len(b) : b[i] \in Units  BY <1>1, <1>2, <1>3
  <2>2. k + 1 \in Int /\ Len(b) \in Int  BY <1>1, <1>2
  <2> QED  BY <2>1, <2>2, SubSeqProperties
<1> HIDE DEF front, rest
<1>6. Len(front) = k /\ Len(rest) = Len(b) - k
  <2>1. Len(b) \in Nat  BY <1>1
  <2>2. Len(front) = IF 1 <= k THEN k - 1 + 1 ELSE 0  BY <1>4
  <2>3. Len(rest) = IF k + 1 <= Len(b) THEN Len(b) - (k + 1) + 1 ELSE 0  BY <1>5
  <2>4. Len(front) = k  BY <1>2, <2>2
  <2>5. Len(rest) = Len(b) - k  BY <1>2, <2>1, <2>3
  <2> QED  BY <2>4, <2>5
<1>7. DOMAIN front = 1..k /\ DOMAIN rest = 1..Len(b) - k  BY <1>4, <1>5, <1>6, LenProperties
<1>8. ASSUME NEW i \in 1..k PROVE i \in DOMAIN b /\ front[i] = b[i]
  <2>1. i \in 1..k - 1 + 1 /\ 1 + i - 1 = i /\ i \in 1..Len(b)  BY <1>1, <1>2
  <2> QED  BY <1>1, <1>4, <2>1
<1>9. ASSUME NEW j \in 1..Len(b) - k PROVE k + j \in DOMAIN b /\ rest[j] = b[k + j]
  <2>1. j \in 1..Len(b) - (k + 1) + 1 /\ (k + 1) + j - 1 = k + j /\ k + j \in 1..Len(b)
    BY <1>1, <1>2
  <2> QED  BY <1>1, <1>5, <2>1
<1> QED  BY <1>2, <1>4, <1>5, <1>6, <1>7, <1>8, <1>9 DEF front, rest

\* A read() takes the front of the buffer, and hands on its tokens.
Takes(k) ==
  /\ handled' = handled \o Tokens(SubSeq(buffer, 1, k))
  /\ buffer' = SubSeq(buffer, k + 1, Len(buffer))

\* ReadLines is that, and no more.
LEMMA ReadTakes ==
  ASSUME buffer \in Seq(Units), ReadLines
  PROVE  /\ UNCHANGED <<writer, wrote, cfifo, hangup, host>>
         /\ \E k \in 0..Len(buffer) : Takes(k)
<1> DEFINE k == IF Len(buffer) < Chunk THEN Len(buffer) ELSE Chunk
<1>1. Took(SubSeq(buffer, 1, k)) /\ UNCHANGED <<writer, wrote, cfifo, hangup, host>>
  BY DEF ReadLines
<1>2. k \in 0..Len(buffer)
  <2>1. Len(buffer) \in Nat  BY LenProperties
  <2>2. Chunk \in Nat  BY ControlFifoAssumption
  <2> QED  BY <2>1, <2>2
<1> HIDE DEF k
<1>3. Len(SubSeq(buffer, 1, k)) = k  BY <1>2, Cut
<1> QED  BY <1>1, <1>2, <1>3 DEF Took, Takes

\* Every number up to the size of a finite set of positions is that of one of them, the
\* positions come in the order of their numbers, and each has one.
LEMMA NthInOrder ==
  ASSUME NEW N \in Nat, NEW S \in SUBSET (1..N)
  PROVE  /\ Cardinality(S) \in Nat
         /\ \A n \in 1..Cardinality(S) : Nth(S, n) \in S
         /\ \A m, n \in 1..Cardinality(S) : m < n => Nth(S, m) < Nth(S, n)
         /\ \A i \in S : \E n \in 1..Cardinality(S) : Nth(S, n) = i
<1> DEFINE upTo(i) == {j \in S : j <= i}
           c == Cardinality(S)
           rank == [i \in S |-> Cardinality(upTo(i))]
<1>1. IsFiniteSet(S) /\ c \in Nat /\ \A i \in S : i \in Nat
  <2>1. IsFiniteSet(1..N)  BY FS_Interval
  <2>2. IsFiniteSet(S)  BY <2>1, FS_Subset
  <2>3. c \in Nat  BY <2>2, FS_CardinalityType
  <2> QED  BY <2>2, <2>3
<1>2. \A i \in S : /\ IsFiniteSet(upTo(i))
                   /\ Cardinality(upTo(i)) \in Nat
                   /\ Cardinality(upTo(i)) <= c
                   /\ upTo(i) \in SUBSET S
  <2> SUFFICES ASSUME NEW i \in S
               PROVE  /\ IsFiniteSet(upTo(i)) /\ Cardinality(upTo(i)) \in Nat
                      /\ Cardinality(upTo(i)) <= c /\ upTo(i) \in SUBSET S
    OBVIOUS
  <2>1. upTo(i) \in SUBSET S  OBVIOUS
  <2> HIDE DEF upTo
  <2>2. IsFiniteSet(upTo(i)) /\ Cardinality(upTo(i)) <= c  BY <2>1, <1>1, FS_Subset
  <2>3. Cardinality(upTo(i)) \in Nat  BY <2>2, FS_CardinalityType
  <2> QED  BY <2>1, <2>2, <2>3
<1>3. \A i \in S : Cardinality(upTo(i)) # 0
  <2> SUFFICES ASSUME NEW i \in S PROVE Cardinality(upTo(i)) # 0  OBVIOUS
  <2>1. i \in upTo(i)  BY <1>1
  <2> QED  BY <1>2, <2>1, FS_EmptySet
<1>4. rank \in [S -> 1..c]
  <2> HIDE DEF upTo
  <2>1. \A i \in S : Cardinality(upTo(i)) \in 1..c  BY <1>1, <1>2, <1>3
  <2> HIDE DEF c
  <2> QED  BY <2>1
<1>5. \A i, k \in S : i <= k => Cardinality(upTo(i)) <= Cardinality(upTo(k))
  <2> SUFFICES ASSUME NEW i \in S, NEW k \in S, i <= k
               PROVE  Cardinality(upTo(i)) <= Cardinality(upTo(k))
    OBVIOUS
  <2>1. i \in Nat /\ k \in Nat /\ \A j \in S : j \in Nat  BY <1>1
  <2>2. upTo(i) \in SUBSET upTo(k)
    <3> SUFFICES ASSUME NEW j \in S, j <= i PROVE j <= k  OBVIOUS
    <3> QED  BY <2>1
  <2> HIDE DEF upTo
  <2> QED  BY <2>2, <1>2, FS_Subset
<1>6. \A i, k \in S : i < k => Cardinality(upTo(i)) # Cardinality(upTo(k))
  <2> SUFFICES ASSUME NEW i \in S, NEW k \in S, i < k,
                      Cardinality(upTo(k)) = Cardinality(upTo(i))
               PROVE  FALSE
    OBVIOUS
  <2>1. i \in Nat /\ k \in Nat /\ \A j \in S : j \in Nat  BY <1>1
  <2>2. k \in upTo(k) /\ k \notin upTo(i)  BY <2>1
  <2>3. upTo(i) \in SUBSET upTo(k)
    <3> SUFFICES ASSUME NEW j \in S, j <= i PROVE j <= k  OBVIOUS
    <3> QED  BY <2>1
  <2> HIDE DEF upTo
  <2>4. upTo(k) = upTo(i)  BY <2>3, <1>2, FS_Subset
  <2> QED  BY <2>2, <2>4
<1>7. rank \in Injection(S, 1..c)
  <2>1. \A i, k \in S : rank[i] = rank[k] => i = k
    <3> SUFFICES ASSUME NEW i \in S, NEW k \in S, rank[i] = rank[k] PROVE i = k  OBVIOUS
    <3>1. Cardinality(upTo(i)) = Cardinality(upTo(k))  OBVIOUS
    <3> HIDE DEF upTo, rank
    <3>2. ~(i < k) /\ ~(k < i)  BY <3>1, <1>6
    <3> QED  BY <3>2, <1>1
  <2> HIDE DEF rank
  <2> QED  BY <2>1, <1>4 DEF Injection, IsInjective
<1>8. Cardinality(1..c) = c /\ IsFiniteSet(1..c)
  <2> HIDE DEF c
  <2> QED  BY <1>1, FS_Interval
<1>9. rank \in Surjection(S, 1..c)
  <2> HIDE DEF rank
  <2> QED  BY <1>7, <1>8, FS_Injection
<1>10. \A n \in 1..c : \E i \in S : Cardinality(upTo(i)) = n
  <2>1. \A n \in 1..c : \E i \in S : rank[i] = n  BY <1>9 DEF Surjection
  <2> HIDE DEF upTo, c
  <2> QED  BY <2>1
<1>11. \A n \in 1..c : Nth(S, n) \in S /\ Cardinality(upTo(Nth(S, n))) = n
  <2> SUFFICES ASSUME NEW n \in 1..c
               PROVE  Nth(S, n) \in S /\ Cardinality(upTo(Nth(S, n))) = n
    OBVIOUS
  <2>1. \E i \in S : Cardinality({j \in S : j <= i}) = n  BY <1>10
  <2> QED  BY <2>1 DEF Nth
<1>12. \A m, n \in 1..c : m < n => Nth(S, m) < Nth(S, n)
  <2> SUFFICES ASSUME NEW m \in 1..c, NEW n \in 1..c, m < n PROVE Nth(S, m) < Nth(S, n)
    OBVIOUS
  <2> HIDE DEF upTo
  <2>1. Nth(S, m) \in S /\ Nth(S, n) \in S  BY <1>11
  <2>2. Nth(S, n) <= Nth(S, m) => n <= m  BY <2>1, <1>5, <1>11
  <2>3. Nth(S, m) \in Nat /\ Nth(S, n) \in Nat  BY <2>1, <1>1
  <2>4. m \in Nat /\ n \in Nat  BY <1>1
  <2> QED  BY <2>2, <2>3, <2>4
<1>13. \A i \in S : \E n \in 1..c : Nth(S, n) = i
  <2> SUFFICES ASSUME NEW i \in S PROVE \E n \in 1..c : Nth(S, n) = i  OBVIOUS
  <2> DEFINE n == Cardinality(upTo(i))
             k == Nth(S, n)
  <2>1. n \in 1..c
    <3> HIDE DEF upTo, c
    <3> QED  BY <1>1, <1>2, <1>3
  <2> HIDE DEF n
  <2>2. k \in S /\ Cardinality(upTo(k)) = n  BY <1>11, <2>1
  <2> HIDE DEF k, upTo
  <2>3. ~(i < k) /\ ~(k < i)  BY <1>6, <2>2 DEF n
  <2>4. i = k  BY <1>1, <2>2, <2>3
  <2> QED  BY <2>1, <2>4 DEF k
<1> QED  BY <1>1, <1>11, <1>12, <1>13

\* The tokens of a chunk are those of the positions where one starts, in their order.
LEMMA TokensInOrder ==
  ASSUME NEW chunk \in Seq(Units)
  PROVE  /\ Tokens(chunk) \in Seq(Given)
         /\ \E at \in [DOMAIN Tokens(chunk) -> Starts(chunk)] :
              /\ \A n \in DOMAIN Tokens(chunk) : Tokens(chunk)[n] = TokenAt(chunk, at[n])
              /\ \A m, n \in DOMAIN Tokens(chunk) : m < n => at[m] < at[n]
              /\ \A i \in Starts(chunk) : \E n \in DOMAIN Tokens(chunk) : at[n] = i
<1> DEFINE S == Starts(chunk)
           at == [n \in 1..Cardinality(S) |-> Nth(S, n)]
<1>1. Len(chunk) \in Nat /\ DOMAIN chunk = 1..Len(chunk)  BY LenProperties
<1>2. S \in SUBSET (1..Len(chunk))  BY <1>1 DEF Starts
<1>3. /\ Cardinality(S) \in Nat
      /\ \A n \in 1..Cardinality(S) : Nth(S, n) \in S
      /\ \A m, n \in 1..Cardinality(S) : m < n => Nth(S, m) < Nth(S, n)
      /\ \A i \in S : \E n \in 1..Cardinality(S) : Nth(S, n) = i
  <2> HIDE DEF S
  <2> QED  BY <1>1, <1>2, NthInOrder
<1>4. Tokens(chunk) = [n \in 1..Cardinality(S) |-> TokenAt(chunk, Nth(S, n))]
  BY DEF Tokens
<1>5. DOMAIN Tokens(chunk) = 1..Cardinality(S)  BY <1>4
<1> HIDE DEF S
<1>6. \A i \in 1..Len(chunk) : chunk[i] \in Units  BY <1>1, ElementOfSeq
<1>7. \A i \in 1..Len(chunk) : TokenAt(chunk, i) \in Given
  BY <1>6 DEF TokenAt, Given
<1>8. \A n \in 1..Cardinality(S) : Nth(S, n) \in 1..Len(chunk)  BY <1>2, <1>3
<1>9. Tokens(chunk) \in [1..Cardinality(S) -> Given]  BY <1>4, <1>7, <1>8
<1>10. Tokens(chunk) \in Seq(Given)  BY <1>3, <1>9, SeqDef
<1>11. at \in [DOMAIN Tokens(chunk) -> S]  BY <1>3, <1>5
<1>12. \A n \in DOMAIN Tokens(chunk) : Tokens(chunk)[n] = TokenAt(chunk, at[n])
  BY <1>4, <1>5
<1>13. /\ \A m, n \in DOMAIN Tokens(chunk) : m < n => at[m] < at[n]
       /\ \A i \in S : \E n \in DOMAIN Tokens(chunk) : at[n] = i
  BY <1>3, <1>5
<1> HIDE DEF at
<1> QED  BY <1>10, <1>11, <1>12, <1>13 DEF S

\* What a token holds is at the position it starts at or behind it, with no newline between.
LEMMA TokenUnits ==
  ASSUME NEW chunk \in Seq(Units), NEW i \in Starts(chunk), NEW u \in TokenAt(chunk, i)
  PROVE  \E a \in DOMAIN chunk :
           /\ i <= a /\ u = chunk[a]
           /\ \A n \in i..a : ~Newline(chunk[n])
<1>1. Len(chunk) \in Nat /\ DOMAIN chunk = 1..Len(chunk)  BY LenProperties
<1>2. i \in 1..Len(chunk)  BY <1>1 DEF Starts
<1>3. PICK a \in i..Len(chunk) : u = chunk[a] /\ \A n \in i..a : ~Newline(chunk[n])
  BY DEF TokenAt
<1>4. a \in DOMAIN chunk /\ i <= a  BY <1>1, <1>2
<1> QED  BY <1>3, <1>4

\* Two tokens of a chunk do not overlap: the newline before the second ends the first.
LEMMA TokensApart ==
  ASSUME NEW chunk \in Seq(Units), NEW i \in Starts(chunk), NEW k \in Starts(chunk), i < k,
         NEW u \in TokenAt(chunk, i), NEW v \in TokenAt(chunk, k)
  PROVE  \E a, b \in DOMAIN chunk : a < b /\ u = chunk[a] /\ v = chunk[b]
<1>1. Len(chunk) \in Nat /\ DOMAIN chunk = 1..Len(chunk)  BY LenProperties
<1>2. PICK a \in DOMAIN chunk : i <= a /\ u = chunk[a] /\ \A n \in i..a : ~Newline(chunk[n])
  BY TokenUnits
<1>3. PICK b \in DOMAIN chunk : k <= b /\ v = chunk[b]  BY TokenUnits
<1>4. i \in 1..Len(chunk) /\ k \in 1..Len(chunk) /\ k # 1 /\ i <= k - 1 /\ k - 1 < k
  BY <1>1 DEF Starts
<1>5. Newline(chunk[k - 1])  BY <1>4 DEF Starts
<1>6. k - 1 \notin i..a  BY <1>2, <1>5
<1>7. a < b  BY <1>1, <1>3, <1>4, <1>6
<1> QED  BY <1>2, <1>3, <1>7

\* What is behind the end of a sequence that has grown is one of what was added.
LEMMA Appended ==
  ASSUME NEW s \in Seq(Given), NEW t \in Seq(Given), NEW i \in DOMAIN (s \o t)
  PROVE  \/ i \in DOMAIN s /\ (s \o t)[i] = s[i]
         \/ \E n \in DOMAIN t : (s \o t)[i] = t[n]
<1>1. /\ s \o t \in Seq(Given) /\ Len(s \o t) = Len(s) + Len(t)
      /\ \A n \in 1..Len(s) + Len(t) : (s \o t)[n] = IF n <= Len(s) THEN s[n] ELSE t[n - Len(s)]
  BY ConcatProperties
<1>2. /\ Len(s) \in Nat /\ DOMAIN s = 1..Len(s) /\ Len(t) \in Nat /\ DOMAIN t = 1..Len(t)
      /\ DOMAIN (s \o t) = 1..Len(s) + Len(t)
  BY <1>1, LenProperties
<1>3. CASE i <= Len(s)  BY <1>1, <1>2, <1>3
<1>4. CASE ~(i <= Len(s))
  <2>1. i - Len(s) \in DOMAIN t /\ (s \o t)[i] = t[i - Len(s)]  BY <1>1, <1>2, <1>4
  <2> QED  BY <2>1
<1> QED  BY <1>3, <1>4

-----------------------------------------------------------------------------
(* The steps that disturb the order.                                       *)

\* A line that is written comes after all those written before.
LEMMA WroteGrows ==
  ASSUME TypeOK, NEW w \in Writers, wrote' = Append(wrote, w)
  PROVE  /\ Written(w)'
         /\ \A v : Written(v) => Written(v)' /\ Before(v, w)'
         /\ \A u, v : Before(u, v) => Before(u, v)'
         /\ \A u, v : Precedes(u, v) => Precedes(u, v)'
<1>1. /\ wrote \in Seq(Writers) /\ Len(wrote) \in Nat /\ DOMAIN wrote = 1..Len(wrote)
      /\ DOMAIN wrote' = 1..Len(wrote) + 1
  BY LenProperties, AppendProperties DEF TypeOK
<1>2. /\ \A m \in DOMAIN wrote : m \in DOMAIN wrote' /\ wrote'[m] = wrote[m] /\ m < Len(wrote) + 1
      /\ Len(wrote) + 1 \in DOMAIN wrote' /\ wrote'[Len(wrote) + 1] = w
  BY <1>1, AppendProperties
<1>3. Written(w)'  BY <1>2 DEF Written
<1>4. ASSUME NEW v, Written(v) PROVE Written(v)' /\ Before(v, w)'
  BY <1>2, <1>4 DEF Written, Before
<1>5. ASSUME NEW u, NEW v, Before(u, v) PROVE Before(u, v)'
  BY <1>2, <1>5 DEF Before
<1>6. ASSUME NEW u, NEW v, Precedes(u, v) PROVE Precedes(u, v)'
  BY <1>5, <1>6 DEF Precedes
<1> QED  BY <1>3, <1>4, <1>5, <1>6

\* A shell writes its line behind all that is in the buffer.
LEMMA WriteKeeps == ASSUME IInv, NEW w \in Writers, Write(w) PROVE IInv'
<1> DEFINE units == [i \in 1..LineLen |-> [line |-> w, part |-> i]]
<1> USE DEF IInv
<1>1. /\ writer[w] = "open" /\ writer' = [writer EXCEPT ![w] = "written"]
      /\ wrote' = Append(wrote, w) /\ buffer' = buffer \o units
      /\ UNCHANGED <<cfifo, hangup, host, handled>>
  BY DEF Write
<1>2. units \in Seq(Units) /\ Len(units) = LineLen
      /\ \A i \in 1..LineLen : units[i].line = w /\ units[i].part = i
  <2>1. units \in [1..LineLen -> Units]  BY DEF Units
  <2>2. LineLen \in Nat  BY ControlFifoAssumption
  <2>3. units \in Seq(Units)  BY <2>1, <2>2, SeqDef
  <2>4. DOMAIN units = 1..LineLen  OBVIOUS
  <2>5. \A i \in 1..LineLen : units[i].line = w /\ units[i].part = i  OBVIOUS
  <2> HIDE DEF units
  <2>6. Len(units) = LineLen  BY <2>2, <2>3, <2>4, LenProperties
  <2> QED  BY <2>3, <2>5, <2>6
<1> HIDE DEF units
<1>3. buffer \in Seq(Units) /\ Len(buffer) \in Nat /\ DOMAIN buffer = 1..Len(buffer)
  BY LenProperties DEF TypeOK
<1>4. /\ buffer' \in Seq(Units)
      /\ DOMAIN buffer' = 1..Len(buffer) + LineLen
      /\ \A i \in DOMAIN buffer : buffer'[i] = buffer[i]
      /\ \A i \in DOMAIN buffer' \ DOMAIN buffer :
           i > Len(buffer) /\ buffer'[i].line = w /\ buffer'[i].part = i - Len(buffer)
  <2>1. buffer' \in Seq(Units) /\ Len(buffer') = Len(buffer) + LineLen
    BY <1>1, <1>2, <1>3, ConcatProperties
  <2>2. \A i \in 1..Len(buffer) + LineLen :
          buffer'[i] = IF i <= Len(buffer) THEN buffer[i] ELSE units[i - Len(buffer)]
    BY <1>1, <1>2, <1>3, ConcatProperties
  <2>3. DOMAIN buffer' = 1..Len(buffer) + LineLen  BY <2>1, LenProperties
  <2>4. LineLen \in Nat  BY ControlFifoAssumption
  <2>5. \A i \in DOMAIN buffer : buffer'[i] = buffer[i]  BY <1>3, <2>2, <2>4
  <2>6. ASSUME NEW i \in DOMAIN buffer' \ DOMAIN buffer
        PROVE  i > Len(buffer) /\ buffer'[i].line = w /\ buffer'[i].part = i - Len(buffer)
    <3>1. i > Len(buffer) /\ i - Len(buffer) \in 1..LineLen  BY <1>3, <2>3, <2>4
    <3>2. buffer'[i] = units[i - Len(buffer)]  BY <1>3, <2>2, <2>3, <2>4, <3>1
    <3> QED  BY <1>2, <3>1, <3>2
  <2> QED  BY <2>1, <2>3, <2>5, <2>6
<1>5. /\ Written(w)'
      /\ \A v : Written(v) => Written(v)' /\ Before(v, w)'
      /\ \A u, v : Precedes(u, v) => Precedes(u, v)'
  BY <1>1, WroteGrows
<1>6. TypeOK'
  <2>1. wrote' \in Seq(Writers)  BY <1>1, AppendProperties DEF TypeOK
  <2>2. writer' \in [Writers -> {"idle", "opening", "open", "written", "failed", "done"}]
    BY <1>1 DEF TypeOK
  <2> QED  BY <1>1, <1>4, <2>1, <2>2 DEF TypeOK
<1>7. WritesOnce'
  <2>1. /\ wrote \in Seq(Writers) /\ Len(wrote) \in Nat /\ DOMAIN wrote = 1..Len(wrote)
        /\ DOMAIN wrote' = 1..Len(wrote) + 1
    BY <1>1, LenProperties, AppendProperties DEF TypeOK
  <2>2. /\ \A m \in DOMAIN wrote : wrote'[m] = wrote[m] /\ wrote[m] \in Writers
        /\ wrote'[Len(wrote) + 1] = w
        /\ DOMAIN wrote' = DOMAIN wrote \union {Len(wrote) + 1}
    BY <1>1, <2>1, AppendProperties, ElementOfSeq
  <2>3. \A m \in DOMAIN wrote : wrote[m] # w  BY <1>1 DEF WritesOnce
  <2>4. \A m \in DOMAIN wrote' : writer'[wrote'[m]] \in {"written", "done"}
    <3>1. \A v \in Writers : v # w => writer'[v] = writer[v]  BY <1>1 DEF TypeOK
    <3>2. writer'[w] = "written"  BY <1>1 DEF TypeOK
    <3> QED  BY <2>2, <2>3, <3>1, <3>2 DEF WritesOnce
  <2>5. \A m, n \in DOMAIN wrote' : wrote'[m] = wrote'[n] => m = n
    BY <2>2, <2>3 DEF WritesOnce
  <2> QED  BY <2>4, <2>5 DEF WritesOnce
<1>8. AllWritten'
  BY <1>1, <1>4, <1>5 DEF AllWritten
<1>9. BufferInOrder'
  <2> SUFFICES ASSUME NEW i \in DOMAIN buffer', NEW j \in DOMAIN buffer', i < j
               PROVE  Precedes(buffer[i], buffer[j])'
    BY DEF BufferInOrder
  <2>1. CASE i \in DOMAIN buffer /\ j \in DOMAIN buffer
    <3>1. Precedes(buffer[i], buffer[j])'  BY <1>4, <1>5, <2>1 DEF BufferInOrder, Precedes, Before
    <3> QED  BY <3>1
  <2>2. CASE i \in DOMAIN buffer /\ j \notin DOMAIN buffer
    <3>1. Before(buffer[i].line, w)' /\ buffer'[i] = buffer[i] /\ buffer'[j].line = w
      BY <1>4, <1>5, <2>2 DEF AllWritten, Before
    <3> QED  BY <3>1 DEF Precedes, Before
  <2>3. CASE i \notin DOMAIN buffer
    <3>1. i \in Nat /\ j \in Nat /\ i > Len(buffer)  BY <1>3, <1>4, <2>3
    <3>2. j \notin DOMAIN buffer  BY <1>3, <3>1
    <3>3. i - Len(buffer) < j - Len(buffer)  BY <1>3, <3>1
    <3> QED  BY <1>4, <2>3, <3>2, <3>3 DEF Precedes
  <2> QED  BY <2>1, <2>2, <2>3
<1>10. HandledFirst'
  <2> SUFFICES ASSUME NEW i \in DOMAIN handled, NEW j \in DOMAIN buffer', NEW u \in handled[i]
               PROVE  Precedes(u, buffer[j])'
    BY <1>1 DEF HandledFirst
  <2>1. CASE j \in DOMAIN buffer
    <3>1. Precedes(u, buffer[j]) /\ buffer'[j] = buffer[j]  BY <1>4, <2>1 DEF HandledFirst
    <3> QED  BY <1>5, <3>1 DEF Precedes, Before
  <2>2. CASE j \notin DOMAIN buffer
    <3>1. Before(u.line, w)' /\ buffer'[j].line = w
      BY <1>4, <1>5, <2>2 DEF AllWritten, Before
    <3> QED  BY <3>1 DEF Precedes, Before
  <2> QED  BY <2>1, <2>2
<1>11. HandledInOrder'
  <2> SUFFICES ASSUME NEW i \in DOMAIN handled, NEW j \in DOMAIN handled, i < j,
                      NEW u \in handled[i], NEW v \in handled[j]
               PROVE  Precedes(u, v)'
    BY <1>1 DEF HandledInOrder
  <2> QED  BY <1>5 DEF HandledInOrder
<1> QED  BY <1>6, <1>7, <1>8, <1>9, <1>10, <1>11

\* The host takes the front of the buffer and handles its tokens.
LEMMA TookKeeps ==
  ASSUME IInv, NEW k \in 0..Len(buffer),
         Takes(k),
         UNCHANGED <<writer, wrote, cfifo, hangup, host>>
  PROVE  IInv'
<1> DEFINE chunk == SubSeq(buffer, 1, k)
           tokens == Tokens(chunk)
<1> USE DEF IInv
<1>1. /\ buffer \in Seq(Units) /\ Len(buffer) \in Nat /\ DOMAIN buffer = 1..Len(buffer)
      /\ handled \in Seq(Given) /\ Len(handled) \in Nat /\ DOMAIN handled = 1..Len(handled)
  BY LenProperties DEF TypeOK
<1>3. k \in Nat /\ k <= Len(buffer)  BY <1>1, Cut
<1>4. /\ chunk \in Seq(Units) /\ Len(chunk) = k
      /\ \A i \in 1..k : chunk[i] = buffer[i]
  BY <1>1, Cut
<1>5. DOMAIN chunk = 1..k  BY <1>1, Cut
<1>6. handled' = handled \o tokens  BY DEF Takes
<1>7. /\ buffer' \in Seq(Units)
      /\ DOMAIN buffer' = 1..Len(buffer) - k
      /\ \A j \in DOMAIN buffer' : k + j \in DOMAIN buffer /\ buffer'[j] = buffer[k + j]
  BY <1>1, Cut DEF Takes
<1>8. PICK at \in [DOMAIN tokens -> Starts(chunk)] :
        /\ \A n \in DOMAIN tokens : tokens[n] = TokenAt(chunk, at[n])
        /\ \A m, n \in DOMAIN tokens : m < n => at[m] < at[n]
  BY <1>4, TokensInOrder
<1>9. tokens \in Seq(Given)  BY <1>4, TokensInOrder
<1> HIDE DEF tokens, chunk
<1>10. /\ \A n \in DOMAIN tokens : \A u \in tokens[n] : \E a \in 1..k : u = buffer[a]
       /\ \A m, n \in DOMAIN tokens : m < n =>
            \A u \in tokens[m], v \in tokens[n] :
              \E a, b \in 1..k : a < b /\ u = buffer[a] /\ v = buffer[b]
  <2>1. ASSUME NEW n \in DOMAIN tokens, NEW u \in tokens[n] PROVE \E a \in 1..k : u = buffer[a]
    <3>1. u \in TokenAt(chunk, at[n]) /\ at[n] \in Starts(chunk)  BY <1>8
    <3>2. \E a \in DOMAIN chunk : u = chunk[a]  BY <1>4, <3>1, TokenUnits
    <3> QED  BY <1>4, <1>5, <3>2
  <2>2. ASSUME NEW m \in DOMAIN tokens, NEW n \in DOMAIN tokens, m < n,
               NEW u \in tokens[m], NEW v \in tokens[n]
        PROVE  \E a, b \in 1..k : a < b /\ u = buffer[a] /\ v = buffer[b]
    <3>1. /\ u \in TokenAt(chunk, at[m]) /\ at[m] \in Starts(chunk)
          /\ v \in TokenAt(chunk, at[n]) /\ at[n] \in Starts(chunk)
          /\ at[m] < at[n]
      BY <1>8, <2>2
    <3>2. \E a, b \in DOMAIN chunk : a < b /\ u = chunk[a] /\ v = chunk[b]
      BY <1>4, <3>1, TokensApart
    <3> QED  BY <1>4, <1>5, <3>2
  <2> QED  BY <2>1, <2>2
<1>11. /\ handled' \in Seq(Given)
       /\ \A i \in DOMAIN handled : i \in DOMAIN handled' /\ handled'[i] = handled[i]
       /\ \A i \in DOMAIN handled' \ DOMAIN handled :
            /\ i > Len(handled) /\ i - Len(handled) \in DOMAIN tokens
            /\ handled'[i] = tokens[i - Len(handled)]
  <2>1. /\ handled' \in Seq(Given) /\ Len(handled') = Len(handled) + Len(tokens)
        /\ \A i \in 1..Len(handled) + Len(tokens) :
             handled'[i] = IF i <= Len(handled) THEN handled[i] ELSE tokens[i - Len(handled)]
    BY <1>1, <1>6, <1>9, ConcatProperties
  <2>2. /\ Len(tokens) \in Nat /\ DOMAIN tokens = 1..Len(tokens)
        /\ DOMAIN handled' = 1..Len(handled) + Len(tokens)
    BY <1>9, <2>1, LenProperties
  <2>3. ASSUME NEW i \in DOMAIN handled PROVE i \in DOMAIN handled' /\ handled'[i] = handled[i]
    BY <1>1, <2>1, <2>2
  <2>4. ASSUME NEW i \in DOMAIN handled' \ DOMAIN handled
        PROVE  /\ i > Len(handled) /\ i - Len(handled) \in DOMAIN tokens
               /\ handled'[i] = tokens[i - Len(handled)]
    BY <1>1, <2>1, <2>2
  <2> QED  BY <2>1, <2>3, <2>4
<1>12. /\ \A v : Written(v)' <=> Written(v)
       /\ \A u, v : Precedes(u, v)' <=> Precedes(u, v)
  BY DEF Written, Before, Precedes
<1>13. TypeOK'  BY <1>7, <1>11 DEF TypeOK
<1>14. WritesOnce'  BY DEF WritesOnce
<1>15. AllWritten'
  <2>1. \A i \in DOMAIN buffer' : Written(buffer'[i].line)  BY <1>7 DEF AllWritten
  <2>2. \A i \in DOMAIN handled' : \A u \in handled'[i] : Written(u.line)
    <3> SUFFICES ASSUME NEW i \in DOMAIN handled', NEW u \in handled'[i] PROVE Written(u.line)
      OBVIOUS
    <3>1. CASE i \in DOMAIN handled  BY <1>11, <3>1 DEF AllWritten
    <3>2. CASE i \notin DOMAIN handled
      <4>1. PICK a \in 1..k : u = buffer[a]  BY <1>10, <1>11, <3>2
      <4>2. a \in DOMAIN buffer  BY <1>1, <1>3
      <4> QED  BY <4>1, <4>2 DEF AllWritten
    <3> QED  BY <3>1, <3>2
  <2> QED  BY <1>12, <2>1, <2>2 DEF AllWritten
<1>16. BufferInOrder'
  <2> SUFFICES ASSUME NEW i \in DOMAIN buffer', NEW j \in DOMAIN buffer', i < j
               PROVE  Precedes(buffer'[i], buffer'[j])
    BY <1>12 DEF BufferInOrder
  <2>1. k + i < k + j  BY <1>1, <1>3, <1>7
  <2> QED  BY <1>7, <2>1 DEF BufferInOrder
<1>17. HandledFirst'
  <2> SUFFICES ASSUME NEW i \in DOMAIN handled', NEW j \in DOMAIN buffer', NEW u \in handled'[i]
               PROVE  Precedes(u, buffer'[j])
    BY <1>12 DEF HandledFirst
  <2>1. k + j \in DOMAIN buffer /\ buffer[k + j] = buffer'[j]  BY <1>7
  <2>2. CASE i \in DOMAIN handled  BY <1>11, <2>1, <2>2 DEF HandledFirst
  <2>3. CASE i \notin DOMAIN handled
    <3>1. PICK a \in 1..k : u = buffer[a]  BY <1>10, <1>11, <2>3
    <3>2. a \in DOMAIN buffer /\ a < k + j  BY <1>1, <1>3, <1>7
    <3> QED  BY <2>1, <3>1, <3>2 DEF BufferInOrder
  <2> QED  BY <2>2, <2>3
<1>18. HandledInOrder'
  <2> SUFFICES ASSUME NEW i \in DOMAIN handled', NEW j \in DOMAIN handled', i < j,
                      NEW u \in handled'[i], NEW v \in handled'[j]
               PROVE  Precedes(u, v)
    BY <1>12 DEF HandledInOrder
  <2> DEFINE n == j - Len(handled)
             m == i - Len(handled)
  <2>0. i \in Nat /\ j \in Nat  BY <1>11, LenProperties
  <2>1. CASE j \in DOMAIN handled
    <3>1. i \in DOMAIN handled  BY <1>1, <1>11, <2>1
    <3> QED  BY <1>11, <2>1, <3>1 DEF HandledInOrder
  <2>2. CASE j \notin DOMAIN handled
    <3>1. n \in DOMAIN tokens /\ handled'[j] = tokens[n]  BY <1>11, <2>2
    <3>2. CASE i \in DOMAIN handled
      <4>1. PICK b \in 1..k : v = buffer[b]  BY <1>10, <3>1
      <4>2. b \in DOMAIN buffer  BY <1>1, <1>3
      <4> QED  BY <1>11, <3>2, <4>1, <4>2 DEF HandledFirst
    <3>3. CASE i \notin DOMAIN handled
      <4>1. m \in DOMAIN tokens /\ handled'[i] = tokens[m]  BY <1>11, <3>3
      <4>2. m < n  BY <1>1, <2>0
      <4> HIDE DEF m, n
      <4>3. PICK a \in 1..k, b \in 1..k : a < b /\ u = buffer[a] /\ v = buffer[b]
        BY <1>10, <3>1, <4>1, <4>2
      <4>4. a \in DOMAIN buffer /\ b \in DOMAIN buffer  BY <1>1, <1>3
      <4> QED  BY <4>3, <4>4 DEF BufferInOrder
    <3> QED  BY <3>2, <3>3
  <2> QED  BY <2>1, <2>2
<1> QED  BY <1>13, <1>14, <1>15, <1>16, <1>17, <1>18

\* Of a buffer that is discarded or kept, and of the shells' other steps, the order
\* knows nothing.
LEMMA OthersKeep ==
  ASSUME IInv, buffer' \in {buffer, <<>>}, UNCHANGED <<wrote, handled>>, TypeOK',
         \A w \in Writers : writer[w] \in {"written", "done"} => writer'[w] \in {"written", "done"}
  PROVE  IInv'
<1> USE DEF IInv
<1>1. /\ \A v : Written(v)' <=> Written(v)
      /\ \A u, v : Precedes(u, v)' <=> Precedes(u, v)
  BY DEF Written, Before, Precedes
<1>2. \A i \in DOMAIN buffer' : i \in DOMAIN buffer /\ buffer'[i] = buffer[i]
  <2>1. CASE buffer' = buffer  BY <2>1
  <2>2. CASE buffer' = <<>>  BY <2>2
  <2> QED  BY <2>1, <2>2
<1>3. \A m \in DOMAIN wrote : wrote[m] \in Writers
  BY LenProperties, ElementOfSeq DEF TypeOK
<1>4. WritesOnce'  BY <1>3 DEF WritesOnce
<1>5. AllWritten'  BY <1>1, <1>2 DEF AllWritten
<1>6. BufferInOrder'  BY <1>1, <1>2 DEF BufferInOrder
<1>7. HandledFirst'  BY <1>1, <1>2 DEF HandledFirst
<1>8. HandledInOrder'  BY <1>1 DEF HandledInOrder
<1> QED  BY <1>4, <1>5, <1>6, <1>7, <1>8

-----------------------------------------------------------------------------
\* Before a shell writes, nothing is written, in the FIFO, or handled.
LEMMA InitIInv == Init => IInv
<1> SUFFICES ASSUME Init PROVE IInv  OBVIOUS
<1>1. TypeOK  BY EmptySeq DEF Init, TypeOK
<1>2. wrote = <<>> /\ buffer = <<>> /\ handled = <<>>  BY DEF Init
<1> QED  BY <1>1, <1>2 DEF IInv, WritesOnce, AllWritten, BufferInOrder, HandledFirst, HandledInOrder

\* Every step of a shell, the kernel or the host keeps the order of the lines.
LEMMA Invariant == IInv /\ [Next]_vars => IInv'
<1> SUFFICES ASSUME IInv, [Next]_vars PROVE IInv'  OBVIOUS
<1>0. TypeOK /\ <<>> \in Seq(Units)  BY EmptySeq DEF IInv
<1>1. ASSUME NEW w \in Writers, Open(w) PROVE IInv'
  BY <1>0, <1>1, OthersKeep DEF Open, TypeOK
<1>2. ASSUME NEW w \in Writers, OpenReturns(w) PROVE IInv'
  BY <1>0, <1>2, OthersKeep DEF OpenReturns, TypeOK
<1>3. ASSUME NEW w \in Writers, Write(w) PROVE IInv'
  BY <1>3, WriteKeeps
<1>4. ASSUME NEW w \in Writers, WriteFails(w) PROVE IInv'
  BY <1>0, <1>4, OthersKeep DEF WriteFails, TypeOK
<1>5. ASSUME NEW w \in Writers, Close(w) PROVE IInv'
  BY <1>0, <1>5, OthersKeep DEF Close, TypeOK
<1>6. CASE Enter  BY <1>0, <1>6, OthersKeep DEF Enter, TypeOK
<1>7. CASE Leave  BY <1>0, <1>7, OthersKeep DEF Leave, TypeOK
<1>8. CASE ReadLines
  <2>1. buffer \in Seq(Units)  BY <1>0 DEF TypeOK
  <2> QED  BY <1>8, <2>1, ReadTakes, TookKeeps
<1>9. CASE ReadEof  BY <1>0, <1>9, OthersKeep DEF ReadEof, TypeOK
<1>10. CASE CloseFifo  BY <1>0, <1>10, OthersKeep DEF CloseFifo, TypeOK
<1>11. CASE ReopenFifo
  <2>1. Opened \in BOOLEAN  BY DEF Opened
  <2> QED  BY <1>0, <1>11, <2>1, OthersKeep DEF ReopenFifo, TypeOK
<1>12. CASE UNCHANGED vars  BY <1>0, <1>12, OthersKeep DEF vars, TypeOK
<1> QED
  BY <1>1, <1>2, <1>3, <1>4, <1>5, <1>6, <1>7, <1>8, <1>9, <1>10, <1>11, <1>12
  DEF Next, FifoStep, Shell

\* IInv holds in every behaviour.
LEMMA Invariance == Spec => []IInv
<1> QED  BY InitIInv, Invariant, PTL DEF Spec

\* What is handed to the commands is in the order it was written, however the reads
\* cut it and whatever the reopen lost (src/pdkhost.c:381-394).
THEOREM LinesInOrder == Spec => []HandledInOrder
<1>1. IInv => HandledInOrder  BY DEF IInv
<1> QED  BY <1>1, Invariance, PTL

HandledOnce ==
  \A i, j \in DOMAIN handled : i # j => handled[i] \intersect handled[j] = {}

\* No part of a line is handed on twice, neither by two reads nor by two turns of the
\* loop over one read's tokens (src/pdkhost.c:385-389): a shell writes once, and the
\* order is strict.
THEOREM LinesHandledOnce == Spec => []HandledOnce
<1>1. IInv => HandledOnce
  <2> SUFFICES ASSUME IInv, NEW i \in DOMAIN handled, NEW j \in DOMAIN handled, i < j,
                      NEW u \in handled[i], u \in handled[j]
               PROVE  FALSE
    <3>1. IInv => \A i \in DOMAIN handled : i \in Nat  BY LenProperties DEF IInv, TypeOK
    <3> QED  BY <3>1 DEF HandledOnce
  <2>1. Precedes(u, u)  BY DEF IInv, HandledInOrder
  <2>2. u \in Units
    <3>1. handled[i] \in Given  BY LenProperties, ElementOfSeq DEF IInv, TypeOK
    <3> QED  BY <3>1 DEF Given
  <2>3. u.part \in 1..LineLen /\ LineLen \in Nat  BY <2>2, ControlFifoAssumption DEF Units
  <2>4. Before(u.line, u.line)  BY <2>1, <2>3 DEF Precedes
  <2>5. PICK m \in DOMAIN wrote, n \in DOMAIN wrote :
          m < n /\ wrote[m] = u.line /\ wrote[n] = u.line
    BY <2>4 DEF Before
  <2>6. m \in Nat /\ n \in Nat  BY LenProperties DEF IInv, TypeOK
  <2> QED  BY <2>5, <2>6 DEF IInv, WritesOnce
<1> QED  BY <1>1, Invariance, PTL

-----------------------------------------------------------------------------
(* What a token is made of.                                                *)

\* Behind a unit comes the rest of its line, behind a newline the start of another.
Follows(u, v) ==
  IF u.part < LineLen THEN v = [line |-> u.line, part |-> u.part + 1] ELSE v.part = 1

BufferIsLines ==
  /\ \A i \in DOMAIN buffer : i + 1 \in DOMAIN buffer => Follows(buffer[i], buffer[i + 1])
  /\ buffer # <<>> => buffer[Len(buffer)].part = LineLen

\* Lines are written whole, and what is taken or discarded is at the front.
LEMMA LinesStayWhole == IInv /\ BufferIsLines /\ [Next]_vars => BufferIsLines'
<1> SUFFICES ASSUME IInv, BufferIsLines, [Next]_vars PROVE BufferIsLines'  OBVIOUS
<1>1. /\ buffer \in Seq(Units) /\ Len(buffer) \in Nat /\ DOMAIN buffer = 1..Len(buffer)
      /\ LineLen \in Nat \ {0}
  BY LenProperties, ControlFifoAssumption DEF IInv, TypeOK
<1>2. CASE buffer' \in {buffer, <<>>}
  <2>1. CASE buffer' = buffer  BY <2>1 DEF BufferIsLines
  <2>2. CASE buffer' = <<>>  BY <2>2 DEF BufferIsLines
  <2> QED  BY <1>2, <2>1, <2>2
<1>3. ASSUME NEW w \in Writers, Write(w) PROVE BufferIsLines'
  <2> DEFINE units == [i \in 1..LineLen |-> [line |-> w, part |-> i]]
  <2>1. units \in Seq(Units) /\ Len(units) = LineLen
    <3>1. units \in [1..LineLen -> Units] /\ DOMAIN units = 1..LineLen  BY DEF Units
    <3>2. units \in Seq(Units)  BY <1>1, <3>1, SeqDef
    <3> HIDE DEF units
    <3> QED  BY <1>1, <3>1, <3>2, LenProperties
  <2>2. \A i \in 1..LineLen : /\ units[i] = [line |-> w, part |-> i]
                              /\ units[i].part = i
    OBVIOUS
  <2> HIDE DEF units
  <2>3. buffer' = buffer \o units  BY <1>3 DEF Write, units
  <2>4. /\ buffer' \in Seq(Units) /\ Len(buffer') = Len(buffer) + LineLen
        /\ \A i \in 1..Len(buffer) + LineLen :
             buffer'[i] = IF i <= Len(buffer) THEN buffer[i] ELSE units[i - Len(buffer)]
    BY <1>1, <2>1, <2>3, ConcatProperties
  <2>5. DOMAIN buffer' = 1..Len(buffer) + LineLen  BY <2>4, LenProperties
  <2>6. ASSUME NEW i \in DOMAIN buffer', i + 1 \in DOMAIN buffer'
        PROVE  Follows(buffer'[i], buffer'[i + 1])
    <3>1. i \in Nat /\ i >= 1 /\ i + 1 <= Len(buffer) + LineLen  BY <1>1, <2>5, <2>6
    <3>2. CASE i + 1 <= Len(buffer)
      <4>1. i \in DOMAIN buffer /\ i + 1 \in DOMAIN buffer  BY <1>1, <3>1, <3>2
      <4>2. buffer'[i] = buffer[i] /\ buffer'[i + 1] = buffer[i + 1]
        BY <1>1, <2>4, <2>5, <2>6, <3>1, <3>2
      <4> QED  BY <4>1, <4>2 DEF BufferIsLines
    <3>3. CASE i = Len(buffer)
      <4>1. buffer'[i] = buffer[i] /\ buffer'[i + 1] = units[1]
        BY <1>1, <2>4, <2>5, <2>6, <3>1, <3>3
      <4>2. buffer # <<>>  BY <3>1, <3>3, EmptySeq
      <4>3. buffer[i].part = LineLen  BY <3>3, <4>2 DEF BufferIsLines
      <4>4. 1 \in 1..LineLen  BY <1>1
      <4>5. units[1].part = 1  BY <2>2, <4>4
      <4> QED  BY <1>1, <4>1, <4>3, <4>5 DEF Follows
    <3>4. CASE i > Len(buffer)
      <4> DEFINE k == i - Len(buffer)
      <4>1. /\ k \in 1..LineLen /\ k + 1 \in 1..LineLen /\ k < LineLen
            /\ i + 1 - Len(buffer) = k + 1
        BY <1>1, <3>1, <3>4
      <4>2. buffer'[i] = units[k] /\ buffer'[i + 1] = units[i + 1 - Len(buffer)]
        BY <1>1, <2>4, <2>5, <2>6, <3>1, <3>4
      <4> HIDE DEF k
      <4>3. buffer'[i] = [line |-> w, part |-> k] /\ buffer'[i + 1] = [line |-> w, part |-> k + 1]
        BY <2>2, <4>1, <4>2
      <4> QED  BY <4>1, <4>3 DEF Follows
    <3> QED  BY <1>1, <3>1, <3>2, <3>3, <3>4
  <2>7. buffer'[Len(buffer')].part = LineLen
    <3>1. /\ Len(buffer) + LineLen \in 1..Len(buffer) + LineLen
          /\ ~(Len(buffer) + LineLen <= Len(buffer)) /\ Len(buffer) + LineLen - Len(buffer) = LineLen
          /\ LineLen \in 1..LineLen
      BY <1>1
    <3>2. buffer'[Len(buffer) + LineLen] = units[LineLen]  BY <2>4, <3>1
    <3>3. units[LineLen].part = LineLen  BY <2>2, <3>1
    <3>4. buffer'[Len(buffer')] = buffer'[Len(buffer) + LineLen]  BY <2>4
    <3> QED  BY <3>2, <3>3, <3>4
  <2> QED  BY <2>6, <2>7 DEF BufferIsLines
<1>4. CASE ReadLines
  <2>1. PICK k \in 0..Len(buffer) : Takes(k)  BY <1>1, <1>4, ReadTakes
  <2>2. k \in Nat /\ k <= Len(buffer)  BY <1>1, Cut
  <2>3. /\ buffer' \in Seq(Units) /\ Len(buffer') = Len(buffer) - k
        /\ DOMAIN buffer' = 1..Len(buffer) - k
    BY <1>1, <2>1, Cut DEF Takes
  <2>4. \A j \in DOMAIN buffer' : k + j \in DOMAIN buffer /\ buffer'[j] = buffer[k + j]
    <3>1. \A j \in 1..Len(buffer) - k : k + j \in DOMAIN buffer /\ buffer'[j] = buffer[k + j]
      BY <1>1, <2>1, Cut DEF Takes
    <3> QED  BY <2>3, <3>1
  <2>5. ASSUME NEW i \in DOMAIN buffer', i + 1 \in DOMAIN buffer'
        PROVE  Follows(buffer'[i], buffer'[i + 1])
    <3>1. k + (i + 1) = (k + i) + 1  BY <1>1, <2>2, <2>3
    <3> QED  BY <2>4, <2>5, <3>1 DEF BufferIsLines
  <2>6. ASSUME buffer' # <<>> PROVE buffer'[Len(buffer')].part = LineLen
    <3>1. Len(buffer') \in Nat \ {0}  BY <2>3, <2>6, EmptySeq
    <3>2. Len(buffer) \in Nat  BY <1>1
    <3>3. k + Len(buffer') = Len(buffer) /\ Len(buffer) # 0  BY <2>2, <2>3, <3>1, <3>2
    <3>4. Len(buffer') \in DOMAIN buffer'  BY <2>3, <3>1, LenProperties
    <3>5. buffer # <<>>  BY <3>3, EmptySeq
    <3>6. buffer'[Len(buffer')] = buffer[k + Len(buffer')]  BY <2>4, <3>4
    <3> QED  BY <3>3, <3>5, <3>6 DEF BufferIsLines
  <2> QED  BY <2>5, <2>6 DEF BufferIsLines
<1> QED
  BY <1>2, <1>3, <1>4
  DEF Next, FifoStep, Shell, Open, OpenReturns, WriteFails, Close, Enter, Leave,
      ReadEof, CloseFifo, ReopenFifo, vars

\* A set of numbers with 0 and every successor has them all.
LEMMA AllNumbers ==
  ASSUME NEW G, 0 \in G, \A n \in Nat : n \in G => n + 1 \in G
  PROVE  \A n \in Nat : n \in G
<1> DEFINE R == OpToRel(<, Nat)
           T == Nat \ G
<1>1. IsWellFoundedOn(R, Nat)  BY NatLessThanWellFounded
<1>2. R = {ss \in Nat \X Nat : ss[1] < ss[2]}  BY Zenon DEF OpToRel
<1> HIDE DEF R
<1> SUFFICES ASSUME T # {} PROVE FALSE  OBVIOUS
<1>3. T \subseteq Nat  OBVIOUS
<1>4. PICK x \in T : \A y \in T : ~(<<y, x>> \in R)  BY <1>1, <1>3, WFMin
<1>5. x \in Nat /\ x # 0 /\ x - 1 \in Nat /\ (x - 1) + 1 = x  OBVIOUS
<1>6. x - 1 \in T  BY <1>5
<1>7. <<x - 1, x>> \in R
  <2>1. <<x - 1, x>> \in Nat \X Nat /\ x - 1 < x  BY <1>5
  <2> QED  BY <1>2, <2>1
<1> QED  BY <1>4, <1>6, <1>7

\* From the start of a token up to the next newline the units are the parts of one
\* line, one after the other.
LEMMA RunIsOfOneLine ==
  ASSUME NEW chunk \in Seq(Units), NEW i \in Starts(chunk), NEW a \in DOMAIN chunk, i <= a,
         \A n \in DOMAIN chunk : n + 1 \in DOMAIN chunk => Follows(chunk[n], chunk[n + 1]),
         \A n \in i..a : ~Newline(chunk[n])
  PROVE  \A n \in i..a : chunk[n] = [line |-> chunk[i].line, part |-> chunk[i].part + (n - i)]
<1> DEFINE G == {d \in Nat : i + d <= a =>
                   chunk[i + d] = [line |-> chunk[i].line, part |-> chunk[i].part + d]}
<1>1. Len(chunk) \in Nat /\ DOMAIN chunk = 1..Len(chunk)  BY LenProperties
<1>2. i \in 1..Len(chunk) /\ a \in 1..Len(chunk)  BY <1>1 DEF Starts
<1>3. \A n \in 1..Len(chunk) : chunk[n] \in Units  BY <1>1, ElementOfSeq
<1>4. LineLen \in Nat  BY ControlFifoAssumption
<1>5. 0 \in G
  <2>1. chunk[i] \in Units  BY <1>2, <1>3
  <2>2. chunk[i].part \in Nat /\ chunk[i] = [line |-> chunk[i].line, part |-> chunk[i].part]
    BY <1>4, <2>1 DEF Units
  <2>3. i + 0 = i /\ chunk[i].part + 0 = chunk[i].part  BY <1>2, <2>2
  <2> QED  BY <2>2, <2>3
<1>6. \A d \in Nat : d \in G => d + 1 \in G
  <2> SUFFICES ASSUME NEW d \in Nat, d \in G, i + (d + 1) <= a
               PROVE  chunk[i + (d + 1)] = [line |-> chunk[i].line, part |-> chunk[i].part + (d + 1)]
    OBVIOUS
  <2>1. /\ i + d \in DOMAIN chunk /\ (i + d) + 1 \in DOMAIN chunk /\ i + d \in i..a
        /\ (i + d) + 1 = i + (d + 1) /\ i + d <= a
    BY <1>1, <1>2
  <2>2. chunk[i + d] = [line |-> chunk[i].line, part |-> chunk[i].part + d]  BY <2>1
  <2>3. Follows(chunk[i + d], chunk[i + (d + 1)])  BY <2>1
  <2>4. chunk[i + d].part # LineLen  BY <2>1 DEF Newline
  <2>5. chunk[i + d] \in Units /\ chunk[i] \in Units  BY <1>1, <1>2, <1>3, <2>1
  <2>6. chunk[i + d].part \in 1..LineLen /\ chunk[i].part \in 1..LineLen  BY <2>5 DEF Units
  <2>7. chunk[i + d].part < LineLen  BY <1>4, <2>4, <2>6
  <2>8. chunk[i + (d + 1)] = [line |-> chunk[i + d].line, part |-> chunk[i + d].part + 1]
    BY <2>3, <2>7 DEF Follows
  <2>9. chunk[i + d].line = chunk[i].line /\ chunk[i + d].part = chunk[i].part + d  BY <2>2
  <2>10. chunk[i + d].part + 1 = chunk[i].part + (d + 1)
    <3>1. \A x \in Int : (x + d) + 1 = x + (d + 1)  OBVIOUS
    <3>2. chunk[i].part \in Int  BY <1>4, <2>6
    <3>3. (chunk[i].part + d) + 1 = chunk[i].part + (d + 1)  BY <3>1, <3>2, Zenon
    <3> QED  BY <2>9, <3>3, Zenon
  <2> QED  BY <2>8, <2>9, <2>10, Zenon
<1>7. \A d \in Nat : d \in G
  <2> HIDE DEF G
  <2> QED  BY <1>5, <1>6, AllNumbers
<1> SUFFICES ASSUME NEW n \in i..a
             PROVE  chunk[n] = [line |-> chunk[i].line, part |-> chunk[i].part + (n - i)]
  OBVIOUS
<1>8. n - i \in Nat /\ i + (n - i) = n /\ i + (n - i) <= a  BY <1>2
<1>9. n - i \in G  BY <1>7, <1>8
<1> QED  BY <1>8, <1>9

OneLine(token) ==
  \A u, v \in token :
    u.line = v.line /\ \A p \in u.part..v.part : [line |-> u.line, part |-> p] \in token

\* A token of a chunk of lines is a run of the parts of one line.
LEMMA TokenIsOfOneLine ==
  ASSUME NEW chunk \in Seq(Units), NEW i \in Starts(chunk),
         \A n \in DOMAIN chunk : n + 1 \in DOMAIN chunk => Follows(chunk[n], chunk[n + 1])
  PROVE  OneLine(TokenAt(chunk, i))
<1> SUFFICES ASSUME NEW u \in TokenAt(chunk, i), NEW v \in TokenAt(chunk, i)
             PROVE  /\ u.line = v.line
                    /\ \A p \in u.part..v.part : [line |-> u.line, part |-> p] \in TokenAt(chunk, i)
  BY DEF OneLine
<1>1. Len(chunk) \in Nat /\ DOMAIN chunk = 1..Len(chunk)  BY LenProperties
<1>2. i \in 1..Len(chunk)  BY <1>1 DEF Starts
<1>3. PICK a \in DOMAIN chunk : i <= a /\ u = chunk[a] /\ \A n \in i..a : ~Newline(chunk[n])
  BY TokenUnits
<1>4. PICK b \in DOMAIN chunk : i <= b /\ v = chunk[b] /\ \A n \in i..b : ~Newline(chunk[n])
  BY TokenUnits
<1>5. chunk[a] = [line |-> chunk[i].line, part |-> chunk[i].part + (a - i)]
  <2>1. a \in i..a  BY <1>1, <1>2, <1>3
  <2> QED  BY <1>3, <2>1, RunIsOfOneLine
<1>6. \A n \in i..b : chunk[n] = [line |-> chunk[i].line, part |-> chunk[i].part + (n - i)]
  BY <1>4, RunIsOfOneLine
<1>7. chunk[i].part \in Nat
  <2>1. chunk[i] \in Units  BY <1>1, <1>2, ElementOfSeq
  <2> QED  BY <2>1, ControlFifoAssumption DEF Units
<1>8. /\ u.line = chunk[i].line /\ u.part = chunk[i].part + (a - i)
      /\ v.line = chunk[i].line /\ v.part = chunk[i].part + (b - i)
  <2>1. b \in i..b  BY <1>1, <1>2, <1>4
  <2>2. chunk[b] = [line |-> chunk[i].line, part |-> chunk[i].part + (b - i)]  BY <1>6, <2>1
  <2>3. u = [line |-> chunk[i].line, part |-> chunk[i].part + (a - i)]  BY <1>3, <1>5
  <2>4. v = [line |-> chunk[i].line, part |-> chunk[i].part + (b - i)]  BY <1>4, <2>2
  <2>5. u.line = chunk[i].line /\ u.part = chunk[i].part + (a - i)  BY <2>3
  <2>6. v.line = chunk[i].line /\ v.part = chunk[i].part + (b - i)  BY <2>4
  <2> QED  BY <2>5, <2>6
<1>9. ASSUME NEW p \in u.part..v.part PROVE [line |-> u.line, part |-> p] \in TokenAt(chunk, i)
  <2> DEFINE n == p - chunk[i].part + i
  <2>1. p \in chunk[i].part + (a - i)..chunk[i].part + (b - i)  BY <1>8
  <2>2. n \in i..b /\ chunk[i].part + (n - i) = p  BY <1>1, <1>2, <1>3, <1>4, <1>7, <2>1
  <2> HIDE DEF n
  <2>3. chunk[n] = [line |-> u.line, part |-> p]  BY <1>6, <1>8, <2>2
  <2>4. n \in i..Len(chunk) /\ \A m \in i..n : m \in i..b  BY <1>1, <1>2, <1>4, <2>2
  <2>5. chunk[n] \in TokenAt(chunk, i)  BY <1>4, <2>4 DEF TokenAt
  <2> QED  BY <2>3, <2>5
<1> QED  BY <1>8, <1>9

\* A command is made of parts of one shell's line that follow one another, whatever
\* the lengths of the line and the read (src/pdkhost.c:385-389).
THEOREM TokensCorrect == Spec => []TokensOfOneLine
<1> DEFINE Inv == IInv /\ BufferIsLines /\ TokensOfOneLine
<1>1. Init => Inv
  <2>1. Init => BufferIsLines /\ TokensOfOneLine
    BY DEF Init, BufferIsLines, TokensOfOneLine
  <2> QED  BY <2>1, InitIInv
<1>2. Inv /\ [Next]_vars => Inv'
  <2> SUFFICES ASSUME Inv, [Next]_vars PROVE TokensOfOneLine'
    BY Invariant, LinesStayWhole
  <2>1. /\ buffer \in Seq(Units) /\ Len(buffer) \in Nat /\ DOMAIN buffer = 1..Len(buffer)
        /\ handled \in Seq(Given)
    BY LenProperties DEF IInv, TypeOK
  <2>2. CASE handled' = handled  BY <2>2 DEF TokensOfOneLine
  <2>3. CASE ReadLines
    <3>1. PICK k \in 0..Len(buffer) : Takes(k)  BY <2>1, <2>3, ReadTakes
    <3> DEFINE chunk == SubSeq(buffer, 1, k)
               tokens == Tokens(chunk)
    <3>2. /\ chunk \in Seq(Units) /\ DOMAIN chunk = 1..k
          /\ \A n \in 1..k : n \in DOMAIN buffer /\ chunk[n] = buffer[n]
      BY <2>1, Cut
    <3>3. \A n \in DOMAIN chunk : n + 1 \in DOMAIN chunk => Follows(chunk[n], chunk[n + 1])
      BY <3>2 DEF BufferIsLines
    <3>4. tokens \in Seq(Given) /\ \A n \in DOMAIN tokens : OneLine(tokens[n])
      <4> HIDE DEF chunk
      <4>1. PICK at \in [DOMAIN tokens -> Starts(chunk)] :
              \A n \in DOMAIN tokens : tokens[n] = TokenAt(chunk, at[n])
        BY <3>2, TokensInOrder
      <4>2. tokens \in Seq(Given)  BY <3>2, TokensInOrder
      <4> HIDE DEF tokens
      <4>3. ASSUME NEW n \in DOMAIN tokens PROVE OneLine(tokens[n])
        <5>1. at[n] \in Starts(chunk) /\ tokens[n] = TokenAt(chunk, at[n])  BY <4>1
        <5> QED  BY <3>2, <3>3, <5>1, TokenIsOfOneLine
      <4> QED  BY <4>2, <4>3
    <3>5. handled' = handled \o tokens  BY <3>1 DEF Takes
    <3> HIDE DEF chunk, tokens
    <3>6. \A i \in DOMAIN handled' :
            \/ i \in DOMAIN handled /\ handled'[i] = handled[i]
            \/ \E n \in DOMAIN tokens : handled'[i] = tokens[n]
      BY <2>1, <3>4, <3>5, Appended
    <3> QED  BY <3>4, <3>6 DEF TokensOfOneLine, OneLine
  <2> QED
    BY <2>2, <2>3
    DEF Next, FifoStep, Shell, Open, OpenReturns, Write, WriteFails, Close, Enter, Leave,
        ReadEof, CloseFifo, ReopenFifo, vars
<1>3. Inv => TokensOfOneLine  OBVIOUS
<1> HIDE DEF Inv
<1> QED  BY <1>1, <1>2, <1>3, PTL DEF Spec

-----------------------------------------------------------------------------
(* What is lost.                                                           *)

\* Of a chunk, every unit but the newlines is in one of its tokens: that of the last
\* position before it where one starts.
LEMMA TokenOfUnit ==
  ASSUME NEW chunk \in Seq(Units), NEW j \in DOMAIN chunk, ~Newline(chunk[j])
  PROVE  \E n \in DOMAIN Tokens(chunk) : chunk[j] \in Tokens(chunk)[n]
<1> DEFINE Reaches(i, n) == i <= n /\ \A m \in i..n : ~Newline(chunk[m])
           G == {n \in Nat : n \in DOMAIN chunk /\ ~Newline(chunk[n]) =>
                   \E i \in Starts(chunk) : Reaches(i, n)}
<1>1. Len(chunk) \in Nat /\ DOMAIN chunk = 1..Len(chunk)  BY LenProperties
<1>2. 0 \in G  BY <1>1
<1>3. \A n \in Nat : n \in G => n + 1 \in G
  <2> SUFFICES ASSUME NEW n \in Nat, n \in G, n + 1 \in DOMAIN chunk, ~Newline(chunk[n + 1])
               PROVE  \E i \in Starts(chunk) : Reaches(i, n + 1)
    OBVIOUS
  <2>1. CASE n + 1 \in Starts(chunk)
    <3>1. \A m \in n + 1..n + 1 : m = n + 1  OBVIOUS
    <3>2. Reaches(n + 1, n + 1)  BY <3>1
    <3> HIDE DEF Reaches
    <3> QED  BY <2>1, <3>2
  <2>2. CASE n + 1 \notin Starts(chunk)
    <3>1. (n + 1) - 1 = n  OBVIOUS
    <3>2. n + 1 # 1 /\ ~Newline(chunk[n])  BY <2>2, <3>1 DEF Starts
    <3>3. n \in DOMAIN chunk  BY <1>1, <3>2
    <3>4. PICK i \in Starts(chunk) : Reaches(i, n)  BY <3>2, <3>3
    <3>5. i \in Nat  BY <1>1 DEF Starts
    <3>6. \A m \in i..n + 1 : m \in i..n \/ m = n + 1  BY <3>5
    <3>7. Reaches(i, n + 1)  BY <3>4, <3>5, <3>6
    <3> HIDE DEF Reaches
    <3> QED  BY <3>7
  <2> QED  BY <2>1, <2>2
<1>4. j \in G
  <2>1. j \in Nat  BY <1>1
  <2> HIDE DEF G
  <2> QED  BY <1>2, <1>3, <2>1, AllNumbers
<1>5. PICK i \in Starts(chunk) : Reaches(i, j)  BY <1>4
<1>6. i \in 1..Len(chunk)  BY <1>1 DEF Starts
<1>7. chunk[j] \in TokenAt(chunk, i)  BY <1>1, <1>5, <1>6 DEF TokenAt
<1>8. PICK at \in [DOMAIN Tokens(chunk) -> Starts(chunk)] :
        /\ \A n \in DOMAIN Tokens(chunk) : Tokens(chunk)[n] = TokenAt(chunk, at[n])
        /\ \A k \in Starts(chunk) : \E n \in DOMAIN Tokens(chunk) : at[n] = k
  BY TokensInOrder
<1>9. PICK n \in DOMAIN Tokens(chunk) : at[n] = i  BY <1>8
<1>10. Tokens(chunk)[n] = TokenAt(chunk, i)  BY <1>8, <1>9
<1> QED  BY <1>7, <1>10

ClosedToReopen == ~cfifo => host = "reopen"

LostOnlyAtReopen ==
  [][\A i \in DOMAIN buffer : host \in {"busy", "select"} /\ ~Newline(buffer[i]) =>
       \/ \E m \in DOMAIN handled' : buffer[i] \in handled'[m]
       \/ \E j \in DOMAIN buffer' : buffer'[j] = buffer[i]]_vars

\* A part of a line's text leaves the FIFO by being handed on itself, unless the host is
\* between the read() of 0 and the reopen: the one window in which a line, or any
\* piece of one, is lost (src/pdkhost.c:381-394).
THEOREM NothingElseIsLost == Spec => LostOnlyAtReopen
<1> DEFINE Inv == IInv /\ ClosedToReopen
           Lossless == \A i \in DOMAIN buffer :
                         host \in {"busy", "select"} /\ ~Newline(buffer[i]) =>
                           \/ \E m \in DOMAIN handled' : buffer[i] \in handled'[m]
                           \/ \E j \in DOMAIN buffer' : buffer'[j] = buffer[i]
<1>1. Init => Inv
  BY InitIInv DEF Init, ClosedToReopen
<1>2. Inv /\ [Next]_vars => Inv'
  <2> SUFFICES ASSUME ClosedToReopen, [Next]_vars PROVE ClosedToReopen'
    BY Invariant
  <2>1. ASSUME buffer \in Seq(Units), ReadLines PROVE ClosedToReopen'
    BY <2>1, ReadTakes DEF ClosedToReopen
  <2> QED
    BY DEF Next, FifoStep, Shell, Open, OpenReturns, Write, WriteFails, Close, Enter, Leave,
           ReadLines, ReadEof, CloseFifo, ReopenFifo, vars, ClosedToReopen
<1>3. Inv /\ [Next]_vars => Lossless
  <2> SUFFICES ASSUME Inv, [Next]_vars, NEW i \in DOMAIN buffer, host \in {"busy", "select"},
                      ~Newline(buffer[i])
               PROVE  \/ \E m \in DOMAIN handled' : buffer[i] \in handled'[m]
                      \/ \E j \in DOMAIN buffer' : buffer'[j] = buffer[i]
    OBVIOUS
  <2>1. /\ buffer \in Seq(Units) /\ Len(buffer) \in Nat /\ DOMAIN buffer = 1..Len(buffer)
        /\ handled \in Seq(Given) /\ Len(handled) \in Nat /\ DOMAIN handled = 1..Len(handled)
    BY LenProperties DEF IInv, TypeOK
  <2>2. cfifo  BY DEF ClosedToReopen
  <2>3. CASE buffer' = buffer  BY <2>3
  <2>4. ASSUME NEW w \in Writers, Write(w)
        PROVE  \E j \in DOMAIN buffer' : buffer'[j] = buffer[i]
    <3> DEFINE units == [n \in 1..LineLen |-> [line |-> w, part |-> n]]
    <3>1. units \in Seq(Units) /\ Len(units) \in Nat
      <4>1. units \in [1..LineLen -> Units]  BY DEF Units
      <4>2. LineLen \in Nat  BY ControlFifoAssumption
      <4>3. units \in Seq(Units)  BY <4>1, <4>2, SeqDef
      <4> HIDE DEF units
      <4> QED  BY <4>3, LenProperties
    <3>2. buffer' = buffer \o units  BY <2>4 DEF Write
    <3> HIDE DEF units
    <3>3. /\ buffer' \in Seq(Units) /\ Len(buffer') = Len(buffer) + Len(units)
          /\ \A n \in 1..Len(buffer) + Len(units) :
               buffer'[n] = IF n <= Len(buffer) THEN buffer[n] ELSE units[n - Len(buffer)]
      BY <2>1, <3>1, <3>2, ConcatProperties
    <3>4. i \in 1..Len(buffer) + Len(units) /\ i <= Len(buffer)  BY <2>1, <3>1
    <3>5. i \in DOMAIN buffer'  BY <3>3, <3>4, LenProperties
    <3> QED  BY <3>3, <3>4, <3>5
  <2>5. CASE ReadLines
    <3>1. PICK k \in 0..Len(buffer) : Takes(k)  BY <2>1, <2>5, ReadTakes
    <3> DEFINE chunk == SubSeq(buffer, 1, k)
               tokens == Tokens(chunk)
    <3>2. /\ k \in Nat /\ k <= Len(buffer)
          /\ chunk \in Seq(Units) /\ DOMAIN chunk = 1..k
          /\ \A n \in 1..k : n \in DOMAIN buffer /\ chunk[n] = buffer[n]
      BY <2>1, Cut
    <3>3. CASE i \in 1..k
      <4>1. tokens \in Seq(Given)  BY <3>2, TokensInOrder
      <4>2. i \in DOMAIN chunk /\ ~Newline(chunk[i])  BY <3>2, <3>3
      <4>3. PICK n \in DOMAIN tokens : chunk[i] \in tokens[n]
        <5> HIDE DEF chunk
        <5> QED  BY <3>2, <4>2, TokenOfUnit
      <4>4. handled' = handled \o tokens  BY <3>1 DEF Takes
      <4>5. chunk[i] = buffer[i]  BY <3>2, <3>3
      <4> HIDE DEF chunk, tokens
      <4>6. /\ handled' \in Seq(Given) /\ Len(handled') = Len(handled) + Len(tokens)
            /\ \A m \in 1..Len(handled) + Len(tokens) :
                 handled'[m] = IF m <= Len(handled) THEN handled[m] ELSE tokens[m - Len(handled)]
        BY <2>1, <4>1, <4>4, ConcatProperties
      <4>7. Len(tokens) \in Nat /\ n \in 1..Len(tokens)  BY <4>1, LenProperties
      <4> DEFINE m == Len(handled) + n
      <4>8. m \in 1..Len(handled) + Len(tokens) /\ ~(m <= Len(handled)) /\ m - Len(handled) = n
        BY <2>1, <4>7
      <4> HIDE DEF m
      <4>9. handled'[m] = tokens[n]  BY <4>6, <4>8
      <4>10. m \in DOMAIN handled'  BY <4>6, <4>8, LenProperties
      <4> QED  BY <4>3, <4>5, <4>9, <4>10
    <3>4. CASE i \notin 1..k
      <4>1. i - k \in 1..Len(buffer) - k /\ k + (i - k) = i  BY <2>1, <3>2, <3>4
      <4>2. DOMAIN buffer' = 1..Len(buffer) - k  BY <2>1, <3>1, Cut DEF Takes
      <4>3. buffer'[i - k] = buffer[k + (i - k)]  BY <2>1, <3>1, <4>1, Cut DEF Takes
      <4> QED  BY <4>1, <4>2, <4>3
    <3> QED  BY <3>3, <3>4
  <2>6. ASSUME NEW w \in Writers, Close(w) PROVE buffer' = buffer  BY <2>2, <2>6 DEF Close
  <2>7. ~CloseFifo  BY DEF CloseFifo
  <2> QED
    BY <2>3, <2>4, <2>5, <2>6, <2>7
    DEF Next, FifoStep, Shell, Open, OpenReturns, WriteFails, Enter, Leave,
        ReadEof, ReopenFifo, vars
<1> HIDE DEF Inv
<1>4. Inv /\ [Next]_vars => [Lossless]_vars  BY <1>3
<1> QED  BY <1>1, <1>2, <1>4, PTL DEF Spec, LostOnlyAtReopen
=============================================================================
