------------------------- MODULE InstallGamesProofs -------------------------
(***************************************************************************)
(* The installer, for every list of packages, every disk and any number of *)
(* lost connections and local failures: its types, that what it reports OK *)
(* is there as it was packed, and that it keeps the reserve as far as its  *)
(* estimates hold.                                                         *)
(*                                                                         *)
(* The space taken is a fold over the packages.  The induction theorems of *)
(* the library are about operators; the two here are about a set of        *)
(* numbers and a set of subsets, which is enough to reason about a fold.   *)
(***************************************************************************)
EXTENDS InstallGames, FiniteSetTheorems, WellFoundedInduction, TLAPS

-----------------------------------------------------------------------------
(* Sums over a finite set.                                                 *)

Pick(s) == CHOOSE x \in s : TRUE

\* The element that is picked is one of the set's.
LEMMA PickIn == ASSUME NEW s, s # {} PROVE Pick(s) \in s
BY DEF Pick

\* A set of numbers with 0 and every successor has them all.
LEMMA AllNumbers ==
  ASSUME NEW G, 0 \in G, \A n \in Nat : n \in G => n + 1 \in G
  PROVE  \A n \in Nat : n \in G
<1> DEFINE R == OpToRel(<, Nat)
           T == Nat \ G
<1>1. IsWellFoundedOn(R, Nat)  BY NatLessThanWellFounded
<1>2. R = {ss \in Nat \X Nat : ss[1] < ss[2]}  BY Zenon DEF OpToRel
<1> HIDE DEF R
<1> SUFFICES ASSUME T # {} PROVE FALSE  OBVIOUS
<1>3. T \subseteq Nat  OBVIOUS
<1>4. PICK x \in T : \A y \in T : ~(<<y, x>> \in R)  BY <1>1, <1>3, WFMin
<1>5. x \in Nat /\ x # 0 /\ x - 1 \in Nat /\ (x - 1) + 1 = x  OBVIOUS
<1>6. x - 1 \in T  BY <1>5
<1>7. <<x - 1, x>> \in R
  <2>1. <<x - 1, x>> \in Nat \X Nat /\ x - 1 < x  BY <1>5
  <2> QED  BY <1>2, <2>1
<1> QED  BY <1>4, <1>6, <1>7

\* A set of subsets with the empty one, and every one it has without its picked
\* element, has them all.
LEMMA AllSubsets ==
  ASSUME NEW S, IsFiniteSet(S), NEW G, {} \in G,
         \A s \in SUBSET S : s # {} /\ s \ {Pick(s)} \in G => s \in G
  PROVE  \A s \in SUBSET S : s \in G
<1> DEFINE N == {n \in Nat : \A s \in SUBSET S : Cardinality(s) = n => s \in G}
<1>1. \A s \in SUBSET S : IsFiniteSet(s) /\ Cardinality(s) \in Nat
  BY FS_Subset, FS_CardinalityType
<1>2. 0 \in N
  <2> SUFFICES ASSUME NEW s \in SUBSET S, Cardinality(s) = 0 PROVE s \in G  OBVIOUS
  <2>1. s = {}  BY <1>1, FS_EmptySet
  <2> QED  BY <2>1
<1>3. ASSUME NEW n \in Nat, n \in N PROVE n + 1 \in N
  <2> SUFFICES ASSUME NEW s \in SUBSET S, Cardinality(s) = n + 1 PROVE s \in G  OBVIOUS
  <2>1. IsFiniteSet(s) /\ s # {}  BY <1>1, FS_EmptySet
  <2>2. Pick(s) \in s  BY <2>1, PickIn
  <2>3. Cardinality(s \ {Pick(s)}) = Cardinality(s) - 1  BY <2>1, <2>2, FS_RemoveElement
  <2>4. Cardinality(s \ {Pick(s)}) = n  BY <2>3
  <2>5. s \ {Pick(s)} \in SUBSET S  OBVIOUS
  <2>6. s \ {Pick(s)} \in G  BY <1>3, <2>4, <2>5
  <2> QED  BY <2>1, <2>6
<1> HIDE DEF N
<1>4. \A n \in Nat : n \in N  BY <1>2, <1>3, AllNumbers
<1> QED  BY <1>1, <1>4 DEF N

\* f has the sum of w over each subset of S.
IsSum(f, w, S) ==
  f = [s \in SUBSET S |-> IF s = {} THEN 0 ELSE w[Pick(s)] + f[s \ {Pick(s)}]]

\* There are sums over a finite set.
LEMMA SumExists ==
  ASSUME NEW S, IsFiniteSet(S), NEW w PROVE \E f : IsSum(f, w, S)
<1> DEFINE Upto(n) == {s \in SUBSET S : Cardinality(s) <= n}
           Sums(f, n) == f = [s \in Upto(n) |-> IF s = {} THEN 0 ELSE w[Pick(s)] + f[s \ {Pick(s)}]]
           G == {n \in Nat : \E f : Sums(f, n)}
<1>1. \A s \in SUBSET S : IsFiniteSet(s) /\ Cardinality(s) \in Nat
  BY FS_Subset, FS_CardinalityType
<1>2. 0 \in G
  <2> DEFINE f == [s \in Upto(0) |-> 0]
  <2>1. \A s \in Upto(0) : s = {}  BY <1>1, FS_EmptySet
  <2>2. Sums(f, 0)  BY <2>1
  <2> QED  BY <2>2
<1>3. ASSUME NEW n \in Nat, n \in G PROVE n + 1 \in G
  <2>1. PICK f : Sums(f, n)  BY <1>3
  <2> DEFINE g == [s \in Upto(n + 1) |-> IF s = {} THEN 0 ELSE w[Pick(s)] + f[s \ {Pick(s)}]]
  <2>2. \A s \in Upto(n) : s \in Upto(n + 1)  BY <1>1
  <2>3. \A s \in Upto(n) : f[s] = IF s = {} THEN 0 ELSE w[Pick(s)] + f[s \ {Pick(s)}]
    <3> HIDE DEF Upto
    <3> QED  BY <2>1
  <2>4. \A s \in Upto(n) : g[s] = f[s]
    <3> HIDE DEF Upto
    <3> QED  BY <2>2, <2>3
  <2>5. \A s \in Upto(n + 1) : s # {} => s \ {Pick(s)} \in Upto(n)
    <3> SUFFICES ASSUME NEW s \in Upto(n + 1), s # {} PROVE s \ {Pick(s)} \in Upto(n)  OBVIOUS
    <3>1. IsFiniteSet(s) /\ Cardinality(s) \in Nat  BY <1>1
    <3>2. Cardinality(s \ {Pick(s)}) = Cardinality(s) - 1  BY <3>1, PickIn, FS_RemoveElement
    <3>3. s \ {Pick(s)} \in SUBSET S  OBVIOUS
    <3> QED  BY <3>1, <3>2, <3>3
  <2> HIDE DEF Upto
  <2>6. \A s \in Upto(n + 1) : s # {} => g[s \ {Pick(s)}] = f[s \ {Pick(s)}]  BY <2>4, <2>5
  <2>7. Sums(g, n + 1)  BY <2>6
  <2> HIDE DEF g
  <2>8. (\E h : Sums(h, n + 1)) /\ n + 1 \in Nat
    <3>1. \E h : Sums(h, n + 1)  BY <2>7, Zenon
    <3> QED  BY <3>1
  <2> QED  BY <2>8, Zenon
<1>4. Cardinality(S) \in Nat  BY FS_CardinalityType
<1>5. Cardinality(S) \in G
  <2> HIDE DEF G
  <2> QED  BY <1>2, <1>3, <1>4, AllNumbers
<1>6. Upto(Cardinality(S)) = SUBSET S  BY FS_Subset
<1> QED  BY <1>5, <1>6 DEF IsSum

\* Sums of natural numbers are natural numbers.
LEMMA SumType ==
  ASSUME NEW S, IsFiniteSet(S), NEW w \in [S -> Nat], NEW f, IsSum(f, w, S)
  PROVE  \A s \in SUBSET S : f[s] \in Nat
<1> DEFINE G == {s \in SUBSET S : f[s] \in Nat}
<1>1. \A s \in SUBSET S : f[s] = IF s = {} THEN 0 ELSE w[Pick(s)] + f[s \ {Pick(s)}]  BY DEF IsSum
<1>2. {} \in G  BY <1>1
<1>3. ASSUME NEW s \in SUBSET S, s # {}, s \ {Pick(s)} \in G PROVE s \in G
  <2>1. f[s] = w[Pick(s)] + f[s \ {Pick(s)}]  BY <1>1, <1>3
  <2>2. w[Pick(s)] \in Nat  BY <1>3, PickIn
  <2> QED  BY <1>3, <2>1, <2>2
<1> HIDE DEF G
<1>4. \A s \in SUBSET S : s \in G  BY <1>2, <1>3, AllSubsets
<1> QED  BY <1>4 DEF G

\* A sum changes by as much as the one number that does.
LEMMA SumChange ==
  ASSUME NEW S, IsFiniteSet(S), NEW w \in [S -> Nat], NEW v \in [S -> Nat], NEW p \in S,
         \A x \in S : x # p => v[x] = w[x],
         NEW f, IsSum(f, w, S), NEW g, IsSum(g, v, S)
  PROVE  g[S] - f[S] = v[p] - w[p]
<1> DEFINE Diff(s) == IF p \in s THEN v[p] - w[p] ELSE 0
           G == {s \in SUBSET S : g[s] - f[s] = Diff(s)}
<1>1. \A s \in SUBSET S : f[s] = IF s = {} THEN 0 ELSE w[Pick(s)] + f[s \ {Pick(s)}]  BY DEF IsSum
<1>2. \A s \in SUBSET S : g[s] = IF s = {} THEN 0 ELSE v[Pick(s)] + g[s \ {Pick(s)}]  BY DEF IsSum
<1>3. \A s \in SUBSET S : f[s] \in Nat  BY SumType
<1>4. \A s \in SUBSET S : g[s] \in Nat  BY SumType
<1>5. {} \in G
  <2>1. f[{}] = 0 /\ g[{}] = 0  BY <1>1, <1>2
  <2>2. g[{}] - f[{}] = 0 /\ Diff({}) = 0  BY <2>1
  <2> HIDE DEF Diff
  <2> QED  BY <2>2
<1>6. ASSUME NEW s \in SUBSET S, s # {}, s \ {Pick(s)} \in G PROVE s \in G
  <2> DEFINE x == Pick(s)
             t == s \ {x}
  <2>1. x \in s /\ x \in S /\ t \in SUBSET S  BY <1>6, PickIn
  <2>2. f[s] = w[x] + f[t] /\ g[s] = v[x] + g[t]  BY <1>1, <1>2, <1>6
  <2>3. g[t] - f[t] = Diff(t)  BY <1>6
  <2>4. w[x] \in Nat /\ v[x] \in Nat /\ w[p] \in Nat /\ v[p] \in Nat
    <3> HIDE DEF x
    <3> QED  BY <2>1
  <2>5. f[t] \in Nat /\ g[t] \in Nat  BY <1>3, <1>4, <2>1
  <2>6. CASE x = p
    <3>1. p \in s /\ p \notin t  BY <2>1, <2>6
    <3>2. Diff(s) = v[p] - w[p] /\ Diff(t) = 0  BY <3>1
    <3> HIDE DEF Diff, t, x
    <3> QED  BY <2>2, <2>3, <2>4, <2>5, <2>6, <3>2
  <2>7. CASE x # p
    <3>1. p \in s <=> p \in t  BY <2>7
    <3>2. Diff(s) = Diff(t)  BY <3>1
    <3>3. v[x] = w[x]  BY <2>1, <2>7
    <3> HIDE DEF Diff, t, x
    <3>4. g[s] - f[s] = Diff(s)  BY <2>2, <2>3, <2>4, <2>5, <3>2, <3>3
    <3> QED  BY <3>4
  <2> QED  BY <2>6, <2>7
<1> HIDE DEF G
<1>7. \A s \in SUBSET S : s \in G  BY <1>5, <1>6, AllSubsets
<1>8. S \in G  BY <1>7
<1> QED  BY <1>8 DEF G

\* Sums are ordered like their numbers.
LEMMA SumOrder ==
  ASSUME NEW S, IsFiniteSet(S), NEW w \in [S -> Nat], NEW v \in [S -> Nat],
         \A x \in S : w[x] <= v[x],
         NEW f, IsSum(f, w, S), NEW g, IsSum(g, v, S)
  PROVE  f[S] <= g[S]
<1> DEFINE G == {s \in SUBSET S : f[s] <= g[s]}
<1>1. \A s \in SUBSET S : f[s] = IF s = {} THEN 0 ELSE w[Pick(s)] + f[s \ {Pick(s)}]  BY DEF IsSum
<1>2. \A s \in SUBSET S : g[s] = IF s = {} THEN 0 ELSE v[Pick(s)] + g[s \ {Pick(s)}]  BY DEF IsSum
<1>3. \A s \in SUBSET S : f[s] \in Nat  BY SumType
<1>4. \A s \in SUBSET S : g[s] \in Nat  BY SumType
<1>5. {} \in G
  <2>1. f[{}] = 0 /\ g[{}] = 0  BY <1>1, <1>2
  <2> QED  BY <2>1
<1>6. ASSUME NEW s \in SUBSET S, s # {}, s \ {Pick(s)} \in G PROVE s \in G
  <2> DEFINE x == Pick(s)
             t == s \ {x}
  <2>1. x \in S /\ t \in SUBSET S  BY <1>6, PickIn
  <2>2. f[s] = w[x] + f[t] /\ g[s] = v[x] + g[t]  BY <1>1, <1>2, <1>6
  <2>3. f[t] <= g[t]  BY <1>6
  <2>4. f[t] \in Nat /\ g[t] \in Nat  BY <1>3, <1>4, <2>1
  <2> HIDE DEF x, t
  <2>5. w[x] \in Nat /\ v[x] \in Nat /\ w[x] <= v[x]  BY <2>1
  <2>6. f[s] <= g[s]  BY <2>2, <2>3, <2>4, <2>5
  <2> QED  BY <2>6
<1> HIDE DEF G
<1>7. \A s \in SUBSET S : s \in G  BY <1>5, <1>6, AllSubsets
<1>8. S \in G  BY <1>7
<1> QED  BY <1>8 DEF G

\* The sum of nothing is nothing.
LEMMA SumZero ==
  ASSUME NEW S, IsFiniteSet(S), NEW w \in [S -> {0}], NEW f, IsSum(f, w, S) PROVE f[S] = 0
<1> DEFINE G == {s \in SUBSET S : f[s] = 0}
<1>1. \A s \in SUBSET S : f[s] = IF s = {} THEN 0 ELSE w[Pick(s)] + f[s \ {Pick(s)}]  BY DEF IsSum
<1>2. {} \in G  BY <1>1
<1>3. ASSUME NEW s \in SUBSET S, s # {}, s \ {Pick(s)} \in G PROVE s \in G
  <2>1. f[s] = w[Pick(s)] + f[s \ {Pick(s)}]  BY <1>1, <1>3
  <2>2. w[Pick(s)] = 0  BY <1>3, PickIn
  <2> QED  BY <1>3, <2>1, <2>2
<1> HIDE DEF G
<1>4. S \in G  BY <1>2, <1>3, AllSubsets
<1> QED  BY <1>4 DEF G

-----------------------------------------------------------------------------
(* The space taken on the target.                                          *)

States == Trees \union {"part"}

\* MB of the directories in their states, as they are and as they were estimated.
Weights(a) == [p \in Packages |-> Mb(p, a[p])]
Bounded(p, state) == Min({Need(p), Mb(p, state)})
Estimates(a) == [p \in Packages |-> Bounded(p, a[p])]

\* There are finitely many packages.
LEMMA Finitely == IsFiniteSet(Packages)
<1>1. IPKS \in Seq(Packages)  BY InstallAssumption
<1>2. DOMAIN IPKS = 1..Len(IPKS) /\ Len(IPKS) \in Nat  BY <1>1
<1>3. IsFiniteSet(1..Len(IPKS))  BY <1>2, FS_Interval
<1>4. IPKS \in Surjection(DOMAIN IPKS, Packages)  BY <1>1, <1>2 DEF Surjection, Packages
<1> QED  BY <1>2, <1>3, <1>4, FS_Surjection

\* A directory, or half of it, is a number of MB, and so is what is counted of it.
LEMMA WeightType ==
  ASSUME NEW p \in Packages, NEW c \in States
  PROVE  /\ Mb(p, c) \in Nat /\ Mb(p, "none") = 0
         /\ Need(p) \in Nat /\ Need(p) > 0
         /\ Bounded(p, c) \in 0..Need(p) /\ Bounded(p, c) <= Mb(p, c) /\ Bounded(p, "none") = 0
<1>1. Grown[p] \in Nat /\ Size[p] \in Nat  BY InstallAssumption
<1>2. Need(p) \in Nat /\ Need(p) > 0  BY <1>1 DEF Need
<1>3. Mb(p, c) \in Nat /\ Mb(p, "none") = 0
  <2>1. Mb(p, "none") = 0  BY Zenon DEF Mb
  <2>2. Mb(p, "part") = Grown[p] \div 2  BY Zenon DEF Mb
  <2>3. CASE c \notin {"none", "part"}
    <3>1. Mb(p, c) = Grown[p]  BY <2>3, Zenon DEF Mb
    <3> QED  BY <1>1, <2>1, <3>1
  <2>4. CASE c = "none"  BY <2>1, <2>4
  <2>5. CASE c = "part"  BY <1>1, <2>1, <2>2, <2>5
  <2> QED  BY <2>3, <2>4, <2>5
<1>4. ASSUME NEW m \in Nat PROVE Min({Need(p), m}) = IF m < Need(p) THEN m ELSE Need(p)
  <2> DEFINE least == CHOOSE x \in {Need(p), m} : \A y \in {Need(p), m} : x <= y
  <2>1. \E x \in {Need(p), m} : \A y \in {Need(p), m} : x <= y  BY <1>2
  <2>2. least \in {Need(p), m} /\ \A y \in {Need(p), m} : least <= y  BY <2>1
  <2>3. Min({Need(p), m}) = least  BY DEF Min
  <2> HIDE DEF least
  <2> QED  BY <1>2, <2>2, <2>3
<1>5. Bounded(p, c) = IF Mb(p, c) < Need(p) THEN Mb(p, c) ELSE Need(p)
  <2>1. Mb(p, c) \in Nat  BY <1>3
  <2> QED  BY <1>4, <2>1 DEF Bounded
<1>6. Bounded(p, "none") = IF 0 < Need(p) THEN 0 ELSE Need(p)
  <2>1. Min({Need(p), 0}) = IF 0 < Need(p) THEN 0 ELSE Need(p)  BY <1>4
  <2> QED  BY <1>3, <2>1 DEF Bounded
<1> QED  BY <1>2, <1>3, <1>5, <1>6

\* A total is the sum of its numbers.
LEMMA TotalIsSum ==
  ASSUME NEW w \in [Packages -> Nat]
  PROVE  \E f : IsSum(f, w, Packages) /\ Total(w) = f[Packages]
<1> DEFINE IsIter(f) == f = [s \in SUBSET Packages |->
                               IF s = {} THEN 0 ELSE w[Pick(s)] + f[s \ {Pick(s)}]]
           iter == CHOOSE f : IsIter(f)
<1>1. Total(w) = iter[Packages]  BY DEF Total, MapThenSumSet, MapThenFoldSet, Pick
<1>2. \E f : IsIter(f)
  <2>1. PICK f : IsSum(f, w, Packages)  BY Finitely, SumExists
  <2>2. IsIter(f)  BY <2>1 DEF IsSum
  <2> HIDE DEF IsIter
  <2> QED  BY <2>2
<1>3. IsIter(iter)
  <2> HIDE DEF IsIter
  <2> QED  BY <1>2
<1> QED  BY <1>1, <1>3 DEF IsSum

\* Totals of natural numbers change by as much as the one number that does, and are
\* ordered like their numbers.
LEMMA TotalChange ==
  ASSUME NEW w \in [Packages -> Nat], NEW v \in [Packages -> Nat]
  PROVE  /\ Total(w) \in Nat /\ Total(v) \in Nat
         /\ \A p \in Packages : (\A q \in Packages : q # p => v[q] = w[q]) => Total(v) - Total(w) = v[p] - w[p]
         /\ (\A q \in Packages : w[q] <= v[q]) => Total(w) <= Total(v)
<1>1. PICK f : IsSum(f, w, Packages) /\ Total(w) = f[Packages]  BY TotalIsSum
<1>2. PICK g : IsSum(g, v, Packages) /\ Total(v) = g[Packages]  BY TotalIsSum
<1>3. Total(w) \in Nat /\ Total(v) \in Nat  BY <1>1, <1>2, Finitely, SumType
<1>4. ASSUME NEW p \in Packages, \A q \in Packages : q # p => v[q] = w[q]
      PROVE  Total(v) - Total(w) = v[p] - w[p]
  BY <1>1, <1>2, <1>4, Finitely, SumChange
<1>5. ASSUME \A q \in Packages : w[q] <= v[q] PROVE Total(w) <= Total(v)
  BY <1>1, <1>2, <1>5, Finitely, SumOrder
<1> QED  BY <1>3, <1>4, <1>5

\* The weights and the estimates are numbers.
LEMMA WeightsType ==
  ASSUME NEW a \in [Packages -> States]
  PROVE  /\ Weights(a) \in [Packages -> Nat] /\ Estimates(a) \in [Packages -> Nat]
         /\ Taken(a) = Total(Weights(a)) /\ Estimated(a) = Total(Estimates(a))
         /\ Taken(a) \in Nat /\ Estimated(a) \in Nat /\ Estimated(a) <= Taken(a)
<1>1. ASSUME NEW p \in Packages
      PROVE  /\ Mb(p, a[p]) \in Nat /\ Bounded(p, a[p]) \in Nat
             /\ Bounded(p, a[p]) <= Mb(p, a[p])
  <2>1. a[p] \in States  OBVIOUS
  <2>2. Bounded(p, a[p]) \in 0..Need(p) /\ Need(p) \in Nat  BY <2>1, WeightType
  <2> QED  BY <2>1, <2>2, WeightType
<1>2. Weights(a) \in [Packages -> Nat] /\ Estimates(a) \in [Packages -> Nat]
  BY <1>1 DEF Weights, Estimates
<1>3. Taken(a) = Total(Weights(a)) /\ Estimated(a) = Total(Estimates(a))
  BY DEF Taken, Estimated, Weights, Estimates, Bounded
<1>4. \A q \in Packages : Estimates(a)[q] <= Weights(a)[q]  BY <1>1 DEF Weights, Estimates
<1> QED  BY <1>2, <1>3, <1>4, TotalChange

\* What is counted of one directory changes by as much as that directory's.
LEMMA EstimatedChange ==
  ASSUME NEW a \in [Packages -> States], NEW p \in Packages, NEW c \in States
  PROVE  /\ Estimated([a EXCEPT ![p] = c]) \in Nat /\ Estimated(a) \in Nat
         /\ Estimated([a EXCEPT ![p] = c]) - Estimated(a) = Bounded(p, c) - Bounded(p, a[p])
<1> DEFINE b == [a EXCEPT ![p] = c]
<1>1. b \in [Packages -> States] /\ b[p] = c /\ \A x \in Packages : x # p => b[x] = a[x]  OBVIOUS
<1> HIDE DEF b
<1>2. \A x \in Packages : x # p => Estimates(b)[x] = Estimates(a)[x]  BY <1>1 DEF Estimates
<1>3. Estimates(b)[p] = Bounded(p, c) /\ Estimates(a)[p] = Bounded(p, a[p])  BY <1>1 DEF Estimates
<1>4. /\ Estimates(a) \in [Packages -> Nat] /\ Estimated(a) = Total(Estimates(a))
      /\ Estimated(a) \in Nat
  BY WeightsType
<1>5. /\ Estimates(b) \in [Packages -> Nat] /\ Estimated(b) = Total(Estimates(b))
      /\ Estimated(b) \in Nat
  BY <1>1, WeightsType
<1>6. Estimated(b) - Estimated(a) = Bounded(p, c) - Bounded(p, a[p])
  BY <1>2, <1>3, <1>4, <1>5, TotalChange
<1> QED  BY <1>4, <1>5, <1>6 DEF b

\* Nothing is counted of a fresh target.
LEMMA EstimatedNone == Estimated([p \in Packages |-> "none"]) = 0
<1> DEFINE a == [p \in Packages |-> "none"]
<1>1. a \in [Packages -> States] /\ \A p \in Packages : a[p] = "none"  BY DEF States, Trees
<1> HIDE DEF a
<1>2. ASSUME NEW p \in Packages PROVE Bounded(p, a[p]) = 0
  <2>1. "none" \in States  BY DEF States, Trees
  <2> QED  BY <1>1, <2>1, WeightType
<1>3. Estimates(a) \in [Packages -> {0}] /\ Estimates(a) \in [Packages -> Nat]
  BY <1>2 DEF Estimates
<1>4. PICK f : IsSum(f, Estimates(a), Packages) /\ Total(Estimates(a)) = f[Packages]
  BY <1>3, TotalIsSum
<1>5. f[Packages] = 0  BY <1>3, <1>4, Finitely, SumZero
<1>6. Estimated(a) = Total(Estimates(a))  BY <1>1, WeightsType
<1> QED  BY <1>4, <1>5, <1>6 DEF a

-----------------------------------------------------------------------------
(* The inductive invariant.                                                *)

Points  == {"df", "check", "push", "pushing", "remote", "wait", "restart", "done"}
Looping == Points \ {"restart", "done"}

Chains == [for : Packages, at : {"rm", "open", "tar", "clean"}, src : Packages, tree : Trees,
           sound : BOOLEAN, holed : BOOLEAN, stray : 0..MaxLost]

Archives == {NoFile} \union [of : Packages, whole : BOOLEAN, tree : Trees]

\* The types, with those of the chains.
ScriptShape ==
  /\ pc \in Points /\ k \in DOMAIN IPKS /\ free \in {NoReading} \union 0..Disk
  /\ report \in [Packages -> {"", "OK", "FAIL", "SKIP"}]
  /\ lost \in 0..MaxLost /\ blind \in BOOLEAN /\ made \in [Packages -> Trees]
TargetShape ==
  /\ apps \in [Packages -> States] /\ tmp \in Archives /\ jobs \in SUBSET Chains
  /\ sam \in SUBSET Packages /\ touched \in SUBSET Packages

\* The script waits for the one chain that is not a stray.
Awaited ==
  /\ pc = "wait" <=> \E j \in jobs : j.stray = 0
  /\ \A i, j \in jobs : i.stray = 0 /\ j.stray = 0 => i = j

\* Nothing is reported yet of the packages still to come.
Ahead == pc \in Looping => \A n \in DOMAIN IPKS : n >= k => report[IPKS[n]] = ""

\* The chain the script waits for works on the script's package: what is removed
\* under it a stray has removed, and what it unpacks is what was packed.
OwnChain ==
  \A j \in jobs : j.stray = 0 =>
    /\ j.for = ipk /\ j.src = ipk
    /\ j.holed => ipk \in touched
    /\ j.at = "tar" => j.tree = made[ipk]
    /\ j.at = "clean" => ipk \in touched \/ apps[ipk] = made[ipk]

\* From the push to the end of the chain no other archive is in its place.
OwnArchive ==
  pc \in {"pushing", "remote", "wait"} => tmp = NoFile \/ (tmp.of = ipk /\ tmp.tree = made[ipk])

IInv == ScriptShape /\ TargetShape /\ Awaited /\ Ahead /\ OwnChain /\ OwnArchive /\ OkIsAsPacked
-----------------------------------------------------------------------------
(* Parts of the steps.                                                     *)

\* The packages are the entries of the list, each once.
LEMMA Listed ==
  /\ \A n \in DOMAIN IPKS : n \in Nat /\ n \in 1..Len(IPKS) /\ IPKS[n] \in Packages
  /\ Len(IPKS) \in Nat /\ 1 \in DOMAIN IPKS /\ DOMAIN IPKS = 1..Len(IPKS)
  /\ \A m, n \in DOMAIN IPKS : IPKS[m] = IPKS[n] => m = n
BY InstallAssumption DEF Packages

\* The loop goes on to the next package or is over.
LEMMA AdvanceIs ==
  ASSUME k \in DOMAIN IPKS, Advance
  PROVE  /\ k' \in DOMAIN IPKS /\ pc' \in {"df", "restart"}
         /\ pc' = "df" => k' = k + 1
BY Listed DEF Advance

\* What is free is no more than the disk.
LEMMA FreeIs ==
  ASSUME TargetShape
  PROVE  Free \in Int /\ Free <= Disk /\ Free <= Disk - Taken(apps) /\ Taken(apps) \in Nat
         /\ Max({0, Free}) = IF Free > 0 THEN Free ELSE 0
<1>2. Taken(apps) \in Nat  BY WeightsType DEF TargetShape
<1>3. InTmp(tmp) \in Nat
  <2>1. CASE tmp = NoFile  BY <2>1 DEF InTmp
  <2>2. CASE tmp # NoFile
    <3>1. tmp.of \in Packages  BY <2>2 DEF TargetShape, Archives
    <3> QED  BY <2>2, <3>1, InstallAssumption DEF InTmp
  <2> QED  BY <2>1, <2>2
<1>4. Disk \in Nat  BY InstallAssumption
<1>5. Free = Disk - Taken(apps) - InTmp(tmp)  BY DEF Free
<1> HIDE DEF Free
<1>6. Free \in Int /\ Free <= Disk /\ Free <= Disk - Taken(apps)  BY <1>2, <1>3, <1>4, <1>5
<1>7. Max({0, Free}) = IF Free > 0 THEN Free ELSE 0
  <2> DEFINE m == CHOOSE x \in {0, Free} : \A y \in {0, Free} : x >= y
  <2>1. \E x \in {0, Free} : \A y \in {0, Free} : x >= y  BY <1>6
  <2>2. m \in {0, Free} /\ \A y \in {0, Free} : m >= y  BY <2>1
  <2>3. Max({0, Free}) = m  BY DEF Max
  <2> HIDE DEF m
  <2> QED  BY <1>6, <2>2, <2>3
<1> QED  BY <1>2, <1>6, <1>7

\* What the end of a chain does for the script.
LEMMA EndsIs ==
  ASSUME ScriptShape, TargetShape, Awaited, NEW j \in jobs, NEW good \in BOOLEAN, Ends(j, good)
  PROVE  /\ jobs' = jobs \ {j}
         /\ j.stray = 0 => /\ pc = "wait" /\ Advance /\ UNCHANGED <<free, made, blind>>
                           /\ report' = [report EXCEPT ![ipk] = IF good THEN "OK" ELSE "FAIL"]
         /\ j.stray # 0 => UNCHANGED script
BY DEF Ends, Says, Awaited

\* The script keeps its types.
LEMMA ScriptShapeStep == ASSUME IInv, [Next]_vars PROVE ScriptShape'
<1> DEFINE Lines == {"", "OK", "FAIL", "SKIP"}
           Loses == UNCHANGED lost \/ CanLose
           Leaves == /\ Advance /\ UNCHANGED <<free, made, blind>> /\ Loses
                     /\ \E line \in Lines : Says(line)
           Stays == UNCHANGED <<k, free, report, made, blind>> /\ pc' \in Points /\ Loses
<1> USE DEF IInv
<1>1. ipk \in Packages  BY Listed DEF ScriptShape, ipk
<1>2. Loses => lost' \in 0..MaxLost
  <2>1. MaxLost \in Nat  BY InstallAssumption
  <2>2. lost \in 0..MaxLost  BY DEF ScriptShape
  <2> QED  BY <2>1, <2>2 DEF CanLose
<1>3. CASE Leaves
  <2>1. k' \in DOMAIN IPKS /\ pc' \in Points  BY <1>3, AdvanceIs DEF ScriptShape, Points
  <2>2. report' \in [Packages -> Lines]  BY <1>1, <1>3 DEF ScriptShape, Says
  <2> QED  BY <1>2, <1>3, <2>1, <2>2 DEF ScriptShape
<1>4. CASE Stays  BY <1>2, <1>4 DEF ScriptShape
<1>5. CASE UNCHANGED <<script, lost>>  BY <1>5 DEF ScriptShape, script
<1>6. CASE ReadFree
  <2>1. free' \in {NoReading} \union 0..Disk
    <3>1. Free \in Int /\ Free <= Disk /\ Max({0, Free}) = (IF Free > 0 THEN Free ELSE 0)  BY FreeIs
    <3>2. Disk \in Nat  BY InstallAssumption
    <3> DEFINE m == Max({0, Free})
    <3>3. m \in 0..Disk  BY <3>1, <3>2
    <3>4. free' = m \/ free' = NoReading  BY <1>6 DEF ReadFree
    <3> QED  BY <3>3, <3>4
  <2>2. pc' = "check" /\ blind' \in BOOLEAN /\ Loses /\ UNCHANGED <<k, report, made>>
    <3>1. blind \in BOOLEAN  BY DEF ScriptShape
    <3> QED  BY <1>6, <3>1, Zenon DEF ReadFree
  <2> QED  BY <1>2, <2>1, <2>2 DEF ScriptShape, Points
<1>7. CASE Skip \/ Unusable
  <2>1. Advance /\ UNCHANGED <<free, made, blind>> /\ Loses  BY <1>7 DEF Skip, Unusable
  <2>2. \E line \in {"SKIP", "FAIL"} : Says(line)  BY <1>7 DEF Skip, Unusable
  <2>3. \E line \in Lines : Says(line)  BY <2>2
  <2> QED  BY <1>3, <2>1, <2>3
<1>8. CASE Pack
  <2>1. made' \in [Packages -> Trees]  BY <1>8 DEF Pack, ScriptShape, Trees
  <2>2. UNCHANGED <<k, free, report, blind>> /\ pc' = "push" /\ Loses  BY <1>8 DEF Pack
  <2> QED  BY <1>2, <2>1, <2>2 DEF ScriptShape, Points
<1>18. CASE PackFails
  <2>1. Advance /\ UNCHANGED <<free, report, made, blind>> /\ Loses  BY <1>18 DEF PackFails
  <2>2. k' \in DOMAIN IPKS /\ pc' \in Points  BY <2>1, AdvanceIs DEF ScriptShape, Points
  <2> QED  BY <1>2, <2>1, <2>2 DEF ScriptShape
<1>9. CASE PushBegins  BY <1>4, <1>9 DEF PushBegins, Points
<1>10. CASE PushEnds  BY <1>4, <1>10 DEF PushEnds, Points
<1>11. CASE TransferFails  BY <1>3, <1>11 DEF TransferFails
<1>12. CASE StartChain  BY <1>4, <1>12 DEF StartChain, Points
<1>13. CASE LoseChain  BY <1>3, <1>13 DEF LoseChain
<1>14. CASE Restart  BY <1>4, <1>14 DEF Restart, Points
<1>15. CASE Rerun
  <2>1. report' \in [Packages -> Lines]  BY <1>15 DEF Rerun
  <2>2. pc' = "df" /\ k' = 1 /\ free' = NoReading /\ UNCHANGED <<blind, lost>>  BY <1>15 DEF Rerun
  <2>3. made' \in [Packages -> Trees]  BY <1>15 DEF Rerun, Trees
  <2> QED  BY <2>1, <2>2, <2>3, Listed DEF ScriptShape, Points
<1>16. ASSUME NEW j \in jobs, ChainStep(j) \/ Killed(j) PROVE ScriptShape'
  <2>1. ASSUME NEW good \in BOOLEAN, Ends(j, good), UNCHANGED lost PROVE ScriptShape'
    <3>1. CASE j.stray = 0
      <4>1. Says(IF good THEN "OK" ELSE "FAIL")  BY <2>1, <3>1, EndsIs DEF Says
      <4> QED  BY <1>3, <2>1, <3>1, <4>1, EndsIs
    <3>2. CASE j.stray # 0  BY <1>5, <2>1, <3>2, EndsIs
    <3> QED  BY <3>1, <3>2
  <2>2. CASE RemoveOld(j) \/ OpenArchive(j) \/ Unpacked(j)
    BY <1>5, <2>2 DEF RemoveOld, OpenArchive, Unpacked
  <2>3. CASE NoArchive(j) \/ UnpackFails(j) \/ RemoveArchive(j) \/ Killed(j)
    BY <2>1, <2>3 DEF NoArchive, UnpackFails, RemoveArchive, Killed
  <2> QED  BY <1>16, <2>2, <2>3 DEF ChainStep
<1>17. CASE UNCHANGED vars  BY <1>5, <1>17 DEF vars
<1> QED
  BY <1>6, <1>7, <1>8, <1>9, <1>10, <1>11, <1>12, <1>13, <1>14, <1>15, <1>16, <1>17, <1>18
  DEF Next, ScriptStep

\* So does the target.
LEMMA TargetShapeStep == ASSUME IInv, [Next]_vars PROVE TargetShape'
<1> USE DEF IInv
<1> DEFINE AppsKept    == apps' \in [Packages -> States]
           TmpKept     == tmp' \in Archives
           JobsKept    == jobs' \in SUBSET Chains
           SamKept     == sam' \in SUBSET Packages
           TouchedKept == touched' \in SUBSET Packages
<1>1. ipk \in Packages /\ lost \in 0..MaxLost /\ MaxLost \in Nat
  <2>1. MaxLost \in Nat  BY InstallAssumption
  <2>2. lost \in 0..MaxLost  BY DEF ScriptShape
  <2>3. ipk \in Packages  BY Listed DEF ScriptShape, ipk
  <2> QED  BY <2>1, <2>2, <2>3
<1>2. /\ UNCHANGED apps => AppsKept
      /\ UNCHANGED tmp => TmpKept
      /\ UNCHANGED jobs => JobsKept
      /\ UNCHANGED sam => SamKept
      /\ UNCHANGED touched => TouchedKept
  BY DEF TargetShape
<1>3. CASE UNCHANGED <<target, touched>>  BY <1>2, <1>3 DEF target, TargetShape
<1>4. CASE ReadFree \/ Skip \/ Unusable \/ Pack \/ PackFails \/ TransferFails \/ Rerun \/ UNCHANGED vars
  BY <1>3, <1>4 DEF ReadFree, Skip, Unusable, Pack, PackFails, TransferFails, Rerun, vars
<1>5. CASE PushBegins
  <2>1. TmpKept  BY <1>1, <1>5 DEF PushBegins, Archive, Archives, ScriptShape
  <2>2. JobsKept
    <3>1. \A j \in jobs : j \in Chains /\ [j EXCEPT !.sound = FALSE] \in Chains
      BY DEF TargetShape, Chains
    <3> QED  BY <1>5, <3>1 DEF PushBegins
  <2> QED  BY <1>2, <1>5, <2>1, <2>2 DEF PushBegins, TargetShape
<1>6. CASE PushEnds
  <2>1. TmpKept  BY <1>1, <1>6 DEF PushEnds, Archive, Archives, ScriptShape
  <2>2. TouchedKept  BY <1>6 DEF PushEnds, TargetShape
  <2> QED  BY <1>2, <1>6, <2>1, <2>2 DEF PushEnds, TargetShape
<1>7. CASE StartChain
  <2>1. Job(ipk) \in Chains  BY <1>1 DEF Job, Chains, Trees
  <2>2. JobsKept  BY <1>7, <2>1 DEF StartChain, TargetShape
  <2> QED  BY <1>2, <1>7, <2>2 DEF StartChain, TargetShape
<1>8. CASE LoseChain
  <2>1. lost' \in 0..MaxLost  BY <1>1, <1>8 DEF LoseChain, CanLose
  <2>2. JobsKept
    <3>1. \A j \in jobs : j \in Chains /\ [j EXCEPT !.stray = lost'] \in Chains
      BY <2>1 DEF TargetShape, Chains
    <3> QED  BY <1>8, <3>1 DEF LoseChain
  <2>3. TouchedKept
    <3>1. \A j \in jobs : j.src \in Packages  BY DEF TargetShape, Chains
    <3> QED  BY <1>8, <3>1 DEF LoseChain, TargetShape
  <2> QED  BY <1>2, <1>8, <2>2, <2>3 DEF LoseChain, TargetShape
<1>9. CASE Restart
  <2>1. SamKept  BY <1>9 DEF Restart, TargetShape
  <2> QED  BY <1>2, <1>9, <2>1 DEF Restart, TargetShape
<1>10. ASSUME NEW j \in jobs, ChainStep(j) \/ Killed(j) PROVE TargetShape'
  <2>1. j \in Chains /\ j.for \in Packages /\ j.src \in Packages  BY DEF TargetShape, Chains
  <2>2. ASSUME NEW ps \in SUBSET Packages, Worked(j, ps) PROVE TouchedKept
    BY <2>2 DEF Worked, TargetShape
  <2>3. CASE RemoveOld(j)
    <3>1. AppsKept  BY <2>1, <2>3 DEF RemoveOld, TargetShape, States, Trees
    <3>2. JobsKept
      <4>1. \A i \in jobs : /\ i \in Chains /\ [i EXCEPT !.at = "open"] \in Chains
                            /\ [i EXCEPT !.holed = TRUE] \in Chains
        BY DEF TargetShape, Chains
      <4> QED  BY <2>3, <4>1 DEF RemoveOld
    <3>3. TouchedKept  BY <2>1, <2>2, <2>3 DEF RemoveOld
    <3> QED  BY <1>2, <2>3, <3>1, <3>2, <3>3 DEF RemoveOld, TargetShape
  <2>4. CASE OpenArchive(j)
    <3>1. tmp.of \in Packages /\ tmp.whole \in BOOLEAN /\ tmp.tree \in Trees  BY <2>4 DEF OpenArchive, TargetShape, Archives
    <3>2. AppsKept  BY <2>4, <3>1 DEF OpenArchive, TargetShape, States
    <3>3. JobsKept
      <4>1. [j EXCEPT !.at = "tar", !.src = tmp.of, !.tree = tmp.tree, !.sound = tmp.whole] \in Chains
        BY <2>1, <3>1 DEF Chains
      <4> QED  BY <2>4, <4>1 DEF OpenArchive, TargetShape
    <3>4. TouchedKept  BY <2>2, <2>4, <3>1 DEF OpenArchive
    <3> QED  BY <1>2, <2>4, <3>2, <3>3, <3>4 DEF OpenArchive, TargetShape
  <2>5. CASE Unpacked(j)
    <3>1. AppsKept  BY <2>1, <2>5 DEF Unpacked, TargetShape, States, Chains
    <3>2. JobsKept
      <4>1. [j EXCEPT !.at = "clean"] \in Chains  BY <2>1 DEF Chains
      <4> QED  BY <2>5, <4>1 DEF Unpacked, TargetShape
    <3>3. TouchedKept  BY <2>1, <2>2, <2>5 DEF Unpacked
    <3> QED  BY <1>2, <2>5, <3>1, <3>2, <3>3 DEF Unpacked, TargetShape
  <2>6. CASE NoArchive(j) \/ UnpackFails(j) \/ RemoveArchive(j) \/ Killed(j)
    <3>1. JobsKept
      <4>1. \E good \in BOOLEAN : Ends(j, good)
        BY <2>6 DEF NoArchive, UnpackFails, RemoveArchive, Killed
      <4>2. jobs' = jobs \ {j}  BY <4>1, EndsIs
      <4> QED  BY <4>2 DEF TargetShape
    <3>2. TmpKept  BY <1>2, <2>6 DEF NoArchive, UnpackFails, RemoveArchive, Killed, Archives
    <3>3. UNCHANGED <<apps, sam, touched>>
      BY <2>6 DEF NoArchive, UnpackFails, RemoveArchive, Killed
    <3> QED  BY <1>2, <3>1, <3>2, <3>3 DEF TargetShape
  <2> QED  BY <1>10, <2>3, <2>4, <2>5, <2>6 DEF ChainStep
<1> QED  BY <1>4, <1>5, <1>6, <1>7, <1>8, <1>9, <1>10 DEF Next, ScriptStep

\* The script waits for its own chain, for it alone, and that chain is about its package.
LEMMA ChainsStep == ASSUME IInv, [Next]_vars PROVE Awaited' /\ OwnChain'
<1> USE DEF IInv
<1>1. Awaited' /\ pc' # "wait" => OwnChain'  BY DEF Awaited, OwnChain
<1>2. \A i, j \in jobs : pc # "wait" => i.stray # 0  BY DEF Awaited
<1>3. ASSUME UNCHANGED jobs, pc # "wait", pc' # "wait" PROVE Awaited' /\ OwnChain'
  BY <1>1, <1>3 DEF Awaited
<1>4. ASSUME UNCHANGED <<script, jobs, touched, apps>> PROVE Awaited' /\ OwnChain'
  <2>1. UNCHANGED <<pc, k, made>>  BY <1>4 DEF script
  <2> QED  BY <1>4, <2>1 DEF Awaited, OwnChain, ipk
<1>5. Advance => pc' # "wait"  BY AdvanceIs DEF ScriptShape
<1>6. CASE ReadFree \/ Pack \/ PushEnds \/ Restart \/ Rerun
  BY <1>3, <1>6 DEF ReadFree, Pack, PushEnds, Restart, Rerun, target
<1>7. CASE Skip \/ Unusable \/ PackFails \/ TransferFails
  BY <1>3, <1>5, <1>7 DEF Skip, Unusable, PackFails, TransferFails, target
<1>8. CASE PushBegins
  <2>1. pc = "push" /\ pc' = "pushing"  BY <1>8 DEF PushBegins
  <2>2. ASSUME NEW i \in jobs' PROVE i.stray # 0
    <3>1. PICK j \in jobs : i = IF j.at = "tar" /\ tmp # NoFile THEN [j EXCEPT !.sound = FALSE] ELSE j
      BY <1>8 DEF PushBegins
    <3>2. j \in Chains  BY DEF TargetShape
    <3>3. i.stray = j.stray  BY <3>1, <3>2 DEF Chains
    <3> QED  BY <1>2, <2>1, <3>3
  <2> QED  BY <1>1, <2>1, <2>2 DEF Awaited
<1>9. CASE StartChain
  <2>1. /\ pc = "remote" /\ pc' = "wait" /\ jobs' = jobs \union {Job(ipk)}
        /\ UNCHANGED <<k, touched, apps>>
    BY <1>9 DEF StartChain
  <2>2. /\ Job(ipk).stray = 0 /\ Job(ipk).for = ipk /\ Job(ipk).src = ipk
        /\ Job(ipk).holed = FALSE /\ Job(ipk).at = "rm"
    BY DEF Job
  <2>3. \A i \in jobs' : i.stray = 0 => i = Job(ipk)  BY <1>2, <2>1
  <2>4. Awaited'  BY <2>1, <2>2, <2>3 DEF Awaited
  <2>5. ipk' = ipk  BY <2>1 DEF ipk
  <2> QED  BY <2>2, <2>3, <2>4, <2>5 DEF OwnChain
<1>10. CASE LoseChain
  <2>1. pc' # "wait"  BY <1>5, <1>10 DEF LoseChain
  <2>2. lost' # 0
    <3>1. lost \in 0..MaxLost /\ lost' = lost + 1  BY <1>10 DEF LoseChain, CanLose, ScriptShape
    <3> QED  BY <3>1
  <2>3. ASSUME NEW i \in jobs' PROVE i.stray # 0
    <3>1. PICK j \in jobs : i = IF j.stray = 0 THEN [j EXCEPT !.stray = lost'] ELSE j
      BY <1>10 DEF LoseChain
    <3>2. j \in Chains  BY DEF TargetShape
    <3> QED  BY <2>2, <3>1, <3>2 DEF Chains
  <2> QED  BY <1>1, <2>1, <2>3 DEF Awaited
<1>11. ASSUME NEW j \in jobs, RemoveOld(j) PROVE Awaited' /\ OwnChain'
  <2> DEFINE To(i) == IF i = j THEN [i EXCEPT !.at = "open"]
                      ELSE IF i.at = "tar" /\ i.src = j.for THEN [i EXCEPT !.holed = TRUE] ELSE i
  <2>1. /\ jobs' = {To(i) : i \in jobs} /\ UNCHANGED <<pc, k, made>>
        /\ apps' = [apps EXCEPT ![j.for] = "none"] /\ Worked(j, {j.for})
    BY <1>11 DEF RemoveOld, script
  <2>2. \A i \in jobs : /\ To(i).stray = i.stray /\ To(i).for = i.for /\ To(i).src = i.src
                        /\ To(i).tree = i.tree
    BY DEF TargetShape, Chains
  <2>3. \A i \in jobs : /\ i = j => To(i).at = "open" /\ To(i).holed = i.holed
                        /\ i # j => /\ To(i).at = i.at
                                    /\ To(i).holed => i.holed \/ i.src = j.for
    BY DEF TargetShape, Chains
  <2> HIDE DEF To
  <2>4. Awaited'
    <3>1. pc = "wait" <=> \E i \in jobs' : i.stray = 0  BY <2>1, <2>2 DEF Awaited
    <3>2. \A a, b \in jobs' : a.stray = 0 /\ b.stray = 0 => a = b  BY <2>1, <2>2 DEF Awaited
    <3> QED  BY <2>1, <3>1, <3>2 DEF Awaited
  <2>5. touched \subseteq touched' /\ (j.stray # 0 => j.for \in touched')  BY <2>1 DEF Worked
  <2>6. ipk' = ipk  BY <2>1 DEF ipk
  <2>7. ASSUME NEW i \in jobs, i.stray = 0
        PROVE  /\ i.for = ipk /\ i.src = ipk /\ (To(i).holed => ipk \in touched')
               /\ To(i).at = "tar" => To(i).tree = made[ipk]
               /\ To(i).at = "clean" => ipk \in touched' \/ apps'[ipk] = made[ipk]
    <3>1. /\ i.for = ipk /\ i.src = ipk /\ (i.holed => ipk \in touched)
          /\ i.at = "tar" => i.tree = made[ipk]
          /\ i.at = "clean" => ipk \in touched \/ apps[ipk] = made[ipk]
      BY <2>7 DEF OwnChain
    <3>2. CASE i = j  BY <2>3, <2>5, <2>7, <3>1, <3>2 DEF OwnChain
    <3>3. CASE i # j
      <4>1. j.stray # 0  BY <2>7, <3>3 DEF Awaited
      <4>2. j.for \in touched'  BY <2>5, <4>1
      <4>3. To(i).holed => ipk \in touched'  BY <2>3, <2>5, <3>1, <3>3, <4>2
      <4>4. ASSUME To(i).at = "clean", ipk \notin touched' PROVE apps'[ipk] = made[ipk]
        <5>1. i.at = "clean"  BY <2>3, <3>3, <4>4
        <5>2. ipk # j.for /\ ipk \notin touched  BY <2>5, <4>2, <4>4
        <5>3. apps[ipk] = made[ipk] /\ ipk \in Packages
          BY <3>1, <5>1, <5>2, Listed DEF ScriptShape, ipk
        <5> QED  BY <2>1, <5>2, <5>3 DEF TargetShape
      <4>5. To(i).at = "tar" => To(i).tree = made[ipk]  BY <2>2, <2>3, <3>1, <3>3
      <4> QED  BY <2>2, <3>1, <4>3, <4>4, <4>5
    <3> QED  BY <3>2, <3>3
  <2>8. OwnChain'  BY <2>1, <2>2, <2>6, <2>7 DEF OwnChain
  <2> QED  BY <2>4, <2>8
<1>12. ASSUME NEW j \in jobs, NEW new, NEW p,
              jobs' = (jobs \ {j}) \union {new}, new.stray = j.stray,
              UNCHANGED <<pc, k, made>>, Worked(j, {p}), \A q \in Packages : q # p => apps'[q] = apps[q],
              j.stray = 0 => /\ new.for = ipk /\ new.src = ipk /\ (new.holed => ipk \in touched)
                             /\ new.at = "tar" => new.tree = made[ipk]
                             /\ new.at = "clean" => ipk \in touched \/ apps'[ipk] = made[ipk]
       PROVE  Awaited' /\ OwnChain'
  <2>1. Awaited'
    <3>1. pc = "wait" <=> \E i \in jobs' : i.stray = 0  BY <1>12 DEF Awaited
    <3>2. \A a, b \in jobs' : a.stray = 0 /\ b.stray = 0 => a = b  BY <1>12 DEF Awaited
    <3> QED  BY <1>12, <3>1, <3>2 DEF Awaited
  <2>2. touched \subseteq touched' /\ (j.stray # 0 => p \in touched')  BY <1>12 DEF Worked
  <2>3. ipk' = ipk /\ ipk \in Packages  BY <1>12, Listed DEF ipk, ScriptShape
  <2>4. ASSUME NEW i \in jobs', i.stray = 0
        PROVE  /\ i.for = ipk /\ i.src = ipk /\ (i.holed => ipk \in touched')
               /\ i.at = "tar" => i.tree = made[ipk]
               /\ i.at = "clean" => ipk \in touched' \/ apps'[ipk] = made[ipk]
    <3>1. CASE i = new  BY <1>12, <2>2, <2>4, <3>1
    <3>2. CASE i # new
      <4>1. i \in jobs /\ i # j  BY <1>12, <3>2
      <4>2. j.stray # 0  BY <2>4, <4>1 DEF Awaited
      <4>3. p \in touched'  BY <2>2, <4>2
      <4>4. /\ i.for = ipk /\ i.src = ipk /\ (i.holed => ipk \in touched)
            /\ i.at = "tar" => i.tree = made[ipk]
            /\ i.at = "clean" => ipk \in touched \/ apps[ipk] = made[ipk]
        BY <2>4, <4>1 DEF OwnChain
      <4> QED  BY <1>12, <2>2, <2>3, <4>3, <4>4
    <3> QED  BY <3>1, <3>2
  <2>5. OwnChain'  BY <1>12, <2>3, <2>4 DEF OwnChain
  <2> QED  BY <2>1, <2>5
<1>13. ASSUME NEW j \in jobs, OpenArchive(j) PROVE Awaited' /\ OwnChain'
  <2> DEFINE new == [j EXCEPT !.at = "tar", !.src = tmp.of, !.tree = tmp.tree, !.sound = tmp.whole]
  <2>1. /\ new.stray = j.stray /\ new.for = j.for /\ new.src = tmp.of /\ new.at = "tar"
        /\ new.holed = j.holed /\ new.tree = tmp.tree
    BY DEF TargetShape, Chains
  <2>2. /\ jobs' = (jobs \ {j}) \union {new} /\ tmp # NoFile /\ UNCHANGED <<pc, k, made>>
        /\ Worked(j, {tmp.of}) /\ apps' = [apps EXCEPT ![tmp.of] = "part"]
    BY <1>13 DEF OpenArchive, script
  <2>3. \A q \in Packages : q # tmp.of => apps'[q] = apps[q]  BY <2>2 DEF TargetShape
  <2>4. j.stray = 0 => j.for = ipk /\ tmp.of = ipk /\ tmp.tree = made[ipk] /\ (j.holed => ipk \in touched)
    BY <2>2 DEF OwnChain, OwnArchive, Awaited
  <2>5. j.stray = 0 => /\ new.for = ipk /\ new.src = ipk /\ (new.holed => ipk \in touched)
                       /\ new.at = "tar" => new.tree = made[ipk]
                       /\ new.at = "clean" => ipk \in touched \/ apps'[ipk] = made[ipk]
    BY <2>1, <2>4
  <2>6. new.stray = j.stray  BY <2>1
  <2> HIDE DEF new
  <2>7. jobs' = (jobs \ {j}) \union {new} /\ UNCHANGED <<pc, k, made>> /\ Worked(j, {tmp.of})
    BY <2>2
  <2> QED  BY <1>12, <2>3, <2>5, <2>6, <2>7, Zenon
<1>14. ASSUME NEW j \in jobs, Unpacked(j) PROVE Awaited' /\ OwnChain'
  <2> DEFINE new == [j EXCEPT !.at = "clean"]
  <2>1. /\ new.stray = j.stray /\ new.for = j.for /\ new.src = j.src /\ new.holed = j.holed
        /\ new.at = "clean"
    BY DEF TargetShape, Chains
  <2>2. /\ jobs' = (jobs \ {j}) \union {new} /\ UNCHANGED <<pc, k, made>> /\ Worked(j, {j.src})
        /\ apps' = [apps EXCEPT ![j.src] = IF j.holed THEN @ ELSE j.tree]
    BY <1>14 DEF Unpacked, script
  <2>3. \A q \in Packages : q # j.src => apps'[q] = apps[q]  BY <2>2 DEF TargetShape
  <2>4. ~j.holed => apps'[j.src] = j.tree  BY <2>2 DEF TargetShape, Chains
  <2>5. j.stray = 0 => j.for = ipk /\ j.src = ipk /\ (j.holed => ipk \in touched) /\ j.tree = made[ipk]
    BY <1>14 DEF OwnChain, Unpacked
  <2>6. j.stray = 0 => /\ new.for = ipk /\ new.src = ipk /\ (new.holed => ipk \in touched)
                       /\ new.at = "tar" => new.tree = made[ipk]
                       /\ new.at = "clean" => ipk \in touched \/ apps'[ipk] = made[ipk]
    BY <2>1, <2>4, <2>5
  <2>7. new.stray = j.stray  BY <2>1
  <2> HIDE DEF new
  <2>8. jobs' = (jobs \ {j}) \union {new} /\ UNCHANGED <<pc, k, made>> /\ Worked(j, {j.src})
    BY <2>2
  <2> QED  BY <1>12, <2>3, <2>6, <2>7, <2>8, Zenon
<1>15. ASSUME NEW j \in jobs, NEW good \in BOOLEAN, Ends(j, good), UNCHANGED <<apps, touched>>
       PROVE  Awaited' /\ OwnChain'
  <2>1. jobs' = jobs \ {j}  BY <1>15, EndsIs
  <2>2. CASE j.stray = 0
    <3>1. pc' # "wait"  BY <1>5, <1>15, <2>2, EndsIs
    <3>2. \A i \in jobs' : i.stray # 0  BY <2>1, <2>2 DEF Awaited
    <3> QED  BY <1>1, <3>1, <3>2 DEF Awaited
  <2>3. CASE j.stray # 0
    <3>1. UNCHANGED <<pc, k, made>>  BY <1>15, <2>3, EndsIs DEF script
    <3>2. Awaited'  BY <2>1, <2>3, <3>1 DEF Awaited
    <3>3. ipk' = ipk  BY <3>1 DEF ipk
    <3> QED  BY <1>15, <2>1, <3>1, <3>2, <3>3 DEF OwnChain
  <2> QED  BY <2>2, <2>3
<1>16. ASSUME NEW j \in jobs, NoArchive(j) \/ UnpackFails(j) \/ RemoveArchive(j) \/ Killed(j)
       PROVE  Awaited' /\ OwnChain'
  BY <1>15, <1>16 DEF NoArchive, UnpackFails, RemoveArchive, Killed
<1>17. CASE UNCHANGED vars  BY <1>4, <1>17 DEF vars, target
<1> QED  BY <1>6, <1>7, <1>8, <1>9, <1>10, <1>11, <1>13, <1>14, <1>16, <1>17
         DEF Next, ScriptStep, ChainStep

\* No line is printed ahead of the loop.
LEMMA AheadStep == ASSUME IInv, [Next]_vars PROVE Ahead'
<1> USE DEF IInv
<1> DEFINE Leaves == /\ pc \in Looping /\ Advance
                     /\ \E line : report' = [report EXCEPT ![ipk] = line]
<1>1. CASE Leaves \/ PackFails
  <2>1. k \in DOMAIN IPKS /\ (pc' = "df" => k' = k + 1) /\ pc' \in {"df", "restart"}
    BY <1>1, AdvanceIs DEF ScriptShape, PackFails
  <2>2. ASSUME NEW n \in DOMAIN IPKS, n >= k', pc' \in Looping PROVE report'[IPKS[n]] = ""
    <3>1. k' = k + 1  BY <2>1, <2>2 DEF Looping
    <3>2. n >= k /\ n # k  BY <2>1, <2>2, <3>1, Listed
    <3>3. report[IPKS[n]] = "" /\ IPKS[n] # ipk /\ IPKS[n] \in Packages
      BY <1>1, <2>1, <3>2, Listed DEF Ahead, ipk, PackFails, Looping, Points
    <3> QED  BY <1>1, <3>3 DEF ScriptShape, PackFails
  <2> QED  BY <2>2 DEF Ahead
<1>2. CASE UNCHANGED <<k, report>> /\ (pc \in Looping \/ pc' \notin Looping)  BY <1>2 DEF Ahead
<1>3. CASE UNCHANGED script  BY <1>3 DEF Ahead, script
<1>4. CASE ReadFree \/ Pack \/ PushBegins \/ PushEnds \/ StartChain \/ Restart
  BY <1>2, <1>4 DEF ReadFree, Pack, PushBegins, PushEnds, StartChain, Restart, Looping, Points
<1>5. CASE Skip \/ Unusable \/ TransferFails \/ LoseChain
  BY <1>1, <1>5 DEF Skip, Unusable, TransferFails, LoseChain, Says, Looping, Points
<1>6. CASE Rerun
  <2>1. report' = [p \in Packages |-> ""]  BY <1>6 DEF Rerun
  <2> QED  BY <2>1, Listed DEF Ahead
<1>7. ASSUME NEW j \in jobs, ChainStep(j) \/ Killed(j) PROVE Ahead'
  <2>1. ASSUME NEW good \in BOOLEAN, Ends(j, good) PROVE Ahead'
    <3>1. CASE j.stray = 0
      <4>1. pc = "wait" /\ Advance /\ \E line : report' = [report EXCEPT ![ipk] = line]
        BY <2>1, <3>1, EndsIs
      <4> QED  BY <1>1, <4>1 DEF Looping, Points
    <3>2. CASE j.stray # 0  BY <1>3, <2>1, <3>2, EndsIs
    <3> QED  BY <3>1, <3>2
  <2>2. CASE RemoveOld(j) \/ OpenArchive(j) \/ Unpacked(j)
    BY <1>3, <2>2 DEF RemoveOld, OpenArchive, Unpacked
  <2>3. CASE NoArchive(j) \/ UnpackFails(j) \/ RemoveArchive(j) \/ Killed(j)
    BY <2>1, <2>3 DEF NoArchive, UnpackFails, RemoveArchive, Killed
  <2> QED  BY <1>7, <2>2, <2>3 DEF ChainStep
<1>8. CASE UNCHANGED vars  BY <1>3, <1>8 DEF vars
<1> QED  BY <1>1, <1>4, <1>5, <1>6, <1>7, <1>8 DEF Next, ScriptStep

\* The archive in its place is the script's own.
LEMMA ArchiveStep == ASSUME IInv, [Next]_vars PROVE OwnArchive'
<1> USE DEF IInv
<1>1. CASE pc' \notin {"pushing", "remote", "wait"}  BY <1>1 DEF OwnArchive
<1>2. Advance => pc' \notin {"pushing", "remote", "wait"}  BY AdvanceIs DEF ScriptShape
<1>3. CASE ReadFree \/ Pack \/ Restart \/ Rerun
  BY <1>1, <1>3 DEF ReadFree, Pack, Restart, Rerun
<1>4. CASE Skip \/ Unusable \/ PackFails \/ TransferFails \/ LoseChain
  BY <1>1, <1>2, <1>4 DEF Skip, Unusable, PackFails, TransferFails, LoseChain
<1>5. CASE PushBegins  BY <1>5 DEF PushBegins, OwnArchive, Archive, ipk
<1>6. CASE PushEnds  BY <1>6 DEF PushEnds, OwnArchive, Archive, ipk
<1>7. CASE StartChain  BY <1>7 DEF StartChain, OwnArchive, ipk
<1>8. ASSUME tmp' = tmp \/ tmp' = NoFile, UNCHANGED script PROVE OwnArchive'
  BY <1>8 DEF OwnArchive, script, ipk
<1>9. ASSUME NEW j \in jobs, ChainStep(j) \/ Killed(j) PROVE OwnArchive'
  <2>1. CASE RemoveOld(j) \/ OpenArchive(j) \/ Unpacked(j)
    BY <1>8, <2>1 DEF RemoveOld, OpenArchive, Unpacked
  <2>2. CASE NoArchive(j) \/ UnpackFails(j) \/ RemoveArchive(j) \/ Killed(j)
    <3>1. (tmp' = tmp \/ tmp' = NoFile) /\ \E good \in BOOLEAN : Ends(j, good)
      BY <2>2 DEF NoArchive, UnpackFails, RemoveArchive, Killed
    <3>2. (j.stray = 0 => Advance) /\ (j.stray # 0 => UNCHANGED script)  BY <3>1, EndsIs
    <3> QED  BY <1>1, <1>2, <1>8, <3>1, <3>2
  <2> QED  BY <1>9, <2>1, <2>2 DEF ChainStep
<1>10. CASE UNCHANGED vars  BY <1>8, <1>10 DEF vars, target
<1> QED  BY <1>3, <1>4, <1>5, <1>6, <1>7, <1>9, <1>10 DEF Next, ScriptStep

\* What is reported OK stays as it was packed unless a stray gets at it.
LEMMA OkStep == ASSUME IInv, [Next]_vars PROVE OkIsAsPacked'
<1> USE DEF IInv
<1>1. ipk \in Packages  BY Listed DEF ScriptShape, ipk
<1>2. pc \in Looping => report[ipk] = ""
  <2>1. k \in DOMAIN IPKS  BY DEF ScriptShape
  <2>2. k >= k  BY <2>1, Listed
  <2> QED  BY <2>1, <2>2 DEF Ahead, ipk
<1>3. CASE UNCHANGED <<report, apps, made>> /\ touched \subseteq touched'  BY <1>3 DEF OkIsAsPacked
<1>14. CASE Pack
  <2>1. report[ipk] = ""  BY <1>2, <1>14 DEF Pack, Looping, Points
  <2>2. \A p \in Packages : p # ipk => made'[p] = made[p]  BY <1>14 DEF Pack, ScriptShape
  <2>3. UNCHANGED <<report, apps, touched>>  BY <1>14 DEF Pack, target
  <2> QED  BY <2>1, <2>2, <2>3 DEF OkIsAsPacked
<1>4. CASE ReadFree \/ PackFails \/ PushBegins \/ StartChain \/ Restart \/ UNCHANGED vars
  BY <1>3, <1>4 DEF ReadFree, PackFails, PushBegins, StartChain, Restart, target, vars, script
<1>5. ASSUME UNCHANGED <<apps, made>>, touched \subseteq touched', Says("SKIP") \/ Says("FAIL") PROVE OkIsAsPacked'
  <2>1. \A p \in Packages : report'[p] = "OK" => report[p] = "OK"
    BY <1>1, <1>5 DEF Says, ScriptShape
  <2> QED  BY <1>5, <2>1 DEF OkIsAsPacked
<1>6. CASE Skip \/ Unusable \/ TransferFails \/ LoseChain
  BY <1>5, <1>6 DEF Skip, Unusable, TransferFails, LoseChain, target
<1>7. CASE PushEnds
  <2>1. report[ipk] = "" /\ touched' = touched \ {ipk} /\ UNCHANGED <<report, apps, made>>
    BY <1>2, <1>7 DEF PushEnds, Looping, Points
  <2> QED  BY <2>1 DEF OkIsAsPacked
<1>8. CASE Rerun  BY <1>8 DEF Rerun, OkIsAsPacked
<1>9. ASSUME NEW j \in jobs, NEW p \in Packages, Worked(j, {p}), UNCHANGED <<report, made>>,
             j.stray = 0 => p = ipk, \A q \in Packages : q # p => apps'[q] = apps[q]
      PROVE  OkIsAsPacked'
  <2>1. CASE j.stray = 0
    <3>1. report[p] = "" /\ touched' = touched
      BY <1>2, <1>9, <2>1 DEF Worked, Awaited, Looping, Points
    <3> QED  BY <1>9, <3>1 DEF OkIsAsPacked
  <2>2. CASE j.stray # 0
    <3>1. p \in touched' /\ touched \subseteq touched'  BY <1>9, <2>2 DEF Worked
    <3> QED  BY <1>9, <3>1 DEF OkIsAsPacked
  <2> QED  BY <2>1, <2>2
<1>10. ASSUME NEW j \in jobs, RemoveOld(j) \/ OpenArchive(j) \/ Unpacked(j) PROVE OkIsAsPacked'
  <2>1. j.for \in Packages /\ j.src \in Packages  BY DEF TargetShape, Chains
  <2>2. UNCHANGED <<report, made>>  BY <1>10 DEF RemoveOld, OpenArchive, Unpacked, script
  <2>3. j.stray = 0 => j.for = ipk /\ j.src = ipk  BY DEF OwnChain
  <2>4. CASE RemoveOld(j)
    <3>1. \A q \in Packages : q # j.for => apps'[q] = apps[q]  BY <2>4 DEF RemoveOld, TargetShape
    <3>2. Worked(j, {j.for})  BY <2>4 DEF RemoveOld
    <3> QED  BY <1>9, <2>1, <2>2, <2>3, <3>1, <3>2
  <2>5. CASE OpenArchive(j)
    <3>1. tmp # NoFile /\ tmp.of \in Packages  BY <2>5 DEF OpenArchive, TargetShape, Archives
    <3>2. \A q \in Packages : q # tmp.of => apps'[q] = apps[q]  BY <2>5 DEF OpenArchive, TargetShape
    <3>3. Worked(j, {tmp.of})  BY <2>5 DEF OpenArchive
    <3>4. j.stray = 0 => tmp.of = ipk  BY <3>1 DEF OwnArchive, Awaited
    <3> QED  BY <1>9, <2>2, <3>1, <3>2, <3>3, <3>4
  <2>6. CASE Unpacked(j)
    <3>1. \A q \in Packages : q # j.src => apps'[q] = apps[q]  BY <2>6 DEF Unpacked, TargetShape
    <3>2. Worked(j, {j.src})  BY <2>6 DEF Unpacked
    <3> QED  BY <1>9, <2>1, <2>2, <2>3, <3>1, <3>2
  <2> QED  BY <1>10, <2>4, <2>5, <2>6
<1>11. ASSUME NEW j \in jobs, Ends(j, FALSE), UNCHANGED <<apps, touched>> PROVE OkIsAsPacked'
  <2>1. CASE j.stray = 0  BY <1>5, <1>11, <2>1, EndsIs DEF Says
  <2>2. CASE j.stray # 0  BY <1>3, <1>11, <2>2, EndsIs DEF script
  <2> QED  BY <2>1, <2>2
<1>12. ASSUME NEW j \in jobs, NoArchive(j) \/ UnpackFails(j) \/ Killed(j) PROVE OkIsAsPacked'
  BY <1>11, <1>12 DEF NoArchive, UnpackFails, Killed
<1>13. ASSUME NEW j \in jobs, RemoveArchive(j) PROVE OkIsAsPacked'
  <2>1. Ends(j, TRUE) /\ j.at = "clean" /\ UNCHANGED <<apps, touched>>  BY <1>13 DEF RemoveArchive
  <2>2. CASE j.stray = 0
    <3>1. ipk \in touched \/ apps[ipk] = made[ipk]  BY <2>1, <2>2 DEF OwnChain
    <3>2. \A p \in Packages : p # ipk => report'[p] = report[p]  BY <2>1, <2>2, EndsIs DEF ScriptShape
    <3> QED  BY <2>1, <2>2, <3>1, <3>2, EndsIs DEF OkIsAsPacked
  <2>3. CASE j.stray # 0  BY <1>3, <2>1, <2>3, EndsIs DEF script
  <2> QED  BY <2>2, <2>3
<1> QED  BY <1>4, <1>6, <1>7, <1>8, <1>10, <1>12, <1>13, <1>14 DEF Next, ScriptStep, ChainStep

\* A first run on a fresh target.
LEMMA InitIInv == Init => IInv
<1> SUFFICES ASSUME Init PROVE IInv  OBVIOUS
<1>1. ScriptShape
  <2>1. Disk \in Nat /\ MaxLost \in Nat  BY InstallAssumption
  <2>2. 1 \in DOMAIN IPKS  BY Listed
  <2>3. /\ pc = "df" /\ k = 1 /\ free = NoReading /\ lost = 0 /\ blind = FALSE
        /\ report = [p \in Packages |-> ""] /\ made = [p \in Packages |-> "none"]
    BY Zenon DEF Init
  <2>4. report \in [Packages -> {"", "OK", "FAIL", "SKIP"}] /\ made \in [Packages -> Trees]
    BY <2>3 DEF Trees
  <2>5. 0 \in 0..MaxLost  BY <2>1
  <2> QED  BY <2>2, <2>3, <2>4, <2>5 DEF ScriptShape, Points
<1>2. TargetShape  BY DEF Init, TargetShape, States, Trees, Archives
<1>3. Awaited /\ OwnChain /\ OwnArchive  BY DEF Init, Awaited, OwnChain, OwnArchive
<1>4. Ahead  BY Listed DEF Init, Ahead
<1>5. OkIsAsPacked  BY DEF Init, OkIsAsPacked
<1> QED  BY <1>1, <1>2, <1>3, <1>4, <1>5 DEF IInv

\* The inductive invariant holds of every reachable state.
THEOREM Invariance == Spec => []IInv
<1>1. IInv /\ [Next]_vars => IInv'
  <2> SUFFICES ASSUME IInv, [Next]_vars PROVE IInv'  OBVIOUS
  <2>1. ScriptShape' /\ TargetShape'  BY ScriptShapeStep, TargetShapeStep
  <2>2. Awaited' /\ OwnChain' /\ Ahead' /\ OwnArchive' /\ OkIsAsPacked'
    BY ChainsStep, AheadStep, ArchiveStep, OkStep
  <2> QED  BY <2>1, <2>2 DEF IInv
<1> QED  BY <1>1, InitIInv, PTL DEF Spec

\* The types of the state, and that there is one chain the script waits for exactly
\* while it does (tools/install-games.sh:145-146).
THEOREM TypeCorrect == Spec => []TypeOK
<1>1. IInv => TypeOK
  <2> SUFFICES ASSUME IInv PROVE TypeOK  OBVIOUS
  <2> DEFINE own == {j \in jobs : j.stray = 0}
  <2>1. Cardinality(own) = IF pc = "wait" THEN 1 ELSE 0
    <3>1. CASE pc = "wait"
      <4>1. PICK j \in jobs : j.stray = 0  BY <3>1 DEF IInv, Awaited
      <4>2. own = {j}  BY <4>1 DEF IInv, Awaited
      <4> QED  BY <3>1, <4>2, FS_Singleton
    <3>2. CASE pc # "wait"
      <4>1. own = {}  BY <3>2 DEF IInv, Awaited
      <4> QED  BY <3>2, <4>1, FS_EmptySet
    <3> QED  BY <3>1, <3>2
  <2> HIDE DEF own
  <2>2. \A j \in jobs : /\ j.at \in {"rm", "open", "tar", "clean"}
                        /\ {j.for, j.src} \subseteq Packages /\ j.tree \in Trees
                        /\ j.stray \in 0..MaxLost
    BY DEF IInv, TargetShape, Chains
  <2>3. tmp = NoFile \/ tmp \in [of : Packages, whole : BOOLEAN, tree : Trees]  BY DEF IInv, TargetShape, Archives
  <2>4. apps \in [Packages -> Trees \union {"part"}]  BY DEF IInv, TargetShape, States
  <2>5. sam \subseteq Packages /\ touched \subseteq Packages  BY DEF IInv, TargetShape
  <2>6. ScriptShape  BY DEF IInv
  <2> QED  BY <2>1, <2>2, <2>3, <2>4, <2>5, <2>6 DEF TypeOK, ScriptShape, Points, own
<1> QED  BY <1>1, Invariance, PTL

\* What is reported OK is there as it was packed, unless a stray has worked on it since
\* (tools/install-games.sh:145-147).
THEOREM OkCorrect == Spec => []OkIsAsPacked
<1>1. IInv => OkIsAsPacked  BY DEF IInv
<1> QED  BY <1>1, Invariance, PTL

-----------------------------------------------------------------------------
(* The reserve.                                                            *)

\* Without the directory of p, there is room for all that was estimated for p.
Kept(p) == Disk - Estimated([apps EXCEPT ![p] = "none"]) >= MinFree + Need(p)

\* What the script knows of the target while every reading of it was good: a reading
\* holds until the package is packed, the room it promised is there from then on, and
\* at most one chain runs, which uses that room and nothing else.
Unhindered == pc \in {"check", "push", "pushing", "remote"} => jobs = {}
Measured   == pc = "check" => free = Max({0, Free})
RoomLeft   == pc \in {"push", "pushing", "remote"} => Kept(ipk)
LoneChain  ==
  \A j \in jobs : jobs = {j} /\ Kept(j.for) /\ j.src = j.for /\ (tmp = NoFile \/ tmp.of = j.for)

Reserved ==
  ~blind => ReserveKept /\ Unhindered /\ Measured /\ RoomLeft /\ LoneChain

\* Whatever the state of the one directory, the reserve is there.
LEMMA RoomIsReserve ==
  ASSUME TargetShape, NEW p \in Packages, Kept(p),
         apps' \in [Packages -> States], \A q \in Packages : q # p => apps'[q] = apps[q]
  PROVE  Kept(p)' /\ Disk - Estimated(apps') >= MinFree
<1> DEFINE a == [apps EXCEPT ![p] = "none"]
           c == apps'[p]
<1>1. a \in [Packages -> States] /\ a[p] = "none" /\ c \in States  BY DEF TargetShape, States, Trees
<1>2. apps' = [a EXCEPT ![p] = c]  BY DEF TargetShape
<1>3. [apps' EXCEPT ![p] = "none"] = a  BY DEF TargetShape
<1>4. Disk - Estimated(a) >= MinFree + Need(p)  BY DEF Kept
<1> HIDE DEF a, c
<1>5. /\ Estimated(a) \in Nat /\ Estimated(apps') \in Nat
      /\ Estimated(apps') - Estimated(a) = Bounded(p, c) - Bounded(p, "none")
  <2>1. /\ Estimated([a EXCEPT ![p] = c]) \in Nat /\ Estimated(a) \in Nat
        /\ Estimated([a EXCEPT ![p] = c]) - Estimated(a) = Bounded(p, c) - Bounded(p, a[p])
    BY <1>1, EstimatedChange
  <2> QED  BY <1>1, <1>2, <2>1, Zenon
<1>6. Bounded(p, "none") = 0 /\ Bounded(p, c) \in 0..Need(p) /\ Need(p) \in Nat  BY <1>1, WeightType
<1>7. Disk \in Nat /\ MinFree \in Nat  BY InstallAssumption
<1>8. Disk - Estimated(apps') >= MinFree  BY <1>4, <1>5, <1>6, <1>7
<1> QED  BY <1>3, <1>4, <1>8 DEF Kept

\* A reading that passes the check promises the room.
LEMMA CheckPromises ==
  ASSUME TargetShape, NEW p \in Packages, free = Max({0, Free}),
         ~(free # NoReading /\ free < MinFree + Need(p))
  PROVE  Kept(p)
<1> DEFINE a == [apps EXCEPT ![p] = "none"]
<1>1. apps \in [Packages -> States] /\ "none" \in States /\ apps[p] \in States
  BY DEF TargetShape, States, Trees
<1>2. /\ Estimated(a) \in Nat /\ Estimated(apps) \in Nat
      /\ Estimated(a) - Estimated(apps) = Bounded(p, "none") - Bounded(p, apps[p])
  BY <1>1, EstimatedChange
<1> HIDE DEF a
<1>3. /\ Bounded(p, "none") = 0 /\ Bounded(p, apps[p]) \in 0..Need(p)
      /\ Need(p) \in Nat /\ Need(p) > 0
  BY <1>1, WeightType
<1>4. Disk \in Nat /\ MinFree \in Nat  BY InstallAssumption
<1>5. Free \in Int /\ Free <= Disk - Taken(apps) /\ free = (IF Free > 0 THEN Free ELSE 0)
  BY FreeIs
<1> HIDE DEF Free
<1>6. free >= MinFree + Need(p)  BY <1>3, <1>4, <1>5 DEF NoReading
<1>7. Free >= MinFree + Need(p)  BY <1>3, <1>4, <1>5, <1>6
<1>8. Taken(apps) \in Nat /\ Estimated(apps) <= Taken(apps)  BY <1>1, WeightsType
<1>9. Disk - Estimated(a) >= MinFree + Need(p)  BY <1>2, <1>3, <1>4, <1>5, <1>7, <1>8
<1> QED  BY <1>9 DEF Kept, a

\* Every step keeps the reserve, and the promise it rests on.
LEMMA ReservedStep == ASSUME IInv, Reserved, [Next]_vars PROVE Reserved'
<1> USE DEF IInv
<1> SUFFICES ASSUME ~blind' PROVE (ReserveKept /\ Unhindered /\ Measured /\ RoomLeft /\ LoneChain)'
  BY DEF Reserved
<1>1. ipk \in Packages /\ TargetShape /\ TargetShape'
  BY Listed, TargetShapeStep DEF ScriptShape, ipk
<1>2. ~blind
  <2>1. CASE ReadFree  BY <2>1 DEF ReadFree
  <2>2. CASE Rerun \/ UNCHANGED vars  BY <2>2 DEF Rerun, vars, script
  <2>3. CASE \/ Skip \/ Unusable \/ Pack \/ PackFails \/ PushBegins \/ PushEnds
             \/ TransferFails \/ StartChain \/ LoseChain \/ Restart
    BY <2>3 DEF Skip, Unusable, Pack, PackFails, PushBegins, PushEnds, TransferFails, StartChain,
       LoseChain, Restart
  <2>4. ASSUME NEW j \in jobs, ChainStep(j) \/ Killed(j) PROVE UNCHANGED blind
    <3>1. CASE RemoveOld(j) \/ OpenArchive(j) \/ Unpacked(j)
      BY <3>1 DEF RemoveOld, OpenArchive, Unpacked, script
    <3>2. CASE NoArchive(j) \/ UnpackFails(j) \/ RemoveArchive(j) \/ Killed(j)
      <4>1. \E good \in BOOLEAN : Ends(j, good)
        BY <3>2 DEF NoArchive, UnpackFails, RemoveArchive, Killed
      <4> QED  BY <4>1, EndsIs DEF script
    <3> QED  BY <2>4, <3>1, <3>2 DEF ChainStep
  <2> QED  BY <2>1, <2>2, <2>3, <2>4 DEF Next, ScriptStep
<1>3. ReserveKept /\ Unhindered /\ Measured /\ RoomLeft /\ LoneChain  BY <1>2 DEF Reserved
<1>4. UNCHANGED apps => ReserveKept'  BY <1>2, <1>3 DEF ReserveKept
<1>5. UNCHANGED apps => (\A p \in Packages : Kept(p) => Kept(p)')  BY DEF Kept
<1>6. \A j \in jobs : j.for \in Packages /\ j.src \in Packages  BY DEF TargetShape, Chains
<1>7. UNCHANGED <<apps, jobs, tmp>> => LoneChain'  BY <1>3, <1>5, <1>6 DEF LoneChain
<1>8. ASSUME UNCHANGED <<apps, jobs, tmp>>, pc' \in {"df", "wait", "restart", "done"}
      PROVE  (ReserveKept /\ Unhindered /\ Measured /\ RoomLeft /\ LoneChain)'
  BY <1>4, <1>7, <1>8 DEF Unhindered, Measured, RoomLeft
<1>9. Advance => pc' \in {"df", "wait", "restart", "done"}  BY AdvanceIs DEF ScriptShape
<1>10. CASE ReadFree
  <2>1. jobs = {} /\ free' = Max({0, Free}) /\ UNCHANGED <<apps, jobs, tmp>> /\ pc' = "check"
    BY <1>10 DEF ReadFree, target
  <2>2. Free' = Free  BY <2>1 DEF Free
  <2>3. Measured' /\ Unhindered' /\ RoomLeft'  BY <2>1, <2>2 DEF Measured, Unhindered, RoomLeft
  <2> QED  BY <1>4, <1>7, <2>1, <2>3
<1>11. CASE Skip \/ Unusable \/ PackFails \/ TransferFails
  BY <1>8, <1>9, <1>11 DEF Skip, Unusable, PackFails, TransferFails, target
<1>12. CASE Pack
  <2>1. /\ pc = "check" /\ ~TooFull /\ pc' = "push" /\ UNCHANGED <<k, free, apps, jobs, tmp>>
    BY <1>12 DEF Pack, target
  <2>2. Kept(ipk)  BY <1>1, <1>3, <2>1, CheckPromises DEF Measured, TooFull
  <2>3. Kept(ipk)'  BY <2>1, <2>2 DEF Kept, ipk
  <2>4. Unhindered' /\ Measured' /\ RoomLeft'  BY <1>3, <2>1, <2>3 DEF Unhindered, Measured, RoomLeft
  <2> QED  BY <1>4, <1>7, <2>1, <2>4
<1>13. CASE PushBegins \/ PushEnds
  <2>1. /\ pc \in {"push", "pushing"} /\ pc' \in {"pushing", "remote"} /\ UNCHANGED <<k, apps>>
    BY <1>13 DEF PushBegins, PushEnds
  <2>2. jobs = {} /\ jobs' = {}
    <3>1. jobs = {}  BY <1>3, <2>1 DEF Unhindered
    <3> QED  BY <1>13, <3>1 DEF PushBegins, PushEnds
  <2>3. Kept(ipk)'  BY <1>3, <2>1 DEF RoomLeft, Kept, ipk
  <2>4. Unhindered' /\ Measured' /\ RoomLeft' /\ LoneChain'
    BY <2>1, <2>2, <2>3 DEF Unhindered, Measured, RoomLeft, LoneChain
  <2> QED  BY <1>4, <2>1, <2>4
<1>14. CASE StartChain
  <2>1. /\ pc = "remote" /\ pc' = "wait" /\ jobs' = jobs \union {Job(ipk)}
        /\ UNCHANGED <<k, apps, tmp>>
    BY <1>14 DEF StartChain
  <2>2. Job(ipk).for = ipk /\ Job(ipk).src = ipk  BY DEF Job
  <2>3. jobs' = {Job(ipk)}  BY <1>3, <2>1 DEF Unhindered
  <2>4. Kept(ipk)  BY <1>3, <2>1 DEF RoomLeft
  <2>5. tmp = NoFile \/ tmp.of = ipk  BY <2>1 DEF OwnArchive
  <2>6. LoneChain'  BY <2>1, <2>2, <2>3, <2>4, <2>5 DEF LoneChain, Kept
  <2>7. Unhindered' /\ Measured' /\ RoomLeft'  BY <2>1 DEF Unhindered, Measured, RoomLeft
  <2> QED  BY <1>4, <2>1, <2>6, <2>7
<1>15. CASE LoseChain
  <2>1. /\ UNCHANGED <<apps, tmp>> /\ Advance
        /\ jobs' = {IF j.stray = 0 THEN [j EXCEPT !.stray = lost'] ELSE j : j \in jobs}
    BY <1>15 DEF LoseChain
  <2>2. ASSUME NEW i \in jobs'
        PROVE  jobs' = {i} /\ Kept(i.for)' /\ i.src = i.for /\ (tmp' = NoFile \/ tmp'.of = i.for)
    <3>1. PICK j \in jobs : i = IF j.stray = 0 THEN [j EXCEPT !.stray = lost'] ELSE j  BY <2>1
    <3>2. i.for = j.for /\ i.src = j.src  BY <3>1 DEF TargetShape, Chains
    <3>3. jobs = {j} /\ Kept(j.for) /\ j.src = j.for /\ (tmp = NoFile \/ tmp.of = j.for)
      BY <1>3 DEF LoneChain
    <3>4. jobs' = {i}  BY <2>1, <3>1, <3>3
    <3> QED  BY <1>5, <1>6, <2>1, <3>2, <3>3, <3>4
  <2>3. LoneChain'  BY <2>2 DEF LoneChain
  <2>4. Unhindered' /\ Measured' /\ RoomLeft'  BY <1>9, <2>1 DEF Unhindered, Measured, RoomLeft
  <2> QED  BY <1>4, <2>1, <2>3, <2>4
<1>16. CASE Restart \/ Rerun
  BY <1>8, <1>16 DEF Restart, Rerun, target
<1>17. ASSUME NEW j \in jobs, ChainStep(j) \/ Killed(j)
       PROVE  (ReserveKept /\ Unhindered /\ Measured /\ RoomLeft /\ LoneChain)'
  <2>1. /\ jobs = {j} /\ Kept(j.for) /\ j.src = j.for /\ (tmp = NoFile \/ tmp.of = j.for)
        /\ j.for \in Packages /\ j \in Chains
    BY <1>3, <1>6 DEF LoneChain, TargetShape
  <2>2. pc \notin {"check", "push", "pushing", "remote"}  BY <1>3, <2>1 DEF Unhindered
  <2>3. ASSUME NEW new, jobs' = {new}, new.for = j.for, new.src = j.for, UNCHANGED <<script, tmp>>,
               \A q \in Packages : q # j.for => apps'[q] = apps[q]
        PROVE  (ReserveKept /\ Unhindered /\ Measured /\ RoomLeft /\ LoneChain)'
    <3>1. apps' \in [Packages -> States]  BY <1>1 DEF TargetShape
    <3>2. Kept(j.for)' /\ Disk - Estimated(apps') >= MinFree  BY <2>1, <2>3, <3>1, <1>1, RoomIsReserve
    <3>3. LoneChain'  BY <2>1, <2>3, <3>2 DEF LoneChain
    <3>4. UNCHANGED pc  BY <2>3 DEF script
    <3>5. Unhindered' /\ Measured' /\ RoomLeft'  BY <2>2, <3>4 DEF Unhindered, Measured, RoomLeft
    <3> QED  BY <3>2, <3>3, <3>5 DEF ReserveKept
  <2>4. CASE RemoveOld(j)
    <3> DEFINE new == [j EXCEPT !.at = "open"]
    <3>1. jobs' = {new}  BY <2>1, <2>4 DEF RemoveOld
    <3>2. new.for = j.for /\ new.src = j.for  BY <2>1 DEF Chains
    <3>3. UNCHANGED <<script, tmp>> /\ \A q \in Packages : q # j.for => apps'[q] = apps[q]
      BY <2>4 DEF RemoveOld, TargetShape
    <3> HIDE DEF new
    <3> QED  BY <2>3, <3>1, <3>2, <3>3
  <2>5. CASE OpenArchive(j)
    <3> DEFINE new == [j EXCEPT !.at = "tar", !.src = tmp.of, !.tree = tmp.tree, !.sound = tmp.whole]
    <3>1. jobs' = {new} /\ tmp.of = j.for  BY <2>1, <2>5 DEF OpenArchive
    <3>2. new.for = j.for /\ new.src = j.for  BY <2>1, <3>1 DEF Chains
    <3>3. UNCHANGED <<script, tmp>> /\ \A q \in Packages : q # j.for => apps'[q] = apps[q]
      BY <2>5, <3>1 DEF OpenArchive, TargetShape
    <3> HIDE DEF new
    <3> QED  BY <2>3, <3>1, <3>2, <3>3
  <2>6. CASE Unpacked(j)
    <3> DEFINE new == [j EXCEPT !.at = "clean"]
    <3>1. jobs' = {new}  BY <2>1, <2>6 DEF Unpacked
    <3>2. new.for = j.for /\ new.src = j.for  BY <2>1 DEF Chains
    <3>3. UNCHANGED <<script, tmp>> /\ \A q \in Packages : q # j.for => apps'[q] = apps[q]
      BY <2>1, <2>6 DEF Unpacked, TargetShape
    <3> HIDE DEF new
    <3> QED  BY <2>3, <3>1, <3>2, <3>3
  <2>7. CASE NoArchive(j) \/ UnpackFails(j) \/ RemoveArchive(j) \/ Killed(j)
    <3>1. UNCHANGED apps /\ \E good \in BOOLEAN : Ends(j, good)
      BY <2>7 DEF NoArchive, UnpackFails, RemoveArchive, Killed
    <3>2. jobs' = {} /\ (Advance \/ UNCHANGED pc)  BY <2>1, <3>1, EndsIs DEF script
    <3>3. pc' \notin {"check", "push", "pushing", "remote"}  BY <1>9, <2>2, <3>2
    <3> QED  BY <1>4, <3>1, <3>2, <3>3 DEF Unhindered, Measured, RoomLeft, LoneChain
  <2> QED  BY <1>17, <2>4, <2>5, <2>6, <2>7 DEF ChainStep
<1>18. CASE UNCHANGED vars
  <2>1. UNCHANGED <<pc, k, free, apps, jobs, tmp>>  BY <1>18 DEF vars, script, target
  <2>2. Unhindered' /\ Measured' /\ RoomLeft'
    BY <1>3, <2>1 DEF Unhindered, Measured, RoomLeft, Kept, Free, ipk
  <2> QED  BY <1>4, <1>7, <2>1, <2>2
<1> QED  BY <1>10, <1>11, <1>12, <1>13, <1>14, <1>15, <1>16, <1>17, <1>18 DEF Next, ScriptStep

\* As far as the estimates hold, the applications leave the reserve free
\* (tools/install-games.sh:27,95), whatever was left behind and however often the script is run again, on a target that had the
\* reserve, as long as each check has a reading that no stray outdates.
THEOREM ReserveCorrect == ASSUME MinFree <= Disk PROVE Spec => []ReserveKept
<1>1. Init => Reserved
  <2> SUFFICES ASSUME Init PROVE Reserved  OBVIOUS
  <2>1. apps = [p \in Packages |-> "none"] /\ jobs = {} /\ pc = "df"  BY Zenon DEF Init
  <2>2. Estimated(apps) = 0 /\ Disk \in Nat /\ MinFree \in Nat  BY <2>1, EstimatedNone, InstallAssumption
  <2>3. ReserveKept  BY <2>2 DEF ReserveKept
  <2> QED  BY <2>1, <2>3 DEF Reserved, Unhindered, Measured, RoomLeft, LoneChain
<1>2. IInv /\ Reserved /\ [Next]_vars => Reserved'  BY ReservedStep
<1>3. Reserved => ReserveKept  BY DEF Reserved, ReserveKept
<1> QED  BY <1>1, <1>2, <1>3, Invariance, PTL DEF Spec
=============================================================================
