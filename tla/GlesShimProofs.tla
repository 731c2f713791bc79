--------------------------- MODULE GlesShimProofs ---------------------------
(***************************************************************************)
(* Proofs about GlesShim, for every mode, drawable and rectangle.          *)
(***************************************************************************)
EXTENDS GlesShim, TLAPS

-----------------------------------------------------------------------------
(* Integer arithmetic: products keep an order, a cast to GLint truncates.  *)

\* A product with a positive factor keeps the order, and with a natural one does
\* not reverse it.
LEMMA ProductOrder ==
  ASSUME NEW a \in Int, NEW b \in Int, NEW k \in Nat
  PROVE  /\ k * a \in Int /\ k * b \in Int
         /\ a <= b => k * a <= k * b
         /\ k # 0 /\ k * a < k * b => a < b
OBVIOUS

\* Truncation of what is not negative: the whole part of the quotient.
LEMMA TruncIs ==
  ASSUME NEW n \in Nat, NEW d \in Nat \ {0}
  PROVE  /\ Trunc(n, d) \in Nat
         /\ d * Trunc(n, d) <= n /\ n < d * Trunc(n, d) + d
<1>1. Trunc(n, d) = n \div d
  BY DEF Trunc
<1>2. n \div d \in Nat /\ d * (n \div d) <= n /\ n < d * (n \div d) + d
  OBVIOUS
<1>. QED BY <1>1, <1>2

\* A whole part times the divisor is at most what was divided, so whole parts are
\* compared by comparing the multiples.
LEMMA WholePart ==
  ASSUME NEW n \in Nat, NEW d \in Nat \ {0}, NEW x \in Int
  PROVE  /\ d * x <= n => x <= Trunc(n, d)
         /\ n < d * x => Trunc(n, d) < x
<1>. DEFINE t == Trunc(n, d)
<1>1. t \in Nat /\ d * t <= n /\ n < d * t + d
  BY TruncIs
<1>. HIDE DEF t
<1>2. d * (t + 1) = d * t + d
  BY <1>1
<1>3. ASSUME d * x <= n PROVE x <= t
  <2>1. d * x \in Int /\ d * (t + 1) \in Int /\ d * x < d * (t + 1)
    BY <1>1, <1>2, <1>3
  <2>2. x < t + 1
    BY <1>1, <2>1, ProductOrder
  <2>. QED BY <1>1, <2>2
<1>4. ASSUME n < d * x PROVE t < x
  <2>1. d * t < d * x
    BY <1>1, <1>4
  <2>. QED BY <1>1, <2>1, ProductOrder
<1>. QED BY <1>3, <1>4 DEF t

-----------------------------------------------------------------------------
(* One axis of the mapping.                                                *)

\* The factor n / k of an axis does not make the game's extent exceed the drawable's.
AxisFits(size, extent, n, k) ==
  /\ size \in Nat /\ extent \in Nat /\ n \in Nat \ {0} /\ k \in Nat \ {0}
  /\ size * n <= extent * k

\* An edge inside the game's extent is not put left of the drawable, and where the
\* edge of a pane ends up is at most where a later edge is put.
LEMMA EdgePlaced ==
  ASSUME NEW size, NEW extent, NEW n, NEW k, AxisFits(size, extent, n, k),
         NEW p \in Nat, NEW l \in Nat
  PROVE  /\ Place(p, size, extent, <<n, k>>) \in Nat
         /\ Length(l, <<n, k>>) \in Nat
         /\ (2 * k) * (Place(p, size, extent, <<n, k>>) + Length(l, <<n, k>>))
              <= extent * k - size * n + 2 * p * n + 2 * l * n
<1>. DEFINE e == extent * k - size * n
            a == e + 2 * p * n
            P == Trunc(a, 2 * k)
            L == Trunc(l * n, k)
<1>1. <<n, k>>[1] = n /\ <<n, k>>[2] = k
  OBVIOUS
<1>2. Place(p, size, extent, <<n, k>>) = P /\ Length(l, <<n, k>>) = L
  BY <1>1 DEF Place, Length
<1>3. n \in Nat /\ k \in Nat \ {0} /\ 2 * k \in Nat \ {0}
      /\ size * n \in Nat /\ extent * k \in Nat /\ l * n \in Nat /\ p * n \in Nat
      /\ size * n <= extent * k
  BY DEF AxisFits
<1>4. 2 * p * n = 2 * (p * n) /\ 2 * l * n = 2 * (l * n) /\ e \in Nat /\ a \in Nat
  BY <1>3
<1>5. P \in Nat /\ (2 * k) * P <= a
  BY <1>3, <1>4, TruncIs
<1>6. L \in Nat /\ k * L <= l * n
  BY <1>3, TruncIs
<1>. HIDE DEF e, a, P, L
<1>7. (2 * k) * (P + L) = (2 * k) * P + 2 * (k * L)
  BY <1>3, <1>5, <1>6
<1>8. k * L \in Int /\ (2 * k) * P \in Int
  BY <1>3, <1>5, <1>6
<1>9. (2 * k) * (P + L) <= a + 2 * (l * n)
  BY <1>3, <1>4, <1>5, <1>6, <1>7, <1>8
<1>. QED BY <1>2, <1>4, <1>5, <1>6, <1>9 DEF a, e

\* A pane inside the game's extent ends inside the drawable.
LEMMA EdgeInside ==
  ASSUME NEW size, NEW extent, NEW n, NEW k, AxisFits(size, extent, n, k),
         NEW p \in Nat, NEW l \in Nat, p + l <= size
  PROVE  /\ Place(p, size, extent, <<n, k>>) >= 0
         /\ Place(p, size, extent, <<n, k>>) + Length(l, <<n, k>>) <= extent
<1>. DEFINE P == Place(p, size, extent, <<n, k>>)
            L == Length(l, <<n, k>>)
<1>1. P \in Nat /\ L \in Nat
      /\ (2 * k) * (P + L) <= extent * k - size * n + 2 * p * n + 2 * l * n
  BY EdgePlaced
<1>. HIDE DEF P, L
<1>2. /\ size \in Nat /\ extent \in Nat /\ n \in Nat \ {0} /\ k \in Nat \ {0}
      /\ size * n <= extent * k /\ size * n \in Nat /\ extent * k \in Nat
  BY DEF AxisFits
<1>3. n * (p + l) <= n * size
  BY <1>2, ProductOrder
<1>4. /\ 2 * p * n + 2 * l * n = 2 * (n * (p + l)) /\ n * size = size * n
      /\ (2 * k) * extent = 2 * (extent * k) /\ n * (p + l) \in Nat
      /\ 2 * p * n \in Nat /\ 2 * l * n \in Nat
  BY <1>2
<1>5. (2 * k) * (P + L) <= (2 * k) * extent
  BY <1>1, <1>2, <1>3, <1>4
<1>6. (2 * k) * (P + L) < (2 * k) * (extent + 1)
  BY <1>1, <1>2, <1>5
<1>7. P + L < extent + 1
  BY <1>1, <1>2, <1>6, ProductOrder
<1>. QED BY <1>1, <1>2, <1>7 DEF P, L

\* A pane that ends where the next begins, or before, still does on the drawable.
LEMMA EdgesApart ==
  ASSUME NEW size, NEW extent, NEW n, NEW k, AxisFits(size, extent, n, k),
         NEW p \in Nat, NEW l \in Nat, NEW q \in Nat, p + l <= q
  PROVE  Place(p, size, extent, <<n, k>>) + Length(l, <<n, k>>)
           <= Place(q, size, extent, <<n, k>>)
<1>. DEFINE P == Place(p, size, extent, <<n, k>>)
            L == Length(l, <<n, k>>)
            b == extent * k - size * n + 2 * q * n
<1>1. P \in Nat /\ L \in Nat
      /\ (2 * k) * (P + L) <= extent * k - size * n + 2 * p * n + 2 * l * n
  BY EdgePlaced
<1>2. /\ size \in Nat /\ extent \in Nat /\ n \in Nat \ {0} /\ k \in Nat \ {0}
      /\ size * n <= extent * k /\ size * n \in Nat /\ extent * k \in Nat
      /\ 2 * k \in Nat \ {0}
  BY DEF AxisFits
<1>3. n * (p + l) <= n * q
  BY <1>2, ProductOrder
<1>4. /\ 2 * p * n + 2 * l * n = 2 * (n * (p + l)) /\ 2 * q * n = 2 * (n * q)
      /\ n * (p + l) \in Nat /\ n * q \in Nat /\ 2 * p * n \in Nat /\ 2 * l * n \in Nat
  BY <1>2
<1>5. Place(q, size, extent, <<n, k>>) = Trunc(b, 2 * k)
  BY DEF Place
<1>6. b \in Nat
  BY <1>2, <1>4
<1>. HIDE DEF P, L
<1>7. (2 * k) * (P + L) <= b
  BY <1>1, <1>2, <1>3, <1>4
<1>. HIDE DEF b
<1>8. P + L \in Int
  BY <1>1
<1>9. P + L <= Trunc(b, 2 * k)
  BY <1>2, <1>6, <1>7, <1>8, WholePart
<1>. QED BY <1>5, <1>9 DEF P, L

-----------------------------------------------------------------------------
(* The mapping of a rectangle.                                             *)

\* The factors fit both axes: the one of the tighter axis fits the other too.
LEMMA FactorsFit ==
  ASSUME NEW m \in PositiveSizes, NEW d \in PositiveSizes
  PROVE  \E n1, k1, n2, k2 \in Nat \ {0} :
           /\ Factors(m, d) = << <<n1, k1>>, <<n2, k2>> >>
           /\ AxisFits(m.w, d.w, n1, k1) /\ AxisFits(m.h, d.h, n2, k2)
<1>1. /\ m.w \in Nat \ {0} /\ m.h \in Nat \ {0} /\ d.w \in Nat \ {0} /\ d.h \in Nat \ {0}
  BY DEF PositiveSizes
<1>2. AxisFits(m.w, d.w, d.w, m.w) /\ AxisFits(m.h, d.h, d.h, m.h)
  BY <1>1 DEF AxisFits
<1>3. CASE env.stretch
  <2>1. Factors(m, d) = << <<d.w, m.w>>, <<d.h, m.h>> >>
    BY <1>3 DEF Factors
  <2>. QED BY <1>1, <1>2, <2>1
<1>4. CASE ~env.stretch /\ d.w * m.h < d.h * m.w
  <2>1. Factors(m, d) = << <<d.w, m.w>>, <<d.w, m.w>> >>
    BY <1>4 DEF Factors
  <2>2. AxisFits(m.h, d.h, d.w, m.w)
    BY <1>1, <1>4 DEF AxisFits
  <2>. QED BY <1>1, <1>2, <2>1, <2>2
<1>5. CASE ~env.stretch /\ ~(d.w * m.h < d.h * m.w)
  <2>1. Factors(m, d) = << <<d.h, m.h>>, <<d.h, m.h>> >>
    BY <1>5 DEF Factors
  <2>2. AxisFits(m.w, d.w, d.h, m.h)
    BY <1>1, <1>5 DEF AxisFits
  <2>. QED BY <1>1, <1>2, <2>1, <2>2
<1>. QED BY <1>3, <1>4, <1>5

\* Panes are rectangles of the game's screen, apart on an axis.
LEMMA PaneIs ==
  ASSUME NEW m \in PositiveSizes, NEW p \in Panes(m)
  PROVE  /\ p.x \in Nat /\ p.y \in Nat /\ p.w \in Nat /\ p.h \in Nat
         /\ p.x + p.w <= m.w /\ p.y + p.h <= m.h
<1>1. m.w \in Nat \ {0} /\ m.h \in Nat \ {0}
  BY DEF PositiveSizes
<1>. QED BY <1>1 DEF Panes, Fits

\* What the factors in force are: of a mode and of a drawable.
InForce == scale.ready = 1 => scale.mode \in PositiveSizes /\ scale.drawable \in PositiveSizes

\* A pane drawn with factors that were in force lies on the drawable.
LEMMA PanesInside == InForce => MapsInside
<1>. SUFFICES ASSUME InForce, scale.ready = 1, NEW p \in Panes(scale.mode)
              PROVE  Fits(Mapped(p, scale), scale.drawable)
  BY DEF MapsInside
<1>. DEFINE m == scale.mode
            d == scale.drawable
<1>1. m \in PositiveSizes /\ d \in PositiveSizes
  BY DEF InForce
<1>2. /\ p.x \in Nat /\ p.y \in Nat /\ p.w \in Nat /\ p.h \in Nat
      /\ p.x + p.w <= m.w /\ p.y + p.h <= m.h
  BY <1>1, PaneIs
<1>3. PICK n1 \in Nat \ {0}, k1 \in Nat \ {0}, n2 \in Nat \ {0}, k2 \in Nat \ {0} :
        /\ Factors(m, d) = << <<n1, k1>>, <<n2, k2>> >>
        /\ AxisFits(m.w, d.w, n1, k1) /\ AxisFits(m.h, d.h, n2, k2)
  BY <1>1, FactorsFit
<1>4. Mapped(p, scale) =
        [x |-> Place(p.x, m.w, d.w, <<n1, k1>>), y |-> Place(p.y, m.h, d.h, <<n2, k2>>),
         w |-> Length(p.w, <<n1, k1>>), h |-> Length(p.h, <<n2, k2>>)]
  BY <1>3 DEF Mapped
<1>5. /\ Place(p.x, m.w, d.w, <<n1, k1>>) >= 0
      /\ Place(p.x, m.w, d.w, <<n1, k1>>) + Length(p.w, <<n1, k1>>) <= d.w
  BY <1>2, <1>3, EdgeInside
<1>6. /\ Place(p.y, m.h, d.h, <<n2, k2>>) >= 0
      /\ Place(p.y, m.h, d.h, <<n2, k2>>) + Length(p.h, <<n2, k2>>) <= d.h
  BY <1>2, <1>3, EdgeInside
<1>. QED BY <1>4, <1>5, <1>6 DEF Fits

\* Two such panes keep apart.
LEMMA PanesApart == InForce => PanesStayApart
<1>. SUFFICES ASSUME InForce, scale.ready = 1, NEW p \in Panes(scale.mode),
                     NEW q \in Panes(scale.mode), Apart(p, q)
              PROVE  Apart(Mapped(p, scale), Mapped(q, scale))
  BY DEF PanesStayApart
<1>. DEFINE m == scale.mode
            d == scale.drawable
<1>1. m \in PositiveSizes /\ d \in PositiveSizes
  BY DEF InForce
<1>2. /\ p.x \in Nat /\ p.y \in Nat /\ p.w \in Nat /\ p.h \in Nat
      /\ q.x \in Nat /\ q.y \in Nat /\ q.w \in Nat /\ q.h \in Nat
  BY <1>1, PaneIs
<1>3. PICK n1 \in Nat \ {0}, k1 \in Nat \ {0}, n2 \in Nat \ {0}, k2 \in Nat \ {0} :
        /\ Factors(m, d) = << <<n1, k1>>, <<n2, k2>> >>
        /\ AxisFits(m.w, d.w, n1, k1) /\ AxisFits(m.h, d.h, n2, k2)
  BY <1>1, FactorsFit
<1>. DEFINE P == Mapped(p, scale)
            Q == Mapped(q, scale)
<1>4. /\ P.x = Place(p.x, m.w, d.w, <<n1, k1>>) /\ P.w = Length(p.w, <<n1, k1>>)
      /\ P.y = Place(p.y, m.h, d.h, <<n2, k2>>) /\ P.h = Length(p.h, <<n2, k2>>)
      /\ Q.x = Place(q.x, m.w, d.w, <<n1, k1>>) /\ Q.w = Length(q.w, <<n1, k1>>)
      /\ Q.y = Place(q.y, m.h, d.h, <<n2, k2>>) /\ Q.h = Length(q.h, <<n2, k2>>)
  BY <1>3 DEF Mapped
<1>. HIDE DEF P, Q
<1>5. p.x + p.w <= q.x => P.x + P.w <= Q.x
  BY <1>2, <1>3, <1>4, EdgesApart
<1>6. q.x + q.w <= p.x => Q.x + Q.w <= P.x
  BY <1>2, <1>3, <1>4, EdgesApart
<1>7. p.y + p.h <= q.y => P.y + P.h <= Q.y
  BY <1>2, <1>3, <1>4, EdgesApart
<1>8. q.y + q.h <= p.y => Q.y + Q.h <= P.y
  BY <1>2, <1>3, <1>4, EdgesApart
<1>. QED BY <1>5, <1>6, <1>7, <1>8 DEF Apart, P, Q

-----------------------------------------------------------------------------
(* The inductive invariant.                                                *)

USE GlesAssumption

Sizes2 == [w : Nat, h : Nat]
Scales == [ready : {-1, 0, 1}, mode : Sizes2, drawable : Sizes2]

\* What the variables the factors depend on may hold.
TypeOK ==
  /\ env \in Environments /\ fbo \in BOOLEAN
  /\ mode \in Modes \union {NoSize} /\ drawable \in Drawables \union {NoSize}
  /\ scale \in Scales

\* PDK_NO_GL_SCALE keeps the factors out of force; without framebuffer objects none
\* is bound; and before a context is current the game has set nothing.
OptedOut ==
  /\ env.noScale => scale.ready # 1
  /\ ~env.fbo => ~fbo
  /\ drawable = NoSize => asked = Fixed(0, 0)

IInv == TypeOK /\ InForce /\ OptedOut /\ OptOutHolds

\* A size of the configuration is a positive one, and NoSize is none.
LEMMA SizesArePositive ==
  /\ Modes \subseteq PositiveSizes /\ Drawables \subseteq PositiveSizes
  /\ PositiveSizes \subseteq Sizes2 /\ NoSize \in Sizes2 /\ NoSize \notin PositiveSizes
BY DEF PositiveSizes, Sizes2, NoSize

\* resolve_scale: factors come into force for a positive mode and a drawable, never
\* with PDK_NO_GL_SCALE, and with no viewport to stand in only for a published mode.
LEMMA ResolvedIs ==
  ASSUME TypeOK, NEW v \in Sizes2
  PROVE  /\ Resolved(v) \in Scales
         /\ Resolved(v).ready = 1 => /\ Resolved(v).mode \in PositiveSizes
                                     /\ Resolved(v).drawable \in PositiveSizes
                                     /\ ~env.noScale
                                     /\ v = NoSize => Resolved(v).mode \in Modes
<1>. DEFINE m == IF mode # NoSize THEN mode ELSE v
<1>1. m \in Sizes2 /\ (v = NoSize => m \in Modes \union {NoSize})
  BY SizesArePositive DEF TypeOK
<1>2. drawable # NoSize => drawable \in PositiveSizes
  BY SizesArePositive DEF TypeOK
<1>3. m.w > 0 /\ m.h > 0 => m \in PositiveSizes
  BY <1>1 DEF PositiveSizes, Sizes2
<1>. HIDE DEF m
<1>4. CASE \/ env.noScale \/ m.w <= 0 \/ m.h <= 0 \/ drawable = NoSize
           \/ drawable.w <= m.w /\ drawable.h <= m.h
  <2>1. Resolved(v) = [scale EXCEPT !.ready = -1]
    BY <1>4 DEF Resolved, m
  <2>2. scale \in Scales
    BY DEF TypeOK
  <2>3. Resolved(v) \in Scales /\ Resolved(v).ready = -1
    BY <2>1, <2>2 DEF Scales
  <2>. QED BY <2>3
<1>5. CASE ~(\/ env.noScale \/ m.w <= 0 \/ m.h <= 0 \/ drawable = NoSize
             \/ drawable.w <= m.w /\ drawable.h <= m.h)
  <2>1. Resolved(v) = [ready |-> 1, mode |-> m, drawable |-> drawable]
    BY <1>5 DEF Resolved, m
  <2>2. m \in PositiveSizes /\ drawable \in PositiveSizes
    BY <1>1, <1>2, <1>3, <1>5 DEF Sizes2
  <2>3. Resolved(v) \in Scales
    BY <2>1, <2>2, SizesArePositive DEF Scales
  <2>4. v = NoSize => m \in Modes
    BY <1>1, <2>2, SizesArePositive
  <2>. QED BY <1>5, <2>1, <2>2, <2>3, <2>4
<1>. QED BY <1>4, <1>5

\* What a wrapper finds in force, or brings into force.
LEMMA CurrentIs ==
  ASSUME TypeOK, InForce, OptedOut, NEW v \in Sizes2
  PROVE  /\ Current(v) \in Scales
         /\ Current(v).ready = 1 => /\ Current(v).mode \in PositiveSizes
                                    /\ Current(v).drawable \in PositiveSizes
                                    /\ ~env.noScale
BY ResolvedIs DEF Current, TypeOK, InForce, OptedOut

\* No factors have been computed yet.
LEMMA InitIInv == Init => IInv
<1>. SUFFICES ASSUME Init PROVE IInv
  OBVIOUS
<1>1. TypeOK
  BY SizesArePositive DEF Init, TypeOK, Scales
<1>2. InForce /\ OptedOut /\ OptOutHolds
  BY DEF Init, InForce, OptedOut, OptOutHolds
<1>. QED BY <1>1, <1>2 DEF IInv

\* The factors in force are always of a mode and a drawable, and a game that opted
\* out keeps the viewport it asked for.
LEMMA IInvStep == IInv /\ [Next]_vars => IInv'
<1>. SUFFICES ASSUME TypeOK, InForce, OptedOut, OptOutHolds, [Next]_vars PROVE IInv'
  BY DEF IInv
<1>. USE DEF world
<1>0. env.noScale \in BOOLEAN /\ env.fbo \in BOOLEAN
  BY DEF TypeOK
<1>1. ASSUME NEW r \in Rects, glViewport(r) PROVE IInv'
  <2>1. [w |-> r.w, h |-> r.h] \in Sizes2
    BY DEF Sizes2
  <2>2. /\ scale' = IF fbo THEN scale ELSE Current([w |-> r.w, h |-> r.h])
        /\ UNCHANGED <<env, mode, drawable, fbo>>
    BY <1>1 DEF glViewport
  <2>3. /\ scale' \in Scales
        /\ scale'.ready = 1 => /\ scale'.mode \in PositiveSizes
                               /\ scale'.drawable \in PositiveSizes /\ ~env.noScale
    BY <2>1, <2>2, CurrentIs DEF TypeOK, InForce, OptedOut
  <2>4. TypeOK' /\ InForce'
    BY <2>2, <2>3 DEF TypeOK, InForce
  <2>5. OptedOut'
    BY <1>1, <2>2, <2>3 DEF OptedOut, glViewport, Set
  <2>6. OptOutHolds'
    <3>. SUFFICES ASSUME env.noScale, ~env.fbo, asked' # Fixed(0, 0)
                  PROVE  viewport' = asked'
      BY <2>2 DEF OptOutHolds
    <3>1. ~fbo /\ scale'.ready # 1
      BY <2>3 DEF OptedOut
    <3>2. asked' = Set(r, asked) /\ viewport' = Set(r, viewport)
      BY <1>1, <3>1 DEF glViewport
    <3>. QED BY <3>2 DEF Set, OptedOut
  <2>. QED BY <2>4, <2>5, <2>6 DEF IInv
<1>2. ASSUME NEW r \in Rects, glScissor(r) PROVE IInv'
  <2>1. NoSize \in Sizes2
    BY SizesArePositive
  <2>2. /\ scale' = IF fbo THEN scale ELSE Current(NoSize)
        /\ UNCHANGED <<env, mode, drawable, fbo, asked, viewport>>
    BY <1>2 DEF glScissor
  <2>3. /\ scale' \in Scales
        /\ scale'.ready = 1 => /\ scale'.mode \in PositiveSizes
                               /\ scale'.drawable \in PositiveSizes /\ ~env.noScale
    BY <2>1, <2>2, CurrentIs DEF TypeOK, InForce, OptedOut
  <2>. QED BY <2>2, <2>3 DEF IInv, TypeOK, InForce, OptedOut, OptOutHolds
<1>3. CASE glClear
  <2>1. /\ UNCHANGED <<env, mode, drawable, fbo, asked>>
        /\ env.noScale => viewport' = viewport
        /\ scale' = scale \/ scale' = [scale EXCEPT !.ready = 0]
    BY <1>3 DEF glClear, Check
  <2>2. scale' \in Scales /\ (scale'.ready = 1 => scale' = scale)
    BY <2>1 DEF TypeOK, Scales
  <2>. QED BY <2>1, <2>2 DEF IInv, TypeOK, InForce, OptedOut, OptOutHolds
<1>4. CASE BindFramebuffer
  BY <1>4 DEF BindFramebuffer, IInv, TypeOK, InForce, OptedOut, OptOutHolds
<1>5. CASE MakeCurrent
  <2>1. /\ drawable = NoSize /\ drawable' \in Drawables
        /\ UNCHANGED <<env, mode, fbo, scale, asked>>
    BY <1>5 DEF MakeCurrent
  <2>2. asked' = Fixed(0, 0)
    BY <2>1 DEF OptedOut
  <2>. QED BY <2>1, <2>2, SizesArePositive
           DEF IInv, TypeOK, InForce, OptedOut, OptOutHolds
<1>6. CASE Rotate
  <2>1. /\ drawable # NoSize /\ drawable' \in Drawables
        /\ UNCHANGED <<env, mode, fbo, scale, asked, viewport>>
    BY <1>6 DEF Rotate
  <2>. QED BY <2>1, SizesArePositive DEF IInv, TypeOK, InForce, OptedOut, OptOutHolds
<1>7. CASE PublishMode
  <2>1. /\ mode' \in Modes
        /\ UNCHANGED <<env, drawable, fbo, scale, asked, viewport>>
    BY <1>7 DEF PublishMode
  <2>. QED BY <2>1 DEF IInv, TypeOK, InForce, OptedOut, OptOutHolds
<1>8. CASE UNCHANGED vars
  BY <1>8 DEF vars, IInv, TypeOK, InForce, OptedOut, OptOutHolds
<1>. QED BY <1>1, <1>2, <1>3, <1>4, <1>5, <1>6, <1>7, <1>8 DEF Next

-----------------------------------------------------------------------------
\* Every reachable state satisfies the inductive invariant.
THEOREM Invariance == Spec => []IInv
BY InitIInv, IInvStep, PTL DEF Spec

\* Whatever mode and drawable the factors in force came from, no pane of the game's
\* screen is pushed off an edge of that drawable.
THEOREM InsideCorrect == Spec => []MapsInside
<1>1. IInv => MapsInside
  BY PanesInside DEF IInv
<1>. QED BY <1>1, Invariance, PTL

\* Panes that do not overlap in the game's space never overlap on the drawable,
\* whatever the rounding of each edge.
THEOREM ApartCorrect == Spec => []PanesStayApart
<1>1. IInv => PanesStayApart
  BY PanesApart DEF IInv
<1>. QED BY <1>1, Invariance, PTL

\* With PDK_NO_GL_SCALE the viewport is the one the game asked for, across
\* rotations, mode changes and the periodic check.
THEOREM OptOutCorrect == Spec => []OptOutHolds
<1>1. IInv => OptOutHolds
  BY DEF IInv
<1>. QED BY <1>1, Invariance, PTL
=============================================================================
