-------------------------- MODULE GeometryProofs --------------------------
(* What a source means, and what a package of sources means, for documents *)
(* of any size and plates of any number of objects and modifiers.          *)
EXTENDS GeometryPackage, DataInduction, SequenceTheorems

-----------------------------------------------------------------------------
(* Facets and where they are placed.                                       *)

Corner3 == [1..3 -> Int]
Spots   == [at : Corner3, paint : Paints]

Moving(at, m) == [k \in 1..3 |-> at[k] * m.s + m.t]
Turned(at)    == <<at[1], at[3], at[2]>>
Spot(r, m) == [at    |-> IF m.s < 0 THEN Turned(Moving(r.at, m)) ELSE Moving(r.at, m),
               paint |-> r.paint]

\* The corners of a facet that is turned over, and of one that is moved.
LEMMA TurnedCorners ==
  ASSUME NEW at \in Corner3
  PROVE  /\ Turned(at) \in Corner3 /\ Turned(Turned(at)) = at
         /\ Turned(at)[1] = at[1] /\ Turned(at)[2] = at[3] /\ Turned(at)[3] = at[2]
  <1> DEFINE t == Turned(at)
  <1>1. t \in Corner3 /\ t[1] = at[1] /\ t[2] = at[3] /\ t[3] = at[2]
    <2>1. at[1] \in Int /\ at[2] \in Int /\ at[3] \in Int
      BY DEF Corner3
    <2> QED BY <2>1 DEF Turned, Corner3
  <1>2. Turned(t) \in Corner3 /\ Turned(t)[1] = t[1] /\ Turned(t)[2] = t[3] /\ Turned(t)[3] = t[2]
    <2>1. t[1] \in Int /\ t[2] \in Int /\ t[3] \in Int
      BY <1>1 DEF Corner3
    <2> HIDE DEF t
    <2> QED BY <2>1 DEF Turned, Corner3
  <1> DEFINE u == Turned(t)
  <1>3. u = at
    <2>1. u \in Corner3 /\ u[1] = at[1] /\ u[2] = at[2] /\ u[3] = at[3]
      BY <1>1, <1>2
    <2> HIDE DEF u
    <2>2. \A k \in 1..3 : k = 1 \/ k = 2 \/ k = 3
      OBVIOUS
    <2>3. \A k \in 1..3 : u[k] = at[k]
      BY <2>1, <2>2
    <2> QED BY <2>1, <2>3 DEF Corner3
  <1> QED BY <1>1, <1>3

LEMMA MovingCorners ==
  ASSUME NEW at \in Corner3, NEW m \in Matrices
  PROVE  /\ Moving(at, m) \in Corner3
         /\ \A k \in 1..3 : Moving(at, m)[k] = at[k] * m.s + m.t
         /\ Moving(Turned(at), m) = Turned(Moving(at, m))
  <1>1. m.s \in Int /\ m.t \in Int /\ \A k \in 1..3 : at[k] \in Int
    BY DEF Matrices, Corner3
  <1>2. /\ Moving(at, m) \in Corner3
        /\ \A k \in 1..3 : Moving(at, m)[k] = at[k] * m.s + m.t
    BY <1>1 DEF Moving, Corner3
  <1> DEFINE a == Moving(Turned(at), m)
             b == Turned(Moving(at, m))
             t == Turned(at)
  <1>3. t \in Corner3 /\ t[1] = at[1] /\ t[2] = at[3] /\ t[3] = at[2]
    BY TurnedCorners
  <1>4. /\ b \in Corner3 /\ b[1] = at[1] * m.s + m.t /\ b[2] = at[3] * m.s + m.t
        /\ b[3] = at[2] * m.s + m.t
    BY <1>2, TurnedCorners
  <1>5. /\ a \in Corner3 /\ a[1] = at[1] * m.s + m.t /\ a[2] = at[3] * m.s + m.t
        /\ a[3] = at[2] * m.s + m.t
    <2> HIDE DEF t
    <2>1. /\ Moving(t, m) \in Corner3 /\ \A k \in 1..3 : Moving(t, m)[k] = t[k] * m.s + m.t
      <3>1. \A k \in 1..3 : t[k] \in Int
        BY <1>3 DEF Corner3
      <3> QED BY <1>1, <3>1 DEF Moving, Corner3
    <2> QED BY <1>3, <2>1 DEF t
  <1>6. a = b
    <2> HIDE DEF a, b
    <2>1. \A k \in 1..3 : k = 1 \/ k = 2 \/ k = 3
      OBVIOUS
    <2>2. \A k \in 1..3 : a[k] = b[k]
      BY <1>4, <1>5, <2>1
    <2> QED BY <1>4, <1>5, <2>2 DEF Corner3
  <1> QED BY <1>2, <1>6

\* Arithmetic of scales and offsets.
LEMMA Distributed ==
  \A x, a, b, c, d \in Int : (x * a + b) * c + d = x * (a * c) + (b * c + d)
  <1> TAKE x, a, b, c, d \in Int
  <1> QED OBVIOUS

LEMMA SignOfProduct ==
  ASSUME NEW a \in Int, NEW b \in Int, a # 0 \/ b > 0
  PROVE  a * b < 0 <=> (a < 0 /\ ~(b < 0) /\ b # 0) \/ (~(a < 0) /\ b < 0)
  OBVIOUS

LEMMA NothingTimes ==
  \A a \in Int : 0 * a = 0
  OBVIOUS

\* One matrix after another.
LEMMA MultiplyType ==
  ASSUME NEW a \in Matrices, NEW b \in Matrices
  PROVE  Multiply(a, b) \in Matrices /\ Multiply(a, b).s = a.s * b.s
         /\ Multiply(a, b).t = a.t * b.s + b.t
  <1>1. a.s \in Int /\ a.t \in Int /\ b.s \in Int /\ b.t \in Int
    BY DEF Matrices
  <1>2. a.s * b.s \in Int /\ a.t * b.s + b.t \in Int
    BY <1>1
  <1> QED BY <1>2 DEF Matrices, Multiply, Matrix

\* Where a facet is placed, and that the identity leaves it there.
LEMMA SpotType ==
  ASSUME NEW r \in Spots, NEW m \in Matrices
  PROVE  Spot(r, m) \in Spots
  <1>1. r.at \in Corner3 /\ r.paint \in Paints
    BY DEF Spots
  <1>2. Moving(r.at, m) \in Corner3
    BY <1>1, MovingCorners
  <1>3. Turned(Moving(r.at, m)) \in Corner3
    BY <1>2, TurnedCorners
  <1> QED BY <1>1, <1>2, <1>3 DEF Spot, Spots

\* Placed twice is placed once by the product.
LEMMA SpotTwice ==
  ASSUME NEW r \in Spots, NEW a \in Matrices, NEW b \in Matrices, a.s # 0 \/ b.s > 0, b.s # 0
  PROVE  Spot(Spot(r, a), b) = Spot(r, Multiply(a, b))
  <1> DEFINE m == Multiply(a, b)
             one == Moving(r.at, a)
             two == Moving(one, b)
             all == Moving(r.at, m)
  <1>1. r.at \in Corner3 /\ r.paint \in Paints
    BY DEF Spots
  <1>2. m \in Matrices /\ m.s = a.s * b.s /\ m.t = a.t * b.s + b.t
    BY MultiplyType
  <1>3. a.s \in Int /\ a.t \in Int /\ b.s \in Int /\ b.t \in Int
    BY DEF Matrices
  <1> HIDE DEF m
  <1>4. one \in Corner3 /\ \A k \in 1..3 : one[k] = r.at[k] * a.s + a.t
    BY <1>1, MovingCorners
  <1>5. all \in Corner3 /\ \A k \in 1..3 : all[k] = r.at[k] * m.s + m.t
    BY <1>1, <1>2, MovingCorners
  <1> HIDE DEF one, all
  <1>6. two \in Corner3 /\ \A k \in 1..3 : two[k] = one[k] * b.s + b.t
    BY <1>4, MovingCorners
  <1> HIDE DEF two
  <1>7. two = all
    <2>1. ASSUME NEW k \in 1..3 PROVE two[k] = all[k]
      <3>1. r.at[k] \in Int
        BY <1>1 DEF Corner3
      <3>2. (r.at[k] * a.s + a.t) * b.s + b.t = r.at[k] * (a.s * b.s) + (a.t * b.s + b.t)
        BY <1>3, <3>1, Distributed
      <3> QED BY <1>2, <1>4, <1>5, <1>6, <3>2
    <2> QED BY <1>5, <1>6, <2>1 DEF Corner3
  <1>8. Turned(one) \in Corner3 /\ Moving(Turned(one), b) = Turned(two)
        /\ Turned(Turned(two)) = two
    BY <1>4, <1>6, TurnedCorners, MovingCorners DEF two
  <1>9. m.s < 0 <=> (a.s < 0 /\ ~(b.s < 0)) \/ (~(a.s < 0) /\ b.s < 0)
    BY <1>2, <1>3, SignOfProduct
  <1>10. Spot(r, a) = [at |-> IF a.s < 0 THEN Turned(one) ELSE one, paint |-> r.paint]
    BY DEF Spot, one
  <1>11. Spot(r, m) = [at |-> IF m.s < 0 THEN Turned(all) ELSE all, paint |-> r.paint]
    BY DEF Spot, all
  <1> DEFINE first == IF a.s < 0 THEN Turned(one) ELSE one
  <1>12. Spot(Spot(r, a), b) =
           [at |-> IF b.s < 0 THEN Turned(Moving(first, b)) ELSE Moving(first, b),
            paint |-> r.paint]
    BY <1>10 DEF Spot
  <1>13. Moving(first, b) = IF a.s < 0 THEN Turned(two) ELSE two
    BY <1>8 DEF two
  <1>14. (IF b.s < 0 THEN Turned(Moving(first, b)) ELSE Moving(first, b))
           = IF m.s < 0 THEN Turned(two) ELSE two
    BY <1>8, <1>9, <1>13
  <1> HIDE DEF first
  <1> QED BY <1>7, <1>11, <1>12, <1>14 DEF m

LEMMA SpotIdentity ==
  ASSUME NEW r \in Spots
  PROVE  Spot(r, Identity) = r
  <1>1. r.at \in Corner3 /\ r = [at |-> r.at, paint |-> r.paint]
    BY DEF Spots
  <1>2. Identity \in Matrices /\ Identity.s = 1 /\ Identity.t = 0
    BY DEF Identity, Matrix, Matrices
  <1> DEFINE at == Moving(r.at, Identity)
  <1>3. at \in Corner3 /\ \A k \in 1..3 : at[k] = r.at[k] * Identity.s + Identity.t
    BY <1>1, <1>2, MovingCorners
  <1>4. at = r.at
    <2> HIDE DEF at
    <2>1. \A k \in 1..3 : r.at[k] \in Int
      BY <1>1 DEF Corner3
    <2>2. \A k \in 1..3 : at[k] = r.at[k]
      BY <1>2, <1>3, <2>1
    <2> QED BY <1>1, <1>3, <2>2 DEF Corner3
  <1> QED BY <1>1, <1>2, <1>4 DEF Spot

\* Facets that are placed: once, twice, by the identity, in parts.
LEMMA PlaceType ==
  ASSUME NEW facets \in Seq(Spots), NEW m \in Matrices
  PROVE  /\ Place(facets, m) \in Seq(Spots) /\ Len(Place(facets, m)) = Len(facets)
         /\ Place(facets, m) = [i \in 1..Len(facets) |-> Spot(facets[i], m)]
  <1> DEFINE n == Len(facets)
             placed == [i \in 1..n |-> Spot(facets[i], m)]
  <1>1. n \in Nat /\ DOMAIN facets = 1..n /\ \A i \in 1..n : facets[i] \in Spots
    BY LenProperties, ElementOfSeq
  <1>2. \A i \in 1..n : [facets[i] EXCEPT !.at = IF m.s < 0 THEN Turned(Moving(facets[i].at, m))
                                                   ELSE Moving(facets[i].at, m)] = Spot(facets[i], m)
    BY <1>1 DEF Spots, Spot
  <1>3. Place(facets, m) = placed
    BY <1>1, <1>2 DEF Place, Moving, Turned
  <1>4. placed \in Seq(Spots) /\ Len(placed) = n
    <2>1. placed \in [1..n -> Spots]
      BY <1>1, SpotType
    <2> HIDE DEF placed
    <2> QED BY <1>1, <2>1, FamilyIsSeq
  <1> QED BY <1>3, <1>4

LEMMA PlaceTwice ==
  ASSUME NEW facets \in Seq(Spots), NEW a \in Matrices, NEW b \in Matrices,
         a.s # 0 \/ b.s > 0, b.s # 0
  PROVE  Place(Place(facets, a), b) = Place(facets, Multiply(a, b))
  <1> DEFINE n == Len(facets)
             one == Place(facets, a)
             two == Place(one, b)
             all == Place(facets, Multiply(a, b))
  <1>1. Multiply(a, b) \in Matrices
    BY MultiplyType
  <1>2. one \in Seq(Spots) /\ Len(one) = n /\ one = [i \in 1..n |-> Spot(facets[i], a)]
    BY PlaceType
  <1>3. all = [i \in 1..n |-> Spot(facets[i], Multiply(a, b))]
    BY <1>1, PlaceType
  <1> HIDE DEF one, all
  <1>4. two = [i \in 1..n |-> Spot(one[i], b)]
    BY <1>2, PlaceType
  <1>5. \A i \in 1..n : Spot(Spot(facets[i], a), b) = Spot(facets[i], Multiply(a, b))
    BY ElementOfSeq, SpotTwice
  <1>6. \A i \in 1..n : one[i] = Spot(facets[i], a)
    BY <1>2
  <1> HIDE DEF two, n
  <1> QED BY <1>3, <1>4, <1>5, <1>6 DEF one, two, all

LEMMA PlaceIdentity ==
  ASSUME NEW facets \in Seq(Spots)
  PROVE  Place(facets, Identity) = facets
  <1>1. Identity \in Matrices
    BY DEF Identity, Matrix, Matrices
  <1>2. Place(facets, Identity) = [i \in 1..Len(facets) |-> Spot(facets[i], Identity)]
    BY <1>1, PlaceType
  <1>3. \A i \in 1..Len(facets) : Spot(facets[i], Identity) = facets[i]
    BY ElementOfSeq, SpotIdentity
  <1>4. facets = [i \in 1..Len(facets) |-> facets[i]]
    BY LenProperties
  <1> QED BY <1>2, <1>3, <1>4

\* What is placed together is placed one by one.
LEMMA PlaceConcat ==
  ASSUME NEW f \in Seq(Spots), NEW g \in Seq(Spots), NEW m \in Matrices
  PROVE  Place(f \o g, m) = Place(f, m) \o Place(g, m)
  <1> DEFINE a == Place(f, m)
             b == Place(g, m)
             c == Place(f \o g, m)
             d == a \o b
             l == Len(f)
             n == Len(g)
  <1>1. /\ f \o g \in Seq(Spots) /\ Len(f \o g) = l + n /\ l \in Nat /\ n \in Nat
        /\ \A i \in 1..(l + n) : (f \o g)[i] = IF i <= l THEN f[i] ELSE g[i - l]
    BY ConcatProperties, LenProperties
  <1>2. a \in Seq(Spots) /\ Len(a) = l /\ a = [i \in 1..l |-> Spot(f[i], m)]
    BY PlaceType
  <1>3. b \in Seq(Spots) /\ Len(b) = n /\ b = [i \in 1..n |-> Spot(g[i], m)]
    BY PlaceType
  <1>4. c \in Seq(Spots) /\ Len(c) = l + n /\ c = [i \in 1..(l + n) |-> Spot((f \o g)[i], m)]
    <2> DEFINE fg == f \o g
    <2>1. fg \in Seq(Spots) /\ Len(fg) = l + n
      BY <1>1
    <2> HIDE DEF fg, l, n
    <2> QED BY <2>1, PlaceType DEF fg
  <1> HIDE DEF a, b, c, d, l, n
  <1>5. /\ d \in Seq(Spots) /\ Len(d) = l + n
        /\ \A i \in 1..(l + n) : d[i] = IF i <= l THEN a[i] ELSE b[i - l]
    <2>1. Joins(d, a, b)
      BY DEF d, Joins
    <2>2. d \in Seq(Spots) /\ Concatenated(d, a, b, Len(a), Len(b))
      BY <1>2, <1>3, <2>1, ConcatIndexed
    <2> QED BY <1>2, <1>3, <2>2 DEF Concatenated
  <1>6. ASSUME NEW i \in 1..(l + n) PROVE c[i] = d[i]
    <2>1. CASE i <= l
      <3>1. i \in 1..l
        BY <1>1, <2>1
      <3>2. d[i] = a[i] /\ c[i] = Spot(f[i], m)
        BY <1>1, <1>4, <1>5, <2>1
      <3> QED BY <1>2, <3>1, <3>2
    <2>2. CASE ~(i <= l)
      <3>1. i - l \in 1..n
        BY <1>1, <2>2
      <3>2. d[i] = b[i - l] /\ c[i] = Spot(g[i - l], m)
        BY <1>1, <1>4, <1>5, <2>2
      <3> QED BY <1>3, <3>1, <3>2
    <2> QED BY <2>1, <2>2
  <1>7. d \in Seq(Spots) /\ Len(d) = l + n /\ \A i \in 1..(l + n) : c[i] = d[i]
    BY <1>5, <1>6
  <1>8. c = d
    BY <1>4, <1>7, SeqEqual
  <1> QED BY <1>8 DEF a, b, c, d

\* Facets in parts are placed part by part.
LEMMA PlaceMorphism ==
  ASSUME NEW m \in Matrices
  PROVE  Morphism([f \in Seq(Spots) |-> Place(f, m)], Spots, Spots)
  <1> DEFINE h == [f \in Seq(Spots) |-> Place(f, m)]
  <1>1. h \in [Seq(Spots) -> Seq(Spots)]
    BY PlaceType
  <1>2. h[<<>>] = <<>>
    <2>1. <<>> \in Seq(Spots) /\ Len(<<>>) = 0
      BY EmptySeq
    <2>2. Place(<<>>, m) \in Seq(Spots) /\ Len(Place(<<>>, m)) = 0
      BY <2>1, PlaceType
    <2>3. Place(<<>>, m) = <<>>
      BY <2>2, EmptySeq
    <2> QED BY <2>1, <2>3
  <1>3. ASSUME NEW s \in Seq(Spots), NEW t \in Seq(Spots) PROVE h[s \o t] = h[s] \o h[t]
    BY PlaceConcat, ConcatProperties
  <1> HIDE DEF h
  <1>4. Morphism(h, Spots, Spots)
    BY <1>1, <1>2, <1>3 DEF Morphism
  <1> QED BY <1>4 DEF h

LEMMA PlaceFlattened ==
  ASSUME NEW seqs \in Seq(Seq(Spots)), NEW m \in Matrices
  PROVE  /\ [i \in 1..Len(seqs) |-> Place(seqs[i], m)] \in Seq(Seq(Spots))
         /\ Place(FlattenSeq(seqs), m) = FlattenSeq([i \in 1..Len(seqs) |-> Place(seqs[i], m)])
  <1> DEFINE h == [f \in Seq(Spots) |-> Place(f, m)]
             each == [i \in 1..Len(seqs) |-> h[seqs[i]]]
  <1>1. Morphism(h, Spots, Spots)
    BY PlaceMorphism
  <1>2. FlattenSeq(seqs) \in Seq(Spots)
    <2>1. <<>> \in Seq(Spots)
      BY EmptySeq
    <2> QED BY <2>1, FlattenAppend
  <1>3. h[FlattenSeq(seqs)] = Place(FlattenSeq(seqs), m)
    BY <1>2
  <1>4. each = [i \in 1..Len(seqs) |-> Place(seqs[i], m)]
    BY ElementOfSeq
  <1> HIDE DEF h
  <1>5. each \in Seq(Seq(Spots)) /\ h[FlattenSeq(seqs)] = FlattenSeq(each)
    BY <1>1, FlattenMorphism
  <1> QED BY <1>3, <1>4, <1>5

-----------------------------------------------------------------------------
(* The facets of a geometry.                                               *)

Tris == [v : Corner3, paint : Paints]

IsGeometry(g) == g.vertices \in Seq(Int) /\ g.triangles \in Seq(Tris)

\* Every corner of a triangle is one of the vertices.
Whole(g) == \A i \in 1..Len(g.triangles) : \A k \in 1..3 :
                g.triangles[i].v[k] \in 0..(Len(g.vertices) - 1)

FacetAt(g, i) == [at    |-> [k \in 1..3 |-> g.vertices[g.triangles[i].v[k] + 1]],
                  paint |-> g.triangles[i].paint]

\* The corners of a geometry, and of two that are joined, are vertices of it.
LEMMA CornerPlaces ==
  /\ \A n \in Nat : \A x \in 0..(n - 1) : x \in Int /\ x + 1 \in 1..n
  /\ \A l, n \in Nat : \A x \in 0..(l - 1) : x + 1 \in 1..(l + n) /\ x + 1 <= l /\ x \in 0..((l + n) - 1)
  /\ \A l, n \in Nat : \A x \in 0..(n - 1) :
        /\ (x + l) + 1 \in 1..(l + n) /\ ~((x + l) + 1 <= l) /\ ((x + l) + 1) - l = x + 1
        /\ x + l \in 0..((l + n) - 1)
  OBVIOUS

\* The facets of a geometry whose corners are all there.
LEMMA FacetType ==
  ASSUME NEW g, IsGeometry(g), Whole(g), NEW i \in 1..Len(g.triangles)
  PROVE  /\ FacetAt(g, i) \in Spots /\ g.triangles[i] \in Tris
         /\ \A k \in 1..3 : g.triangles[i].v[k] + 1 \in 1..Len(g.vertices)
  <1>1. g.triangles[i] \in Tris
    BY ElementOfSeq DEF IsGeometry
  <1>2. Len(g.vertices) \in Nat
    BY LenProperties DEF IsGeometry
  <1>3. \A k \in 1..3 : g.triangles[i].v[k] + 1 \in 1..Len(g.vertices)
    <2> SUFFICES ASSUME NEW k \in 1..3 PROVE g.triangles[i].v[k] + 1 \in 1..Len(g.vertices)
      OBVIOUS
    <2> DEFINE x == g.triangles[i].v[k]
               n == Len(g.vertices)
    <2>1. x \in 0..(n - 1)
      BY DEF Whole
    <2> HIDE DEF x, n
    <2>2. x + 1 \in 1..n
      BY <1>2, <2>1, CornerPlaces DEF n
    <2> QED BY <2>2 DEF x, n
  <1>4. \A k \in 1..3 : g.vertices[g.triangles[i].v[k] + 1] \in Int
    BY <1>3, ElementOfSeq DEF IsGeometry
  <1>5. g.triangles[i].paint \in Paints
    BY <1>1 DEF Tris
  <1> QED BY <1>1, <1>3, <1>4, <1>5 DEF FacetAt, Spots, Corner3

LEMMA FacetsType ==
  ASSUME NEW g, IsGeometry(g), Whole(g)
  PROVE  /\ FacetsOf(g) \in Seq(Spots) /\ Len(FacetsOf(g)) = Len(g.triangles)
         /\ FacetsOf(g) = [i \in 1..Len(g.triangles) |-> FacetAt(g, i)]
  <1> DEFINE n == Len(g.triangles)
             facets == [i \in 1..n |-> FacetAt(g, i)]
  <1>1. n \in Nat /\ DOMAIN g.triangles = 1..n
    BY LenProperties DEF IsGeometry
  <1>2. facets \in [1..n -> Spots]
    BY FacetType
  <1>3. facets \in Seq(Spots) /\ Len(facets) = n
    <2> HIDE DEF facets
    <2> QED BY <1>1, <1>2, FamilyIsSeq
  <1>4. FacetsOf(g) = facets
    BY <1>1 DEF FacetsOf, FacetAt
  <1> QED BY <1>3, <1>4

MovedAll(vs, m) == [i \in 1..Len(vs) |-> Apply(vs[i], m)]
Rewound(ts, m)  == [i \in 1..Len(ts) |-> [v |-> Winding(ts[i].v, m), paint |-> ts[i].paint]]
Shifted(ts, offset) == [i \in 1..Len(ts) |-> [v |-> [k \in 1..3 |-> ts[i].v[k] + offset],
                                              paint |-> ts[i].paint]]

\* Its vertices moved, its corners turned over, and counted from an offset.
LEMMA MovedType ==
  ASSUME NEW vs \in Seq(Int), NEW m \in Matrices
  PROVE  /\ MovedAll(vs, m) \in Seq(Int) /\ Len(MovedAll(vs, m)) = Len(vs)
         /\ \A i \in 1..Len(vs) : MovedAll(vs, m)[i] = vs[i] * m.s + m.t
  <1>1. m.s \in Int /\ m.t \in Int
    BY DEF Matrices
  <1>2. Len(vs) \in Nat /\ \A i \in 1..Len(vs) : vs[i] \in Int
    BY LenProperties, ElementOfSeq
  <1>3. MovedAll(vs, m) = [i \in 1..Len(vs) |-> vs[i] * m.s + m.t]
    BY DEF MovedAll, Apply
  <1> DEFINE all == [i \in 1..Len(vs) |-> vs[i] * m.s + m.t]
  <1>4. all \in [1..Len(vs) -> Int]
    BY <1>1, <1>2
  <1>5. \A i \in 1..Len(vs) : all[i] = vs[i] * m.s + m.t
    OBVIOUS
  <1> HIDE DEF all
  <1>6. all \in Seq(Int) /\ Len(all) = Len(vs)
    BY <1>2, <1>4, FamilyIsSeq
  <1> QED BY <1>3, <1>5, <1>6 DEF all

LEMMA RewoundType ==
  ASSUME NEW ts \in Seq(Tris), NEW m
  PROVE  /\ Rewound(ts, m) \in Seq(Tris) /\ Len(Rewound(ts, m)) = Len(ts)
         /\ \A i \in 1..Len(ts) : Rewound(ts, m)[i] = [v |-> Winding(ts[i].v, m),
                                                       paint |-> ts[i].paint]
  <1> DEFINE all == Rewound(ts, m)
  <1>1. Len(ts) \in Nat /\ \A i \in 1..Len(ts) : ts[i] \in Tris
    BY LenProperties, ElementOfSeq
  <1>2. ASSUME NEW i \in 1..Len(ts) PROVE Winding(ts[i].v, m) \in Corner3
    <2>1. ts[i].v \in Corner3
      BY <1>1 DEF Tris
    <2>2. Turned(ts[i].v) \in Corner3
      BY <2>1, TurnedCorners
    <2> QED BY <2>1, <2>2 DEF Winding, Turned
  <1>3. all \in [1..Len(ts) -> Tris]
    BY <1>1, <1>2 DEF Rewound, Tris
  <1>4. \A i \in 1..Len(ts) : all[i] = [v |-> Winding(ts[i].v, m), paint |-> ts[i].paint]
    BY DEF Rewound
  <1> HIDE DEF all
  <1> QED BY <1>1, <1>3, <1>4, FamilyIsSeq DEF all

LEMMA ShiftedType ==
  ASSUME NEW ts \in Seq(Tris), NEW offset \in Nat
  PROVE  /\ Shifted(ts, offset) \in Seq(Tris) /\ Len(Shifted(ts, offset)) = Len(ts)
         /\ \A i \in 1..Len(ts) :
               Shifted(ts, offset)[i] = [v |-> [k \in 1..3 |-> ts[i].v[k] + offset],
                                         paint |-> ts[i].paint]
  <1> DEFINE all == Shifted(ts, offset)
  <1>1. Len(ts) \in Nat /\ \A i \in 1..Len(ts) : ts[i] \in Tris
    BY LenProperties, ElementOfSeq
  <1>2. ASSUME NEW i \in 1..Len(ts) PROVE [k \in 1..3 |-> ts[i].v[k] + offset] \in Corner3
    <2>1. \A k \in 1..3 : ts[i].v[k] \in Int
      BY <1>1 DEF Tris, Corner3
    <2>2. \A k \in 1..3 : ts[i].v[k] + offset \in Int
      BY <2>1
    <2> QED BY <2>2 DEF Corner3
  <1>3. all \in [1..Len(ts) -> Tris]
    BY <1>1, <1>2 DEF Shifted, Tris
  <1>4. \A i \in 1..Len(ts) : all[i] = [v |-> [k \in 1..3 |-> ts[i].v[k] + offset],
                                        paint |-> ts[i].paint]
    BY DEF Shifted
  <1> HIDE DEF all
  <1> QED BY <1>1, <1>3, <1>4, FamilyIsSeq DEF all

\* Vertices that are moved and corners that are rewound move the facets.
LEMMA MovedGeometry ==
  ASSUME NEW g, IsGeometry(g), Whole(g), NEW m \in Matrices
  PROVE  LET h == Geometry(MovedAll(g.vertices, m), Rewound(g.triangles, m))
         IN IsGeometry(h) /\ Whole(h) /\ FacetsOf(h) = Place(FacetsOf(g), m)
  <1> DEFINE vs == MovedAll(g.vertices, m)
             ts == Rewound(g.triangles, m)
             h == Geometry(vs, ts)
             n == Len(g.triangles)
  <1>1. /\ vs \in Seq(Int) /\ Len(vs) = Len(g.vertices)
        /\ \A i \in 1..Len(g.vertices) : vs[i] = g.vertices[i] * m.s + m.t
    BY MovedType DEF IsGeometry
  <1>2. /\ ts \in Seq(Tris) /\ Len(ts) = n
        /\ \A i \in 1..n : ts[i] = [v |-> Winding(g.triangles[i].v, m),
                                    paint |-> g.triangles[i].paint]
    BY RewoundType DEF IsGeometry
  <1>3. h.vertices = vs /\ h.triangles = ts
    BY DEF Geometry
  <1> HIDE DEF vs, ts, h
  <1>4. IsGeometry(h)
    BY <1>1, <1>2, <1>3 DEF IsGeometry
  <1>5. ASSUME NEW i \in 1..n
        PROVE  /\ g.triangles[i].v \in Corner3
               /\ m.s < 0 => /\ ts[i].v = Turned(g.triangles[i].v)
                             /\ ts[i].v[1] = g.triangles[i].v[1]
                             /\ ts[i].v[2] = g.triangles[i].v[3]
                             /\ ts[i].v[3] = g.triangles[i].v[2]
               /\ ~(m.s < 0) => ts[i].v = g.triangles[i].v
               /\ ts[i].paint = g.triangles[i].paint
    <2>1. g.triangles[i].v \in Corner3
      BY FacetType DEF Tris
    <2>2. ts[i].v = Winding(g.triangles[i].v, m) /\ ts[i].paint = g.triangles[i].paint
      <3>1. ts[i] = [v |-> Winding(g.triangles[i].v, m), paint |-> g.triangles[i].paint]
        BY <1>2
      <3> QED BY <3>1
    <2>3. Winding(g.triangles[i].v, m) = IF m.s < 0 THEN Turned(g.triangles[i].v)
                                         ELSE g.triangles[i].v
      BY DEF Winding, Turned
    <2> QED BY <2>1, <2>2, <2>3, TurnedCorners
  <1>6. \A k \in 1..3 : k = 1 \/ k = 2 \/ k = 3
    OBVIOUS
  <1>7. Whole(h)
    <2> SUFFICES ASSUME NEW i \in 1..n, NEW k \in 1..3
                 PROVE  ts[i].v[k] \in 0..(Len(vs) - 1)
      BY <1>2, <1>3 DEF Whole
    <2>1. \A j \in 1..3 : g.triangles[i].v[j] \in 0..(Len(vs) - 1)
      BY <1>1 DEF Whole
    <2>2. g.triangles[i].v[1] \in 0..(Len(vs) - 1) /\ g.triangles[i].v[2] \in 0..(Len(vs) - 1)
          /\ g.triangles[i].v[3] \in 0..(Len(vs) - 1)
      BY <2>1
    <2> QED BY <1>5, <1>6, <2>1, <2>2
  <1>8. ASSUME NEW i \in 1..n PROVE FacetAt(h, i) = Spot(FacetAt(g, i), m)
    <2> DEFINE at == [k \in 1..3 |-> g.vertices[g.triangles[i].v[k] + 1]]
               moved == Moving(at, m)
               new == [k \in 1..3 |-> vs[ts[i].v[k] + 1]]
    <2>1. FacetAt(g, i) = [at |-> at, paint |-> g.triangles[i].paint] /\ at \in Corner3
      BY FacetType DEF FacetAt, Spots
    <2>2. /\ moved \in Corner3 /\ \A k \in 1..3 : moved[k] = at[k] * m.s + m.t
          /\ Turned(moved) \in Corner3 /\ Turned(moved)[1] = moved[1]
          /\ Turned(moved)[2] = moved[3] /\ Turned(moved)[3] = moved[2]
      <3> HIDE DEF at
      <3>1. /\ Moving(at, m) \in Corner3
            /\ \A k \in 1..3 : Moving(at, m)[k] = at[k] * m.s + m.t
        BY <2>1, MovingCorners
      <3> HIDE DEF moved
      <3> QED BY <3>1, TurnedCorners DEF moved
    <2>3. \A k \in 1..3 : vs[g.triangles[i].v[k] + 1] = moved[k]
      <3>1. \A k \in 1..3 : g.triangles[i].v[k] + 1 \in 1..Len(g.vertices)
        BY FacetType
      <3>2. \A k \in 1..3 : at[k] = g.vertices[g.triangles[i].v[k] + 1]
        OBVIOUS
      <3> HIDE DEF at, moved
      <3> QED BY <1>1, <2>2, <3>1, <3>2
    <2>4. FacetAt(h, i) = [at |-> new, paint |-> g.triangles[i].paint]
      BY <1>3, <1>5 DEF FacetAt
    <2>5. DOMAIN new = 1..3 /\ new = [k \in 1..3 |-> new[k]]
          /\ \A k \in 1..3 : new[k] = vs[ts[i].v[k] + 1]
      OBVIOUS
    <2> HIDE DEF at, moved, new
    <2>6. new = IF m.s < 0 THEN Turned(moved) ELSE moved
      <3>1. CASE m.s < 0
        <4>1. \A k \in 1..3 : new[k] = Turned(moved)[k]
          <5>1. 1 \in 1..3 /\ 2 \in 1..3 /\ 3 \in 1..3
            OBVIOUS
          <5>2. new[1] = moved[1] /\ new[2] = moved[3] /\ new[3] = moved[2]
            BY <1>5, <2>3, <2>5, <3>1, <5>1
          <5> QED BY <1>6, <2>2, <5>2
        <4>2. Turned(moved) = [k \in 1..3 |-> Turned(moved)[k]]
          BY <2>2 DEF Corner3
        <4> QED BY <2>5, <3>1, <4>1, <4>2
      <3>2. CASE ~(m.s < 0)
        <4>1. \A k \in 1..3 : new[k] = moved[k]
          BY <1>5, <2>3, <2>5, <3>2
        <4>2. moved = [k \in 1..3 |-> moved[k]]
          BY <2>2 DEF Corner3
        <4> QED BY <2>5, <3>2, <4>1, <4>2
      <3> QED BY <3>1, <3>2
    <2>7. Spot(FacetAt(g, i), m) = [at |-> IF m.s < 0 THEN Turned(moved) ELSE moved,
                                    paint |-> g.triangles[i].paint]
      BY <2>1 DEF Spot, moved
    <2> QED BY <2>4, <2>6, <2>7
  <1>9. FacetsOf(h) = [i \in 1..n |-> FacetAt(h, i)]
    BY <1>2, <1>3, <1>4, <1>7, FacetsType
  <1>10. Place(FacetsOf(g), m) = [i \in 1..n |-> Spot(FacetAt(g, i), m)]
    <2> DEFINE facets == FacetsOf(g)
    <2>1. facets \in Seq(Spots) /\ Len(facets) = n /\ facets = [i \in 1..n |-> FacetAt(g, i)]
      BY FacetsType
    <2>2. \A i \in 1..n : facets[i] = FacetAt(g, i)
      <3> HIDE DEF facets, n
      <3> QED BY <2>1
    <2> HIDE DEF facets
    <2>3. Place(facets, m) = [i \in 1..n |-> Spot(facets[i], m)]
      BY <2>1, PlaceType
    <2> QED BY <2>2, <2>3 DEF facets
  <1>11. FacetsOf(h) = Place(FacetsOf(g), m)
    BY <1>8, <1>9, <1>10
  <1> QED BY <1>4, <1>7, <1>11 DEF h, vs, ts

\* Two meshes put behind each other have the facets of both.
LEMMA JoinedGeometry ==
  ASSUME NEW g, IsGeometry(g), Whole(g), NEW h, IsGeometry(h), Whole(h)
  PROVE  LET all == Geometry(g.vertices \o h.vertices,
                             g.triangles \o Shifted(h.triangles, Len(g.vertices)))
         IN IsGeometry(all) /\ Whole(all) /\ FacetsOf(all) = FacetsOf(g) \o FacetsOf(h)
            /\ Len(all.triangles) = Len(g.triangles) + Len(h.triangles)
  <1> DEFINE gv == g.vertices
             hv == h.vertices
             gt == g.triangles
             ht == h.triangles
             l == Len(gv)
             m == Len(hv)
             a == Len(gt)
             b == Len(ht)
             vs == gv \o hv
             later == Shifted(ht, l)
             ts == gt \o later
             all == Geometry(vs, ts)
  <1>0. gv \in Seq(Int) /\ hv \in Seq(Int) /\ gt \in Seq(Tris) /\ ht \in Seq(Tris)
    BY DEF IsGeometry
  <1>00. /\ \A i \in 1..a : FacetAt(g, i) \in Spots /\ gt[i] \in Tris
                            /\ \A k \in 1..3 : gt[i].v[k] \in 0..(l - 1)
         /\ \A i \in 1..b : FacetAt(h, i) \in Spots /\ ht[i] \in Tris
                            /\ \A k \in 1..3 : ht[i].v[k] \in 0..(m - 1)
    BY FacetType DEF Whole
  <1>01. /\ \A i : FacetAt(g, i) = [at |-> [k \in 1..3 |-> gv[gt[i].v[k] + 1]], paint |-> gt[i].paint]
         /\ \A i : FacetAt(h, i) = [at |-> [k \in 1..3 |-> hv[ht[i].v[k] + 1]], paint |-> ht[i].paint]
         /\ \A i : FacetAt(all, i) = [at |-> [k \in 1..3 |-> vs[ts[i].v[k] + 1]], paint |-> ts[i].paint]
    BY DEF FacetAt, Geometry
  <1>5. all.vertices = vs /\ all.triangles = ts
    BY DEF Geometry
  <1> HIDE DEF all, gv, hv, gt, ht
  <1>1. l \in Nat /\ m \in Nat /\ a \in Nat /\ b \in Nat
    BY <1>0, LenProperties
  <1>2. /\ vs \in Seq(Int) /\ Len(vs) = l + m
        /\ \A i \in 1..(l + m) : vs[i] = IF i <= l THEN gv[i] ELSE hv[i - l]
    BY <1>0, ConcatProperties
  <1> HIDE DEF l
  <1>3. /\ later \in Seq(Tris) /\ Len(later) = b
        /\ \A i \in 1..b : later[i] = [v |-> [k \in 1..3 |-> ht[i].v[k] + l],
                                       paint |-> ht[i].paint]
    BY <1>0, <1>1, ShiftedType
  <1> HIDE DEF later
  <1>4. /\ ts \in Seq(Tris) /\ Len(ts) = a + b
        /\ \A i \in 1..(a + b) : ts[i] = IF i <= a THEN gt[i] ELSE later[i - a]
    <2>1. /\ gt \o later \in Seq(Tris) /\ Len(gt \o later) = Len(gt) + Len(later)
          /\ \A i \in 1..(Len(gt) + Len(later)) :
                (gt \o later)[i] = IF i <= Len(gt) THEN gt[i] ELSE later[i - Len(gt)]
      <3>1. gt \in Seq(Tris) /\ later \in Seq(Tris)
        BY <1>0, <1>3
      <3> QED BY <3>1, ConcatProperties
    <2>2. Len(gt) = a /\ Len(later) = b
      BY <1>3
    <2> HIDE DEF a
    <2> QED BY <2>1, <2>2
  <1> HIDE DEF vs, ts, m, a, b
  <1>6. IsGeometry(all)
    BY <1>2, <1>4, <1>5 DEF IsGeometry
  <1>7. ASSUME NEW i \in 1..a
        PROVE  FacetAt(all, i) = FacetAt(g, i) /\ \A k \in 1..3 : ts[i].v[k] \in 0..(Len(vs) - 1)
    <2>1. i \in 1..(a + b) /\ i <= a
      BY <1>1
    <2>2. ts[i] = gt[i]
      BY <1>4, <2>1
    <2>3. ASSUME NEW k \in 1..3
          PROVE  vs[gt[i].v[k] + 1] = gv[gt[i].v[k] + 1] /\ ts[i].v[k] \in 0..(Len(vs) - 1)
      <3> DEFINE x == gt[i].v[k]
      <3>1. x \in 0..(l - 1)
        BY <1>00
      <3>2. ts[i].v[k] = x
        BY <2>2
      <3> HIDE DEF x
      <3>3. x + 1 \in 1..(l + m) /\ x + 1 <= l /\ x \in 0..((l + m) - 1)
        BY <1>1, <3>1, CornerPlaces
      <3> QED BY <1>2, <3>2, <3>3 DEF x
    <2>4. [k \in 1..3 |-> vs[ts[i].v[k] + 1]] = [k \in 1..3 |-> gv[gt[i].v[k] + 1]]
      BY <2>2, <2>3
    <2> QED BY <1>01, <2>2, <2>3, <2>4
  <1>8. ASSUME NEW i \in 1..b
        PROVE  /\ FacetAt(all, a + i) = FacetAt(h, i)
               /\ \A k \in 1..3 : ts[a + i].v[k] \in 0..(Len(vs) - 1)
    <2>1. a + i \in 1..(a + b) /\ ~(a + i <= a) /\ (a + i) - a = i
      BY <1>1
    <2>2. ts[a + i] = later[i]
      BY <1>4, <2>1
    <2>3. later[i] = [v |-> [k \in 1..3 |-> ht[i].v[k] + l], paint |-> ht[i].paint]
      BY <1>3
    <2>4. ASSUME NEW k \in 1..3
          PROVE  vs[ts[a + i].v[k] + 1] = hv[ht[i].v[k] + 1] /\ ts[a + i].v[k] \in 0..(Len(vs) - 1)
      <3> DEFINE x == ht[i].v[k]
      <3>1. x \in 0..(m - 1)
        BY <1>00
      <3>2. ts[a + i].v[k] = x + l
        BY <2>2, <2>3
      <3> HIDE DEF x
      <3>3. /\ (x + l) + 1 \in 1..(l + m) /\ ~((x + l) + 1 <= l) /\ ((x + l) + 1) - l = x + 1
            /\ x + l \in 0..((l + m) - 1)
        BY <1>1, <3>1, CornerPlaces
      <3> QED BY <1>2, <3>2, <3>3 DEF x
    <2>5. [k \in 1..3 |-> vs[ts[a + i].v[k] + 1]] = [k \in 1..3 |-> hv[ht[i].v[k] + 1]]
      BY <2>4
    <2>6. ts[a + i].paint = ht[i].paint
      BY <2>2, <2>3
    <2> QED BY <1>01, <2>4, <2>5, <2>6
  <1>9. \A i \in 1..(a + b) : (i \in 1..a /\ i <= a) \/ (i - a \in 1..b /\ a + (i - a) = i /\ ~(i <= a))
    BY <1>1
  <1>10. Whole(all)
    <2> SUFFICES ASSUME NEW i \in 1..(a + b) PROVE \A k \in 1..3 : ts[i].v[k] \in 0..(Len(vs) - 1)
      BY <1>4, <1>5 DEF Whole
    <2>1. CASE i \in 1..a
      BY <1>7, <2>1
    <2>2. CASE i - a \in 1..b /\ a + (i - a) = i
      <3>1. \A k \in 1..3 : ts[a + (i - a)].v[k] \in 0..(Len(vs) - 1)
        BY <1>8, <2>2
      <3> QED BY <2>2, <3>1
    <2> QED BY <1>9, <2>1, <2>2
  <1> DEFINE f1 == FacetsOf(g)
             f2 == FacetsOf(h)
             both == f1 \o f2
             facets == FacetsOf(all)
  <1>11. /\ f1 \in Seq(Spots) /\ Len(f1) = a /\ f1 = [i \in 1..a |-> FacetAt(g, i)]
         /\ f2 \in Seq(Spots) /\ Len(f2) = b /\ f2 = [i \in 1..b |-> FacetAt(h, i)]
    BY FacetsType DEF a, b, gt, ht
  <1>12. facets \in Seq(Spots) /\ Len(facets) = a + b
         /\ facets = [i \in 1..(a + b) |-> FacetAt(all, i)]
    <2>1. Len(all.triangles) = a + b
      BY <1>4, <1>5
    <2> QED BY <1>6, <1>10, <2>1, FacetsType
  <1> HIDE DEF f1, f2, both, facets
  <1>13. /\ both \in Seq(Spots) /\ Len(both) = a + b
         /\ \A i \in 1..(a + b) : both[i] = IF i <= a THEN f1[i] ELSE f2[i - a]
    <2>1. Joins(both, f1, f2)
      BY DEF both, Joins
    <2>2. both \in Seq(Spots) /\ Concatenated(both, f1, f2, Len(f1), Len(f2))
      BY <1>11, <2>1, ConcatIndexed
    <2> QED BY <1>11, <2>2 DEF Concatenated
  <1>14. ASSUME NEW i \in 1..(a + b) PROVE facets[i] = both[i]
    <2>0. facets[i] = FacetAt(all, i)
      BY <1>12
    <2>1. CASE i \in 1..a /\ i <= a
      <3>1. both[i] = f1[i]
        BY <1>13, <2>1
      <3>2. f1[i] = FacetAt(g, i)
        BY <1>11, <2>1
      <3> QED BY <1>7, <2>0, <2>1, <3>1, <3>2
    <2>2. CASE i - a \in 1..b /\ a + (i - a) = i /\ ~(i <= a)
      <3>1. FacetAt(all, a + (i - a)) = FacetAt(h, i - a)
        BY <1>8, <2>2
      <3>2. both[i] = f2[i - a]
        BY <1>13, <2>2
      <3>3. f2[i - a] = FacetAt(h, i - a)
        BY <1>11, <2>2
      <3> QED BY <2>0, <2>2, <3>1, <3>2, <3>3
    <2> QED BY <1>9, <2>1, <2>2
  <1>15. facets = both
    BY <1>12, <1>13, <1>14, SeqEqual
  <1>16. Len(all.triangles) = Len(g.triangles) + Len(h.triangles)
    BY <1>4, <1>5 DEF a, b, gt, ht
  <1>17. all = Geometry(g.vertices \o h.vertices, g.triangles \o Shifted(h.triangles, Len(g.vertices)))
    BY DEF all, vs, ts, later, l, gv, hv, gt, ht
  <1> QED BY <1>6, <1>10, <1>15, <1>16, <1>17 DEF facets, both, f1, f2

-----------------------------------------------------------------------------
(* The meshes of a source, put together.                                   *)

MeshSet    == [vertices : Seq(Int), triangles : Seq(Tris)]
LeafSet == [ok : BOOLEAN, geometry : MeshSet, m : Matrices]

\* A leaf that is a mesh whose triangles have their corners.
SoundLeaf == {leaf \in LeafSet : leaf.ok /\ Whole(leaf.geometry)}

LeafFacets(leaf) == Place(FacetsOf(leaf.geometry), leaf.m)

\* What stands in the leaves, where they are.
Shown(leaves) == FlattenSeq([i \in 1..Len(leaves) |-> LeafFacets(leaves[i])])

\* The facets of a leaf, and of all leaves together.
LEMMA LeafFacetsType ==
  ASSUME NEW leaf \in SoundLeaf
  PROVE  /\ IsGeometry(leaf.geometry) /\ Whole(leaf.geometry) /\ leaf.m \in Matrices /\ leaf.ok
         /\ FacetsOf(leaf.geometry) \in Seq(Spots) /\ LeafFacets(leaf) \in Seq(Spots)
  <1>1. IsGeometry(leaf.geometry) /\ Whole(leaf.geometry) /\ leaf.m \in Matrices /\ leaf.ok
    BY DEF SoundLeaf, LeafSet, MeshSet, IsGeometry
  <1>2. FacetsOf(leaf.geometry) \in Seq(Spots)
    BY <1>1, FacetsType
  <1>3. LeafFacets(leaf) \in Seq(Spots)
    BY <1>1, <1>2, PlaceType DEF LeafFacets
  <1> QED BY <1>1, <1>2, <1>3

LEMMA ShownType ==
  ASSUME NEW leaves \in Seq(SoundLeaf)
  PROVE  /\ [i \in 1..Len(leaves) |-> LeafFacets(leaves[i])] \in Seq(Seq(Spots))
         /\ Shown(leaves) \in Seq(Spots)
  <1> DEFINE n == Len(leaves)
             each == [i \in 1..n |-> LeafFacets(leaves[i])]
             S == Seq(Spots)
  <1>1. n \in Nat /\ \A i \in 1..n : leaves[i] \in SoundLeaf
    BY LenProperties, ElementOfSeq
  <1>2. each \in [1..n -> S]
    BY <1>1, LeafFacetsType
  <1>3. each \in Seq(S)
    <2> HIDE DEF each, S, n
    <2> QED BY <1>1, <1>2, FamilyIsSeq
  <1>4. <<>> \in Seq(Spots)
    BY EmptySeq
  <1> HIDE DEF each
  <1>5. FlattenSeq(each) \in Seq(Spots)
    BY <1>3, <1>4, FlattenAppend
  <1> QED BY <1>3, <1>5 DEF Shown, each

LEMMA ShownNothing == Shown(<<>>) = <<>>
  <1>1. [i \in 1..Len(<<>>) |-> LeafFacets(<<>>[i])] = <<>>
    OBVIOUS
  <1> QED BY <1>1, FlattenNothing DEF Shown

\* What stands in two lists of leaves, and in many.
LEMMA ShownConcat ==
  ASSUME NEW s \in Seq(SoundLeaf), NEW t \in Seq(SoundLeaf)
  PROVE  Shown(s \o t) = Shown(s) \o Shown(t)
  <1> DEFINE each(ls) == [i \in 1..Len(ls) |-> LeafFacets(ls[i])]
             a == each(s)
             b == each(t)
             c == each(s \o t)
             d == a \o b
             l == Len(s)
             n == Len(t)
             X == Seq(Spots)
  <1>1. /\ s \o t \in Seq(SoundLeaf) /\ Len(s \o t) = l + n /\ l \in Nat /\ n \in Nat
        /\ \A i \in 1..(l + n) : (s \o t)[i] = IF i <= l THEN s[i] ELSE t[i - l]
    BY ConcatProperties, LenProperties
  <1>2. a \in Seq(X) /\ b \in Seq(X) /\ c \in Seq(X)
    BY <1>1, ShownType
  <1>3. Len(a) = l /\ Len(b) = n /\ Len(c) = l + n
    BY <1>1
  <1>30. /\ \A i \in 1..l : a[i] = LeafFacets(s[i])
         /\ \A i \in 1..n : b[i] = LeafFacets(t[i])
         /\ \A i \in 1..(l + n) : c[i] = LeafFacets((s \o t)[i])
    BY <1>1
  <1> HIDE DEF a, b, c, l, n, X
  <1>4. /\ d \in Seq(X) /\ Len(d) = l + n
        /\ \A i \in 1..(l + n) : d[i] = IF i <= l THEN a[i] ELSE b[i - l]
    BY <1>2, <1>3, ConcatProperties
  <1> HIDE DEF d
  <1>5. ASSUME NEW i \in 1..(l + n) PROVE c[i] = d[i]
    <2>1. CASE i <= l
      <3>1. i \in 1..l
        BY <1>1, <2>1
      <3> QED BY <1>1, <1>30, <1>4, <2>1, <3>1
    <2>2. CASE ~(i <= l)
      <3>1. i - l \in 1..n
        BY <1>1, <2>2
      <3> QED BY <1>1, <1>30, <1>4, <2>2, <3>1
    <2> QED BY <2>1, <2>2
  <1>6. c = d
    BY <1>2, <1>3, <1>4, <1>5, SeqEqual
  <1>7. FlattenSeq(d) = FlattenSeq(a) \o FlattenSeq(b)
    BY <1>2, FlattenConcat DEF X, d
  <1> QED BY <1>6, <1>7 DEF Shown, a, b, c

LEMMA ShownFlattened ==
  ASSUME NEW ll \in Seq(Seq(SoundLeaf))
  PROVE  /\ [i \in 1..Len(ll) |-> Shown(ll[i])] \in Seq(Seq(Spots))
         /\ Shown(FlattenSeq(ll)) = FlattenSeq([i \in 1..Len(ll) |-> Shown(ll[i])])
  <1> DEFINE h == [s \in Seq(SoundLeaf) |-> Shown(s)]
             each == [i \in 1..Len(ll) |-> h[ll[i]]]
  <1>1. Morphism(h, SoundLeaf, Spots)
    <2>1. h \in [Seq(SoundLeaf) -> Seq(Spots)]
      BY ShownType
    <2>2. <<>> \in Seq(SoundLeaf)
      BY EmptySeq
    <2>3. h[<<>>] = <<>>
      BY <2>2, ShownNothing
    <2>4. ASSUME NEW s \in Seq(SoundLeaf), NEW t \in Seq(SoundLeaf) PROVE h[s \o t] = h[s] \o h[t]
      BY ShownConcat, ConcatProperties
    <2> HIDE DEF h
    <2> QED BY <2>1, <2>3, <2>4 DEF Morphism
  <1>2. FlattenSeq(ll) \in Seq(SoundLeaf)
    <2>1. <<>> \in Seq(SoundLeaf)
      BY EmptySeq
    <2> QED BY <2>1, FlattenAppend
  <1>3. h[FlattenSeq(ll)] = Shown(FlattenSeq(ll))
    BY <1>2
  <1>4. each = [i \in 1..Len(ll) |-> Shown(ll[i])]
    BY ElementOfSeq
  <1> HIDE DEF h
  <1>5. each \in Seq(Seq(Spots)) /\ h[FlattenSeq(ll)] = FlattenSeq(each)
    BY <1>1, FlattenMorphism
  <1> QED BY <1>3, <1>4, <1>5

\* A mesh that could be added is placed among those before it.
LEMMA MeshAdded ==
  ASSUME NEW g \in MeshSet, NEW m \in Matrices, NEW acc, IsGeometry(acc), Whole(acc),
         AddMesh(g, m, acc).ok
  PROVE  /\ Whole(g) /\ IsGeometry(AddMesh(g, m, acc)) /\ Whole(AddMesh(g, m, acc))
         /\ FacetsOf(AddMesh(g, m, acc)) = FacetsOf(acc) \o Place(FacetsOf(g), m)
  <1> DEFINE vs == MovedAll(g.vertices, m)
             ts == Rewound(g.triangles, m)
             l == Len(acc.vertices)
             moved == Geometry(vs, ts)
             new == AddMesh(g, m, acc)
             joined == Geometry(acc.vertices \o vs, acc.triangles \o Shifted(ts, l))
  <1>1. IsGeometry(g) /\ DOMAIN g.vertices = 1..Len(g.vertices)
        /\ DOMAIN g.triangles = 1..Len(g.triangles)
    BY LenProperties DEF MeshSet, IsGeometry
  <1>2. /\ \A t \in ToSet(g.triangles) : \A k \in 1..3 : t.v[k] \in 0..(Len(g.vertices) - 1)
        /\ new.vertices = acc.vertices \o [i \in DOMAIN g.vertices |-> Apply(g.vertices[i], m)]
        /\ new.triangles = acc.triangles \o
             [i \in DOMAIN g.triangles |->
                [g.triangles[i] EXCEPT !.v = [k \in 1..3 |-> Winding(g.triangles[i].v, m)[k] + l]]]
    BY DEF AddMesh, Failed
  <1>3. Whole(g)
    <2> SUFFICES ASSUME NEW i \in 1..Len(g.triangles)
                 PROVE  \A k \in 1..3 : g.triangles[i].v[k] \in 0..(Len(g.vertices) - 1)
      BY DEF Whole
    <2>1. g.triangles[i] \in ToSet(g.triangles)
      BY <1>1 DEF ToSet
    <2> QED BY <1>2, <2>1
  <1>4. new.vertices = acc.vertices \o vs
    BY <1>1, <1>2 DEF MovedAll
  <1>5. [i \in DOMAIN g.triangles |->
            [g.triangles[i] EXCEPT !.v = [k \in 1..3 |-> Winding(g.triangles[i].v, m)[k] + l]]]
          = Shifted(ts, l)
    <2>1. \A i \in 1..Len(g.triangles) : g.triangles[i] \in Tris
      BY <1>1, <1>3, FacetType
    <2>2. /\ Len(ts) = Len(g.triangles)
          /\ \A i \in 1..Len(g.triangles) : ts[i] = [v |-> Winding(g.triangles[i].v, m),
                                                      paint |-> g.triangles[i].paint]
      BY <1>1, RewoundType DEF IsGeometry
    <2> HIDE DEF ts
    <2>3. ASSUME NEW i \in 1..Len(g.triangles)
          PROVE  [g.triangles[i] EXCEPT !.v = [k \in 1..3 |-> Winding(g.triangles[i].v, m)[k] + l]]
                  = [v |-> [k \in 1..3 |-> ts[i].v[k] + l], paint |-> ts[i].paint]
      <3>0. ts[i] = [v |-> Winding(g.triangles[i].v, m), paint |-> g.triangles[i].paint]
        BY <2>2
      <3>1. ts[i].v = Winding(g.triangles[i].v, m) /\ ts[i].paint = g.triangles[i].paint
        BY <3>0
      <3> DEFINE w == Winding(g.triangles[i].v, m)
      <3> HIDE DEF w, l
      <3>2. g.triangles[i] = [v |-> g.triangles[i].v, paint |-> g.triangles[i].paint]
        BY <2>1 DEF Tris
      <3> QED BY <3>1, <3>2 DEF w
    <2> QED BY <1>1, <2>2, <2>3 DEF Shifted
  <1>6. new.triangles = acc.triangles \o Shifted(ts, l)
    BY <1>2, <1>5
  <1>7. IsGeometry(moved) /\ Whole(moved) /\ FacetsOf(moved) = Place(FacetsOf(g), m)
    BY <1>1, <1>3, MovedGeometry
  <1>8. moved.vertices = vs /\ moved.triangles = ts
    BY DEF Geometry
  <1>9. /\ IsGeometry(joined) /\ Whole(joined) /\ FacetsOf(joined) = FacetsOf(acc) \o FacetsOf(moved)
    <2> HIDE DEF moved, vs, ts
    <2> QED BY <1>7, <1>8, JoinedGeometry
  <1>10. joined.vertices = new.vertices /\ joined.triangles = new.triangles
    BY <1>4, <1>6 DEF Geometry
  <1> HIDE DEF joined, new, moved, vs, ts
  <1>11. IsGeometry(new) /\ Whole(new) /\ FacetsOf(new) = FacetsOf(joined)
    BY <1>9, <1>10 DEF IsGeometry, Whole, FacetsOf
  <1> QED BY <1>3, <1>7, <1>9, <1>11 DEF new

\* What there is after each of the leaves.
FlatAfter(leaves, flat) ==
    /\ flat[0] = [Failed EXCEPT !.ok = TRUE]
    /\ \A k \in 1..Len(leaves) :
          flat[k] = IF flat[k - 1].ok /\ leaves[k].ok
                    THEN AddMesh(leaves[k].geometry, leaves[k].m, flat[k - 1]) ELSE Failed

\* Flattened, one leaf after another.
LEMMA FlattenedRecursion ==
  ASSUME NEW leaves, Len(leaves) \in Nat
  PROVE  \E flat : Flattened(leaves) = flat[Len(leaves)] /\ FlatAfter(leaves, flat)
  <1> DEFINE n == Len(leaves)
             base == [Failed EXCEPT !.ok = TRUE]
             stage(acc, k) == IF acc.ok /\ leaves[k].ok
                             THEN AddMesh(leaves[k].geometry, leaves[k].m, acc) ELSE Failed
             body(f, m) == [k \in 0..m |-> IF k = 0 THEN base ELSE stage(f[k - 1], k)]
             flat == CHOOSE f : f = body(f, n)
             T == {m \in Nat : \E f : f = body(f, m)}
  <1>1. Flattened(leaves) = flat[n]
    BY DEF Flattened
  <1> HIDE DEF base, stage, n
  <1>2. 0 \in T
    <2>1. [k \in 0..0 |-> base] = body([k \in 0..0 |-> base], 0)
      OBVIOUS
    <2> QED BY <2>1
  <1>3. ASSUME NEW m \in T PROVE m + 1 \in T
    <2>1. PICK f : f = body(f, m)
      OBVIOUS
    <2> DEFINE g == [k \in 0..(m + 1) |-> IF k = m + 1 THEN stage(f[m], m + 1) ELSE f[k]]
    <2>2. m \in Nat /\ m + 1 \in Nat /\ \A k \in 0..m : f[k] = IF k = 0 THEN base ELSE stage(f[k - 1], k)
      BY <2>1
    <2>3. ASSUME NEW k \in 0..(m + 1) PROVE g[k] = IF k = 0 THEN base ELSE stage(g[k - 1], k)
      <3>1. CASE k = m + 1
        <4>1. k # 0 /\ k - 1 = m /\ m \in 0..(m + 1) /\ m # m + 1
          BY <2>2, <3>1
        <4> QED BY <3>1, <4>1
      <3>2. CASE k # m + 1
        <4>1. k \in 0..m /\ (k # 0 => k - 1 \in 0..(m + 1) /\ k - 1 # m + 1)
          BY <2>2, <3>2
        <4> QED BY <2>2, <3>2, <4>1
      <3> QED BY <3>1, <3>2
    <2>4. g = body(g, m + 1)
      BY <2>3
    <2> QED BY <2>2, <2>4
  <1>4. n \in T
    <2>1. T \subseteq Nat /\ n \in Nat
      BY DEF n
    <2> HIDE DEF T
    <2> QED BY <1>2, <1>3, <2>1, AllNat
  <1>5. flat = body(flat, n)
    BY <1>4
  <1> HIDE DEF flat
  <1>6. flat[0] = base /\ \A k \in 1..n : flat[k] = stage(flat[k - 1], k)
    <2>1. n \in Nat /\ 0 \in 0..n /\ \A k \in 1..n : k \in 0..n /\ k # 0
      BY DEF n
    <2>2. \A k \in 0..n : flat[k] = IF k = 0 THEN base ELSE stage(flat[k - 1], k)
      BY <1>5
    <2> QED BY <2>1, <2>2
  <1>7. FlatAfter(leaves, flat)
    BY <1>6 DEF FlatAfter, n, base, stage
  <1> QED BY <1>1, <1>7 DEF n

\* What is put together without a failure shows every leaf where it is.
LEMMA FlattenedMeans ==
  ASSUME NEW leaves \in Seq(LeafSet), Flattened(leaves).ok
  PROVE  /\ leaves \in Seq(SoundLeaf)
         /\ IsGeometry(Flattened(leaves)) /\ Whole(Flattened(leaves))
         /\ FacetsOf(Flattened(leaves)) = Shown(leaves)
  <1> DEFINE n == Len(leaves)
             first(k) == SubSeq(leaves, 1, k)
  <1>1. n \in Nat /\ \A i \in 1..n : leaves[i] \in LeafSet
    BY LenProperties, ElementOfSeq
  <1>20. PICK flat : Flattened(leaves) = flat[n] /\ FlatAfter(leaves, flat)
    BY <1>1, FlattenedRecursion
  <1>2. /\ Flattened(leaves) = flat[n]
        /\ flat[0] = [Failed EXCEPT !.ok = TRUE]
        /\ \A k \in 1..n : flat[k] = IF flat[k - 1].ok /\ leaves[k].ok
                                     THEN AddMesh(leaves[k].geometry, leaves[k].m, flat[k - 1])
                                     ELSE Failed
    BY <1>20 DEF FlatAfter
  <1> DEFINE means(k) == /\ first(k) \in Seq(SoundLeaf)
                         /\ IsGeometry(flat[k]) /\ Whole(flat[k])
                         /\ FacetsOf(flat[k]) = Shown(first(k))
             T == {k \in Nat : k <= n /\ flat[k].ok => means(k)}
  <1>3. 0 \in T
    <2>1. first(0) = <<>> /\ <<>> \in Seq(SoundLeaf)
      OBVIOUS
    <2>2. flat[0].vertices = <<>> /\ flat[0].triangles = <<>>
      BY <1>2 DEF Failed
    <2>3. FacetsOf(flat[0]) = <<>>
      BY <2>2 DEF FacetsOf
    <2>4. IsGeometry(flat[0])
      BY <2>2 DEF IsGeometry
    <2>5. Whole(flat[0])
      BY <2>2 DEF Whole
    <2> HIDE DEF first
    <2> QED BY <2>1, <2>3, <2>4, <2>5, ShownNothing
  <1>4. ASSUME NEW k \in T PROVE k + 1 \in T
    <2> SUFFICES ASSUME k + 1 <= n, flat[k + 1].ok PROVE means(k + 1)
      OBVIOUS
    <2> DEFINE leaf == leaves[k + 1]
               acc == flat[k]
               new == AddMesh(leaf.geometry, leaf.m, acc)
    <2>1. /\ k \in Nat /\ k <= n /\ k + 1 \in 1..n /\ (k + 1) - 1 = k
          /\ (flat[k].ok => means(k))
      BY <1>1
    <2>2. flat[k + 1] = IF flat[k].ok /\ leaf.ok THEN new ELSE Failed
      BY <1>2, <2>1
    <2>3. flat[k].ok /\ leaf.ok /\ flat[k + 1] = new
      BY <2>2 DEF Failed
    <2>4. means(k)
      BY <2>1, <2>3
    <2>5. leaf \in LeafSet /\ leaf.geometry \in MeshSet /\ leaf.m \in Matrices
      BY <1>1, <2>1 DEF LeafSet
    <2>6. /\ Whole(leaf.geometry) /\ IsGeometry(new) /\ Whole(new)
          /\ FacetsOf(new) = FacetsOf(acc) \o LeafFacets(leaf)
      <3>1. IsGeometry(acc) /\ Whole(acc) /\ new.ok
        BY <2>3, <2>4
      <3> HIDE DEF leaf, acc
      <3> QED BY <2>5, <3>1, MeshAdded DEF LeafFacets
    <2>7. leaf \in SoundLeaf
      BY <2>3, <2>5, <2>6 DEF SoundLeaf
    <2>8. first(k + 1) = first(k) \o <<leaf>> /\ <<leaf>> \in Seq(SoundLeaf)
      <3>1. first(k + 1) = Append(first(k), leaf)
        BY <1>1, <2>1
      <3>2. first(k) \in Seq(SoundLeaf)
        BY <2>4
      <3> HIDE DEF first, leaf
      <3>3. Append(first(k), leaf) = first(k) \o <<leaf>> /\ <<leaf>> \in Seq(SoundLeaf)
        <4> DEFINE s == first(k)
        <4> HIDE DEF s
        <4> QED BY <2>7, <3>2 DEF s
      <3> QED BY <3>1, <3>3
    <2>9. Shown(<<leaf>>) = LeafFacets(leaf)
      <3> HIDE DEF leaf
      <3>1. [i \in 1..Len(<<leaf>>) |-> LeafFacets(<<leaf>>[i])] = <<LeafFacets(leaf)>>
        OBVIOUS
      <3> QED BY <2>7, <3>1, LeafFacetsType, FlattenOne DEF Shown
    <2> HIDE DEF first, leaf, acc, new
    <2>10. first(k) \in Seq(SoundLeaf) /\ FacetsOf(acc) = Shown(first(k))
      BY <2>4 DEF acc
    <2>11. first(k + 1) \in Seq(SoundLeaf) /\ Shown(first(k + 1)) = FacetsOf(acc) \o LeafFacets(leaf)
      BY <2>8, <2>9, <2>10, ShownConcat, ConcatProperties
    <2> QED BY <2>3, <2>6, <2>11
  <1>5. n \in T
    <2>1. T \subseteq Nat
      OBVIOUS
    <2> HIDE DEF T
    <2> QED BY <1>1, <1>3, <1>4, <2>1, AllNat
  <1>6. means(n)
    <2> HIDE DEF means
    <2> QED BY <1>1, <1>2, <1>5
  <1>7. first(n) = leaves
    BY <1>1
  <1> QED BY <1>2, <1>6, <1>7

-----------------------------------------------------------------------------
(* The graph of a source: its leaves, and what it means.                   *)

Placements == Seq([ref : Nat, m : Matrices])
ObjectSet  == [mesh : BOOLEAN, components : Placements, geometry : MeshSet]
Node       == [above : SUBSET Nat, id : Nat, m : Matrices]

IsGraph(objects) == DOMAIN objects \subseteq Nat
                    /\ \A id \in DOMAIN objects : objects[id] \in ObjectSet

\* What is read as a document is a graph of objects and what is built of it.
LEMMA DocumentGraph ==
  ASSUME NEW doc, IsDocument(doc)
  PROVE  IsGraph(doc.objects) /\ doc.items \in Placements
  BY DEF IsDocument, IsGraph, ObjectSet, Placements, MeshSet, Tris, Corner3

\* The node of a component.
ChildNode(at, c) == [above |-> at.above \cup {at.id}, id |-> c.ref, m |-> Multiply(c.m, at.m)]

NotMesh(objects, at, n) ==
    \/ at.id \in at.above \/ n = 0 \/ at.id \notin DOMAIN objects \/ at.m.s = 0
    \/ ~objects[at.id].mesh /\ objects[at.id].components = <<>>

\* The leaves below a node, from those of a level less.
Under(objects, at, n, deeper) ==
    IF NotMesh(objects, at, n) THEN <<NoLeaf>>
    ELSE IF objects[at.id].mesh
    THEN <<[ok |-> TRUE, geometry |-> objects[at.id].geometry, m |-> at.m]>>
    ELSE FlattenSeq([i \in DOMAIN objects[at.id].components |->
                        deeper[ChildNode(at, objects[at.id].components[i])]])

LeavesBelow(objects, leaves) ==
    \A n \in 0..MaxGraphDepth : leaves[n] = [at \in Node |-> Under(objects, at, n, leaves[n - 1])]

\* What an object means, from what those a level below mean.
MeantBy(objects, id, n, deeper) ==
    LET cs == objects[id].components
    IN IF objects[id].mesh THEN FacetsOf(objects[id].geometry)
       ELSE IF n = 0 THEN <<>>
       ELSE FlattenSeq([k \in DOMAIN cs |-> Place(deeper[cs[k].ref], cs[k].m)])

Meant(objects, meaning) ==
    \A n \in 0..MaxGraphDepth :
        meaning[n] = [id \in DOMAIN objects |-> MeantBy(objects, id, n, meaning[n - 1])]

\* Leaves and Meaning, level by level.
LEMMA LeavesRecursion ==
  ASSUME NEW objects, NEW item, NEW parent
  PROVE  \E leaves : /\ LeavesBelow(objects, leaves)
                     /\ Leaves(objects, item, parent) =
                          leaves[MaxGraphDepth][[above |-> {}, id |-> item.ref,
                                                 m |-> Multiply(item.m, parent)]]
  <1> DEFINE d == MaxGraphDepth
             stage(deeper, n) == [at \in Node |-> Under(objects, at, n, deeper)]
             body(f, m) == [n \in 0..m |-> stage(f[n - 1], n)]
             leaves == CHOOSE f : f = body(f, d)
             T == {m \in Nat : \E f : f = body(f, m)}
  <1>0. d \in Nat
    BY PackageAssumption
  <1>1. Leaves(objects, item, parent) =
          leaves[d][[above |-> {}, id |-> item.ref, m |-> Multiply(item.m, parent)]]
    BY DEF Leaves, Under, NotMesh, ChildNode, Node
  <1>2. \A x, y : stage(x, 0) = stage(y, 0)
    BY DEF Under, NotMesh
  <1> HIDE DEF stage, d
  <1>3. 0 \in T
    <2> DEFINE f == [n \in 0..0 |-> stage(0, 0)]
    <2>1. \A n \in 0..0 : n = 0
      OBVIOUS
    <2>2. \A n \in 0..0 : f[n] = stage(f[n - 1], n)
      <3>1. f[0] = stage(0, 0)
        OBVIOUS
      <3> HIDE DEF f
      <3> QED BY <1>2, <2>1, <3>1
    <2>3. f = body(f, 0)
      BY <2>2
    <2> QED BY <2>3
  <1>4. ASSUME NEW m \in T PROVE m + 1 \in T
    <2>1. PICK f : f = body(f, m)
      OBVIOUS
    <2> DEFINE g == [k \in 0..(m + 1) |-> IF k = m + 1 THEN stage(f[m], m + 1) ELSE f[k]]
    <2>2. m \in Nat /\ m + 1 \in Nat /\ \A k \in 0..m : f[k] = stage(f[k - 1], k)
      BY <2>1
    <2>3. ASSUME NEW k \in 0..(m + 1) PROVE g[k] = stage(g[k - 1], k)
      <3>1. CASE k = m + 1
        <4>1. k - 1 = m /\ m \in 0..(m + 1) /\ m # m + 1
          BY <2>2, <3>1
        <4> QED BY <3>1, <4>1
      <3>2. CASE k # m + 1 /\ k # 0
        <4>1. k \in 0..m /\ k - 1 \in 0..(m + 1) /\ k - 1 # m + 1
          BY <2>2, <3>2
        <4> QED BY <2>2, <3>2, <4>1
      <3>3. CASE k = 0
        <4>1. 0 \in 0..m /\ 0 \in 0..(m + 1) /\ 0 # m + 1
          BY <2>2
        <4>2. g[0] = f[0] /\ f[0] = stage(f[0 - 1], 0)
          BY <2>2, <4>1
        <4> HIDE DEF g
        <4> QED BY <1>2, <3>3, <4>2
      <3> QED BY <3>1, <3>2, <3>3
    <2>4. g = body(g, m + 1)
      BY <2>3
    <2> QED BY <2>2, <2>4
  <1>5. d \in T
    <2>1. T \subseteq Nat
      OBVIOUS
    <2> HIDE DEF T
    <2> QED BY <1>0, <1>3, <1>4, <2>1, AllNat
  <1>6. leaves = body(leaves, d)
    BY <1>5
  <1> HIDE DEF leaves
  <1>7. \A n \in 0..d : leaves[n] = stage(leaves[n - 1], n)
    BY <1>6
  <1>8. LeavesBelow(objects, leaves)
    BY <1>7 DEF LeavesBelow, stage, d
  <1> QED BY <1>1, <1>8 DEF d

LEMMA MeaningRecursion ==
  ASSUME NEW objects
  PROVE  \E meaning : /\ Meant(objects, meaning)
                      /\ \A id : Meaning(objects, id) = meaning[MaxGraphDepth][id]
  <1> DEFINE d == MaxGraphDepth
             stage(deeper, n) == [id \in DOMAIN objects |-> MeantBy(objects, id, n, deeper)]
             body(f, m) == [n \in 0..m |-> stage(f[n - 1], n)]
             meaning == CHOOSE f : f = body(f, d)
             T == {m \in Nat : \E f : f = body(f, m)}
  <1>0. d \in Nat
    BY PackageAssumption
  <1>1. \A id : Meaning(objects, id) = meaning[d][id]
    BY DEF Meaning, MeantBy
  <1>2. \A x, y : stage(x, 0) = stage(y, 0)
    BY DEF MeantBy
  <1> HIDE DEF stage, d
  <1>3. 0 \in T
    <2> DEFINE f == [n \in 0..0 |-> stage(0, 0)]
    <2>1. \A n \in 0..0 : n = 0
      OBVIOUS
    <2>2. \A n \in 0..0 : f[n] = stage(f[n - 1], n)
      <3>1. f[0] = stage(0, 0)
        OBVIOUS
      <3> HIDE DEF f
      <3> QED BY <1>2, <2>1, <3>1
    <2>3. f = body(f, 0)
      BY <2>2
    <2> QED BY <2>3
  <1>4. ASSUME NEW m \in T PROVE m + 1 \in T
    <2>1. PICK f : f = body(f, m)
      OBVIOUS
    <2> DEFINE g == [k \in 0..(m + 1) |-> IF k = m + 1 THEN stage(f[m], m + 1) ELSE f[k]]
    <2>2. m \in Nat /\ m + 1 \in Nat /\ \A k \in 0..m : f[k] = stage(f[k - 1], k)
      BY <2>1
    <2>3. ASSUME NEW k \in 0..(m + 1) PROVE g[k] = stage(g[k - 1], k)
      <3>1. CASE k = m + 1
        <4>1. k - 1 = m /\ m \in 0..(m + 1) /\ m # m + 1
          BY <2>2, <3>1
        <4> QED BY <3>1, <4>1
      <3>2. CASE k # m + 1 /\ k # 0
        <4>1. k \in 0..m /\ k - 1 \in 0..(m + 1) /\ k - 1 # m + 1
          BY <2>2, <3>2
        <4> QED BY <2>2, <3>2, <4>1
      <3>3. CASE k = 0
        <4>1. 0 \in 0..m /\ 0 \in 0..(m + 1) /\ 0 # m + 1
          BY <2>2
        <4>2. g[0] = f[0] /\ f[0] = stage(f[0 - 1], 0)
          BY <2>2, <4>1
        <4> HIDE DEF g
        <4> QED BY <1>2, <3>3, <4>2
      <3> QED BY <3>1, <3>2, <3>3
    <2>4. g = body(g, m + 1)
      BY <2>3
    <2> QED BY <2>2, <2>4
  <1>5. d \in T
    <2>1. T \subseteq Nat
      OBVIOUS
    <2> HIDE DEF T
    <2> QED BY <1>0, <1>3, <1>4, <2>1, AllNat
  <1>6. meaning = body(meaning, d)
    BY <1>5
  <1> HIDE DEF meaning
  <1>7. \A n \in 0..d : meaning[n] = stage(meaning[n - 1], n)
    BY <1>6
  <1>8. Meant(objects, meaning)
    BY <1>7 DEF Meant, stage, d
  <1> QED BY <1>1, <1>8 DEF d

\* A component is placed within its assembly.
LEMMA ChildIsNode ==
  ASSUME NEW at \in Node, NEW c \in [ref : Nat, m : Matrices]
  PROVE  ChildNode(at, c) \in Node /\ ChildNode(at, c).id = c.ref
         /\ ChildNode(at, c).m = Multiply(c.m, at.m) /\ ChildNode(at, c).m.s = c.m.s * at.m.s
  <1>1. at.above \in SUBSET Nat /\ at.id \in Nat /\ at.m \in Matrices /\ c.ref \in Nat /\ c.m \in Matrices
    BY DEF Node
  <1>2. Multiply(c.m, at.m) \in Matrices /\ Multiply(c.m, at.m).s = c.m.s * at.m.s
    BY <1>1, MultiplyType
  <1>3. at.above \cup {at.id} \in SUBSET Nat
    BY <1>1
  <1> QED BY <1>1, <1>2, <1>3 DEF ChildNode, Node

\* The components of an assembly.
LEMMA AssemblyType ==
  ASSUME NEW objects, IsGraph(objects), NEW id \in DOMAIN objects
  PROVE  /\ id \in Nat /\ objects[id].mesh \in BOOLEAN /\ objects[id].components \in Placements
         /\ objects[id].geometry \in MeshSet
         /\ Len(objects[id].components) \in Nat
         /\ DOMAIN objects[id].components = 1..Len(objects[id].components)
         /\ \A i \in 1..Len(objects[id].components) :
               objects[id].components[i] \in [ref : Nat, m : Matrices]
  <1>1. id \in Nat /\ objects[id] \in ObjectSet
    BY DEF IsGraph
  <1>2. objects[id].mesh \in BOOLEAN /\ objects[id].components \in Placements
        /\ objects[id].geometry \in MeshSet
    BY <1>1 DEF ObjectSet
  <1> QED BY <1>1, <1>2, LenProperties, ElementOfSeq DEF Placements

\* Every node has leaves.
LEMMA LeavesType ==
  ASSUME NEW objects, IsGraph(objects), NEW leaves, LeavesBelow(objects, leaves)
  PROVE  \A n \in 0..MaxGraphDepth : \A at \in Node : leaves[n][at] \in Seq(LeafSet)
  <1> DEFINE typed(n) == \A at \in Node : leaves[n][at] \in Seq(LeafSet)
             T == {n \in Nat : n <= MaxGraphDepth => typed(n)}
  <1>0. MaxGraphDepth \in Nat
    BY PackageAssumption
  <1>1. \A n \in 0..MaxGraphDepth : \A at \in Node : leaves[n][at] = Under(objects, at, n, leaves[n - 1])
    BY DEF LeavesBelow
  <1>2. NoLeaf \in LeafSet
    <2>1. Identity \in Matrices
      BY DEF Identity, Matrix, Matrices
    <2>2. Geometry(<<>>, <<>>) \in MeshSet
      BY EmptySeq DEF Geometry, MeshSet
    <2> QED BY <2>1, <2>2 DEF NoLeaf, LeafSet
  <1>3. ASSUME NEW n \in 0..MaxGraphDepth, n # 0 => typed(n - 1), NEW at \in Node
        PROVE  Under(objects, at, n, leaves[n - 1]) \in Seq(LeafSet)
    <2>1. CASE NotMesh(objects, at, n)
      <3>1. <<NoLeaf>> \in Seq(LeafSet)
        BY <1>2
      <3> QED BY <2>1, <3>1 DEF Under
    <2> DEFINE object == objects[at.id]
               cs == object.components
    <2>2. CASE ~NotMesh(objects, at, n) /\ object.mesh
      <3>1. at.id \in DOMAIN objects
        BY <2>2 DEF NotMesh
      <3>2. object.geometry \in MeshSet
        BY <3>1, AssemblyType
      <3>3. at.m \in Matrices
        BY DEF Node
      <3> DEFINE leaf == [ok |-> TRUE, geometry |-> object.geometry, m |-> at.m]
      <3>4. leaf \in LeafSet
        BY <3>2, <3>3 DEF LeafSet
      <3> HIDE DEF leaf
      <3>5. <<leaf>> \in Seq(LeafSet)
        BY <3>4
      <3> QED BY <2>2, <3>5 DEF Under, leaf
    <2>3. CASE ~NotMesh(objects, at, n) /\ ~object.mesh
      <3>1. at.id \in DOMAIN objects /\ n # 0
        BY <2>3 DEF NotMesh
      <3>2. /\ Len(cs) \in Nat /\ DOMAIN cs = 1..Len(cs)
            /\ \A i \in 1..Len(cs) : cs[i] \in [ref : Nat, m : Matrices]
        BY <3>1, AssemblyType
      <3> DEFINE l == Len(cs)
                 X == Seq(LeafSet)
                 ll == [i \in 1..l |-> leaves[n - 1][ChildNode(at, cs[i])]]
      <3>3. \A i \in 1..l : leaves[n - 1][ChildNode(at, cs[i])] \in X
        BY <1>3, <3>1, <3>2, ChildIsNode
      <3>4. ll \in Seq(X)
        <4> HIDE DEF l, X, cs
        <4>1. ll \in [1..l -> X]
          BY <3>3
        <4> HIDE DEF ll
        <4> QED BY <3>2, <4>1, FamilyIsSeq DEF l
      <3>5. <<>> \in Seq(LeafSet)
        BY EmptySeq
      <3>6. FlattenSeq(ll) \in Seq(LeafSet)
        <4> HIDE DEF ll
        <4> QED BY <3>4, <3>5, FlattenAppend
      <3>7. Under(objects, at, n, leaves[n - 1]) = FlattenSeq(ll)
        BY <2>3, <3>2 DEF Under
      <3> QED BY <3>6, <3>7
    <2> QED BY <2>1, <2>2, <2>3
  <1>4. 0 \in T
    <2>1. 0 \in 0..MaxGraphDepth
      BY <1>0
    <2> QED BY <1>1, <1>3, <2>1
  <1>5. ASSUME NEW n \in T PROVE n + 1 \in T
    <2> SUFFICES ASSUME n + 1 <= MaxGraphDepth PROVE typed(n + 1)
      OBVIOUS
    <2>1. n + 1 \in 0..MaxGraphDepth /\ (n + 1) - 1 = n /\ typed(n)
      BY <1>0
    <2> QED BY <1>1, <1>3, <2>1
  <1>6. T = Nat
    <2>1. T \subseteq Nat
      OBVIOUS
    <2> HIDE DEF T
    <2> QED BY <1>4, <1>5, <2>1, AllNat
  <1>7. ASSUME NEW n \in 0..MaxGraphDepth PROVE typed(n)
    <2>1. n \in Nat /\ n <= MaxGraphDepth
      BY <1>0
    <2> HIDE DEF typed
    <2> QED BY <1>6, <2>1
  <1> QED BY <1>7

\* Where no leaf is missing, the leaves below a node show what its object
\* means, placed where the node is.
ShowsNode(objects, leaves, meaning, n, at) ==
    /\ at.id \in DOMAIN objects /\ at.m.s # 0
    /\ meaning[n][at.id] \in Seq(Spots)
    /\ Shown(leaves[n][at]) = Place(meaning[n][at.id], at.m)

\* A single leaf.
LEMMA GoodOne ==
  ASSUME NEW leaf, <<leaf>> \in Seq(SoundLeaf)
  PROVE  leaf \in SoundLeaf
  <1> DEFINE s == <<leaf>>
  <1>1. s[1] = leaf /\ 1 \in 1..Len(s) /\ s \in Seq(SoundLeaf)
    OBVIOUS
  <1> HIDE DEF s
  <1>2. s[1] \in SoundLeaf
    BY <1>1, ElementOfSeq
  <1> QED BY <1>1, <1>2

LEMMA ShownOne ==
  ASSUME NEW leaf \in SoundLeaf
  PROVE  Shown(<<leaf>>) = LeafFacets(leaf)
  <1>1. [i \in 1..Len(<<leaf>>) |-> LeafFacets(<<leaf>>[i])] = <<LeafFacets(leaf)>>
    OBVIOUS
  <1> QED BY <1>1, LeafFacetsType, FlattenOne DEF Shown

\* On every level: if all leaves are meshes, what stands in them is what the
\* object means, placed.
LEMMA LeavesMean ==
  ASSUME NEW objects, IsGraph(objects), NEW leaves, LeavesBelow(objects, leaves),
         NEW meaning, Meant(objects, meaning)
  PROVE  \A n \in 0..MaxGraphDepth : \A at \in Node :
            leaves[n][at] \in Seq(SoundLeaf) => ShowsNode(objects, leaves, meaning, n, at)
  <1> DEFINE shows(n) == \A at \in Node :
                leaves[n][at] \in Seq(SoundLeaf) => ShowsNode(objects, leaves, meaning, n, at)
             T == {n \in Nat : n <= MaxGraphDepth => shows(n)}
  <1>0. MaxGraphDepth \in Nat
    BY PackageAssumption
  <1>1. \A n \in 0..MaxGraphDepth : \A at \in Node : leaves[n][at] = Under(objects, at, n, leaves[n - 1])
    BY DEF LeavesBelow
  <1>2. \A n \in 0..MaxGraphDepth : \A id \in DOMAIN objects :
            meaning[n][id] = MeantBy(objects, id, n, meaning[n - 1])
    BY DEF Meant
  <1>3. ASSUME NEW n \in 0..MaxGraphDepth, n # 0 => shows(n - 1), NEW at \in Node,
               leaves[n][at] \in Seq(SoundLeaf)
        PROVE  ShowsNode(objects, leaves, meaning, n, at)
    <2> DEFINE object == objects[at.id]
               cs == object.components
    <2>1. ~NotMesh(objects, at, n)
      <3> SUFFICES ASSUME NotMesh(objects, at, n) PROVE FALSE
        OBVIOUS
      <3>1. <<NoLeaf>> \in Seq(SoundLeaf)
        BY <1>1, <1>3 DEF Under
      <3>2. NoLeaf \in SoundLeaf
        BY <3>1, GoodOne
      <3> QED BY <3>2 DEF NoLeaf, SoundLeaf
    <2>2. at.id \in DOMAIN objects /\ at.m.s # 0 /\ n # 0 /\ at.m \in Matrices
      BY <2>1 DEF NotMesh, Node
    <2>3. meaning[n][at.id] = MeantBy(objects, at.id, n, meaning[n - 1])
      BY <1>2, <2>2
    <2>4. CASE object.mesh
      <3> DEFINE leaf == [ok |-> TRUE, geometry |-> object.geometry, m |-> at.m]
      <3>1. leaves[n][at] = <<leaf>>
        BY <1>1, <2>1, <2>4 DEF Under
      <3>2. leaf.geometry = object.geometry /\ leaf.m = at.m
        OBVIOUS
      <3> HIDE DEF leaf
      <3>3. leaf \in SoundLeaf
        BY <1>3, <3>1, GoodOne
      <3>4. Shown(<<leaf>>) = LeafFacets(leaf) /\ FacetsOf(leaf.geometry) \in Seq(Spots)
        BY <3>3, ShownOne, LeafFacetsType
      <3>5. meaning[n][at.id] = FacetsOf(leaf.geometry)
        BY <2>3, <2>4, <3>2 DEF MeantBy
      <3> QED BY <2>2, <3>1, <3>2, <3>4, <3>5 DEF ShowsNode, LeafFacets
    <2>5. CASE ~object.mesh
      <3>1. /\ Len(cs) \in Nat /\ DOMAIN cs = 1..Len(cs)
            /\ \A i \in 1..Len(cs) : cs[i] \in [ref : Nat, m : Matrices]
        BY <2>2, AssemblyType
      <3> DEFINE l == Len(cs)
                 node(i) == ChildNode(at, cs[i])
                 ll == [i \in 1..l |-> leaves[n - 1][node(i)]]
                 below(i) == meaning[n - 1][cs[i].ref]
                 parts == [i \in 1..l |-> Place(below(i), cs[i].m)]
                 X == Seq(LeafSet)
                 S == Seq(Spots)
      <3>2. leaves[n][at] = FlattenSeq(ll)
        BY <1>1, <2>1, <2>5, <3>1 DEF Under
      <3>3. meaning[n][at.id] = FlattenSeq(parts)
        BY <2>2, <2>3, <2>5, <3>1 DEF MeantBy
      <3>4. /\ n - 1 \in 0..MaxGraphDepth
            /\ \A i \in 1..l : /\ cs[i].ref \in Nat /\ cs[i].m \in Matrices
                               /\ node(i) \in Node /\ node(i).id = cs[i].ref
                               /\ node(i).m = Multiply(cs[i].m, at.m)
                               /\ node(i).m.s = cs[i].m.s * at.m.s
        BY <1>0, <2>2, <3>1, ChildIsNode
      <3>5. \A i \in 1..l : leaves[n - 1][node(i)] \in X
        BY <3>4, LeavesType
      <3>50. l \in Nat
        BY <3>1
      <3> HIDE DEF l, X, cs, object, node, below
      <3>6. ll \in Seq(X) /\ Len(ll) = l /\ \A i \in 1..l : ll[i] = leaves[n - 1][node(i)]
        <4>1. ll \in [1..l -> X] /\ \A i \in 1..l : ll[i] = leaves[n - 1][node(i)]
          BY <3>5
        <4> HIDE DEF ll
        <4> QED BY <3>50, <4>1, FamilyIsSeq
      <3> HIDE DEF ll
      <3>7. ll \in Seq(Seq(SoundLeaf))
        BY <1>3, <3>2, <3>6, FlattenWithin DEF X
      <3>8. ASSUME NEW i \in 1..l
            PROVE  /\ cs[i].m.s # 0 /\ below(i) \in S /\ Place(below(i), cs[i].m) \in S
                   /\ Shown(ll[i]) = Place(Place(below(i), cs[i].m), at.m)
        <4>1. ll[i] \in Seq(SoundLeaf) /\ ll[i] = leaves[n - 1][node(i)]
          BY <3>6, <3>7, ElementOfSeq
        <4>2. ShowsNode(objects, leaves, meaning, n - 1, node(i))
          BY <1>3, <2>2, <3>4, <4>1
        <4>3. /\ node(i).m.s # 0 /\ below(i) \in S
              /\ Shown(ll[i]) = Place(below(i), node(i).m)
          BY <3>4, <4>1, <4>2 DEF ShowsNode, below
        <4>4. cs[i].m.s # 0
          <5> SUFFICES ASSUME cs[i].m.s = 0 PROVE FALSE
            OBVIOUS
          <5>1. node(i).m.s = 0 * at.m.s /\ at.m.s \in Int
            BY <2>2, <3>4 DEF Matrices
          <5> QED BY <4>3, <5>1, NothingTimes
        <4>5. Place(Place(below(i), cs[i].m), at.m) = Place(below(i), node(i).m)
          BY <2>2, <3>4, <4>3, <4>4, PlaceTwice
        <4>6. Place(below(i), cs[i].m) \in S
          BY <3>4, <4>3, PlaceType
        <4> QED BY <4>3, <4>4, <4>5, <4>6
      <3>9. parts \in Seq(S) /\ Len(parts) = l /\ \A i \in 1..l : parts[i] = Place(below(i), cs[i].m)
        <4> HIDE DEF S
        <4>1. parts \in [1..l -> S] /\ \A i \in 1..l : parts[i] = Place(below(i), cs[i].m)
          BY <3>8
        <4> HIDE DEF parts
        <4> QED BY <3>50, <4>1, FamilyIsSeq
      <3> HIDE DEF parts
      <3>10. Shown(FlattenSeq(ll)) = FlattenSeq([i \in 1..l |-> Shown(ll[i])])
        BY <3>6, <3>7, ShownFlattened
      <3>11. Place(FlattenSeq(parts), at.m) = FlattenSeq([i \in 1..l |-> Place(parts[i], at.m)])
        BY <2>2, <3>9, PlaceFlattened DEF S
      <3>12. \A i \in 1..l : Shown(ll[i]) = Place(parts[i], at.m)
        BY <3>8, <3>9
      <3>13. [i \in 1..l |-> Shown(ll[i])] = [i \in 1..l |-> Place(parts[i], at.m)]
        BY <3>12
      <3>14. FlattenSeq(parts) \in Seq(Spots)
        <4>1. <<>> \in Seq(Spots)
          BY EmptySeq
        <4> QED BY <3>9, <4>1, FlattenAppend DEF S
      <3> QED BY <2>2, <3>2, <3>3, <3>10, <3>11, <3>13, <3>14 DEF ShowsNode
    <2> QED BY <2>4, <2>5
  <1>4. 0 \in T
    <2>1. 0 \in 0..MaxGraphDepth
      BY <1>0
    <2> QED BY <1>3, <2>1
  <1>5. ASSUME NEW n \in T PROVE n + 1 \in T
    <2> SUFFICES ASSUME n + 1 <= MaxGraphDepth PROVE shows(n + 1)
      OBVIOUS
    <2>1. n + 1 \in 0..MaxGraphDepth /\ (n + 1) - 1 = n /\ shows(n)
      BY <1>0
    <2> QED BY <1>3, <2>1
  <1>6. T = Nat
    <2>1. T \subseteq Nat
      OBVIOUS
    <2> HIDE DEF T
    <2> QED BY <1>4, <1>5, <2>1, AllNat
  <1>7. ASSUME NEW n \in 0..MaxGraphDepth PROVE shows(n)
    <2>1. n \in Nat /\ n <= MaxGraphDepth
      BY <1>0
    <2> HIDE DEF shows
    <2> QED BY <1>6, <2>1
  <1> QED BY <1>7

\* One placement of a source.
LEMMA LeavesOfItem ==
  ASSUME NEW objects, IsGraph(objects), NEW item \in [ref : Nat, m : Matrices],
         NEW parent \in Matrices
  PROVE  /\ Leaves(objects, item, parent) \in Seq(LeafSet)
         /\ Leaves(objects, item, parent) \in Seq(SoundLeaf) =>
              /\ item.m.s # 0 /\ parent.s # 0
              /\ Meaning(objects, item.ref) \in Seq(Spots)
              /\ Place(Meaning(objects, item.ref), item.m) \in Seq(Spots)
              /\ Shown(Leaves(objects, item, parent)) =
                    Place(Place(Meaning(objects, item.ref), item.m), parent)
  <1> DEFINE at == [above |-> {}, id |-> item.ref, m |-> Multiply(item.m, parent)]
             d == MaxGraphDepth
  <1>1. PICK leaves : /\ LeavesBelow(objects, leaves)
                      /\ Leaves(objects, item, parent) = leaves[d][at]
    BY LeavesRecursion
  <1>2. PICK meaning : /\ Meant(objects, meaning)
                       /\ \A id : Meaning(objects, id) = meaning[d][id]
    BY MeaningRecursion
  <1>3. /\ d \in 0..MaxGraphDepth
        /\ item.ref \in Nat /\ item.m \in Matrices
    BY PackageAssumption
  <1>4. /\ Multiply(item.m, parent) \in Matrices
        /\ Multiply(item.m, parent).s = item.m.s * parent.s
    BY <1>3, MultiplyType
  <1>5. at \in Node /\ at.id = item.ref /\ at.m = Multiply(item.m, parent)
    BY <1>3, <1>4 DEF Node
  <1> HIDE DEF at
  <1>6. leaves[d][at] \in Seq(LeafSet)
    BY <1>1, <1>3, <1>5, LeavesType
  <1>7. ASSUME leaves[d][at] \in Seq(SoundLeaf)
        PROVE  /\ item.m.s # 0 /\ parent.s # 0
               /\ Meaning(objects, item.ref) \in Seq(Spots)
               /\ Place(Meaning(objects, item.ref), item.m) \in Seq(Spots)
               /\ Shown(leaves[d][at]) = Place(Place(Meaning(objects, item.ref), item.m), parent)
    <2>1. ShowsNode(objects, leaves, meaning, d, at)
      BY <1>1, <1>2, <1>3, <1>5, <1>7, LeavesMean
    <2>2. /\ at.m.s # 0 /\ Meaning(objects, item.ref) \in Seq(Spots)
          /\ Shown(leaves[d][at]) = Place(Meaning(objects, item.ref), at.m)
      BY <1>2, <1>5, <2>1 DEF ShowsNode
    <2>3. item.m.s # 0 /\ parent.s # 0
      <3>1. item.m.s \in Int /\ parent.s \in Int /\ item.m.s * parent.s # 0
        BY <1>3, <1>4, <1>5, <2>2 DEF Matrices
      <3> DEFINE a == item.m.s
                 b == parent.s
      <3> HIDE DEF a, b
      <3>2. a \in Int /\ b \in Int /\ a * b # 0
        BY <3>1 DEF a, b
      <3>3. a # 0 /\ b # 0
        BY <3>2, NothingTimes
      <3> QED BY <3>3 DEF a, b
    <2>4. Place(Place(Meaning(objects, item.ref), item.m), parent) =
            Place(Meaning(objects, item.ref), Multiply(item.m, parent))
      BY <1>3, <2>2, <2>3, PlaceTwice
    <2>5. Place(Meaning(objects, item.ref), item.m) \in Seq(Spots)
      BY <1>3, <2>2, PlaceType
    <2> QED BY <1>5, <2>2, <2>3, <2>4, <2>5
  <1> QED BY <1>1, <1>6, <1>7

\* A source that flattenSource accepts is one mesh with the facets that its
\* graph of components means, in their order, with their paint, where they are
\* put; a mirrored part is turned and not inside out.
THEOREM SourceFlattened ==
  ASSUME NEW doc, IsDocument(doc), NEW parent \in Matrices, FlattenSource(doc, parent).ok
  PROVE  LET base == FlattenSource(doc, parent)
             built == Built(doc.objects, doc.items)
         IN /\ IsGeometry(base) /\ Whole(base)
            /\ built \in Seq(Spots) /\ FacetsOf(base) = Place(built, parent)
            /\ \A i \in DOMAIN doc.items :
                  /\ doc.items[i].m \in Matrices /\ doc.items[i].m.s # 0
                  /\ Meaning(doc.objects, doc.items[i].ref) \in Seq(Spots)
  <1> DEFINE objects == doc.objects
             items == doc.items
             n == Len(items)
             X == Seq(LeafSet)
             S == Seq(Spots)
             ll == [i \in 1..n |-> Leaves(objects, items[i], parent)]
             parts == [i \in 1..n |-> Place(Meaning(objects, items[i].ref), items[i].m)]
             all == Flattened(FlattenSeq(ll))
  <1>1. /\ IsGraph(objects) /\ n \in Nat /\ DOMAIN items = 1..n
        /\ \A i \in 1..n : items[i] \in [ref : Nat, m : Matrices]
    BY DocumentGraph, LenProperties, ElementOfSeq DEF Placements
  <1>2. FlattenSource(doc, parent) = IF all.vertices = <<>> \/ all.triangles = <<>> THEN Failed ELSE all
    BY <1>1 DEF FlattenSource
  <1> HIDE DEF all
  <1>3. FlattenSource(doc, parent) = all /\ all.ok
    BY <1>2 DEF Failed
  <1>4. Built(objects, items) = FlattenSeq(parts)
    BY <1>1 DEF Built
  <1> HIDE DEF n, X, objects, items
  <1>5. ll \in Seq(X) /\ Len(ll) = n /\ \A i \in 1..n : ll[i] = Leaves(objects, items[i], parent)
    <2>1. ll \in [1..n -> X] /\ \A i \in 1..n : ll[i] = Leaves(objects, items[i], parent)
      BY <1>1, LeavesOfItem DEF X
    <2> HIDE DEF ll
    <2> QED BY <1>1, <2>1, FamilyIsSeq
  <1> HIDE DEF ll
  <1>6. FlattenSeq(ll) \in Seq(LeafSet)
    <2>1. <<>> \in Seq(LeafSet)
      BY EmptySeq
    <2> QED BY <1>5, <2>1, FlattenAppend DEF X
  <1>7. /\ FlattenSeq(ll) \in Seq(SoundLeaf) /\ IsGeometry(all) /\ Whole(all)
        /\ FacetsOf(all) = Shown(FlattenSeq(ll))
    BY <1>3, <1>6, FlattenedMeans DEF all
  <1>8. ll \in Seq(Seq(SoundLeaf))
    BY <1>5, <1>7, FlattenWithin DEF X
  <1>9. ASSUME NEW i \in 1..n
        PROVE  /\ items[i].m \in Matrices /\ items[i].m.s # 0
               /\ Meaning(objects, items[i].ref) \in S
               /\ Place(Meaning(objects, items[i].ref), items[i].m) \in S
               /\ Shown(ll[i]) = Place(Place(Meaning(objects, items[i].ref), items[i].m), parent)
    <2>1. ll[i] \in Seq(SoundLeaf) /\ ll[i] = Leaves(objects, items[i], parent)
      BY <1>5, <1>8, ElementOfSeq
    <2>2. items[i] \in [ref : Nat, m : Matrices]
      BY <1>1
    <2> QED BY <1>1, <2>1, <2>2, LeavesOfItem DEF S
  <1>10. /\ parts \in Seq(S) /\ Len(parts) = n
         /\ \A i \in 1..n : parts[i] = Place(Meaning(objects, items[i].ref), items[i].m)
    <2> HIDE DEF S
    <2>1. /\ parts \in [1..n -> S]
          /\ \A i \in 1..n : parts[i] = Place(Meaning(objects, items[i].ref), items[i].m)
      BY <1>9
    <2> HIDE DEF parts
    <2> QED BY <1>1, <2>1, FamilyIsSeq
  <1> HIDE DEF parts
  <1>11. Shown(FlattenSeq(ll)) = FlattenSeq([i \in 1..n |-> Shown(ll[i])])
    BY <1>5, <1>8, ShownFlattened
  <1>12. Place(FlattenSeq(parts), parent) = FlattenSeq([i \in 1..n |-> Place(parts[i], parent)])
    BY <1>10, PlaceFlattened DEF S
  <1>13. [i \in 1..n |-> Shown(ll[i])] = [i \in 1..n |-> Place(parts[i], parent)]
    BY <1>9, <1>10
  <1>14. FlattenSeq(parts) \in Seq(Spots)
    <2>1. <<>> \in Seq(Spots)
      BY EmptySeq
    <2> QED BY <1>10, <2>1, FlattenAppend DEF S
  <1>15. \A i \in DOMAIN items : /\ items[i].m \in Matrices /\ items[i].m.s # 0
                                 /\ Meaning(objects, items[i].ref) \in Seq(Spots)
    BY <1>1, <1>9 DEF S
  <1> QED BY <1>3, <1>4, <1>7, <1>11, <1>12, <1>13, <1>14, <1>15 DEF objects, items

-----------------------------------------------------------------------------
(* Matrices, and where a source is moved.                                  *)

\* Matrices with a scale above 0, as the contract has them.
LEMMA UnmirroredType ==
  ASSUME NEW m, Unmirrored(m)
  PROVE  m \in Matrices /\ m.s \in Int /\ m.t \in Int /\ m.s > 0 /\ m.s # 0 /\ ~(m.s < 0)
  <1>1. m \in Matrices /\ m.s > 0
    BY DEF Unmirrored
  <1>2. m.s \in Int /\ m.t \in Int
    BY <1>1 DEF Matrices
  <1> QED BY <1>1, <1>2

LEMMA UnmirroredProduct ==
  ASSUME NEW a, Unmirrored(a), NEW b, Unmirrored(b)
  PROVE  Unmirrored(Multiply(a, b))
  <1>1. /\ a \in Matrices /\ b \in Matrices /\ a.s \in Int /\ b.s \in Int /\ a.s > 0 /\ b.s > 0
    BY UnmirroredType
  <1>2. Multiply(a, b) \in Matrices /\ Multiply(a, b).s = a.s * b.s
    BY <1>1, MultiplyType
  <1>3. \A x, y \in Int : x > 0 /\ y > 0 => x * y > 0
    OBVIOUS
  <1>4. a.s * b.s > 0
    BY <1>1, <1>3
  <1> QED BY <1>2, <1>4 DEF Unmirrored

LEMMA IdentityIsMatrix == Unmirrored(Identity)
  BY DEF Identity, Matrix, Matrices, Unmirrored

\* A source whose placements are moved means what it meant, moved.
LEMMA SourceMoved ==
  ASSUME NEW doc, IsDocument(doc), FlattenSource(doc, Identity).ok, NEW m, Unmirrored(m)
  PROVE  Built(doc.objects, Moved(doc.items, m)) = Place(Built(doc.objects, doc.items), m)
  <1> DEFINE objects == doc.objects
             items == doc.items
             moved == Moved(items, m)
             n == Len(items)
             S == Seq(Spots)
             parts == [i \in 1..n |-> Place(Meaning(objects, items[i].ref), items[i].m)]
  <1>1. /\ n \in Nat /\ DOMAIN items = 1..n
        /\ \A i \in 1..n : items[i] \in [ref : Nat, m : Matrices]
    BY DocumentGraph, LenProperties, ElementOfSeq DEF Placements
  <1>2. m \in Matrices /\ m.s # 0 /\ m.s > 0
    BY UnmirroredType
  <1>3. \A i \in 1..n : /\ items[i].m \in Matrices /\ items[i].m.s # 0
                        /\ Meaning(objects, items[i].ref) \in S
    BY <1>1, IdentityIsMatrix, UnmirroredType, SourceFlattened
  <1>4. Built(objects, items) = FlattenSeq(parts)
    BY <1>1 DEF Built
  <1>5. /\ DOMAIN moved = 1..n
        /\ \A i \in 1..n : moved[i].ref = items[i].ref /\ moved[i].m = Multiply(items[i].m, m)
    BY <1>1 DEF Moved
  <1>6. Built(objects, moved) =
          FlattenSeq([i \in 1..n |-> Place(Meaning(objects, moved[i].ref), moved[i].m)])
    <2> HIDE DEF moved, n
    <2> QED BY <1>5 DEF Built
  <1> HIDE DEF objects, items, moved, n
  <1>7. \A i \in 1..n : /\ Place(Meaning(objects, items[i].ref), items[i].m) \in S
                        /\ Place(Meaning(objects, moved[i].ref), moved[i].m) =
                             Place(Place(Meaning(objects, items[i].ref), items[i].m), m)
    <2> TAKE i \in 1..n
    <2> DEFINE facets == Meaning(objects, items[i].ref)
               a == items[i].m
    <2>1. facets \in Seq(Spots) /\ a \in Matrices /\ a.s # 0
      BY <1>3
    <2>2. moved[i].ref = items[i].ref /\ moved[i].m = Multiply(a, m)
      BY <1>5
    <2> HIDE DEF facets, a
    <2>3. Place(facets, a) \in Seq(Spots) /\ Place(Place(facets, a), m) = Place(facets, Multiply(a, m))
      BY <1>2, <2>1, PlaceType, PlaceTwice
    <2> QED BY <2>2, <2>3 DEF facets, a
  <1>8. /\ parts \in Seq(S) /\ Len(parts) = n
        /\ \A i \in 1..n : parts[i] = Place(Meaning(objects, items[i].ref), items[i].m)
    <2> HIDE DEF S
    <2>1. /\ parts \in [1..n -> S]
          /\ \A i \in 1..n : parts[i] = Place(Meaning(objects, items[i].ref), items[i].m)
      BY <1>7
    <2> HIDE DEF parts
    <2> QED BY <1>1, <2>1, FamilyIsSeq
  <1> HIDE DEF parts
  <1>9. Place(FlattenSeq(parts), m) = FlattenSeq([i \in 1..n |-> Place(parts[i], m)])
    BY <1>2, <1>8, PlaceFlattened DEF S
  <1>10. [i \in 1..n |-> Place(Meaning(objects, moved[i].ref), moved[i].m)] =
           [i \in 1..n |-> Place(parts[i], m)]
    BY <1>7, <1>8
  <1> QED BY <1>4, <1>6, <1>9, <1>10 DEF objects, items, moved

-----------------------------------------------------------------------------
(* What is asked of an object, and what its volumes are.                   *)

\* An object as a plate of the contract has it.
PlacedWell(object) ==
    /\ Unmirrored(object.transform)
    /\ object.modifiers \in Seq(ToSet(object.modifiers))
    /\ \A modifier \in ToSet(object.modifiers) : Unmirrored(modifier.m)

\* The modifiers of an object are a list of them.
LEMMA PlacedModifiers ==
  ASSUME NEW object, PlacedWell(object)
  PROVE  /\ Len(object.modifiers) \in Nat
         /\ DOMAIN object.modifiers = 1..Len(object.modifiers)
         /\ \A j \in 1..Len(object.modifiers) : Unmirrored(object.modifiers[j].m)
  <1> DEFINE ms == object.modifiers
  <1>1. ms \in Seq(ToSet(ms)) /\ \A modifier \in ToSet(ms) : Unmirrored(modifier.m)
    BY DEF PlacedWell
  <1> HIDE DEF ms
  <1>2. Len(ms) \in Nat /\ DOMAIN ms = 1..Len(ms)
    BY <1>1, LenProperties
  <1>3. \A j \in 1..Len(ms) : ms[j] \in ToSet(ms)
    BY <1>2 DEF ToSet
  <1> QED BY <1>1, <1>2, <1>3 DEF ms

\* The facets without their paint, unless it is kept.
KeptFacets(facets, keepsPaint) ==
    [i \in 1..Len(facets) |-> IF keepsPaint THEN facets[i] ELSE [facets[i] EXCEPT !.paint = <<>>]]

ModifierFacets(modifier, parent) == Place(Place(FacetsOf(Shape), modifier.m), parent)

AskedIs(asked, object, doc, keepsPaint) ==
    LET n == Len(object.modifiers)
        source == Place(Built(doc.objects, doc.items), object.transform)
    IN /\ n \in Nat /\ IsList(asked) /\ Len(asked) = n + 1
       /\ asked[1] = Part(KeptFacets(source, keepsPaint), FALSE, {})
       /\ \A j \in 1..n : asked[j + 1] =
             Part(ModifierFacets(object.modifiers[j], object.transform), TRUE,
                  object.modifiers[j].settings)

\* The parts that are asked of an object, one by one.
LEMMA AskedAre ==
  ASSUME NEW object, PlacedWell(object), NEW doc, NEW keepsPaint,
         Built(doc.objects, doc.items) \in Seq(Spots)
  PROVE  AskedIs(AskedParts(object, doc, keepsPaint), object, doc, keepsPaint)
  <1> DEFINE ms == object.modifiers
             n == Len(ms)
             source == Place(Built(doc.objects, doc.items), object.transform)
             first == Part(KeptFacets(source, keepsPaint), FALSE, {})
             rest == [j \in 1..n |-> Part(ModifierFacets(ms[j], object.transform), TRUE,
                                          ms[j].settings)]
             X == {first} \cup {rest[j] : j \in 1..n}
             asked == AskedParts(object, doc, keepsPaint)
  <1>1. n \in Nat /\ DOMAIN ms = 1..n
    BY PlacedModifiers
  <1>2. source \in Seq(Spots) /\ DOMAIN source = 1..Len(source)
    <2>1. source \in Seq(Spots)
      BY UnmirroredType, PlaceType DEF PlacedWell
    <2> HIDE DEF source
    <2> QED BY <2>1, LenProperties
  <1>3. asked = <<first>> \o rest
    BY <1>1, <1>2 DEF AskedParts, KeptFacets, ModifierFacets
  <1> HIDE DEF asked, first, ms, source, n
  <1>4. rest \in Seq(X) /\ Len(rest) = n /\ \A j \in 1..n : rest[j] \in X
    <2>1. \A j \in 1..n : rest[j] \in X
      OBVIOUS
    <2>2. rest \in [1..n -> X]
      <3> HIDE DEF X
      <3> QED BY <2>1
    <2> HIDE DEF rest, X
    <2> QED BY <1>1, <2>1, <2>2, FamilyIsSeq
  <1>5. \A j \in 1..n : rest[j] = Part(ModifierFacets(ms[j], object.transform), TRUE, ms[j].settings)
    OBVIOUS
  <1>6. first \in X
    OBVIOUS
  <1> HIDE DEF rest, X
  <1>7. /\ <<first>> \in Seq(X) /\ Len(<<first>>) = 1 /\ <<first>>[1] = first
    BY <1>6
  <1> DEFINE one == <<first>>
             both == one \o rest
  <1> HIDE DEF one
  <1>8. /\ both \in Seq(X) /\ Len(both) = n + 1
        /\ \A i \in 1..(n + 1) : both[i] = IF i <= 1 THEN one[i] ELSE rest[i - 1]
    <2>1. one \in Seq(X) /\ Len(one) = 1
      BY <1>7 DEF one
    <2>2. rest \in Seq(X)
      BY <1>4
    <2>3. /\ one \o rest \in Seq(X) /\ Len(one \o rest) = Len(one) + Len(rest)
          /\ \A i \in 1..(Len(one) + Len(rest)) :
                (one \o rest)[i] = IF i <= Len(one) THEN one[i] ELSE rest[i - Len(one)]
      BY <2>1, <2>2, ConcatProperties
    <2>4. Len(one) + Len(rest) = n + 1
      BY <1>1, <1>4, <2>1
    <2> QED BY <2>1, <2>3, <2>4
  <1> HIDE DEF both
  <1>9. IsList(both)
    BY <1>8, SeqIsList
  <1>10. both[1] = first
    <2>1. 1 \in 1..(n + 1)
      BY <1>1
    <2> QED BY <1>7, <1>8, <2>1 DEF one
  <1>11. \A j \in 1..n : both[j + 1] = rest[j]
    <2> TAKE j \in 1..n
    <2>1. j + 1 \in 1..(n + 1) /\ ~(j + 1 <= 1) /\ (j + 1) - 1 = j
      BY <1>1
    <2> QED BY <1>8, <2>1
  <1>12. asked = both
    BY <1>3 DEF both, one
  <1>13. AskedIs(asked, object, doc, keepsPaint)
    BY <1>1, <1>5, <1>8, <1>9, <1>10, <1>11, <1>12 DEF AskedIs, first, ms, source, n
  <1> QED BY <1>13 DEF asked

\* A modifier's shape is a geometry with all its corners.
LEMMA ShapeIsWhole == IsGeometry(Shape) /\ Whole(Shape)
  <1> DEFINE vs == Shape.vertices
             ts == Shape.triangles
             t == [v |-> <<0, 1, 2>>, paint |-> <<>>]
  <1>1. vs = <<0, 1, 2>> /\ ts = <<t>>
    BY DEF Shape, Geometry, Facet
  <1>2. <<0, 1, 2>> \in Corner3 /\ <<>> \in Paints
    BY EmptySeq DEF Corner3, Paints
  <1>3. t \in Tris /\ t.v = <<0, 1, 2>>
    BY <1>2 DEF Tris
  <1> HIDE DEF t
  <1>4. ts \in Seq(Tris) /\ Len(ts) = 1 /\ ts[1] = t
    BY <1>1, <1>3
  <1>5. vs \in Seq(Int) /\ Len(vs) = 3
    BY <1>1
  <1>6. \A k \in 1..3 : t.v[k] \in 0..(3 - 1)
    BY <1>3
  <1>7. \A i \in 1..1 : i = 1
    OBVIOUS
  <1> HIDE DEF vs, ts
  <1>8. Shape.vertices = vs /\ Shape.triangles = ts
    BY DEF vs, ts
  <1> QED BY <1>4, <1>5, <1>6, <1>7, <1>8 DEF IsGeometry, Whole

\* The shape of a modifier, moved and put where its object is.
LEMMA ShapeMoved ==
  ASSUME NEW a, Unmirrored(a), NEW b, Unmirrored(b)
  PROVE  LET m == Multiply(a, b)
             g == [Shape EXCEPT !.vertices = [k \in DOMAIN @ |-> Apply(@[k], m)]]
         IN /\ IsGeometry(g) /\ Whole(g)
            /\ FacetsOf(g) = Place(Place(FacetsOf(Shape), a), b)
            /\ \A i \in 1..Len(g.triangles) : g.triangles[i].paint = <<>>
  <1> DEFINE m == Multiply(a, b)
             vs == Shape.vertices
             ts == Shape.triangles
             g == [Shape EXCEPT !.vertices = [k \in DOMAIN @ |-> Apply(@[k], m)]]
             h == Geometry(MovedAll(vs, m), Rewound(ts, m))
  <1>1. Unmirrored(m) /\ m \in Matrices /\ ~(m.s < 0)
    BY UnmirroredProduct, UnmirroredType
  <1>2. vs = <<0, 1, 2>> /\ ts = <<[v |-> <<0, 1, 2>>, paint |-> <<>>]>>
        /\ Shape = [vertices |-> vs, triangles |-> ts]
    BY DEF Shape, Geometry, Facet
  <1>3. IsGeometry(Shape) /\ Whole(Shape)
    BY ShapeIsWhole
  <1>4. vs \in Seq(Int) /\ ts \in Seq(Tris) /\ DOMAIN vs = 1..Len(vs) /\ Len(ts) \in Nat
    <2>1. vs \in Seq(Int) /\ ts \in Seq(Tris)
      BY <1>3 DEF IsGeometry
    <2> HIDE DEF vs, ts
    <2> QED BY <2>1, LenProperties
  <1>5. IsGeometry(h) /\ Whole(h) /\ FacetsOf(h) = Place(FacetsOf(Shape), m)
    BY <1>1, <1>3, MovedGeometry
  <1>6. Rewound(ts, m) = ts
    <2>1. \A i \in 1..Len(ts) : ts[i] \in Tris
      BY <1>4, ElementOfSeq
    <2>2. \A i \in 1..Len(ts) : [v |-> Winding(ts[i].v, m), paint |-> ts[i].paint] = ts[i]
      BY <1>1, <2>1 DEF Winding, Tris
    <2> HIDE DEF ts
    <2>3. ts = [i \in 1..Len(ts) |-> ts[i]]
      BY <1>4, LenProperties
    <2> QED BY <2>2, <2>3 DEF Rewound
  <1>7. g = h
    <2> HIDE DEF vs, ts, m
    <2>1. g = [vertices |-> [k \in DOMAIN vs |-> Apply(vs[k], m)], triangles |-> ts]
      BY <1>2
    <2>2. h = [vertices |-> MovedAll(vs, m), triangles |-> ts]
      BY <1>6 DEF Geometry
    <2>3. MovedAll(vs, m) = [k \in DOMAIN vs |-> Apply(vs[k], m)]
      BY <1>4 DEF MovedAll
    <2> QED BY <2>1, <2>2, <2>3
  <1>8. FacetsOf(Shape) \in Seq(Spots)
    BY <1>3, FacetsType
  <1>9. Place(Place(FacetsOf(Shape), a), b) = Place(FacetsOf(Shape), m)
    BY <1>8, UnmirroredType, PlaceTwice
  <1>10. \A i \in 1..Len(h.triangles) : h.triangles[i].paint = <<>>
    <2>1. h.triangles = ts
      BY <1>6 DEF Geometry
    <2>2. Len(ts) = 1 /\ ts[1].paint = <<>>
      BY <1>2
    <2>3. \A i \in 1..1 : i = 1
      OBVIOUS
    <2> QED BY <2>1, <2>2, <2>3
  <1> HIDE DEF g, h
  <1> QED BY <1>5, <1>7, <1>9, <1>10 DEF g

\* What the volumes of an object are.
VolumesFit(volumes, object, parent, base) ==
    LET n == Len(object.modifiers)
    IN /\ n \in Nat /\ IsList(volumes) /\ Len(volumes) = n + 1
       /\ \A v \in 1..(n + 1) : IsGeometry(volumes[v].geometry) /\ Whole(volumes[v].geometry)
       /\ FacetsOf(volumes[1].geometry) = FacetsOf(base)
       /\ volumes[1].modifier = FALSE /\ volumes[1].settings = {}
       /\ \A j \in 1..n :
             /\ FacetsOf(volumes[j + 1].geometry) = ModifierFacets(object.modifiers[j], parent)
             /\ volumes[j + 1].modifier = TRUE
             /\ volumes[j + 1].settings = object.modifiers[j].settings
             /\ \A i \in 1..Len(volumes[j + 1].geometry.triangles) :
                   volumes[j + 1].geometry.triangles[i].paint = <<>>

\* The volumes of an object, one by one.
LEMMA VolumesAre ==
  ASSUME NEW object, PlacedWell(object), NEW parent, Unmirrored(parent),
         NEW base, IsGeometry(base), Whole(base)
  PROVE  VolumesFit(Volumes(base, object, parent), object, parent, base)
  <1> DEFINE ms == object.modifiers
             n == Len(ms)
             first == Volume(Geometry(base.vertices, base.triangles), FALSE, {})
             shape(j) == [Shape EXCEPT !.vertices =
                            [k \in DOMAIN @ |-> Apply(@[k], Multiply(ms[j].m, parent))]]
             rest == [j \in 1..n |-> Volume(shape(j), TRUE, ms[j].settings)]
             X == {first} \cup {rest[j] : j \in 1..n}
             volumes == Volumes(base, object, parent)
  <1>1. n \in Nat /\ DOMAIN ms = 1..n /\ \A j \in 1..n : Unmirrored(ms[j].m)
    BY PlacedModifiers
  <1>2. \A j \in 1..n : /\ IsGeometry(shape(j)) /\ Whole(shape(j))
                        /\ FacetsOf(shape(j)) = ModifierFacets(ms[j], parent)
                        /\ \A i \in 1..Len(shape(j).triangles) : shape(j).triangles[i].paint = <<>>
    BY <1>1, ShapeMoved DEF ModifierFacets
  <1>3. volumes = <<first>> \o rest
    BY <1>1 DEF Volumes
  <1>30. /\ first.geometry.vertices = base.vertices /\ first.geometry.triangles = base.triangles
         /\ first.modifier = FALSE /\ first.settings = {}
    BY DEF Volume, Geometry
  <1> HIDE DEF volumes, first, ms, n, shape
  <1>31. IsGeometry(first.geometry) /\ Whole(first.geometry) /\ FacetsOf(first.geometry) = FacetsOf(base)
    BY <1>30 DEF IsGeometry, Whole, FacetsOf
  <1>4. rest \in Seq(X) /\ Len(rest) = n
    <2>1. rest \in [1..n -> X]
      OBVIOUS
    <2> HIDE DEF rest, X
    <2> QED BY <1>1, <2>1, FamilyIsSeq
  <1>5. \A j \in 1..n : /\ rest[j].geometry = shape(j) /\ rest[j].modifier = TRUE
                        /\ rest[j].settings = ms[j].settings
    BY DEF Volume
  <1>6. first \in X
    OBVIOUS
  <1> HIDE DEF rest, X
  <1> DEFINE one == <<first>>
             both == one \o rest
  <1>7. one \in Seq(X) /\ Len(one) = 1 /\ one[1] = first
    BY <1>6
  <1> HIDE DEF one
  <1>8. /\ both \in Seq(X) /\ Len(both) = n + 1
        /\ \A i \in 1..(n + 1) : both[i] = IF i <= 1 THEN one[i] ELSE rest[i - 1]
    <2>1. rest \in Seq(X) /\ one \in Seq(X)
      BY <1>4, <1>7
    <2>3. /\ one \o rest \in Seq(X) /\ Len(one \o rest) = Len(one) + Len(rest)
          /\ \A i \in 1..(Len(one) + Len(rest)) :
                (one \o rest)[i] = IF i <= Len(one) THEN one[i] ELSE rest[i - Len(one)]
      BY <2>1, ConcatProperties
    <2>4. Len(one) + Len(rest) = n + 1 /\ Len(one) = 1
      BY <1>1, <1>4, <1>7
    <2> QED BY <2>3, <2>4
  <1> HIDE DEF both
  <1>9. IsList(both)
    BY <1>8, SeqIsList
  <1>10. both[1] = first
    <2>1. 1 \in 1..(n + 1)
      BY <1>1
    <2> QED BY <1>7, <1>8, <2>1
  <1>11. \A j \in 1..n : both[j + 1] = rest[j]
    <2> TAKE j \in 1..n
    <2>1. j + 1 \in 1..(n + 1) /\ ~(j + 1 <= 1) /\ (j + 1) - 1 = j
      BY <1>1
    <2> QED BY <1>8, <2>1
  <1>12. volumes = both
    BY <1>3 DEF both, one
  <1>13. \A v \in 1..(n + 1) : IsGeometry(both[v].geometry) /\ Whole(both[v].geometry)
    <2> TAKE v \in 1..(n + 1)
    <2>1. CASE v = 1
      BY <1>10, <1>31, <2>1
    <2>2. CASE v # 1
      <3>1. v - 1 \in 1..n /\ (v - 1) + 1 = v
        BY <1>1, <2>2
      <3>2. both[v] = rest[v - 1]
        BY <1>11, <3>1
      <3> QED BY <1>2, <1>5, <3>1, <3>2
    <2> QED BY <2>1, <2>2
  <1>14. \A j \in 1..n :
            /\ FacetsOf(both[j + 1].geometry) = ModifierFacets(ms[j], parent)
            /\ both[j + 1].modifier = TRUE /\ both[j + 1].settings = ms[j].settings
            /\ \A i \in 1..Len(both[j + 1].geometry.triangles) :
                  both[j + 1].geometry.triangles[i].paint = <<>>
    BY <1>2, <1>5, <1>11
  <1>15. VolumesFit(volumes, object, parent, base)
    BY <1>1, <1>8, <1>9, <1>10, <1>30, <1>31, <1>12, <1>13, <1>14 DEF VolumesFit, ms, n
  <1> QED BY <1>15 DEF volumes

\* Paint that is dropped from a mesh is dropped from its facets.
LEMMA PaintDropped ==
  ASSUME NEW g, IsGeometry(g), Whole(g), NEW painted
  PROVE  /\ FacetsOf(PaintAttributes(g, painted)) = KeptFacets(FacetsOf(g), painted)
         /\ (\A i \in 1..Len(g.triangles) : g.triangles[i].paint = <<>>) =>
               KeptFacets(FacetsOf(g), painted) = FacetsOf(g)
  <1> DEFINE n == Len(g.triangles)
             ts == [i \in 1..n |-> IF painted THEN g.triangles[i] ELSE Facet(g.triangles[i].v, <<>>)]
             h == PaintAttributes(g, painted)
             facets == FacetsOf(g)
  <1>1. n \in Nat /\ DOMAIN g.triangles = 1..n /\ \A i \in 1..n : g.triangles[i] \in Tris
    BY LenProperties, FacetType DEF IsGeometry
  <1>2. facets \in Seq(Spots) /\ Len(facets) = n /\ facets = [i \in 1..n |-> FacetAt(g, i)]
    BY FacetsType
  <1> HIDE DEF facets
  <1>30. \A i \in 1..n : facets[i] = FacetAt(g, i)
    BY <1>2
  <1>3. h.vertices = g.vertices /\ h.triangles = ts
    BY <1>1 DEF PaintAttributes
  <1> HIDE DEF h
  <1>4. FacetsOf(h) = [i \in 1..n |-> [at |-> [k \in 1..3 |-> g.vertices[ts[i].v[k] + 1]],
                                       paint |-> ts[i].paint]]
    BY <1>3 DEF FacetsOf
  <1>5. ASSUME NEW i \in 1..n
        PROVE  [at |-> [k \in 1..3 |-> g.vertices[ts[i].v[k] + 1]], paint |-> ts[i].paint] =
                 IF painted THEN facets[i] ELSE [facets[i] EXCEPT !.paint = <<>>]
    <2>1. ts[i] = IF painted THEN g.triangles[i] ELSE Facet(g.triangles[i].v, <<>>)
      OBVIOUS
    <2> HIDE DEF ts
    <2>2. ts[i].v = g.triangles[i].v /\ ts[i].paint = IF painted THEN g.triangles[i].paint ELSE <<>>
      BY <2>1 DEF Facet
    <2>3. facets[i] = [at |-> [k \in 1..3 |-> g.vertices[g.triangles[i].v[k] + 1]],
                       paint |-> g.triangles[i].paint]
      BY <1>30 DEF FacetAt
    <2> DEFINE place == [k \in 1..3 |-> g.vertices[g.triangles[i].v[k] + 1]]
    <2>4. [k \in 1..3 |-> g.vertices[ts[i].v[k] + 1]] = place
      BY <2>2
    <2>5. facets[i] = [at |-> place, paint |-> g.triangles[i].paint]
      BY <2>3
    <2> HIDE DEF place
    <2>6. [facets[i] EXCEPT !.paint = <<>>] = [at |-> place, paint |-> <<>>]
      BY <2>5
    <2>7. CASE painted
      BY <2>2, <2>4, <2>5, <2>7
    <2>8. CASE ~painted
      BY <2>2, <2>4, <2>6, <2>8
    <2> QED BY <2>7, <2>8
  <1>6. FacetsOf(h) = KeptFacets(facets, painted)
    BY <1>2, <1>4, <1>5 DEF KeptFacets
  <1>7. ASSUME \A i \in 1..n : g.triangles[i].paint = <<>>
        PROVE  KeptFacets(facets, painted) = facets
    <2>1. \A i \in 1..n : [facets[i] EXCEPT !.paint = <<>>] = facets[i]
      <3> TAKE i \in 1..n
      <3>1. facets[i] \in Spots
        BY <1>2, ElementOfSeq
      <3>2. facets[i].paint = <<>>
        <4>1. FacetAt(g, i).paint = g.triangles[i].paint
          BY DEF FacetAt
        <4> QED BY <1>7, <1>30, <4>1
      <3> DEFINE r == facets[i]
      <3>3. r = [at |-> r.at, paint |-> <<>>]
        BY <3>1, <3>2 DEF Spots
      <3> HIDE DEF r
      <3>4. [r EXCEPT !.paint = <<>>] = r
        BY <3>3
      <3> QED BY <3>4 DEF r
    <2>2. KeptFacets(facets, painted) = [i \in 1..n |-> facets[i]]
      BY <1>2, <2>1 DEF KeptFacets
    <2> QED BY <1>2, <2>2
  <1> QED BY <1>6, <1>7 DEF h, facets

\* Where a facet stands does not change its paint.
LEMMA KeptPlaced ==
  ASSUME NEW facets \in Seq(Spots), NEW m \in Matrices, NEW keepsPaint
  PROVE  /\ KeptFacets(facets, keepsPaint) \in Seq(Spots)
         /\ Place(KeptFacets(facets, keepsPaint), m) = KeptFacets(Place(facets, m), keepsPaint)
         /\ keepsPaint => KeptFacets(facets, keepsPaint) = facets
  <1> DEFINE n == Len(facets)
             kept == KeptFacets(facets, keepsPaint)
             bare(r) == IF keepsPaint THEN r ELSE [r EXCEPT !.paint = <<>>]
  <1>1. n \in Nat /\ \A i \in 1..n : facets[i] \in Spots
    BY LenProperties, ElementOfSeq
  <1>2. \A r \in Spots : bare(r) \in Spots /\ Spot(bare(r), m) = bare(Spot(r, m))
    <2> TAKE r \in Spots
    <2>1. <<>> \in Paints
      BY EmptySeq DEF Paints
    <2>2. r.at \in Corner3 /\ r.paint \in Paints /\ r = [at |-> r.at, paint |-> r.paint]
      BY DEF Spots
    <2>3. [r EXCEPT !.paint = <<>>] = [at |-> r.at, paint |-> <<>>]
      BY <2>2
    <2>4. bare(r) \in Spots
      BY <2>1, <2>2, <2>3 DEF Spots
    <2>5. Spot([r EXCEPT !.paint = <<>>], m) = [Spot(r, m) EXCEPT !.paint = <<>>]
      BY <2>3 DEF Spot
    <2> QED BY <2>4, <2>5
  <1>3. kept = [i \in 1..n |-> bare(facets[i])]
    BY DEF KeptFacets
  <1> HIDE DEF kept, bare, n
  <1>4. kept \in Seq(Spots) /\ Len(kept) = n /\ \A i \in 1..n : kept[i] = bare(facets[i])
    <2>1. kept \in [1..n -> Spots] /\ \A i \in 1..n : kept[i] = bare(facets[i])
      BY <1>1, <1>2, <1>3
    <2> QED BY <1>1, <2>1, FamilyIsSeq
  <1> DEFINE placed == Place(facets, m)
  <1>5. placed = [i \in 1..n |-> Spot(facets[i], m)] /\ Len(placed) = n
    BY PlaceType DEF n
  <1> HIDE DEF placed
  <1>6. KeptFacets(placed, keepsPaint) = [i \in 1..n |-> bare(placed[i])]
    BY <1>5 DEF KeptFacets, bare
  <1>7. Place(kept, m) = [i \in 1..n |-> Spot(kept[i], m)]
    BY <1>4, PlaceType
  <1>8. \A i \in 1..n : Spot(kept[i], m) = bare(placed[i])
    BY <1>1, <1>2, <1>4, <1>5
  <1>9. Place(kept, m) = KeptFacets(placed, keepsPaint)
    BY <1>6, <1>7, <1>8
  <1>10. keepsPaint => kept = facets
    <2>1. keepsPaint => kept = [i \in 1..n |-> facets[i]]
      BY <1>3 DEF bare
    <2> QED BY <2>1, LenProperties DEF n
  <1> QED BY <1>4, <1>9, <1>10 DEF kept, placed

-----------------------------------------------------------------------------
(* Resources that are found by their numbers.                              *)

\* Numbers that are given once, from a set.
NumberedBy(rs, A) == /\ IsList(rs) /\ \A a \in 1..Len(rs) : rs[a].id \in A
                   /\ \A a, b \in 1..Len(rs) : rs[a].id = rs[b].id => a = b

\* Two lists of resources with different numbers have all numbers once.
LEMMA NumberedConcat ==
  ASSUME NEW rs, NEW A, NumberedBy(rs, A), NEW ts, NEW B, NumberedBy(ts, B), A \cap B = {}
  PROVE  NumberedBy(rs \o ts, A \cup B)
  <1> DEFINE both == rs \o ts
             l == Len(rs)
             n == Len(ts)
  <1>1. /\ IsList(both)
        /\ \A i \in 1..l : both[i] = rs[i]
        /\ \A j \in 1..n : both[l + j] = ts[j]
        /\ \A i \in 1..Len(both) : i \in 1..l \/ \E j \in 1..n : i = l + j
    BY ListConcat DEF NumberedBy
  <1> HIDE DEF both, l, n
  <1>2. /\ \A a \in 1..l : rs[a].id \in A
        /\ \A a, b \in 1..l : rs[a].id = rs[b].id => a = b
        /\ \A a \in 1..n : ts[a].id \in B
        /\ \A a, b \in 1..n : ts[a].id = ts[b].id => a = b
    BY DEF NumberedBy, l, n
  <1>3. \A a \in 1..Len(both) : both[a].id \in A \cup B
    BY <1>1, <1>2
  <1>4. ASSUME NEW a \in 1..Len(both), NEW b \in 1..Len(both), both[a].id = both[b].id
        PROVE  a = b
    <2>1. CASE a \in 1..l /\ b \in 1..l
      BY <1>1, <1>2, <1>4, <2>1
    <2>2. ASSUME NEW i \in 1..n, a = l + i, b \in 1..l PROVE FALSE
      BY <1>1, <1>2, <1>4, <2>2
    <2>3. ASSUME NEW j \in 1..n, b = l + j, a \in 1..l PROVE FALSE
      BY <1>1, <1>2, <1>4, <2>3
    <2>4. ASSUME NEW i \in 1..n, a = l + i, NEW j \in 1..n, b = l + j PROVE a = b
      <3>1. ts[i].id = ts[j].id
        BY <1>1, <1>4, <2>4
      <3> QED BY <1>2, <2>4, <3>1
    <2> QED BY <1>1, <2>1, <2>2, <2>3, <2>4
  <1> QED BY <1>1, <1>3, <1>4 DEF NumberedBy, both

LEMMA NumbersCounted ==
  ASSUME NEW rs, NEW A, NumberedBy(rs, A)
  PROVE  Cardinality({r.id : r \in ToSet(rs)}) = Len(rs)
  <1> DEFINE n == Len(rs)
             ids == {r.id : r \in ToSet(rs)}
             f == [a \in 1..n |-> rs[a].id]
  <1>1. /\ n \in Nat /\ ToSet(rs) = {rs[i] : i \in 1..n}
        /\ \A a, b \in 1..n : rs[a].id = rs[b].id => a = b
    BY ListIsSeq DEF NumberedBy, IsList
  <1>2. ids = {rs[i].id : i \in 1..n}
    BY <1>1
  <1> HIDE DEF ids, n
  <1>3. f \in Bijection(1..n, ids)
    <2>1. f \in [1..n -> ids]
      BY <1>2
    <2>2. \A a, b \in 1..n : f[a] = f[b] => a = b
      BY <1>1
    <2>3. \A x \in ids : \E a \in 1..n : f[a] = x
      BY <1>2
    <2> HIDE DEF f
    <2> QED BY <2>1, <2>2, <2>3 DEF Bijection, Injection, Surjection, IsInjective
  <1>4. IsFiniteSet(1..n) /\ Cardinality(1..n) = n
    <2>1. 1 \in Int /\ n \in Int
      BY <1>1
    <2>2. IsFiniteSet(1..n) /\ Cardinality(1..n) = IF 1 > n THEN 0 ELSE n - 1 + 1
      BY <2>1, FS_Interval
    <2>3. (IF 1 > n THEN 0 ELSE n - 1 + 1) = n
      BY <1>1
    <2> QED BY <2>2, <2>3
  <1>5. Cardinality(ids) = n
    <2> HIDE DEF f
    <2> QED BY <1>3, <1>4, FS_Bijection DEF ExistsBijection
  <1> QED BY <1>5 DEF ids, n

-----------------------------------------------------------------------------
(* The numbers of a package.                                               *)

\* A mesh means its facets.
LEMMA MeshMeaning ==
  ASSUME NEW objects, NEW id \in DOMAIN objects, objects[id].mesh
  PROVE  Meaning(objects, id) = FacetsOf(objects[id].geometry)
  <1>1. PICK meaning : /\ Meant(objects, meaning)
                       /\ \A i : Meaning(objects, i) = meaning[MaxGraphDepth][i]
    BY MeaningRecursion
  <1>2. MaxGraphDepth \in 0..MaxGraphDepth
    BY PackageAssumption
  <1>3. meaning[MaxGraphDepth][id] = MeantBy(objects, id, MaxGraphDepth, meaning[MaxGraphDepth - 1])
    BY <1>1, <1>2 DEF Meant
  <1> QED BY <1>1, <1>3 DEF MeantBy

\* By its number a resource is found, a mesh with its facets, and by the number
\* of its placement a record.
LEMMA FoundResource ==
  ASSUME NEW pack, NEW A, NumberedBy(pack.resources, A), NEW a \in 1..Len(pack.resources)
  PROVE  /\ pack.resources[a].id \in DOMAIN ObjectsOf(pack)
         /\ ObjectsOf(pack)[pack.resources[a].id] = pack.resources[a].object
  <1> DEFINE rs == pack.resources
             all == ToSet(rs)
             found(id) == CHOOSE r \in all : r.id = id
             id == rs[a].id
  <1>1. /\ all = {rs[i] : i \in 1..Len(rs)}
        /\ \A i, b \in 1..Len(rs) : rs[i].id = rs[b].id => i = b
    BY ListIsSeq DEF NumberedBy
  <1>2. ObjectsOf(pack) = [i \in {r.id : r \in all} |-> found(i).object]
    BY DEF ObjectsOf
  <1> HIDE DEF all
  <1>3. rs[a] \in all
    BY <1>1
  <1>4. found(id) \in all /\ found(id).id = id
    BY <1>3
  <1>5. found(id) = rs[a]
    <2> HIDE DEF found
    <2> QED BY <1>1, <1>4
  <1> HIDE DEF found
  <1>6. id \in {r.id : r \in all}
    BY <1>3
  <1> QED BY <1>2, <1>5, <1>6

LEMMA FoundMesh ==
  ASSUME NEW pack, NEW A, NumberedBy(pack.resources, A), NEW a \in 1..Len(pack.resources),
         NEW g, pack.resources[a].object = MeshObject(g)
  PROVE  Meaning(ObjectsOf(pack), pack.resources[a].id) = FacetsOf(g)
  <1> DEFINE id == pack.resources[a].id
             objects == ObjectsOf(pack)
  <1>1. id \in DOMAIN objects /\ objects[id] = MeshObject(g)
    BY FoundResource
  <1> HIDE DEF id, objects
  <1>2. objects[id].mesh /\ objects[id].geometry = g
    BY <1>1 DEF MeshObject
  <1> QED BY <1>1, <1>2, MeshMeaning DEF id, objects

LEMMA FoundRecord ==
  ASSUME NEW pack, IsList(pack.records), NEW k \in 1..Len(pack.records),
         pack.records[k].id = pack.items[k].ref,
         \A i \in 1..Len(pack.records) : pack.records[i].id = pack.items[k].ref => i = k
  PROVE  RecordOf(pack, k) = pack.records[k]
  <1> DEFINE all == ToSet(pack.records)
             ref == pack.items[k].ref
             found == CHOOSE r \in all : r.id = ref
  <1>1. all = {pack.records[i] : i \in 1..Len(pack.records)}
    BY ListIsSeq
  <1>2. pack.records[k] \in all
    BY <1>1
  <1>3. found \in all /\ found.id = ref
    BY <1>2
  <1>4. RecordOf(pack, k) = found
    BY DEF RecordOf
  <1> HIDE DEF found, all
  <1> QED BY <1>1, <1>3, <1>4

-----------------------------------------------------------------------------
(* A package for Bambu Studio.                                             *)

BaseOf(docs, i) == FlattenSource(docs[i], Identity)

VolumesOf(objects, docs, i) == Volumes(BaseOf(docs, i), objects[i], Identity)

\* The numbers of these parts are those of meshes that are the volumes.
Carries(resources, parts, volumes, painted) ==
    /\ IsList(parts) /\ Len(parts) = Len(volumes)
    /\ \A v \in 1..Len(volumes) :
         /\ parts[v].volume = volumes[v]
         /\ \E a \in 1..Len(resources) :
              resources[a] = [id |-> parts[v].id,
                              object |-> MeshObject(PaintAttributes(volumes[v].geometry, painted))]

RecordFor(id, object, parts) ==
    [id |-> id, overrides |-> object.overrides,
     parts |-> [v \in DOMAIN parts |-> [id |-> parts[v].id, modifier |-> parts[v].volume.modifier,
                                        settings |-> parts[v].volume.settings]]]

\* What a package has of the objects up to the k-th.
BambuUpTo(objects, docs, k, acc) ==
    /\ acc.next \in Nat /\ acc.next >= 1
    /\ NumberedBy(acc.resources, 1..(acc.next - 1))
    /\ IsList(acc.records) /\ Len(acc.records) = k /\ IsList(acc.items) /\ Len(acc.items) = k
    /\ \A i \in 1..k :
         /\ BaseOf(docs, i).ok
         /\ acc.items[i].ref \in 1..(acc.next - 1) /\ acc.items[i].m = objects[i].transform
         /\ \E parts : /\ Carries(acc.resources, parts, VolumesOf(objects, docs, i),
                                  IsPainted(objects[i]))
                       /\ acc.records[i] = RecordFor(acc.items[i].ref, objects[i], parts)
    /\ \A i, j \in 1..k : acc.items[i].ref = acc.items[j].ref => i = j
    /\ \A d \in DOMAIN acc.linked : \E i \in 1..k :
         /\ acc.linked[d].source = SourceKey(objects[i])
         /\ acc.linked[d].variant = Variant(objects[i])
         /\ acc.linked[d].base = BaseOf(docs, i)
         /\ Carries(acc.resources, acc.linked[d].parts, VolumesOf(objects, docs, i),
                    IsPainted(objects[i]))

\* The objects of a plate and their sources: one for each file and paint.
Sources(objects, docs) ==
    /\ Len(docs) \in Nat
    /\ \A i \in 1..Len(docs) : PlacedWell(objects[i]) /\ IsDocument(docs[i])
    /\ \A i, j \in 1..Len(docs) : SourceKey(objects[i]) = SourceKey(objects[j]) => docs[i] = docs[j]

\* Parts that are carried by some resources are carried by more of them.
LEMMA CarriesMore ==
  ASSUME NEW rs, NEW more, \A a \in 1..Len(rs) : a \in 1..Len(more) /\ more[a] = rs[a],
         NEW parts, NEW volumes, NEW painted, Carries(rs, parts, volumes, painted)
  PROVE  Carries(more, parts, volumes, painted)
  <1>1. \A v \in 1..Len(volumes) :
           \E a \in 1..Len(more) :
              more[a] = [id |-> parts[v].id,
                         object |-> MeshObject(PaintAttributes(volumes[v].geometry, painted))]
    <2> TAKE v \in 1..Len(volumes)
    <2>1. PICK a \in 1..Len(rs) :
              rs[a] = [id |-> parts[v].id,
                       object |-> MeshObject(PaintAttributes(volumes[v].geometry, painted))]
      BY DEF Carries
    <2> QED BY <2>1
  <1> QED BY <1>1 DEF Carries

\* Volumes and their numbers, and the meshes they are written as.
NumberedFrom(id, volumes) == [v \in DOMAIN volumes |-> [id |-> id + v, volume |-> volumes[v]]]

MeshesOf(parts, painted) ==
    [v \in DOMAIN parts |->
        [id |-> parts[v].id,
         object |-> MeshObject(PaintAttributes(parts[v].volume.geometry, painted))]]

\* Volumes that are numbered anew, and the assembly behind them.
LEMMA NewMeshes ==
  ASSUME NEW id \in Nat, id >= 1, NEW rs, NumberedBy(rs, 1..(id - 1)),
         NEW volumes, IsList(volumes), NEW painted, NEW assembly
  PROVE  LET n == Len(volumes)
             parts == NumberedFrom(id, volumes)
             more == rs \o MeshesOf(parts, painted) \o <<[id |-> id, object |-> assembly]>>
         IN /\ Len(parts) = n /\ DOMAIN parts = 1..n /\ n \in Nat
            /\ NumberedBy(more, 1..(id + n))
            /\ \A a \in 1..Len(rs) : a \in 1..Len(more) /\ more[a] = rs[a]
            /\ Carries(more, parts, volumes, painted)
  <1> DEFINE n == Len(volumes)
             parts == NumberedFrom(id, volumes)
             mesh(v) == MeshObject(PaintAttributes(volumes[v].geometry, painted))
             new == MeshesOf(parts, painted)
             last == <<[id |-> id, object |-> assembly]>>
             most == rs \o new
             more == most \o last
  <1>1. n \in Nat /\ DOMAIN volumes = 1..n
    BY ListIsSeq DEF IsList
  <1>2. parts = [v \in 1..n |-> [id |-> id + v, volume |-> volumes[v]]]
    BY <1>1 DEF NumberedFrom
  <1> HIDE DEF parts, n
  <1>3. /\ DOMAIN parts = 1..n /\ parts = [v \in 1..n |-> parts[v]]
        /\ \A v \in 1..n : parts[v].id = id + v /\ parts[v].volume = volumes[v]
    BY <1>2
  <1>4. new = [v \in 1..n |-> [id |-> id + v, object |-> mesh(v)]]
    BY <1>3 DEF MeshesOf
  <1> HIDE DEF new, mesh
  <1>5. new = [v \in 1..n |-> new[v]] /\ \A v \in 1..n : new[v] = [id |-> id + v, object |-> mesh(v)]
    BY <1>4
  <1>60. Len(parts) = n /\ IsList(parts)
    <2>1. parts = [v \in 1..n |-> parts[v]] /\ n \in Nat
      BY <1>1, <1>3
    <2> HIDE DEF parts, n
    <2>2. IsList(parts)
      BY <2>1, FamilyIsList
    <2>3. Len(parts) = n
      BY <2>1, FamilyIsList
    <2> QED BY <2>2, <2>3
  <1>6. Len(parts) = n /\ IsList(parts) /\ IsList(new) /\ Len(new) = n
    <2>1. new = [v \in 1..n |-> new[v]] /\ n \in Nat
      BY <1>1, <1>5
    <2> HIDE DEF n
    <2>2. IsList(new)
      BY <2>1, FamilyIsList
    <2>3. Len(new) = n
      BY <2>1, FamilyIsList
    <2> QED BY <1>60, <2>2, <2>3
  <1>7. NumberedBy(new, (id + 1)..(id + n))
    <2>1. \A v \in 1..n : id + v \in (id + 1)..(id + n)
      BY <1>1
    <2>2. \A v, w \in 1..n : id + v = id + w => v = w
      BY <1>1
    <2> QED BY <1>5, <1>6, <2>1, <2>2 DEF NumberedBy
  <1>8. NumberedBy(last, {id}) /\ IsList(last)
    <2>1. IsList(last) /\ Len(last) = 1 /\ last[1] = [id |-> id, object |-> assembly]
      BY OneIsList
    <2>2. \A a \in 1..1 : a = 1
      OBVIOUS
    <2> HIDE DEF last
    <2> QED BY <2>1, <2>2 DEF NumberedBy
  <1> HIDE DEF last
  <1>9. NumberedBy(most, (1..(id - 1)) \cup ((id + 1)..(id + n)))
    <2>1. (1..(id - 1)) \cap ((id + 1)..(id + n)) = {}
      BY <1>1
    <2> QED BY <1>7, <2>1, NumberedConcat
  <1>10. /\ IsList(most)
         /\ \A a \in 1..Len(rs) : a \in 1..Len(most) /\ most[a] = rs[a]
         /\ \A v \in 1..n : Len(rs) + v \in 1..Len(most) /\ most[Len(rs) + v] = new[v]
    <2>1. IsList(rs) /\ IsList(new)
      BY <1>6 DEF NumberedBy
    <2>2. IsList(most)
      BY <2>1, ListConcat
    <2>3. \A a \in 1..Len(rs) : a \in 1..Len(most) /\ most[a] = rs[a]
      BY <2>1, ListConcat
    <2>4. \A v \in 1..n : Len(rs) + v \in 1..Len(most) /\ most[Len(rs) + v] = new[v]
      BY <1>6, <2>1, ListConcat
    <2> QED BY <2>2, <2>3, <2>4
  <1> HIDE DEF most
  <1>11. NumberedBy(more, ((1..(id - 1)) \cup ((id + 1)..(id + n))) \cup {id})
    <2>1. ((1..(id - 1)) \cup ((id + 1)..(id + n))) \cap {id} = {}
      BY <1>1
    <2> QED BY <1>8, <1>9, <2>1, NumberedConcat
  <1>12. ((1..(id - 1)) \cup ((id + 1)..(id + n))) \cup {id} = 1..(id + n)
    BY <1>1
  <1>13. /\ \A a \in 1..Len(most) : a \in 1..Len(more) /\ more[a] = most[a]
    BY <1>8, <1>10, ListConcat
  <1> HIDE DEF more
  <1>14. Carries(more, parts, volumes, painted)
    <2>1. \A v \in 1..n : \E a \in 1..Len(more) : more[a] = [id |-> parts[v].id, object |-> mesh(v)]
      <3> TAKE v \in 1..n
      <3>1. Len(rs) + v \in 1..Len(more) /\ more[Len(rs) + v] = new[v]
        BY <1>10, <1>13
      <3> QED BY <1>3, <1>5, <3>1
    <2> QED BY <1>3, <1>6, <2>1 DEF Carries, n, mesh
  <1>15. /\ Len(parts) = n /\ DOMAIN parts = 1..n /\ n \in Nat
         /\ NumberedBy(more, 1..(id + n))
         /\ \A a \in 1..Len(rs) : a \in 1..Len(more) /\ more[a] = rs[a]
         /\ Carries(more, parts, volumes, painted)
    BY <1>1, <1>3, <1>6, <1>10, <1>11, <1>12, <1>13, <1>14
  <1> QED BY <1>15 DEF parts, n, new, more, most, last

\* The resources when the meshes are those of a linked instance.
LEMMA ReusedMeshes ==
  ASSUME NEW id \in Nat, id >= 1, NEW rs, NumberedBy(rs, 1..(id - 1)), NEW assembly
  PROVE  LET more == rs \o <<>> \o <<[id |-> id, object |-> assembly]>>
         IN /\ NumberedBy(more, 1..id)
            /\ \A a \in 1..Len(rs) : a \in 1..Len(more) /\ more[a] = rs[a]
  <1> DEFINE last == <<[id |-> id, object |-> assembly]>>
             more == rs \o last
  <1>1. rs \o <<>> = rs
    <2>1. rs \in Seq(ToSet(rs))
      BY ListIsSeq DEF NumberedBy
    <2> DEFINE X == ToSet(rs)
    <2> HIDE DEF X
    <2>2. rs \in Seq(X)
      BY <2>1 DEF X
    <2> QED BY <2>2, ConcatEmptySeq
  <1>8. NumberedBy(last, {id}) /\ IsList(last)
    <2>1. IsList(last) /\ Len(last) = 1 /\ last[1] = [id |-> id, object |-> assembly]
      BY OneIsList
    <2>2. \A a \in 1..1 : a = 1
      OBVIOUS
    <2> HIDE DEF last
    <2> QED BY <2>1, <2>2 DEF NumberedBy
  <1> HIDE DEF last
  <1>9. NumberedBy(more, (1..(id - 1)) \cup {id})
    <2>1. (1..(id - 1)) \cap {id} = {}
      OBVIOUS
    <2> QED BY <1>8, <2>1, NumberedConcat
  <1>10. (1..(id - 1)) \cup {id} = 1..id
    OBVIOUS
  <1>11. \A a \in 1..Len(rs) : a \in 1..Len(more) /\ more[a] = rs[a]
    BY <1>8, ListConcat DEF NumberedBy
  <1> HIDE DEF more
  <1>12. /\ NumberedBy(more, 1..id)
         /\ \A a \in 1..Len(rs) : a \in 1..Len(more) /\ more[a] = rs[a]
    BY <1>9, <1>10, <1>11
  <1> QED BY <1>1, <1>12 DEF more, last

\* What the next object adds to a package: the numbers of its meshes, or of
\* those of the instance it shares, and its own.
BambuNew(objects, docs, k, acc, new) ==
    LET object == objects[k + 1]
    IN /\ new.next \in Nat /\ new.next > acc.next
       /\ NumberedBy(new.resources, 1..(new.next - 1))
       /\ \A a \in 1..Len(acc.resources) :
             a \in 1..Len(new.resources) /\ new.resources[a] = acc.resources[a]
       /\ BaseOf(docs, k + 1).ok
       /\ new.items = Append(acc.items, Placement(acc.next, object.transform))
       /\ \E parts :
            /\ Carries(new.resources, parts, VolumesOf(objects, docs, k + 1), IsPainted(object))
            /\ new.records = Append(acc.records, RecordFor(acc.next, object, parts))
            /\ new.linked =
                 IF object.definition \in DOMAIN acc.linked \cup {NoDefinition}
                 THEN acc.linked
                 ELSE [d \in DOMAIN acc.linked \cup {object.definition} |->
                          IF d = object.definition
                          THEN [source |-> SourceKey(object), variant |-> Variant(object),
                                base |-> BaseOf(docs, k + 1), parts |-> parts]
                          ELSE acc.linked[d]]

\* What the next object adds has numbers of its own, and its meshes.
LEMMA BambuNumbered ==
  ASSUME NEW objects, NEW docs, Sources(objects, docs),
         NEW k \in Nat, k + 1 <= Len(docs),
         NEW acc, BambuUpTo(objects, docs, k, acc),
         AddBambu(acc, objects[k + 1], docs[k + 1]).ok
  PROVE  BambuNew(objects, docs, k, acc, AddBambu(acc, objects[k + 1], docs[k + 1]))
  <1> DEFINE object == objects[k + 1]
             doc == docs[k + 1]
             new == AddBambu(acc, object, doc)
             reuse == Linked(acc.linked, object)
             base  == IF reuse THEN acc.linked[object.definition].base
                               ELSE FlattenSource(doc, Identity)
             volumes == Volumes(base, object, Identity)
             id    == acc.next
             parts == IF reuse THEN acc.linked[object.definition].parts
                      ELSE [i \in DOMAIN volumes |-> [id |-> id + i, volume |-> volumes[i]]]
             fresh == [i \in DOMAIN parts |->
                         [id |-> parts[i].id,
                          object |-> MeshObject(PaintAttributes(parts[i].volume.geometry,
                                                                IsPainted(object)))]]
             entry == [source |-> SourceKey(object), variant |-> Variant(object),
                       base |-> base, parts |-> parts]
             assembly == Assembly([i \in DOMAIN parts |-> Placement(parts[i].id, Identity)])
             last == <<[id |-> id, object |-> assembly]>>
  <1>1. /\ new.ok = (acc.ok /\ base.ok)
        /\ new.next = id + 1 + (IF reuse THEN 0 ELSE Len(parts))
        /\ new.resources = acc.resources \o (IF reuse THEN <<>> ELSE fresh) \o last
        /\ new.items = Append(acc.items, Placement(id, object.transform))
        /\ new.linked = IF object.definition \in DOMAIN acc.linked \cup {NoDefinition}
                        THEN acc.linked
                        ELSE [d \in DOMAIN acc.linked \cup {object.definition} |->
                                 IF d = object.definition THEN entry ELSE acc.linked[d]]
    BY DEF AddBambu
  <1>2. new.records = Append(acc.records, RecordFor(id, object, parts))
    BY DEF AddBambu, RecordFor
  <1>3. k + 1 \in 1..Len(docs) /\ \A i \in 1..k : i \in 1..Len(docs)
    BY DEF Sources
  <1>4. /\ id \in Nat /\ id >= 1 /\ NumberedBy(acc.resources, 1..(id - 1))
        /\ \A d \in DOMAIN acc.linked : \E i \in 1..k :
             /\ acc.linked[d].source = SourceKey(objects[i])
             /\ acc.linked[d].variant = Variant(objects[i])
             /\ acc.linked[d].base = BaseOf(docs, i)
             /\ Carries(acc.resources, acc.linked[d].parts, VolumesOf(objects, docs, i),
                        IsPainted(objects[i]))
    BY DEF BambuUpTo
  <1>5. FlattenSource(doc, Identity) = BaseOf(docs, k + 1)
    BY DEF BaseOf
  <1> HIDE DEF new
  <1>6. ASSUME reuse
        PROVE  /\ new.next \in Nat /\ new.next > id /\ base.ok /\ base = BaseOf(docs, k + 1)
               /\ NumberedBy(new.resources, 1..(new.next - 1))
               /\ \A a \in 1..Len(acc.resources) :
                     a \in 1..Len(new.resources) /\ new.resources[a] = acc.resources[a]
               /\ Carries(new.resources, parts, VolumesOf(objects, docs, k + 1), IsPainted(object))
    <2>1. /\ base = acc.linked[object.definition].base
          /\ parts = acc.linked[object.definition].parts
          /\ object.definition \in DOMAIN acc.linked
          /\ acc.linked[object.definition].source = SourceKey(object)
          /\ acc.linked[object.definition].variant = Variant(object)
      BY <1>6 DEF Linked
    <2>10. new.next = id + 1 + 0 /\ new.resources = acc.resources \o <<>> \o last
      BY <1>1, <1>6
    <2> DEFINE one == acc.linked[object.definition]
    <2> HIDE DEF base, parts, assembly, last
    <2>20. PICK i \in 1..k : /\ one.source = SourceKey(objects[i])
                             /\ one.variant = Variant(objects[i])
                             /\ one.base = BaseOf(docs, i)
                             /\ Carries(acc.resources, one.parts, VolumesOf(objects, docs, i),
                                        IsPainted(objects[i]))
      BY <1>4, <2>1
    <2> HIDE DEF one
    <2>2. /\ SourceKey(object) = SourceKey(objects[i])
          /\ Variant(object) = Variant(objects[i])
          /\ base = BaseOf(docs, i)
          /\ Carries(acc.resources, parts, VolumesOf(objects, docs, i), IsPainted(objects[i]))
      BY <2>1, <2>20 DEF one
    <2>3. docs[i] = doc
      BY <1>3, <2>2 DEF Sources
    <2>4. object.modifiers = objects[i].modifiers /\ object.paint = objects[i].paint
      BY <2>2 DEF Variant
    <2>5. BaseOf(docs, i) = BaseOf(docs, k + 1)
      BY <2>3 DEF BaseOf
    <2>6. VolumesOf(objects, docs, i) = VolumesOf(objects, docs, k + 1)
      BY <2>4, <2>5 DEF VolumesOf, Volumes
    <2>7. IsPainted(objects[i]) = IsPainted(object)
      BY <2>4 DEF IsPainted
    <2>8. /\ NumberedBy(new.resources, 1..id)
          /\ \A a \in 1..Len(acc.resources) :
                a \in 1..Len(new.resources) /\ new.resources[a] = acc.resources[a]
      BY <1>4, <2>10, ReusedMeshes DEF last
    <2>9. Carries(new.resources, parts, VolumesOf(objects, docs, k + 1), IsPainted(object))
      <3>1. Carries(acc.resources, parts, VolumesOf(objects, docs, k + 1), IsPainted(object))
        BY <2>2, <2>6, <2>7
      <3> QED BY <2>8, <3>1, CarriesMore
    <2>11. new.next \in Nat /\ new.next > id /\ 1..(new.next - 1) = 1..id
      BY <1>4, <2>10
    <2>12. base = BaseOf(docs, k + 1) /\ base.ok
      BY <1>1, <2>2, <2>5 DEF new
    <2> QED BY <2>8, <2>9, <2>11, <2>12
  <1>7. ASSUME ~reuse
        PROVE  /\ new.next \in Nat /\ new.next > id /\ base.ok /\ base = BaseOf(docs, k + 1)
               /\ NumberedBy(new.resources, 1..(new.next - 1))
               /\ \A a \in 1..Len(acc.resources) :
                     a \in 1..Len(new.resources) /\ new.resources[a] = acc.resources[a]
               /\ Carries(new.resources, parts, VolumesOf(objects, docs, k + 1), IsPainted(object))
    <2>1. base = BaseOf(docs, k + 1) /\ base.ok
      BY <1>1, <1>5, <1>7 DEF new
    <2>2. volumes = VolumesOf(objects, docs, k + 1)
      BY <2>1 DEF VolumesOf
    <2>3. IsList(volumes)
      <3>1. PlacedWell(object) /\ IsDocument(doc)
        BY <1>3 DEF Sources
      <3>2. FlattenSource(doc, Identity).ok /\ base = FlattenSource(doc, Identity)
        BY <1>5, <2>1
      <3>3. Unmirrored(Identity) /\ Identity \in Matrices
        BY IdentityIsMatrix, UnmirroredType
      <3> HIDE DEF object, doc, base
      <3>4. IsGeometry(base) /\ Whole(base)
        BY <3>1, <3>2, <3>3, SourceFlattened
      <3>5. VolumesFit(volumes, object, Identity, base)
        BY <3>1, <3>3, <3>4, VolumesAre
      <3> QED BY <3>5 DEF VolumesFit
    <2>4. parts = [i \in DOMAIN volumes |-> [id |-> id + i, volume |-> volumes[i]]]
      BY <1>7
    <2>5. /\ new.next = id + 1 + Len(parts)
          /\ new.resources = acc.resources \o fresh \o last
      BY <1>1, <1>7
    <2> HIDE DEF base, volumes
    <2> DEFINE n == Len(volumes)
               painted == IsPainted(object)
               rs == acc.resources
               numbers == NumberedFrom(id, volumes)
               shapes == MeshesOf(numbers, painted)
               more == rs \o shapes \o <<[id |-> id, object |-> assembly]>>
    <2>60. parts = numbers
      BY <2>4 DEF NumberedFrom
    <2> HIDE DEF parts, assembly, object
    <2>61. fresh = shapes
      BY <2>60 DEF MeshesOf
    <2> HIDE DEF painted
    <2>62. /\ Len(numbers) = n /\ n \in Nat
           /\ NumberedBy(more, 1..(id + n))
           /\ \A a \in 1..Len(rs) : a \in 1..Len(more) /\ more[a] = rs[a]
           /\ Carries(more, numbers, volumes, painted)
      <3>1. id \in Nat /\ id >= 1 /\ NumberedBy(rs, 1..(id - 1)) /\ IsList(volumes)
        BY <1>4, <2>3
      <3> HIDE DEF rs, id
      <3>2. NumberedBy(more, 1..(id + n)) /\ Carries(more, numbers, volumes, painted)
        BY <3>1, NewMeshes
      <3>3. ASSUME NEW a \in 1..Len(rs) PROVE a \in 1..Len(more) /\ more[a] = rs[a]
        BY <3>1, NewMeshes
      <3>4. Len(numbers) = n /\ n \in Nat
        BY <3>1, <3>2 DEF Carries, IsList
      <3> QED BY <3>2, <3>3, <3>4
    <2> HIDE DEF numbers, shapes, fresh, n
    <2>63. new.resources = more
      BY <2>5, <2>61
    <2> HIDE DEF more
    <2>6. /\ Len(parts) = n /\ n \in Nat
          /\ NumberedBy(new.resources, 1..(id + n))
          /\ \A a \in 1..Len(acc.resources) :
                a \in 1..Len(new.resources) /\ new.resources[a] = acc.resources[a]
          /\ Carries(new.resources, parts, volumes, IsPainted(object))
      <3>1. Carries(new.resources, parts, volumes, painted)
        BY <2>60, <2>62, <2>63
      <3> QED BY <2>60, <2>62, <2>63, <3>1 DEF painted
    <2>7. new.next \in Nat /\ new.next > id /\ 1..(new.next - 1) = 1..(id + n)
      BY <1>4, <2>5, <2>6
    <2> QED BY <2>1, <2>2, <2>6, <2>7
  <1> HIDE DEF base, parts, object, volumes, fresh, assembly, last
  <1>8. entry = [source |-> SourceKey(object), variant |-> Variant(object),
                 base |-> BaseOf(docs, k + 1), parts |-> parts]
    BY <1>6, <1>7
  <1> HIDE DEF reuse, entry
  <1>9. new.linked = IF object.definition \in DOMAIN acc.linked \cup {NoDefinition}
                     THEN acc.linked
                     ELSE [d \in DOMAIN acc.linked \cup {object.definition} |->
                              IF d = object.definition
                              THEN [source |-> SourceKey(object), variant |-> Variant(object),
                                    base |-> BaseOf(docs, k + 1), parts |-> parts]
                              ELSE acc.linked[d]]
    BY <1>1, <1>8
  <1>10. /\ new.next \in Nat /\ new.next > id /\ base.ok /\ base = BaseOf(docs, k + 1)
         /\ NumberedBy(new.resources, 1..(new.next - 1))
         /\ \A a \in 1..Len(acc.resources) :
               a \in 1..Len(new.resources) /\ new.resources[a] = acc.resources[a]
         /\ Carries(new.resources, parts, VolumesOf(objects, docs, k + 1), IsPainted(object))
    BY <1>6, <1>7
  <1>11. new.items = Append(acc.items, Placement(id, object.transform))
    BY <1>1
  <1>12. BambuNew(objects, docs, k, acc, new)
    BY <1>2, <1>9, <1>10, <1>11 DEF BambuNew, object
  <1> QED BY <1>12 DEF new, object

\* A placement more.
LEMMA BambuStep ==
  ASSUME NEW objects, NEW docs, Sources(objects, docs),
         NEW k \in Nat, k + 1 <= Len(docs),
         NEW acc, BambuUpTo(objects, docs, k, acc),
         AddBambu(acc, objects[k + 1], docs[k + 1]).ok
  PROVE  BambuUpTo(objects, docs, k + 1, AddBambu(acc, objects[k + 1], docs[k + 1]))
  <1> DEFINE object == objects[k + 1]
             new == AddBambu(acc, object, docs[k + 1])
             volumes == VolumesOf(objects, docs, k + 1)
             id == acc.next
  <1>0. BambuNew(objects, docs, k, acc, new)
    BY BambuNumbered
  <1> HIDE DEF new
  <1>1. /\ new.next \in Nat /\ new.next > id
        /\ NumberedBy(new.resources, 1..(new.next - 1))
        /\ \A a \in 1..Len(acc.resources) :
              a \in 1..Len(new.resources) /\ new.resources[a] = acc.resources[a]
        /\ BaseOf(docs, k + 1).ok
        /\ new.items = Append(acc.items, Placement(id, object.transform))
    BY <1>0 DEF BambuNew
  <1>2. PICK parts :
          /\ Carries(new.resources, parts, volumes, IsPainted(object))
          /\ new.records = Append(acc.records, RecordFor(id, object, parts))
          /\ new.linked =
               IF object.definition \in DOMAIN acc.linked \cup {NoDefinition}
               THEN acc.linked
               ELSE [d \in DOMAIN acc.linked \cup {object.definition} |->
                        IF d = object.definition
                        THEN [source |-> SourceKey(object), variant |-> Variant(object),
                              base |-> BaseOf(docs, k + 1), parts |-> parts]
                        ELSE acc.linked[d]]
    BY <1>0 DEF BambuNew
  <1>3. /\ id \in Nat /\ id >= 1
        /\ IsList(acc.records) /\ Len(acc.records) = k
        /\ IsList(acc.items) /\ Len(acc.items) = k
        /\ \A i, j \in 1..k : acc.items[i].ref = acc.items[j].ref => i = j
    BY DEF BambuUpTo
  <1>4. \A i \in 1..k :
          /\ BaseOf(docs, i).ok
          /\ acc.items[i].ref \in 1..(id - 1) /\ acc.items[i].m = objects[i].transform
          /\ \E ps : /\ Carries(acc.resources, ps, VolumesOf(objects, docs, i),
                                IsPainted(objects[i]))
                     /\ acc.records[i] = RecordFor(acc.items[i].ref, objects[i], ps)
    BY DEF BambuUpTo
  <1>5. \A d \in DOMAIN acc.linked : \E i \in 1..k :
          /\ acc.linked[d].source = SourceKey(objects[i])
          /\ acc.linked[d].variant = Variant(objects[i])
          /\ acc.linked[d].base = BaseOf(docs, i)
          /\ Carries(acc.resources, acc.linked[d].parts, VolumesOf(objects, docs, i),
                     IsPainted(objects[i]))
    BY DEF BambuUpTo
  <1> HIDE DEF volumes, id
  <1>6. /\ IsList(new.records) /\ Len(new.records) = k + 1
        /\ \A i \in 1..k : new.records[i] = acc.records[i]
        /\ new.records[k + 1] = RecordFor(id, object, parts)
    <2> DEFINE rs == acc.records
               x == RecordFor(id, object, parts)
    <2> HIDE DEF rs, x
    <2>1. IsList(rs) /\ Len(rs) = k /\ new.records = Append(rs, x)
      BY <1>2, <1>3 DEF rs, x
    <2>2. IsList(new.records)
      BY <2>1, ListAppend
    <2>5. Len(new.records) = k + 1
      BY <2>1, ListAppend
    <2>3. \A i \in 1..k : new.records[i] = rs[i]
      BY <2>1, ListAppend
    <2>4. new.records[k + 1] = x
      BY <2>1, ListAppend
    <2> QED BY <2>2, <2>3, <2>4, <2>5 DEF rs, x
  <1>7. /\ IsList(new.items) /\ Len(new.items) = k + 1
        /\ \A i \in 1..k : new.items[i] = acc.items[i]
        /\ new.items[k + 1] = Placement(id, object.transform)
    <2> DEFINE rs == acc.items
               x == Placement(id, object.transform)
    <2> HIDE DEF rs, x
    <2>1. IsList(rs) /\ Len(rs) = k /\ new.items = Append(rs, x)
      BY <1>1, <1>3 DEF rs, x
    <2>2. IsList(new.items)
      BY <2>1, ListAppend
    <2>5. Len(new.items) = k + 1
      BY <2>1, ListAppend
    <2>3. \A i \in 1..k : new.items[i] = rs[i]
      BY <2>1, ListAppend
    <2>4. new.items[k + 1] = x
      BY <2>1, ListAppend
    <2> QED BY <2>2, <2>3, <2>4, <2>5 DEF rs, x
  <1>8. new.items[k + 1].ref = id /\ new.items[k + 1].m = object.transform
    BY <1>7 DEF Placement
  <1>9. /\ k + 1 \in 1..(k + 1) /\ \A i \in 1..k : i \in 1..(k + 1)
        /\ \A i \in 1..(k + 1) : i \in 1..k \/ i = k + 1
    OBVIOUS
  <1>10. \A i \in 1..(id - 1) : i \in 1..(new.next - 1) /\ i # id
    BY <1>1, <1>3
  <1>11. id \in 1..(new.next - 1) /\ new.next >= 1
    BY <1>1, <1>3
  <1>12. ASSUME NEW i \in 1..k
         PROVE  /\ BaseOf(docs, i).ok
                /\ new.items[i].ref \in 1..(new.next - 1) /\ new.items[i].m = objects[i].transform
                /\ \E ps : /\ Carries(new.resources, ps, VolumesOf(objects, docs, i),
                                      IsPainted(objects[i]))
                           /\ new.records[i] = RecordFor(new.items[i].ref, objects[i], ps)
    <2>1. PICK ps : /\ Carries(acc.resources, ps, VolumesOf(objects, docs, i),
                               IsPainted(objects[i]))
                    /\ acc.records[i] = RecordFor(acc.items[i].ref, objects[i], ps)
      BY <1>4
    <2>2. Carries(new.resources, ps, VolumesOf(objects, docs, i), IsPainted(objects[i]))
      BY <1>1, <2>1, CarriesMore
    <2>3. new.records[i] = RecordFor(new.items[i].ref, objects[i], ps)
      BY <1>6, <1>7, <2>1
    <2> QED BY <1>4, <1>7, <1>10, <2>2, <2>3
  <1>13. /\ BaseOf(docs, k + 1).ok
         /\ new.items[k + 1].ref \in 1..(new.next - 1)
         /\ new.items[k + 1].m = objects[k + 1].transform
         /\ \E ps : /\ Carries(new.resources, ps, VolumesOf(objects, docs, k + 1),
                               IsPainted(objects[k + 1]))
                    /\ new.records[k + 1] = RecordFor(new.items[k + 1].ref, objects[k + 1], ps)
    BY <1>1, <1>2, <1>6, <1>8, <1>11 DEF volumes
  <1>14. ASSUME NEW i \in 1..(k + 1), NEW j \in 1..(k + 1), new.items[i].ref = new.items[j].ref
         PROVE  i = j
    <2>1. \A h \in 1..k : new.items[h].ref = acc.items[h].ref /\ new.items[h].ref # id
      BY <1>4, <1>7, <1>10
    <2> QED BY <1>3, <1>8, <1>9, <1>14, <2>1
  <1>15. ASSUME NEW d \in DOMAIN new.linked
         PROVE  \E i \in 1..(k + 1) :
                  /\ new.linked[d].source = SourceKey(objects[i])
                  /\ new.linked[d].variant = Variant(objects[i])
                  /\ new.linked[d].base = BaseOf(docs, i)
                  /\ Carries(new.resources, new.linked[d].parts, VolumesOf(objects, docs, i),
                             IsPainted(objects[i]))
    <2>1. CASE d \in DOMAIN acc.linked /\ new.linked[d] = acc.linked[d]
      <3>1. PICK i \in 1..k :
              /\ acc.linked[d].source = SourceKey(objects[i])
              /\ acc.linked[d].variant = Variant(objects[i])
              /\ acc.linked[d].base = BaseOf(docs, i)
              /\ Carries(acc.resources, acc.linked[d].parts, VolumesOf(objects, docs, i),
                         IsPainted(objects[i]))
        BY <1>5, <2>1
      <3>2. Carries(new.resources, acc.linked[d].parts, VolumesOf(objects, docs, i),
                    IsPainted(objects[i]))
        BY <1>1, <3>1, CarriesMore
      <3> QED BY <1>9, <2>1, <3>1, <3>2
    <2>2. CASE new.linked[d] = [source |-> SourceKey(object), variant |-> Variant(object),
                                base |-> BaseOf(docs, k + 1), parts |-> parts]
      <3>1. /\ new.linked[d].source = SourceKey(object) /\ new.linked[d].variant = Variant(object)
            /\ new.linked[d].base = BaseOf(docs, k + 1) /\ new.linked[d].parts = parts
        BY <2>2
      <3> QED BY <1>2, <1>9, <3>1 DEF volumes
    <2>3. \/ d \in DOMAIN acc.linked /\ new.linked[d] = acc.linked[d]
          \/ new.linked[d] = [source |-> SourceKey(object), variant |-> Variant(object),
                              base |-> BaseOf(docs, k + 1), parts |-> parts]
      <3> HIDE DEF object
      <3>1. CASE object.definition \in DOMAIN acc.linked \cup {NoDefinition}
        BY <1>2, <3>1
      <3>2. CASE object.definition \notin DOMAIN acc.linked \cup {NoDefinition}
        BY <1>2, <3>2
      <3> QED BY <3>1, <3>2
    <2> QED BY <2>1, <2>2, <2>3
  <1>16. \A i \in 1..(k + 1) :
           /\ BaseOf(docs, i).ok
           /\ new.items[i].ref \in 1..(new.next - 1) /\ new.items[i].m = objects[i].transform
           /\ \E ps : /\ Carries(new.resources, ps, VolumesOf(objects, docs, i),
                                 IsPainted(objects[i]))
                      /\ new.records[i] = RecordFor(new.items[i].ref, objects[i], ps)
    BY <1>9, <1>12, <1>13
  <1>17. BambuUpTo(objects, docs, k + 1, new)
    BY <1>1, <1>6, <1>7, <1>11, <1>14, <1>15, <1>16 DEF BambuUpTo
  <1> QED BY <1>17 DEF new

\* Before the first object.
LEMMA BambuBegins ==
  ASSUME NEW objects, NEW docs, NEW acc, acc.next = 1, acc.resources = <<>>, acc.records = <<>>,
         acc.items = <<>>, acc.linked = <<>>
  PROVE  BambuUpTo(objects, docs, 0, acc)
  <1>1. IsList(<<>>) /\ Len(<<>>) = 0 /\ DOMAIN <<>> = {}
    <2>1. <<>> \in Seq({}) /\ Len(<<>>) = 0 /\ DOMAIN <<>> = {}
      OBVIOUS
    <2> QED BY <2>1, SeqIsList
  <1>2. \A i \in 1..0 : FALSE
    OBVIOUS
  <1>3. NumberedBy(<<>>, 1..(1 - 1))
    BY <1>1, <1>2 DEF NumberedBy
  <1> QED BY <1>1, <1>2, <1>3 DEF BambuUpTo

-----------------------------------------------------------------------------
(* One mesh per placement, and the triangles of its volumes.               *)

\* Parts of two sequences, one after the other.
PartsOf(both, s, t, l, k) ==
    /\ \A m, n \in Int : m >= 1 /\ n <= l => SubSeq(both, m, n) = SubSeq(s, m, n)
    /\ SubSeq(both, l + 1, l + k) = t

LEMMA PartOfConcat ==
  ASSUME NEW X, NEW s \in Seq(X), NEW t \in Seq(X), NEW l, l = Len(s), NEW k, k = Len(t),
         NEW both, Joins(both, s, t)
  PROVE  PartsOf(both, s, t, l, k)
  <1>1. /\ both \in Seq(X) /\ Len(both) = l + k /\ l \in Nat /\ k \in Nat
        /\ \A i \in 1..(l + k) : both[i] = IF i <= l THEN s[i] ELSE t[i - l]
    <2>1. both \in Seq(X) /\ Concatenated(both, s, t, Len(s), Len(t))
      BY ConcatIndexed
    <2>2. Len(s) \in Nat /\ Len(t) \in Nat
      BY LenProperties
    <2> QED BY <2>1, <2>2 DEF Concatenated
  <1>2. /\ \A i \in 1..l : s[i] \in X /\ both[i] = s[i]
        /\ \A i \in 1..k : t[i] \in X /\ both[l + i] = t[i]
    <2>1. \A i \in 1..l : i \in 1..(l + k) /\ i <= l
      BY <1>1
    <2>2. \A i \in 1..k : l + i \in 1..(l + k) /\ ~(l + i <= l) /\ (l + i) - l = i
      BY <1>1
    <2>3. (\A i \in 1..Len(s) : s[i] \in X) /\ (\A i \in 1..Len(t) : t[i] \in X)
      BY ElementOfSeq
    <2>4. ASSUME NEW i \in 1..l PROVE s[i] \in X /\ both[i] = s[i]
      BY <1>1, <2>1, <2>3
    <2>5. ASSUME NEW i \in 1..k PROVE t[i] \in X /\ both[l + i] = t[i]
      <3>1. both[l + i] = t[(l + i) - l]
        BY <1>1, <2>2
      <3>2. (l + i) - l = i /\ t[i] \in X
        BY <2>2, <2>3
      <3> QED BY <3>1, <3>2
    <2> QED BY <2>4, <2>5
  <1>3. t \in Seq(X) /\ Len(t) = k
    OBVIOUS
  <1>4. ASSUME NEW m \in Int, NEW n \in Int, m >= 1, n <= l
        PROVE  SubSeq(both, m, n) = SubSeq(s, m, n)
    <2>1. \A i \in m..n : i \in 1..l
      BY <1>1, <1>4
    <2>2. \A i \in m..n : both[i] \in X /\ s[i] \in X /\ both[i] = s[i]
      BY <1>2, <2>1
    <2> DEFINE a == SubSeq(both, m, n)
               b == SubSeq(s, m, n)
               c == IF m <= n THEN n - m + 1 ELSE 0
    <2>20. IsPart(a, both, m, n) /\ IsPart(b, s, m, n)
      BY DEF IsPart
    <2> HIDE DEF a, b
    <2>3. /\ a \in Seq(X) /\ Len(a) = c /\ \A i \in 1..(n - m + 1) : a[i] = both[m + i - 1]
      <3>1. Excerpt(a, both, m, n) /\ a \in Seq(X)
        <4>1. Within(both, m, n, X)
          BY <2>2 DEF Within
        <4> QED BY <2>20, <4>1, PartIndexed
      <3> QED BY <3>1 DEF Excerpt
    <2>4. /\ b \in Seq(X) /\ Len(b) = c /\ \A i \in 1..(n - m + 1) : b[i] = s[m + i - 1]
      <3>1. Excerpt(b, s, m, n) /\ b \in Seq(X)
        <4>1. Within(s, m, n, X)
          BY <2>2 DEF Within
        <4> QED BY <2>20, <4>1, PartIndexed
      <3> QED BY <3>1 DEF Excerpt
    <2>5. \A i \in 1..c : i \in 1..(n - m + 1) /\ m + i - 1 \in m..n
      OBVIOUS
    <2> HIDE DEF c
    <2>6. \A i \in 1..c : a[i] = b[i]
      BY <2>2, <2>3, <2>4, <2>5
    <2>7. a = b
      BY <2>3, <2>4, <2>6, SeqEqual
    <2> QED BY <2>7 DEF a, b
  <1>5. SubSeq(both, l + 1, l + k) = t
    <2> DEFINE m == l + 1
               n == l + k
               a == SubSeq(both, m, n)
               c == IF m <= n THEN n - m + 1 ELSE 0
    <2>1. m \in Int /\ n \in Int /\ n - m + 1 = k /\ c = k
      BY <1>1
    <2>2. \A i \in m..n : i - l \in 1..k /\ l + (i - l) = i
      BY <1>1
    <2>3. \A i \in 1..k : m + i - 1 = l + i
      BY <1>1
    <2> HIDE DEF m, n
    <2>4. \A i \in m..n : both[i] \in X
      BY <1>2, <2>2
    <2>5. /\ a \in Seq(X) /\ Len(a) = c /\ \A i \in 1..(n - m + 1) : a[i] = both[m + i - 1]
      <3>1. IsPart(a, both, m, n)
        BY DEF IsPart
      <3> HIDE DEF a
      <3>2. Within(both, m, n, X)
        BY <2>4 DEF Within
      <3>3. a \in Seq(X) /\ Excerpt(a, both, m, n)
        BY <2>1, <3>1, <3>2, PartIndexed
      <3> QED BY <3>3 DEF Excerpt
    <2> HIDE DEF a, c
    <2>6. \A i \in 1..k : a[i] = t[i]
      BY <1>2, <2>1, <2>3, <2>5
    <2>7. a = t
      BY <1>3, <2>1, <2>5, <2>6, SeqEqual
    <2> QED BY <2>7 DEF a, m, n
  <1> QED BY <1>4, <1>5 DEF PartsOf

JoinedFrom(volumes, joined) ==
    /\ joined[0] = [geometry |-> Geometry(<<>>, <<>>), ranges |-> <<>>]
    /\ \A k \in 1..Len(volumes) : joined[k] = Combine(joined[k - 1], volumes[k])

\* The recursive function of Combination is defined.
LEMMA CombinationRecursion ==
  ASSUME NEW volumes, Len(volumes) \in Nat
  PROVE  \E joined : Combination(volumes) = joined[Len(volumes)] /\ JoinedFrom(volumes, joined)
  <1> DEFINE n == Len(volumes)
             base == [geometry |-> Geometry(<<>>, <<>>), ranges |-> <<>>]
             stage(acc, k) == Combine(acc, volumes[k])
             body(f, m) == [k \in 0..m |-> IF k = 0 THEN base ELSE stage(f[k - 1], k)]
             joined == CHOOSE f : f = body(f, n)
             T == {m \in Nat : \E f : f = body(f, m)}
  <1>1. Combination(volumes) = joined[n]
    BY DEF Combination
  <1> HIDE DEF base, stage, n
  <1>2. 0 \in T
    <2>1. [k \in 0..0 |-> base] = body([k \in 0..0 |-> base], 0)
      OBVIOUS
    <2> QED BY <2>1
  <1>3. ASSUME NEW m \in T PROVE m + 1 \in T
    <2>1. PICK f : f = body(f, m)
      OBVIOUS
    <2> DEFINE g == [k \in 0..(m + 1) |-> IF k = m + 1 THEN stage(f[m], m + 1) ELSE f[k]]
    <2>2. m \in Nat /\ m + 1 \in Nat /\ \A k \in 0..m : f[k] = IF k = 0 THEN base ELSE stage(f[k - 1], k)
      BY <2>1
    <2>3. ASSUME NEW k \in 0..(m + 1) PROVE g[k] = IF k = 0 THEN base ELSE stage(g[k - 1], k)
      <3>1. CASE k = m + 1
        <4>1. k # 0 /\ k - 1 = m /\ m \in 0..(m + 1) /\ m # m + 1
          BY <2>2, <3>1
        <4> QED BY <3>1, <4>1
      <3>2. CASE k # m + 1
        <4>1. k \in 0..m /\ (k # 0 => k - 1 \in 0..(m + 1) /\ k - 1 # m + 1)
          BY <2>2, <3>2
        <4> QED BY <2>2, <3>2, <4>1
      <3> QED BY <3>1, <3>2
    <2>4. g = body(g, m + 1)
      BY <2>3
    <2> QED BY <2>2, <2>4
  <1>4. n \in T
    <2>1. T \subseteq Nat /\ n \in Nat
      BY DEF n
    <2> HIDE DEF T
    <2> QED BY <1>2, <1>3, <2>1, AllNat
  <1>5. joined = body(joined, n)
    BY <1>4
  <1> HIDE DEF joined
  <1>6. joined[0] = base /\ \A k \in 1..n : joined[k] = stage(joined[k - 1], k)
    <2>1. n \in Nat /\ 0 \in 0..n /\ \A k \in 1..n : k \in 0..n /\ k # 0
      BY DEF n
    <2>2. \A k \in 0..n : joined[k] = IF k = 0 THEN base ELSE stage(joined[k - 1], k)
      BY <1>5
    <2> QED BY <2>1, <2>2
  <1>7. JoinedFrom(volumes, joined)
    BY <1>6 DEF JoinedFrom, n, base, stage
  <1> QED BY <1>1, <1>7 DEF n

\* The triangles of a mesh that stand in a range of it are the volume.
RangeOf(g, r, volume) ==
    /\ r.modifier = volume.modifier /\ r.settings = volume.settings
    /\ r.first \in Nat /\ r.last \in Int /\ r.last < Len(g.triangles)
    /\ SubSeq(FacetsOf(g), r.first + 1, r.last + 1) = FacetsOf(volume.geometry)

JoinedUpTo(volumes, k, acc) ==
    /\ IsGeometry(acc.geometry) /\ Whole(acc.geometry)
    /\ IsList(acc.ranges) /\ Len(acc.ranges) = k
    /\ \A v \in 1..k : RangeOf(acc.geometry, acc.ranges[v], volumes[v])

\* One more volume leaves the ranges of the others what they were.
LEMMA VolumeJoined ==
  ASSUME NEW volumes, NEW k \in Nat, NEW acc, JoinedUpTo(volumes, k, acc),
         NEW volume, volume = volumes[k + 1], IsGeometry(volume.geometry), Whole(volume.geometry)
  PROVE  JoinedUpTo(volumes, k + 1, Combine(acc, volume))
  <1> DEFINE g == acc.geometry
             h == volume.geometry
             l == Len(g.triangles)
             n == Len(h.triangles)
             later == Shifted(h.triangles, Len(g.vertices))
             all == Geometry(g.vertices \o h.vertices, g.triangles \o later)
             range == [first |-> l, last |-> l + n - 1,
                       modifier |-> volume.modifier, settings |-> volume.settings]
             new == Combine(acc, volume)
             rs == acc.ranges
  <1>1. /\ IsGeometry(g) /\ Whole(g) /\ IsList(rs) /\ Len(rs) = k
        /\ \A v \in 1..k : RangeOf(g, rs[v], volumes[v])
    BY DEF JoinedUpTo
  <1>2. /\ l \in Nat /\ n \in Nat /\ DOMAIN h.triangles = 1..n
        /\ \A i \in 1..n : h.triangles[i] \in Tris
    BY <1>1, LenProperties, ElementOfSeq DEF IsGeometry
  <1>3. [i \in DOMAIN h.triangles |->
           [h.triangles[i] EXCEPT !.v = [j \in 1..3 |-> @[j] + Len(g.vertices)]]] = later
    <2>1. \A i \in 1..n : [h.triangles[i] EXCEPT !.v = [j \in 1..3 |-> @[j] + Len(g.vertices)]] =
                          [v |-> [j \in 1..3 |-> h.triangles[i].v[j] + Len(g.vertices)],
                           paint |-> h.triangles[i].paint]
      <3> TAKE i \in 1..n
      <3> DEFINE t == h.triangles[i]
                 c == [j \in 1..3 |-> t.v[j] + Len(g.vertices)]
      <3>1. t = [v |-> t.v, paint |-> t.paint]
        BY <1>2 DEF Tris
      <3> HIDE DEF t
      <3>2. [t EXCEPT !.v = c] = [v |-> c, paint |-> t.paint]
        <4> HIDE DEF c
        <4> QED BY <3>1
      <3> QED BY <3>2 DEF t
    <2> QED BY <1>2, <2>1 DEF Shifted
  <1>4. new.geometry = all /\ new.ranges = Append(rs, range)
    BY <1>3 DEF Combine
  <1> HIDE DEF new, later
  <1>5. /\ IsGeometry(all) /\ Whole(all) /\ FacetsOf(all) = FacetsOf(g) \o FacetsOf(h)
        /\ Len(all.triangles) = l + n
    BY <1>1, JoinedGeometry DEF later
  <1>6. /\ FacetsOf(g) \in Seq(Spots) /\ Len(FacetsOf(g)) = l
        /\ FacetsOf(h) \in Seq(Spots) /\ Len(FacetsOf(h)) = n
    BY <1>1, FacetsType
  <1> HIDE DEF all, g, h, l, n
  <1>7. /\ \A a, b \in Int : a >= 1 /\ b <= l =>
              SubSeq(FacetsOf(all), a, b) = SubSeq(FacetsOf(g), a, b)
        /\ SubSeq(FacetsOf(all), l + 1, l + n) = FacetsOf(h)
    <2> DEFINE fa == FacetsOf(all)
               fg == FacetsOf(g)
               fh == FacetsOf(h)
    <2>1. Joins(fa, fg, fh)
      BY <1>5 DEF Joins
    <2> HIDE DEF fa
    <2>2. PartsOf(fa, fg, fh, l, n)
      BY <1>6, <2>1, PartOfConcat
    <2> QED BY <2>2 DEF PartsOf, fa
  <1>8. /\ range.first = l /\ range.last = l + n - 1
        /\ range.modifier = volume.modifier /\ range.settings = volume.settings
    OBVIOUS
  <1> HIDE DEF range
  <1>9. /\ IsList(new.ranges) /\ Len(new.ranges) = k + 1
        /\ \A v \in 1..k : new.ranges[v] = rs[v]
        /\ new.ranges[k + 1] = range
    <2>0. IsList(rs) /\ Len(rs) = k /\ new.ranges = Append(rs, range)
      BY <1>1, <1>4
    <2> HIDE DEF rs
    <2>1. IsList(new.ranges)
      <3>1. IsList(Append(rs, range))
        BY <2>0, ListAppend
      <3> QED BY <2>0, <3>1
    <2>2. Len(new.ranges) = k + 1
      BY <2>0, ListAppend
    <2>3. \A v \in 1..k : new.ranges[v] = rs[v]
      BY <2>0, ListAppend
    <2>4. new.ranges[k + 1] = range
      BY <2>0, ListAppend
    <2> QED BY <2>1, <2>2, <2>3, <2>4
  <1>10. RangeOf(all, range, volume)
    <2>1. (l + n - 1) + 1 = l + n /\ l + n - 1 \in Int /\ l + n - 1 < l + n
      BY <1>2
    <2> QED BY <1>2, <1>5, <1>7, <1>8, <2>1 DEF RangeOf, h
  <1>11. ASSUME NEW v \in 1..k PROVE RangeOf(all, rs[v], volumes[v])
    <2> DEFINE r == rs[v]
    <2>1. /\ r.modifier = volumes[v].modifier /\ r.settings = volumes[v].settings
          /\ r.first \in Nat /\ r.last \in Int /\ r.last < l
          /\ SubSeq(FacetsOf(g), r.first + 1, r.last + 1) = FacetsOf(volumes[v].geometry)
      BY <1>1 DEF RangeOf, l
    <2> HIDE DEF r
    <2>2. r.first + 1 \in Int /\ r.last + 1 \in Int /\ r.first + 1 >= 1 /\ r.last + 1 <= l /\ r.last < l + n
      <3>1. \A x \in Nat : x + 1 \in Int /\ x + 1 >= 1
        OBVIOUS
      <3>2. \A y \in Int : y < l => y + 1 \in Int /\ y + 1 <= l /\ y < l + n
        BY <1>2
      <3> QED BY <2>1, <3>1, <3>2
    <2>3. SubSeq(FacetsOf(all), r.first + 1, r.last + 1) = SubSeq(FacetsOf(g), r.first + 1, r.last + 1)
      BY <1>7, <2>2
    <2> QED BY <1>5, <2>1, <2>2, <2>3 DEF RangeOf, r
  <1>12. \A v \in 1..(k + 1) : v \in 1..k \/ v = k + 1
    OBVIOUS
  <1>13. \A v \in 1..(k + 1) : RangeOf(new.geometry, new.ranges[v], volumes[v])
    BY <1>4, <1>9, <1>10, <1>11, <1>12
  <1>14. JoinedUpTo(volumes, k + 1, new)
    BY <1>4, <1>5, <1>9, <1>13 DEF JoinedUpTo
  <1> QED BY <1>14 DEF new

\* Every volume is found again in its range.
LEMMA CombinationJoins ==
  ASSUME NEW volumes, Len(volumes) \in Nat,
         \A v \in 1..Len(volumes) : IsGeometry(volumes[v].geometry) /\ Whole(volumes[v].geometry)
  PROVE  JoinedUpTo(volumes, Len(volumes), Combination(volumes))
  <1> DEFINE n == Len(volumes)
  <1>1. PICK joined : Combination(volumes) = joined[n] /\ JoinedFrom(volumes, joined)
    BY CombinationRecursion
  <1> DEFINE T == {k \in Nat : k <= n => JoinedUpTo(volumes, k, joined[k])}
  <1>2. n \in Nat
    OBVIOUS
  <1>3. 0 \in T
    <2> DEFINE g == Geometry(<<>>, <<>>)
    <2>1. joined[0].geometry = g /\ joined[0].ranges = <<>>
      BY <1>1 DEF JoinedFrom
    <2>2. g.vertices = <<>> /\ g.triangles = <<>>
      BY DEF Geometry
    <2> HIDE DEF g
    <2>3. <<>> \in Seq(Int) /\ <<>> \in Seq(Tris) /\ Len(<<>>) = 0
      BY EmptySeq
    <2>4. IsList(<<>>)
      BY <2>3, SeqIsList
    <2>5. \A i \in 1..0 : FALSE
      OBVIOUS
    <2>6. IsGeometry(g) /\ Whole(g)
      BY <2>2, <2>3, <2>5 DEF IsGeometry, Whole
    <2> QED BY <2>1, <2>3, <2>4, <2>5, <2>6 DEF JoinedUpTo
  <1>4. ASSUME NEW k \in T PROVE k + 1 \in T
    <2>1. k \in Nat /\ k + 1 \in Nat /\ (k <= n => JoinedUpTo(volumes, k, joined[k]))
      OBVIOUS
    <2>2. ASSUME k + 1 <= n PROVE JoinedUpTo(volumes, k + 1, joined[k + 1])
      <3>1. k + 1 \in 1..n /\ k <= n /\ (k + 1) - 1 = k
        BY <1>2, <2>1, <2>2
      <3>2. joined[k + 1] = Combine(joined[k], volumes[k + 1])
        BY <1>1, <3>1 DEF JoinedFrom
      <3> QED BY <2>1, <3>1, <3>2, VolumeJoined
    <2> QED BY <2>1, <2>2
  <1>5. n \in T
    <2>1. T \subseteq Nat
      OBVIOUS
    <2> HIDE DEF T
    <2> QED BY <1>2, <1>3, <1>4, <2>1, AllNat
  <1> QED BY <1>1, <1>2, <1>5

-----------------------------------------------------------------------------
(* A package for PrusaSlicer.                                              *)

BaseAt(objects, docs, i) == FlattenSource(docs[i], objects[i].transform)

VolumesAt(objects, docs, i) == Volumes(BaseAt(objects, docs, i), objects[i], objects[i].transform)

\* The placements up to the k-th, each with the number of its place.
PrusaUpTo(objects, docs, k, acc) ==
    /\ acc.next = k + 1
    /\ IsList(acc.resources) /\ Len(acc.resources) = k
    /\ IsList(acc.records) /\ Len(acc.records) = k
    /\ IsList(acc.items) /\ Len(acc.items) = k
    /\ \A i \in 1..k :
         LET combined == Combination(VolumesAt(objects, docs, i))
         IN /\ BaseAt(objects, docs, i).ok
            /\ acc.resources[i] = [id |-> i, object |-> MeshObject(combined.geometry)]
            /\ acc.records[i] = [id |-> i, overrides |-> objects[i].overrides,
                                 parts |-> combined.ranges]
            /\ acc.items[i] = Placement(i, Identity)

\* A list with one more element.
LEMMA ListGrows ==
  ASSUME NEW s, IsList(s), NEW k \in Nat, Len(s) = k, NEW x, NEW more, more = Append(s, x)
  PROVE  /\ IsList(more) /\ Len(more) = k + 1
         /\ \A i \in 1..k : more[i] = s[i]
         /\ more[k + 1] = x
  <1>1. IsList(more)
    <2>1. IsList(Append(s, x))
      BY ListAppend
    <2> QED BY <2>1
  <1>2. Len(more) = k + 1
    BY ListAppend
  <1>3. \A i \in 1..k : more[i] = s[i]
    BY ListAppend
  <1>4. more[k + 1] = x
    BY ListAppend
  <1> QED BY <1>1, <1>2, <1>3, <1>4

\* One more object has a mesh and a record of its own number.
LEMMA PrusaStep ==
  ASSUME NEW objects, NEW docs, NEW k \in Nat, NEW acc, PrusaUpTo(objects, docs, k, acc),
         AddPrusa(acc, objects[k + 1], docs[k + 1]).ok
  PROVE  PrusaUpTo(objects, docs, k + 1, AddPrusa(acc, objects[k + 1], docs[k + 1]))
  <1> DEFINE object == objects[k + 1]
             new == AddPrusa(acc, object, docs[k + 1])
             base == BaseAt(objects, docs, k + 1)
             combined == Combination(VolumesAt(objects, docs, k + 1))
             id == acc.next
             resource == [id |-> id, object |-> MeshObject(combined.geometry)]
             record == [id |-> id, overrides |-> object.overrides, parts |-> combined.ranges]
             item == Placement(id, Identity)
  <1>1. /\ new.ok = (acc.ok /\ base.ok
                     /\ \A i \in DOMAIN object.modifiers :
                           ShellThickness \notin object.modifiers[i].settings)
        /\ new.next = id + 1
        /\ new.resources = Append(acc.resources, resource)
        /\ new.records = Append(acc.records, record)
        /\ new.items = Append(acc.items, item)
    BY DEF AddPrusa, BaseAt, VolumesAt
  <1>2. base.ok
    BY <1>1
  <1> HIDE DEF new, base, combined, resource, record, item
  <1>3. /\ id = k + 1
        /\ IsList(acc.resources) /\ Len(acc.resources) = k
        /\ IsList(acc.records) /\ Len(acc.records) = k
        /\ IsList(acc.items) /\ Len(acc.items) = k
    BY DEF PrusaUpTo
  <1>4. /\ IsList(new.resources) /\ Len(new.resources) = k + 1
        /\ \A i \in 1..k : new.resources[i] = acc.resources[i]
        /\ new.resources[k + 1] = resource
    <2> DEFINE s == acc.resources
               more == new.resources
    <2>1. IsList(s) /\ Len(s) = k /\ more = Append(s, resource)
      BY <1>1, <1>3
    <2> HIDE DEF s, more
    <2>2. IsList(more)
      BY <2>1, ListGrows
    <2>3. Len(more) = k + 1
      BY <2>1, ListGrows
    <2>4. \A i \in 1..k : more[i] = s[i]
      BY <2>1, ListGrows
    <2>5. more[k + 1] = resource
      BY <2>1, ListGrows
    <2> QED BY <2>2, <2>3, <2>4, <2>5 DEF s, more
  <1>5. /\ IsList(new.records) /\ Len(new.records) = k + 1
        /\ \A i \in 1..k : new.records[i] = acc.records[i]
        /\ new.records[k + 1] = record
    <2> DEFINE s == acc.records
               more == new.records
    <2>1. IsList(s) /\ Len(s) = k /\ more = Append(s, record)
      BY <1>1, <1>3
    <2> HIDE DEF s, more
    <2>2. IsList(more)
      BY <2>1, ListGrows
    <2>3. Len(more) = k + 1
      BY <2>1, ListGrows
    <2>4. \A i \in 1..k : more[i] = s[i]
      BY <2>1, ListGrows
    <2>5. more[k + 1] = record
      BY <2>1, ListGrows
    <2> QED BY <2>2, <2>3, <2>4, <2>5 DEF s, more
  <1>6. /\ IsList(new.items) /\ Len(new.items) = k + 1
        /\ \A i \in 1..k : new.items[i] = acc.items[i]
        /\ new.items[k + 1] = item
    <2> DEFINE s == acc.items
               more == new.items
    <2>1. IsList(s) /\ Len(s) = k /\ more = Append(s, item)
      BY <1>1, <1>3
    <2> HIDE DEF s, more
    <2>2. IsList(more)
      BY <2>1, ListGrows
    <2>3. Len(more) = k + 1
      BY <2>1, ListGrows
    <2>4. \A i \in 1..k : more[i] = s[i]
      BY <2>1, ListGrows
    <2>5. more[k + 1] = item
      BY <2>1, ListGrows
    <2> QED BY <2>2, <2>3, <2>4, <2>5 DEF s, more
  <1> DEFINE Fits(p, i) ==
               LET c == Combination(VolumesAt(objects, docs, i))
               IN /\ BaseAt(objects, docs, i).ok
                  /\ p.resources[i] = [id |-> i, object |-> MeshObject(c.geometry)]
                  /\ p.records[i] = [id |-> i, overrides |-> objects[i].overrides,
                                     parts |-> c.ranges]
                  /\ p.items[i] = Placement(i, Identity)
  <1>7. \A i \in 1..k : Fits(acc, i)
    BY DEF PrusaUpTo
  <1>8. \A i \in 1..k : Fits(new, i)
    BY <1>4, <1>5, <1>6, <1>7
  <1>9. Fits(new, k + 1)
    BY <1>2, <1>3, <1>4, <1>5, <1>6 DEF base, combined, resource, record, item
  <1>10. \A i \in 1..(k + 1) : i \in 1..k \/ i = k + 1
    OBVIOUS
  <1> HIDE DEF Fits
  <1>11. \A i \in 1..(k + 1) : Fits(new, i)
    BY <1>8, <1>9, <1>10
  <1>12. PrusaUpTo(objects, docs, k + 1, new)
    BY <1>1, <1>3, <1>4, <1>5, <1>6, <1>11 DEF PrusaUpTo, Fits
  <1> QED BY <1>12 DEF new

\* Before the first object.
LEMMA PrusaBegins ==
  ASSUME NEW objects, NEW docs, NEW acc, acc.next = 1, acc.resources = <<>>, acc.records = <<>>,
         acc.items = <<>>
  PROVE  PrusaUpTo(objects, docs, 0, acc)
  <1>1. IsList(<<>>) /\ Len(<<>>) = 0
    <2>1. <<>> \in Seq({}) /\ Len(<<>>) = 0
      OBVIOUS
    <2> QED BY <2>1, SeqIsList
  <1>2. \A i \in 1..0 : FALSE
    OBVIOUS
  <1> QED BY <1>1, <1>2 DEF PrusaUpTo

-----------------------------------------------------------------------------
(* One object after another.                                               *)

BuiltFrom(bambu, plate, docs, after) ==
    /\ after[0] = [NoPlate EXCEPT !.ok = ModifierCount(plate.objects) <= MaxModifiersPerPlate]
    /\ \A k \in 1..Len(docs) :
         after[k] = IF after[k - 1].ok /\ plate.objects[k].transform.s # 0
                    THEN IF bambu THEN AddBambu(after[k - 1], plate.objects[k], docs[k])
                                  ELSE AddPrusa(after[k - 1], plate.objects[k], docs[k])
                    ELSE [NoPlate EXCEPT !.ok = FALSE]

\* The recursive function of BuildAdvanced is defined.
LEMMA AdvancedRecursion ==
  ASSUME NEW bambu, NEW plate, NEW docs, Len(docs) \in Nat
  PROVE  \E after : /\ BuildAdvanced(bambu, plate, docs) = after[Len(docs)]
                    /\ BuiltFrom(bambu, plate, docs, after)
  <1> DEFINE n == Len(docs)
             base == [NoPlate EXCEPT !.ok = ModifierCount(plate.objects) <= MaxModifiersPerPlate]
             stage(acc, k) == IF acc.ok /\ plate.objects[k].transform.s # 0
                              THEN IF bambu THEN AddBambu(acc, plate.objects[k], docs[k])
                                            ELSE AddPrusa(acc, plate.objects[k], docs[k])
                              ELSE [NoPlate EXCEPT !.ok = FALSE]
             body(f, m) == [k \in 0..m |-> IF k = 0 THEN base ELSE stage(f[k - 1], k)]
             after == CHOOSE f : f = body(f, n)
             T == {m \in Nat : \E f : f = body(f, m)}
  <1>1. BuildAdvanced(bambu, plate, docs) = after[n]
    BY DEF BuildAdvanced
  <1> HIDE DEF base, stage, n
  <1>2. 0 \in T
    <2>1. [k \in 0..0 |-> base] = body([k \in 0..0 |-> base], 0)
      OBVIOUS
    <2> QED BY <2>1
  <1>3. ASSUME NEW m \in T PROVE m + 1 \in T
    <2>1. PICK f : f = body(f, m)
      OBVIOUS
    <2> DEFINE g == [k \in 0..(m + 1) |-> IF k = m + 1 THEN stage(f[m], m + 1) ELSE f[k]]
    <2>2. m \in Nat /\ m + 1 \in Nat /\ \A k \in 0..m : f[k] = IF k = 0 THEN base ELSE stage(f[k - 1], k)
      BY <2>1
    <2>3. ASSUME NEW k \in 0..(m + 1) PROVE g[k] = IF k = 0 THEN base ELSE stage(g[k - 1], k)
      <3>1. CASE k = m + 1
        <4>1. k # 0 /\ k - 1 = m /\ m \in 0..(m + 1) /\ m # m + 1
          BY <2>2, <3>1
        <4> QED BY <3>1, <4>1
      <3>2. CASE k # m + 1
        <4>1. k \in 0..m /\ (k # 0 => k - 1 \in 0..(m + 1) /\ k - 1 # m + 1)
          BY <2>2, <3>2
        <4> QED BY <2>2, <3>2, <4>1
      <3> QED BY <3>1, <3>2
    <2>4. g = body(g, m + 1)
      BY <2>3
    <2> QED BY <2>2, <2>4
  <1>4. n \in T
    <2>1. T \subseteq Nat /\ n \in Nat
      BY DEF n
    <2> HIDE DEF T
    <2> QED BY <1>2, <1>3, <2>1, AllNat
  <1>5. after = body(after, n)
    BY <1>4
  <1> HIDE DEF after
  <1>6. after[0] = base /\ \A k \in 1..n : after[k] = stage(after[k - 1], k)
    <2>1. n \in Nat /\ 0 \in 0..n /\ \A k \in 1..n : k \in 0..n /\ k # 0
      BY DEF n
    <2>2. \A k \in 0..n : after[k] = IF k = 0 THEN base ELSE stage(after[k - 1], k)
      BY <1>5
    <2> QED BY <2>1, <2>2
  <1>7. BuiltFrom(bambu, plate, docs, after)
    BY <1>6 DEF BuiltFrom, n, base, stage
  <1> QED BY <1>1, <1>7 DEF n

\* A package that is built has every object of its plate.
LEMMA AdvancedBuilt ==
  ASSUME NEW bambu \in BOOLEAN, NEW plate, NEW docs, Sources(plate.objects, docs),
         BuildAdvanced(bambu, plate, docs).ok
  PROVE  IF bambu
         THEN BambuUpTo(plate.objects, docs, Len(docs), BuildAdvanced(bambu, plate, docs))
         ELSE PrusaUpTo(plate.objects, docs, Len(docs), BuildAdvanced(bambu, plate, docs))
  <1> DEFINE n == Len(docs)
             objects == plate.objects
             Upto(k, acc) == IF bambu THEN BambuUpTo(objects, docs, k, acc)
                                      ELSE PrusaUpTo(objects, docs, k, acc)
  <1>1. n \in Nat
    BY DEF Sources
  <1>2. PICK after : /\ BuildAdvanced(bambu, plate, docs) = after[n]
                     /\ BuiltFrom(bambu, plate, docs, after)
    BY <1>1, AdvancedRecursion
  <1> DEFINE T == {k \in Nat : k <= n /\ after[k].ok => Upto(k, after[k])}
  <1>3. 0 \in T
    <2> DEFINE a == after[0]
    <2>1. a = [NoPlate EXCEPT !.ok = ModifierCount(plate.objects) <= MaxModifiersPerPlate]
      BY <1>2 DEF BuiltFrom
    <2>2. a.next = 1 /\ a.resources = <<>> /\ a.records = <<>> /\ a.items = <<>> /\ a.linked = <<>>
      BY <2>1 DEF NoPlate
    <2> HIDE DEF a
    <2>3. BambuUpTo(objects, docs, 0, a) /\ PrusaUpTo(objects, docs, 0, a)
      BY <2>2, BambuBegins, PrusaBegins
    <2> QED BY <2>3 DEF a
  <1>4. ASSUME NEW k \in T PROVE k + 1 \in T
    <2>1. k \in Nat /\ k + 1 \in Nat /\ (k <= n /\ after[k].ok => Upto(k, after[k]))
      OBVIOUS
    <2>2. ASSUME k + 1 <= n, after[k + 1].ok PROVE Upto(k + 1, after[k + 1])
      <3> DEFINE acc == after[k]
                 new == after[k + 1]
                 object == objects[k + 1]
      <3>1. k + 1 \in 1..n /\ k <= n /\ (k + 1) - 1 = k
        BY <1>1, <2>1, <2>2
      <3>2. new = IF acc.ok /\ object.transform.s # 0
                  THEN IF bambu THEN AddBambu(acc, object, docs[k + 1])
                                ELSE AddPrusa(acc, object, docs[k + 1])
                  ELSE [NoPlate EXCEPT !.ok = FALSE]
        BY <1>2, <3>1 DEF BuiltFrom
      <3>3. ~[NoPlate EXCEPT !.ok = FALSE].ok
        BY DEF NoPlate
      <3>4. acc.ok /\ new = IF bambu THEN AddBambu(acc, object, docs[k + 1])
                                     ELSE AddPrusa(acc, object, docs[k + 1])
        BY <2>2, <3>2, <3>3
      <3>5. new.ok
        BY <2>2
      <3>6. Upto(k, acc)
        BY <2>1, <3>1, <3>4
      <3> HIDE DEF acc, new, objects
      <3>7. CASE bambu
        <4>1. BambuUpTo(objects, docs, k, acc) /\ new = AddBambu(acc, object, docs[k + 1])
          BY <3>4, <3>6, <3>7
        <4>2. Sources(objects, docs) /\ k + 1 <= Len(docs)
          BY <2>2 DEF objects
        <4>3. BambuUpTo(objects, docs, k + 1, new)
          BY <2>1, <3>5, <4>1, <4>2, BambuStep
        <4> QED BY <3>7, <4>3 DEF new
      <3>8. CASE ~bambu
        <4>1. PrusaUpTo(objects, docs, k, acc) /\ new = AddPrusa(acc, object, docs[k + 1])
          BY <3>4, <3>6, <3>8
        <4>2. PrusaUpTo(objects, docs, k + 1, new)
          BY <2>1, <3>5, <4>1, PrusaStep
        <4> QED BY <3>8, <4>2 DEF new
      <3> QED BY <3>7, <3>8
    <2> HIDE DEF Upto
    <2> QED BY <2>1, <2>2
  <1> HIDE DEF Upto
  <1>5. n \in T
    <2>1. T \subseteq Nat
      OBVIOUS
    <2> HIDE DEF T
    <2> QED BY <1>1, <1>3, <1>4, <2>1, AllNat
  <1>6. Upto(n, after[n])
    BY <1>1, <1>2, <1>5
  <1> QED BY <1>2, <1>6 DEF Upto

-----------------------------------------------------------------------------
(* What is asked is what is found.                                         *)

\* The facets of the volumes of an object are those that are asked of it: its
\* own, which the package keeps or drops the paint of, and its modifiers'.
BambuAsks(asked, volumes, object, painted) ==
    LET n == Len(object.modifiers)
    IN /\ n \in Nat /\ IsList(asked) /\ Len(asked) = n + 1
       /\ IsList(volumes) /\ Len(volumes) = n + 1
       /\ \A v \in 1..(n + 1) :
            asked[v] = Part(Place(FacetsOf(PaintAttributes(volumes[v].geometry, painted)),
                                  object.transform),
                            volumes[v].modifier, volumes[v].settings)

\* What is asked of an object that is flattened is what its volumes hold.
LEMMA BambuAsked ==
  ASSUME NEW object, PlacedWell(object), NEW doc, IsDocument(doc),
         FlattenSource(doc, Identity).ok, NEW painted
  PROVE  BambuAsks(AskedParts(object, doc, painted),
                   Volumes(FlattenSource(doc, Identity), object, Identity), object, painted)
  <1> DEFINE base == FlattenSource(doc, Identity)
             volumes == Volumes(base, object, Identity)
             asked == AskedParts(object, doc, painted)
             ms == object.modifiers
             n == Len(ms)
             m == object.transform
             built == Built(doc.objects, doc.items)
             found(v) == Part(Place(FacetsOf(PaintAttributes(volumes[v].geometry, painted)), m),
                              volumes[v].modifier, volumes[v].settings)
  <1>1. /\ n \in Nat /\ \A j \in 1..n : Unmirrored(ms[j].m)
        /\ Unmirrored(m) /\ m \in Matrices /\ Unmirrored(Identity) /\ Identity \in Matrices
    BY PlacedModifiers, IdentityIsMatrix, UnmirroredType DEF PlacedWell
  <1>2. /\ IsGeometry(base) /\ Whole(base) /\ built \in Seq(Spots)
        /\ FacetsOf(base) = Place(built, Identity)
    BY <1>1, SourceFlattened
  <1>20. built \in Seq(Spots)
    BY <1>2
  <1>21. Unmirrored(Identity) /\ IsGeometry(base) /\ Whole(base)
    BY <1>1, <1>2
  <1>3. FacetsOf(base) = built
    BY <1>2, PlaceIdentity
  <1>4. /\ IsList(asked) /\ Len(asked) = n + 1
        /\ asked[1] = Part(KeptFacets(Place(built, m), painted), FALSE, {})
        /\ \A j \in 1..n : asked[j + 1] = Part(ModifierFacets(ms[j], m), TRUE, ms[j].settings)
    <2>1. AskedIs(asked, object, doc, painted)
      BY <1>20, AskedAre
    <2> HIDE DEF asked
    <2> QED BY <2>1 DEF AskedIs
  <1> HIDE DEF base, asked, built
  <1>5. /\ IsList(volumes) /\ Len(volumes) = n + 1
        /\ \A v \in 1..(n + 1) : IsGeometry(volumes[v].geometry) /\ Whole(volumes[v].geometry)
        /\ FacetsOf(volumes[1].geometry) = FacetsOf(base)
        /\ volumes[1].modifier = FALSE /\ volumes[1].settings = {}
        /\ \A j \in 1..n :
              /\ FacetsOf(volumes[j + 1].geometry) = ModifierFacets(ms[j], Identity)
              /\ volumes[j + 1].modifier = TRUE
              /\ volumes[j + 1].settings = ms[j].settings
              /\ \A i \in 1..Len(volumes[j + 1].geometry.triangles) :
                    volumes[j + 1].geometry.triangles[i].paint = <<>>
    <2>1. VolumesFit(volumes, object, Identity, base)
      BY <1>21, VolumesAre
    <2> HIDE DEF volumes
    <2> QED BY <2>1 DEF VolumesFit
  <1> HIDE DEF volumes, n, ms, m
  <1>6. 1 \in 1..(n + 1) /\ \A j \in 1..n : j + 1 \in 1..(n + 1)
    BY <1>1
  <1>7. asked[1] = found(1)
    <2>1. FacetsOf(PaintAttributes(volumes[1].geometry, painted)) = KeptFacets(built, painted)
      BY <1>3, <1>5, <1>6, PaintDropped
    <2>2. Place(KeptFacets(built, painted), m) = KeptFacets(Place(built, m), painted)
      BY <1>1, <1>2, KeptPlaced
    <2> QED BY <1>4, <1>5, <2>1, <2>2
  <1>8. ASSUME NEW j \in 1..n PROVE asked[j + 1] = found(j + 1)
    <2> DEFINE g == volumes[j + 1].geometry
               shape == Place(FacetsOf(Shape), ms[j].m)
    <2>1. /\ IsGeometry(g) /\ Whole(g) /\ FacetsOf(g) = ModifierFacets(ms[j], Identity)
          /\ \A i \in 1..Len(g.triangles) : g.triangles[i].paint = <<>>
          /\ volumes[j + 1].modifier = TRUE /\ volumes[j + 1].settings = ms[j].settings
      BY <1>5, <1>6
    <2> HIDE DEF g
    <2>2. FacetsOf(PaintAttributes(g, painted)) = FacetsOf(g)
      BY <2>1, PaintDropped
    <2>3. shape \in Seq(Spots)
      <3>1. FacetsOf(Shape) \in Seq(Spots)
        BY ShapeIsWhole, FacetsType
      <3> QED BY <1>1, <3>1, UnmirroredType, PlaceType
    <2>4. ModifierFacets(ms[j], Identity) = shape /\ ModifierFacets(ms[j], m) = Place(shape, m)
      BY <2>3, PlaceIdentity DEF ModifierFacets
    <2> QED BY <1>4, <2>1, <2>2, <2>4 DEF g
  <1>9. ASSUME NEW v \in 1..(n + 1) PROVE asked[v] = found(v)
    <2>1. CASE v = 1
      BY <1>7, <2>1
    <2>2. CASE v # 1
      <3>1. v - 1 \in 1..n /\ (v - 1) + 1 = v
        BY <1>1, <2>2
      <3> HIDE DEF found
      <3>2. asked[(v - 1) + 1] = found((v - 1) + 1)
        BY <1>8, <3>1
      <3> QED BY <3>1, <3>2
    <2> QED BY <2>1, <2>2
  <1>10. BambuAsks(asked, volumes, object, painted)
    BY <1>1, <1>4, <1>5, <1>9 DEF BambuAsks, n, ms, m
  <1> QED BY <1>10 DEF volumes, base, asked

\* The k-th placement of a package is the k-th object, numbered once, and
\* its parts are those that are found there.
MeansItsOwn(objects, docs, k, kept, pack, found) ==
    /\ Len(pack.items) = Len(docs)
    /\ Cardinality({r.id : r \in ToSet(pack.resources)}) = Len(pack.resources)
    /\ RecordOf(pack, k).overrides = objects[k].overrides
    /\ AskedParts(objects[k], docs[k], kept) = found

\* Found by their numbers, the parts of a placement are its object's.
LEMMA BambuFound ==
  ASSUME NEW objects, NEW docs, Sources(objects, docs),
         NEW pack, BambuUpTo(objects, docs, Len(docs), pack), NEW k \in 1..Len(docs)
  PROVE  MeansItsOwn(objects, docs, k, IsPainted(objects[k]), pack, FoundBambu(pack, k))
  <1> DEFINE object == objects[k]
             painted == IsPainted(object)
             volumes == VolumesOf(objects, docs, k)
             n == Len(object.modifiers)
             c == Len(docs)
             ref == pack.items[k].ref
             m == object.transform
             record == RecordOf(pack, k)
  <1>1. /\ NumberedBy(pack.resources, 1..(pack.next - 1))
        /\ IsList(pack.records) /\ Len(pack.records) = c /\ Len(pack.items) = c
        /\ \A i, j \in 1..c : pack.items[i].ref = pack.items[j].ref => i = j
    BY DEF BambuUpTo
  <1>2. \A i \in 1..c : pack.records[i].id = pack.items[i].ref
    <2> TAKE i \in 1..c
    <2>1. PICK parts : pack.records[i] = RecordFor(pack.items[i].ref, objects[i], parts)
      BY DEF BambuUpTo
    <2> QED BY <2>1 DEF RecordFor
  <1>3. record = pack.records[k]
    <2>1. \A i \in 1..c : pack.records[i].id = pack.items[k].ref => i = k
      BY <1>1, <1>2
    <2> QED BY <1>1, <1>2, <2>1, FoundRecord
  <1>4. PICK parts : /\ Carries(pack.resources, parts, volumes, painted)
                     /\ pack.records[k] = RecordFor(ref, object, parts)
    BY DEF BambuUpTo
  <1>5. BaseOf(docs, k).ok /\ pack.items[k].m = m
    BY DEF BambuUpTo
  <1>6. PlacedWell(object) /\ IsDocument(docs[k])
    BY DEF Sources
  <1> DEFINE asked == AskedParts(object, docs[k], painted)
  <1> HIDE DEF painted
  <1>70. BambuAsks(asked, volumes, object, painted)
    BY <1>5, <1>6, BambuAsked DEF BaseOf, VolumesOf
  <1> HIDE DEF asked, volumes
  <1>7. /\ n \in Nat /\ IsList(asked) /\ Len(asked) = n + 1 /\ Len(volumes) = n + 1
        /\ \A v \in 1..(n + 1) :
             asked[v] = Part(Place(FacetsOf(PaintAttributes(volumes[v].geometry, painted)), m),
                             volumes[v].modifier, volumes[v].settings)
    BY <1>70 DEF BambuAsks
  <1> HIDE DEF object, n, m, ref, record
  <1>8. /\ DOMAIN parts = 1..(n + 1)
        /\ \A v \in 1..(n + 1) : parts[v].volume = volumes[v]
        /\ \A v \in 1..(n + 1) : \E a \in 1..Len(pack.resources) :
              pack.resources[a] = [id |-> parts[v].id,
                  object |-> MeshObject(PaintAttributes(volumes[v].geometry, painted))]
    <2>1. /\ IsList(parts) /\ Len(parts) = n + 1
          /\ \A v \in 1..(n + 1) : parts[v].volume = volumes[v]
          /\ \A v \in 1..(n + 1) : \E a \in 1..Len(pack.resources) :
                pack.resources[a] = [id |-> parts[v].id,
                    object |-> MeshObject(PaintAttributes(volumes[v].geometry, painted))]
      BY <1>4, <1>7 DEF Carries
    <2>2. DOMAIN parts = 1..(n + 1)
      BY <2>1, ListIsSeq
    <2> QED BY <2>1, <2>2
  <1>9. /\ record.overrides = object.overrides
        /\ DOMAIN record.parts = 1..(n + 1)
        /\ \A v \in 1..(n + 1) : /\ record.parts[v].id = parts[v].id
                                 /\ record.parts[v].modifier = volumes[v].modifier
                                 /\ record.parts[v].settings = volumes[v].settings
    BY <1>3, <1>4, <1>8 DEF RecordFor
  <1>10. ASSUME NEW v \in 1..(n + 1)
         PROVE  Meaning(ObjectsOf(pack), record.parts[v].id) =
                  FacetsOf(PaintAttributes(volumes[v].geometry, painted))
    <2> DEFINE g == PaintAttributes(volumes[v].geometry, painted)
    <2>1. PICK a \in 1..Len(pack.resources) :
             pack.resources[a] = [id |-> parts[v].id, object |-> MeshObject(g)]
      BY <1>8
    <2> HIDE DEF g
    <2>2. pack.resources[a].object = MeshObject(g) /\ pack.resources[a].id = record.parts[v].id
      BY <1>9, <2>1
    <2>3. Meaning(ObjectsOf(pack), pack.resources[a].id) = FacetsOf(g)
      BY <1>1, <2>2, FoundMesh
    <2> QED BY <2>2, <2>3 DEF g
  <1>11. FoundBambu(pack, k) =
           [v \in 1..(n + 1) |->
              Part(Place(Meaning(ObjectsOf(pack), record.parts[v].id), m),
                   volumes[v].modifier, volumes[v].settings)]
    BY <1>5, <1>9 DEF FoundBambu, record
  <1>12. FoundBambu(pack, k) = asked
    <2>1. asked = [v \in 1..(n + 1) |-> asked[v]]
      BY <1>7 DEF IsList
    <2>2. \A v \in 1..(n + 1) : asked[v] =
             Part(Place(Meaning(ObjectsOf(pack), record.parts[v].id), m),
                  volumes[v].modifier, volumes[v].settings)
      BY <1>7, <1>10
    <2> QED BY <1>11, <2>1, <2>2
  <1>13. Cardinality({r.id : r \in ToSet(pack.resources)}) = Len(pack.resources)
    BY <1>1, NumbersCounted
  <1> QED BY <1>1, <1>9, <1>12, <1>13 DEF object, painted, record, asked, MeansItsOwn

\* The package of a plate for Bambu Studio means the plate
\* (buildAdvancedPlate3mf): the parts of a placement, found by their numbers,
\* are its object's, whether they are its own or those of a linked instance.
THEOREM BambuOwn ==
  ASSUME NEW plate, NEW docs, Sources(plate.objects, docs),
         BuildAdvanced(TRUE, plate, docs).ok, NEW k \in 1..Len(docs)
  PROVE  LET pack == BuildAdvanced(TRUE, plate, docs)
         IN MeansItsOwn(plate.objects, docs, k, IsPainted(plate.objects[k]), pack,
                        FoundBambu(pack, k))
  <1> DEFINE pack == BuildAdvanced(TRUE, plate, docs)
  <1>1. BambuUpTo(plate.objects, docs, Len(docs), pack)
    BY AdvancedBuilt
  <1> HIDE DEF pack
  <1>2. MeansItsOwn(plate.objects, docs, k, IsPainted(plate.objects[k]), pack,
                    FoundBambu(pack, k))
    BY <1>1, BambuFound
  <1> QED BY <1>2 DEF pack

\* Each range of triangles of a placement's mesh is a part of its object.
LEMMA PrusaFound ==
  ASSUME NEW objects, NEW docs, Sources(objects, docs),
         NEW pack, PrusaUpTo(objects, docs, Len(docs), pack), NEW k \in 1..Len(docs)
  PROVE  MeansItsOwn(objects, docs, k, TRUE, pack, FoundPrusa(pack, k))
  <1> DEFINE object == objects[k]
             doc == docs[k]
             m == object.transform
             base == BaseAt(objects, docs, k)
             volumes == VolumesAt(objects, docs, k)
             combined == Combination(volumes)
             g == combined.geometry
             n == Len(object.modifiers)
             c == Len(docs)
             record == RecordOf(pack, k)
             built == Built(doc.objects, doc.items)
             asked == AskedParts(object, doc, TRUE)
  <1> DEFINE joined(i) == Combination(VolumesAt(objects, docs, i))
  <1>0. \A i \in 1..c :
           /\ BaseAt(objects, docs, i).ok
           /\ pack.resources[i] = [id |-> i, object |-> MeshObject(joined(i).geometry)]
           /\ pack.records[i] = [id |-> i, overrides |-> objects[i].overrides,
                                 parts |-> joined(i).ranges]
           /\ pack.items[i] = Placement(i, Identity)
    BY DEF PrusaUpTo
  <1>1. /\ IsList(pack.resources) /\ Len(pack.resources) = c
        /\ IsList(pack.records) /\ Len(pack.records) = c /\ Len(pack.items) = c
        /\ \A i \in 1..c : /\ pack.resources[i].id = i /\ pack.records[i].id = i
                           /\ pack.items[i].ref = i
    <2>1. /\ IsList(pack.resources) /\ Len(pack.resources) = c
          /\ IsList(pack.records) /\ Len(pack.records) = c /\ Len(pack.items) = c
      BY DEF PrusaUpTo
    <2>2. \A i \in 1..c : pack.items[i].ref = i
      <3> TAKE i \in 1..c
      <3>1. pack.items[i] = Placement(i, Identity)
        BY <1>0
      <3> QED BY <3>1 DEF Placement
    <2>3. \A i \in 1..c : pack.resources[i].id = i /\ pack.records[i].id = i
      <3> TAKE i \in 1..c
      <3> DEFINE one == joined(i)
      <3>1. /\ pack.resources[i] = [id |-> i, object |-> MeshObject(one.geometry)]
            /\ pack.records[i] = [id |-> i, overrides |-> objects[i].overrides,
                                  parts |-> one.ranges]
        BY <1>0
      <3> HIDE DEF one
      <3> QED BY <3>1
    <2> QED BY <2>1, <2>2, <2>3
  <1>2. /\ base.ok
        /\ pack.resources[k] = [id |-> k, object |-> MeshObject(g)]
        /\ pack.records[k] = [id |-> k, overrides |-> object.overrides, parts |-> combined.ranges]
        /\ pack.items[k].m = Identity
    <2>1. pack.items[k] = Placement(k, Identity)
      BY <1>0
    <2>2. pack.items[k].m = Identity
      BY <2>1 DEF Placement
    <2> QED BY <1>0, <2>2
  <1>3. NumberedBy(pack.resources, 1..c)
    BY <1>1 DEF NumberedBy
  <1>4. record = pack.records[k]
    <2>1. pack.records[k].id = pack.items[k].ref
      BY <1>1
    <2>2. \A i \in 1..Len(pack.records) : pack.records[i].id = pack.items[k].ref => i = k
      BY <1>1
    <2>3. IsList(pack.records) /\ k \in 1..Len(pack.records)
      BY <1>1
    <2> QED BY <2>1, <2>2, <2>3, FoundRecord
  <1>5. /\ PlacedWell(object) /\ IsDocument(doc) /\ Unmirrored(m) /\ m \in Matrices
        /\ Identity \in Matrices
    BY IdentityIsMatrix, UnmirroredType DEF Sources, PlacedWell
  <1>6. FlattenSource(doc, m).ok /\ base = FlattenSource(doc, m)
    BY <1>2 DEF BaseAt
  <1>61. volumes = Volumes(base, object, m)
    BY DEF VolumesAt
  <1> HIDE DEF object, doc, m, base, volumes
  <1>7. /\ IsGeometry(base) /\ Whole(base) /\ built \in Seq(Spots)
        /\ FacetsOf(base) = Place(built, m)
    BY <1>5, <1>6, SourceFlattened
  <1>71. built \in Seq(Spots)
    BY <1>7
  <1>72. AskedIs(asked, object, doc, TRUE)
    BY <1>5, <1>71, AskedAre
  <1> DEFINE source == Place(built, m)
  <1>73. /\ n \in Nat /\ IsList(asked) /\ Len(asked) = n + 1
         /\ asked[1] = Part(KeptFacets(source, TRUE), FALSE, {})
         /\ \A j \in 1..n : asked[j + 1] =
              Part(ModifierFacets(object.modifiers[j], m), TRUE, object.modifiers[j].settings)
    <2> HIDE DEF asked
    <2> QED BY <1>72 DEF AskedIs, m
  <1> HIDE DEF asked
  <1>74. VolumesFit(volumes, object, m, base)
    BY <1>5, <1>7, <1>61, VolumesAre
  <1>75. /\ Len(volumes) = n + 1
         /\ \A v \in 1..(n + 1) : IsGeometry(volumes[v].geometry) /\ Whole(volumes[v].geometry)
         /\ FacetsOf(volumes[1].geometry) = source
         /\ volumes[1].modifier = FALSE /\ volumes[1].settings = {}
         /\ \A j \in 1..n :
              /\ FacetsOf(volumes[j + 1].geometry) = ModifierFacets(object.modifiers[j], m)
              /\ volumes[j + 1].modifier = TRUE
              /\ volumes[j + 1].settings = object.modifiers[j].settings
    BY <1>7, <1>74 DEF VolumesFit
  <1>8. KeptFacets(source, TRUE) = source
    <2>1. source \in Seq(Spots)
      BY <1>5, <1>71, PlaceType
    <2> QED BY <1>5, <2>1, KeptPlaced
  <1>9. JoinedUpTo(volumes, n + 1, combined)
    <2>1. Len(volumes) \in Nat /\ Len(volumes) = n + 1
      BY <1>73, <1>75
    <2>2. \A v \in 1..Len(volumes) : IsGeometry(volumes[v].geometry) /\ Whole(volumes[v].geometry)
      BY <1>75
    <2>3. JoinedUpTo(volumes, Len(volumes), combined)
      BY <2>1, <2>2, CombinationJoins
    <2> QED BY <2>1, <2>3
  <1> HIDE DEF combined, n, source
  <1>10. /\ IsGeometry(g) /\ Whole(g) /\ IsList(combined.ranges) /\ Len(combined.ranges) = n + 1
         /\ \A v \in 1..(n + 1) : RangeOf(g, combined.ranges[v], volumes[v])
    BY <1>9 DEF JoinedUpTo
  <1>11. DOMAIN combined.ranges = 1..(n + 1)
    BY <1>10, ListIsSeq
  <1> DEFINE facets == Place(Meaning(ObjectsOf(pack), record.id), pack.items[k].m)
  <1>12. facets = FacetsOf(g)
    <2> HIDE DEF g
    <2>1. pack.resources[k].object = MeshObject(g) /\ pack.resources[k].id = k
      BY <1>2
    <2>2. k \in 1..Len(pack.resources)
      BY <1>1
    <2>3. Meaning(ObjectsOf(pack), k) = FacetsOf(g)
      <3>1. Meaning(ObjectsOf(pack), pack.resources[k].id) = FacetsOf(g)
        BY <1>3, <2>1, <2>2, FoundMesh
      <3> QED BY <2>1, <3>1
    <2>4. record.id = k
      BY <1>2, <1>4
    <2>5. FacetsOf(g) \in Seq(Spots)
      BY <1>10, FacetsType
    <2>6. Place(FacetsOf(g), Identity) = FacetsOf(g)
      BY <2>5, PlaceIdentity
    <2> QED BY <1>2, <2>3, <2>4, <2>6
  <1>13. record.parts = combined.ranges /\ record.overrides = object.overrides
    BY <1>2, <1>4
  <1> HIDE DEF facets, g
  <1>14. FoundPrusa(pack, k) =
           [v \in 1..(n + 1) |->
              Part(SubSeq(facets, combined.ranges[v].first + 1, combined.ranges[v].last + 1),
                   combined.ranges[v].modifier, combined.ranges[v].settings)]
    BY <1>11, <1>13 DEF FoundPrusa, facets, record
  <1> HIDE DEF record
  <1>15. ASSUME NEW v \in 1..(n + 1)
         PROVE  Part(SubSeq(facets, combined.ranges[v].first + 1, combined.ranges[v].last + 1),
                     combined.ranges[v].modifier, combined.ranges[v].settings) =
                Part(FacetsOf(volumes[v].geometry), volumes[v].modifier, volumes[v].settings)
    <2>1. RangeOf(g, combined.ranges[v], volumes[v])
      BY <1>10
    <2> QED BY <1>12, <2>1 DEF RangeOf
  <1>16. ASSUME NEW v \in 1..(n + 1)
         PROVE  asked[v] =
                Part(FacetsOf(volumes[v].geometry), volumes[v].modifier, volumes[v].settings)
    <2>1. CASE v = 1
      BY <1>8, <1>73, <1>75, <2>1
    <2>2. CASE v # 1
      <3> DEFINE j == v - 1
      <3>1. j \in 1..n /\ j + 1 = v
        BY <1>73, <2>2
      <3> HIDE DEF j
      <3>2. asked[j + 1] = Part(ModifierFacets(object.modifiers[j], m), TRUE,
                                object.modifiers[j].settings)
        BY <1>73, <3>1
      <3>3. /\ FacetsOf(volumes[j + 1].geometry) = ModifierFacets(object.modifiers[j], m)
            /\ volumes[j + 1].modifier = TRUE
            /\ volumes[j + 1].settings = object.modifiers[j].settings
        BY <1>75, <3>1
      <3> QED BY <3>1, <3>2, <3>3
    <2> QED BY <2>1, <2>2
  <1>17. asked = FoundPrusa(pack, k)
    <2>1. asked = [v \in 1..(n + 1) |-> asked[v]]
      BY <1>73 DEF IsList
    <2> QED BY <1>14, <1>15, <1>16, <2>1
  <1>18. Cardinality({r.id : r \in ToSet(pack.resources)}) = Len(pack.resources)
    BY <1>3, NumbersCounted
  <1> QED BY <1>1, <1>13, <1>17, <1>18 DEF record, asked, object, doc, MeansItsOwn

\* The package of a plate for PrusaSlicer means the plate
\* (buildAdvancedPlate3mf): each range of the one mesh of a placement, from
\* firstid to lastid, is the object or one of its modifiers.
THEOREM PrusaOwn ==
  ASSUME NEW plate, NEW docs, Sources(plate.objects, docs),
         BuildAdvanced(FALSE, plate, docs).ok, NEW k \in 1..Len(docs)
  PROVE  LET pack == BuildAdvanced(FALSE, plate, docs)
         IN MeansItsOwn(plate.objects, docs, k, TRUE, pack, FoundPrusa(pack, k))
  <1> DEFINE pack == BuildAdvanced(FALSE, plate, docs)
  <1>1. PrusaUpTo(plate.objects, docs, Len(docs), pack)
    BY AdvancedBuilt
  <1> HIDE DEF pack
  <1>2. MeansItsOwn(plate.objects, docs, k, TRUE, pack, FoundPrusa(pack, k))
    BY <1>1, PrusaFound
  <1> QED BY <1>2 DEF pack

\* A file of its own means its object (buildTransformed3mf): its build items
\* are moved to where the object is placed, and its meshes get the overrides.
THEOREM FileOwn ==
  ASSUME NEW object, PlacedWell(object), object.modifiers = <<>>, NEW doc, IsDocument(doc)
  PROVE  LET own == BuildTransformed(object, doc)
         IN /\ FlattenSource(doc, Identity).ok =>
                 AskedParts(object, doc, TRUE) =
                   <<Part(Built(own.resources, own.items), FALSE, {})>>
            /\ \A id \in DOMAIN own.overrides : own.overrides[id] = object.overrides
            /\ object.overrides # {} => DOMAIN own.overrides = MeshIds(doc)
  <1> DEFINE own == BuildTransformed(object, doc)
             m == object.transform
             built == Built(doc.objects, doc.items)
             source == Place(built, m)
             asked == AskedParts(object, doc, TRUE)
  <1>1. /\ own.resources = doc.objects /\ own.items = Moved(doc.items, m)
        /\ own.overrides = [id \in IF object.overrides = {} THEN {} ELSE MeshIds(doc) |->
                               object.overrides]
    BY DEF BuildTransformed
  <1>2. Unmirrored(m) /\ m \in Matrices /\ Unmirrored(Identity) /\ Identity \in Matrices
    BY IdentityIsMatrix, UnmirroredType DEF PlacedWell
  <1> HIDE DEF own
  <1>3. ASSUME FlattenSource(doc, Identity).ok
        PROVE  asked = <<Part(Built(own.resources, own.items), FALSE, {})>>
    <2>1. built \in Seq(Spots)
      BY <1>2, <1>3, SourceFlattened
    <2>2. Built(own.resources, own.items) = source
      BY <1>1, <1>2, <1>3, SourceMoved
    <2>3. source \in Seq(Spots)
      BY <1>2, <2>1, PlaceType
    <2>4. KeptFacets(source, TRUE) = source
      BY <1>2, <2>3, KeptPlaced
    <2>5. AskedIs(asked, object, doc, TRUE)
      BY <2>1, AskedAre
    <2>6. Len(object.modifiers) = 0
      OBVIOUS
    <2> HIDE DEF asked, m, built
    <2>7. IsList(asked) /\ Len(asked) = 0 + 1 /\ asked[1] = Part(KeptFacets(source, TRUE), FALSE, {})
      BY <2>5, <2>6 DEF AskedIs, m, built
    <2> DEFINE first == Part(source, FALSE, {})
    <2>8. asked[1] = first
      BY <2>4, <2>7
    <2> HIDE DEF source, first
    <2>9. asked = [v \in 1..1 |-> asked[v]]
      BY <2>7 DEF IsList
    <2>10. asked = <<first>>
      <3>1. <<first>> = [v \in 1..1 |-> first]
        OBVIOUS
      <3>2. \A v \in 1..1 : v = 1
        OBVIOUS
      <3> QED BY <2>8, <2>9, <3>1, <3>2
    <2> QED BY <2>2, <2>10 DEF first
  <1>4. \A id \in DOMAIN own.overrides : own.overrides[id] = object.overrides
    BY <1>1
  <1>5. object.overrides # {} => DOMAIN own.overrides = MeshIds(doc)
    BY <1>1
  <1> QED BY <1>3, <1>4, <1>5 DEF own, asked
=============================================================================
