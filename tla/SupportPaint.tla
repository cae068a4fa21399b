---------------------------- MODULE SupportPaint ----------------------------
(***************************************************************************)
(* Painted supports (src/src/support-paint.js): the annotation of a claim  *)
(* is checked, written into a mesh made of the source's facets, converted  *)
(* by the native engine, and compared facet by facet with what comes back. *)
(*                                                                         *)
(* A vertex is a point of a line, a matrix a scale and an offset on it;    *)
(* the rounding of coordinates to single precision is left out, and so is  *)
(* the text of the STL and the 3MF.                                        *)
(***************************************************************************)
EXTENDS Integers, FiniteSets, SequencesExt

CONSTANTS MaxFacets,   \* limits.triangles
          MaxNodes,    \* limits.nodes, of all trees together
          MaxDepth     \* limits.depth

ASSUME PaintAssumption == {MaxFacets, MaxNodes, MaxDepth} \subseteq Nat

Matrix(s, t) == [s |-> s, t |-> t]
Identity == Matrix(1, 0)

NoPaint == <<>>

\* A mesh as a document of its own: one object, one placement.
Mesh(vertices, triangles, frame) ==
    [vertices |-> vertices, triangles |-> triangles, frame |-> frame]

-----------------------------------------------------------------------------
(* validateSupportPaint.  A tree is read from its end: "3" is divided and  *)
(* has four children before it, "0", "4" and "8" are leaves.               *)

Broken == [ok |-> FALSE, rest |-> 0, nodes |-> 0]

\* What is left of the first `rest` tokens once one tree of this depth is
\* read off their end, and the nodes read so far.
Read(tree, used) ==
    LET read[at \in [rest : 0..Len(tree), depth : 0..(MaxDepth + 1), nodes : 0..MaxNodes]] ==
          LET token   == [ok |-> TRUE, rest |-> at.rest - 1, nodes |-> at.nodes + 1]
              next(r) == IF r.ok
                         THEN read[[rest |-> r.rest, depth |-> at.depth + 1, nodes |-> r.nodes]]
                         ELSE Broken
          IN IF at.nodes = MaxNodes \/ at.depth > MaxDepth \/ at.rest = 0 THEN Broken
             ELSE IF tree[at.rest] # "3" THEN token
             ELSE next(next(next(next(token))))
    IN read[[rest |-> Len(tree), depth |-> 0, nodes |-> used]]

\* Records in order of their facets, a whole tree each and not "0" alone;
\* the nodes of all of them count against one limit.
DataValid(paint) ==
    LET whole(r) == r.ok /\ r.rest = 0
    IN /\ \A i \in DOMAIN paint.data :
             LET record == paint.data[i]
             IN /\ record.facet < paint.count /\ record.tree # <<"0">>
                /\ i > 1 => paint.data[i - 1].facet < record.facet
       /\ whole(FoldLeft(LAMBDA r, record : IF whole(r) THEN Read(record.tree, r.nodes) ELSE Broken,
                         [ok |-> TRUE, rest |-> 0, nodes |-> 0], paint.data))

PaintValid(paint, stl) ==
    /\ paint.source = stl                    \* the checksums
    /\ paint.count \in 1..MaxFacets
    /\ DataValid(paint)

Annotation(paint, facet) ==
    IF \E i \in DOMAIN paint.data : paint.data[i].facet = facet
    THEN (CHOOSE r \in ToSet(paint.data) : r.facet = facet).tree ELSE NoPaint

-----------------------------------------------------------------------------
(* readPaintableStl, buildSupportPainted3mf.                               *)

StlValid(stl) ==
    /\ Len(stl) \in 1..MaxFacets
    /\ \A f \in ToSet(stl) : Cardinality(ToSet(f)) = 3      \* not degenerate

Vertices(stl) == FoldLeft(LAMBDA seen, v : IF Contains(seen, v) THEN seen ELSE Append(seen, v),
                          <<>>, FlattenSeq(stl))

Index(vertices, v) == SelectInSeq(vertices, LAMBDA x : x = v) - 1

\* Mutant: annotations are numbered from one.
AnnotatedFromOne(stl, paint) ==
    [i \in DOMAIN stl |-> Annotation(paint, i)]

Annotated(stl, paint) ==
    [i \in DOMAIN stl |-> Annotation(paint, i - 1)]

CanPaint(stl, paint) ==
    StlValid(stl) /\ PaintValid(paint, stl) /\ Len(stl) = paint.count

Painted(stl, paint) ==
    LET vertices == Vertices(stl)
    IN Mesh(vertices,
            [i \in DOMAIN stl |-> [v |-> [k \in 1..3 |-> Index(vertices, stl[i][k])],
                                   paint |-> Annotated(stl, paint)[i]]],
            Identity)

-----------------------------------------------------------------------------
(* assertSupportPaintRoundtrip.                                            *)

Corners(mesh, shift) ==
    [i \in DOMAIN mesh.triangles |->
        [k \in 1..3 |-> mesh.vertices[mesh.triangles[i].v[k] + 1] - shift]]

InRange(mesh) ==
    \A t \in ToSet(mesh.triangles) : \A k \in 1..3 : t.v[k] \in 0..(Len(mesh.vertices) - 1)

Distinct(corners) == Cardinality(ToSet(corners)) = Len(corners)

Center(mesh) == (Min(ToSet(mesh.vertices)) + Max(ToSet(mesh.vertices))) \div 2

\* The same facets with the same annotations, in the frame the mesh had or
\* in the one the native importer gives it.
Roundtrip(before, after) ==
    LET native == Matrix(1, Center(before))
        shift  == IF after.frame = Identity THEN 0 ELSE native.t
        sent     == Corners(before, shift)
        received == Corners(after, 0)
    IN /\ before.frame = Identity /\ after.frame \in {Identity, native}
       /\ InRange(after)
       /\ Distinct(sent) /\ Distinct(received)
       /\ ToSet(sent) = ToSet(received)
       /\ \A i \in DOMAIN sent : \A j \in DOMAIN received :
             sent[i] = received[j] => before.triangles[i].paint = after.triangles[j].paint

-----------------------------------------------------------------------------
(* What the worker promises about a paint that it accepted.                *)

\* A tree in Polish notation, last token first: the trees still owed never
\* run out before its end, and do there.
Owed(tree, k) ==
    LET read == SubSeq(tree, Len(tree) - k + 1, Len(tree))
        divided == Cardinality({i \in DOMAIN read : read[i] = "3"})
    IN 1 + 3 * divided - (k - divided)

IsTree(tree) == /\ \A k \in 0..(Len(tree) - 1) : Owed(tree, k) > 0
                /\ Owed(tree, Len(tree)) = 0

AskedPaint(paint, facet) == IF \E r \in ToSet(paint.data) : r.facet = facet
                            THEN (CHOOSE r \in ToSet(paint.data) : r.facet = facet).tree
                            ELSE NoPaint

\* Every annotation is a tree of a facet of the source, and every facet of
\* the source stands where it stood, once, in the order of its corners, with
\* its own annotation and no other.
Survives(stl, paint, mesh) ==
    LET placed == Corners(mesh, -mesh.frame.t)
    IN /\ \A r \in ToSet(paint.data) : IsTree(r.tree) /\ r.facet \in 0..(Len(stl) - 1)
       /\ Len(placed) = Len(stl)
       /\ \A i \in DOMAIN stl :
            \E j \in DOMAIN placed :
                /\ mesh.triangles[j].paint = AskedPaint(paint, i - 1)
                /\ \A k \in DOMAIN placed : placed[k] = stl[i] <=> k = j
=============================================================================
