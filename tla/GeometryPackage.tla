-------------------------- MODULE GeometryPackage --------------------------
(***************************************************************************)
(* From normalized sources to what the native engine is given              *)
(* (src/src/advanced-three-mf.js, three-mf.js, transform.js): the object   *)
(* graph of a source is flattened, placed, joined with its modifiers, and  *)
(* numbered into one package; plain Prusa plates keep one file per object. *)
(*                                                                         *)
(* Space is a line: a matrix is a scale and an offset, its determinant the *)
(* scale, so that a negative one mirrors.  A document is its objects, each *)
(* a mesh or a list of placed components, and the items that are built.    *)
(* XML and ZIP are left out, and so are names and rounded coordinates.     *)
(***************************************************************************)
EXTENDS PreparationContract, SupportPaint

CONSTANTS MaxGraphDepth,  \* the 32 of append
          Budget,         \* maximumSourceUncompressedBytes
          NoDefinition

ASSUME PackageAssumption == MaxGraphDepth \in Nat /\ Budget \in Nat

\* multiply3mfTransforms and apply3mfTransform: left first, then right.

Multiply(l, r) == Matrix(l.s * r.s, l.t * r.s + r.t)
Apply(p, m)    == p * m.s + m.t

Geometry(vertices, triangles) == [vertices |-> vertices, triangles |-> triangles]
Facet(v, paint) == [v |-> v, paint |-> paint]
Placement(ref, m) == [ref |-> ref, m |-> m]

MeshObject(g) == [mesh |-> TRUE, geometry |-> g, components |-> <<>>]
Assembly(cs)  == [mesh |-> FALSE, geometry |-> Geometry(<<>>, <<>>), components |-> cs]

\* What the native engine makes of a painted mesh is one object, placed once.
DocumentOf(mesh) ==
    [objects |-> [id \in {1} |-> MeshObject(Geometry(mesh.vertices, mesh.triangles))],
     items |-> <<Placement(1, mesh.frame)>>]

Matrices == [s : Int, t : Int]

\* Annotations of facets, in the digits that SupportPaint tells apart.
Paints == Seq({"0", "3", "4", "8"})

\* A position, a turn and scales that are greater than 0.
Unmirrored(m) == m \in Matrices /\ m.s > 0

\* The numbers, references and attributes that are read from a 3MF.
IsDocument(doc) ==
    LET placements == Seq([ref : Nat, m : Matrices])
    IN /\ DOMAIN doc.objects \subseteq Nat /\ doc.items \in placements
       /\ \A id \in DOMAIN doc.objects :
            doc.objects[id] \in
                [mesh : BOOLEAN, components : placements,
                 geometry : [vertices : Seq(Int),
                             triangles : Seq([v : [1..3 -> Int], paint : Paints])]]

-----------------------------------------------------------------------------
(* flattenSource.                                                          *)

Failed == [ok |-> FALSE, vertices |-> <<>>, triangles |-> <<>>]

Winding(v, m) == IF m.s < 0 THEN <<v[1], v[3], v[2]>> ELSE v

AddMesh(g, m, acc) ==
    LET offset == Len(acc.vertices)
        vertices == acc.vertices \o [i \in DOMAIN g.vertices |-> Apply(g.vertices[i], m)]
        triangles == acc.triangles \o
            [i \in DOMAIN g.triangles |->
                LET corners == Winding(g.triangles[i].v, m)
                IN [g.triangles[i] EXCEPT !.v = [k \in 1..3 |-> corners[k] + offset]]]
    IN IF /\ \A t \in ToSet(g.triangles) : \A k \in 1..3 : t.v[k] \in 0..(Len(g.vertices) - 1)
          /\ 48 * Len(vertices) + 64 * Len(triangles) <= 2 * Budget
       THEN [ok |-> TRUE, vertices |-> vertices, triangles |-> triangles]
       ELSE Failed

\* The meshes below one placement, depth first, each with its place, and a
\* leaf that is none where the graph ends in anything but a mesh.
NoLeaf == [ok |-> FALSE, geometry |-> Geometry(<<>>, <<>>), m |-> Identity]

Leaves(objects, item, parent) ==
    LET leaves[n \in 0..MaxGraphDepth] ==      \* n: the levels that are left
          [at \in [above : SUBSET Nat, id : Nat, m : Matrices] |->
             IF \/ at.id \in at.above \/ n = 0 \/ at.id \notin DOMAIN objects \/ at.m.s = 0
                \/ ~objects[at.id].mesh /\ objects[at.id].components = <<>>
             THEN <<NoLeaf>>
             ELSE IF objects[at.id].mesh
             THEN <<[ok |-> TRUE, geometry |-> objects[at.id].geometry, m |-> at.m]>>
             ELSE FlattenSeq([i \in DOMAIN objects[at.id].components |->
                     LET c == objects[at.id].components[i]
                     IN leaves[n - 1][[above |-> at.above \cup {at.id}, id |-> c.ref,
                                       m |-> Multiply(c.m, at.m)]]])]
    IN leaves[MaxGraphDepth][[above |-> {}, id |-> item.ref, m |-> Multiply(item.m, parent)]]

\* All of them in one mesh.
Flattened(leaves) ==
    LET flat[k \in 0..Len(leaves)] ==
          IF k = 0 THEN [Failed EXCEPT !.ok = TRUE]
          ELSE LET acc == flat[k - 1]
               IN IF acc.ok /\ leaves[k].ok
                  THEN AddMesh(leaves[k].geometry, leaves[k].m, acc) ELSE Failed
    IN flat[Len(leaves)]

FlattenSource(doc, parent) ==
    LET all == Flattened(FlattenSeq([i \in DOMAIN doc.items |->
                                        Leaves(doc.objects, doc.items[i], parent)]))
    IN IF all.vertices = <<>> \/ all.triangles = <<>> THEN Failed ELSE all

-----------------------------------------------------------------------------
(* buildAdvancedPlate3mf.  A modifier's shape is one facet of its own.     *)

Shape == Geometry(<<0, 1, 2>>, <<Facet(<<0, 1, 2>>, <<>>)>>)

Volume(g, modifier, settings) == [geometry |-> g, modifier |-> modifier, settings |-> settings]

Volumes(base, object, parent) ==
    <<Volume(Geometry(base.vertices, base.triangles), FALSE, {})>> \o
    [i \in DOMAIN object.modifiers |->
        LET modifier == object.modifiers[i]
            m == Multiply(modifier.m, parent)
        IN Volume([Shape EXCEPT !.vertices = [k \in DOMAIN @ |-> Apply(@[k], m)]],
                  TRUE, modifier.settings)]

\* Paint only stays with an object that was painted for this plate.
PaintAttributes(g, painted) ==
    [g EXCEPT !.triangles = [i \in DOMAIN @ |-> IF painted THEN @[i] ELSE Facet(@[i].v, <<>>)]]

\* One source is one buffer for each file and paint.
SourceKey(object) == [file |-> object.file, paint |-> object.paint]

Variant(object) == [modifiers |-> object.modifiers, overrides |-> object.overrides,
                    paint |-> object.paint]

\* Mutant: instances of one definition share their meshes whatever they ask.
LinkedByDefinition(linked, object) == object.definition \in DOMAIN linked

Linked(linked, object) ==
    /\ object.definition \in DOMAIN linked
    /\ linked[object.definition].source = SourceKey(object)
    /\ linked[object.definition].variant = Variant(object)

\* A record per placement; linked instances share the meshes.
AddBambu(acc, object, doc) ==
    LET reuse == Linked(acc.linked, object)
        base  == IF reuse THEN acc.linked[object.definition].base ELSE FlattenSource(doc, Identity)
        volumes == Volumes(base, object, Identity)
        id    == acc.next
        parts == IF reuse THEN acc.linked[object.definition].parts
                 ELSE [i \in DOMAIN volumes |-> [id |-> id + i, volume |-> volumes[i]]]
        meshes == [i \in DOMAIN parts |->
                      [id |-> parts[i].id,
                       object |-> MeshObject(PaintAttributes(parts[i].volume.geometry,
                                                             IsPainted(object)))]]
        record == [id |-> id, overrides |-> object.overrides,
                   parts |-> [i \in DOMAIN parts |->
                                 [id |-> parts[i].id, modifier |-> parts[i].volume.modifier,
                                  settings |-> parts[i].volume.settings]]]
        entry == [source |-> SourceKey(object), variant |-> Variant(object),
                  base |-> base, parts |-> parts]
    IN [ok |-> acc.ok /\ base.ok,
        next |-> id + 1 + (IF reuse THEN 0 ELSE Len(parts)),
        resources |-> acc.resources \o (IF reuse THEN <<>> ELSE meshes) \o
            <<[id |-> id, object |-> Assembly([i \in DOMAIN parts |->
                                                  Placement(parts[i].id, Identity)])]>>,
        records |-> Append(acc.records, record),
        items |-> Append(acc.items, Placement(id, object.transform)),
        linked |-> IF object.definition \in DOMAIN acc.linked \cup {NoDefinition}
                   THEN acc.linked
                   ELSE [d \in DOMAIN acc.linked \cup {object.definition} |->
                            IF d = object.definition THEN entry ELSE acc.linked[d]]]

\* One mesh per placement; its volumes are ranges of triangles.
Combine(acc, volume) ==
    LET offset == Len(acc.geometry.vertices)
        first  == Len(acc.geometry.triangles)
        g      == volume.geometry
    IN [geometry |-> Geometry(acc.geometry.vertices \o g.vertices,
                              acc.geometry.triangles \o
                                [i \in DOMAIN g.triangles |->
                                  [g.triangles[i] EXCEPT
                                     !.v = [k \in 1..3 |-> @[k] + offset]]]),
        ranges |-> Append(acc.ranges,
                          [first |-> first, last |-> first + Len(g.triangles) - 1,
                           modifier |-> volume.modifier, settings |-> volume.settings])]

Combination(volumes) ==
    LET joined[k \in 0..Len(volumes)] ==
          IF k = 0 THEN [geometry |-> Geometry(<<>>, <<>>), ranges |-> <<>>]
          ELSE Combine(joined[k - 1], volumes[k])
    IN joined[Len(volumes)]

AddPrusa(acc, object, doc) ==
    LET base == FlattenSource(doc, object.transform)
        combined == Combination(Volumes(base, object, object.transform))
        id == acc.next
    IN [ok |-> acc.ok /\ base.ok
               /\ \A i \in DOMAIN object.modifiers :
                     ShellThickness \notin object.modifiers[i].settings,
        next |-> id + 1,
        resources |-> Append(acc.resources, [id |-> id, object |-> MeshObject(combined.geometry)]),
        records |-> Append(acc.records, [id |-> id, overrides |-> object.overrides,
                                         parts |-> combined.ranges]),
        items |-> Append(acc.items, Placement(id, Identity)),
        linked |-> acc.linked]

NoPlate == [ok |-> TRUE, next |-> 1, resources |-> <<>>, records |-> <<>>, items |-> <<>>,
            linked |-> <<>>]

\* docs: the normalized source of every object, in the plate's order.
BuildAdvanced(bambu, plate, docs) ==
    LET after[k \in 0..Len(docs)] ==
          IF k = 0
          THEN [NoPlate EXCEPT !.ok = ModifierCount(plate.objects) <= MaxModifiersPerPlate]
          ELSE LET acc == after[k - 1]
                   object == plate.objects[k]
               IN IF acc.ok /\ object.transform.s # 0
                  THEN IF bambu THEN AddBambu(acc, object, docs[k])
                                ELSE AddPrusa(acc, object, docs[k])
                  ELSE [NoPlate EXCEPT !.ok = FALSE]
    IN after[Len(docs)]

\* The layer events of the package, in the order of their heights.
Events(plate) ==
    SortByHeight([i \in DOMAIN plate.pauses |-> [z |-> plate.pauses[i].z, gcode |-> <<Pause>>]]
                 \o [i \in DOMAIN plate.scripts |->
                        [z |-> plate.scripts[i].z,
                         gcode |-> Block(Script(plate.scripts[i]))]])

-----------------------------------------------------------------------------
(* buildTransformed3mf: the items of the source are moved, and overrides   *)
(* are attached to its meshes.                                             *)

MeshIds(doc) == {id \in DOMAIN doc.objects :
                   doc.objects[id].mesh /\ doc.objects[id].geometry.triangles # <<>>}

Moved(items, m) == [i \in DOMAIN items |-> [items[i] EXCEPT !.m = Multiply(@, m)]]

BuildTransformed(object, doc) ==
    [ok |-> doc.items # <<>> /\ (object.overrides # {} => MeshIds(doc) # {}),
     resources |-> doc.objects,
     items |-> Moved(doc.items, object.transform),
     overrides |-> [id \in IF object.overrides = {} THEN {} ELSE MeshIds(doc) |->
                       object.overrides]]

-----------------------------------------------------------------------------
(* What a document means to its reader: the facets of an object in its own *)
(* coordinates, those of its components moved one level at a time.         *)

Place(facets, m) ==
    [i \in DOMAIN facets |->
        LET at == [k \in 1..3 |-> facets[i].at[k] * m.s + m.t]
        IN [facets[i] EXCEPT !.at = IF m.s < 0 THEN <<at[1], at[3], at[2]>> ELSE at]]

FacetsOf(g) == [i \in DOMAIN g.triangles |->
                  [at |-> [k \in 1..3 |-> g.vertices[g.triangles[i].v[k] + 1]],
                   paint |-> g.triangles[i].paint]]

Meaning(objects, id) ==
    LET meaning[n \in 0..MaxGraphDepth] ==     \* n: the levels of components below
          [i \in DOMAIN objects |->
              LET cs == objects[i].components
              IN IF objects[i].mesh THEN FacetsOf(objects[i].geometry)
                 ELSE IF n = 0 THEN <<>>
                 ELSE FlattenSeq([k \in DOMAIN cs |->
                                     Place(meaning[n - 1][cs[k].ref], cs[k].m)])]
    IN meaning[MaxGraphDepth][id]

Built(objects, items) ==
    FlattenSeq([i \in DOMAIN items |-> Place(Meaning(objects, items[i].ref), items[i].m)])

\* Facets, how often each; what they are; and how they are to be printed.
Part(facets, modifier, settings) ==
    [facets |-> ToBag(facets), modifier |-> modifier, settings |-> settings]

AskedParts(object, doc, keepsPaint) ==
    LET source == Place(Built(doc.objects, doc.items), object.transform)
    IN <<Part([i \in DOMAIN source |-> IF keepsPaint THEN source[i]
                                       ELSE [source[i] EXCEPT !.paint = <<>>]], FALSE, {})>> \o
       [i \in DOMAIN object.modifiers |->
            Part(Place(Place(FacetsOf(Shape), object.modifiers[i].m), object.transform),
                 TRUE, object.modifiers[i].settings)]

\* The k-th placement of a package as its reader finds it: by the numbers
\* and ranges that stand in it.
ObjectsOf(package) ==
    [id \in {r.id : r \in ToSet(package.resources)} |->
        (CHOOSE r \in ToSet(package.resources) : r.id = id).object]

RecordOf(package, k) ==
    CHOOSE r \in ToSet(package.records) : r.id = package.items[k].ref

FoundBambu(package, k) ==
    LET record == RecordOf(package, k)
    IN [i \in DOMAIN record.parts |->
           Part(Place(Meaning(ObjectsOf(package), record.parts[i].id), package.items[k].m),
                record.parts[i].modifier, record.parts[i].settings)]

FoundPrusa(package, k) ==
    LET record == RecordOf(package, k)
        facets == Place(Meaning(ObjectsOf(package), record.id), package.items[k].m)
    IN [i \in DOMAIN record.parts |->
           LET r == record.parts[i]
           IN Part(SubSeq(facets, r.first + 1, r.last + 1), r.modifier, r.settings)]
=============================================================================
