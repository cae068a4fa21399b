-------------------------- MODULE MCPreparedPrint --------------------------
(* Three families of claims, each varying what one part of the worker has  *)
(* to tell apart: paints, plates, and actions at heights.                  *)
EXTENDS PreparedPrint

Engines == {"prusa", "bambu"}

Unpainted == [source |-> <<>>, count |-> 0, data |-> <<>>]

Plain(file) == [file |-> file, paint |-> Unpainted, modifiers |-> <<>>, overrides |-> {},
                definition |-> NoDefinition, transform |-> Identity]

OfPlate(engine, objects, pauses, scripts) ==
    [engine |-> engine, capability |-> engine, enableSupport |-> TRUE, pauseCommand |-> TRUE,
     sizes |-> <<1>>,
     plate |-> [declared |-> TRUE, height |-> 30, pauses |-> pauses, scripts |-> scripts,
                objects |-> objects]]

-----------------------------------------------------------------------------
(* Paints: of two and three facets, of a file that has one twice or one    *)
(* without area; whole, divided, too deep, too many, misplaced, stale.     *)

MCStls == [two   |-> << <<0, 2, 4>>, <<2, 4, 6>> >>,
           three |-> << <<0, 2, 4>>, <<2, 4, 8>>, <<4, 2, 0>> >>,
           twice |-> << <<0, 2, 4>>, <<0, 2, 4>> >>,
           flat  |-> << <<0, 2, 4>>, <<2, 2, 6>> >>]

Record(facet, tree) == [facet |-> facet, tree |-> tree]
Divided == <<"4", "0", "0", "8", "3">>
Deep    == <<"0", "0", "0">> \o Divided \o <<"3">>

Data == { <<Record(0, <<"4">>)>>, <<Record(1, <<"8">>)>>, <<Record(0, Divided)>>,
          <<Record(0, Divided), Record(1, Divided)>>, <<Record(1, Divided), Record(0, <<"4">>)>>,
          <<Record(0, <<"4">>), Record(1, <<"8">>)>>, <<Record(0, <<"0">>)>>,
          <<Record(0, <<"4", "4">>)>>, <<Record(0, <<"4", "3">>)>>, <<Record(0, Deep)>>,
          <<Record(0, <<"4", "0", "0", "3">>)>>, <<Record(2, <<"4">>)>>, <<Record(3, <<"4">>)>>,
          <<Record(0, Divided), Record(1, Divided), Record(2, <<"4">>)>> }

Paint(file, data) == [source |-> MCStls[file], count |-> Len(MCStls[file]), data |-> data]

PaintedObject(file, data) == [Plain(file) EXCEPT !.paint = Paint(file, data)]

Stale == [PaintedObject("two", <<Record(0, <<"4">>)>>) EXCEPT !.file = "three"]
Short == [PaintedObject("three", <<Record(0, <<"4">>)>>) EXCEPT !.paint.count = 2]

PaintClaims ==
    {OfPlate(engine, <<object>>, <<>>, <<>>) :
        engine \in Engines,
        object \in {PaintedObject(file, data) : file \in DOMAIN MCStls, data \in Data}
                   \cup {Stale, Short}}

\* What may come back: some of the facets, turned, repeated or unknown ones,
\* any of the paints, in either frame or a wrong one.
MCConversions(before) ==
    LET center == Center(before)
        corners == {t.v : t \in ToSet(before.triangles)}
        turned  == {<<v[2], v[3], v[1]>> : v \in corners}
        facets  == [v : corners \cup turned \cup {<<0, 1, 7>>},
                    paint : {t.paint : t \in ToSet(before.triangles)} \cup {NoPaint}]
        moved(shift) == [k \in DOMAIN before.vertices |-> before.vertices[k] - shift]
        n == Len(before.triangles)
    IN {Mesh(moved(frame.t), triangles, frame) :
           triangles \in BoundedSeq(facets, IF n = 2 THEN 3 ELSE 1) \cup
               IF n = 2 THEN {}
               ELSE UNION {{[i \in 1..n |-> before.triangles[order[i]]],
                            [i \in 1..n |-> [before.triangles[order[i]] EXCEPT
                                                !.paint = before.triangles[i].paint]]} :
                              order \in [1..n -> 1..n]},
           frame \in {Identity, Matrix(1, center), Matrix(1, center + 1)}}

-----------------------------------------------------------------------------
(* Plates: two objects of plain, nested, mirrored, shared, cyclic, broken  *)
(* and painted sources; modifiers, overrides and linked definitions.       *)

OneFacet(paint) == MeshObject(Geometry(<<0, 1, 3>>, <<Facet(<<0, 1, 2>>, paint)>>))
TwoFacets == MeshObject(Geometry(<<0, 1, 3, 4>>, <<Facet(<<0, 1, 2>>, NoPaint),
                                                  Facet(<<2, 3, 0>>, NoPaint)>>))
OutOfRange == MeshObject(Geometry(<<0, 1>>, <<Facet(<<0, 1, 2>>, NoPaint)>>))

Mirror == Matrix(-1, 7)

Document(objects, items) == [objects |-> objects, items |-> items]
Alone(object) == Document(1 :> object, <<Placement(1, Identity)>>)

MCDocuments ==
    [plain   |-> Alone(TwoFacets),
     marked  |-> Alone(OneFacet(<<"4">>)),
     \* two mirrored copies of a doubled assembly of two placed meshes
     nested  |-> Document(1 :> OneFacet(NoPaint) @@
                          2 :> Assembly(<<Placement(1, Matrix(1, 5)), Placement(1, Mirror)>>) @@
                          3 :> Assembly(<<Placement(2, Matrix(2, 1))>>),
                          <<Placement(3, Mirror), Placement(1, Matrix(3, 0))>>),
     cyclic  |-> Document(1 :> Assembly(<<Placement(2, Identity)>>) @@
                          2 :> Assembly(<<Placement(1, Identity)>>), <<Placement(1, Identity)>>),
     deep    |-> Document(1 :> OneFacet(NoPaint) @@ 2 :> Assembly(<<Placement(1, Identity)>>) @@
                          3 :> Assembly(<<Placement(2, Identity)>>) @@
                          4 :> Assembly(<<Placement(3, Identity)>>), <<Placement(4, Identity)>>),
     collapsed |-> Document(1 :> OneFacet(NoPaint), <<Placement(1, Matrix(0, 1))>>),
     range   |-> Alone(OutOfRange),
     dangling |-> Document(1 :> OneFacet(NoPaint), <<Placement(2, Identity)>>),
     large   |-> Document(1 :> TwoFacets, [i \in 1..3 |-> Placement(1, Matrix(1, i))]),
     two     |-> Alone(TwoFacets)]

Modifier(id, m, settings) == [id |-> id, m |-> m, settings |-> settings]
Dense == Modifier(1, Matrix(2, 1), {"infill"})
Thick == Modifier(2, Identity, {"shell"})

PlateObjects ==
    {Plain(file) : file \in DOMAIN MCDocuments} \cup
    {[Plain(file) EXCEPT !.transform = Matrix(2, 10), !.definition = "d"] :
        file \in {"plain", "marked", "nested"}} \cup
    {[Plain("plain") EXCEPT !.transform = Matrix(1, 20), !.definition = "d", !.modifiers = ms] :
        ms \in {<<Dense>>, <<Dense, Thick>>, <<Dense, Dense>>}} \cup
    {[Plain("nested") EXCEPT !.modifiers = <<Dense>>],
     [Plain("plain") EXCEPT !.overrides = {"infill"}, !.definition = "d"],
     [Plain("nested") EXCEPT !.overrides = {"infill"}, !.modifiers = <<Dense>>],
     [PaintedObject("two", <<Record(1, <<"8">>)>>) EXCEPT !.definition = "d"],
     [Plain("two") EXCEPT !.definition = "d", !.transform = Matrix(1, 9)]}

PlateClaims == {OfPlate(engine, <<a, b>>, <<>>, <<>>) :
                   engine \in Engines, a \in PlateObjects, b \in PlateObjects}

-----------------------------------------------------------------------------
(* Heights: what is asked within, between and above the layers.            *)

Command == Line("command", 0)

PauseAt(id, z) == [id |-> id, z |-> z]
ScriptAt(id, z, gcode) == [id |-> id, z |-> z, gcode |-> gcode]

PauseLists == { <<>>, <<PauseAt(3, 10)>>, <<PauseAt(3, 11)>>, <<PauseAt(3, 12)>>,
                <<PauseAt(3, 20), PauseAt(4, 10)>>, <<PauseAt(3, 10), PauseAt(3, 20)>> }

ScriptLists == { <<>>, <<ScriptAt(1, 10, <<Command>>)>>, <<ScriptAt(1, 12, <<Layer(20)>>)>>,
                 <<ScriptAt(1, 10, <<Blank, Pause, Blank>>)>>, <<ScriptAt(1, 20, <<Blank>>)>>,
                 <<ScriptAt(1, 10, <<Begin(2)>>)>>,
                 <<ScriptAt(2, 20, <<Command>>), ScriptAt(1, 10, <<Pause>>)>> }

PointClaims ==
    {OfPlate("prusa", <<Plain("plain")>>, pauses, <<>>) : pauses \in PauseLists}
    \cup {OfPlate("prusa", <<Plain("plain")>>, <<>>, scripts) : scripts \in ScriptLists}
    \cup {OfPlate("prusa", <<Plain("plain")>>, <<PauseAt(3, z)>>, <<ScriptAt(1, 10, gcode)>>) :
             z \in {10, 11, 20}, gcode \in {<<Pause>>, <<Layer(20)>>}}
    \cup {[OfPlate("bambu", <<Plain("plain")>>, <<PauseAt(3, 10)>>, <<>>) EXCEPT
              !.pauseCommand = FALSE],
          [OfPlate("prusa", <<Plain("plain")>>, <<PauseAt(3, 10)>>, <<>>) EXCEPT
              !.capability = "older"],
          [OfPlate("prusa", <<Plain("plain")>>, <<>>, <<>>) EXCEPT
              !.capability = "older", !.plate.declared = FALSE, !.plate.height = 0],
          OfPlate("prusa", <<Plain("plain")>>, <<PauseAt(3, 31)>>, <<>>)}

IsPlain(c) == ~HasActions(c)

\* Layers, the pause, and the markers of the scripts that were asked for; a
\* layer in between where something is asked for there.
MCLines(c) ==
    IF c \notin PointClaims THEN {Layer(10)} ELSE
    {Layer(10), Layer(20), Pause} \cup
    (IF IsPlain(c) THEN {Blank} ELSE {}) \cup
    {Layer(11) : z \in (Heights(c.plate.pauses) \cup Heights(c.plate.scripts)) \cap {11, 12}} \cup
    {Begin(id) : id \in Ids(c.plate.scripts)} \cup {End(id) : id \in Ids(c.plate.scripts)} \cup
    (UNION {ToSet(c.plate.scripts[i].gcode) : i \in DOMAIN c.plate.scripts}
        \ {Blank, Begin(2)}) \cup
    IF c.plate.scripts = <<>> THEN {Begin(9)} ELSE {}

\* A file without layer actions may mix all ends of lines, and the last line
\* of a short file need have none.
MCLineEnds(c, n) ==
    LET ends == CASE IsPlain(c)       -> [1..n -> {<<LF>>, <<CR, LF>>, <<CR>>}]
                  [] n <= MaxCutLines -> {[i \in 1..n |-> end] : end \in {<<LF>>, <<CR, LF>>}}
                  [] OTHER            -> {[i \in 1..n |-> <<CR, LF>>]}
    IN ends \cup IF n > MaxCutLines THEN {} ELSE {[e EXCEPT ![n] = <<>>] : e \in ends}

MCClaims == PaintClaims \cup PlateClaims \cup PointClaims
=============================================================================
