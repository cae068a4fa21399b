--------------------------- MODULE GcodeEvidence ---------------------------
(***************************************************************************)
(* What the worker reads back from the printed file: the summary of        *)
(* src/src/gcode.js, and the readers of src/src/layer-gcode.js and         *)
(* pause-verification.js that decide whether the file does what was asked. *)
(*                                                                         *)
(* A line is a layer change with its height, the begin or the end of a     *)
(* custom script, the engine's pause, or a command; how either engine      *)
(* spells them, how the text is cut into lines, and the other figures of   *)
(* the summary are left out.  Every reader takes one line at a time, so    *)
(* that all of them can follow a file that is still being written down.    *)
(***************************************************************************)
EXTENDS PreparationContract

CONSTANT Epsilon   \* EPSILON_MM and LAYER_HEIGHT_EPSILON_MM

ASSUME EvidenceAssumption == Epsilon \in Nat

Unknown == 0       \* null: before the first layer

\* createLayerGcodeCommentScope.
Scope(active, line) == IF IsMarker(line) THEN line.kind = "begin" ELSE active

Skips(active, line) == IsMarker(line) \/ active

-----------------------------------------------------------------------------
(* inspectGcode.                                                           *)

InspectionBegins == [active |-> FALSE, layerCount |-> 0]

Inspect(r, line) ==
    [active |-> Scope(r.active, line),
     layerCount |-> IF ~Skips(r.active, line) /\ line.kind = "layer"
                    THEN r.layerCount + 1 ELSE r.layerCount]

-----------------------------------------------------------------------------
(* verifyNativePauseEvents.                                                *)

PausesBegin == [active |-> FALSE, z |-> Unknown, layers |-> <<>>, events |-> <<>>]

ReadPause(r, line) ==
    IF Skips(r.active, line) THEN [r EXCEPT !.active = Scope(@, line)]
    ELSE IF line.kind = "layer"
         THEN [r EXCEPT !.z = line.arg, !.layers = Append(@, line.arg)]
         ELSE IF line = Pause THEN [r EXCEPT !.events = Append(@, r.z)] ELSE r

Near(a, b) == a - b <= Epsilon /\ b - a <= Epsilon

\* The first layer that reaches the height; Unknown if none does.
Target(layers, z) ==
    LET i == SelectInSeq(layers, LAMBDA l : l + Epsilon >= z)
    IN IF i = 0 THEN Unknown ELSE layers[i]

PausesVerified(r, points) ==
    LET expected == [i \in DOMAIN Pauses(points) |-> Target(r.layers, Pauses(points)[i].z)]
    IN points = <<>> \/ /\ Len(r.events) = Len(expected)
                        /\ \A i \in DOMAIN expected : /\ expected[i] # Unknown
                                                      /\ r.events[i] # Unknown
                                                      /\ Near(r.events[i], expected[i])

-----------------------------------------------------------------------------
(* verifyNativeLayerGcode.                                                 *)

Nobody == 0

ScriptsBegin == [ok |-> TRUE, active |-> Nobody, z |-> Unknown, body |-> <<>>,
                 events |-> <<>>, layers |-> <<>>]

ScriptOf(points, id) == CHOOSE p \in ToSet(Scripts(points)) : p.id = id

\* Mutant: a script that comes again is taken for the first one.
BeginsAgain(r, id, points) == r.active = Nobody /\ id \in Ids(points)

Begins(r, id, points) ==
    r.active = Nobody /\ id \in Ids(points) /\ id \notin DOMAIN r.events

Ends(r, id, points) ==
    r.active # Nobody /\ id = r.active /\ r.body = ScriptOf(points, id).gcode

ReadScript(r, line, points) ==
    CASE line.kind = "begin" ->
           [r EXCEPT !.ok = Begins(r, line.arg, points), !.active = line.arg, !.body = <<>>,
                     !.events = [id \in DOMAIN @ \cup {line.arg} |->
                                    IF id = line.arg THEN r.z ELSE @[id]]]
      [] line.kind = "end" ->
           [r EXCEPT !.ok = Ends(r, line.arg, points), !.active = Nobody]
      [] ~IsMarker(line) /\ r.active # Nobody -> [r EXCEPT !.body = Append(@, line)]
      [] line.kind = "layer" /\ r.active = Nobody ->
           [r EXCEPT !.z = line.arg, !.layers = Append(@, line.arg)]
      [] OTHER -> r

\* Every script was there, and no two layer actions meet in one layer.
ScriptsVerified(r, points, pauses) ==
    LET heights == Heights(points) \cup Heights(pauses)
        target(z) == Target(r.layers, z)
    IN points = <<>> \/
       /\ r.active = Nobody /\ DOMAIN r.events = Ids(points)
       /\ \A z \in heights : target(z) # Unknown
       /\ Cardinality({target(z) : z \in heights}) = Len(points) + Len(pauses)
       /\ \A i \in DOMAIN points : /\ r.events[points[i].id] # Unknown
                                   /\ Near(r.events[points[i].id], target(points[i].z))

-----------------------------------------------------------------------------
(* What an accepted file does, in terms of where its lines stand.          *)

Inside(file, k) == \E b \in 1..(k - 1) : /\ file[b].kind = "begin"
                                         /\ \A j \in (b + 1)..(k - 1) : file[j].kind # "end"

Native(file) == {k \in DOMAIN file : ~IsMarker(file[k]) /\ ~Inside(file, k)}

NativeLayers(file) == {k \in Native(file) : file[k].kind = "layer"}

\* The height at which line k is printed.
HeightAt(file, k) == LET before == {j \in NativeLayers(file) : j < k}
                     IN IF before = {} THEN Unknown ELSE file[Max(before)].arg

Reaching(file, z) == {k \in NativeLayers(file) : file[k].arg + Epsilon >= z}

PrintedAt(file, k, z) ==
    /\ HeightAt(file, k) # Unknown /\ Reaching(file, z) # {}
    /\ Near(HeightAt(file, k), file[Min(Reaching(file, z))].arg)

StandsAt(file, k, block) ==
    k + Len(block) - 1 <= Len(file) /\ SubSeq(file, k, k + Len(block) - 1) = block

\* Each script stands in the file once, word for word, where the first layer
\* that reaches its height is printed, and nothing else is marked as one.
ScriptsPrinted(file, points) ==
    /\ \A i \in DOMAIN points :
          LET block == Block(Script(points[i]))
          IN \E k \in DOMAIN file : /\ PrintedAt(file, k, points[i].z)
                                    /\ \A j \in DOMAIN file : StandsAt(file, j, block) <=> j = k
    /\ Cardinality({k \in DOMAIN file : IsMarker(file[k])}) = 2 * Len(points)

\* The engine pauses as often as asked, in the order of the heights asked.
PausesPrinted(file, points) ==
    LET pauses == {k \in Native(file) : file[k] = Pause}
        asked  == SortByHeight(points)
    IN /\ Cardinality(pauses) = Len(asked)
       /\ \A k \in pauses :
             PrintedAt(file, k, asked[Cardinality({j \in pauses : j <= k})].z)

\* No two actions of a plate with scripts wait for the same layer.
OneActionPerLayer(file, heights) ==
    \A y, z \in heights :
        file[Min(Reaching(file, y))].arg = file[Min(Reaching(file, z))].arg => y = z
=============================================================================
