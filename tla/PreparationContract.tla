------------------------ MODULE PreparationContract ------------------------
(***************************************************************************)
(* What a claim may ask for before anything is downloaded                  *)
(* (src/src/preparation-contract.js, and validateClaim of                  *)
(* src/src/worker.js): pauses, custom G-code and modifiers, and the        *)
(* capability each of them needs.                                          *)
(*                                                                         *)
(* A script is a sequence of lines, so that what trimming removes and what *)
(* a reader of the printed file can mistake it for are both visible.  The  *)
(* settings of a modifier are names; their ranges are left out.            *)
(***************************************************************************)
EXTENDS Integers, FiniteSets, SequencesExt

CONSTANTS MaxPoints,              \* FDM_PREPARATION_LIMITS.pausePoints
          MaxModifiersPerObject,
          MaxModifiersPerPlate,
          MaxScript, MaxScripts,  \* GCODE_SCRIPT_LIMITS, in lines
          Settings,               \* FDM_MODIFIER_SETTING_KEYS
          ShellThickness,         \* the one of them only Bambu knows
          MaxModel, MaxModels     \* maximumModelBytes, maximumTotalModelBytes

ASSUME ContractAssumption ==
    /\ {MaxPoints, MaxModifiersPerObject, MaxModifiersPerPlate, MaxScript, MaxScripts,
        MaxModel, MaxModels} \subseteq Nat
    /\ ShellThickness \in Settings

\* A line of a script or of a printed file: what the readers can take it for
\* and the height or the script it names.
Line(kind, arg) == [kind |-> kind, arg |-> arg]
Blank   == Line("blank", 0)
Pause   == Line("pause", 0)
Layer(z) == Line("layer", z)
Begin(id) == Line("begin", id)
End(id)   == Line("end", id)

IsMarker(line) == line.kind \in {"begin", "end"}

\* String.trim, on lines.
Trim(gcode) ==
    LET solid == {i \in DOMAIN gcode : gcode[i] # Blank}
    IN IF solid = {} THEN <<>> ELSE SubSeq(gcode, Min(solid), Max(solid))

Unique(points) ==
    \A i, j \in DOMAIN points :
        i # j => points[i].id # points[j].id /\ points[i].z # points[j].z

\* No two are at one height: the k-th is the one with k up to its own.
SortByHeight(points) ==
    LET all == ToSet(points)
    IN [k \in DOMAIN points |-> CHOOSE p \in all : Cardinality({q \in all : q.z <= p.z}) = k]

Total(f) == FoldFunction(+, 0, f)

-----------------------------------------------------------------------------
(* normalizeFdmPausePoints, normalizeFdmCustomGcodePoints.                 *)

PausesValid(points) ==
    /\ Len(points) <= MaxPoints /\ Unique(points)
    /\ \A i \in DOMAIN points : points[i].z > 0

Pauses(points) == SortByHeight(points)

ScriptValid(gcode) ==
    /\ Trim(gcode) # <<>> /\ Len(gcode) <= MaxScript
    /\ \A i \in DOMAIN gcode : ~IsMarker(gcode[i])

Script(point) == [id |-> point.id, z |-> point.z, gcode |-> Trim(point.gcode)]

Scripts(points) == SortByHeight([i \in DOMAIN points |-> Script(points[i])])

ScriptsValid(points) ==
    /\ Len(points) <= MaxPoints /\ Unique(points)
    /\ \A i \in DOMAIN points : points[i].z > 0 /\ ScriptValid(points[i].gcode)
    /\ Total([i \in DOMAIN points |-> Len(Trim(points[i].gcode))]) <= MaxScripts

\* What stands in the printed file for a script.
Block(point) == <<Begin(point.id)>> \o point.gcode \o <<End(point.id)>>

-----------------------------------------------------------------------------
(* normalizeFdmModifiers, assertFdmPlatePreparation.                       *)

ModifiersValid(modifiers) ==
    /\ Len(modifiers) <= MaxModifiersPerObject
    /\ \A i, j \in DOMAIN modifiers : i # j => modifiers[i].id # modifiers[j].id
    /\ \A i \in DOMAIN modifiers : modifiers[i].settings \in SUBSET Settings \ {{}}

Ids(points)     == {points[i].id : i \in DOMAIN points}
Heights(points) == {points[i].z : i \in DOMAIN points}

ModifierCount(objects) == Total([i \in DOMAIN objects |-> Len(objects[i].modifiers)])

PlateValid(plate) ==
    /\ plate.height > 0
    /\ PausesValid(plate.pauses) /\ ScriptsValid(plate.scripts)
    /\ \A z \in Heights(plate.pauses) \cup Heights(plate.scripts) : z <= plate.height
    /\ Ids(plate.pauses) \cap Ids(plate.scripts) = {}
    /\ Len(plate.pauses) + Len(plate.scripts) <= MaxPoints
    /\ Heights(plate.pauses) \cap Heights(plate.scripts) = {}
    /\ \A i \in DOMAIN plate.objects : ModifiersValid(plate.objects[i].modifiers)
    /\ ModifierCount(plate.objects) <= MaxModifiersPerPlate

HasAdvanced(plate) ==
    \/ plate.pauses # <<>> \/ plate.scripts # <<>>
    \/ \E i \in DOMAIN plate.objects : plate.objects[i].modifiers # <<>>

-----------------------------------------------------------------------------
(* validateClaim.                                                          *)

IsPainted(object) == object.paint.data # <<>>

\* A capability revision is named for the engine whose current one it is.
\* Plates of older projects lack the fields of the contract altogether.
ClaimValid(c) ==
    /\ c.engine = "bambu" => c.capability = "bambu"
    /\ c.plate.declared =>
         PlateValid(c.plate) /\ (HasAdvanced(c.plate) => c.capability = c.engine)
    /\ \A i \in DOMAIN c.plate.objects :
         LET object == c.plate.objects[i]
         IN /\ object.overrides # {} => c.capability = "prusa"
            /\ IsPainted(object) => /\ c.capability = c.engine
                                    /\ c.engine = "bambu" => c.enableSupport
    /\ c.sizes # <<>> /\ c.plate.objects # <<>>
    /\ \A i \in DOMAIN c.sizes : c.sizes[i] \in 1..MaxModel
    /\ Total(c.sizes) <= MaxModels
=============================================================================
