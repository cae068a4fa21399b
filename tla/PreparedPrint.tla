--------------------------- MODULE PreparedPrint ---------------------------
(***************************************************************************)
(* One claim from its validation to its manifest: the objects are painted  *)
(* and packaged (src/src/plate.js), the engine runs in profiled phases     *)
(* (engine.js, bambu-engine.js, execution-profile.js), what it printed is  *)
(* read back, and only then is there something to publish (runClaim of     *)
(* worker.js, manifest.js).                                                *)
(*                                                                         *)
(* The native converter and the native engine may return anything.  When   *)
(* a run is aborted, and what the API answers, is module SlicerRun's; here *)
(* they are reasons for a step to fail.                                    *)
(***************************************************************************)
EXTENDS PreparationContract, SupportPaint, GeometryPackage, GcodeEvidence, GcodeLines

CONSTANTS Claims,          \* what the API may offer
          Documents,       \* the normalized source of each file
          Stls,            \* the facets of each file
          Conversions(_),  \* what the native converter may make of a mesh
          Lines(_),        \* what the native engine may print for a claim
          LineEnds(_, _),  \* how it may end the lines of a claim's file, the
                           \* last one perhaps not at all
          MaxChunk,        \* bound: characters of a chunk of the stream
          MaxCutLines,     \* bound: lines of a file that is read in several chunks
          MaxLines,        \* bound: lines of a file with layer actions
          MaxPlainLines    \* bound: lines of any other file

ASSUME PrintAssumption ==
    /\ MaxLines \in Nat /\ MaxPlainLines \in Nat /\ MaxChunk \in Nat \ {0}
    /\ MaxCutLines \in Nat

HasActions(c) == c.plate.pauses # <<>> \/ c.plate.scripts # <<>>

LineLimit(c) == IF HasActions(c) THEN MaxLines ELSE MaxPlainLines

\* A native engine may end its lines in any way, the last one perhaps not at
\* all; a line that only a CR ends is not found among layer actions, which
\* the contract frees of CRs and the engines print with line feeds.
ASSUME LineEndsAssumption ==
    /\ CR # LF
    /\ \A c \in Claims :
         /\ Lines(c) \cap {CR, LF} = {}
         /\ \A n \in 1..LineLimit(c) : \A ends \in LineEnds(c, n) :
              /\ ends \in [1..n -> {<<>>, <<LF>>, <<CR, LF>>, <<CR>>}]
              /\ HasActions(c) =>
                   \A i \in 1..n : \/ ends[i] \in {<<LF>>, <<CR, LF>>}
                                   \/ i = n /\ ends[i] = <<>>

\* The facets of an STL and what a mesh is read into are numbers, and what
\* was matched as a record of a paint is a facet and digits.
ASSUME PaintsAssumption ==
    LET facets == [v : [1..3 -> Int], paint : Paints]
    IN /\ \A file \in DOMAIN Stls : Stls[file] \in Seq([1..3 -> Int])
       /\ \A c \in Claims :
            /\ c.plate.objects \in Seq(ToSet(c.plate.objects))
            /\ \A object \in ToSet(c.plate.objects) :
                 IsPainted(object) =>
                   /\ object.paint.data \in Seq([facet : Nat, tree : Paints])
                   /\ object.file \in DOMAIN Stls /\ CanPaint(Stls[object.file], object.paint) =>
                        \A mesh \in Conversions(Painted(Stls[object.file], object.paint)) :
                          mesh.vertices \in Seq(Int) /\ mesh.triangles \in Seq(facets)

\* What is normalized is read as a document, and neither an object nor a
\* modifier of it is mirrored where it is placed.
ASSUME PlacesAssumption ==
    /\ \A file \in DOMAIN Documents : IsDocument(Documents[file])
    /\ \A c \in Claims : \A object \in ToSet(c.plate.objects) :
         /\ Unmirrored(object.transform)
         /\ object.modifiers \in Seq(ToSet(object.modifiers))
         /\ \A modifier \in ToSet(object.modifiers) : Unmirrored(modifier.m)

\* Layer actions come in lists, their heights are numbers, and no script has
\* the identity null; a plate without the fields of the contract has none.
ASSUME PointsAssumption ==
    \A c \in Claims :
      LET pauses == c.plate.pauses
          scripts == c.plate.scripts
      IN /\ pauses \in Seq(ToSet(pauses)) /\ scripts \in Seq(ToSet(scripts))
         /\ \A point \in ToSet(pauses) \cup ToSet(scripts) : point.z \in Int
         /\ Nobody \notin Ids(scripts)
         /\ c.plate.declared \/ ~HasActions(c)
         /\ \A line \in Lines(c) : line = Line(line.kind, line.arg)

VARIABLES
    claim,
    pc,          \* claimed, preparing, engine, compiling, publishing, done or failed
    sources,     \* the normalized document of every object so far
    meshes,      \* for every painted object: the native mesh that was accepted
    package,     \* what the engine is given
    step,        \* of the engine's Steps
    completed,   \* completedPhases of the profile
    failedPhase, \* failedPhase of the profile
    logged,      \* slicer_engine_profile events
    printed,        \* the printed lines read so far
    reading,     \* what the readers made of them
    stream,      \* the text of the file, and how far the compiler has read it
    manifest

vars == <<claim, pc, sources, meshes, package, step, completed, failedPhase, logged,
          printed, reading, stream, manifest>>
inputVars   == <<sources, meshes, package>>
profileVars == <<step, completed, failedPhase, logged>>
fileVars    == <<printed, reading, stream>>

None == "none"

Objects == claim.plate.objects
Bambu   == claim.engine = "bambu"

Init ==
    /\ claim \in Claims /\ pc = "claimed"
    /\ sources = <<>> /\ meshes = <<>> /\ package = <<>>
    /\ step = 0 /\ completed = <<>> /\ failedPhase = None /\ logged = <<>>
    /\ printed = <<>> /\ manifest = <<>> /\ stream = [text |-> <<>>, at |-> 0, read |-> Unread]
    /\ reading = [summary |-> InspectionBegins, pauses |-> PausesBegin, scripts |-> ScriptsBegin]

-----------------------------------------------------------------------------
(* profileExecutionPhase, logEngineProfile.                                *)

Profile == [completed |-> completed', failedPhase |-> failedPhase']

\* Mutant: engineProfileLogged is not looked at.
LogAlways(outcome) ==
    logged' = IF step = 0 THEN logged
              ELSE Append(logged, [outcome |-> outcome, profile |-> Profile])

Log(outcome) ==
    logged' = IF step = 0 \/ logged # <<>> THEN logged
              ELSE Append(logged, [outcome |-> outcome, profile |-> Profile])

\* What the engine adapters do between their phases.
Outside == {"configuration", "inputs", "statistics"}

Steps(engine) ==
    IF engine = "bambu"
    THEN <<"configuration", "presetPreparation", "machineProjectPreparation",
           "slicingProgress", "affinitySetup", "nativeSubprocess", "validationProgress",
           "archiveValidation", "gcodeInspection", "statistics", "layerEventValidation">>
    ELSE <<"inputs", "presetPreparation", "slicingProgress", "affinitySetup",
           "nativeSubprocess", "validationProgress", "headerCanonicalization",
           "gcodeInspection", "statistics", "layerEventValidation">>

Now  == Steps(claim.engine)[step]
LastStep == Len(Steps(claim.engine))

Completes ==
    /\ completed' = IF Now \in Outside THEN completed ELSE Append(completed, Now)
    /\ UNCHANGED failedPhase

\* The catch block of runClaim.
Throw ==
    /\ pc' = "failed"
    /\ failedPhase' = IF pc = "engine" /\ Now \notin Outside THEN Now ELSE failedPhase
    /\ UNCHANGED completed
    /\ Log("failed")
    /\ UNCHANGED <<claim, step, inputVars, fileVars, manifest>>

-----------------------------------------------------------------------------
(* validateClaim, materializePlateInputs.                                  *)

Validate ==
    /\ pc = "claimed"
    /\ IF ClaimValid(claim)
       THEN pc' = "preparing" /\ UNCHANGED <<claim, inputVars, profileVars, fileVars, manifest>>
       ELSE Throw

Object == Objects[Len(sources) + 1]

Sliced(doc) == /\ sources' = Append(sources, doc)
               /\ UNCHANGED <<claim, pc, package, profileVars, fileVars, manifest>>

\* The native mesh of the next object.
Accepted(mesh) ==
    LET next == Len(sources) + 1
    IN meshes' = [i \in DOMAIN meshes \cup {next} |-> IF i = next THEN mesh ELSE meshes[i]]

PrepareObject ==
    /\ pc = "preparing" /\ Len(sources) < Len(Objects) /\ ~IsPainted(Object)
    /\ Object.file \in DOMAIN Documents
    /\ Sliced(Documents[Object.file]) /\ UNCHANGED meshes

\* Objects that share file and paint share the painted source.
SharePaint ==
    /\ pc = "preparing" /\ Len(sources) < Len(Objects) /\ IsPainted(Object)
    /\ \E i \in DOMAIN meshes :
         /\ SourceKey(Objects[i]) = SourceKey(Object)
         /\ Sliced(sources[i])
         /\ Accepted(meshes[i])

PaintObject ==
    /\ pc = "preparing" /\ Len(sources) < Len(Objects) /\ IsPainted(Object)
    /\ \A i \in DOMAIN meshes : SourceKey(Objects[i]) # SourceKey(Object)
    /\ Object.file \in DOMAIN Stls
    /\ LET stl == Stls[Object.file]
           before == Painted(stl, Object.paint)
       IN /\ CanPaint(stl, Object.paint)
          /\ \E after \in Conversions(before) :
               /\ Roundtrip(before, after)
               /\ Sliced(DocumentOf(after))
               /\ Accepted(after)

Combined == Bambu \/ HasAdvanced(claim.plate)

\* A whole package, or one file per object; a pause needs the printer's own
\* command.  The engine's profile begins here.
Package ==
    /\ pc = "preparing" /\ Len(sources) = Len(Objects)
    /\ \/ /\ Combined
          /\ claim.plate.pauses # <<>> => claim.pauseCommand
          /\ LET plate == BuildAdvanced(Bambu, claim.plate, sources)
             IN plate.ok /\ package' = [plate |-> plate, events |-> Events(claim.plate)]
       \/ /\ ~Combined
          /\ LET files == [i \in DOMAIN sources |-> BuildTransformed(Objects[i], sources[i])]
             IN (\A i \in DOMAIN files : files[i].ok) /\ package' = [files |-> files]
    /\ pc' = "engine" /\ step' = 1
    /\ UNCHANGED <<claim, sources, meshes, completed, failedPhase, logged, fileVars, manifest>>

-----------------------------------------------------------------------------
(* runSlicerEngine, runBambuEngine and layerEventValidation.               *)

\* Every phase but the last; the file is there after nativeSubprocess.
EngineStep ==
    /\ pc = "engine" /\ step < LastStep
    /\ Completes /\ step' = step + 1
    /\ UNCHANGED <<claim, pc, inputVars, logged, fileVars, manifest>>

\* The file does not change, so one line is read by all its readers at once;
\* the summary was complete two phases earlier.
ReadLine ==
    /\ pc = "engine" /\ step = LastStep /\ Len(printed) < LineLimit(claim)
    /\ \E line \in Lines(claim) :
         LET scripts == IF claim.plate.scripts = <<>> THEN reading.scripts
                        ELSE ReadScript(reading.scripts, line, claim.plate.scripts)
         IN IF scripts.ok
            THEN /\ printed' = Append(printed, line)
                 /\ reading' = [summary |-> Inspect(reading.summary, line),
                                pauses  |-> ReadPause(reading.pauses, line),
                                scripts |-> scripts]
                 /\ UNCHANGED <<claim, pc, inputVars, profileVars, stream, manifest>>
            ELSE Throw

\* The texts that hold the printed lines.
Characters == [i \in DOMAIN printed |-> IF printed[i] = Blank THEN <<>> ELSE <<printed[i]>>]

Texts ==
    LET text(ends) == FlattenSeq([i \in DOMAIN printed |-> Characters[i] \o ends[i]])
    IN {t \in {text(ends) : ends \in LineEnds(claim, Len(printed))} : Readline(t) = Characters}

EndOfFile ==
    /\ pc = "engine" /\ step = LastStep /\ printed # <<>>
    /\ IF /\ ScriptsVerified(reading.scripts, claim.plate.scripts, claim.plate.pauses)
          /\ PausesVerified(reading.pauses, claim.plate.pauses)
       THEN /\ Completes /\ Log("completed")
            /\ step' = step + 1 /\ pc' = "compiling"
            /\ \E text \in Texts : stream' = [stream EXCEPT !.text = text]
            /\ UNCHANGED <<claim, inputVars, printed, reading, manifest>>
       ELSE Throw

\* compileProductionToolpath reads the next chunk of the file.
CompileChunk ==
    /\ pc = "compiling"
    /\ \E n \in IF Len(printed) > MaxCutLines THEN {Len(stream.text)} ELSE 0..MaxChunk :
         /\ stream.at + n <= Len(stream.text)
         /\ stream' = [stream EXCEPT !.at = @ + n,
                                     !.read = ReadChunk(@, SubSeq(stream.text, stream.at + 1,
                                                                 stream.at + n))]
    /\ UNCHANGED <<claim, pc, inputVars, profileVars, printed, reading, manifest>>

\* The preview is complete and the manifest written.
Manifest ==
    /\ pc = "compiling" /\ stream.at = Len(stream.text)
    /\ manifest' = [gcode |-> printed, layerCount |-> reading.summary.layerCount]
    /\ pc' = "publishing"
    /\ UNCHANGED <<claim, inputVars, profileVars, fileVars>>

Publish ==
    /\ pc = "publishing" /\ pc' = "done"
    /\ UNCHANGED <<claim, inputVars, profileVars, fileVars, manifest>>

\* A guard above that does not hold, a native failure, a timeout, an abort,
\* a limit, a missing file: any step may throw instead.  The readers of the
\* file do not wait, so that nothing else happens between two of its lines.
Fails == pc \notin {"done", "failed"} /\ (pc = "engine" => printed = <<>>) /\ Throw

Next == \/ Validate \/ PrepareObject \/ SharePaint \/ PaintObject \/ Package
        \/ EngineStep \/ ReadLine \/ EndOfFile \/ CompileChunk \/ Manifest \/ Publish \/ Fails

Spec == Init /\ [][Next]_vars

-----------------------------------------------------------------------------
\* "No geometric epsilon, nearest-facet remapping, repair or paint loss is
\* allowed": whatever the native converter returns, a painted object that is
\* accepted has every facet of its source, once, where it was, with the paint
\* that was asked for it.
PaintSurvives ==
    \A i \in DOMAIN meshes : Survives(Stls[Objects[i].file], Objects[i].paint, meshes[i])

\* The package means the plate: following its numbers, ranges and matrices,
\* every placement has the geometry, the paint, the modifiers and the
\* settings of its own object, whichever meshes linked instances share.
PlacementsAreOwn ==
    pc = "engine" /\ step = 1 =>
      \A k \in DOMAIN Objects :
        LET object == Objects[k]
            asked == AskedParts(object, sources[k], ~Bambu \/ IsPainted(object))
        IN IF Combined
           THEN LET plate == package.plate
                IN /\ Len(plate.items) = Len(Objects)
                   /\ Cardinality({r.id : r \in ToSet(plate.resources)}) = Len(plate.resources)
                   /\ RecordOf(plate, k).overrides = object.overrides
                   /\ asked = IF Bambu THEN FoundBambu(plate, k) ELSE FoundPrusa(plate, k)
           ELSE LET own == package.files[k]
                IN /\ FlattenSource(sources[k], Identity).ok =>
                         asked = <<Part(Built(own.resources, own.items), FALSE, {})>>
                   /\ \A id \in DOMAIN own.overrides : own.overrides[id] = object.overrides
                   /\ object.overrides # {} => DOMAIN own.overrides = MeshIds(sources[k])

\* A file that is accepted does at every height what was asked for it, where
\* its own lines stand, and the summary counts the same layers.
AcceptedPrintsAsAsked ==
    pc \in {"compiling", "publishing", "done"} =>
      LET plate == claim.plate
      IN /\ plate.scripts # <<>> =>
              /\ ScriptsPrinted(printed, plate.scripts)
              /\ OneActionPerLayer(printed, Heights(plate.scripts) \cup Heights(plate.pauses))
         /\ plate.pauses # <<>> => PausesPrinted(printed, plate.pauses)
         /\ manifest # <<>> => manifest.layerCount = Cardinality(NativeLayers(manifest.gcode))

\* "CR, LF, split CRLF, empty lines and unterminated final lines retain the
\* original line numbering": wherever the stream is cut, the preview is made
\* from the lines that the summary counted, and, if it has layer actions, that
\* their readers found in the whole text.
ReadersCountTheSameLines ==
    pc = "publishing" =>
      /\ Batches(stream.read) = Characters
      /\ HasActions(claim) => LinesOfText(stream.text) = Characters

\* The phases among the first n steps.
Phases(steps, n) ==
    LET phases[k \in 0..Len(steps)] ==
          IF k = 0 THEN <<>>
          ELSE IF steps[k] \in Outside THEN phases[k - 1]
          ELSE Append(phases[k - 1], steps[k])
    IN phases[n]

Finished == Phases(Steps(claim.engine), step - 1)

\* "One event is emitted when engine validation succeeds, or with partial
\* phase evidence when it fails. Later publication failures do not emit a
\* duplicate engine event": one per run that reached its engine, and it tells
\* which phases ended and which one threw.
OneTrueProfile ==
    /\ (pc = "failed" /\ step > 0) \/ pc \in {"compiling", "publishing", "done"} =>
         LET event == logged[1]
         IN /\ Len(logged) = 1
            /\ event.outcome = IF step > LastStep THEN "completed" ELSE "failed"
            /\ event.profile.completed = Finished
            /\ event.profile.failedPhase = IF step <= LastStep /\ Now \notin Outside
                                           THEN Now ELSE None
    /\ pc \in {"claimed", "preparing", "engine"} \/ step = 0 => logged = <<>>
=============================================================================
