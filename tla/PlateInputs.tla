---------------------------- MODULE PlateInputs ----------------------------
(***************************************************************************)
(* What the native engine is given to slice (src/src/plate.js,             *)
(* materializePlateInputs and normalizedSource): every source model is     *)
(* converted, or taken from the normalization cache; every painted object  *)
(* is converted once more with its paint; every object is written to the   *)
(* run directory, all within the byte limits of the worker.                *)
(*                                                                         *)
(* Geometry is left out: normalized bytes are the file and the paint they  *)
(* were made from, and whether the paint survived the native conversion.   *)
(* What the cache does with what it is given is module NormalizationCache. *)
(***************************************************************************)
EXTENDS Naturals, Sequences, Functions

CONSTANTS Models,        \* the project files of the snapshot, in order
          Paints,        \* what an object's supports may be painted with
          NoPaint,
          Size,          \* the bytes of each file once normalized
          MaximumNormalizedModelBytes,
          MaximumTotalNormalizedBytes,
          MaximumPlateInputBytes,
          MaxObjects,    \* bound: objects on the plate
          MaxInput,      \* bound: bytes of one generated input
          MaxRuns        \* bound: runs in one process

Files == Range(Models)
Key   == [file : Files, paint : Paints \cup {NoPaint}]
Bytes == [file : Files, paint : Paints \cup {NoPaint}, faithful : BOOLEAN]

ASSUME ModelsAssumption ==
    /\ Models \in Seq(Files) /\ Models # <<>>
    /\ \A i, j \in DOMAIN Models : Models[i] = Models[j] => i = j
    /\ NoPaint \notin Paints

ASSUME LimitsAssumption ==
    /\ Size \in [Files -> Nat]
    /\ MaximumTotalNormalizedBytes \in Nat /\ MaximumPlateInputBytes \in Nat
    /\ MaxInput \in Nat /\ MaxRuns \in Nat \ {0}

VARIABLES
    run,        \* the runs of the process so far
    objects,    \* what the plate of this run holds: <<[file, paint], ...>>
    combined,   \* advanced or Bambu: one package holds them all
    pc,         \* models, objects, lookup, converting, done or failed
    index,      \* the loop's
    want,       \* the identity normalizedSource was called for
    sources,    \* sourceByProjectFileId
    painted,    \* paintedSources
    total,      \* totalNormalizedBytes
    plateTotal, \* totalPlateInputBytes
    result,     \* the inputs, in order
    aborted,    \* the job's signal
    retained    \* the cache: <<[key, bytes], ...>> as a set

vars == <<run, objects, combined, pc, index, want, sources, painted, total, plateTotal,
          result, aborted, retained>>
jobVars   == <<run, objects, combined>>
loopVars  == <<index, result, plateTotal>>
bytesVars == <<sources, painted, total>>

Plates == UNION {[1..n -> Key] : n \in 1..MaxObjects}

TypeOK ==
    /\ run \in 1..MaxRuns /\ objects \in Plates /\ combined \in BOOLEAN
    /\ pc \in {"models", "objects", "lookup", "converting", "done", "failed"}
    /\ index \in 1..(Len(Models) + Len(objects) + 1)
    /\ want \in Key
    /\ DOMAIN sources \subseteq Files /\ Range(sources) \subseteq Bytes
    /\ DOMAIN painted \subseteq Key /\ Range(painted) \subseteq Bytes
    /\ total \in 0..MaximumTotalNormalizedBytes
    /\ plateTotal \in 0..MaximumPlateInputBytes
    /\ Range(result) \subseteq Bytes /\ Len(result) <= Len(objects)
    /\ aborted \in BOOLEAN
    /\ retained \subseteq [key : Key, bytes : Bytes]

FirstKey == [file |-> Models[1], paint |-> NoPaint]

Init ==
    /\ run = 1 /\ objects \in Plates /\ combined \in BOOLEAN
    /\ pc = "models" /\ index = 1 /\ want = FirstKey
    /\ sources = <<>> /\ painted = <<>> /\ total = 0 /\ plateTotal = 0
    /\ result = <<>> /\ aborted = FALSE /\ retained = {}

Fail == pc' = "failed" /\ UNCHANGED <<jobVars, loopVars, want, bytesVars, aborted>>

-----------------------------------------------------------------------------
(* normalizedSource.                                                       *)

Call(key) == pc' = "lookup" /\ want' = key

FitsTotal(size) == total + size <= MaximumTotalNormalizedBytes

\* Mutant: painted bytes are not counted.
CountedSourcesOnly(size) == total' = IF want.paint = NoPaint THEN total + size ELSE total

Counted(size) == total' = total + size

\* Mutant: what was painted is found again by its file only.
PaintedKeyOfFile(o) == [o EXCEPT !.paint = CHOOSE p \in Paints : TRUE]

PaintedKey(o) == o

\* Map.set.
Set(m, k, b) == [x \in DOMAIN m \cup {k} |-> IF x = k THEN b ELSE m[x]]

\* The loop of the caller goes on with the bytes: that of the models with
\* the next one, that of the objects with the object that asked for them.
Return(b) ==
    /\ FitsTotal(Size[b.file]) /\ Counted(Size[b.file])
    /\ IF want.paint = NoPaint
       THEN /\ sources' = Set(sources, want.file, b)
            /\ index' = index + 1 /\ pc' = "models" /\ UNCHANGED painted
       ELSE /\ painted' = Set(painted, PaintedKey(want), b)
            /\ pc' = "objects" /\ UNCHANGED <<sources, index>>
    /\ UNCHANGED <<jobVars, want, result, plateTotal, aborted>>

ReturnOrFail(b) == Return(b) \/ (~FitsTotal(Size[b.file]) /\ Fail)

\* Mutant: what comes back is kept before it is compared with what was sent.
AcceptableUnchecked(b) == ~aborted /\ Size[b.file] <= MaximumNormalizedModelBytes

\* One model's own limit, the round trip of the paint, and the signal.
Acceptable(b) ==
    /\ ~aborted
    /\ Size[b.file] <= MaximumNormalizedModelBytes
    /\ want.paint # NoPaint => b.faithful /\ b.file = want.file /\ b.paint = want.paint

\* A hit is checked like a conversion, and returned in the same turn.
Reuse ==
    /\ pc = "lookup" /\ ~aborted
    /\ \E e \in retained : /\ e.key = want
                           /\ IF Acceptable(e.bytes) THEN ReturnOrFail(e.bytes) ELSE Fail
    /\ UNCHANGED retained

Convert ==
    /\ pc = "lookup"
    /\ IF aborted THEN Fail
       ELSE /\ \A e \in retained : e.key # want
            /\ pc' = "converting"
            /\ UNCHANGED <<jobVars, loopVars, want, bytesVars, aborted>>
    /\ UNCHANGED retained

\* The child has ended and its output was read. Put comes before the sum is
\* tested; the cache need not keep what it is given.
Converted ==
    /\ pc = "converting"
    /\ \E faithful \in {TRUE, want.paint = NoPaint} :
         LET b == [file |-> want.file, paint |-> want.paint, faithful |-> faithful]
         IN IF Acceptable(b)
            THEN /\ retained' \in {retained, retained \cup {[key |-> want, bytes |-> b]}}
                 /\ ReturnOrFail(b)
            ELSE Fail /\ UNCHANGED retained

-----------------------------------------------------------------------------
(* materializePlateInputs.                                                 *)

\* The update is sent and the source read back before the cache is asked.
NextModel ==
    /\ pc = "models" /\ index <= Len(Models)
    /\ Call([file |-> Models[index], paint |-> NoPaint])
    /\ UNCHANGED <<jobVars, loopVars, bytesVars, aborted, retained>>

ModelsDone ==
    /\ pc = "models" /\ index > Len(Models)
    /\ pc' = "objects" /\ index' = 1
    /\ UNCHANGED <<jobVars, want, bytesVars, result, plateTotal, aborted, retained>>

Unpainted == objects[index].paint # NoPaint /\ PaintedKey(objects[index]) \notin DOMAIN painted

\* The paint is written into a copy of the downloaded source.
Paint ==
    /\ pc = "objects" /\ index <= Len(objects) /\ Unpainted
    /\ Call(objects[index])
    /\ UNCHANGED <<jobVars, loopVars, bytesVars, aborted, retained>>

SourceOf(o) == IF o.paint = NoPaint THEN sources[o.file] ELSE painted[PaintedKey(o)]

\* A combined package is limited as a whole when it is built; inputs of
\* their own are limited by their sum.
AddObject ==
    /\ pc = "objects" /\ index <= Len(objects) /\ ~Unpainted
    /\ \/ combined /\ UNCHANGED plateTotal
       \/ ~combined /\ \E size \in 1..MaxInput : plateTotal' = plateTotal + size
    /\ plateTotal' <= MaximumPlateInputBytes
    /\ result' = Append(result, SourceOf(objects[index])) /\ index' = index + 1
    /\ UNCHANGED <<jobVars, pc, want, bytesVars, aborted, retained>>

ObjectsDone ==
    /\ pc = "objects" /\ index > Len(objects)
    /\ pc' = "done"
    /\ UNCHANGED <<jobVars, loopVars, want, bytesVars, aborted, retained>>

\* What the data left out decides: the contract of the plate, an update that
\* is refused, a source that changed, a native failure, a missing source, an
\* unplaced object, a malformed 3MF, inputs that are too large, a full disk.
Refused == pc \notin {"done", "failed"} /\ Fail /\ UNCHANGED retained

Abort ==
    /\ ~aborted /\ pc \notin {"done", "failed"}
    /\ aborted' = TRUE
    /\ UNCHANGED <<jobVars, pc, loopVars, want, bytesVars, retained>>

\* An entry expires or is evicted.
CacheForgets ==
    /\ \E e \in retained : retained' = retained \ {e}
    /\ UNCHANGED <<jobVars, pc, loopVars, want, bytesVars, aborted>>

\* The next run of the process finds the cache as this one left it.
NextRun ==
    /\ pc \in {"done", "failed"} /\ run < MaxRuns
    /\ run' = run + 1 /\ objects' \in Plates /\ combined' \in BOOLEAN
    /\ pc' = "models" /\ index' = 1 /\ want' = FirstKey
    /\ sources' = <<>> /\ painted' = <<>> /\ total' = 0 /\ plateTotal' = 0
    /\ result' = <<>> /\ aborted' = FALSE
    /\ UNCHANGED retained

Next == \/ NextModel \/ ModelsDone \/ Reuse \/ Convert \/ Converted \/ Paint
        \/ AddObject \/ ObjectsDone \/ Refused \/ Abort \/ CacheForgets \/ NextRun

Spec == Init /\ [][Next]_vars

-----------------------------------------------------------------------------
\* The engine slices the plate that was asked for: one input per object, in
\* the plate's order, each from its own file with its own paint, which came
\* through the conversion - wherever the bytes were taken from.
PreparedAsAsked ==
    pc = "done" =>
        /\ Len(result) = Len(objects)
        /\ \A k \in DOMAIN objects :
              result[k] = [file |-> objects[k].file, paint |-> objects[k].paint, faithful |-> TRUE]

\* "Each run must still download its authorized source": the cache never
\* keeps bytes for another identity, nor any that failed their round trip,
\* so that a run that failed leaves nothing a later one could trust.
ReuseIsFaithful ==
    \A e \in retained : e.bytes = [file |-> e.key.file, paint |-> e.key.paint, faithful |-> TRUE]

\* The normalized bytes a run holds are the bytes it counts, each once: its
\* limit bounds what is in memory at every await, painted copies included.
MemoryIsCounted ==
    total = SumFunction([f \in DOMAIN sources |-> Size[f]])
            + SumFunction([k \in DOMAIN painted |-> Size[k.file]])
=============================================================================
