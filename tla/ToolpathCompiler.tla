-------------------------- MODULE ToolpathCompiler --------------------------
(***************************************************************************)
(* The production toolpath compiler (src/src/toolpath.js): G-code lines in, *)
(* fixed-size records out, cut into chunks of the records file as they     *)
(* come and into layers as the engine's comments announce them, one index  *)
(* over the other.                                                         *)
(*                                                                         *)
(* A record is its place in the file and the layer it was given; the       *)
(* geometry, the speeds, the tools and the modal state (G90, M83, G92)     *)
(* that produce its other fields are left out.                             *)
(***************************************************************************)
EXTENDS Naturals, Sequences

CONSTANTS ChunkRecords,    \* PRODUCTION_TOOLPATH_CHUNK_RECORDS
          MaximumRecords,  \* records that fit maximumBytes
          Features,        \* the native features, "custom" among them
          NoLayer,         \* cur outside of any layer
          MaxMarkers       \* bound: layer changes in the file

ASSUME LimitsAssumption ==
    /\ ChunkRecords \in Nat \ {0} /\ MaximumRecords \in Nat /\ MaxMarkers \in Nat
    /\ "custom" \in Features
    /\ NoLayer \notin [index : Nat, first : Nat, count : Nat, z : BOOLEAN, height : BOOLEAN]

VARIABLES
    dialect,      \* whose comments the lines are written in
    pc,           \* reading, writing, assemble, done or failed
    ended,        \* the end of the G-code was reached
    \* comment state
    inBlock,      \* inside a custom layer script
    skipped,      \* inside a Bambu firmware block
    wiping,       \* between WIPE_START and WIPE_END
    feature,      \* currentFeature
    before,       \* featureBeforeLayerGcode
    width,        \* whether a positive line width is known
    height,       \* whether a positive layer height is known
    \* records
    recordCount,
    buffer,       \* chunkBuffer: overwritten in place, chunk after chunk
    chunk,        \* [count, first, firstLayer, lastLayer] of the open chunk
    written,      \* records of the open chunk that reached the file
    disk,         \* the records file
    chunks,       \* <<[first, count, firstLayer, lastLayer], ...>>
    layers,       \* <<[first, count], ...>>
    cur,          \* currentLayer
    \* history
    markers,      \* layer changes counted by inspectGcode
    native        \* the feature last announced by the engine itself

vars == <<dialect, pc, ended, inBlock, skipped, wiping, feature, before, width, height,
          recordCount, buffer, chunk, written, disk, chunks, layers, cur, markers, native>>
blockVars   == <<inBlock, feature, before, native>>
commentVars == <<skipped, wiping, width, height>>
fileVars    == <<recordCount, buffer, chunk, written, disk, chunks>>
layerVars   == <<layers, cur>>

Record == [n : 0..MaximumRecords, layer : 0..MaximumRecords]
Layer  == [index : 0..MaximumRecords, first : 0..MaximumRecords, count : 0..MaximumRecords,
           z : BOOLEAN, height : BOOLEAN]

TypeOK ==
    /\ dialect \in {"prusa", "bambu"}
    /\ pc \in {"reading", "writing", "assemble", "done", "failed"}
    /\ ended \in BOOLEAN /\ inBlock \in BOOLEAN /\ skipped \in BOOLEAN
    /\ wiping \in BOOLEAN /\ width \in BOOLEAN /\ height \in BOOLEAN
    /\ {feature, before, native} \subseteq Features \cup {"unknown"}
    /\ recordCount \in 0..MaximumRecords
    /\ buffer \in [0..(ChunkRecords - 1) -> Record]
    /\ chunk \in [count : 0..ChunkRecords, first : 0..MaximumRecords,
                  firstLayer : 0..MaximumRecords, lastLayer : 0..MaximumRecords]
    /\ written \in 0..chunk.count
    /\ disk \in Seq(Record)
    /\ chunks \in Seq([first : 0..MaximumRecords, count : 1..ChunkRecords,
                       firstLayer : 0..MaximumRecords, lastLayer : 0..MaximumRecords])
    /\ layers \in Seq([first : 0..MaximumRecords, count : 1..MaximumRecords])
    /\ cur \in Layer \cup {NoLayer}
    /\ markers \in 0..MaxMarkers

\* chunkBuffer is not initialised: what it holds is nobody's record.
Init ==
    /\ dialect \in {"prusa", "bambu"} /\ pc = "reading" /\ ended = FALSE
    /\ inBlock = FALSE /\ skipped = FALSE /\ wiping = FALSE
    /\ feature = "unknown" /\ before = "unknown" /\ native = "unknown"
    /\ width = FALSE /\ height = FALSE
    /\ recordCount = 0 /\ written = 0
    /\ buffer = [i \in 0..(ChunkRecords - 1) |-> [n |-> MaximumRecords, layer |-> 0]]
    /\ chunk = [count |-> 0, first |-> 0, firstLayer |-> 0, lastLayer |-> 0]
    /\ disk = <<>> /\ chunks = <<>> /\ layers = <<>> /\ cur = NoLayer
    /\ markers = 0

\* An error leaves the compiler: nothing it has built is used.
Fail == /\ pc' = "failed"
        /\ UNCHANGED <<dialect, ended, blockVars, commentVars, fileVars, layerVars, markers>>

-----------------------------------------------------------------------------
(* Comments.                                                               *)

\* Mutant: comments of a custom script are taken for the engine's.
HeardAnywhere == pc = "reading" /\ ~skipped

\* createLayerGcodeCommentScope consumes the comments of a custom script,
\* the firmware block every line.
Heard == pc = "reading" /\ ~inBlock /\ ~skipped

BlockBegins ==
    /\ pc = "reading" /\ ~inBlock  \* a BEGIN inside a block changes nothing
    /\ inBlock' = TRUE /\ before' = feature /\ feature' = "custom"
    /\ UNCHANGED <<dialect, pc, ended, native, commentVars, fileVars, layerVars, markers>>

BlockEnds ==
    /\ pc = "reading" /\ inBlock
    /\ inBlock' = FALSE /\ feature' = before
    /\ UNCHANGED <<dialect, pc, ended, before, native, commentVars, fileVars, layerVars, markers>>

FirmwareBlock ==
    /\ pc = "reading" /\ dialect = "bambu" /\ ~inBlock
    /\ \/ ~skipped /\ skipped' = TRUE
       \/ skipped /\ skipped' = FALSE
    /\ UNCHANGED <<dialect, pc, ended, blockVars, wiping, width, height, fileVars, layerVars, markers>>

NestedFirmwareBlock ==
    /\ pc = "reading" /\ dialect = "bambu" /\ ~inBlock /\ skipped
    /\ Fail

\* inspectGcode knows neither firmware blocks nor dialects: it counts a layer
\* comment of a skipped block and one of the other engine's.
UnheardLayerChange ==
    /\ pc = "reading" /\ ~inBlock /\ markers < MaxMarkers
    /\ markers' = markers + 1
    /\ UNCHANGED <<dialect, pc, ended, blockVars, commentVars, fileVars, layerVars>>

Wipe ==
    /\ Heard
    /\ wiping' \in BOOLEAN
    /\ UNCHANGED <<dialect, pc, ended, blockVars, skipped, width, height, fileVars, layerVars, markers>>

LineWidth ==
    /\ Heard
    /\ width' \in BOOLEAN
    /\ UNCHANGED <<dialect, pc, ended, blockVars, skipped, wiping, height, fileVars, layerVars, markers>>

IsEmpty == cur = NoLayer \/ cur.count = 0

\* finalizeLayer: a layer without records is dropped, one without evidence
\* of its height is an error.
LacksEvidence == ~IsEmpty /\ ~(cur.z /\ cur.height)

Finalized == IF IsEmpty THEN layers
             ELSE Append(layers, [first |-> cur.first, count |-> cur.count])

\* Mutant: layers are numbered by their comments.
NewLayerCounted == [index |-> markers, first |-> recordCount, count |-> 0, z |-> FALSE, height |-> FALSE]

NewLayer == [index |-> Len(Finalized), first |-> recordCount, count |-> 0, z |-> FALSE, height |-> FALSE]

LayerChange ==
    /\ Heard /\ markers < MaxMarkers /\ ~LacksEvidence
    /\ layers' = Finalized
    /\ cur' = NewLayer
    /\ markers' = markers + 1
    /\ UNCHANGED <<dialect, pc, ended, blockVars, commentVars, fileVars>>

\* Z, then HEIGHT, which extrusions of later layers go on using.
LayerZ ==
    /\ Heard /\ cur # NoLayer
    /\ cur' = [cur EXCEPT !.z = TRUE]
    /\ UNCHANGED <<dialect, pc, ended, blockVars, commentVars, fileVars, layers, markers>>

LayerHeight ==
    /\ Heard /\ cur # NoLayer
    /\ \E positive \in BOOLEAN : /\ cur' = [cur EXCEPT !.height = positive]
                                 /\ height' = positive
    /\ UNCHANGED <<dialect, pc, ended, blockVars, skipped, wiping, width, fileVars, layers, markers>>

\* A Bambu file leaves its layer with the engine's own custom feature.
Feature(f) ==
    /\ Heard
    /\ feature' = f /\ native' = f
    /\ IF dialect = "bambu" /\ f = "custom" /\ cur # NoLayer
       THEN ~LacksEvidence /\ layers' = Finalized /\ cur' = NoLayer
       ELSE UNCHANGED layerVars
    /\ UNCHANGED <<dialect, pc, ended, inBlock, before, commentVars, fileVars, markers>>

\* A layer that ends without evidence of its height.
UnfinishedLayer == Heard /\ LacksEvidence /\ Fail

-----------------------------------------------------------------------------
(* Commands and records.                                                   *)

\* Mutant: the chunk keeps the first layer of the one before it.
OpenedStale == [chunk EXCEPT !.first = IF chunk.count = 0 THEN recordCount ELSE @]

\* The first record of a chunk says where it begins.
Opened == IF chunk.count = 0
          THEN [chunk EXCEPT !.first = recordCount, !.firstLayer = cur.index]
          ELSE chunk

\* appendRecord; a full chunk is awaited before the next line is read.
AppendRecord ==
    IF recordCount + 1 > MaximumRecords THEN Fail
    ELSE /\ buffer' = [buffer EXCEPT ![chunk.count] = [n |-> recordCount, layer |-> cur.index]]
         /\ chunk' = [Opened EXCEPT !.count = chunk.count + 1, !.lastLayer = cur.index]
         /\ recordCount' = recordCount + 1
         /\ cur' = [cur EXCEPT !.count = cur.count + 1]
         /\ pc' = IF chunk.count + 1 = ChunkRecords THEN "writing" ELSE "reading"
         /\ UNCHANGED <<dialect, ended, blockVars, commentVars, written, disk, chunks, layers, markers>>

Commanded == pc = "reading" /\ ~skipped

\* Firmware retraction, travel, retraction, a wipe, and every chord of an arc.
Move == Commanded /\ cur # NoLayer /\ AppendRecord

Extrude ==
    /\ Commanded /\ cur # NoLayer
    /\ IF wiping \/ (width /\ height) THEN AppendRecord ELSE Fail

\* Inches; in a layer: no feed rate, and what no dialect was reviewed for.
Unsupported == Commanded /\ Fail

\* flushChunk: each write puts down some of the chunk, or nothing and fails;
\* writeFully writes what is left until nothing is.
Write ==
    /\ pc = "writing"
    /\ \/ Fail
       \/ \E count \in 1..(chunk.count - written) :
            /\ disk' = disk \o [i \in 1..count |-> buffer[written + i - 1]]
            /\ IF written + count = chunk.count
               THEN /\ chunks' = Append(chunks, [first |-> chunk.first, count |-> chunk.count,
                                                 firstLayer |-> chunk.firstLayer,
                                                 lastLayer |-> chunk.lastLayer])
                    /\ chunk' = [chunk EXCEPT !.count = 0, !.first = recordCount]
                    /\ written' = 0
                    /\ pc' = IF ended THEN "assemble" ELSE "reading"
               ELSE written' = written + count /\ UNCHANGED <<chunks, chunk, pc>>
            /\ UNCHANGED <<dialect, ended, blockVars, commentVars, recordCount, buffer, layerVars, markers>>

EndOfFile ==
    /\ pc = "reading"
    /\ IF skipped \/ LacksEvidence THEN Fail
       ELSE /\ ended' = TRUE
            /\ layers' = Finalized
            /\ cur' = IF IsEmpty THEN cur ELSE NoLayer
            /\ pc' = IF chunk.count = 0 THEN "assemble" ELSE "writing"
            /\ UNCHANGED <<dialect, blockVars, commentVars, fileVars, markers>>

\* The layers must be those the summary counted; then header and records
\* are put together, unless they are too large.
Assemble ==
    /\ pc = "assemble"
    /\ \/ /\ recordCount > 0 /\ layers # <<>> /\ markers = Len(layers)
          /\ pc' = "done"
          /\ UNCHANGED <<dialect, ended, blockVars, commentVars, fileVars, layerVars, markers>>
       \/ Fail

Next ==
    \/ BlockBegins \/ BlockEnds \/ FirmwareBlock \/ NestedFirmwareBlock \/ UnheardLayerChange
    \/ Wipe \/ LineWidth \/ LayerChange \/ LayerZ \/ LayerHeight
    \/ \E f \in Features : Feature(f)
    \/ UnfinishedLayer \/ Move \/ Extrude \/ Unsupported
    \/ Write \/ EndOfFile \/ Assemble

Spec == Init /\ [][Next]_vars

-----------------------------------------------------------------------------
\* The records file as it will be: what was written, then what is still in
\* the buffer.
RecordAt(i) == IF i < Len(disk) THEN disk[i + 1] ELSE buffer[written + i - Len(disk)]

\* Where the layers that are finished end.
Covered == IF layers = <<>> THEN 0 ELSE layers[Len(layers)].first + layers[Len(layers)].count

\* "layers do not reconcile": the layers partition the records, in order and
\* without a gap, and every record names the layer it lies in - whatever
\* empty layers, firmware blocks and chunk boundaries there were between.
LayersPartition ==
    /\ \A k \in DOMAIN layers :
          /\ layers[k].first = IF k = 1 THEN 0 ELSE layers[k - 1].first + layers[k - 1].count
          /\ \A i \in layers[k].first..(layers[k].first + layers[k].count - 1) :
                RecordAt(i).layer = k - 1
    /\ cur # NoLayer /\ pc # "failed" => cur.index = Len(layers) /\ cur.first = Covered
    /\ pc = "done" => Covered = recordCount

\* "The chunk index lets future clients range-fetch independently": a chunk
\* holds the records it says, in the order they were made, of the layers it
\* says, and all chunks but the last are full; short writes lose nothing.
ChunksIndexFile ==
    /\ \A i \in DOMAIN disk : disk[i].n = i - 1
    /\ \A k \in DOMAIN chunks :
          LET c == chunks[k]
          IN /\ c.first = (k - 1) * ChunkRecords
             /\ k < Len(chunks) => c.count = ChunkRecords
             /\ c.firstLayer = disk[c.first + 1].layer
             /\ c.lastLayer = disk[c.first + c.count].layer
    /\ pc = "done" => Len(disk) = recordCount /\ Len(chunks) * ChunkRecords >= recordCount

\* "User comments are not native ... feature ... evidence": a script never
\* changes the feature of the engine's own moves after it, and its own moves
\* are of the custom feature only.
FeatureIsNative ==
    IF inBlock THEN feature = "custom" /\ before = native ELSE feature = native
=============================================================================
