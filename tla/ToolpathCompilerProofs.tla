----------------------- MODULE ToolpathCompilerProofs -----------------------
(* The layers and the chunks of a preview index the same records, for      *)
(* every chunk size, every limit and every order of comments and moves.    *)
EXTENDS ToolpathCompiler, SequenceTheorems, TLAPS

\* Nothing is lost between the buffer and the file, and the buffer is empty
\* once the file is complete.
Counting ==
    /\ Len(disk) + chunk.count = recordCount + written /\ written <= Len(disk)
    /\ pc = "reading" => written = 0 /\ chunk.count < ChunkRecords /\ ~ended
    /\ pc = "writing" => written < chunk.count /\ (~ended => chunk.count = ChunkRecords)
    /\ pc \in {"assemble", "done"} => ended /\ chunk.count = 0
    /\ ended => IsEmpty

\* A record that was made is in its place, on disk or still in the buffer.
Numbered == \A i \in 0..(recordCount - 1) : RecordAt(i).n = i

\* The open chunk holds the last records.
OpenChunk ==
    chunk.count > 0 =>
      /\ chunk.first = recordCount - chunk.count
      /\ chunk.firstLayer = RecordAt(chunk.first).layer
      /\ chunk.lastLayer = RecordAt(recordCount - 1).layer

Chunked == recordCount - chunk.count   \* records of the chunks that are closed

ClosedChunk(k) ==
    LET c == chunks[k]
    IN /\ c.first = (k - 1) * ChunkRecords /\ c.first >= 0
       /\ c.first + c.count <= Chunked
       /\ c.firstLayer = RecordAt(c.first).layer
       /\ c.lastLayer = RecordAt(c.first + c.count - 1).layer
       /\ k < Len(chunks) => c.count = ChunkRecords

\* Only the end of the file closes a chunk that is not full.
ClosedChunks ==
    /\ \A k \in DOMAIN chunks : ClosedChunk(k)
    /\ Chunked <= Len(chunks) * ChunkRecords
    /\ ~ended \/ chunk.count > 0 =>
          /\ Chunked = Len(chunks) * ChunkRecords
          /\ \A k \in DOMAIN chunks : chunks[k].count = ChunkRecords

ClosedLayer(k) ==
    LET l == layers[k]
    IN /\ l.first = IF k = 1 THEN 0 ELSE layers[k - 1].first + layers[k - 1].count
       /\ l.first + l.count <= recordCount
       /\ \A i \in l.first..(l.first + l.count - 1) : RecordAt(i).layer = k - 1

\* The open layer begins where the last one ends and reaches to the end.
OpenLayer ==
    IF cur = NoLayer THEN Covered = recordCount
    ELSE /\ cur.index = Len(layers) /\ cur.first = Covered
         /\ cur.first + cur.count = recordCount
         /\ \A i \in cur.first..(recordCount - 1) : RecordAt(i).layer = cur.index

ClosedLayers == (\A k \in DOMAIN layers : ClosedLayer(k)) /\ Len(layers) <= Covered

IInv == /\ TypeOK /\ Counting /\ Numbered /\ OpenChunk /\ ClosedChunks
        /\ ClosedLayers /\ OpenLayer /\ FeatureIsNative

-----------------------------------------------------------------------------

ClosedChunkType == [first : 0..MaximumRecords, count : 1..ChunkRecords,
                    firstLayer : 0..MaximumRecords, lastLayer : 0..MaximumRecords]
ClosedLayerType == [first : 0..MaximumRecords, count : 1..MaximumRecords]

\* What the assumptions say of the limits; no layer is not a layer.
LEMMA Limits == /\ ChunkRecords \in Nat /\ ChunkRecords >= 1 /\ MaximumRecords \in Nat
                /\ MaxMarkers \in Nat /\ "custom" \in Features /\ NoLayer \notin Layer
  <1>1. Layer \subseteq [index : Nat, first : Nat, count : Nat, z : BOOLEAN, height : BOOLEAN]
    BY LimitsAssumption, SMT DEF LimitsAssumption, Layer
  <1> QED BY <1>1, LimitsAssumption, SMT DEF LimitsAssumption

\* One more chunk of the same size.
LEMMA OneMore == \A a, b \in Nat : (a + 1) * b = a * b + b
  BY SMT

\* A write of n records: l are on disk, w of them of a chunk of c, r in all.
LEMMA WriteCounts ==
  ASSUME NEW l \in Nat, NEW w \in Nat, NEW c \in Nat, NEW r \in Nat, NEW n \in 1..(c - w),
         l + c = r + w, w <= l
  PROVE  /\ (l + n) + c = r + (w + n) /\ w + n <= l + n /\ w + n \in 0..c
         /\ w + n # c => w + n < c
         /\ w + n = c => l + n + 0 = r + 0 /\ 0 <= l + n
  BY SMT

\* What the types say of one component at a time.
LEMMA Typed ==
  ASSUME TypeOK
  PROVE  /\ recordCount \in Nat /\ recordCount <= MaximumRecords
         /\ chunk.count \in Nat /\ chunk.count <= ChunkRecords
         /\ written \in Nat /\ written <= chunk.count
         /\ disk \in Seq(Record) /\ Len(disk) \in Nat
         /\ chunks \in Seq(ClosedChunkType) /\ Len(chunks) \in Nat
         /\ layers \in Seq(ClosedLayerType) /\ Len(layers) \in Nat
         /\ DOMAIN chunks = 1..Len(chunks) /\ DOMAIN layers = 1..Len(layers)
         /\ cur # NoLayer => cur \in Layer
  <1> USE Limits DEF TypeOK, ClosedChunkType, ClosedLayerType
  <1>1. recordCount \in Nat /\ recordCount <= MaximumRecords
    BY SMT
  <1>2. /\ chunk.count \in Nat /\ chunk.count <= ChunkRecords
        /\ written \in Nat /\ written <= chunk.count
    BY SMT
  <1> QED BY <1>1, <1>2, SMT

-----------------------------------------------------------------------------
(* Every step leaves the records that were made where they are.            *)

Kept == /\ recordCount' \in Nat /\ recordCount <= recordCount'
        /\ \A i \in 0..(recordCount - 1) : RecordAt(i)' = RecordAt(i)

\* Who does not touch the records keeps them.
LEMMA UnchangedKeeps ==
  ASSUME IInv, UNCHANGED fileVars
  PROVE  Kept
  <1>1. recordCount \in Nat
    BY Typed DEF IInv
  <1> QED BY <1>1, SMT DEF fileVars, Kept, RecordAt

\* A step of appendRecord that does not throw.
Appends == /\ pc = "reading" /\ cur # NoLayer /\ recordCount + 1 <= MaximumRecords
           /\ AppendRecord

\* appendRecord puts the new record behind all others and moves none.
LEMMA AppendKeeps ==
  ASSUME IInv, Appends
  PROVE  /\ Kept
         /\ recordCount' = recordCount + 1
         /\ \A i \in Nat : i = recordCount => RecordAt(i)' = [n |-> recordCount, layer |-> cur.index]
  <1> USE Typed, Limits DEF IInv
  <1>1. /\ recordCount \in Nat /\ chunk.count \in 0..(ChunkRecords - 1) /\ written = 0
        /\ Len(disk) + chunk.count = recordCount /\ Len(disk) \in Nat
    BY SMT DEF Counting, Appends
  <1>2. /\ recordCount' = recordCount + 1 /\ disk' = disk /\ written' = written
        /\ buffer' = [buffer EXCEPT ![chunk.count] = [n |-> recordCount, layer |-> cur.index]]
    BY SMT DEF Appends, AppendRecord, blockVars, commentVars
  <1>3. DOMAIN buffer = 0..(ChunkRecords - 1)
    BY DEF TypeOK
  <1>4. ASSUME NEW i \in 0..(recordCount - 1)
        PROVE  RecordAt(i)' = RecordAt(i)
    <2>1. CASE i < Len(disk)
      BY <2>1, <1>2, SMT DEF RecordAt
    <2>2. CASE i >= Len(disk)
      <3>1. i - Len(disk) \in 0..(ChunkRecords - 1) /\ i - Len(disk) # chunk.count
        BY <2>2, <1>1, SMT
      <3>2. buffer'[i - Len(disk)] = buffer[i - Len(disk)]
        BY <3>1, <1>2, <1>3
      <3>3. written + i - Len(disk) = i - Len(disk)
        BY <1>1, SMT
      <3> QED BY <2>2, <3>2, <3>3, <1>1, <1>2, SMT DEF RecordAt
    <2> QED BY <2>1, <2>2, <1>1, SMT
  <1>5. ASSUME NEW i \in Nat, i = recordCount
        PROVE  RecordAt(i)' = [n |-> recordCount, layer |-> cur.index]
    <2>1. ~(i < Len(disk)) /\ written + i - Len(disk) = chunk.count
      BY <1>1, <1>5, SMT
    <2>2. buffer'[chunk.count] = [n |-> recordCount, layer |-> cur.index]
      BY <1>1, <1>2, <1>3
    <2> QED BY <1>5, <2>1, <2>2, <1>2, SMT DEF RecordAt
  <1> QED BY <1>1, <1>2, <1>4, <1>5, SMT DEF Kept

\* A write that put down count records of the chunk.
Wrote(count) ==
    /\ pc = "writing" /\ count \in 1..(chunk.count - written)
    /\ disk' = disk \o [i \in 1..count |-> buffer[written + i - 1]]
    /\ IF written + count = chunk.count
       THEN /\ chunks' = Append(chunks, [first |-> chunk.first, count |-> chunk.count,
                                         firstLayer |-> chunk.firstLayer,
                                         lastLayer |-> chunk.lastLayer])
            /\ chunk' = [chunk EXCEPT !.count = 0, !.first = recordCount]
            /\ written' = 0
            /\ pc' = IF ended THEN "assemble" ELSE "reading"
       ELSE written' = written + count /\ UNCHANGED <<chunks, chunk, pc>>
    /\ UNCHANGED <<dialect, ended, blockVars, commentVars, recordCount, buffer, layerVars, markers>>

\* flushChunk moves records from the buffer to the same place in the file.
LEMMA WriteKeeps ==
  ASSUME IInv, NEW count, Wrote(count)
  PROVE  /\ Kept /\ disk' \in Seq(Record) /\ Len(disk') = Len(disk) + count
  <1> USE Typed, Limits DEF IInv
  <1> DEFINE s == [i \in 1..count |-> buffer[written + i - 1]]
  <1>1. /\ recordCount \in Nat /\ chunk.count \in 1..ChunkRecords /\ written \in Nat
        /\ Len(disk) + chunk.count = recordCount + written /\ Len(disk) \in Nat
        /\ count \in 1..(chunk.count - written) /\ count \in Nat
    BY SMT DEF Counting, Wrote
  <1>2. \A i \in 1..count : written + i - 1 \in 0..(ChunkRecords - 1)
    BY <1>1, SMT
  <1>3. \A i \in 1..count : buffer[written + i - 1] \in Record
    BY <1>2 DEF TypeOK
  <1>4. /\ s \in Seq(Record) /\ Len(s) = count
        /\ \A i \in 1..count : s[i] = buffer[written + i - 1]
    BY <1>1, <1>3, SMT
  <1>5. disk \in Seq(Record) /\ disk' = disk \o s
    BY DEF Wrote
  <1> HIDE DEF s
  <1>6. disk' \in Seq(Record) /\ Len(disk') = Len(disk) + count
    BY <1>4, <1>5, ConcatProperties
  <1>7. /\ \A i \in 1..Len(disk) : disk'[i] = disk[i]
        /\ \A i \in 1..count : disk'[Len(disk) + i] = buffer[written + i - 1]
    BY <1>1, <1>4, <1>5, SMTT(30)
  <1>8. recordCount' = recordCount /\ buffer' = buffer
    BY DEF Wrote
  <1>9. ASSUME NEW i \in 0..(recordCount - 1)
        PROVE  RecordAt(i)' = RecordAt(i)
    <2>1. CASE i < Len(disk)
      BY <2>1, <1>1, <1>6, <1>7, SMT DEF RecordAt
    <2>2. CASE i >= Len(disk) /\ i < Len(disk) + count
      <3>1. i + 1 - Len(disk) \in 1..count
        BY <2>2, <1>1, SMT
      <3>2. disk'[Len(disk) + (i + 1 - Len(disk))] = buffer[written + (i + 1 - Len(disk)) - 1]
        BY <3>1, <1>7
      <3>3. Len(disk) + (i + 1 - Len(disk)) = i + 1 
            /\ written + (i + 1 - Len(disk)) - 1 = written + i - Len(disk)
        BY <1>1, SMT
      <3> QED BY <2>2, <3>2, <3>3, <1>1, <1>6, SMT DEF RecordAt
    <2>3. CASE i >= Len(disk) + count
      <3>1. written' = written + count
        BY <2>3, <1>1, SMTT(30) DEF Wrote
      <3>2. written' + i - Len(disk') = written + i - Len(disk)
        BY <3>1, <1>1, <1>6, SMT
      <3> QED BY <2>3, <3>2, <1>1, <1>6, <1>8, SMT DEF RecordAt
    <2> QED BY <2>1, <2>2, <2>3, <1>1, SMT
  <1> QED BY <1>1, <1>6, <1>8, <1>9, SMT DEF Kept

-----------------------------------------------------------------------------
(* What is said of the chunks.                                             *)

\* Records that stay in their places keep their numbers.
LEMMA NumberedKept ==
  ASSUME IInv, Kept, recordCount' = recordCount
  PROVE  Numbered'
  BY SMT DEF IInv, Numbered, Kept

\* Writing does not change what the open chunk is about.
LEMMA OpenChunkKept ==
  ASSUME IInv, Kept, recordCount' = recordCount, chunk' = chunk
  PROVE  OpenChunk'
  <1> SUFFICES ASSUME chunk.count > 0
               PROVE  OpenChunk'
    BY DEF OpenChunk
  <1>1. /\ recordCount \in Nat /\ chunk.count \in Nat /\ chunk.count <= recordCount
        /\ Len(disk) \in Nat
    BY Typed, SMT DEF IInv, Counting
  <1>2. chunk.first \in 0..(recordCount - 1) /\ recordCount - 1 \in 0..(recordCount - 1)
    BY <1>1, SMT DEF IInv, OpenChunk
  <1>3. \A i \in 0..(recordCount - 1) : RecordAt(i)' = RecordAt(i)
    BY DEF Kept
  <1>4. /\ \A i : i = chunk.first => RecordAt(i)' = RecordAt(i)
        /\ \A i : i = recordCount - 1 => RecordAt(i)' = RecordAt(i)
    BY <1>2, <1>3
  <1>5. /\ chunk.first = recordCount - chunk.count
        /\ chunk.firstLayer = RecordAt(chunk.first).layer
        /\ chunk.lastLayer = RecordAt(recordCount - 1).layer
    BY DEF IInv, OpenChunk
  <1> QED BY <1>4, <1>5, SMT DEF OpenChunk, RecordAt

\* Records in the buffer or in a half-written chunk do not concern the rest.
LEMMA ClosedChunksKept ==
  ASSUME IInv, Kept, chunks' = chunks, Chunked' = Chunked,
         ~ended' \/ chunk'.count > 0 => ~ended \/ chunk.count > 0
  PROVE  ClosedChunks'
  <1> USE Typed, Limits DEF IInv
  <1>1. /\ recordCount \in Nat /\ chunk.count \in Nat /\ DOMAIN chunks = 1..Len(chunks)
        /\ chunks \in Seq(ClosedChunkType) /\ Chunked <= recordCount /\ Chunked \in Int
    BY SMT DEF Chunked
  <1>2. ASSUME NEW k \in DOMAIN chunks
        PROVE  ClosedChunk(k)'
    <2>1. chunks[k] \in ClosedChunkType
      BY <1>1, ElementOfSeq
    <2>2. chunks[k].first \in Nat /\ chunks[k].count \in Nat /\ chunks[k].count >= 1
      BY <2>1, SMT DEF ClosedChunkType
    <2>3. ClosedChunk(k)
      BY DEF ClosedChunks
    <2>4. /\ chunks[k].first \in 0..(recordCount - 1)
          /\ chunks[k].first + chunks[k].count - 1 \in 0..(recordCount - 1)
      <3>1. chunks[k].first >= 0 /\ chunks[k].first + chunks[k].count <= Chunked
        BY <2>3 DEF ClosedChunk
      <3> QED BY <3>1, <1>1, <2>2, SMTT(30)
    <2>5. /\ \A i : i = chunks[k].first => RecordAt(i)' = RecordAt(i)
          /\ \A i : i = chunks[k].first + chunks[k].count - 1 => RecordAt(i)' = RecordAt(i)
      BY <2>4 DEF Kept
    <2>6. RecordAt(chunks[k].first)' = RecordAt(chunks[k].first)
      BY <2>5 DEF RecordAt
    <2>7. RecordAt(chunks[k].first + chunks[k].count - 1)'
            = RecordAt(chunks[k].first + chunks[k].count - 1)
      BY <2>5 DEF RecordAt
    <2> QED BY <2>3, <2>6, <2>7, SMT DEF ClosedChunk
  <1> QED BY <1>2, SMT DEF ClosedChunks

\* A new record joins the open chunk, or begins one.
LEMMA OpenChunkGrows ==
  ASSUME IInv, Appends
  PROVE  OpenChunk' /\ chunk'.count = chunk.count + 1 /\ chunk'.lastLayer = cur.index
         /\ chunk'.first \in {chunk.first, recordCount}
         /\ chunk'.firstLayer \in {chunk.firstLayer, cur.index}
  <1> USE Typed, Limits DEF IInv
  <1>1. /\ recordCount \in Nat /\ chunk.count \in Nat /\ chunk.count <= recordCount
        /\ Len(disk) \in Nat
    BY SMT DEF Counting, Appends
  <1>2. chunk \in [count : 0..ChunkRecords, first : 0..MaximumRecords,
                   firstLayer : 0..MaximumRecords, lastLayer : 0..MaximumRecords]
    BY DEF TypeOK
  <1>3. chunk' = [Opened EXCEPT !.count = chunk.count + 1, !.lastLayer = cur.index]
    BY SMT DEF Appends, AppendRecord
  <1>4. /\ chunk'.count = chunk.count + 1 /\ chunk'.lastLayer = cur.index
        /\ chunk'.first = IF chunk.count = 0 THEN recordCount ELSE chunk.first
        /\ chunk'.firstLayer = IF chunk.count = 0 THEN cur.index ELSE chunk.firstLayer
    <2>1. CASE chunk.count = 0
      BY <2>1, <1>2, <1>3, SMT DEF Opened
    <2>2. CASE chunk.count # 0
      BY <2>2, <1>2, <1>3, SMT DEF Opened
    <2> QED BY <2>1, <2>2
  <1>5. /\ recordCount' = recordCount + 1
        /\ \A i \in 0..(recordCount - 1) : RecordAt(i)' = RecordAt(i)
        /\ \A i \in Nat : i = recordCount => RecordAt(i)' = [n |-> recordCount, layer |-> cur.index]
    BY AppendKeeps DEF Kept
  <1>6. \A i : i = recordCount' - 1 => RecordAt(i)'.layer = cur.index
    BY <1>1, <1>5, SMT
  <1>7. RecordAt(recordCount - 1)'.layer = cur.index
    BY <1>6 DEF RecordAt
  <1>8. \A i : i = chunk'.first => RecordAt(i)'.layer = chunk'.firstLayer
    <2>1. CASE chunk.count = 0
      BY <2>1, <1>1, <1>4, <1>5, SMT
    <2>2. CASE chunk.count # 0
      <3>1. /\ chunk.first = recordCount - chunk.count
            /\ chunk.firstLayer = RecordAt(chunk.first).layer
        BY <2>2, <1>1, SMT DEF OpenChunk
      <3>2. chunk.first \in 0..(recordCount - 1)
        BY <3>1, <2>2, <1>1, SMT
      <3> QED BY <3>1, <3>2, <2>2, <1>4, <1>5
    <2> QED BY <2>1, <2>2
  <1>9. RecordAt(chunk.first)'.layer = chunk'.firstLayer
    BY <1>8 DEF RecordAt
  <1>10. chunk'.first = recordCount' - chunk'.count
    <2>1. chunk.count # 0 => chunk.first = recordCount - chunk.count
      BY <1>1, SMT DEF OpenChunk
    <2>2. recordCount' = recordCount + 1
      BY <1>5
    <2>3. CASE chunk.count = 0
      BY <2>2, <2>3, <1>1, <1>4, SMT
    <2>4. CASE chunk.count # 0
      <3>1. chunk'.first = chunk.first /\ chunk'.count = chunk.count + 1
        BY <2>4, <1>4
      <3>2. chunk.first = recordCount - chunk.count
        BY <2>1, <2>4
      <3>3. recordCount - chunk.count = (recordCount + 1) - (chunk.count + 1)
        BY <1>1, SMTT(30)
      <3> QED BY <2>2, <3>1, <3>2, <3>3
    <2> QED BY <2>3, <2>4
  <1> QED BY <1>4, <1>7, <1>9, <1>10, SMT DEF OpenChunk

\* The last write of a chunk closes it.
LEMMA ChunkCloses ==
  ASSUME IInv, NEW count, Wrote(count), written + count = chunk.count
  PROVE  ClosedChunks' /\ chunks' \in Seq(ClosedChunkType)
  <1>1. /\ recordCount \in Nat /\ chunk.count \in 1..ChunkRecords /\ written \in Nat
        /\ DOMAIN chunks = 1..Len(chunks) /\ Len(chunks) \in Nat
        /\ chunks \in Seq(ClosedChunkType) /\ chunk.count <= recordCount
        /\ ~ended => chunk.count = ChunkRecords
    <2>1. /\ recordCount \in Nat /\ chunk.count \in Nat /\ chunk.count <= ChunkRecords
          /\ written \in Nat /\ Len(disk) \in Nat
          /\ DOMAIN chunks = 1..Len(chunks) /\ Len(chunks) \in Nat
          /\ chunks \in Seq(ClosedChunkType)
      BY Typed DEF IInv
    <2>2. pc = "writing" /\ count \in 1..(chunk.count - written)
      BY DEF Wrote
    <2>3. /\ Len(disk) + chunk.count = recordCount + written /\ written <= Len(disk)
          /\ ~ended => chunk.count = ChunkRecords
      BY <2>2 DEF IInv, Counting
    <2>4. chunk.count >= 1 /\ chunk.count <= recordCount
      BY <2>1, <2>2, <2>3, SMT
    <2> QED BY <2>1, <2>3, <2>4, Limits, SMT
  <1> USE Typed, Limits DEF IInv
  <1> DEFINE c == [first |-> chunk.first, count |-> chunk.count,
                   firstLayer |-> chunk.firstLayer, lastLayer |-> chunk.lastLayer]
  <1>2. /\ chunks' = Append(chunks, c) /\ chunk'.count = 0
        /\ recordCount' = recordCount /\ ended' = ended
    <2>1. chunk' = [chunk EXCEPT !.count = 0, !.first = recordCount]
      BY DEF Wrote
    <2>2. chunk'.count = 0
      BY <2>1, SMT DEF TypeOK
    <2> QED BY <2>2 DEF Wrote
  <1>3. c \in ClosedChunkType
    BY <1>1, SMT DEF TypeOK, ClosedChunkType
  <1>4. /\ c.first = recordCount - chunk.count /\ c.count = chunk.count
        /\ c.firstLayer = RecordAt(c.first).layer
        /\ c.lastLayer = RecordAt(recordCount - 1).layer
        /\ Chunked = c.first
    <2>1. chunk.count > 0
      BY <1>1, SMT
    <2> QED BY <2>1, SMT DEF OpenChunk, Chunked
  <1>5. /\ Chunked = Len(chunks) * ChunkRecords
        /\ \A k \in DOMAIN chunks : chunks[k].count = ChunkRecords
    BY <1>1, SMT DEF ClosedChunks
  <1>6. \A i \in 0..(recordCount - 1) : RecordAt(i)' = RecordAt(i)
    BY WriteKeeps DEF Kept
  <1> HIDE DEF c
  <1>7. /\ chunks' \in Seq(ClosedChunkType) /\ Len(chunks') = Len(chunks) + 1
        /\ \A i \in 1..Len(chunks) : chunks'[i] = chunks[i]
        /\ chunks'[Len(chunks) + 1] = c /\ DOMAIN chunks' = 1..(Len(chunks) + 1)
    <2>1. /\ chunks' \in Seq(ClosedChunkType) /\ Len(chunks') = Len(chunks) + 1
          /\ \A i \in 1..Len(chunks) : chunks'[i] = chunks[i]
          /\ chunks'[Len(chunks) + 1] = c
      BY <1>1, <1>2, <1>3, AppendProperties
    <2> QED BY <2>1, LenProperties
  <1>8. Chunked' = recordCount /\ Chunked <= recordCount /\ Chunked \in Nat
    BY <1>1, <1>2, SMT DEF Chunked
  <1>9. ASSUME NEW k \in 1..Len(chunks)
        PROVE  ClosedChunk(k)' /\ chunks'[k].count = ChunkRecords
    <2>1. chunks[k] \in ClosedChunkType /\ chunks'[k] = chunks[k]
      BY <1>1, <1>7, ElementOfSeq
    <2>2. chunks[k].first \in Nat /\ chunks[k].count \in Nat /\ chunks[k].count >= 1
      BY <2>1, SMT DEF ClosedChunkType
    <2>3. ClosedChunk(k)
      BY <1>1 DEF ClosedChunks
    <2>4. /\ chunks[k].first \in 0..(recordCount - 1)
          /\ chunks[k].first + chunks[k].count - 1 \in 0..(recordCount - 1)
          /\ chunks[k].first + chunks[k].count <= recordCount
      <3>1. chunks[k].first >= 0 /\ chunks[k].first + chunks[k].count <= Chunked
        BY <2>3 DEF ClosedChunk
      <3> QED BY <3>1, <1>1, <1>8, <2>2, SMTT(30)
    <2>5. /\ \A i : i = chunks'[k].first => RecordAt(i)' = RecordAt(chunks[k].first)
          /\ \A i : i = chunks'[k].first + chunks'[k].count - 1 =>
                RecordAt(i)' = RecordAt(chunks[k].first + chunks[k].count - 1)
      BY <2>1, <2>4, <1>6
    <2>6. /\ RecordAt(chunks[k].first)' = RecordAt(chunks[k].first)
          /\ RecordAt(chunks[k].first + chunks[k].count - 1)'
               = RecordAt(chunks[k].first + chunks[k].count - 1)
      BY <2>5 DEF RecordAt
    <2>7. chunks[k].count = ChunkRecords
      BY <1>1, <1>5
    <2> QED BY <2>1, <2>3, <2>4, <2>6, <2>7, <1>8, SMT DEF ClosedChunk
  <1>10. ASSUME NEW k, k = Len(chunks) + 1
         PROVE  ClosedChunk(k)'
    <2>1. chunks'[k] = c
      BY <1>7, <1>10
    <2>2. c.first \in 0..(recordCount - 1) /\ c.first + c.count - 1 = recordCount - 1
          /\ recordCount - 1 \in 0..(recordCount - 1) /\ c.first + c.count = recordCount
      BY <1>1, <1>4, SMT
    <2>3. /\ \A i : i = chunks'[k].first => RecordAt(i)' = RecordAt(c.first)
          /\ \A i : i = chunks'[k].first + chunks'[k].count - 1 =>
                RecordAt(i)' = RecordAt(recordCount - 1)
      BY <2>1, <2>2, <1>6
    <2>4. /\ RecordAt(chunks[k].first)' = RecordAt(c.first)
          /\ RecordAt(chunks[k].first + chunks[k].count - 1)' = RecordAt(recordCount - 1)
      BY <2>3 DEF RecordAt
    <2>5. k - 1 = Len(chunks) /\ ~(k < Len(chunks'))
      BY <1>10, <1>1, <1>7, SMT
    <2>6. c.first = (k - 1) * ChunkRecords
      BY <2>5, <1>4, <1>5
    <2>7. /\ c.first >= 0 /\ c.first + c.count <= Chunked'
      BY <2>2, <1>1, <1>8, SMT
    <2>8. /\ c.firstLayer = RecordAt(chunks[k].first)'.layer
          /\ c.lastLayer = RecordAt(chunks[k].first + chunks[k].count - 1)'.layer
      BY <2>4, <1>4
    <2> QED BY <2>1, <2>5, <2>6, <2>7, <2>8 DEF ClosedChunk
  <1>11. Len(chunks') * ChunkRecords = Chunked + ChunkRecords
    BY <1>1, <1>5, <1>7, OneMore
  <1>12. recordCount = Chunked + chunk.count
    BY <1>1, SMT DEF Chunked
  <1>13. \A k \in DOMAIN chunks' : ClosedChunk(k)'
    BY <1>1, <1>7, <1>9, <1>10, SMT
  <1>14. ASSUME ~ended'
         PROVE  \A k \in DOMAIN chunks' : chunks'[k].count = ChunkRecords
    BY <1>14, <1>1, <1>2, <1>4, <1>7, <1>9, SMT
  <1>15. Chunked' <= Len(chunks') * ChunkRecords
    BY <1>1, <1>8, <1>11, <1>12, SMT
  <1>16. ~ended' => Chunked' = Len(chunks') * ChunkRecords
    BY <1>1, <1>2, <1>8, <1>11, <1>12, SMT
  <1> QED BY <1>2, <1>7, <1>13, <1>14, <1>15, <1>16, SMT DEF ClosedChunks

-----------------------------------------------------------------------------
(* What is said of the layers.                                             *)

\* The closed layers reach to a record that exists.
LEMMA CoveredIsNatural ==
  ASSUME IInv
  PROVE  /\ Covered \in Nat /\ Covered <= recordCount
         /\ \A k \in DOMAIN layers : /\ layers[k].first \in Nat /\ layers[k].count \in Nat
                                     /\ layers[k].count >= 1
  <1> USE Typed, Limits DEF IInv
  <1>1. \A k \in DOMAIN layers : layers[k] \in ClosedLayerType
    BY ElementOfSeq
  <1>2. \A k \in DOMAIN layers : /\ layers[k].first \in Nat /\ layers[k].count \in Nat
                                 /\ layers[k].count >= 1
    BY <1>1, SMT DEF ClosedLayerType
  <1>3. CASE layers = <<>>
    BY <1>2, <1>3, SMT DEF Covered
  <1>4. CASE layers # <<>>
    <2>1. Len(layers) \in DOMAIN layers
      BY <1>4, EmptySeq, LenProperties, SMT
    <2>2. Covered = layers[Len(layers)].first + layers[Len(layers)].count
      BY <1>4 DEF Covered
    <2>3. layers[Len(layers)].first + layers[Len(layers)].count <= recordCount
      BY <2>1 DEF ClosedLayers, ClosedLayer
    <2> QED BY <1>2, <2>1, <2>2, <2>3, SMTT(30)
  <1> QED BY <1>3, <1>4

\* A layer that is closed keeps its records, whatever is made later.
LEMMA ClosedLayersKept ==
  ASSUME IInv, Kept, layers' = layers
  PROVE  ClosedLayers' /\ Covered' = Covered
  <1> USE Typed, Limits DEF IInv
  <1>1. Covered' = Covered
    BY DEF Covered
  <1>2. recordCount \in Nat /\ recordCount' \in Nat /\ recordCount <= recordCount'
    BY DEF Kept
  <1>3. ASSUME NEW k \in DOMAIN layers
        PROVE  ClosedLayer(k)'
    <2>1. ClosedLayer(k)
      BY DEF ClosedLayers
    <2>2. /\ layers[k].first \in Nat /\ layers[k].count \in Nat /\ layers[k].count >= 1
      BY CoveredIsNatural
    <2>3. layers[k].first + layers[k].count <= recordCount
      BY <2>1 DEF ClosedLayer
    <2>4. \A i \in layers[k].first..(layers[k].first + layers[k].count - 1) :
             RecordAt(i).layer = k - 1 /\ i \in 0..(recordCount - 1)
      <3>1. \A i \in layers[k].first..(layers[k].first + layers[k].count - 1) :
               i \in 0..(recordCount - 1)
        BY <2>2, <2>3, <1>2, SMT
      <3> QED BY <2>1, <3>1 DEF ClosedLayer
    <2>5. \A i \in layers[k].first..(layers[k].first + layers[k].count - 1) :
             RecordAt(i)'.layer = k - 1
      BY <2>4 DEF Kept
    <2>6. layers[k].first + layers[k].count <= recordCount'
      BY <1>2, <2>2, <2>3, SMT
    <2> QED BY <2>1, <2>5, <2>6 DEF ClosedLayer
  <1> QED BY <1>1, <1>3 DEF ClosedLayers

\* The open layer is the same, as far as records are concerned.
LEMMA OpenLayerKept ==
  ASSUME IInv, Kept, layers' = layers, recordCount' = recordCount,
         \/ cur = NoLayer /\ cur' = NoLayer
         \/ /\ cur # NoLayer /\ cur' # NoLayer /\ cur'.index = cur.index
            /\ cur'.first = cur.first /\ cur'.count = cur.count
  PROVE  OpenLayer'
  <1>1. Covered' = Covered
    BY DEF Covered
  <1>2. CASE cur = NoLayer
    BY <1>1, <1>2 DEF IInv, OpenLayer
  <1>3. CASE cur # NoLayer
    <2>1. /\ cur.index = Len(layers) /\ cur.first = Covered
          /\ cur.first + cur.count = recordCount
          /\ \A i \in cur.first..(recordCount - 1) : RecordAt(i).layer = cur.index
      BY <1>3 DEF IInv, OpenLayer
    <2>2. Covered \in Nat /\ recordCount \in Nat
      BY CoveredIsNatural, Typed DEF IInv
    <2>3. \A i \in cur.first..(recordCount - 1) : i \in 0..(recordCount - 1)
      BY <2>1, <2>2, SMT
    <2>4. \A i \in cur.first..(recordCount - 1) : RecordAt(i)'.layer = cur.index
      BY <2>1, <2>3 DEF Kept
    <2>5. /\ cur' # NoLayer /\ cur'.index = cur.index
          /\ cur'.first = cur.first /\ cur'.count = cur.count
      BY <1>3
    <2> QED BY <1>1, <2>1, <2>4, <2>5 DEF OpenLayer
  <1> QED BY <1>2, <1>3

\* A new record belongs to the open layer and to no other.
LEMMA OpenLayerGrows ==
  ASSUME IInv, Appends
  PROVE  /\ ClosedLayers' /\ OpenLayer'
         /\ cur' = [cur EXCEPT !.count = cur.count + 1] /\ cur' \in Layer
  <1>1. /\ cur \in Layer /\ cur # NoLayer /\ cur' = [cur EXCEPT !.count = cur.count + 1]
        /\ layers' = layers /\ recordCount + 1 <= MaximumRecords
    <2>1. cur # NoLayer /\ recordCount + 1 <= MaximumRecords
      BY DEF Appends
    <2>2. ~(recordCount + 1 > MaximumRecords)
      BY <2>1, Typed, Limits, SMT DEF IInv
    <2>3. cur' = [cur EXCEPT !.count = cur.count + 1] /\ layers' = layers
      BY <2>2 DEF Appends, AppendRecord
    <2>4. cur \in Layer
      BY <2>1, Typed DEF IInv
    <2> QED BY <2>1, <2>3, <2>4
  <1>2. /\ cur.index = Len(layers) /\ cur.first = Covered
        /\ cur.first + cur.count = recordCount
        /\ \A i \in cur.first..(recordCount - 1) : RecordAt(i).layer = cur.index
    BY <1>1 DEF IInv, OpenLayer
  <1>3. Covered \in Nat /\ recordCount \in Nat /\ cur.count \in Nat
    BY CoveredIsNatural, Typed, <1>1, SMT DEF IInv, Layer
  <1>4. /\ cur'.index = cur.index /\ cur'.first = cur.first /\ cur'.count = cur.count + 1
        /\ cur' \in Layer
    <2>1. cur.count + 1 \in 0..MaximumRecords
      BY <1>1, <1>2, <1>3, Limits, SMT
    <2>2. cur \in [index : 0..MaximumRecords, first : 0..MaximumRecords,
                   count : 0..MaximumRecords, z : BOOLEAN, height : BOOLEAN]
      BY <1>1 DEF Layer
    <2>3. /\ cur'.index = cur.index /\ cur'.first = cur.first /\ cur'.count = cur.count + 1
          /\ cur' \in [index : 0..MaximumRecords, first : 0..MaximumRecords,
                       count : 0..MaximumRecords, z : BOOLEAN, height : BOOLEAN]
      BY <2>1, <2>2, <1>1
    <2> QED BY <2>3 DEF Layer
  <1>5. /\ recordCount' = recordCount + 1
        /\ \A i \in 0..(recordCount - 1) : RecordAt(i)' = RecordAt(i)
        /\ \A i \in Nat : i = recordCount => RecordAt(i)' = [n |-> recordCount, layer |-> cur.index]
    BY AppendKeeps DEF Kept
  <1>6. ClosedLayers' /\ Covered' = Covered
    BY AppendKeeps, ClosedLayersKept, <1>1
  <1>7. ASSUME NEW i \in cur.first..recordCount
        PROVE  RecordAt(i)'.layer = cur.index
    <2>1. CASE i = recordCount
      BY <2>1, <1>3, <1>5
    <2>2. CASE i # recordCount
      <3>1. i \in cur.first..(recordCount - 1) /\ i \in 0..(recordCount - 1)
        BY <2>2, <1>2, <1>3, SMT
      <3> QED BY <3>1, <1>2, <1>5
    <2> QED BY <2>1, <2>2
  <1>8. cur'.first..(recordCount' - 1) = cur.first..recordCount
    BY <1>3, <1>4, <1>5, SMT
  <1>9. cur'.first + cur'.count = recordCount'
    BY <1>2, <1>3, <1>4, <1>5, SMT
  <1>10. cur' # NoLayer
    BY <1>4, Limits
  <1> QED BY <1>1, <1>2, <1>4, <1>6, <1>7, <1>8, <1>9, <1>10 DEF OpenLayer

\* A layer that ends with records joins the others; one without is forgotten.
LEMMA LayerCloses ==
  ASSUME IInv, UNCHANGED fileVars, layers' = Finalized
  PROVE  /\ ClosedLayers' /\ Covered' = recordCount
         /\ layers' \in Seq(ClosedLayerType) /\ Len(layers') \in 0..MaximumRecords
  <1> USE Typed, Limits DEF IInv
  <1>1. Kept /\ recordCount' = recordCount
    BY UnchangedKeeps DEF fileVars
  <1>2. Covered \in Nat /\ recordCount \in Nat /\ Covered <= recordCount
    BY CoveredIsNatural
  <1>3. Len(layers) <= Covered
    BY DEF ClosedLayers
  <1>4. CASE IsEmpty
    <2>1. layers' = layers
      BY <1>4 DEF Finalized
    <2>2. ClosedLayers' /\ Covered' = Covered
      BY <1>1, <2>1, ClosedLayersKept
    <2>3. Covered = recordCount
      <3>1. CASE cur = NoLayer
        BY <3>1 DEF OpenLayer
      <3>2. CASE cur # NoLayer /\ cur.count = 0
        BY <3>2, <1>2, SMT DEF OpenLayer
      <3> QED BY <3>1, <3>2, <1>4 DEF IsEmpty
    <2> QED BY <2>1, <2>2, <2>3, <1>2, <1>3, SMT
  <1>5. CASE ~IsEmpty
    <2> DEFINE l == [first |-> cur.first, count |-> cur.count]
               n == Len(layers) + 1
    <2>1. /\ cur \in Layer /\ cur # NoLayer /\ cur.count # 0
      BY <1>5 DEF IsEmpty
    <2>2. /\ cur.index = Len(layers) /\ cur.first = Covered
          /\ cur.first + cur.count = recordCount
          /\ \A i \in cur.first..(recordCount - 1) : RecordAt(i).layer = cur.index
      BY <2>1 DEF OpenLayer
    <2>3. cur.count \in Nat /\ cur.count >= 1 /\ l \in ClosedLayerType
      BY <2>1, SMT DEF Layer, ClosedLayerType
    <2>4. l.first = Covered /\ l.first + l.count = recordCount /\ l.count = cur.count
      BY <2>2
    <2>5. layers' = Append(layers, l)
      BY <1>5 DEF Finalized
    <2> HIDE DEF l
    <2>6. /\ layers' \in Seq(ClosedLayerType) /\ layers' # <<>> /\ Len(layers') = n
          /\ \A i \in 1..Len(layers) : layers'[i] = layers[i]
          /\ layers'[n] = l
      BY <2>3, <2>5, AppendProperties
    <2>7. DOMAIN layers' = 1..n /\ DOMAIN layers = 1..Len(layers)
      BY <2>6, LenProperties
    <2>8. Covered' = recordCount
      BY <2>4, <2>6 DEF Covered
    <2>9. ASSUME NEW k \in 1..Len(layers)
          PROVE  ClosedLayer(k)'
      <3>1. layers'[k] = layers[k] /\ (k # 1 => layers'[k - 1] = layers[k - 1])
        <4>1. k # 1 => k - 1 \in 1..Len(layers)
          BY SMT
        <4> QED BY <4>1, <2>6
      <3>2. ClosedLayer(k)
        BY <2>7 DEF ClosedLayers
      <3>3. layers[k].first \in Nat /\ layers[k].count \in Nat /\ layers[k].count >= 1
        BY CoveredIsNatural, <2>7
      <3>4. layers[k].first + layers[k].count <= recordCount
        BY <3>2 DEF ClosedLayer
      <3>5. \A i \in layers[k].first..(layers[k].first + layers[k].count - 1) :
               i \in 0..(recordCount - 1)
        BY <3>3, <3>4, <1>2, SMT
      <3>6. \A i \in layers[k].first..(layers[k].first + layers[k].count - 1) :
               RecordAt(i).layer = k - 1
        BY <3>2 DEF ClosedLayer
      <3>7. \A i \in layers[k].first..(layers[k].first + layers[k].count - 1) :
               RecordAt(i)'.layer = k - 1
        BY <1>1, <3>5, <3>6 DEF Kept
      <3> QED BY <1>1, <3>1, <3>2, <3>4, <3>7 DEF ClosedLayer
    <2>10. ASSUME NEW k, k = n
           PROVE  ClosedLayer(k)'
      <3>1. layers'[k] = l /\ k - 1 = Len(layers) /\ k \in Nat
        BY <2>6, <2>10, SMT
      <3>2. l.first = IF k = 1 THEN 0 ELSE layers'[k - 1].first + layers'[k - 1].count
        <4>1. CASE layers = <<>>
          <5>1. k = 1 /\ Covered = 0
            BY <4>1, <3>1, EmptySeq, SMT DEF Covered
          <5> QED BY <5>1, <2>4
        <4>2. CASE layers # <<>>
          <5>1. Len(layers) \in 1..Len(layers)
            BY <4>2, EmptySeq, SMT
          <5>2. Covered = layers[Len(layers)].first + layers[Len(layers)].count
            BY <4>2 DEF Covered
          <5>3. k # 1
            BY <5>1, <3>1, SMT
          <5> QED BY <5>1, <5>2, <5>3, <3>1, <2>4, <2>6
        <4> QED BY <4>1, <4>2
      <3>3. l.first + l.count <= recordCount'
        BY <1>1, <1>2, <2>4, SMT
      <3>4. \A i \in l.first..(l.first + l.count - 1) : RecordAt(i)'.layer = k - 1
        <4>1. l.first = cur.first /\ l.first + l.count = recordCount
          BY <2>2, <2>4
        <4>2. \A i \in cur.first..(recordCount - 1) : i \in 0..(recordCount - 1)
          BY <1>2, <2>2, SMT
        <4>3. \A i \in cur.first..(recordCount - 1) : RecordAt(i)'.layer = k - 1
          BY <4>2, <1>1, <2>2, <3>1 DEF Kept
        <4>4. \A i \in l.first..(l.first + l.count - 1) : i \in cur.first..(recordCount - 1)
          BY <4>1, <1>2, <2>2, <2>3, <2>4, SMT
        <4> QED BY <4>3, <4>4
      <3> QED BY <3>1, <3>2, <3>3, <3>4 DEF ClosedLayer
    <2>11. \A k \in DOMAIN layers' : ClosedLayer(k)'
      BY <2>7, <2>9, <2>10, SMT
    <2>12. Len(layers') <= Covered' /\ Len(layers') \in 0..MaximumRecords
      BY <1>2, <1>3, <2>2, <2>3, <2>6, <2>8, SMT
    <2> QED BY <2>6, <2>8, <2>11, <2>12 DEF ClosedLayers
  <1> QED BY <1>4, <1>5

-----------------------------------------------------------------------------
(* The steps, by what they do to the records.                              *)

\* The invariant holds before the first line.
LEMMA InitEstablishes == Init => IInv
  <1> SUFFICES ASSUME Init PROVE IInv
    OBVIOUS
  <1> USE Limits
  <1>1. /\ recordCount = 0 /\ chunk.count = 0 /\ written = 0 /\ Len(disk) = 0
        /\ Len(chunks) = 0 /\ Len(layers) = 0 /\ DOMAIN chunks = {} /\ DOMAIN layers = {}
    BY SMT DEF Init
  <1>2. TypeOK
    <2>1. /\ recordCount \in 0..MaximumRecords /\ markers \in 0..MaxMarkers
          /\ written \in 0..chunk.count
          /\ chunk \in [count : 0..ChunkRecords, first : 0..MaximumRecords,
                        firstLayer : 0..MaximumRecords, lastLayer : 0..MaximumRecords]
      BY SMT DEF Init
    <2>2. buffer \in [0..(ChunkRecords - 1) -> Record]
      BY SMT DEF Init, Record
    <2>3. /\ disk \in Seq(Record)
          /\ chunks \in Seq([first : 0..MaximumRecords, count : 1..ChunkRecords,
                             firstLayer : 0..MaximumRecords, lastLayer : 0..MaximumRecords])
          /\ layers \in Seq([first : 0..MaximumRecords, count : 1..MaximumRecords])
      BY SMT DEF Init
    <2> QED BY <2>1, <2>2, <2>3 DEF Init, TypeOK
  <1>3. Counting
    BY <1>1, SMT DEF Init, Counting, IsEmpty
  <1>4. Numbered /\ OpenChunk
    BY <1>1, SMT DEF Numbered, OpenChunk
  <1>5. ClosedChunks
    BY <1>1, SMT DEF ClosedChunks, Chunked
  <1>6. Covered = 0
    BY DEF Init, Covered
  <1>7. ClosedLayers /\ OpenLayer
    BY <1>1, <1>6, SMT DEF Init, ClosedLayers, OpenLayer
  <1>8. FeatureIsNative
    BY DEF Init, FeatureIsNative
  <1> QED BY <1>2, <1>3, <1>4, <1>5, <1>7, <1>8 DEF IInv

\* Nothing happens to the records; the file may end.
LEMMA ChunksUndisturbed ==
  ASSUME IInv, UNCHANGED fileVars, ended => ended'
  PROVE  Numbered' /\ OpenChunk' /\ ClosedChunks'
  <1>1. /\ Kept /\ recordCount' = recordCount /\ chunk' = chunk /\ chunks' = chunks
        /\ Chunked' = Chunked
    BY UnchangedKeeps DEF fileVars, Chunked
  <1> QED BY <1>1, NumberedKept, OpenChunkKept, ClosedChunksKept

\* Nothing happens to the records or the layers.
LEMMA Undisturbed ==
  ASSUME IInv, UNCHANGED fileVars, ended' = ended, layers' = layers,
         pc' = pc \/ pc' = "failed",
         \/ cur' = cur
         \/ /\ cur # NoLayer /\ cur' # NoLayer /\ cur'.index = cur.index
            /\ cur'.first = cur.first /\ cur'.count = cur.count
  PROVE  /\ Counting' /\ Numbered' /\ OpenChunk' /\ ClosedChunks'
         /\ ClosedLayers' /\ OpenLayer'
  <1>1. Numbered' /\ OpenChunk' /\ ClosedChunks'
    BY ChunksUndisturbed
  <1>2. Kept /\ recordCount' = recordCount
    BY UnchangedKeeps DEF fileVars
  <1>3. ClosedLayers'
    BY <1>2, ClosedLayersKept
  <1>4. OpenLayer'
    BY <1>2, OpenLayerKept
  <1>5. IsEmpty => IsEmpty'
    BY DEF IsEmpty
  <1>6. Counting'
    BY <1>5, SMT DEF IInv, Counting, fileVars
  <1> QED BY <1>1, <1>3, <1>4, <1>6

\* An error leaves everything as it was.
LEMMA FailPreserves == IInv /\ Fail => IInv'
  <1> SUFFICES ASSUME IInv, Fail PROVE IInv'
    OBVIOUS
  <1>1. /\ Counting' /\ Numbered' /\ OpenChunk' /\ ClosedChunks'
        /\ ClosedLayers' /\ OpenLayer'
    BY Undisturbed DEF Fail, layerVars
  <1>2. TypeOK'
    BY DEF IInv, TypeOK, Fail, blockVars, commentVars, fileVars, layerVars
  <1>3. FeatureIsNative'
    BY DEF IInv, FeatureIsNative, Fail, blockVars
  <1> QED BY <1>1, <1>2, <1>3 DEF IInv

\* Comments that only change how later lines are read.
CommentOnly == \/ BlockBegins \/ BlockEnds \/ FirmwareBlock \/ UnheardLayerChange
               \/ Wipe \/ LineWidth

\* Comments that only change what is heard do not concern the records.
LEMMA CommentsPreserve == IInv /\ CommentOnly => IInv'
  <1> SUFFICES ASSUME IInv, CommentOnly PROVE IInv'
    OBVIOUS
  <1> USE DEF CommentOnly, BlockBegins, BlockEnds, FirmwareBlock, UnheardLayerChange, Wipe,
              LineWidth, Heard
  <1>1. /\ UNCHANGED fileVars /\ ended' = ended /\ layers' = layers /\ cur' = cur
        /\ pc' = pc /\ dialect' = dialect
    BY DEF layerVars
  <1>2. /\ Counting' /\ Numbered' /\ OpenChunk' /\ ClosedChunks'
        /\ ClosedLayers' /\ OpenLayer'
    BY <1>1, Undisturbed
  <1>3. /\ inBlock' \in BOOLEAN /\ skipped' \in BOOLEAN /\ wiping' \in BOOLEAN
        /\ width' \in BOOLEAN /\ height' \in BOOLEAN
    BY DEF IInv, TypeOK, blockVars, commentVars
  <1>4. {feature', before', native'} \subseteq Features \cup {"unknown"}
    BY Limits DEF IInv, TypeOK, blockVars, commentVars
  <1>5. markers' \in 0..MaxMarkers
    BY Limits, SMT DEF IInv, TypeOK
  <1>6. TypeOK'
    BY <1>1, <1>3, <1>4, <1>5 DEF IInv, TypeOK, fileVars
  <1>7. FeatureIsNative'
    BY DEF IInv, FeatureIsNative, blockVars
  <1> QED BY <1>2, <1>6, <1>7 DEF IInv

\* The height of a layer is no matter of its records.
LEMMA LayerMarksPreserve == IInv /\ (LayerZ \/ LayerHeight) => IInv'
  <1> SUFFICES ASSUME IInv, LayerZ \/ LayerHeight PROVE IInv'
    OBVIOUS
  <1> USE DEF LayerZ, LayerHeight, Heard
  <1>1. /\ UNCHANGED fileVars /\ ended' = ended /\ layers' = layers
        /\ pc' = pc /\ dialect' = dialect /\ markers' = markers /\ UNCHANGED blockVars
        /\ skipped' = skipped /\ wiping' = wiping /\ width' = width /\ cur # NoLayer
    BY DEF commentVars
  <1>2. cur \in Layer
    BY <1>1, Typed DEF IInv
  <1>3. /\ cur' \in Layer /\ cur'.index = cur.index /\ cur'.first = cur.first
        /\ cur'.count = cur.count
    <2>1. cur \in [index : 0..MaximumRecords, first : 0..MaximumRecords,
                   count : 0..MaximumRecords, z : BOOLEAN, height : BOOLEAN]
      BY <1>2 DEF Layer
    <2>2. CASE LayerZ
      BY <2>1, <2>2 DEF Layer
    <2>3. CASE LayerHeight
      <3>1. PICK positive \in BOOLEAN : cur' = [cur EXCEPT !.height = positive]
        BY <2>3
      <3> QED BY <2>1, <3>1 DEF Layer
    <2> QED BY <2>2, <2>3
  <1>4. /\ Counting' /\ Numbered' /\ OpenChunk' /\ ClosedChunks'
        /\ ClosedLayers' /\ OpenLayer'
    <2>1. cur' # NoLayer
      BY <1>3, Limits
    <2> QED BY <1>1, <1>3, <2>1, Undisturbed
  <1>5. height' \in BOOLEAN
    BY DEF IInv, TypeOK, commentVars
  <1>6. TypeOK'
    BY <1>1, <1>3, <1>5 DEF IInv, TypeOK, fileVars, blockVars
  <1>7. FeatureIsNative'
    BY <1>1 DEF IInv, FeatureIsNative, blockVars
  <1> QED BY <1>4, <1>6, <1>7 DEF IInv

\* A layer ends, another may begin.
LEMMA LayerChangePreserves == IInv /\ LayerChange => IInv'
  <1> SUFFICES ASSUME IInv, LayerChange PROVE IInv'
    OBVIOUS
  <1> USE DEF LayerChange, Heard
  <1>1. /\ UNCHANGED fileVars /\ ended' = ended /\ layers' = Finalized /\ pc' = pc
        /\ pc = "reading" /\ dialect' = dialect /\ UNCHANGED blockVars /\ UNCHANGED commentVars
    OBVIOUS
  <1>2. /\ ClosedLayers' /\ Covered' = recordCount
        /\ layers' \in Seq(ClosedLayerType) /\ Len(layers') \in 0..MaximumRecords
    BY <1>1, LayerCloses
  <1>3. Numbered' /\ OpenChunk' /\ ClosedChunks'
    BY <1>1, ChunksUndisturbed
  <1>4. /\ cur' = [index |-> Len(layers'), first |-> recordCount, count |-> 0,
                   z |-> FALSE, height |-> FALSE]
        /\ recordCount \in 0..MaximumRecords
    BY <1>1 DEF NewLayer, IInv, TypeOK
  <1>5. cur' \in Layer /\ cur' # NoLayer
    <2>1. cur' \in Layer
      BY <1>2, <1>4, Limits, SMT DEF Layer
    <2> QED BY <2>1, Limits
  <1>6. OpenLayer'
    <2>1. /\ cur'.index = Len(layers') /\ cur'.first = Covered'
          /\ cur'.first = recordCount /\ cur'.count = 0 /\ recordCount' = recordCount
      BY <1>2, <1>4 DEF fileVars
    <2>2. cur'.first + cur'.count = recordCount'
      BY <2>1, <1>4, SMT
    <2>3. \A i \in cur'.first..(recordCount' - 1) : FALSE
      BY <2>1, <1>4, SMT
    <2> QED BY <1>5, <2>1, <2>2, <2>3 DEF OpenLayer
  <1>7. Counting'
    BY <1>1, SMT DEF IInv, Counting, fileVars
  <1>8. markers' \in 0..MaxMarkers
    BY Limits, SMT DEF IInv, TypeOK
  <1>9. TypeOK'
    BY <1>1, <1>2, <1>5, <1>8 DEF IInv, TypeOK, fileVars, blockVars, commentVars, ClosedLayerType
  <1>10. FeatureIsNative'
    BY <1>1 DEF IInv, FeatureIsNative, blockVars
  <1> QED BY <1>2, <1>3, <1>6, <1>7, <1>9, <1>10 DEF IInv

\* Without an open layer, the closed ones reach to the end.
LEMMA NoneOpen ==
  ASSUME IInv, UNCHANGED fileVars, layers' = Finalized,
         cur' = NoLayer \/ (IsEmpty /\ cur' = cur)
  PROVE  OpenLayer' /\ ClosedLayers' /\ layers' \in Seq(ClosedLayerType) /\ IsEmpty'
  <1>1. /\ ClosedLayers' /\ Covered' = recordCount /\ layers' \in Seq(ClosedLayerType)
    BY LayerCloses
  <1>2. CASE cur' = NoLayer
    BY <1>1, <1>2 DEF OpenLayer, IsEmpty, fileVars
  <1>3. CASE IsEmpty /\ cur' = cur
    <2>1. layers' = layers
      BY <1>3 DEF Finalized
    <2>2. OpenLayer'
      BY <1>3, <2>1, UnchangedKeeps, OpenLayerKept DEF fileVars
    <2> QED BY <1>1, <1>3, <2>2 DEF IsEmpty
  <1> QED BY <1>1, <1>2, <1>3

\* A feature comment that is heard is the engine's.
LEMMA FeaturePreserves ==
  ASSUME IInv, NEW f \in Features, Feature(f)
  PROVE  IInv'
  <1> USE DEF Feature, Heard
  <1>1. /\ UNCHANGED fileVars /\ ended' = ended /\ pc' = pc /\ pc = "reading"
        /\ dialect' = dialect /\ UNCHANGED commentVars /\ markers' = markers
        /\ inBlock' = inBlock /\ before' = before /\ feature' = f /\ native' = f /\ ~inBlock
    OBVIOUS
  <1>2. Numbered' /\ OpenChunk' /\ ClosedChunks'
    BY <1>1, ChunksUndisturbed
  <1>3. /\ ClosedLayers' /\ OpenLayer' /\ layers' \in Seq(ClosedLayerType)
        /\ cur' \in Layer \cup {NoLayer}
    <2>1. CASE layers' = Finalized /\ cur' = NoLayer
      BY <1>1, <2>1, NoneOpen
    <2>2. CASE UNCHANGED layerVars
      BY <1>1, <2>2, Undisturbed DEF layerVars, IInv, TypeOK, ClosedLayerType
    <2> QED BY <2>1, <2>2
  <1>4. Counting'
    BY <1>1, SMT DEF IInv, Counting, fileVars
  <1>5. {feature', before', native'} \subseteq Features \cup {"unknown"}
    BY <1>1 DEF IInv, TypeOK
  <1>6. TypeOK'
    BY <1>1, <1>3, <1>5 DEF IInv, TypeOK, fileVars, commentVars, ClosedLayerType
  <1>7. FeatureIsNative'
    BY <1>1 DEF IInv, FeatureIsNative
  <1> QED BY <1>2, <1>3, <1>4, <1>6, <1>7 DEF IInv

\* A record keeps the invariant.
LEMMA AppendPreserves == IInv /\ Appends => IInv'
  <1> SUFFICES ASSUME IInv, Appends PROVE IInv'
    OBVIOUS
  <1> USE Limits, Typed DEF IInv
  <1>1. /\ Kept /\ recordCount' = recordCount + 1
        /\ \A i \in Nat : i = recordCount => RecordAt(i)' = [n |-> recordCount, layer |-> cur.index]
    BY AppendKeeps
  <1>2. /\ ClosedLayers' /\ OpenLayer' /\ cur' \in Layer
    BY OpenLayerGrows
  <1>3. /\ OpenChunk' /\ chunk'.count = chunk.count + 1 /\ chunk'.lastLayer = cur.index
        /\ chunk'.first \in {chunk.first, recordCount}
        /\ chunk'.firstLayer \in {chunk.firstLayer, cur.index}
    BY OpenChunkGrows
  <1>4. /\ buffer' = [buffer EXCEPT ![chunk.count] = [n |-> recordCount, layer |-> cur.index]]
        /\ chunk' = [Opened EXCEPT !.count = chunk.count + 1, !.lastLayer = cur.index]
        /\ pc = "reading" /\ recordCount + 1 <= MaximumRecords /\ cur # NoLayer
        /\ pc' = IF chunk.count + 1 = ChunkRecords THEN "writing" ELSE "reading"
        /\ dialect' = dialect /\ ended' = ended /\ UNCHANGED blockVars
        /\ UNCHANGED commentVars /\ written' = written /\ disk' = disk /\ chunks' = chunks
        /\ layers' = layers /\ markers' = markers
    BY SMT DEF Appends, AppendRecord
  <1>5. /\ written = 0 /\ chunk.count < ChunkRecords /\ ~ended /\ recordCount \in Nat
        /\ Len(disk) + chunk.count = recordCount /\ Len(disk) \in Nat /\ chunk.count \in Nat
    BY <1>4, SMT DEF Counting
  <1>6. Numbered'
    <2>1. ASSUME NEW i \in 0..recordCount
          PROVE  RecordAt(i)'.n = i
      <3>1. CASE i = recordCount
        BY <3>1, <1>1, <1>5, SMT
      <3>2. CASE i # recordCount
        <4>1. i \in 0..(recordCount - 1)
          BY <3>2, <1>5, SMT
        <4> QED BY <4>1, <1>1 DEF Numbered, Kept
      <3> QED BY <3>1, <3>2
    <2>2. 0..(recordCount' - 1) = 0..recordCount
      BY <1>1, <1>5, SMT
    <2> QED BY <2>1, <2>2 DEF Numbered
  <1>7. Chunked' = Chunked
    BY <1>1, <1>3, <1>5, SMT DEF Chunked
  <1>8. ClosedChunks'
    BY <1>1, <1>4, <1>5, <1>7, ClosedChunksKept
  <1>9. Counting'
    <2>1. /\ Len(disk') + chunk'.count = recordCount' + written' /\ written' <= Len(disk')
          /\ written' = 0 /\ written' < chunk'.count /\ ~ended'
      BY <1>1, <1>3, <1>4, <1>5, SMT
    <2>2. chunk.count + 1 # ChunkRecords => chunk.count + 1 < ChunkRecords
      BY <1>5, SMT
    <2>3. CASE chunk.count + 1 = ChunkRecords
      BY <2>1, <2>3, <1>3, <1>4 DEF Counting
    <2>4. CASE chunk.count + 1 # ChunkRecords
      BY <2>1, <2>2, <2>4, <1>3, <1>4 DEF Counting
    <2> QED BY <2>3, <2>4
  <1>10. /\ recordCount' \in 0..MaximumRecords /\ written' \in 0..chunk'.count
         /\ pc' \in {"reading", "writing"}
    BY <1>1, <1>3, <1>4, <1>5, SMT
  <1>11. cur.index \in 0..MaximumRecords /\ recordCount \in 0..MaximumRecords
    BY <1>4, SMT DEF Layer, TypeOK
  <1>12. chunk' \in [count : 0..ChunkRecords, first : 0..MaximumRecords,
                     firstLayer : 0..MaximumRecords, lastLayer : 0..MaximumRecords]
    <2>1. Opened \in [count : 0..ChunkRecords, first : 0..MaximumRecords,
                      firstLayer : 0..MaximumRecords, lastLayer : 0..MaximumRecords]
      <3>1. CASE chunk.count = 0
        <4>1. Opened = [chunk EXCEPT !.first = recordCount, !.firstLayer = cur.index]
          BY <3>1 DEF Opened
        <4> HIDE DEF Opened
        <4> QED BY <4>1, <1>11 DEF TypeOK
      <3>2. CASE chunk.count # 0
        BY <3>2 DEF Opened, TypeOK
      <3> QED BY <3>1, <3>2
    <2>2. chunk.count + 1 \in 0..ChunkRecords
      BY <1>5, SMT
    <2> HIDE DEF Opened
    <2> QED BY <2>1, <2>2, <1>4, <1>11
  <1>13. buffer' \in [0..(ChunkRecords - 1) -> Record]
    <2>1. [n |-> recordCount, layer |-> cur.index] \in Record
      BY <1>11 DEF Record
    <2> QED BY <2>1, <1>4 DEF TypeOK
  <1>14. TypeOK'
    BY <1>2, <1>4, <1>10, <1>12, <1>13 DEF TypeOK, blockVars, commentVars
  <1>15. FeatureIsNative'
    BY <1>4 DEF FeatureIsNative, blockVars
  <1> QED BY <1>2, <1>3, <1>6, <1>8, <1>9, <1>14, <1>15

\* A write keeps it, whether it is short or ends the chunk.
LEMMA WritePreserves ==
  ASSUME IInv, NEW count, Wrote(count)
  PROVE  IInv'
  <1>1. Kept /\ disk' \in Seq(Record) /\ Len(disk') = Len(disk) + count
    BY WriteKeeps
  <1>2. /\ pc = "writing" /\ recordCount' = recordCount /\ ended' = ended
        /\ dialect' = dialect /\ UNCHANGED blockVars /\ UNCHANGED commentVars
        /\ buffer' = buffer /\ UNCHANGED layerVars /\ markers' = markers
        /\ layers' = layers /\ cur' = cur
    BY DEF Wrote, layerVars
  <1>3. /\ count \in 1..(chunk.count - written) /\ count \in Nat /\ chunk.count \in Nat
        /\ written \in Nat /\ recordCount \in Nat /\ Len(disk) \in Nat
        /\ Len(disk) + chunk.count = recordCount + written /\ written <= Len(disk)
    BY Typed, SMT DEF IInv, Wrote, Counting
  <1>4. Numbered' /\ ClosedLayers' /\ OpenLayer'
    BY <1>1, <1>2, NumberedKept, ClosedLayersKept, OpenLayerKept
  <1>5. FeatureIsNative'
    BY <1>2 DEF IInv, FeatureIsNative, blockVars
  <1>6. ended' => IsEmpty'
    BY <1>2 DEF IInv, IsEmpty, Counting
  <1>7. CASE written + count = chunk.count
    <2>1. ClosedChunks' /\ chunks' \in Seq(ClosedChunkType)
      BY <1>7, ChunkCloses
    <2>2. /\ chunk' = [chunk EXCEPT !.count = 0, !.first = recordCount] /\ written' = 0
          /\ pc' = IF ended THEN "assemble" ELSE "reading"
      BY <1>7 DEF Wrote
    <2>3. /\ chunk' \in [count : 0..ChunkRecords, first : 0..MaximumRecords,
                         firstLayer : 0..MaximumRecords, lastLayer : 0..MaximumRecords]
          /\ chunk'.count = 0
      <3>1. 0 \in 0..ChunkRecords /\ recordCount \in 0..MaximumRecords
        BY <1>3, Limits, SMT DEF IInv, TypeOK
      <3> QED BY <3>1, <2>2 DEF IInv, TypeOK
    <2>4. OpenChunk' /\ written' \in 0..chunk'.count
      BY <2>2, <2>3, SMT DEF OpenChunk
    <2>5. /\ Len(disk') + chunk'.count = recordCount' + written' /\ written' <= Len(disk')
          /\ chunk'.count < ChunkRecords
      <3>1. (Len(disk) + count) + 0 = recordCount + 0 /\ 0 <= Len(disk) + count
            /\ 0 < ChunkRecords
        BY <1>3, <1>7, WriteCounts, Limits, SMT
      <3> QED BY <3>1, <1>1, <1>2, <2>2, <2>3
    <2>6. Counting'
      BY <1>2, <1>6, <2>2, <2>3, <2>5 DEF IInv, Counting
    <2>7. TypeOK'
      BY <1>1, <1>2, <2>1, <2>2, <2>3, <2>4
         DEF IInv, TypeOK, blockVars, commentVars, ClosedChunkType
    <2> QED BY <1>4, <1>5, <2>1, <2>4, <2>6, <2>7 DEF IInv
  <1>8. CASE written + count # chunk.count
    <2>1. /\ written' = written + count /\ chunks' = chunks /\ chunk' = chunk /\ pc' = pc
      BY <1>8 DEF Wrote
    <2>2. /\ written' \in 0..chunk'.count /\ written' < chunk'.count
          /\ Len(disk') + chunk'.count = recordCount' + written' /\ written' <= Len(disk')
      <3>1. /\ written + count \in 0..chunk.count /\ written + count < chunk.count
            /\ (Len(disk) + count) + chunk.count = recordCount + (written + count)
            /\ written + count <= Len(disk) + count
        BY <1>3, <1>8, WriteCounts
      <3> QED BY <3>1, <1>1, <1>2, <2>1
    <2>3. OpenChunk'
      BY <1>1, <1>2, <2>1, OpenChunkKept
    <2>4. ClosedChunks'
      <3>1. Chunked' = Chunked
        BY <1>2, <2>1 DEF Chunked
      <3> QED BY <3>1, <1>1, <1>2, <2>1, ClosedChunksKept
    <2>5. Counting'
      BY <1>2, <1>6, <2>1, <2>2 DEF IInv, Counting
    <2>6. TypeOK'
      BY <1>1, <1>2, <2>1, <2>2 DEF IInv, TypeOK, blockVars, commentVars
    <2> QED BY <1>4, <1>5, <2>2, <2>3, <2>4, <2>5, <2>6 DEF IInv
  <1> QED BY <1>7, <1>8

\* The end of the file closes the layer and sends the last chunk.
LEMMA EndOfFilePreserves == IInv /\ EndOfFile => IInv'
  <1> SUFFICES ASSUME IInv, EndOfFile, ~Fail PROVE IInv'
    BY FailPreserves
  <1>1. /\ pc = "reading" /\ ended' = TRUE /\ layers' = Finalized
        /\ cur' = (IF IsEmpty THEN cur ELSE NoLayer)
        /\ pc' = (IF chunk.count = 0 THEN "assemble" ELSE "writing")
        /\ dialect' = dialect /\ UNCHANGED blockVars /\ UNCHANGED commentVars
        /\ UNCHANGED fileVars /\ markers' = markers
    BY DEF EndOfFile
  <1>2. Numbered' /\ OpenChunk' /\ ClosedChunks'
    BY <1>1, ChunksUndisturbed
  <1>3. OpenLayer' /\ ClosedLayers' /\ layers' \in Seq(ClosedLayerType) /\ IsEmpty'
    BY <1>1, NoneOpen
  <1>4. chunk.count # 0 => written < chunk.count
    BY <1>1, Typed, SMT DEF IInv, Counting
  <1>5. Counting'
    BY <1>1, <1>3, <1>4 DEF IInv, Counting, fileVars
  <1>6. TypeOK'
    BY <1>1, <1>3 DEF IInv, TypeOK, fileVars, blockVars, commentVars, ClosedLayerType
  <1>7. FeatureIsNative'
    BY <1>1 DEF IInv, FeatureIsNative, blockVars
  <1> QED BY <1>2, <1>3, <1>5, <1>6, <1>7 DEF IInv

\* The final comparison changes nothing.
LEMMA AssemblePreserves == IInv /\ Assemble => IInv'
  <1> SUFFICES ASSUME IInv, Assemble, ~Fail PROVE IInv'
    BY FailPreserves
  <1>1. /\ pc = "assemble" /\ pc' = "done" /\ dialect' = dialect /\ ended' = ended
        /\ UNCHANGED blockVars /\ UNCHANGED commentVars /\ UNCHANGED fileVars
        /\ UNCHANGED layerVars /\ markers' = markers
    BY DEF Assemble
  <1>2. Numbered' /\ OpenChunk' /\ ClosedChunks'
    BY <1>1, ChunksUndisturbed
  <1>3. OpenLayer' /\ ClosedLayers'
    BY <1>1, UnchangedKeeps, OpenLayerKept, ClosedLayersKept DEF fileVars, layerVars
  <1>4. Counting'
    BY <1>1 DEF IInv, Counting, IsEmpty, fileVars, layerVars
  <1>5. TypeOK'
    BY <1>1 DEF IInv, TypeOK, fileVars, blockVars, commentVars, layerVars
  <1>6. FeatureIsNative'
    BY <1>1 DEF IInv, FeatureIsNative, blockVars
  <1> QED BY <1>2, <1>3, <1>4, <1>5, <1>6 DEF IInv

\* Nothing happens.
LEMMA StutterPreserves == IInv /\ UNCHANGED vars => IInv'
  BY SMT DEF IInv, TypeOK, Counting, Numbered, OpenChunk, ClosedChunks, ClosedChunk, Chunked,
             ClosedLayers, ClosedLayer, OpenLayer, Covered, FeatureIsNative, RecordAt, IsEmpty,
             vars

\* Every step of the compiler keeps the invariant.
LEMMA StepPreserves == IInv /\ [Next]_vars => IInv'
  <1> SUFFICES ASSUME IInv, [Next]_vars PROVE IInv'
    OBVIOUS
  <1>1. CASE CommentOnly
    BY <1>1, CommentsPreserve
  <1>2. CASE LayerZ \/ LayerHeight
    BY <1>2, LayerMarksPreserve
  <1>3. CASE LayerChange
    BY <1>3, LayerChangePreserves
  <1>4. CASE \E f \in Features : Feature(f)
    BY <1>4, FeaturePreserves
  <1>5. CASE NestedFirmwareBlock \/ UnfinishedLayer \/ Unsupported
    BY <1>5, FailPreserves DEF NestedFirmwareBlock, UnfinishedLayer, Unsupported
  <1>6. CASE Move \/ Extrude
    <2>1. Appends \/ Fail
      <3>1. pc = "reading" /\ cur # NoLayer /\ (AppendRecord \/ Fail)
        BY <1>6 DEF Move, Extrude, Commanded
      <3>2. recordCount + 1 > MaximumRecords \/ recordCount + 1 <= MaximumRecords
        BY Typed, Limits, SMT DEF IInv
      <3> QED BY <3>1, <3>2 DEF Appends, AppendRecord
    <2> QED BY <2>1, AppendPreserves, FailPreserves
  <1>7. CASE Write
    <2>1. CASE Fail
      BY <2>1, FailPreserves
    <2>2. CASE ~Fail
      <3>1. PICK count \in 1..(chunk.count - written) : Wrote(count)
        BY <1>7, <2>2 DEF Write, Wrote
      <3> QED BY <3>1, WritePreserves
    <2> QED BY <2>1, <2>2
  <1>8. CASE EndOfFile
    BY <1>8, EndOfFilePreserves
  <1>9. CASE Assemble
    BY <1>9, AssemblePreserves
  <1>10. CASE UNCHANGED vars
    BY <1>10, StutterPreserves
  <1> QED BY <1>1, <1>2, <1>3, <1>4, <1>5, <1>6, <1>7, <1>8, <1>9, <1>10 DEF Next, CommentOnly

-----------------------------------------------------------------------------

\* The compiler's invariant: what it has counted, numbered and cut is where
\* the index says, after every line and every partial write.
THEOREM Invariance == Spec => []IInv
  <1>1. Init => IInv
    BY InitEstablishes
  <1>2. IInv /\ [Next]_vars => IInv'
    BY StepPreserves
  <1> QED BY <1>1, <1>2, PTL DEF Spec

\* No counter of the compiler passes its limit: the buffer holds one chunk,
\* the file the records that were allowed.
THEOREM TypeCorrect == Spec => []TypeOK
  <1>1. IInv => TypeOK
    BY DEF IInv
  <1> QED BY <1>1, Invariance, PTL

\* At whatever records the chunks are cut and however many layers are empty,
\* the layers of a finished preview partition its records.
THEOREM LayersReconcile == Spec => []LayersPartition
  <1>1. IInv => LayersPartition
    <2> SUFFICES ASSUME IInv PROVE LayersPartition
      OBVIOUS
    <2>1. \A k \in DOMAIN layers :
            /\ layers[k].first = IF k = 1 THEN 0 ELSE layers[k - 1].first + layers[k - 1].count
            /\ \A i \in layers[k].first..(layers[k].first + layers[k].count - 1) :
                  RecordAt(i).layer = k - 1
      BY DEF IInv, ClosedLayers, ClosedLayer
    <2>2. cur # NoLayer => cur.index = Len(layers) /\ cur.first = Covered
      BY DEF IInv, OpenLayer
    <2>3. ASSUME pc = "done" PROVE Covered = recordCount
      <3>1. IsEmpty
        BY <2>3 DEF IInv, Counting
      <3>2. CASE cur = NoLayer
        BY <3>2 DEF IInv, OpenLayer
      <3>3. CASE cur # NoLayer
        <4>1. cur.count = 0 /\ cur.first = Covered /\ cur.first + cur.count = recordCount
          BY <3>1, <3>3 DEF IInv, IsEmpty, OpenLayer
        <4>2. Covered \in Nat
          BY CoveredIsNatural
        <4> QED BY <4>1, <4>2, SMT
      <3> QED BY <3>2, <3>3
    <2> QED BY <2>1, <2>2, <2>3 DEF LayersPartition
  <1> QED BY <1>1, Invariance, PTL

\* The chunk index is true of the records file, whatever a write puts down at
\* a time.
THEOREM ChunksReconcile == Spec => []ChunksIndexFile
  <1>1. IInv => ChunksIndexFile
    <2> SUFFICES ASSUME IInv PROVE ChunksIndexFile
      OBVIOUS
    <2>0. DOMAIN disk = 1..Len(disk) /\ DOMAIN chunks = 1..Len(chunks)
      BY Typed, LenProperties DEF IInv
    <2>1. /\ recordCount \in Nat /\ chunk.count \in Nat /\ written \in Nat /\ Len(disk) \in Nat
          /\ Len(disk) + chunk.count = recordCount + written /\ written <= chunk.count
      BY Typed DEF IInv, Counting
    <2>2. ASSUME NEW i \in DOMAIN disk PROVE disk[i].n = i - 1
      <3>1. i - 1 \in 0..(recordCount - 1) /\ i - 1 < Len(disk) /\ (i - 1) + 1 = i
        BY <2>0, <2>1, SMT
      <3>2. RecordAt(i - 1) = disk[i]
        BY <3>1 DEF RecordAt
      <3> QED BY <3>1, <3>2 DEF IInv, Numbered
    <2>3. ASSUME NEW k \in DOMAIN chunks
          PROVE  /\ chunks[k].first = (k - 1) * ChunkRecords
                 /\ k < Len(chunks) => chunks[k].count = ChunkRecords
                 /\ chunks[k].firstLayer = disk[chunks[k].first + 1].layer
                 /\ chunks[k].lastLayer = disk[chunks[k].first + chunks[k].count].layer
      <3>1. ClosedChunk(k)
        BY DEF IInv, ClosedChunks
      <3>2. chunks[k].first \in Nat /\ chunks[k].count \in Nat /\ chunks[k].count >= 1
        <4>1. chunks[k] \in ClosedChunkType
          BY Typed, ElementOfSeq DEF IInv
        <4> QED BY <4>1, Limits, SMT DEF ClosedChunkType
      <3>3. chunks[k].first + chunks[k].count <= recordCount - chunk.count
        BY <3>1 DEF ClosedChunk, Chunked
      <3>4. /\ chunks[k].first < Len(disk) /\ chunks[k].first + chunks[k].count - 1 < Len(disk)
            /\ chunks[k].first + chunks[k].count - 1 + 1 = chunks[k].first + chunks[k].count
        <4>1. recordCount - chunk.count <= Len(disk)
          BY <2>1, SMT
        <4> QED BY <2>1, <3>2, <3>3, <4>1, SMTT(30)
      <3>5. /\ RecordAt(chunks[k].first) = disk[chunks[k].first + 1]
            /\ RecordAt(chunks[k].first + chunks[k].count - 1)
                 = disk[chunks[k].first + chunks[k].count]
        BY <3>4 DEF RecordAt
      <3> QED BY <3>1, <3>5 DEF ClosedChunk
    <2>4. ASSUME pc = "done"
          PROVE  Len(disk) = recordCount /\ Len(chunks) * ChunkRecords >= recordCount
      <3>1. chunk.count = 0 /\ Chunked <= Len(chunks) * ChunkRecords
        BY <2>4 DEF IInv, Counting, ClosedChunks
      <3>2. Len(chunks) * ChunkRecords \in Nat
        BY Typed, Limits, SMT DEF IInv
      <3>3. written = 0 /\ recordCount <= Len(chunks) * ChunkRecords
        BY <2>1, <3>1, <3>2, SMT DEF Chunked
      <3>4. Len(disk) = recordCount
        BY <2>1, <3>1, <3>3, SMT
      <3> QED BY <2>1, <3>2, <3>3, <3>4, SMT
    <2> QED BY <2>2, <2>3, <2>4 DEF ChunksIndexFile
  <1> QED BY <1>1, Invariance, PTL

\* A custom script leaves the engine's own feature as it was, however many
\* there are and whatever comments they hold.
THEOREM ScriptsKeepTheFeature == Spec => []FeatureIsNative
  <1>1. IInv => FeatureIsNative
    BY DEF IInv
  <1> QED BY <1>1, Invariance, PTL
=============================================================================
