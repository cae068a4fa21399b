\* Five records in chunks of two: full chunks, a partial one, and too many.
CONSTANTS
    ChunkRecords = 2
    MaximumRecords = 5
    Features = {"perimeter", "custom"}
    NoLayer = NoLayer
    MaxMarkers = 3
SPECIFICATION Spec
INVARIANTS
    LayersPartition
    ChunksIndexFile
    FeatureIsNative
CHECK_DEADLOCK FALSE
