\* A model of four bytes in chunks of up to three; writes are complete.
CONSTANTS
    ExpectedSize = 4
    MaximumModelBytes = 5
    MaxChunk = 3
    NoFile = NoFile
    ShortWrites = FALSE
SPECIFICATION FairDownload
INVARIANTS
    ReturnedIsTheModel
PROPERTY DownloadEnds
CHECK_DEADLOCK FALSE
