\* The same model on a file system that may write less than it is asked to.
CONSTANTS
    ExpectedSize = 4
    MaximumModelBytes = 5
    MaxChunk = 3
    NoFile = NoFile
    ShortWrites = TRUE
SPECIFICATION DownloadSpec
INVARIANT ReturnedIsTheModel
CHECK_DEADLOCK FALSE
