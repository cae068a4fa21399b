\* Two runs in one process: a heartbeat of the first can meet the second.
CONSTANTS
    Runs = {r1, r2}
    NoRun = NoRun
    Models = 1
    MaxInFlight = 2
    MaxLaterProgress = 2
SPECIFICATION Spec
SYMMETRY RunSymmetry
CONSTRAINT ExplorationBound
INVARIANTS
    PublishedIsAccepted
    WithdrawnIsExcused
    DirectoryIsReleased
PROPERTIES
    OfferUnderLiveSignal
    NoFailOnLeaseError
    QuietAfterRelease
    ImplementsContract
CHECK_DEADLOCK FALSE
