\* Both sources and one more small copy fit, a big painted one does not.
CONSTANTS
    Small = Small
    Big = Big
    Models <- MCModels
    Paints = {p1, p2}
    NoPaint = NoPaint
    Size <- MCSize
    MaximumNormalizedModelBytes = 2
    MaximumTotalNormalizedBytes = 5
    MaximumPlateInputBytes = 3
    MaxObjects = 2
    MaxInput = 2
    MaxRuns = 2
SPECIFICATION Spec
INVARIANTS
    PreparedAsAsked
    ReuseIsFaithful
    MemoryIsCounted
CHECK_DEADLOCK FALSE
