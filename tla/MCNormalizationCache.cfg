\* Four bytes and two entries: each limit is reached without the other.
CONSTANTS
    SmallOfT1 = SmallOfT1
    SmallOfT2 = SmallOfT2
    OtherOfT2 = OtherOfT2
    LargeOfT1 = LargeOfT1
    OversizedOfT1 = OversizedOfT1
    Identities <- MCIdentities
    Source <- MCSource
    Size <- MCSize
    MaximumBytes = 4
    MaximumEntries = 2
    Ttl = 2
    Buffers = {b1, b2, b3, b4, b5}
    NoIdentity = NoIdentity
    MaxHeld = 2
    MaxClock = 3
SPECIFICATION Spec
SYMMETRY BufferSymmetry
INVARIANTS
    WithinBudget
    HeldIsOwn
PROPERTIES
    ReuseWithinTtl
    EvictsLeastRecent
    ReleasedIsZeroed
CHECK_DEADLOCK FALSE
