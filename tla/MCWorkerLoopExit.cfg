\* The two engines of a deployed worker.
CONSTANT N = 2
SPECIFICATION LoopSpec
INVARIANT SignalExitsCleanly
CHECK_DEADLOCK FALSE
