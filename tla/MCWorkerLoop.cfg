\* Three engines: one more than are deployed, so that two neighbours compete.
CONSTANT N = 3
SPECIFICATION FairLoop
INVARIANTS
    BusyQueueCannotStarve
    PauseExactlyWhenIdle
PROPERTIES
    QueueIsAsked
    SignalEndsProcess
CHECK_DEADLOCK FALSE
