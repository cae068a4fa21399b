\* One run, under the fairness of the awaits.
CONSTANTS
    Runs = {r1}
    NoRun = NoRun
    Models = 1
    MaxInFlight = 5
    MaxLaterProgress = 2
SPECIFICATION FairSpec
PROPERTIES
    ClaimSettles
    ShutdownStops
CHECK_DEADLOCK FALSE
