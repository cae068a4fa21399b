\* Two clients of the proxy, of which one is this worker.
CONSTANTS
    Worker = worker
    Clients = {worker, other}
    MaximumConnections = 2
    ProxyRequired = FALSE
    RequestTimeout = 3
    JobTimeout = 4
    MaxStage = 3
SPECIFICATION Spec
INVARIANTS
    UpstreamNeverAlone
    OneStatus
PROPERTIES
    ClientFollows
    StagesInOrder
    BeatLostToElderOnly
CHECK_DEADLOCK FALSE
