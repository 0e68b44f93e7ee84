\* As in the source, kMaxThreads = kMaxWorker: start(kMaxWorker) fails, after the balancer was told.
CONSTANTS
    c1 = c1  c2 = c2  l1 = l1  a1 = a1
    NoTcp = NoTcp
    Conn <- OneConn
    Listener <- OneListen
    App <- OneApp
    MaxWorker = 2
    MaxThreads = 2
    Sizes = {1, 2}
    MaxStarts = 2
    AppOps = {"connect"}
    CbOps = {}
    Timeouts = FALSE
    PollerFaults = {}
SPECIFICATION Spec
PROPERTIES PlacedOnRunningThread
