\* Only the listen thread creates connections: what is left after stop() was left by the engine.
CONSTANTS
    c1 = c1  c2 = c2  l1 = l1  a1 = a1
    NoTcp = NoTcp
    Conn <- OneConn
    Listener <- OneListen
    App <- OneApp
    MaxWorker = 1
    MaxThreads = 2
    Sizes = {1}
    MaxStarts = 1
    AppOps = {"listen"}
    CbOps = {}
    Timeouts = FALSE
    PollerFaults = {}
SPECIFICATION Spec
INVARIANTS UnprocessedAreKilled
