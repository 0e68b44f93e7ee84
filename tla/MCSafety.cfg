\* One worker, two connections, callbacks that send and close (also on each other), timeouts.
CONSTANTS
    c1 = c1  c2 = c2  l1 = l1  a1 = a1
    NoTcp = NoTcp  Nowhere = Nowhere
    Conn <- TwoConns
    Listener <- OneListen
    App <- OneApp
    MaxWorker = 1
    MaxThreads = 2
    Sizes = {1}
    MaxStarts = 1
    AppOps = {"listen", "connect"}
    CbOps = {"send", "close", "peer"}
    Timeouts = TRUE
    PollerFaults = {}
SPECIFICATION Spec
SYMMETRY ConnSymmetry
INVARIANTS TypeOK SingleOwner NoDanglingUse MaskMirrorsPoller
PROPERTIES StaysHome ReleasedAtEnd KeepsEvents
