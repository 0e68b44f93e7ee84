\* Up to two workers, starts that fail, poller failures, restarts with another number of threads.
CONSTANTS
    c1 = c1  c2 = c2  l1 = l1  a1 = a1
    NoTcp = NoTcp
    Conn <- TwoConns
    Listener <- OneListen
    App <- OneApp
    MaxWorker = 3
    MaxThreads = 3
    Sizes = {1, 2, 3}
    MaxStarts = 2
    AppOps = {"listen"}
    CbOps = {"recv", "connect"}
    Timeouts = FALSE
    PollerFaults = {"init", "add"}
SPECIFICATION Spec
SYMMETRY ConnSymmetry
INVARIANTS SingleOwner LoadBalanced NoDanglingUse
