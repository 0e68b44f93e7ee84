\* Closing, output, inboxes and stop(), with callbacks that act on each other's sockets, and sockets the poller refused.
CONSTANTS
    c1 = c1  c2 = c2  l1 = l1  a1 = a1
    NoTcp = NoTcp
    Conn <- TwoConns
    Listener <- OneListen
    App <- OneApp
    MaxWorker = 1
    MaxThreads = 2
    Sizes = {1}
    MaxStarts = 1
    AppOps = {"connect"}
    CbOps = {"send", "close", "peer"}
    Timeouts = FALSE
    PollerFaults = {"add"}
SPECIFICATION FairSpec
PROPERTIES ClosedIsReaped InterestFollowsOutput PostedIsAdopted StopReturns
