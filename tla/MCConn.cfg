\* Two connections in turn on one descriptor or two, every driver; a program may stop.
CONSTANTS
    c1 = c1  c2 = c2  NoFd = NoFd  NoSock = NoSock  NullUd = NullUd
    Conn <- TwoConns
    Fd <- TwoFds
    Drivers <- EveryWay
    Busy <- OneConn
    MaxOpen = 2
SPECIFICATION FairSpec
CHECK_DEADLOCK FALSE
INVARIANTS TypeOK EventsReachTheirOwner PollerFollowsMask ToldOnce
PROPERTIES ConnectIsAnswered EndIsNoticed
