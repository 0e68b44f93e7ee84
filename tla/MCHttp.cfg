\* Clients with up to three requests, cut anywhere, pipelined or not; every answer of the handler.
\* A connection ends for good: the behaviour may stop.
CONSTANTS
    NoData = NoData
    Scripts <- SomeScripts
    Pipelining <- EitherWay
    Kqueue <- EitherWay
SPECIFICATION FairSpec
CHECK_DEADLOCK FALSE
INVARIANTS TypeOK FirstServedWhole IdenticalServedInTurn AtMostOneAnswer
PROPERTIES RefusedIsInert ConnectionEnds
