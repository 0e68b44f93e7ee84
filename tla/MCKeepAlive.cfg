\* A client that waits for each answer and then sends a longer request.
CONSTANTS
    NoData = NoData
    Scripts <- GoodScripts
    Pipelining <- Lockstep
    Kqueue <- NoKqueue
SPECIFICATION Spec
CHECK_DEADLOCK FALSE
INVARIANTS WaitsForWholeRequest
