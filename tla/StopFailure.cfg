\* Three rows, two requests in flight, one row in the buffer when the next does
\* not fit, a failure at any point, a flush and a shutdown.
SPECIFICATION Spec
CONSTANTS
    r1 = r1
    r2 = r2
    r3 = r3
    f1 = f1
    f2 = f2
    Rows <- ThreeRows
    Flushes = {f1}
    Shutdown = Shutdown
    RowBytes <- SameSize
    BatchBytes = 2
    BatchRows = 2
    MaxInFlight = 2
    ChannelCapacity = 1
    MaxPendingBytes = 6
    FailurePolicy = "stop"
    FailureThreshold = 0
    NONE = NONE
    TIMEOUT = TIMEOUT
    CLOSED = CLOSED
SYMMETRY Symmetric
CONSTRAINT TwoSends
\* The system stops when its callers do.
CHECK_DEADLOCK FALSE
INVARIANTS
    RowsConserved
    HonestFailure
    BytesHeldForRowsOnTheWay
    BarrierCovers
    Quiescent
PROPERTIES
    KeepsPromise
