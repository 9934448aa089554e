\* One cancelled flush, then a failure.
SPECIFICATION Spec
CONSTANTS
    r1 = r1
    r2 = r2
    r3 = r3
    f1 = f1
    f2 = f2
    Rows <- TwoRows
    Flushes = {f1}
    Shutdown = Shutdown
    RowBytes <- SameSize
    BatchBytes = 8
    BatchRows = 2
    MaxInFlight = 1
    ChannelCapacity = 1
    MaxPendingBytes = 4
    FailurePolicy = "stop"
    FailureThreshold = 0
    NONE = NONE
    TIMEOUT = TIMEOUT
    CLOSED = CLOSED
SYMMETRY Symmetric
\* The system stops when its callers do.
CHECK_DEADLOCK FALSE
INVARIANTS
    CancelledFlushNotLost
