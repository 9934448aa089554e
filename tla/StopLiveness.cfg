\* A small and a large row that do not fit the budget, nor one batch, together.
SPECIFICATION FairSpec
CONSTANTS
    r1 = r1
    r2 = r2
    r3 = r3
    f1 = f1
    f2 = f2
    Rows <- TwoRows
    Flushes = {f1}
    Shutdown = Shutdown
    RowBytes <- OneLarge
    BatchBytes = 3
    BatchRows = 2
    MaxInFlight = 2
    ChannelCapacity = 1
    MaxPendingBytes = 4
    FailurePolicy = "stop"
    FailureThreshold = 0
    NONE = NONE
    TIMEOUT = TIMEOUT
    CLOSED = CLOSED
\* The system stops when its callers do.
CHECK_DEADLOCK FALSE
INVARIANTS
    ShutdownIsLast
PROPERTIES
    UsesComponents
    BarriersReturn
    SendsReturn
    AcceptedRowsSettle
