\* The breaker opens at the first failure; a flush and a shutdown report.
SPECIFICATION FairSpec
CONSTANTS
    r1 = r1
    r2 = r2
    r3 = r3
    f1 = f1
    f2 = f2
    Rows <- ThreeRows
    Flushes = {f1}
    Shutdown = Shutdown
    RowBytes <- SameSize
    BatchBytes = 8
    BatchRows = 2
    MaxInFlight = 2
    ChannelCapacity = 2
    MaxPendingBytes = 6
    FailurePolicy = "continue"
    FailureThreshold = 1
    NONE = NONE
    TIMEOUT = TIMEOUT
    CLOSED = CLOSED
\* The system stops when its callers do.
CHECK_DEADLOCK FALSE
ACTION_CONSTRAINTS
    OffersInOrder
    TrySendOnly
INVARIANTS
    ReportsAddUp
    ReportsBalanced
    ShutdownTellsAll
    SingleProbe
    ClaimHasProbe
PROPERTIES
    AcceptedRowsSettle
