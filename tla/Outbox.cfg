\* Three intervals, the last with an invalid row, and three deliveries that fail
\* or crash.
SPECIFICATION FairSpec
CONSTANTS
    r1 = r1
    r2 = r2
    r3 = r3
    r4 = r4
    r5 = r5
    Row <- AllRows
    Stops = TRUE
    Interval <- ThreeIntervals
    Invalid = {r5}
    MaxFaults = 3
\* With everything delivered the worker has nothing to do.
CHECK_DEADLOCK FALSE
INVARIANTS
    NothingSkipped
    SettledBeforeReplay
    DuplicatesOnlyAfterFaults
PROPERTIES
    EverythingDelivered
