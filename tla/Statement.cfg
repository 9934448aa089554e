\* A refresh, a cancellation and an execution of one statement.
SPECIFICATION FairSpec
CONSTANTS
    r1 = r1
    k1 = k1
    x1 = x1
    Calls <- AllCalls
    Method <- MethodOf
    MaxNanos = 1
    MaxObservations = 3
    MaxPolls = 6
    NoSnapshot = NoSnapshot
\* A statement that has ended and whose callers have returned does nothing more.
CHECK_DEADLOCK FALSE
INVARIANTS
    RetryIsSafe
PROPERTIES
    NeverRegresses
    CallsReturn
