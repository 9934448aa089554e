\* Three attempts, a service that asks for a pause longer than any backoff.
SPECIFICATION FairSpec
CONSTANTS
    MaxRetries = 2
    InitialBackoff = 1
    MaxBackoff = 2
    MaxElapsed = 5
    AttemptTimeout = 2
    RetryAfters = {0, 3}
    Horizon = 6
    NoError = NoError
\* A batch that has settled does nothing more.
CHECK_DEADLOCK FALSE
INVARIANTS
    ReplayOnlyIfAllowed
PROPERTIES
    RetriesKeepTheirDistance
    Settles
    KeepsBatchPromise
