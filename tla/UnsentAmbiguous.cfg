\* A batch whose deadline passes before its first attempt is sent.
SPECIFICATION Spec
CONSTANTS
    MaxRetries = 2
    InitialBackoff = 1
    MaxBackoff = 2
    MaxElapsed = 5
    AttemptTimeout = 2
    RetryAfters = {0, 3}
    Horizon = 6
    NoError = NoError
\* A batch that has settled does nothing more.
CHECK_DEADLOCK FALSE
INVARIANTS
    AmbiguousMeansSent
