\* Four commands through a buffer of two: two senders can be parked at once.
SPECIFICATION Spec
CONSTANTS
    c1 = c1
    c2 = c2
    c3 = c3
    c4 = c4
    Command <- MCCommand
    Capacity = 2
    NONE = NONE
    TIMEOUT = TIMEOUT
    CLOSED = CLOSED
INVARIANTS
    NoLostWakeup
    ParkedBehindFullBuffer
    AckMatchesPlace
PROPERTIES
    FifoOrder
