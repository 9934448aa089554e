\* Every small heap that may be logged, every integer near the limits.
SPECIFICATION EitherSpec
CONSTANTS
    MaxSafeInteger = 7
    MinInteger <- SmallestInteger
    MaxInteger = 15
    MaxUnsigned = 31
    Powers = {1, 2, 4, 8}
    MaxAppendBodyBytes = 8
    MaxSanitizeDepth = 2
    MinStatus = 2
    MaxStatus = 6
    Traces <- AllTraces
    Results <- AllResults
\* A program ends.
CHECK_DEADLOCK FALSE
INVARIANTS
    TailDelivers
    IntegersSurvive
