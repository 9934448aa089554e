\* Two writers make up to four calls each, and another resource changes.
SPECIFICATION Spec
CONSTANTS
    w1 = w1
    w2 = w2
    Writers <- TwoWriters
    NoDefinition = NoDefinition
    NoReply = NoReply
    NoVersion = NoVersion
    MaxCalls = 4
    MaxVersion = 1
SYMMETRY Symmetric
\* Writers stop when they are done, or at the bound.
CHECK_DEADLOCK FALSE
INVARIANTS
    HonestOutcome
    AppliedOnce
PROPERTIES
    ReplacesWhatWasRead
