\* A reset connection, then another in the same slot.
CONSTANTS
    a = a
    b = b
    c = c
    Producers = {a, b}
    Script <- ShortScript
    IdleProducers = {}
    MaxConn = 2
    LineMax = 4
    RunnerMax = 4
    ReadMax = 3
    Garbage <- ZeroStack
    PollErrors = FALSE
SPECIFICATION Spec
PROPERTIES
    OnlyClosedAreDropped
CHECK_DEADLOCK FALSE
