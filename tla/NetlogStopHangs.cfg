\* A producer may stay connected and silent.
CONSTANTS
    a = a
    b = b
    c = c
    Producers = {a, b}
    Script <- ShortScript
    IdleProducers = {b}
    MaxConn = 2
    LineMax = 4
    RunnerMax = 4
    ReadMax = 3
    Garbage <- ZeroStack
    PollErrors = FALSE
SPECIFICATION FairSpec
PROPERTIES
    StopReturns
CHECK_DEADLOCK FALSE
