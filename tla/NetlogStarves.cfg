\* A producer may stay connected and silent.
CONSTANTS
    a = a
    b = b
    c = c
    Producers = {a, b, c}
    Script <- LateScript
    IdleProducers = {b}
    MaxConn = 2
    LineMax = 4
    RunnerMax = 4
    ReadMax = 3
    Garbage <- ZeroStack
    PollErrors = FALSE
SPECIFICATION FairSpec
PROPERTIES
    EveryoneServed
CHECK_DEADLOCK FALSE
