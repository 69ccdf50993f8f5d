\* Three producers for two slots, lines split over reads, an over-long line.
CONSTANTS
    a = a
    b = b
    c = c
    Producers = {a, b, c}
    Script <- MCScript
    IdleProducers = {}
    MaxConn = 2
    LineMax = 4
    RunnerMax = 4
    ReadMax = 3
    Garbage <- MaybeIn
    PollErrors = TRUE
SPECIFICATION Spec
INVARIANTS
    NothingLostOrMixed
    TableMatchesSockets
CHECK_DEADLOCK FALSE
