\* Producers that send and close: everyone is served and netlog_stop returns.
CONSTANTS
    a = a
    b = b
    c = c
    Producers = {a, b}
    Script <- ShortScript
    IdleProducers = {}
    MaxConn = 2
    LineMax = 4
    RunnerMax = 4
    ReadMax = 3
    Garbage <- ZeroStack
    PollErrors = FALSE
SPECIFICATION FairSpec
PROPERTIES
    StopReturns
    EveryoneServed
CHECK_DEADLOCK FALSE
