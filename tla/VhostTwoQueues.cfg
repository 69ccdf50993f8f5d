\* Both queues, two kick eventfds, three descriptor numbers.
CONSTANTS
    Queues = {0, 1}
    TX = 1
    KickEvents = {k1, k2}
    Other = other
    Closed = closed
    MaxFd = 3
    MAXW = 32
    MaxMaps = 0
    MaxRegions = 1
    MaxAvail = 1
SPECIFICATION Spec
SYMMETRY Symmetry
INVARIANTS
    NoSpuriousPanic
    WatchesExact
    FdsAccounted
CHECK_DEADLOCK FALSE
