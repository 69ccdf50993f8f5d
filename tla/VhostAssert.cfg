\* A memory table of two regions, as the message format allows (up to 8).
CONSTANTS
    Queues = {1}
    TX = 1
    KickEvents = {k1, k2}
    Other = other
    Closed = closed
    MaxFd = 4
    MAXW = 32
    MaxMaps = 1
    MaxRegions = 2
    MaxAvail = 1
SPECIFICATION Spec
INVARIANTS
    FdsFitAssertion
CHECK_DEADLOCK FALSE
