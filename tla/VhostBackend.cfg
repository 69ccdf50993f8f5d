\* The transmit queue: descriptors, memory maps, restarts, resets, service; two
\* buffers per life of the device, so that one may be skipped or overtaken.
CONSTANTS
    Queues = {1}
    TX = 1
    KickEvents = {k1, k2}
    Other = other
    Closed = closed
    MaxFd = 3
    MAXW = 32
    MaxMaps = 2
    MaxRegions = 2
    MaxAvail = 2

SPECIFICATION FairSpec
INVARIANTS
    NoSpuriousPanic
    WatchesExact
    FdsAccounted
    NoStaleRing
    EmittedOnceInOrder
PROPERTIES
    KickIsServed
CHECK_DEADLOCK FALSE
