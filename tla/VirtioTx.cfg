\* With and without the event index; indices wrap twice.
CONSTANTS
    QNum = 2
    IdxMod = 4
    MaxBufs = 9
    EventIdxs = {TRUE, FALSE}
    Handlers = {"complete", "stub"}

SPECIFICATION FairSpec
INVARIANTS
    NoStall
    EmittedOnceInOrder
PROPERTIES
    KickReturns
    EverythingEmitted
CHECK_DEADLOCK FALSE
