\* A collector that comes and goes, and may be slow.
CONSTANTS
    MaxRecords = 9
    MaxFlips = 4
    LineLen = 2
    PendMax = 5
    BackoffMax = 4
    ShortWrites = TRUE
    Refusals = {"sync", "async"}

SPECIFICATION SinkSpec
INVARIANTS
    NothingElseIsLost
    SentInOrder
CHECK_DEADLOCK FALSE
