\* A collector slow enough for short writes.
CONSTANTS
    MaxRecords = 4
    MaxFlips = 2
    LineLen = 2
    PendMax = 5
    BackoffMax = 4
    ShortWrites = TRUE
    Refusals = {"sync"}
SPECIFICATION SinkSpec
INVARIANTS
    WholeLinesOnWire
CHECK_DEADLOCK FALSE
