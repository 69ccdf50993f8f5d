\* Every failed connect fails at once: the gap widens.
CONSTANTS
    MaxRecords = 30
    MaxFlips = 1
    LineLen = 2
    PendMax = 5
    BackoffMax = 4
    ShortWrites = FALSE
    Refusals = {"sync"}
SPECIFICATION SinkSpec
PROPERTIES
    WideningGap
CHECK_DEADLOCK FALSE
