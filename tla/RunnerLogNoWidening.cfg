\* A failed connect is reported after EINPROGRESS.
CONSTANTS
    MaxRecords = 8
    MaxFlips = 2
    LineLen = 2
    PendMax = 5
    BackoffMax = 4
    ShortWrites = FALSE
    Refusals = {"async"}
SPECIFICATION SinkSpec
PROPERTIES
    WideningGap
CHECK_DEADLOCK FALSE
