\* The collector is restarted in mid-run.
CONSTANTS
    MaxRecords = 6
    MaxFlips = 2
    LineLen = 2
    PendMax = 5
    BackoffMax = 4
    ShortWrites = FALSE
    Refusals = {"sync"}
SPECIFICATION SinkSpec
INVARIANTS
    LoggingNeverKills
CHECK_DEADLOCK FALSE
