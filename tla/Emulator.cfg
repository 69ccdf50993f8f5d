\* Both modes, every start-up failure, signals at any moment.
CONSTANTS
    Modes = {"collector", "guest"}
    LoadResults = {"ok", "fail"}
    MaxSignals = 2
    MaxSeq = 2

SPECIFICATION FairSpec
INVARIANTS
    StoreClosedLast
    ExitLosesNothing
PROPERTIES
    ShutdownCompletes
CHECK_DEADLOCK FALSE
