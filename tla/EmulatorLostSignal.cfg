\* A collector interrupted once.
CONSTANTS
    Modes = {"collector"}
    LoadResults = {"ok", "fail"}
    MaxSignals = 1
    MaxSeq = 1
SPECIFICATION FairSpec
PROPERTIES
    InterruptEndsCollector
CHECK_DEADLOCK FALSE
