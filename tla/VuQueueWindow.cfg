SPECIFICATION Spec
CONSTANTS
    Num = 2
    IdxMod = 4
    Window = 4
    Setups <- MCInflight
    CallModes = {"eventfd"}
    StopBusy = FALSE
    RewindMarked = FALSE
    Overtaking = TRUE
    MaxOffered = 6
    MaxEnds = 1
INVARIANT PoppedInOrder
CHECK_DEADLOCK FALSE
