SPECIFICATION Spec
CONSTANTS
    Num = 2
    IdxMod = 4
    Window = 4
    Setups <- MCSetups
    CallModes = {"eventfd"}
    StopBusy = FALSE
    RewindMarked = FALSE
    Overtaking = FALSE
    MaxOffered = 3
    MaxEnds = 2
INVARIANTS
    NothingForgotten
    CompletedOnce
    PoppedInOrder
    KickNotLost
    CallNotLost
CHECK_DEADLOCK FALSE
