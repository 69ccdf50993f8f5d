SPECIFICATION Spec
CONSTANTS
    Num = 3
    MaxSize = 4
    DescSize = 2
    TotalMod = 16
    Page = 2
    PerByte = 3
    LogSize = 1
    Regions <- MCRegions
    Memories <- Chained
    Descs <- MCDescs
    Limits = {}
INVARIANT LoopIsLoop
CHECK_DEADLOCK FALSE
