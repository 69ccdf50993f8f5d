SPECIFICATION Spec
CONSTANTS
    Num = 3
    MaxSize = 4
    DescSize = 2
    TotalMod = 16
    Page = 2
    PerByte = 3
    LogSize = 1
    Regions <- MCRegions
    Memories <- MCMemories
    Descs <- MCDescs
    Limits <- MCLimits
INVARIANTS
    ElementIsChain
    WalksEnd
    LogIsExact
    BytesAreOffered
CHECK_DEADLOCK FALSE
