SPECIFICATION Spec
CONSTANTS
    Rops = {GXcopy, GXxor}
    GXcopy = GXcopy
    Planemasks = {pm}
    Patterns = {pat}
    Colors = {c}
    MaxLines = 2
    MaxCmds = 4
    Depth15 = TRUE
    DontCare = DontCare
    Unknown = Unknown
INVARIANTS
    TypeOK
    DrawnAsIntended
    CpuSeesDrawing
    KickedInTime
PROPERTIES
    NoDrawLost
