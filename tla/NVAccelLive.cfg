SPECIFICATION FairSpec
CONSTANTS
    Rops = {GXcopy}
    GXcopy = GXcopy
    Planemasks = {pm}
    Patterns = {}
    Colors = {c}
    MaxLines = 1
    MaxCmds = 4
    Depth15 = FALSE
    DontCare = DontCare
    Unknown = Unknown
PROPERTIES
    DrawsGetPublished
