SPECIFICATION Spec
CONSTANTS
    Devices = {24, 272, 64, 320, 576, 240, 1024}
    Depths = {8, 16, 32}
    MaxGenerations = 3
    MaxLosses = 1
    MaxMissing = 1
    VirtualX = 8
    VirtualY = 3
    DisplayWidth = 8
INVARIANTS
    TypeOK
    LoadedBeforeUse
    NothingDangles
    PictureFollows
    EngineIsOurs
CHECK_DEADLOCK FALSE
