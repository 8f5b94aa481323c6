SPECIFICATION Spec
CONSTANTS
    Chips = {32, 256, 272, 368, 785, 808, 64}
    Modes = {1, 2}
    PanelTweaks = {2}
    MaxTweaks = 2
    MaxFailures = 1
INVARIANTS
    TypeOK
    ConsoleRestored
    ModeIsProgrammed
    CursorShadow
    EngineReady
PROPERTY
    OtherClockKept
CHECK_DEADLOCK FALSE
