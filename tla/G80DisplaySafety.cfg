SPECIFICATION Spec
CHECK_DEADLOCK FALSE
CONSTANTS
    Dac = {vga}
    Tmds = {dvi}
    Lvds = {lvds}
    Modes = {m1, m2}
    DualModes = {m2}
    NativeMode = m2
    AllowDualLink = TRUE
    Dither = FALSE
    Scales = {"off", "aspect"}
    MaxFailures = 2
    MaxChanges = 2
    MaxEvents = 2
    None = None
INVARIANTS
    TypeOK
    ConfigFollows
    ClocksAgree
    NoStrayPicture
