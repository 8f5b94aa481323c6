SPECIFICATION FairSpec
CONSTANTS
    Chips = {32, 272, 368, 416, 784, 816, 64, 576}
    PixelClocks = {12000, 12007, 25175, 108000, 188000, 269999, 350000}
    Depths = {8, 16, 32}
    MClks = {110000, 166000}
    NVClks = {200000}
    Widths = {64, 128}
    PageMisses = {3, 16}
INVARIANTS
    TypeOK
    FifoSafe
    PllIsBest
PROPERTY
    LoopEnds
