SPECIFICATION FairSpec
CONSTANTS
    Chips = {416}
    PixelClocks = {108000, 345000}
    Depths = {8, 16, 32}
    MClks = {110000, 166000}
    NVClks = {175000}
    Widths = {64, 128}
    PageMisses = {3, 16}
PROPERTY
    LoopEnds
