SPECIFICATION Spec
CONSTANTS
    Memory = 2
    Frames = {1}
    VideoKey = k1
    Keys = {k1, k2}
    None = None
PROPERTY
    KeyIsPainted
