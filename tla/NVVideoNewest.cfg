SPECIFICATION Spec
CONSTANTS
    Memory = 4
    Frames = {1, 2}
    VideoKey = k
    Keys = {k}
    None = None
INVARIANT
    NewestOverwritten
