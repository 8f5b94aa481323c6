SPECIFICATION FairSpec
CONSTANTS
    Memory = 2
    Frames = {1}
    VideoKey = k
    Keys = {k}
    None = None
INVARIANTS
    TypeOK
    OffMeansOff
    CopyIsApart
    TimersAreServed
    ReadsOwnMemory
PROPERTY
    StoppedIsFreed
