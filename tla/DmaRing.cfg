SPECIFICATION FairSpec
CONSTANTS
    Skips = 2
    DmaMax = 7
    MaxSize = 2
    InitBlocks = 0
    Payload = {p1, p2}
    Garbage = junk
INVARIANTS
    TypeOK
    ReservationSafe
    NeverJumpToPut
    Framing
PROPERTIES
    SyncComplete
    ImplementsCommandStream
    WaitEnds
    SyncEnds
