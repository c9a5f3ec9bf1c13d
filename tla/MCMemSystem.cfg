CONSTANTS
    WordBits = 2
    NWords = 4
    NBlocks = 9
    RsvWords = 1
    Sizes = {1, 2, 3}
    NPages = 3
    Requests = {1, 2}
    UMax = 3
    TMax = 3
    PMax = 3
SPECIFICATION MSSpec
CONSTRAINT OnlySane
INVARIANTS
    FramesAccounted
    LiveStackKept
    Exact
    FailsOnlyWhenFull
    ScanIsLoop
