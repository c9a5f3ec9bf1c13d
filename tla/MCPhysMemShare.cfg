CONSTANTS
    WordBits = 2
    NWords = 4
    NBlocks = 8
    RsvWords = 1
    Sizes = {2}
SPECIFICATION PMSpec
INVARIANT NoSharedBlock
