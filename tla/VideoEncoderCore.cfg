SPECIFICATION FairSpec
CONSTANTS
    Ints = 4
    InputSlots = 2
    OutputBuffers = 2
    MaxFrames = 4
    MaxChanges = 1
INVARIANTS
    ImagesMatchTimes
    DrainNeverThrows
PROPERTIES
    PromiseKept
    HandlerEnds
