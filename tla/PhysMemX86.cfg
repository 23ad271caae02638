SPECIFICATION HFairSpec
CONSTANTS
    Callers = {c1, c2}
    FramesPerWord = 4
    FramesPerByte = 2
    Words = 2
    MemSize = 7
    IdealStart = 4
    Reserved = {0, 1, 4, 6, 7}
    Lengths = {1, 2}
    Limits = {0, 3}
INVARIANT TypeOK
INVARIANT NoDoubleAllocation
INVARIANT BitmapExact
INVARIANT ResultInRange
INVARIANT FailsOnlyWhenFull
PROPERTY ImplementsFrameAllocator
PROPERTY CallsReturnAlone
PROPERTY SomebodyComesOut
CHECK_DEADLOCK FALSE
