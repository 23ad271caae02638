\* Two free frames, in one byte of a memory without the high zones.
SPECIFICATION Spec
CONSTANTS
    Callers = {c1, c2}
    FramesPerWord = 4
    FramesPerByte = 2
    Words = 2
    MemSize = 8
    IdealStart = 0
    DmaStart = 8
    Reserved = {0, 1, 2, 3, 6, 7}
INVARIANT NoDoubleAllocation
CHECK_DEADLOCK FALSE
