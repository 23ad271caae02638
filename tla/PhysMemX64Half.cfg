\* One caller, no interleaving at all.
SPECIFICATION Spec
CONSTANTS
    Callers = {c1}
    FramesPerWord = 4
    FramesPerByte = 2
    Words = 2
    MemSize = 8
    IdealStart = 4
    DmaStart = 4
    Reserved = {0, 1}
INVARIANT NullMeansFull
CHECK_DEADLOCK FALSE
