SPECIFICATION FairSpec
CONSTANTS
    CpuList <- TwoOthers
    NoMemory = {}
INVARIANT StacksAreTheirOwn
CHECK_DEADLOCK FALSE
