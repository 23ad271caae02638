SPECIFICATION FairSpec
CONSTANTS
    Kernel = k
    Callers = {k}
    PdEntries = 2
    PtEntries = 3
    KernelPd = 1
    Ram = {11, 12}
    BootTables = {0}
    BootPages = {0, 1}
    Uses <- FailedUses
    Stale = {{}}
    FreePhys = {}
    MaxOwned = 2
INVARIANT FramesExact
CHECK_DEADLOCK FALSE
