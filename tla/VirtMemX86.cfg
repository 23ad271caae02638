SPECIFICATION FairSpec
CONSTANTS
    Kernel = k
    Callers = {k, d}
    PdEntries = 2
    PtEntries = 5
    KernelPd = 0
    Ram = {11, 12, 13}
    BootTables = {0}
    BootPages = {0, 1, 2, 3}
    Uses <- MapUses
    Stale = {{}, {0}}
    FreePhys = {6}
    MaxOwned = 2
INVARIANT TypeOK
INVARIANT MappedAsAsked
INVARIANT FramesExact
PROPERTY ImplementsPageAllocator
PROPERTY OutOfVMemOnlyWhenFull
PROPERTY CallsReturn
CHECK_DEADLOCK FALSE
