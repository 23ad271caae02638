SPECIFICATION Spec
CONSTANTS
    Callers = {c1}
    Hdr = 1
    MinExp = 1
    MaxExp = 6
    MaxComplete = 1
    PageSize = 8
    PageCount = 2
    Pages = {1, 2, 4, 5, 6}
    Sizes = {1, 2, 9, 20}
    MaxRegions = 3
INVARIANT TypeOK
INVARIANT Tiled
INVARIANT FreeListsExact
INVARIANT Coalesced
INVARIANT CompletePagesExact
INVARIANT ReallocInside
PROPERTY ImplementsRegions
CHECK_DEADLOCK FALSE
