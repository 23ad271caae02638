SPECIFICATION BoundedSpec
CONSTANTS
    CPUs = {1}
    Threads = {1, 2, 3, 4, 5}
    Nodes = {1, 2, 3, 4, 5, 6, 7, 8, 9, 10}
    Counts = {1, 2}
    MaxSleeps = 2
INVARIANT TypeOK
INVARIANT ListsExact
PROPERTY TicksFailExactlyOffTheList
PROPERTY ImplementsRunQueue

CHECK_DEADLOCK FALSE
PROPERTY EveryThreadRuns
