\* One CPU, callers under no restriction.
SPECIFICATION Spec
CONSTANTS
    CPUs = {1}
    Threads = {1, 2, 3}
    Nodes = {1, 2, 3, 4, 5, 6}
    Counts = {1}
    MaxSleeps = 1
INVARIANT ThreadsAreFound
CHECK_DEADLOCK FALSE
