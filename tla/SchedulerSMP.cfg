\* The boot CPU and a second one, which runs no thread; no call but the timer's
\* is needed.
SPECIFICATION Spec
CONSTANTS
    CPUs = {1, 2}
    Threads = {1}
    Nodes = {1, 2}
    Counts = {1}
    MaxSleeps = 1
INVARIANT EveryTickIsServed
CHECK_DEADLOCK FALSE
