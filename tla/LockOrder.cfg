SPECIFICATION FairSpec
CONSTANTS
    CPUs = {p1}
    Threads = {t1, t2}
INVARIANT SomeCpuMovesOn
CHECK_DEADLOCK FALSE
