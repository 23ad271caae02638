\* Four callers contending for one lock, any order of steps.
SPECIFICATION FairSpec
CONSTANT Callers = {c1, c2, c3, c4}
INVARIANT TypeOK
INVARIANT MutualExclusion
INVARIANT WordMatchesOwner
PROPERTY ImplementsMutex
PROPERTY StarvesOnlyByOthers
