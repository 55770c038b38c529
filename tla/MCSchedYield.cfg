SPECIFICATION YieldSpec
CONSTANTS
    MaxThreads = 3
    MaxProcs = 2
    Priority <- Priorities
    HASHTABLE_CAPACITY = 4
    Leftover <- Clean
INVARIANTS
    SavedContextOwn
\* panic() hangs the kernel.
CHECK_DEADLOCK FALSE
