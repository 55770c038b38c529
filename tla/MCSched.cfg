SPECIFICATION FairSpec
CONSTANTS
    MaxThreads = 4
    MaxProcs = 2
    Priority <- Priorities
    HASHTABLE_CAPACITY = 4
    Leftover <- Garbage
INVARIANTS
    TypeOK
    ScheduleExact
    CurrentIdentity
    RunQueueNeverEmpty
    ProcListsThreads
    LoopIsPick
PROPERTIES
    OnlySelfKill
    DeadIsReaped
    EveryTaskRuns
\* panic() hangs the kernel.
CHECK_DEADLOCK FALSE
