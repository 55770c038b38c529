SPECIFICATION Spec
CONSTANTS
    Threads = {t1, t2}
    ThreadProgram <- Flat
    IsrProgram <- Flat
    MaxFrames = 2
INVARIANTS
    CriticalSection
