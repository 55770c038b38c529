SPECIFICATION Spec
CONSTANTS
    Threads = {t1, t2}
    ThreadProgram <- Nested
    IsrProgram <- Nested
    MaxFrames = 3
INVARIANTS
    TypeOK
    NoOrphanLock
    SoundWhenClean
