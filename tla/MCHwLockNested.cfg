SPECIFICATION Spec
CONSTANTS
    Threads = {t1, t2}
    ThreadProgram <- Nested
    IsrProgram <- Flat
    MaxFrames = 2
INVARIANTS
    NestedSection
