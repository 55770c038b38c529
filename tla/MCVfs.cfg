SPECIFICATION Spec
CONSTANTS
    HASHTABLE_CAPACITY = 6
    FILENAME_MAX = 8
    INITRD_MAX = 2
    Archives <- ArchiveSet
    BLOCK = 8
    PipePaths <- Mounts
    MaxInodes = 10
    MaxCalls = 3
    Handles = {0, 1, 9}
INVARIANTS
    TypeOK
    InitrdFaithful
    PipesFaithful
    DisplayFaithful
PROPERTIES
    InodeTableIsMap
CHECK_DEADLOCK FALSE
