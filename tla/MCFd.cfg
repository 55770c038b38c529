SPECIFICATION Spec
CONSTANTS
    Threads = {"t1", "t2"}
    Procs = {"p", "q"}
    Owners <- Assignments
    Inodes <- Nodes
    Kind <- NodeKind
    FileSize <- Size
    Paths <- PathSet
    Lookup <- Find
    Counts = {0, 3}
    Leftover <- Garbage
    MaxFds = 2
INVARIANTS
    TypeOK
    OneOwner
    NoDanglingFd
    UsesOwnFile
    OffsetExact
PROPERTIES
    ClosedByOwner
