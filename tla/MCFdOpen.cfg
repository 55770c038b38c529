SPECIFICATION Spec
CONSTANTS
    Threads = {"t1", "t2"}
    Procs = {"p", "q"}
    Owners <- Assignments
    Inodes <- Nodes
    Kind <- NodeKind
    FileSize <- Size
    Paths <- PathSet
    Lookup <- Find
    Counts = {3}
    Leftover <- NoGarbage
    MaxFds = 2
INVARIANT FopenNamesFile
