SPECIFICATION Spec
CONSTANTS
    N = 3
    Item = {a, b}
    BlockCount = 6
    BlockSize = 3
    HeapRequests = {0, 3, 4, 7}
    PIPE_SIZE = 3
    MaxSent = 1
    FILENAME_MAX = 3
    MaxPath = 1
    PathChars = {"/", "a", "b"}
    Vectors = {}
    Items = {x, y}
    MaxArrays = 3
    MaxItems = 4
    WIDTH = 4
    Moments = {}
    kernel_end = 5
    ARCH_PAGE_SIZE = 4
    KMEM_SIZE = 12
    KMEM_BLOCK_SIZE = 2
    POOL_ALIGN = 2
    MAX_TAGS = 3
    Tags <- Loaded
    MemSize = 120
    Lines = {}
    MaxBytes = 0
INVARIANTS ModulesKept
CHECK_DEADLOCK FALSE
