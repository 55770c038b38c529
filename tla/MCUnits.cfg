SPECIFICATION Spec
CONSTANTS
    N = 3
    Item = {a, b}
    BlockCount = 6
    BlockSize = 3
    HeapRequests = {0, 3, 4, 7}
    PIPE_SIZE = 3
    MaxSent = 4
    FILENAME_MAX = 3
    MaxPath = 7
    PathChars = {"/", "a", "b"}
    Vectors = {v, w}
    Items = {x, y}
    MaxArrays = 3
    MaxItems = 4
    WIDTH = 8
    Moments <- Chains
    kernel_end = 5
    ARCH_PAGE_SIZE = 4
    KMEM_SIZE = 12
    KMEM_BLOCK_SIZE = 2
    POOL_ALIGN = 2
    MAX_TAGS = 3
    Tags <- Loaded
    MemSize = 120
    Lines = {0, 4, 8}
    MaxBytes = 2
SYMMETRY Alike
INVARIANTS
    QueueTypeOK
    RingShape
    PoolTypeOK
    MapMatchesLive
    LiveLargeEnough
    ScanIsFirstFit
    PipeSafe
    VectorIsSeq
    PathIsSplit
    FormatFaithful
    ClockRight
    BootLayout
    InterruptsHandled
PROPERTIES
    ImplementsFifo
\* What was asked is done, and panic() hangs the kernel.
CHECK_DEADLOCK FALSE
