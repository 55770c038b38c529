SPECIFICATION Spec
CONSTANTS
    col_max = 3
    row_max = 3
    PIPE_SIZE = 3
    LINE = 4
    ARGS = 5
    scancode_table <- Table
    Scripts <- Typed
    KbdBuffer = 2
    MaxMeets = 1
    Prompt <- Dollar
    Motd <- None
    Usage <- Bang
    NotFound <- Bang
    Newline <- Eol
    ExceptionText <- Bang
    PanicText <- Bang
    CommandText <- Texts
    Contents <- Files
INVARIANTS
    TypeOK
    LineShown
PROPERTIES
    ComesToRest
CHECK_DEADLOCK FALSE
