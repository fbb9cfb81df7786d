SPECIFICATION Spec
CONSTANTS
    CONTAINER_BLOCKS = 3
    DATA_START = 1
    WORD = 16
    BLOCK_SIZE = 1
    NUM_DIR_ENTRIES = 2
    NUM_OPEN_FILES = 2
    a = a
    b = b
    zero = zero
    x = x
    Names = {a, b}
    LongNames = {}
    NoName = NoName
    Modes = {m}
    Owners = {u}
    NoMode = NoMode
    NoOwner = NoOwner
    ProcessOwner = u
    Cells = {zero, x}
    ZeroCell = zero
    Payloads <- OneByte
    ReadSizes = {1}
    Offsets = {0}
    NewSizes = {}
    MaxSize = 1
    SYNC_INTERVAL = 1
    SharedFiles = FALSE
    DirectCalls = FALSE
SYMMETRY Symmetry
VIEW View
INVARIANTS ReadsCurrent
