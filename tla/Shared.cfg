SPECIFICATION Spec
CONSTANTS
    CONTAINER_BLOCKS = 4
    DATA_START = 1
    WORD = 16
    BLOCK_SIZE = 1
    NUM_DIR_ENTRIES = 2
    NUM_OPEN_FILES = 2
    a = a
    b = b
    byte = byte
    Names = {a, b}
    LongNames = {}
    NoName = NoName
    Modes = {m}
    Owners = {u}
    NoMode = NoMode
    NoOwner = NoOwner
    ProcessOwner = u
    Cells = {byte}
    ZeroCell = byte
    Payloads <- OneByte
    ReadSizes = {2}
    Offsets = {0, 1}
    NewSizes = {0}
    MaxSize = 2
    SYNC_INTERVAL = 1
    SharedFiles = TRUE
    DirectCalls = FALSE
VIEW ChainView
INVARIANTS BlocksHaveOneOwner
CHECK_DEADLOCK FALSE
