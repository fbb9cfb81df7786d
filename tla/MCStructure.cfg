SPECIFICATION Spec
CONSTANTS
    CONTAINER_BLOCKS = 5
    DATA_START = 1
    WORD = 16
    BLOCK_SIZE = 2
    NUM_DIR_ENTRIES = 2
    NUM_OPEN_FILES = 2
    a = a
    b = b
    byte = byte
    Names = {a, b}
    LongNames = {}
    NoName = NoName
    Modes = {m}
    Owners = {u}
    NoMode = NoMode
    NoOwner = NoOwner
    ProcessOwner = u
    Cells = {byte}
    ZeroCell = byte
    Payloads <- MCPayloads
    ReadSizes = {5}
    Offsets = {0, 3}
    NewSizes = {0, 2, 5}
    MaxSize = 5
    SYNC_INTERVAL = 1
    SharedFiles = FALSE
    DirectCalls = FALSE
SYMMETRY Symmetry
VIEW View
INVARIANTS TypeOK ChainsFitSizes BlocksHaveOneOwner AllocationExact UniqueNames
    HandleListsCurrent DirtyBlocksOwned OpenCountExact NoFault
