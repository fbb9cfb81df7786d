SPECIFICATION SessionsSpec
CONSTANTS
    CONTAINER_BLOCKS = 4
    DATA_START = 2
    WORD = 16
    BLOCK_SIZE = 1
    BITS = 2
    BLOCK_BYTES = 2
    WORD_BYTES = 1
    Shortened <- MCShortened
    NUM_DIR_ENTRIES = 2
    NUM_OPEN_FILES = 1
    zero = zero
    x = x
    a = a
    b = b
    Names = {a, b}
    LongNames = {}
    NoName = NoName
    Modes = {m}
    Owners = {u}
    NoMode = NoMode
    NoOwner = NoOwner
    ProcessOwner = u
    Cells = {zero, x}
    ZeroCell = zero
    Payloads <- MCPayloads
    ReadSizes = {2}
    Offsets = {0}
    NewSizes = {0}
    MaxSize = 2
    SYNC_INTERVAL = 1
    SharedFiles = FALSE
    DirectCalls = FALSE
    Hasty = FALSE
SYMMETRY Symmetry
VIEW View
INVARIANTS MetadataMarked SessionsConsistent
PROPERTIES TearingKeepsOwners ImplementsDurableStore
