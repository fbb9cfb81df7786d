SPECIFICATION FreshSpec
CONSTANTS
    CONTAINER_BLOCKS = 4
    DATA_START = 1
    WORD = 16
    BLOCK_SIZE = 2
    NUM_DIR_ENTRIES = 2
    NUM_OPEN_FILES = 2
    zero = zero
    x = x
    a = a
    b = b
    Names = {a, b}
    LongNames = {}
    NoName = NoName
    Modes = {m}
    Owners = {u}
    NoMode = NoMode
    NoOwner = NoOwner
    ProcessOwner = u
    Cells = {zero, x}
    ZeroCell = zero
    Payloads <- MCPayloads
    ReadSizes = {5}
    Offsets = {0}
    NewSizes = {0}
    MaxSize = 5
    SYNC_INTERVAL = 1
    SharedFiles = FALSE
    DirectCalls = FALSE
SYMMETRY Symmetry
VIEW View
INVARIANTS ReadsCurrent
PROPERTIES ImplementsFileStore SyncLeavesNothingBehind MetadataBlocksUntouched
    OneFileAtATime OnlyOthersMakeStale
