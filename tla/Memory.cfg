SPECIFICATION Spec
CONSTANTS
    NUM_DIR_ENTRIES = 2
    NUM_OPEN_FILES = 2
    a = a
    b = b
    zero = zero
    x = x
    Names = {a, b, long}
    LongNames = {long}
    NoFile = NoFile
    Cells = {zero, x}
    ZeroCell = zero
    Modes = {m}
    Owners = {u, v}
    ProcessOwner = u
    Payloads <- MCPayloads
    Offsets = {0, 1, 3}
    ReadSizes = {2}
    NewSizes = {0, 2}
    MaxSize = 3
    FirstCounts = {0}
    ReplacingRenames = FALSE
SYMMETRY Symmetry
INVARIANTS CountsExact OpenFilesExist
PROPERTY ImplementsFileStore
