SPECIFICATION LoopsSpec
CONSTANTS
    CONTAINER_BLOCKS = 5
    DATA_START = 1
    WORD = 16
    BLOCK_SIZE = 2
    MaxNew = 2
    Cells <- MCCells
    Lists <- MCLists
    Stored <- MCStored
    Other <- MCOther
    Written <- MCWritten
    DeviceFails = FALSE
INVARIANTS ReturnsWhatDmapSays ThrowChangesNothing ListsTheChain AppendsTheChain
    MovesWhatTransferSays WrittenIsThere
PROPERTIES SearchEnds LoopsEnd
CHECK_DEADLOCK FALSE
