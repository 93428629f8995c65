SPECIFICATION Spec
CONSTANTS
    BlockHeaderSize = 16
    StartBlockSize = 64
    MaxBlockSize = 128
    StringSize = 32
    StringHeaderSize = 16
    StringMinSize = 64
    StringMaxSize = 128
    Word = 4096
    Sizes <- MCSizes
    SerialArenaSize = 24
    MaxBlocks = 4
    MaxAllocations = 5
    MaxStrings = 3
INVARIANTS TypeOK BoundedWithoutStrings CountsFullBlocks ExactWhenQuiet
CHECK_DEADLOCK FALSE
