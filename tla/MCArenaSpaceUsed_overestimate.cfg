SPECIFICATION Spec
CONSTANTS
    BlockHeaderSize = 16
    StartBlockSize = 64
    MaxBlockSize = 128
    StringSize = 32
    StringHeaderSize = 16
    StringMinSize = 64
    StringMaxSize = 128
    Word = 4096
    Sizes <- MCSizes
    SerialArenaSize = 24
    MaxBlocks = 2
    MaxAllocations = 4
    MaxStrings = 3
INVARIANTS BoundedOverestimate
CHECK_DEADLOCK FALSE
