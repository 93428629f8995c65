SPECIFICATION Spec
CONSTANTS
    NULL = NULL
    BlockHeaderSize = 16
    PolicySize = 32
    StartBlockSize = 64
    MaxBlockSize = 128
    ChunkHeaderSize = 16
    NodeSize = 16
    ChunkStartSize = 32
    ChunkMaxSize = 64
    StringSize = 32
    StringHeaderSize = 16
    StringMinSize = 64
    StringMaxSize = 128
    WordBits = 12
    Word = 4096
    UserSizes = {0}
    Residues <- MCResidues
    Surplus <- MCSurplus
    Sizes = {8, 48}
    ArraySizes = {}
    Aligns = {8, 16}
    MaxBlocks = 2
    MaxPieces = 0
    MaxCleanups = 1
    MaxStrings = 5
    MaxObjects = 6
INVARIANTS SpaceUsedTotal
