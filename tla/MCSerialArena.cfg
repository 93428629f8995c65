\* Blocks, surpluses and addresses that leave every kind of rest in a block.
SPECIFICATION Spec
CONSTANTS
    NULL = NULL
    BlockHeaderSize = 16
    PolicySize = 32
    StartBlockSize = 64
    MaxBlockSize = 128
    ChunkHeaderSize = 16
    NodeSize = 16
    ChunkStartSize = 32
    ChunkMaxSize = 64
    StringSize = 32
    StringHeaderSize = 16
    StringMinSize = 64
    StringMaxSize = 128
    WordBits = 12
    Word = 4096
    UserSizes <- MCUserSizes
    Residues = {8}
    Surplus = {4}
    Sizes = {8, 48}
    ArraySizes <- MCArraySizes
    Aligns = {16}
    MaxBlocks = 2
    MaxPieces = 4
    MaxObjects = 6
    MaxCleanups = 5
    MaxStrings = 5
INVARIANTS TypeOK NoOverlap CachedFits CountersExact
PROPERTIES DestroysOnce FreesEverything
