---------------------------- MODULE ArenaLayout ----------------------------
(***************************************************************************)
(* How large the memory is that an arena asks for: arena blocks, which     *)
(* double up to a limit, and string blocks, which hold a whole number of   *)
(* strings (arena.cc, string_block.h).  Sizes are in bytes.                *)
(***************************************************************************)
EXTENDS Integers, Sequences

CONSTANTS
    BlockHeaderSize,  \* kBlockHeaderSize
    StartBlockSize,   \* AllocationPolicy::start_block_size
    MaxBlockSize,     \* AllocationPolicy::max_block_size
    StringSize,       \* sizeof(std::string)
    StringHeaderSize, \* sizeof(StringBlock)
    StringMinSize,    \* StringBlock::min_size()
    StringMaxSize     \* StringBlock::max_size()

ASSUME LayoutAssumption ==
    /\ BlockHeaderSize \in Nat /\ StartBlockSize \in Nat /\ MaxBlockSize \in Nat
    /\ StringSize \in Nat \ {0} /\ StringHeaderSize \in Nat
    /\ StringMinSize \in Nat /\ StringMaxSize \in Nat
    /\ BlockHeaderSize % 8 = 0 /\ StringMinSize % 8 = 0
    /\ StartBlockSize > BlockHeaderSize
    /\ StringHeaderSize + StringSize <= StringMinSize /\ StringMinSize <= StringMaxSize

LargerOf(m, n)  == IF m >= n THEN m ELSE n
SmallerOf(m, n) == IF m <= n THEN m ELSE n

(* "Double the current block size, up to a limit" *)
AllocationSize(last_size, start_size, max_size) ==
    IF last_size = 0 THEN start_size ELSE SmallerOf(2 * last_size, max_size)

(* What AllocateBlock requests after a block of last_size bytes *)
BlockSize(last_size, min_bytes) ==
    LargerOf(AllocationSize(last_size, StartBlockSize, MaxBlockSize),
             BlockHeaderSize + min_bytes)

(* A string block has its rounded size and the size of the next one *)
RoundedSize(size) == size - ((size - StringHeaderSize) % StringSize)

EffectiveSize(sb) == sb.size - StringHeaderSize

NextSize(blocks) ==
    IF blocks = <<>> THEN StringMinSize ELSE blocks[Len(blocks)].next_size

NextNextSize(blocks) ==
    IF blocks = <<>> THEN StringMinSize
    ELSE SmallerOf(2 * NextSize(blocks), StringMaxSize)
=============================================================================
