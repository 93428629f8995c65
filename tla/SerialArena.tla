---------------------------- MODULE SerialArena ----------------------------
(***************************************************************************)
(* One SerialArena (serial_arena.h, arena.cc): the bump allocator that one *)
(* thread uses without synchronization, here the first arena of a          *)
(* ThreadSafeArena that only its owner uses.  It keeps                     *)
(*   - a list of blocks, of which the head serves allocations;             *)
(*   - a list of cleanup chunks, the destructors to run;                   *)
(*   - a list of string blocks, on the heap or inside an arena block;      *)
(*   - free lists of array memory that containers returned.                *)
(*                                                                         *)
(* An address is a block of the list and an offset in it, in bytes.  The   *)
(* layout constants of the code are parameters: lists fill up soon.        *)
(***************************************************************************)
EXTENDS ArenaLayout, FiniteSets, SequencesExt, FiniteSetsExt

CONSTANTS
    NULL,
    UserSizes,        \* sizes of the initial block a user may pass, 0: none
    PolicySize,       \* kAllocPolicySize
    ChunkHeaderSize,  \* sizeof(ChunkList::Chunk)
    NodeSize,         \* sizeof(CleanupNode)
    ChunkStartSize,   \* kStartSize of AllocateCleanupChunk
    ChunkMaxSize,     \* kMaxSize of AllocateCleanupChunk
    Residues,         \* addresses of blocks modulo the largest alignment
    Surplus,          \* what AllocateAtLeast may add to a request
    Sizes,            \* sizes requested from Allocate
    ArraySizes,       \* sizes requested for arrays
    Aligns,           \* alignments of objects with a cleanup
    WordBits,         \* bits of a size_t
    Word,             \* size_t is modulo Word
    MaxBlocks, MaxPieces, MaxCleanups, MaxStrings,  \* bounds of the model
    MaxObjects        \* bound: pieces, cleanups and strings together

ASSUME SizesAssumption ==
    /\ \A n \in Sizes \cup ArraySizes \cup Aligns \cup {PolicySize, StringMaxSize} :
          n \in Nat \ {0} /\ n % 8 = 0
    /\ \A n \in Residues : n \in Nat /\ n % 8 = 0
    /\ \A n \in ArraySizes : n >= 16
    /\ NodeSize \in Nat \ {0} /\ ChunkHeaderSize \in Nat
    /\ ChunkStartSize \in Nat /\ ChunkStartSize >= ChunkHeaderSize + NodeSize
    /\ ChunkMaxSize \in Nat /\ ChunkMaxSize >= ChunkStartSize

(* The first block, whoever provides it, lies in the address space          *)
ASSUME WordAssumption ==
    /\ WordBits \in Nat /\ Word = 2 ^ WordBits /\ Word > 0
    /\ UserSizes \subseteq 0 .. Word - 1
    /\ \A s \in Surplus : s \in Nat /\ BlockSize(0, PolicySize) + s < Word

VARIABLES
    policy,        \* alloc_policy_: its pointer and its user-owned flag
    mem,           \* head_, ptr_, limit_, space_used_, space_allocated_
    cleanup,       \* the chunks of cleanup_list_, the head last
    next,          \* cleanup_list_.next_, as the number of nodes in the head
    string_blocks, \* the list of string blocks, string_block_ last
    unused,        \* string_block_unused_
    cached,        \* cached_blocks_: the place of its array and its lists
    owned,         \* ghost: memory handed out and not returned
    registered,    \* ghost: cleanups registered, in order
    strings,       \* ghost: strings handed out, in order
    given,         \* ghost: bytes handed out for the first time, with padding
    done           \* ghost: what the last Reset or destruction did

lists == <<cleanup, next, string_blocks, unused, cached>>
ghosts == <<owned, registered, strings, given, done>>
vars == <<policy, mem, lists, ghosts>>

-----------------------------------------------------------------------------
(* Sizes and alignment *)

Ceil(n, align) == ((n + align - 1) \div align) * align

(* Mutant: no room for the padding *)
AlignUpTo_NoPadding(n, align) == n

AlignUpTo(n, align) == n + align - 8

BitWidth(n) == Cardinality({bit \in 0 .. WordBits - 1 : 2 ^ bit <= n})

(* A block of at least this size, wherever the allocator puts it *)
SomeBlock(size) ==
    {[size |-> size + s, residue |-> r] : s \in Surplus, r \in Residues}

AllocateBlock(last_size, min_bytes) ==
    SomeBlock(BlockSize(last_size, min_bytes))

Limit(b) == (b.size \div 8) * 8

-----------------------------------------------------------------------------
(* Bump allocation: operators on the record mem *)

Sentry == [blocks |-> <<>>, ptr |-> 0, limit |-> 0, space_used |-> 0,
           space_allocated |-> 0]

HeadBlock(m) == Last(m.blocks)
HeadSize(m) == IF m.blocks = <<>> THEN 0 ELSE HeadBlock(m).size

UsedInHead(m) == IF m.blocks = <<>> THEN 0 ELSE m.ptr - BlockHeaderSize

AddSpaceUsed(m, n) == [m EXCEPT !.space_used = (@ + n) % Word]
AddSpaceAllocated(m, n) == [m EXCEPT !.space_allocated = (@ + n) % Word]

FirstIn(b, offset) ==
    [blocks |-> <<b>>, ptr |-> offset, limit |-> Limit(b), space_used |-> 0,
     space_allocated |-> b.size]

(* Mutant: the old block counts as full *)
PushBlock_CountsFull(m, b) ==
    [AddSpaceAllocated(AddSpaceUsed(m, HeadSize(m)), b.size)
        EXCEPT !.blocks = Append(@, b), !.ptr = BlockHeaderSize, !.limit = Limit(b)]

PushBlock(m, b) ==
    [AddSpaceAllocated(AddSpaceUsed(m, UsedInHead(m)), b.size)
        EXCEPT !.blocks = Append(@, b), !.ptr = BlockHeaderSize, !.limit = Limit(b)]

(* The model has at most MaxBlocks blocks *)
AllocateNewBlock(m, n) ==
    {PushBlock(m, b) : b \in {c \in AllocateBlock(HeadSize(m), n) :
                                 Len(m.blocks) < MaxBlocks}}

MaybeFits(m, n) == m.limit - m.ptr >= n
Bump(m, n) == [m EXCEPT !.ptr = @ + n]

AllocateAligned(m, n) ==
    {Bump(k, n) : k \in IF MaybeFits(m, n) THEN {m} ELSE AllocateNewBlock(m, n)}

(* The offset of ptr_ in its block, raised to this alignment *)
AlignedPtr(m, align) ==
    LET residue == IF m.blocks = <<>> THEN 0 ELSE HeadBlock(m).residue
    IN  Ceil(m.ptr + residue, align) - residue

AllocateAlignedAs(m, n, align) ==
    LET fits == AlignedPtr(m, align) + n <= m.limit
    IN  {[k EXCEPT !.ptr = AlignedPtr(k, align) + n] :
            k \in IF fits THEN {m} ELSE AllocateNewBlock(m, AlignUpTo(n, align))}

(* The last n bytes that m handed out *)
Piece(m, n, use) ==
    [block |-> Len(m.blocks), from |-> m.ptr - n, to |-> m.ptr, use |-> use]

-----------------------------------------------------------------------------
(* The cached blocks: lists[i] of the code is lists[i + 1] here *)

NoCache == [length |-> 0, at |-> NULL, lists |-> <<>>]

(* Mutant: the index of the list that would take this piece *)
CacheIndexToTake_NotRounded(n) == BitWidth(n) - 5 + 1

CacheIndexToTake(n) == BitWidth(n - 1) - 4 + 1
CacheIndexToReturn(n) == BitWidth(n) - 5 + 1

CanTake(n) ==
    LET i == CacheIndexToTake(n)
    IN  n >= 16 /\ i \in 1 .. cached.length /\ cached.lists[i] # <<>>

(* Mutant: the piece that became the array is also put on a list *)
BecomeFreelist_FallsThrough(piece) ==
    LET room == (piece.to - piece.from) \div 8
    IN  [length |-> room, at |-> piece,
         lists |-> [i \in 1 .. room |->
                       IF i = CacheIndexToReturn(piece.to - piece.from) THEN <<piece>>
                       ELSE IF i <= cached.length THEN cached.lists[i] ELSE <<>>]]

BecomeFreelist(piece) ==
    LET room == (piece.to - piece.from) \div 8
        kept == cached.lists
    IN  [length |-> SmallerOf(64, room), at |-> piece,
         lists |-> [i \in 1 .. SmallerOf(64, room) |->
                       IF i <= cached.length THEN kept[i] ELSE <<>>]]

(* A free piece is on top of its list *)
Push(i, piece) == [cached EXCEPT !.lists[i] = <<piece>> \o @]

-----------------------------------------------------------------------------
(* The cleanup list and the string blocks *)

ChunkCapacity(size) == (size - ChunkHeaderSize) \div NodeSize

NewChunk(size) ==
    [size |-> size, nodes |-> [i \in 1 .. ChunkCapacity(size) |-> NULL]]

HasRoom == cleanup # <<>> /\ next < Len(Last(cleanup).nodes)

AddFromExisting(chunks, i, elem) == [chunks EXCEPT ![Len(chunks)].nodes[i] = elem]

ChunkSizes ==
    LET last_size == IF cleanup = <<>> THEN 0 ELSE Last(cleanup).size
    IN  {AllocationSize(last_size, ChunkStartSize, ChunkMaxSize) + s : s \in Surplus}

(* ChunkList::Cleanup: the head from next_, the older chunks from Last() *)
CleanupList ==
    LET of(i) == IF i = Len(cleanup) THEN SubSeq(cleanup[i].nodes, 1, next)
                 ELSE cleanup[i].nodes
    IN  Reverse(FlattenSeq([i \in DOMAIN cleanup |-> of(i)]))

(* StringBlock::Emplace with the memory "at", StringBlock::New without it *)
NewStringBlock(at) ==
    [size |-> RoundedSize(NextSize(string_blocks)), heap |-> at = NULL, at |-> at,
     next_size |-> NextNextSize(string_blocks)]

(* Mutant: the unused strings of the active block are destroyed too *)
StringsToDestroy_WholeBlock ==
    FlattenSeq([i \in DOMAIN string_blocks |->
        [j \in 1 .. EffectiveSize(string_blocks[i]) \div StringSize |->
            <<i, (j - 1) * StringSize>>]])

(* FreeStringBlocks: of the active block only the strings in use *)
StringsToDestroy ==
    LET from(i) == IF i = Len(string_blocks) THEN unused ELSE 0
        count(i) == (EffectiveSize(string_blocks[i]) - from(i)) \div StringSize
    IN  FlattenSeq([i \in DOMAIN string_blocks |->
            [j \in 1 .. count(i) |-> <<i, from(i) + (j - 1) * StringSize>>]])

-----------------------------------------------------------------------------
(* Construction *)

NoPolicy == [live |-> FALSE, user |-> FALSE, pointer |-> FALSE]

Init ==
    /\ policy = NoPolicy
    /\ mem = Sentry
    /\ cleanup = <<>> /\ next = 0
    /\ string_blocks = <<>> /\ unused = 0
    /\ cached = NoCache
    /\ owned = {} /\ registered = <<>> /\ strings = <<>> /\ given = 0 /\ done = NULL

UserBlocks(size) == {[size |-> size, residue |-> r] : r \in Residues}

(* Without a policy: a user block that holds more than a header, or none *)
ConstructDefault ==
    /\ ~policy.live
    /\ \E size \in UserSizes :
        LET user == size > BlockHeaderSize
        IN  /\ policy' = [live |-> TRUE, user |-> user, pointer |-> FALSE]
            /\ mem' \in IF user THEN {FirstIn(b, BlockHeaderSize) : b \in UserBlocks(size)}
                        ELSE {Sentry}
    /\ done' = NULL
    /\ UNCHANGED <<lists, owned, registered, strings, given>>

(* With a policy, which is stored in the first block, allocated if need be *)
ConstructWithPolicy ==
    /\ ~policy.live
    /\ \E size \in UserSizes :
        LET user == size >= BlockHeaderSize + PolicySize
        IN  /\ policy' = [live |-> TRUE, user |-> user, pointer |-> TRUE]
            /\ mem' \in {Bump(FirstIn(b, BlockHeaderSize), PolicySize) :
                            b \in IF user THEN UserBlocks(size)
                                  ELSE AllocateBlock(0, PolicySize)}
    /\ owned' = {Piece(mem', PolicySize, "policy")}
    /\ given' = PolicySize
    /\ done' = NULL
    /\ UNCHANGED <<lists, registered, strings>>

-----------------------------------------------------------------------------
(* Allocation *)

CachedPieces == UNION {ToSet(cached.lists[i]) : i \in DOMAIN cached.lists}

Emplaced == {sb.at : sb \in {t \in ToSet(string_blocks) : ~t.heap}}

(* All memory in use: by clients, by the policy, by strings, by free lists *)
Pieces ==
    owned \cup Emplaced \cup CachedPieces
    \cup (IF cached.at = NULL THEN {} ELSE {cached.at})

(* Allocations of the model stop at its bounds *)
Room == policy.live /\ Cardinality(Pieces) + Len(registered) + Len(strings) < MaxObjects

Allocate(n) ==
    /\ Room /\ Cardinality(Pieces) < MaxPieces
    /\ mem' \in AllocateAligned(mem, n)
    /\ owned' = owned \cup {Piece(mem', n, "object")}
    /\ given' = given + n
    /\ done' = NULL
    /\ UNCHANGED <<policy, lists, registered, strings>>

(* AllocateAligned<kArray> from the free lists: of the piece on top, the     *)
(* client gets the n bytes it asked for                                      *)
AllocateForArrayCached(n) ==
    /\ Room /\ Cardinality(Pieces) < MaxPieces
    /\ CanTake(n)
    /\ LET i == CacheIndexToTake(n)
           top == cached.lists[i][1]
       IN  /\ owned' = owned \cup {[top EXCEPT !.to = top.from + n]}
           /\ cached' = [cached EXCEPT !.lists[i] = Tail(@)]
    /\ done' = NULL
    /\ UNCHANGED <<policy, mem, cleanup, next, string_blocks, unused,
                   registered, strings, given>>

AllocateForArray(n) ==
    /\ Room /\ Cardinality(Pieces) < MaxPieces
    /\ ~CanTake(n)
    /\ mem' \in AllocateAligned(mem, n)
    /\ owned' = owned \cup {Piece(mem', n, "array")}
    /\ given' = given + n
    /\ done' = NULL
    /\ UNCHANGED <<policy, lists, registered, strings>>

(* The container returns what it asked for *)
ReturnArrayMemory(piece) ==
    /\ piece.use = "array"
    /\ LET i == CacheIndexToReturn(piece.to - piece.from)
       IN  cached' = IF i \in 1 .. cached.length THEN Push(i, piece)
                     ELSE BecomeFreelist(piece)
    /\ owned' = owned \ {piece}
    /\ done' = NULL
    /\ UNCHANGED <<policy, mem, cleanup, next, string_blocks, unused,
                   registered, strings, given>>

(* Add or AddFallback, for the element registered next, after the memory m *)
AddCleanup(m) ==
    LET elem == Len(registered) + 1
    IN  /\ registered' = Append(registered, elem)
        /\ \/ /\ HasRoom
              /\ next' = next + 1
              /\ cleanup' = AddFromExisting(cleanup, next', elem)
              /\ mem' = m
           \/ /\ ~HasRoom
              /\ next' = 1
              /\ \E size \in ChunkSizes :
                    /\ cleanup' = AddFromExisting(Append(cleanup, NewChunk(size)), 1, elem)
                    /\ mem' = AddSpaceAllocated(m, size)

(* arena->Own(), OwnDestructor(): the element is elsewhere *)
Own ==
    /\ Room /\ Len(registered) < MaxCleanups
    /\ AddCleanup(mem)
    /\ done' = NULL
    /\ UNCHANGED <<policy, string_blocks, unused, cached, owned, strings, given>>

AllocateAlignedWithCleanup(n, align) ==
    /\ Room /\ Cardinality(Pieces) < MaxPieces /\ Len(registered) < MaxCleanups
    /\ \E m \in AllocateAlignedAs(mem, n, align) :
        LET start == IF Len(m.blocks) = Len(mem.blocks) THEN mem.ptr ELSE BlockHeaderSize
        IN  /\ AddCleanup(m)
            /\ owned' = owned \cup {Piece(m, n, "object")}
            /\ given' = given + (m.ptr - start)
    /\ done' = NULL
    /\ UNCHANGED <<policy, string_blocks, unused, cached, strings>>

(* The next string of the active block is at the end of its unused part *)
AllocateFromStringBlock ==
    /\ Room /\ Len(strings) < MaxStrings
    /\ unused # 0
    /\ unused' = unused - StringSize
    /\ strings' = Append(strings, <<Len(string_blocks), unused'>>)
    /\ given' = given + StringSize
    /\ done' = NULL
    /\ UNCHANGED <<policy, mem, cleanup, next, string_blocks, cached, owned, registered>>

AllocateFromStringBlockFallback ==
    /\ Room /\ Len(strings) < MaxStrings
    /\ unused = 0
    /\ LET full == IF string_blocks = <<>> THEN mem
                   ELSE AddSpaceUsed(mem, EffectiveSize(Last(string_blocks)))
           bumped == Bump(full, NextSize(string_blocks))
           inside == NewStringBlock(Piece(bumped, NextSize(string_blocks), "strings"))
           outside == NewStringBlock(NULL)
       IN  IF MaybeFits(full, NextSize(string_blocks))
           THEN /\ mem' = AddSpaceUsed(bumped, -NextSize(string_blocks))
                /\ string_blocks' = Append(string_blocks, inside)
           ELSE /\ mem' = AddSpaceAllocated(full, outside.size)
                /\ string_blocks' = Append(string_blocks, outside)
    /\ unused' = EffectiveSize(Last(string_blocks')) - StringSize
    /\ strings' = Append(strings, <<Len(string_blocks'), unused'>>)
    /\ given' = given + StringSize
    /\ done' = NULL
    /\ UNCHANGED <<policy, cleanup, next, cached, owned, registered>>

-----------------------------------------------------------------------------
(* Reset and destruction *)

SumOf(s) == FoldLeft(LAMBDA a, b : a + b, 0, s)

(* Mutant: only the older blocks are deleted *)
HeapStringBlocks_NotActive ==
    SelectSeq(string_blocks, LAMBDA sb : sb.heap /\ sb # Last(string_blocks))

HeapStringBlocks == SelectSeq(string_blocks, LAMBDA sb : sb.heap)

(* The last block of the list is kept from Free: the user's, the policy's or *)
(* the sentry, which is not in "blocks"                                      *)
Kept == IF policy.user \/ policy.pointer THEN 1 ELSE 0

Freed ==
    SumOf([i \in 1 .. Len(mem.blocks) - Kept |-> mem.blocks[i + Kept].size])
    + SumOf([i \in DOMAIN cleanup |-> cleanup[i].size])
    + SumOf([i \in DOMAIN HeapStringBlocks |-> HeapStringBlocks[i].size])

Done(released) ==
    [cleanups |-> CleanupList, strings |-> StringsToDestroy, released |-> released]

Reset ==
    /\ policy.live
    /\ LET offset == IF policy.pointer THEN BlockHeaderSize + PolicySize
                     ELSE BlockHeaderSize
       IN  mem' = IF Kept = 1 THEN FirstIn(mem.blocks[1], offset) ELSE Sentry
    /\ cleanup' = <<>> /\ next' = 0
    /\ string_blocks' = <<>> /\ unused' = 0
    /\ cached' = NoCache
    /\ owned' = {piece \in owned : piece.use = "policy"}
    /\ registered' = <<>> /\ strings' = <<>>
    /\ given' = IF policy.pointer THEN PolicySize ELSE 0
    /\ done' = Done(Freed)
    /\ UNCHANGED policy

Destroy ==
    /\ policy.live
    /\ policy' = NoPolicy
    /\ mem' = Sentry
    /\ cleanup' = <<>> /\ next' = 0
    /\ string_blocks' = <<>> /\ unused' = 0
    /\ cached' = NoCache
    /\ owned' = {} /\ registered' = <<>> /\ strings' = <<>> /\ given' = 0
    /\ done' = Done(Freed + IF Kept = 1 /\ ~policy.user THEN mem.blocks[1].size ELSE 0)

Next ==
    \/ ConstructDefault \/ ConstructWithPolicy
    \/ \E n \in Sizes : Allocate(n)
    \/ \E n \in ArraySizes : AllocateForArrayCached(n)
    \/ \E n \in ArraySizes : AllocateForArray(n)
    \/ \E piece \in owned : ReturnArrayMemory(piece)
    \/ Own
    \/ \E n \in Sizes, align \in Aligns : AllocateAlignedWithCleanup(n, align)
    \/ AllocateFromStringBlock \/ AllocateFromStringBlockFallback
    \/ Reset \/ Destroy

Spec == Init /\ [][Next]_vars

-----------------------------------------------------------------------------
(* Properties *)

Overlap(p, q) == p.block = q.block /\ p.from < q.to /\ q.from < p.to

(* The records and lists have their types, and ptr_ lies in the head block.  *)
TypeOK ==
    /\ policy \in [live : BOOLEAN, user : BOOLEAN, pointer : BOOLEAN]
    /\ mem.space_used \in 0 .. Word - 1 /\ mem.space_allocated \in 0 .. Word - 1
    /\ mem.ptr % 8 = 0 /\ mem.ptr <= mem.limit /\ mem.limit <= HeadSize(mem)
    /\ \A p \in Pieces : p.from % 8 = 0 /\ p.from <= p.to
    /\ next \in 0 .. (IF cleanup = <<>> THEN 0 ELSE Len(Last(cleanup).nodes))
    /\ unused \in {k * StringSize : k \in 0 .. StringMaxSize}
    /\ cached.length = Len(cached.lists)

(* No byte is handed out twice: what clients hold, the stored policy, the    *)
(* emplaced string blocks, the returned arrays and the array of free lists   *)
(* are pairwise disjoint, each inside one block of the list, behind its      *)
(* header and, in the head block, below ptr_.                                *)
NoOverlap ==
    /\ \A p, q \in Pieces : p # q => ~Overlap(p, q)
    /\ \A p \in Pieces :
        /\ p.block \in DOMAIN mem.blocks
        /\ BlockHeaderSize <= p.from
        /\ p.to <= IF p.block = Len(mem.blocks) THEN mem.ptr
                   ELSE Limit(mem.blocks[p.block])
    /\ \A i \in DOMAIN cached.lists : IsInjective(cached.lists[i])

(* Whatever AllocateAligned<kArray> takes from a free list is as large as    *)
(* any request that looks there, although sizes are rounded up to find it    *)
(* and down to file it, and the array of free lists fits in its memory.      *)
CachedFits ==
    /\ \A i \in DOMAIN cached.lists : \A p \in ToSet(cached.lists[i]) :
        \A n \in ArraySizes : CacheIndexToTake(n) = i => n <= p.to - p.from
    /\ cached.at # NULL => 8 * cached.length <= cached.at.to - cached.at.from

(* The sentry block returns early, without space_used_ *)
SpaceUsed ==
    LET inStrings == IF string_blocks = <<>> THEN 0
                     ELSE EffectiveSize(Last(string_blocks)) - unused
    IN  IF mem.blocks = <<>> THEN inStrings
        ELSE (inStrings + SmallerOf(UsedInHead(mem), HeadSize(mem)) + mem.space_used)
                % Word

(* SpaceAllocated() is the total of everything the arena has to free: the    *)
(* blocks, the cleanup chunks and the string blocks on the heap.  For the    *)
(* thread that owns the arena, once it has a block, SpaceUsed() is exactly   *)
(* the number of bytes handed out: a string block inside an arena block is   *)
(* counted once, by its strings, although ptr_ has moved over the whole of   *)
(* it, and strings on the heap made before that block count too.             *)
CountersExact ==
    /\ mem.space_allocated =
           (Freed + IF policy.live /\ Kept = 1 THEN mem.blocks[1].size ELSE 0) % Word
    /\ mem.blocks # <<>> => SpaceUsed = given

(* "Returns the total space used by the arena", with an arena block or not:  *)
(* false after the second string block on the heap (see README).             *)
SpaceUsedTotal == SpaceUsed = given

Strings == {strings[i] : i \in DOMAIN strings}

(* Reset and the destructor run every registered cleanup once, in the        *)
(* reverse order of registration, across the chunks, and destroy every       *)
(* string that was handed out once, and no other.                            *)
DestroysOnce ==
    [][Reset \/ Destroy =>
          /\ done'.cleanups = Reverse(registered)
          /\ Len(done'.strings) = Len(strings) /\ ToSet(done'.strings) = Strings]_vars

(* What they free is what SpaceAllocated() counted, but for the first block  *)
(* when it is kept or belongs to the user; and that is all Reset leaves.     *)
FreesEverything ==
    [][/\ Reset => done'.released + mem'.space_allocated = mem.space_allocated
       /\ Destroy => done'.released = mem.space_allocated
                        - (IF policy.user THEN mem.blocks[1].size ELSE 0)]_vars
=============================================================================
