--------------------------- MODULE ArenaSpaceUsed ---------------------------
(***************************************************************************)
(* SerialArena::SpaceUsed() called by a thread while the owner of the      *)
(* SerialArena allocates from it (arena.cc).  The two share five atomics   *)
(* and no lock: only head_ and string_block_ are stored with release and   *)
(* loaded with acquire, the others are relaxed.                            *)
(*                                                                         *)
(* Memory is that of C++11 for these orders.  Every atomic keeps the       *)
(* history of its values; a load may return any value not older than one   *)
(* the reader already knows of, and an acquire load of a release store     *)
(* makes known all that the owner had stored before it.                    *)
(***************************************************************************)
EXTENDS ArenaLayout

CONSTANTS
    SerialArenaSize, \* kSerialArenaSize
    Sizes,           \* sizes requested from Allocate
    Word,            \* size_t and uint64_t are modulo Word
    MaxBlocks, MaxAllocations, MaxStrings   \* bounds of the model

ASSUME SpaceUsedAssumption ==
    /\ SerialArenaSize \in Nat /\ Word \in Nat
    /\ 2 * BlockSize(0, SerialArenaSize) < Word
    /\ Sizes \subseteq Nat
    /\ MaxBlocks \in Nat /\ MaxAllocations \in Nat /\ MaxStrings \in Nat

VARIABLES
    blocks,        \* sizes of the arena blocks, immutable once made; 0: sentry
    string_blocks, \* sizes of the string blocks, immutable once made
    hist,          \* hist[x]: the values stored to x, each with its view
    todo,          \* the stores left in the owner's call, in program order
    given,         \* ghost: bytes handed out, of calls that began
    closed,        \* ghost: closed[b]: bytes used of the blocks up to b, all of
                   \* them no longer the head
    memory,        \* ghost: bytes of all blocks that the heap has provided
    count,         \* allocations so far
    quiet,         \* ghost: the owner was and stayed idle during the reader's call
    pc,            \* the reader: the atomic it loads next, or "idle", "done"
    view,          \* the reader: the oldest entry of each history it may load
    local          \* the reader: string block, head block and the sum

owner  == <<blocks, string_blocks, given, closed, memory, count>>
reader == <<pc, view, local>>
vars   == <<owner, hist, todo, quiet, reader>>

Atomics == {"string_block", "unused", "head", "ptr", "space_used"}

(* Fault: head_ is stored relaxed *)
Released_NotHead == {"string_block"}

Released == {"string_block", "head"}

-----------------------------------------------------------------------------
(* The owner.  A pointer is a block and an offset; block 0 is the sentry    *)
(* and string block 0 is null.                                              *)

Latest(x) == hist[x][Len(hist[x])].value

Store(x, v) == [atomic |-> x, value |-> v]

BlockBytes(b) == IF b = 0 THEN 0 ELSE blocks[b]

(* The bytes used of the blocks that are no longer the head *)
UsedBefore(b) == IF b = 0 THEN 0 ELSE closed[b]

(* The heap provides size bytes: they lie in the half of the address space  *)
(* that a process has for itself                                            *)
Obtain(size) == 2 * (memory + size) < Word /\ memory' = memory + size

(* A SerialArena lies in its own first block (SerialArena::New), or is the   *)
(* first_arena_ of the arena, with a block or with the sentry                *)
Init ==
    \E reserved \in {0, SerialArenaSize} : \E first \in {0, BlockSize(0, reserved)} :
        LET value(x) ==
                CASE x = "ptr" /\ first > 0 ->
                        [block |-> 1, offset |-> BlockHeaderSize + reserved]
                  [] x = "ptr" /\ first = 0 -> [block |-> 0, offset |-> 0]
                  [] x = "head" /\ first > 0 -> 1
                  [] OTHER -> 0
        IN  /\ reserved > 0 => first > 0
            /\ blocks = IF first > 0 THEN <<first>> ELSE <<>>
            /\ string_blocks = <<>>
            /\ hist = [x \in Atomics |->
                          <<[value |-> value(x), view |-> [y \in Atomics |-> 1]]>>]
            /\ todo = <<>>
            /\ given = reserved /\ closed = <<>> /\ memory = first
            /\ count = 0 /\ quiet = FALSE
            /\ pc = "idle" /\ view = [x \in Atomics |-> 1]
            /\ local = [sb |-> 0, head |-> 0, sum |-> 0]

Begins == todo = <<>> /\ count < MaxAllocations /\ count' = count + 1 /\ quiet' = FALSE

(* Fault: the size is compared with that of a block without header *)
Fits_ForgetsHeader(n) ==
    LET p == Latest("ptr")
    IN  p.block > 0 /\ p.offset - BlockHeaderSize + n <= BlockBytes(p.block)

Fits(n) ==
    LET p == Latest("ptr")
    IN  p.block > 0 /\ p.offset + n <= (BlockBytes(p.block) \div 8) * 8

BumpPtr(p, n) == Store("ptr", [p EXCEPT !.offset = @ + n])

Allocate(n) ==
    /\ Begins
    /\ Fits(n)
    /\ todo' = <<BumpPtr(Latest("ptr"), n)>>
    /\ given' = given + n
    /\ UNCHANGED <<blocks, string_blocks, closed, memory, hist, reader>>

(* AllocateAlignedFallback: AllocateNewBlock, then the allocation in it *)
AllocateInNewBlock(n) ==
    /\ Begins
    /\ ~Fits(n)
    /\ Len(blocks) < MaxBlocks
    /\ LET old   == Latest("ptr")
           used  == old.offset - BlockHeaderSize
           fresh == [block |-> Len(blocks) + 1, offset |-> BlockHeaderSize]
           account == Store("space_used", (Latest("space_used") + used) % Word)
           size  == BlockSize(BlockBytes(old.block), n)
       IN  /\ Obtain(size)
           /\ blocks' = Append(blocks, size)
           /\ todo' = (IF old.block = 0 THEN <<>> ELSE <<account>>)
                      \o <<Store("ptr", fresh), Store("head", fresh.block),
                           BumpPtr(fresh, n)>>
           /\ closed' = IF old.block = 0 THEN closed
                        ELSE Append(closed, UsedBefore(Len(closed)) + used)
    /\ given' = given + n
    /\ UNCHANGED <<string_blocks, hist, reader>>

(* MaybeAllocateString *)
AllocateString ==
    /\ Begins
    /\ Latest("unused") # 0
    /\ todo' = <<Store("unused", Latest("unused") - StringSize)>>
    /\ given' = given + StringSize
    /\ UNCHANGED <<blocks, string_blocks, closed, memory, hist, reader>>

(* "Correct space_used_ to avoid double counting": the memory of a string    *)
(* block counts when its strings do.  Fault: no correction.                  *)
Corrected_Not(used, n) == used
Corrected(used, n) == (used + Word - n) % Word

(* AllocateFromStringBlockFallback: the full block is accounted for, the new *)
(* one is bump-allocated, and then its memory not counted, or comes from the *)
(* heap.                                                                     *)
AllocateStringFallback ==
    /\ Begins
    /\ Latest("unused") = 0
    /\ Len(string_blocks) < MaxStrings
    /\ LET n     == NextSize(string_blocks)
           fresh == [size |-> RoundedSize(n), next_size |-> NextNextSize(string_blocks)]
           used  == IF string_blocks = <<>> THEN Latest("space_used")
                    ELSE (Latest("space_used")
                          + EffectiveSize(string_blocks[Len(string_blocks)])) % Word
           account == IF string_blocks = <<>> THEN <<>> ELSE <<Store("space_used", used)>>
           bump  == IF Fits(n)
                    THEN <<BumpPtr(Latest("ptr"), n),
                           Store("space_used", Corrected(used, n))>>
                    ELSE <<>>
       IN  /\ IF Fits(n) THEN UNCHANGED memory ELSE Obtain(fresh.size)
           /\ string_blocks' = Append(string_blocks, fresh)
           /\ todo' = account \o bump
                      \o <<Store("string_block", Len(string_blocks')),
                           Store("unused", EffectiveSize(fresh) - StringSize)>>
    /\ given' = given + StringSize
    /\ UNCHANGED <<blocks, closed, hist, reader>>

(* The next store of the owner; a release store carries all it stored *)
StoreNext ==
    /\ todo # <<>>
    /\ LET s == Head(todo)
           known == [y \in Atomics |-> IF s.atomic \in Released THEN Len(hist[y]) ELSE 1]
       IN  hist' = [hist EXCEPT ![s.atomic] =
                       Append(@, [value |-> s.value, view |-> known])]
    /\ todo' = Tail(todo)
    /\ quiet' = FALSE
    /\ UNCHANGED <<owner, reader>>

-----------------------------------------------------------------------------
(* The reader: SpaceUsed(), one load a step *)

(* Entry i of the history of x is loaded; with it comes the view of the      *)
(* owner's store if that released                                            *)
Load(x, i) ==
    /\ i \in view[x] .. Len(hist[x])
    /\ LET carried == IF x \in Released THEN hist[x][i].view ELSE view
       IN  view' = [y \in Atomics |-> LargerOf(LargerOf(view[y], carried[y]),
                                               IF y = x THEN i ELSE 1)]

Value(x, i) == hist[x][i].value

Reads(x) == pc = x /\ UNCHANGED <<owner, hist, todo, quiet>>

Call ==
    /\ pc \in {"idle", "done"}
    /\ pc' = "string_block"
    /\ local' = [sb |-> 0, head |-> 0, sum |-> 0]
    /\ UNCHANGED <<owner, hist, todo>>

SpaceUsed == Call /\ quiet' = FALSE /\ UNCHANGED view

(* The owner is between two calls and the reader knows all it has done: it   *)
(* is the owner itself, or was told after the last of them.                  *)
SpaceUsedSynchronized ==
    /\ Call
    /\ todo = <<>>
    /\ quiet' = TRUE
    /\ view' = [x \in Atomics |-> Len(hist[x])]

LoadStringBlock ==
    /\ Reads("string_block")
    /\ \E i \in DOMAIN hist["string_block"] :
        /\ Load("string_block", i)
        /\ local' = [local EXCEPT !.sb = Value("string_block", i)]
        /\ pc' = IF local'.sb = 0 THEN "head" ELSE "unused"

LoadUnused ==
    /\ Reads("unused")
    /\ \E i \in DOMAIN hist["unused"] :
        /\ Load("unused", i)
        /\ local' = [local EXCEPT !.sum =
                        (EffectiveSize(string_blocks[local.sb]) + Word
                         - Value("unused", i)) % Word]
        /\ pc' = "head"

LoadHead ==
    /\ Reads("head")
    /\ \E i \in DOMAIN hist["head"] :
        /\ Load("head", i)
        /\ local' = [local EXCEPT !.head = Value("head", i)]
        /\ pc' = IF local'.head = 0 THEN "done" ELSE "ptr"

(* The distance from the block that was read to a ptr_ in another block is   *)
(* at least its size, or negative and thus huge: std::min takes the size     *)
(* Fault: without std::min.                                                  *)
UsedOf_NotCapped(p, b) ==
    IF p.block = b THEN p.offset - BlockHeaderSize ELSE Word - blocks[b]

UsedOf(p, b) ==
    IF p.block = b THEN SmallerOf(p.offset - BlockHeaderSize, blocks[b]) ELSE blocks[b]

LoadPtr ==
    /\ Reads("ptr")
    /\ \E i \in DOMAIN hist["ptr"] :
        /\ Load("ptr", i)
        /\ local' = [local EXCEPT !.sum =
                        (@ + UsedOf(Value("ptr", i), local.head)) % Word]
        /\ pc' = "space_used"

LoadSpaceUsed ==
    /\ Reads("space_used")
    /\ \E i \in DOMAIN hist["space_used"] :
        /\ Load("space_used", i)
        /\ local' = [local EXCEPT !.sum = (@ + Value("space_used", i)) % Word]
        /\ pc' = "done"

Next ==
    \/ \E n \in Sizes : Allocate(n)
    \/ \E n \in Sizes : AllocateInNewBlock(n)
    \/ AllocateString \/ AllocateStringFallback \/ StoreNext
    \/ SpaceUsed \/ SpaceUsedSynchronized \/ LoadStringBlock \/ LoadUnused \/ LoadHead
    \/ LoadPtr \/ LoadSpaceUsed

Spec == Init /\ [][Next]_vars

-----------------------------------------------------------------------------
(* Properties *)

TypeOK ==
    /\ \A x \in Atomics : view[x] \in 1 .. Len(hist[x])
    /\ pc \in Atomics \cup {"idle", "done"}
    /\ \A x \in {"unused", "space_used"} : Latest(x) \in 0 .. Word - 1
    /\ Latest("head") \in 0 .. Len(blocks)
    /\ Latest("string_block") \in 0 .. Len(string_blocks)
    /\ \A i \in DOMAIN hist["ptr"] :
        LET p == Value("ptr", i) IN p.offset <= BlockBytes(p.block)
    /\ given \in Nat /\ local.sum \in 0 .. Word - 1

Returned == pc = "done"

StringBlockBytes(sb) == IF sb = 0 THEN 0 ELSE string_blocks[sb].size

(* "race conditions can lead to overestimates (up to the current block       *)
(* size)": whatever the reader loads while the owner allocates, it returns   *)
(* no more than what was handed out by the end of its call and the size of   *)
(* the arena block and of the string block that it found current.            *)
BoundedOverestimate ==
    Returned => local.sum <= given + BlockBytes(local.head) + StringBlockBytes(local.sb)

(* That bound, which strings break, for an arena without strings (the loads  *)
(* of ptr_, head_ and space_used_ race with AllocateNewBlock)                *)
BoundedWithoutStrings == string_blocks = <<>> => BoundedOverestimate

(* The bytes the SerialArena itself takes of its first block *)
Reserved ==
    LET p == Value("ptr", 1) IN IF p.block = 0 THEN 0 ELSE p.offset - BlockHeaderSize

(* "Stale data can lead to underestimates": but without strings, every block *)
(* that was full when the one the reader found became the head is counted in *)
(* whole, and so is kSerialArenaSize, which ThreadSafeArena::SpaceUsed       *)
(* subtracts from the unsigned result.                                       *)
CountsFullBlocks ==
    Returned /\ local.head # 0 /\ string_blocks = <<>> =>
        /\ local.sum >= UsedBefore(local.head - 1)
        /\ local.sum >= Reserved

(* Called by the owner, or while it is idle and after synchronizing with it, *)
(* SpaceUsed() is exactly the number of bytes handed out, once there is an   *)
(* arena block.                                                              *)
ExactWhenQuiet == Returned /\ quiet /\ local.head # 0 => local.sum = given
=============================================================================
