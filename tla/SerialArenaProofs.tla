------------------------- MODULE SerialArenaProofs -------------------------
(***************************************************************************)
(* Proofs about SerialArena, for any sizes of blocks, objects, arrays and  *)
(* strings and any layout constants: no byte is handed out twice, and what *)
(* the free lists give out is large enough.                                *)
(***************************************************************************)
EXTENDS SerialArena, FiniteSetTheorems, TLAPS

BlockType == [size : Nat, residue : Residues]

Uses == {"object", "array", "policy", "strings"}
PieceType == [block : Nat, from : Nat, to : Nat, use : Uses]

ChunkType == [size : Nat, nodes : Seq(Nat \cup {NULL})]

StringBlockType ==
    [size : Nat, heap : BOOLEAN, at : PieceType \cup {NULL}, next_size : Nat]

MemType ==
    [blocks : Seq(BlockType), ptr : Nat, limit : Nat, space_used : 0 .. Word - 1,
     space_allocated : 0 .. Word - 1]

CacheType == [length : Nat, at : PieceType \cup {NULL}, lists : Seq(Seq(PieceType))]

-----------------------------------------------------------------------------
(* The inductive invariant                                                  *)

(* The head block of such a memory has its limit, and ptr_ behind a header. *)
MemInv(m) ==
    /\ m \in MemType
    /\ m.ptr % 8 = 0 /\ m.ptr <= m.limit
    /\ IF m.blocks = <<>> THEN m.limit = 0
       ELSE BlockHeaderSize <= m.ptr /\ m.limit = Limit(Last(m.blocks))

(* Up to where a block was handed out, at most                              *)
Top(m, i) == IF i = Len(m.blocks) THEN m.ptr ELSE Limit(m.blocks[i])

Inside(m, p) ==
    /\ p.block \in DOMAIN m.blocks
    /\ p.from % 8 = 0 /\ BlockHeaderSize <= p.from /\ p.from < p.to
    /\ p.to <= Top(m, p.block)

(* Where the memory of clients begins in a first block that is kept         *)
Start == IF policy.pointer THEN BlockHeaderSize + PolicySize ELSE BlockHeaderSize

(* A first block that is kept is there, and can be used again.              *)
PolicyInv ==
    /\ policy \in [live : BOOLEAN, user : BOOLEAN, pointer : BOOLEAN]
    /\ policy.user \/ policy.pointer =>
         /\ mem.blocks # <<>> /\ mem.blocks[1].size < Word
         /\ Start <= Limit(mem.blocks[1])
    /\ ~policy.live => owned = {} /\ string_blocks = <<>> /\ cached = NoCache

OwnedInv ==
    /\ owned \subseteq PieceType
    /\ \A p \in owned : p.use = "policy" =>
         /\ policy.pointer /\ p.block = 1 /\ p.to = BlockHeaderSize + PolicySize

CleanupInv ==
    /\ cleanup \in Seq(ChunkType)
    /\ \A i \in DOMAIN cleanup : ChunkStartSize <= cleanup[i].size /\ cleanup[i].nodes # <<>>
    /\ next \in 0 .. (IF cleanup = <<>> THEN 0 ELSE Len(Last(cleanup).nodes))
    /\ registered \in Seq(Nat)

StringSizes == {n \in StringMinSize .. StringMaxSize : n % 8 = 0}

StringsInv ==
    /\ string_blocks \in Seq(StringBlockType)
    /\ \A i \in DOMAIN string_blocks :
         /\ string_blocks[i].next_size \in StringSizes
         /\ ~string_blocks[i].heap => string_blocks[i].at \in PieceType
    /\ unused \in {k * StringSize : k \in 0 .. StringMaxSize}

(* A free piece is on the list of its size, rounded down.                   *)
CacheInv ==
    /\ cached \in CacheType /\ cached.length = Len(cached.lists)
    /\ cached.at # NULL => 8 * cached.length <= cached.at.to - cached.at.from
    /\ \A i \in DOMAIN cached.lists : \A a \in DOMAIN cached.lists[i] :
         LET p == cached.lists[i][a]
         IN  p.use = "array" /\ CacheIndexToReturn(p.to - p.from) = i

(* All memory in use lies in blocks, and no two pieces of it overlap.       *)
PlaceInv ==
    /\ \A p \in Pieces : Inside(mem, p)
    /\ \A p, q \in Pieces : p # q => ~Overlap(p, q)

Array == {cached.at} \ {NULL}

NoneTwice(l) ==
    \A i, j \in DOMAIN l : \A a \in DOMAIN l[i], b \in DOMAIN l[j] :
      l[i][a] = l[j][b] => i = j /\ a = b

(* No piece is used in two ways, or twice in one.                           *)
OnceInv ==
    /\ owned \cap (Emplaced \cup CachedPieces \cup Array) = {}
    /\ Emplaced \cap (CachedPieces \cup Array) = {}
    /\ CachedPieces \cap Array = {}
    /\ NoneTwice(cached.lists)

Others == PolicyInv /\ OwnedInv /\ CleanupInv /\ StringsInv /\ CacheInv
IInv == MemInv(mem) /\ Others /\ PlaceInv /\ OnceInv

-----------------------------------------------------------------------------
(* Sizes                                                                    *)

LEMMA ModRange == ASSUME NEW m \in Nat, m > 0, NEW k \in Int PROVE k % m \in 0 .. m - 1
  OBVIOUS

LEMMA ModDivides ==
    ASSUME NEW m \in Nat, m > 0, NEW k \in Int
    PROVE  k \div m \in Int /\ k = m * (k \div m) + (k % m)
  OBVIOUS

(* Ceil raises an address that is aligned by default by less than this.     *)
LEMMA CeilRaises ==
    ASSUME NEW n \in Nat, n % 8 = 0, NEW a \in Nat, a > 0, a % 8 = 0
    PROVE  Ceil(n, a) \in Nat /\ Ceil(n, a) % 8 = 0 /\ n <= Ceil(n, a) /\ Ceil(n, a) + 8 <= n + a
<1> DEFINE k == n + a - 1
           q == k \div a
           r == k % a
<1>1. k \in Nat
  OBVIOUS
<1>2. q \in Int /\ k = a * q + r /\ r \in 0 .. a - 1
  BY <1>1, ModDivides, ModRange
<1>3. PICK b \in Nat : a = 8 * b
  BY ModDivides
<1>4. Ceil(n, a) = a * q
  <2>1. Ceil(n, a) = q * a
    BY DEF Ceil
  <2> HIDE DEF q
  <2> QED
    BY <1>2, <2>1
<1> DEFINE c == a * q
<1>5. c = 8 * (b * q) /\ b * q \in Int
  <2> HIDE DEF q
  <2> QED
    BY <1>2, <1>3
<1>6. c \in Int /\ c % 8 = 0
  <2> HIDE DEF c, q
  <2>1. PICK d \in Int : d = b * q
    BY <1>5
  <2>2. c = 8 * d
    BY <1>5, <2>1
  <2> QED
    BY <2>2
<1>7. c + r = n + a - 1 /\ r \in Int /\ 0 <= r /\ r <= a - 1
  BY <1>1, <1>2
<1>8. n <= c /\ c + 8 <= n + a
  <2> HIDE DEF c, q, r, k
  <2> QED
    BY <1>6, <1>7
<1> QED
  BY <1>4, <1>6, <1>8

LEMMA LimitOf ==
    ASSUME NEW b \in BlockType
    PROVE  Limit(b) \in Nat /\ Limit(b) % 8 = 0 /\ Limit(b) <= b.size
           /\ \A n \in Nat : n % 8 = 0 /\ n <= b.size => n <= Limit(b)
BY DEF Limit, BlockType

LEMMA BlockSizes ==
    ASSUME NEW last \in Nat, NEW n \in Nat
    PROVE  BlockSize(last, n) \in Nat /\ BlockHeaderSize + n <= BlockSize(last, n)
BY LayoutAssumption DEF BlockSize, AllocationSize, LargerOf, SmallerOf

(* The list on which a request looks holds nothing smaller.                 *)
LEMMA TakeFits ==
    ASSUME NEW n \in Nat \ {0}, NEW s \in Nat, CacheIndexToTake(n) = CacheIndexToReturn(s)
    PROVE  n <= s
<1> DEFINE Bits(m) == {bit \in 0 .. WordBits - 1 : 2 ^ bit <= m}
<1>1. \A m : IsFiniteSet(Bits(m)) /\ Cardinality(Bits(m)) \in Nat
  <2>1. IsFiniteSet(0 .. WordBits - 1)
    BY WordAssumption, FS_Interval
  <2>2. \A m : Bits(m) \subseteq 0 .. WordBits - 1
    OBVIOUS
  <2> QED
    BY <2>1, <2>2, FS_Subset, FS_CardinalityType
<1>2. Cardinality(Bits(s)) = Cardinality(Bits(n - 1)) + 1
  <2>1. BitWidth(n - 1) - 4 + 1 = BitWidth(s) - 5 + 1
    BY DEF CacheIndexToTake, CacheIndexToReturn
  <2>2. BitWidth(s) = Cardinality(Bits(s)) /\ BitWidth(n - 1) = Cardinality(Bits(n - 1))
    BY DEF BitWidth
  <2> HIDE DEF Bits
  <2>3. Cardinality(Bits(s)) \in Nat /\ Cardinality(Bits(n - 1)) \in Nat
    BY <1>1
  <2> QED
    BY <2>1, <2>2, <2>3
<1>3. SUFFICES ASSUME ~(n <= s) PROVE FALSE
  OBVIOUS
<1>4. Bits(s) \subseteq Bits(n - 1)
  <2>1. PICK m \in Nat : m = n - 1
    OBVIOUS
  <2>2. s <= m
    BY <1>3, <2>1
  <2>3. ASSUME NEW bit \in Nat, 2 ^ bit <= s PROVE 2 ^ bit <= m
    BY <2>2, <2>3
  <2>4. \A bit \in 0 .. WordBits - 1 : bit \in Nat
    BY WordAssumption
  <2>5. Bits(s) \subseteq Bits(m)
    BY <2>3, <2>4
  <2> QED
    BY <2>1, <2>5
<1>5. Cardinality(Bits(s)) <= Cardinality(Bits(n - 1))
  BY <1>1, <1>4, FS_Subset
<1>6. Cardinality(Bits(s)) \in Nat /\ Cardinality(Bits(n - 1)) \in Nat
  BY <1>1
<1> HIDE DEF Bits
<1> QED
  BY <1>2, <1>5, <1>6

-----------------------------------------------------------------------------
(* Memory                                                                   *)

(* The space of m is that of k.                                             *)
SameSpace(m, k) ==
    MemInv(k) /\ k.blocks = m.blocks /\ k.ptr = m.ptr /\ k.limit = m.limit

(* From m to k, n bytes were handed out, of the head block or of a new one. *)
Extends(m, k, n) ==
    /\ MemInv(k)
    /\ \/ /\ k.blocks = m.blocks /\ m.blocks # <<>> /\ k.limit = m.limit
          /\ m.ptr + n <= k.ptr
       \/ /\ \E b \in BlockType : k.blocks = Append(m.blocks, b)
          /\ BlockHeaderSize + n <= k.ptr

LEMMA Counted ==
    ASSUME NEW m, MemInv(m), NEW n \in Int
    PROVE  SameSpace(m, AddSpaceUsed(m, n)) /\ SameSpace(m, AddSpaceAllocated(m, n))
<1>1. m \in MemType /\ m.space_used \in Int /\ m.space_allocated \in Int
  BY WordAssumption DEF MemInv, MemType
<1>2. /\ (m.space_used + n) % Word \in 0 .. Word - 1
      /\ (m.space_allocated + n) % Word \in 0 .. Word - 1
  <2>1. Word \in Nat /\ Word > 0
    BY WordAssumption
  <2>2. m.space_used + n \in Int /\ m.space_allocated + n \in Int
    BY <1>1
  <2> QED
    BY <2>1, <2>2, ModRange
<1> QED
  BY <1>1, <1>2 DEF SameSpace, MemInv, MemType, AddSpaceUsed, AddSpaceAllocated

LEMMA SameSpaceTwice ==
    ASSUME NEW m, NEW k, NEW j, SameSpace(m, k), SameSpace(k, j)
    PROVE  SameSpace(m, j)
BY DEF SameSpace

LEMMA SameThenExtends ==
    ASSUME NEW m, NEW k, NEW j, NEW n,
           \/ SameSpace(m, k) /\ Extends(k, j, n)
           \/ Extends(m, k, n) /\ SameSpace(k, j)
    PROVE  Extends(m, j, n)
BY DEF SameSpace, Extends

(* A new block has room for what is behind the header.                      *)
LEMMA NewBlockHasRoom ==
    ASSUME NEW m, MemInv(m), NEW n \in Nat, n % 8 = 0, NEW k \in AllocateNewBlock(m, n)
    PROVE  /\ MemInv(k) /\ k.ptr = BlockHeaderSize /\ k.ptr + n <= k.limit
           /\ \E b \in BlockType : k.blocks = Append(m.blocks, b)
<1>1. PICK b \in AllocateBlock(HeadSize(m), n) : k = PushBlock(m, b)
  BY DEF AllocateNewBlock
<1>2. m \in MemType /\ HeadSize(m) \in Nat
  <2>1. m.blocks \in Seq(BlockType)
    BY DEF MemInv, MemType
  <2>2. m.blocks # <<>> => Last(m.blocks) \in BlockType
    BY <2>1 DEF Last
  <2> QED
    BY <2>2 DEF MemInv, HeadSize, HeadBlock, BlockType
<1>3. b \in BlockType /\ BlockHeaderSize + n <= b.size
  <2>1. PICK s \in Surplus, r \in Residues :
             b = [size |-> BlockSize(HeadSize(m), n) + s, residue |-> r]
    BY <1>1 DEF AllocateBlock, SomeBlock
  <2>2. s \in Nat
    BY WordAssumption
  <2>3. BlockSize(HeadSize(m), n) \in Nat /\ BlockHeaderSize + n <= BlockSize(HeadSize(m), n)
    BY <1>2, BlockSizes
  <2> QED
    BY <2>1, <2>2, <2>3, LayoutAssumption DEF BlockType
<1>4. BlockHeaderSize + n <= Limit(b) /\ Limit(b) \in Nat
  <2>1. BlockHeaderSize + n \in Nat /\ (BlockHeaderSize + n) % 8 = 0
    BY LayoutAssumption
  <2> QED
    BY <1>3, <2>1, LimitOf
<1> DEFINE full == AddSpaceAllocated(AddSpaceUsed(m, UsedInHead(m)), b.size)
<1>5. SameSpace(m, full)
  <2>1. UsedInHead(m) \in Int
    BY <1>2, LayoutAssumption DEF UsedInHead, MemType
  <2>2. SameSpace(m, AddSpaceUsed(m, UsedInHead(m)))
    BY <2>1, Counted
  <2>3. MemInv(AddSpaceUsed(m, UsedInHead(m))) /\ b.size \in Int
    BY <1>3, <2>2 DEF SameSpace, BlockType
  <2> HIDE DEF full
  <2>4. SameSpace(AddSpaceUsed(m, UsedInHead(m)), full)
    BY <2>3, Counted DEF full
  <2> QED
    BY <2>2, <2>4, SameSpaceTwice
<1>6. k = [full EXCEPT !.blocks = Append(@, b), !.ptr = BlockHeaderSize, !.limit = Limit(b)]
  BY <1>1 DEF PushBlock
<1> HIDE DEF full
<1>7. full \in MemType /\ full.blocks = m.blocks /\ full.blocks \in Seq(BlockType)
  BY <1>5 DEF SameSpace, MemInv, MemType
<1>8. /\ k.blocks = Append(m.blocks, b) /\ k.ptr = BlockHeaderSize /\ k.limit = Limit(b)
      /\ k.space_used = full.space_used /\ k.space_allocated = full.space_allocated
      /\ k \in MemType
  <2>1. PICK list, head, limit :
             list = Append(m.blocks, b) /\ head = BlockHeaderSize /\ limit = Limit(b)
    OBVIOUS
  <2>2. list \in Seq(BlockType) /\ head \in Nat /\ limit \in Nat
    BY <1>3, <1>4, <1>7, <2>1, LayoutAssumption
  <2>3. k = [full EXCEPT !.blocks = list, !.ptr = head, !.limit = limit]
    BY <1>6, <1>7, <2>1
  <2>4. /\ k.blocks = list /\ k.ptr = head /\ k.limit = limit
        /\ k.space_used = full.space_used /\ k.space_allocated = full.space_allocated
        /\ k \in MemType
    BY ONLY <1>7, <2>2, <2>3 DEF MemType
  <2> QED
    BY <2>1, <2>4
<1>9. k.blocks # <<>> /\ Last(k.blocks) = b
  BY <1>3, <1>7, <1>8 DEF Last
<1> QED
  BY <1>3, <1>4, <1>8, <1>9, LayoutAssumption DEF MemInv

LEMMA BumpExtends ==
    ASSUME NEW m, MemInv(m), NEW n \in Nat, n % 8 = 0, n > 0, MaybeFits(m, n)
    PROVE  Extends(m, Bump(m, n), n) /\ Bump(m, n).ptr = m.ptr + n
<1>1. m \in MemType /\ m.ptr \in Nat /\ m.limit \in Nat
  BY DEF MemInv, MemType
<1>2. m.blocks # <<>> /\ m.ptr + n <= m.limit
  BY <1>1 DEF MemInv, MaybeFits
<1>3. (m.ptr + n) % 8 = 0 /\ m.ptr + n \in Nat
  BY <1>1 DEF MemInv
<1> DEFINE k == Bump(m, n)
<1>4. /\ k.blocks = m.blocks /\ k.ptr = m.ptr + n /\ k.limit = m.limit /\ k \in MemType
  BY <1>1, <1>3 DEF Bump, MemType
<1> HIDE DEF k
<1>5. MemInv(k)
  BY <1>1, <1>2, <1>3, <1>4, LayoutAssumption DEF MemInv
<1>6. Extends(m, k, n)
  BY <1>1, <1>2, <1>4, <1>5 DEF Extends
<1> QED
  BY <1>4, <1>6 DEF k

LEMMA AlignedExtends ==
    ASSUME NEW m, MemInv(m), NEW n \in Nat, n % 8 = 0, n > 0, NEW k \in AllocateAligned(m, n)
    PROVE  Extends(m, k, n)
<1>1. CASE MaybeFits(m, n)
  <2>1. k = Bump(m, n)
    BY <1>1 DEF AllocateAligned
  <2> QED
    BY <1>1, <2>1, BumpExtends
<1>2. CASE ~MaybeFits(m, n)
  <2>1. PICK j \in AllocateNewBlock(m, n) : k = Bump(j, n)
    BY <1>2 DEF AllocateAligned
  <2>2. /\ MemInv(j) /\ j.ptr = BlockHeaderSize /\ j.ptr + n <= j.limit
        /\ \E b \in BlockType : j.blocks = Append(m.blocks, b)
    BY <2>1, NewBlockHasRoom
  <2>3. j.ptr \in Nat /\ j.limit \in Nat /\ MaybeFits(j, n)
    <3>1. j.ptr \in Nat /\ j.limit \in Nat
      BY <2>2 DEF MemInv, MemType
    <3>2. PICK at, limit : at = j.ptr /\ limit = j.limit
      OBVIOUS
    <3>3. limit - at >= n
      BY ONLY <2>2, <3>1, <3>2, n \in Nat
    <3> QED
      BY <3>1, <3>2, <3>3 DEF MaybeFits
  <2>4. Extends(j, k, n) /\ k.ptr = j.ptr + n
    BY <2>1, <2>2, <2>3, BumpExtends
  <2>5. m.blocks \in Seq(BlockType)
    BY DEF MemInv, MemType
  <2>6. k.blocks = j.blocks
    BY <2>1 DEF Bump
  <2>7. BlockHeaderSize + n <= k.ptr
    BY <2>2, <2>4, LayoutAssumption
  <2> QED
    BY <2>2, <2>4, <2>6, <2>7 DEF Extends
<1> QED
  BY <1>1, <1>2

(* The aligned ptr_ is not far above ptr_, and has its default alignment.   *)
LEMMA AlignedPtrIsNear ==
    ASSUME NEW m, MemInv(m), NEW align \in Aligns
    PROVE  /\ AlignedPtr(m, align) \in Nat /\ AlignedPtr(m, align) % 8 = 0
           /\ m.ptr <= AlignedPtr(m, align) /\ AlignedPtr(m, align) + 8 <= m.ptr + align
<1>1. PICK residue : residue = IF m.blocks = <<>> THEN 0 ELSE HeadBlock(m).residue
  OBVIOUS
<1>2. residue \in Nat /\ residue % 8 = 0
  <2>1. CASE m.blocks = <<>>
    BY <1>1, <2>1
  <2>2. CASE m.blocks # <<>>
    <3>1. m.blocks \in Seq(BlockType)
      BY DEF MemInv, MemType
    <3>2. HeadBlock(m) \in BlockType
      BY <2>2, <3>1 DEF HeadBlock, Last
    <3> QED
      BY <1>1, <2>2, <3>2, SizesAssumption DEF BlockType
  <2> QED
    BY <2>1, <2>2
<1>3. m.ptr \in Nat /\ m.ptr % 8 = 0 /\ align \in Nat /\ align > 0 /\ align % 8 = 0
  BY SizesAssumption DEF MemInv, MemType
<1>4. PICK n : n = m.ptr + residue
  OBVIOUS
<1>5. n \in Nat /\ n % 8 = 0 /\ residue <= n /\ m.ptr = n - residue
  BY <1>2, <1>3, <1>4
<1>6. PICK c : c = Ceil(n, align)
  OBVIOUS
<1>7. c \in Nat /\ c % 8 = 0 /\ n <= c /\ c + 8 <= n + align
  BY <1>3, <1>5, <1>6, CeilRaises
<1>8. AlignedPtr(m, align) = c - residue
  BY <1>1, <1>4, <1>6 DEF AlignedPtr
<1> QED
  BY <1>2, <1>3, <1>5, <1>7, <1>8

LEMMA MovesExtends ==
    ASSUME NEW m, MemInv(m), NEW n \in Nat, n % 8 = 0, n > 0,
           NEW p \in Nat, p % 8 = 0, m.ptr <= p, p + n <= m.limit
    PROVE  LET k == [m EXCEPT !.ptr = p + n]
           IN  Extends(m, k, n) /\ k.ptr = p + n /\ k.blocks = m.blocks
<1>1. m \in MemType /\ m.ptr \in Nat /\ m.limit \in Nat
  BY DEF MemInv, MemType
<1>2. m.blocks # <<>>
  BY <1>1 DEF MemInv
<1>3. PICK q : q = p + n
  OBVIOUS
<1>4. q \in Nat /\ q % 8 = 0 /\ m.ptr + n <= q /\ q <= m.limit
  BY <1>1, <1>3
<1>5. PICK k : k = [m EXCEPT !.ptr = q]
  OBVIOUS
<1>6. k \in MemType /\ k.ptr = q /\ k.blocks = m.blocks /\ k.limit = m.limit
  BY <1>1, <1>4, <1>5 DEF MemType
<1>7. MemInv(k)
  <2>1. BlockHeaderSize <= m.ptr /\ m.limit = Limit(Last(m.blocks))
    BY <1>2 DEF MemInv
  <2>2. BlockHeaderSize <= q
    BY <1>1, <1>4, <2>1, LayoutAssumption
  <2> QED
    BY ONLY <1>2, <1>4, <1>6, <2>1, <2>2 DEF MemInv
<1>8. Extends(m, k, n)
  BY <1>2, <1>4, <1>6, <1>7 DEF Extends
<1> QED
  BY <1>3, <1>5, <1>6, <1>8

LEMMA AlignedAsExtends ==
    ASSUME NEW m, MemInv(m), NEW n \in Nat, n % 8 = 0, n > 0, NEW align \in Aligns,
           NEW k \in AllocateAlignedAs(m, n, align)
    PROVE  Extends(m, k, n)
<1> DEFINE p(j) == AlignedPtr(j, align)
<1>1. m.ptr \in Nat /\ m.limit \in Nat /\ m.blocks \in Seq(BlockType)
  BY DEF MemInv, MemType
<1>2. CASE p(m) + n <= m.limit
  <2>1. k = [m EXCEPT !.ptr = p(m) + n]
    BY <1>2 DEF AllocateAlignedAs
  <2>2. p(m) \in Nat /\ p(m) % 8 = 0 /\ m.ptr <= p(m)
    BY AlignedPtrIsNear
  <2> HIDE DEF p
  <2> QED
    BY <1>2, <2>1, <2>2, MovesExtends
<1>3. CASE ~(p(m) + n <= m.limit)
  <2>1. PICK room : room = AlignUpTo(n, align)
    OBVIOUS
  <2>2. PICK j \in AllocateNewBlock(m, room) : k = [j EXCEPT !.ptr = p(j) + n]
    BY <1>3, <2>1 DEF AllocateAlignedAs
  <2>3. align \in Nat /\ align % 8 = 0 /\ align >= 8
    BY SizesAssumption
  <2>4. room \in Nat /\ room % 8 = 0 /\ room = n + align - 8
    BY <2>1, <2>3 DEF AlignUpTo
  <2>5. /\ MemInv(j) /\ j.ptr = BlockHeaderSize /\ j.ptr + room <= j.limit
        /\ \E b \in BlockType : j.blocks = Append(m.blocks, b)
    BY <2>2, <2>4, NewBlockHasRoom
  <2>6. p(j) \in Nat /\ p(j) % 8 = 0 /\ j.ptr <= p(j) /\ p(j) + 8 <= j.ptr + align
    BY <2>5, AlignedPtrIsNear
  <2> HIDE DEF p
  <2>7. j.ptr \in Nat /\ j.limit \in Nat
    BY <2>5 DEF MemInv, MemType
  <2>8. p(j) + n <= j.limit
    BY <2>3, <2>4, <2>5, <2>6, <2>7
  <2>9. Extends(j, k, n) /\ k.ptr = p(j) + n /\ k.blocks = j.blocks
    BY <2>2, <2>5, <2>6, <2>8, MovesExtends
  <2>10. BlockHeaderSize + n <= k.ptr
    BY <2>5, <2>6, <2>7, <2>9
  <2> QED
    BY <2>5, <2>9, <2>10 DEF Extends
<1> QED
  BY <1>2, <1>3

(* The memory handed out is a piece of its own.                             *)
LEMMA NewPiece ==
    ASSUME NEW m, NEW k, MemInv(m), NEW n \in Nat, n % 8 = 0, n > 0, Extends(m, k, n),
           NEW use \in Uses
    PROVE  /\ Piece(k, n, use) \in PieceType /\ Inside(k, Piece(k, n, use))
           /\ Piece(k, n, use).use = use
           /\ \A p \in PieceType : Inside(m, p) =>
                /\ Inside(k, p) /\ p # Piece(k, n, use)
                /\ ~Overlap(p, Piece(k, n, use)) /\ ~Overlap(Piece(k, n, use), p)
<1>1. PICK new : new = Piece(k, n, use)
  OBVIOUS
<1>2. /\ m.blocks \in Seq(BlockType) /\ k.blocks \in Seq(BlockType)
      /\ m.ptr \in Nat /\ k.ptr \in Nat
      /\ m.limit \in Nat /\ k.limit \in Nat /\ k.ptr % 8 = 0 /\ m.ptr <= m.limit
  BY DEF MemInv, MemType, Extends
<1>3. new.block = Len(k.blocks) /\ new.from = k.ptr - n /\ new.to = k.ptr /\ new.use = use
  BY <1>1 DEF Piece
<1>4. k.blocks # <<>> /\ BlockHeaderSize + n <= k.ptr
  <2>1. CASE k.blocks = m.blocks /\ m.blocks # <<>> /\ m.ptr + n <= k.ptr
    <3>1. BlockHeaderSize <= m.ptr /\ BlockHeaderSize \in Nat
      BY <2>1, LayoutAssumption DEF MemInv
    <3>2. m.ptr \in Nat /\ k.ptr \in Nat
      BY <1>2
    <3> QED
      BY ONLY <2>1, <3>1, <3>2, n \in Nat
  <2>2. CASE (\E b \in BlockType : k.blocks = Append(m.blocks, b)) /\ BlockHeaderSize + n <= k.ptr
    <3>1. PICK b \in BlockType : k.blocks = Append(m.blocks, b)
      BY <2>2
    <3>2. m.blocks \in Seq(BlockType)
      BY <1>2
    <3>3. Append(m.blocks, b) # <<>>
      BY ONLY <3>2, b \in BlockType
    <3> QED
      BY ONLY <2>2, <3>1, <3>3
  <2> QED
    BY <2>1, <2>2 DEF Extends
<1>5. new.from \in Nat /\ new.from % 8 = 0 /\ BlockHeaderSize <= new.from /\ new.from < new.to
  <2>1. PICK e \in Nat : e = k.ptr
    BY <1>2
  <2>2. e % 8 = 0 /\ BlockHeaderSize + n <= e /\ new.from = e - n /\ new.to = e
    BY <1>2, <1>3, <1>4, <2>1
  <2>3. BlockHeaderSize \in Nat
    BY LayoutAssumption
  <2>4. BlockHeaderSize <= new.from /\ new.from \in Nat /\ new.from < new.to
    BY ONLY <2>2, <2>3, n \in Nat, n > 0, e \in Nat
  <2>5. (e - n) % 8 = 0
    BY ONLY <2>2, n \in Nat, n % 8 = 0, e \in Nat
  <2> QED
    BY <2>2, <2>4, <2>5
<1>6. new \in PieceType
  <2>1. new = [block |-> Len(k.blocks), from |-> k.ptr - n, to |-> k.ptr, use |-> use]
    BY <1>1 DEF Piece
  <2> QED
    BY <1>2, <1>3, <1>5, <2>1 DEF PieceType
<1>7. Inside(k, new)
  BY <1>2, <1>3, <1>4, <1>5 DEF Inside, Top
<1>8. ASSUME NEW p \in PieceType, Inside(m, p)
      PROVE  Inside(k, p) /\ ~Overlap(p, new) /\ ~Overlap(new, p)
  <2>1. p.block \in Nat /\ p.from \in Nat /\ p.to \in Nat
    BY DEF PieceType
  <2>2. CASE k.blocks = m.blocks /\ m.ptr + n <= k.ptr
    <3>1. m.ptr <= new.from /\ m.ptr <= k.ptr
      BY <1>2, <1>3, <2>2
    <3>2. Top(m, p.block) <= Top(k, p.block)
      <4>1. p.block # Len(m.blocks) => Limit(m.blocks[p.block]) \in Nat
        BY <1>2, <1>8, LimitOf DEF Inside
      <4> QED
        BY <1>2, <2>2, <3>1, <4>1 DEF Top
    <3>3. Inside(k, p)
      <4>1. Top(m, p.block) \in Nat /\ Top(k, p.block) \in Nat
        BY <1>2, <1>8, <2>2, LimitOf DEF Inside, Top
      <4> QED
        BY <1>8, <2>1, <2>2, <3>2, <4>1 DEF Inside
    <3>4. p.block = new.block => p.to <= new.from
      <4>1. p.block = new.block => Top(m, p.block) = m.ptr
        BY <1>3, <2>2 DEF Top
      <4>2. p.block = new.block => p.to <= m.ptr
        BY <1>8, <4>1 DEF Inside
      <4>3. p.to \in Nat /\ m.ptr \in Nat /\ new.from \in Nat
        BY <1>2, <1>5, <2>1
      <4> QED
        BY ONLY <3>1, <4>2, <4>3
    <3> QED
      BY <1>3, <1>5, <2>1, <3>3, <3>4 DEF Overlap
  <2>3. CASE \E b \in BlockType : k.blocks = Append(m.blocks, b)
    <3>1. PICK b \in BlockType : k.blocks = Append(m.blocks, b)
      BY <2>3
    <3>2. Len(k.blocks) = Len(m.blocks) + 1 /\ Len(m.blocks) \in Nat
      BY <1>2, <3>1
    <3>3. p.block \in 1 .. Len(m.blocks) /\ p.block \in DOMAIN k.blocks
          /\ k.blocks[p.block] = m.blocks[p.block]
      BY <1>2, <1>8, <3>1 DEF Inside
    <3>4. Top(k, p.block) = Limit(m.blocks[p.block])
      BY <3>2, <3>3 DEF Top
    <3>5. Top(m, p.block) <= Limit(m.blocks[p.block])
      <4>1. m.blocks[p.block] \in BlockType
        BY <1>2, <3>3
      <4>2. Limit(m.blocks[p.block]) \in Nat
        BY <4>1, LimitOf
      <4>3. CASE p.block = Len(m.blocks)
        <5>1. m.blocks # <<>> /\ Last(m.blocks) = m.blocks[p.block]
          BY <1>2, <3>3, <4>3 DEF Last
        <5> QED
          BY <1>2, <4>3, <5>1 DEF MemInv, Top
      <4>4. CASE p.block # Len(m.blocks)
        BY <4>4, <4>2 DEF Top
      <4> QED
        BY <4>3, <4>4
    <3>6. Limit(m.blocks[p.block]) \in Nat /\ Top(m, p.block) \in Nat
      <4>1. m.blocks[p.block] \in BlockType
        BY <1>2, <3>3
      <4>2. Limit(m.blocks[p.block]) \in Nat
        BY <4>1, LimitOf
      <4> QED
        BY <1>2, <4>2 DEF Top
    <3>7. Inside(k, p)
      BY <1>8, <2>1, <3>3, <3>4, <3>5, <3>6 DEF Inside
    <3>8. p.block # new.block
      BY <1>3, <3>2, <3>3
    <3> QED
      BY <3>7, <3>8 DEF Overlap
  <2> QED
    BY <2>2, <2>3 DEF Extends
<1>9. \A p : Overlap(p, p) <=> p.from < p.to
  BY DEF Overlap
<1> QED
  <2>1. Overlap(new, new)
    BY <1>5, <1>9
  <2> QED
    BY <1>1, <1>3, <1>6, <1>7, <1>8, <2>1

-----------------------------------------------------------------------------
(* Pieces                                                                   *)

LEMMA EmplacedIs ==
    Emplaced = {string_blocks[i].at : i \in {j \in DOMAIN string_blocks : ~string_blocks[j].heap}}
BY DEF Emplaced, ToSet

LEMMA CachedIs ==
    \A p : p \in CachedPieces <=> \E i \in DOMAIN cached.lists :
                                    \E a \in DOMAIN cached.lists[i] : cached.lists[i][a] = p
BY DEF CachedPieces, ToSet

LEMMA PiecesAre ==
    Pieces = owned \cup Emplaced \cup CachedPieces \cup Array
BY DEF Pieces, Array

LEMMA PiecesTyped ==
    ASSUME OwnedInv, StringsInv, CacheInv
    PROVE  /\ owned \subseteq PieceType /\ Emplaced \subseteq PieceType
           /\ CachedPieces \subseteq PieceType /\ Array \subseteq PieceType
           /\ Pieces \subseteq PieceType
<1>1. owned \subseteq PieceType
  BY DEF OwnedInv
<1>2. Emplaced \subseteq PieceType
  BY EmplacedIs DEF StringsInv
<1>3. CachedPieces \subseteq PieceType
  <2> SUFFICES ASSUME NEW i \in DOMAIN cached.lists, NEW a \in DOMAIN cached.lists[i]
               PROVE  cached.lists[i][a] \in PieceType
    BY CachedIs
  <2>1. cached.lists \in Seq(Seq(PieceType))
    BY DEF CacheInv, CacheType
  <2>2. cached.lists[i] \in Seq(PieceType)
    BY <2>1
  <2> QED
    BY <2>2
<1>4. Array \subseteq PieceType
  BY DEF Array, CacheInv, CacheType
<1> QED
  BY <1>1, <1>2, <1>3, <1>4, PiecesAre

(* What is inside one memory is inside the other.                           *)
StillInside(m, k) == \A p \in PieceType : Inside(m, p) => Inside(k, p)

LEMMA SameIsInside == ASSUME NEW m, NEW k, SameSpace(m, k) PROVE StillInside(m, k)
BY DEF SameSpace, StillInside, Inside, Top

LEMMA PiecesStay ==
    ASSUME OwnedInv, StringsInv, CacheInv, PlaceInv, OnceInv,
           owned' = owned, Emplaced' = Emplaced, cached' = cached,
           StillInside(mem, mem')
    PROVE  PlaceInv' /\ OnceInv'
<1>1. CachedPieces' = CachedPieces /\ Array' = Array
  BY DEF CachedPieces, Array
<1>2. Pieces' = Pieces
  <2>1. Pieces' = owned' \cup Emplaced' \cup CachedPieces' \cup Array'
    BY DEF Pieces, Array
  <2> QED
    BY <1>1, <2>1, PiecesAre
<1>3. \A p \in Pieces : Inside(mem', p)
  BY PiecesTyped DEF PlaceInv, StillInside
<1>4. PlaceInv'
  <2>1. \A p \in Pieces' : Inside(mem, p)'
    BY <1>2, <1>3 DEF Inside, Top
  <2> QED
    BY <1>2, <2>1 DEF PlaceInv, Overlap
<1> QED
  BY <1>1, <1>4 DEF OnceInv

LEMMA PieceIsAdded ==
    ASSUME MemInv(mem), OwnedInv, StringsInv, CacheInv, PlaceInv, OnceInv,
           NEW n \in Nat, n % 8 = 0, n > 0, Extends(mem, mem', n),
           NEW use \in Uses,
           NEW new, new = Piece(mem', n, use), cached' = cached,
           \/ owned' = owned \cup {new} /\ Emplaced' = Emplaced
           \/ owned' = owned /\ Emplaced' = Emplaced \cup {new}
    PROVE  PlaceInv' /\ OnceInv' /\ new \in PieceType /\ new.use = use
<1>1. PICK k : k = mem'
  OBVIOUS
<1>2. /\ new \in PieceType /\ Inside(k, new) /\ new.use = use
      /\ \A p \in PieceType : Inside(mem, p) =>
           Inside(k, p) /\ p # new /\ ~Overlap(p, new) /\ ~Overlap(new, p)
  <2>1. Extends(mem, k, n) /\ new = Piece(k, n, use)
    BY <1>1
  <2>2. PICK m : m = mem
    OBVIOUS
  <2>3. MemInv(m) /\ Extends(m, k, n)
    BY <2>1, <2>2
  <2>4. /\ Piece(k, n, use) \in PieceType /\ Inside(k, Piece(k, n, use))
        /\ Piece(k, n, use).use = use
        /\ \A p \in PieceType : Inside(m, p) =>
             /\ Inside(k, p) /\ p # Piece(k, n, use)
             /\ ~Overlap(p, Piece(k, n, use)) /\ ~Overlap(Piece(k, n, use), p)
    BY ONLY <2>3, n \in Nat, n % 8 = 0, n > 0,
            use \in Uses, NewPiece
  <2> QED
    BY ONLY <2>1, <2>2, <2>4
<1>3. CachedPieces' = CachedPieces /\ Array' = Array
  BY DEF CachedPieces, Array
<1>4. Pieces' = Pieces \cup {new}
  <2>1. Pieces' = owned' \cup Emplaced' \cup CachedPieces' \cup Array'
    BY DEF Pieces, Array
  <2> QED
    BY <1>3, <2>1, PiecesAre
<1>5. \A p \in Pieces : /\ Inside(k, p) /\ p # new
                        /\ ~Overlap(p, new) /\ ~Overlap(new, p)
  BY <1>2, PiecesTyped DEF PlaceInv
<1>6. PlaceInv'
  <2>1. \A p \in Pieces' : Inside(k, p)
    BY <1>2, <1>4, <1>5
  <2>2. \A p \in Pieces' : Inside(mem, p)'
    BY <1>1, <2>1 DEF Inside, Top
  <2>3. \A p, q \in Pieces' : p # q => ~Overlap(p, q)
    BY <1>4, <1>5 DEF PlaceInv
  <2> QED
    BY <2>2, <2>3 DEF PlaceInv, Overlap
<1>7. new \notin owned \cup Emplaced \cup CachedPieces \cup Array
  BY <1>5, PiecesAre
<1>8. OnceInv'
  BY <1>3, <1>7 DEF OnceInv
<1> QED
  BY <1>2, <1>6, <1>8

LEMMA TopTyped ==
    ASSUME NEW m, MemInv(m), NEW p, Inside(m, p)
    PROVE  Top(m, p.block) \in Nat
<1>1. m.blocks \in Seq(BlockType) /\ m.ptr \in Nat
  BY DEF MemInv, MemType
<1>2. Limit(m.blocks[p.block]) \in Nat
  BY <1>1, LimitOf DEF Inside
<1> QED
  BY <1>1, <1>2 DEF Top

(* What is inside a piece overlaps nothing else.                            *)
LEMMA PartIsApart ==
    ASSUME MemInv(mem), OwnedInv, StringsInv, CacheInv, PlaceInv, NEW p \in Pieces,
           NEW part \in PieceType, part.block = p.block, part.from = p.from,
           part.from < part.to, part.to <= p.to
    PROVE  /\ Inside(mem, part)
           /\ \A q \in Pieces : q # p => /\ q # part
                                         /\ ~Overlap(q, part) /\ ~Overlap(part, q)
<1>1. p \in PieceType /\ Inside(mem, p)
  BY PiecesTyped DEF PlaceInv
<1>2. p.from \in Nat /\ p.to \in Nat /\ part.from \in Nat /\ part.to \in Nat
  BY <1>1 DEF PieceType
<1>3. Inside(mem, part)
  <2>1. p.to <= Top(mem, p.block)
    BY <1>1 DEF Inside
  <2>2. Top(mem, p.block) \in Nat
    BY <1>1, TopTyped
  <2>3. PICK top : top = Top(mem, p.block)
    OBVIOUS
  <2>4. part.to <= top
    BY <1>2, <2>1, <2>2, <2>3
  <2> QED
    BY <1>1, <2>3, <2>4 DEF Inside
<1>4. ASSUME NEW q \in Pieces, q # p PROVE ~Overlap(q, part) /\ ~Overlap(part, q)
  <2>1. ~Overlap(q, p) /\ ~Overlap(p, q)
    BY <1>4 DEF PlaceInv
  <2>2. q \in PieceType
    BY PiecesTyped
  <2>3. q.from \in Nat /\ q.to \in Nat
    BY <2>2 DEF PieceType
  <2> QED
    BY <1>2, <2>1, <2>3 DEF Overlap
<1>5. Overlap(part, part)
  BY DEF Overlap
<1> QED
  BY <1>3, <1>4, <1>5

-----------------------------------------------------------------------------
(* The free lists                                                           *)

LEMMA CacheTyped ==
    ASSUME CacheInv
    PROVE  /\ cached.lists \in Seq(Seq(PieceType)) /\ cached.length \in Nat
           /\ cached.at \in PieceType \cup {NULL} /\ cached.length = Len(cached.lists)
           /\ cached = [length |-> cached.length, at |-> cached.at, lists |-> cached.lists]
           /\ \A i \in DOMAIN cached.lists : cached.lists[i] \in Seq(PieceType)
           /\ \A i \in DOMAIN cached.lists : \A a \in DOMAIN cached.lists[i] :
                cached.lists[i][a] \in PieceType
<1>1. cached \in CacheType /\ cached.length = Len(cached.lists)
  BY DEF CacheInv
<1>2. cached.lists \in Seq(Seq(PieceType))
  BY <1>1 DEF CacheType
<1>3. \A i \in DOMAIN cached.lists : cached.lists[i] \in Seq(PieceType)
  BY <1>2
<1>4. \A i \in DOMAIN cached.lists : \A a \in DOMAIN cached.lists[i] :
        cached.lists[i][a] \in PieceType
  BY <1>3
<1> QED
  BY <1>1, <1>2, <1>3, <1>4 DEF CacheType

(* Other lists that hold the same pieces at most, no piece twice.           *)
LEMMA ListsChange ==
    ASSUME CacheInv, NEW lists_, NEW length, NEW at,
           cached' = [length |-> length, at |-> at, lists |-> lists_],
           lists_ \in Seq(Seq(PieceType)), length = Len(lists_),
           at \in PieceType \cup {NULL}, at # NULL => 8 * length <= at.to - at.from,
           \A i \in DOMAIN lists_ : \A a \in DOMAIN lists_[i] :
             LET p == lists_[i][a]
             IN  p.use = "array" /\ CacheIndexToReturn(p.to - p.from) = i
    PROVE  /\ CacheInv'
           /\ Array' = {at} \ {NULL}
           /\ \A p : p \in CachedPieces' <=> \E i \in DOMAIN lists_ :
                                               \E a \in DOMAIN lists_[i] : lists_[i][a] = p
<1>1. cached'.lists = lists_ /\ cached'.length = length /\ cached'.at = at
  OBVIOUS
<1>2. length \in Nat
  OBVIOUS
<1>3. cached' \in CacheType
  BY <1>2 DEF CacheType
<1>4. CacheInv'
  BY <1>1, <1>3 DEF CacheInv, CacheIndexToReturn
<1>5. Array' = {at} \ {NULL}
  BY <1>1 DEF Array
<1>6. \A p : p \in CachedPieces' <=> \E i \in DOMAIN cached'.lists :
                                       \E a \in DOMAIN cached'.lists[i] : cached'.lists[i][a] = p
  BY DEF CachedPieces, ToSet
<1> QED
  BY <1>1, <1>4, <1>5, <1>6

LEMMA TailOf ==
    ASSUME NEW S, NEW t \in Seq(S), t # <<>>
    PROVE  /\ Tail(t) \in Seq(S) /\ Len(t) \in Nat /\ Len(Tail(t)) = Len(t) - 1
           /\ \A a \in DOMAIN Tail(t) :
                a \in Nat /\ a + 1 \in DOMAIN t /\ a + 1 # 1 /\ Tail(t)[a] = t[a + 1]
  OBVIOUS

(* Of the piece on top of a list, an array gets what it asked for.          *)
LEMMA PieceIsTaken ==
    ASSUME MemInv(mem), OwnedInv, StringsInv, CacheInv, PlaceInv, OnceInv,
           NEW n \in Nat \ {0}, NEW i, i = CacheIndexToTake(n),
           i \in 1 .. cached.length, cached.lists[i] # <<>>,
           NEW top, top = cached.lists[i][1],
           NEW part, part = [top EXCEPT !.to = top.from + n],
           cached' = [cached EXCEPT !.lists[i] = Tail(@)],
           owned' = owned \cup {part}, Emplaced' = Emplaced, mem' = mem
    PROVE  CacheInv' /\ PlaceInv' /\ OnceInv' /\ part \in PieceType /\ part.use = "array"
<1> DEFINE l == cached.lists
<1>1. /\ l \in Seq(Seq(PieceType)) /\ cached.length \in Nat
      /\ cached.at \in PieceType \cup {NULL} /\ cached.length = Len(l)
      /\ cached = [length |-> cached.length, at |-> cached.at, lists |-> l]
      /\ \A j \in DOMAIN l : l[j] \in Seq(PieceType)
      /\ \A j \in DOMAIN l : \A a \in DOMAIN l[j] : l[j][a] \in PieceType
  BY CacheTyped
<1>2. i \in DOMAIN l /\ l[i] \in Seq(PieceType) /\ l[i] # <<>> /\ 1 \in DOMAIN l[i]
  BY <1>1
<1>3. top \in PieceType /\ top.use = "array" /\ CacheIndexToReturn(top.to - top.from) = i
  BY <1>1, <1>2 DEF CacheInv
<1>4. top \in CachedPieces /\ top \in Pieces
  BY <1>2, CachedIs, PiecesAre
<1>5. PICK m : m = [l EXCEPT ![i] = Tail(@)]
  OBVIOUS
<1>6. /\ m \in Seq(Seq(PieceType)) /\ Len(m) = Len(l) /\ DOMAIN m = DOMAIN l
      /\ m[i] = Tail(l[i]) /\ \A j \in DOMAIN l : j # i => m[j] = l[j]
  <2>1. Tail(l[i]) \in Seq(PieceType)
    BY <1>2
  <2> HIDE DEF l
  <2> QED
    BY <1>1, <1>2, <1>5, <2>1
<1>7. cached' = [length |-> cached.length, at |-> cached.at, lists |-> m]
  <2>1. cached' = [cached EXCEPT !.lists = m]
    BY <1>5
  <2> QED
    BY <1>1, <2>1
<1> DEFINE old(j, a) == IF j = i THEN a + 1 ELSE a
<1>8. ASSUME NEW j \in DOMAIN m, NEW a \in DOMAIN m[j]
      PROVE  /\ j \in DOMAIN l /\ a \in Nat /\ old(j, a) \in DOMAIN l[j]
             /\ m[j][a] = l[j][old(j, a)] /\ (j = i => old(j, a) # 1)
  <2>1. j \in DOMAIN l
    BY <1>6
  <2>2. CASE j = i
    <3>1. PICK t : t = l[i]
      OBVIOUS
    <3>2. \A b \in DOMAIN Tail(t) :
            b \in Nat /\ b + 1 \in DOMAIN t /\ b + 1 # 1 /\ Tail(t)[b] = t[b + 1]
      BY <1>2, <3>1, TailOf
    <3>3. m[j] = Tail(t)
      BY <1>6, <2>2, <3>1
    <3>4. a \in Nat /\ a + 1 \in DOMAIN t /\ a + 1 # 1 /\ m[j][a] = t[a + 1]
      BY <3>2, <3>3
    <3> QED
      BY <2>1, <2>2, <3>1, <3>4
  <2>3. CASE j # i
    <3>1. m[j] = l[j] /\ l[j] \in Seq(PieceType)
      BY <1>1, <1>6, <2>1, <2>3
    <3> QED
      BY <2>1, <2>3, <3>1
  <2> QED
    BY <2>2, <2>3
<1>9. NoneTwice(l)
  BY DEF OnceInv
<1>10. NoneTwice(m)
  <2> SUFFICES ASSUME NEW j1 \in DOMAIN m, NEW j2 \in DOMAIN m, NEW a \in DOMAIN m[j1],
                      NEW b \in DOMAIN m[j2], m[j1][a] = m[j2][b]
               PROVE  j1 = j2 /\ a = b
    BY DEF NoneTwice
  <2>1. /\ j1 \in DOMAIN l /\ old(j1, a) \in DOMAIN l[j1] /\ m[j1][a] = l[j1][old(j1, a)]
        /\ j2 \in DOMAIN l /\ old(j2, b) \in DOMAIN l[j2] /\ m[j2][b] = l[j2][old(j2, b)]
        /\ a \in Nat /\ b \in Nat
    BY <1>8
  <2> HIDE DEF old, l
  <2>2. j1 = j2 /\ old(j1, a) = old(j2, b)
    <3>1. PICK a1, b1 : a1 = old(j1, a) /\ b1 = old(j2, b)
      OBVIOUS
    <3>2. l[j1][a1] = l[j2][b1] /\ a1 \in DOMAIN l[j1] /\ b1 \in DOMAIN l[j2]
      BY <2>1, <3>1
    <3>3. j1 = j2 /\ a1 = b1
      BY ONLY <1>9, <2>1, <3>2 DEF NoneTwice
    <3> QED
      BY <3>1, <3>3
  <2> QED
    BY <2>1, <2>2 DEF old
<1>11. CacheInv' /\ Array' = Array
       /\ \A p : p \in CachedPieces' <=> \E j \in DOMAIN m : \E a \in DOMAIN m[j] : m[j][a] = p
  <2>1. \A j \in DOMAIN m : \A a \in DOMAIN m[j] :
          m[j][a].use = "array" /\ CacheIndexToReturn(m[j][a].to - m[j][a].from) = j
    BY <1>8 DEF CacheInv
  <2>2. cached.at # NULL => 8 * cached.length <= cached.at.to - cached.at.from
    BY DEF CacheInv
  <2>3. PICK at, length : at = cached.at /\ length = cached.length
    OBVIOUS
  <2> HIDE DEF l, old
  <2>4. /\ CacheInv' /\ Array' = {at} \ {NULL}
        /\ \A p : p \in CachedPieces' <=> \E j \in DOMAIN m : \E a \in DOMAIN m[j] : m[j][a] = p
    <3>1. /\ cached' = [length |-> length, at |-> at, lists |-> m] /\ length = Len(m)
          /\ at \in PieceType \cup {NULL} /\ (at # NULL => 8 * length <= at.to - at.from)
      BY <1>1, <1>6, <1>7, <2>2, <2>3
    <3>2. m \in Seq(Seq(PieceType))
      BY <1>6
    <3> QED
      BY ONLY CacheInv, <2>1, <3>1, <3>2, ListsChange
  <2> QED
    BY <2>3, <2>4 DEF Array
<1>12. \A p : p \in CachedPieces' => p \in CachedPieces /\ p # top
  <2> SUFFICES ASSUME NEW p, p \in CachedPieces' PROVE p \in CachedPieces /\ p # top
    OBVIOUS
  <2>1. PICK j \in DOMAIN m : \E a \in DOMAIN m[j] : m[j][a] = p
    BY <1>11
  <2>2. PICK a \in DOMAIN m[j] : m[j][a] = p
    BY <2>1
  <2>3. /\ j \in DOMAIN l /\ old(j, a) \in DOMAIN l[j] /\ p = l[j][old(j, a)]
        /\ (j = i => old(j, a) # 1)
    BY <1>8, <2>2
  <2> HIDE DEF old
  <2>4. p \in CachedPieces
    BY <2>3, CachedIs
  <2>5. p # top
    BY <1>2, <1>9, <2>3 DEF NoneTwice
  <2> QED
    BY <2>4, <2>5
<1> HIDE DEF l, old
<1>13. top.from \in Nat /\ top.to \in Nat /\ Inside(mem, top) /\ n <= top.to - top.from
  <2>1. top.from \in Nat /\ top.to \in Nat
    BY <1>3 DEF PieceType
  <2>2. Inside(mem, top)
    BY <1>4 DEF PlaceInv
  <2>3. PICK s : s = top.to - top.from
    OBVIOUS
  <2>4. s \in Nat
    BY <2>1, <2>2, <2>3 DEF Inside
  <2>5. n <= s
    BY <1>3, <2>3, <2>4, TakeFits
  <2> QED
    BY <2>1, <2>2, <2>3, <2>5
<1>14. /\ part \in PieceType /\ part.use = "array" /\ part.block = top.block
       /\ part.from = top.from /\ part.to = top.from + n /\ part.from < part.to
       /\ part.to <= top.to
  <2>1. PICK to : to = top.from + n
    OBVIOUS
  <2>2. PICK from, end : from = top.from /\ end = top.to
    OBVIOUS
  <2>3. to \in Nat /\ from < to /\ to <= end
    BY ONLY <1>13, <2>1, <2>2, n \in Nat \ {0}
  <2>4. part = [top EXCEPT !.to = to]
    BY <2>1
  <2> QED
    BY <1>3, <2>1, <2>2, <2>3, <2>4 DEF PieceType
<1>15. /\ Inside(mem, part)
       /\ \A q \in Pieces : q # top => q # part /\ ~Overlap(q, part) /\ ~Overlap(part, q)
  BY ONLY MemInv(mem), OwnedInv, StringsInv, CacheInv, PlaceInv, <1>4, <1>14, PartIsApart
<1>16. \A p : p \in Pieces' => p = part \/ (p \in Pieces /\ p # top)
  <2>1. Pieces' = owned' \cup Emplaced' \cup CachedPieces' \cup Array'
    BY DEF Pieces, Array
  <2>2. top \notin owned /\ top \notin Emplaced /\ top \notin Array
    BY <1>4 DEF OnceInv
  <2>3. \A p \in Pieces' : \/ p = part \/ (p \in CachedPieces /\ p # top)
                           \/ p \in owned \/ p \in Emplaced \/ p \in Array
    <3>1. PICK cachedAfter : cachedAfter = CachedPieces'
      OBVIOUS
    <3>2. \A p \in cachedAfter : p \in CachedPieces /\ p # top
      BY <1>12, <3>1
    <3>3. PICK after : after = Pieces'
      OBVIOUS
    <3>4. after = (owned \cup {part}) \cup Emplaced \cup cachedAfter \cup Array
      BY <1>11, <2>1, <3>1, <3>3
    <3>5. SUFFICES ASSUME NEW p \in after
                   PROVE  \/ p = part \/ (p \in CachedPieces /\ p # top)
                          \/ p \in owned \/ p \in Emplaced \/ p \in Array
      BY <3>3
    <3>6. p \in owned \/ p = part \/ p \in Emplaced \/ p \in cachedAfter \/ p \in Array
      BY ONLY <3>4, p \in after
    <3> QED
      BY ONLY <3>2, <3>6
  <2> QED
    BY <2>2, <2>3, PiecesAre
<1>17. PlaceInv'
  <2>1. \A p \in Pieces' : Inside(mem, p)
    BY <1>15, <1>16 DEF PlaceInv
  <2>2. \A p, q \in Pieces' : p # q => ~Overlap(p, q)
    BY <1>15, <1>16 DEF PlaceInv
  <2> QED
    BY <2>1, <2>2 DEF PlaceInv, Overlap, Inside, Top
<1>18. OnceInv'
  <2>1. part \notin Emplaced /\ part \notin Array /\ part \notin CachedPieces'
    <3>1. top \notin Emplaced /\ top \notin Array
      BY <1>4 DEF OnceInv
    <3> QED
      BY <1>12, <1>15, <3>1, PiecesAre
  <2>2. cached'.lists = m
    BY <1>7
  <2>3. PICK free : free = CachedPieces'
    OBVIOUS
  <2>4. free \subseteq CachedPieces /\ part \notin free
    BY <1>12, <2>1, <2>3
  <2>5. /\ owned \cap (Emplaced \cup CachedPieces \cup Array) = {}
        /\ Emplaced \cap (CachedPieces \cup Array) = {} /\ CachedPieces \cap Array = {}
    BY DEF OnceInv
  <2>6. /\ owned' \cap (Emplaced' \cup free \cup Array') = {}
        /\ Emplaced' \cap (free \cup Array') = {}
        /\ free \cap Array' = {}
    BY <1>11, <2>1, <2>4, <2>5
  <2>7. NoneTwice(cached.lists)'
    BY ONLY <1>10, <2>2 DEF NoneTwice
  <2> QED
    BY ONLY <2>3, <2>6, <2>7 DEF OnceInv
<1> QED
  BY <1>11, <1>14, <1>17, <1>18

LEMMA PushOf ==
    ASSUME NEW S, NEW t \in Seq(S), NEW e \in S
    PROVE  \A b \in DOMAIN (<<e>> \o t) :
             /\ b \in Nat
             /\ \/ b = 1 /\ (<<e>> \o t)[b] = e
                \/ b - 1 \in DOMAIN t /\ (<<e>> \o t)[b] = t[b - 1]
  OBVIOUS

(* Where nothing is added, nothing overlaps.                                *)
LEMMA PiecesAreFewer ==
    ASSUME PlaceInv, mem' = mem, Emplaced' = Emplaced, owned' \subseteq owned,
           \A p : p \in CachedPieces' => p \in CachedPieces \/ p \in owned,
           \A p : p \in Array' => p \in Array \/ p \in owned
    PROVE  PlaceInv'
<1>1. PICK after : after = Pieces'
  OBVIOUS
<1>2. after = owned' \cup Emplaced \cup CachedPieces' \cup Array'
  BY <1>1 DEF Pieces, Array
<1>3. \A p \in after : p \in Pieces
  BY <1>2, PiecesAre
<1> QED
  BY <1>1, <1>3 DEF PlaceInv, Overlap, Inside, Top

(* A piece that is returned is filed on top of a list,                      *)
LEMMA PieceIsPushed ==
    ASSUME MemInv(mem), OwnedInv, StringsInv, CacheInv, PlaceInv, OnceInv,
           NEW piece \in owned, piece.use = "array",
           NEW i, i = CacheIndexToReturn(piece.to - piece.from), i \in 1 .. cached.length,
           cached' = Push(i, piece), owned' = owned \ {piece}, Emplaced' = Emplaced, mem' = mem
    PROVE  CacheInv' /\ PlaceInv' /\ OnceInv'
<1> DEFINE l == cached.lists
<1>1. /\ l \in Seq(Seq(PieceType)) /\ cached.length \in Nat
      /\ cached.at \in PieceType \cup {NULL} /\ cached.length = Len(l)
      /\ cached = [length |-> cached.length, at |-> cached.at, lists |-> l]
      /\ \A j \in DOMAIN l : l[j] \in Seq(PieceType)
      /\ \A j \in DOMAIN l : \A a \in DOMAIN l[j] : l[j][a] \in PieceType
  BY CacheTyped
<1>2. i \in DOMAIN l /\ l[i] \in Seq(PieceType)
  BY <1>1
<1>3. piece \in PieceType /\ piece \in Pieces
  BY PiecesTyped, PiecesAre
<1>4. piece \notin Emplaced /\ piece \notin CachedPieces /\ piece \notin Array
  BY DEF OnceInv
<1>5. PICK m : m = [l EXCEPT ![i] = <<piece>> \o @]
  OBVIOUS
<1>6. /\ m \in Seq(Seq(PieceType)) /\ Len(m) = Len(l) /\ DOMAIN m = DOMAIN l
      /\ m[i] = <<piece>> \o l[i] /\ \A j \in DOMAIN l : j # i => m[j] = l[j]
  <2>1. <<piece>> \o l[i] \in Seq(PieceType)
    BY <1>2, <1>3
  <2> HIDE DEF l
  <2> QED
    BY <1>1, <1>2, <1>5, <2>1
<1>7. cached' = [length |-> cached.length, at |-> cached.at, lists |-> m]
  <2>1. cached' = [cached EXCEPT !.lists = m]
    BY <1>5 DEF Push
  <2> QED
    BY <1>1, <2>1
<1> DEFINE old(j, a) == IF j = i THEN a - 1 ELSE a
<1>8. ASSUME NEW j \in DOMAIN m, NEW a \in DOMAIN m[j]
      PROVE  /\ j \in DOMAIN l /\ a \in Nat
             /\ \/ j = i /\ a = 1 /\ m[j][a] = piece
                \/ old(j, a) \in DOMAIN l[j] /\ m[j][a] = l[j][old(j, a)]
  <2>1. j \in DOMAIN l
    BY <1>6
  <2>2. CASE j = i
    <3>1. PICK t : t = l[i]
      OBVIOUS
    <3>2. \A b \in DOMAIN (<<piece>> \o t) :
            /\ b \in Nat
            /\ \/ b = 1 /\ (<<piece>> \o t)[b] = piece
               \/ b - 1 \in DOMAIN t /\ (<<piece>> \o t)[b] = t[b - 1]
      BY <1>2, <3>1, PushOf
    <3>3. m[j] = <<piece>> \o t
      BY <1>6, <2>2, <3>1
    <3>4. a \in Nat /\ ((a = 1 /\ m[j][a] = piece) \/ (a - 1 \in DOMAIN t /\ m[j][a] = t[a - 1]))
      BY <3>2, <3>3
    <3> QED
      BY <2>1, <2>2, <3>1, <3>4
  <2>3. CASE j # i
    <3>1. m[j] = l[j] /\ l[j] \in Seq(PieceType)
      BY <1>1, <1>6, <2>1, <2>3
    <3> QED
      BY <2>1, <2>3, <3>1
  <2> QED
    BY <2>2, <2>3
<1>9. NoneTwice(l)
  BY DEF OnceInv
<1>10. \A j \in DOMAIN l : \A a \in DOMAIN l[j] : l[j][a] # piece
  BY <1>4, CachedIs
<1>11. NoneTwice(m)
  <2> SUFFICES ASSUME NEW j1 \in DOMAIN m, NEW j2 \in DOMAIN m, NEW a \in DOMAIN m[j1],
                      NEW b \in DOMAIN m[j2], m[j1][a] = m[j2][b]
               PROVE  j1 = j2 /\ a = b
    BY DEF NoneTwice
  <2>1. PICK a1, b1 : a1 = old(j1, a) /\ b1 = old(j2, b)
    OBVIOUS
  <2>2. /\ j1 \in DOMAIN l /\ j2 \in DOMAIN l /\ a \in Nat /\ b \in Nat
        /\ \/ j1 = i /\ a = 1 /\ m[j1][a] = piece
           \/ a1 \in DOMAIN l[j1] /\ m[j1][a] = l[j1][a1]
        /\ \/ j2 = i /\ b = 1 /\ m[j2][b] = piece
           \/ b1 \in DOMAIN l[j2] /\ m[j2][b] = l[j2][b1]
    BY <1>8, <2>1
  <2> HIDE DEF old, l
  <2>3. CASE m[j1][a] = piece
    BY ONLY <1>10, <2>2, <2>3, m[j1][a] = m[j2][b]
  <2>4. CASE m[j1][a] # piece
    <3>1. j1 = j2 /\ a1 = b1
      BY ONLY <1>9, <2>2, <2>4, m[j1][a] = m[j2][b] DEF NoneTwice
    <3> QED
      BY <2>1, <2>2, <3>1 DEF old
  <2> QED
    BY <2>3, <2>4
<1>12. CacheInv' /\ Array' = Array
       /\ \A p : p \in CachedPieces' <=> \E j \in DOMAIN m : \E a \in DOMAIN m[j] : m[j][a] = p
  <2>1. \A j \in DOMAIN m : \A a \in DOMAIN m[j] :
          m[j][a].use = "array" /\ CacheIndexToReturn(m[j][a].to - m[j][a].from) = j
    BY <1>8 DEF CacheInv
  <2>2. cached.at # NULL => 8 * cached.length <= cached.at.to - cached.at.from
    BY DEF CacheInv
  <2>3. PICK at, length : at = cached.at /\ length = cached.length
    OBVIOUS
  <2> HIDE DEF l, old
  <2>4. /\ CacheInv' /\ Array' = {at} \ {NULL}
        /\ \A p : p \in CachedPieces' <=> \E j \in DOMAIN m : \E a \in DOMAIN m[j] : m[j][a] = p
    <3>1. /\ cached' = [length |-> length, at |-> at, lists |-> m] /\ length = Len(m)
          /\ at \in PieceType \cup {NULL} /\ (at # NULL => 8 * length <= at.to - at.from)
      BY <1>1, <1>6, <1>7, <2>2, <2>3
    <3>2. m \in Seq(Seq(PieceType))
      BY <1>6
    <3> QED
      BY ONLY CacheInv, <2>1, <3>1, <3>2, ListsChange
  <2> QED
    BY <2>3, <2>4 DEF Array
<1>13. \A p : p \in CachedPieces' => p \in CachedPieces \/ p = piece
  <2> SUFFICES ASSUME NEW p, p \in CachedPieces', p # piece PROVE p \in CachedPieces
    OBVIOUS
  <2>1. PICK j \in DOMAIN m : \E a \in DOMAIN m[j] : m[j][a] = p
    BY <1>12
  <2>2. PICK a \in DOMAIN m[j] : m[j][a] = p
    BY <2>1
  <2>3. j \in DOMAIN l /\ old(j, a) \in DOMAIN l[j] /\ p = l[j][old(j, a)]
    BY <1>8, <2>2
  <2> HIDE DEF old
  <2> QED
    BY <2>3, CachedIs
<1> HIDE DEF l, old
<1>14. PlaceInv'
  BY <1>12, <1>13, PiecesAreFewer
<1>15. OnceInv'
  <2>1. cached'.lists = m
    BY <1>7
  <2> QED
    BY <1>4, <1>11, <1>12, <1>13, <2>1 DEF OnceInv, NoneTwice
<1> QED
  BY <1>12, <1>14, <1>15

(* or becomes the array of the free lists, which take over what they held.  *)
LEMMA PieceBecomesArray ==
    ASSUME MemInv(mem), OwnedInv, StringsInv, CacheInv, PlaceInv, OnceInv,
           NEW piece \in owned, piece.use = "array",
           cached' = BecomeFreelist(piece), owned' = owned \ {piece}, Emplaced' = Emplaced,
           mem' = mem
    PROVE  CacheInv' /\ PlaceInv' /\ OnceInv'
<1> DEFINE l == cached.lists
<1>1. /\ l \in Seq(Seq(PieceType)) /\ cached.length \in Nat /\ cached.length = Len(l)
      /\ \A j \in DOMAIN l : l[j] \in Seq(PieceType)
      /\ \A j \in DOMAIN l : \A a \in DOMAIN l[j] : l[j][a] \in PieceType
  BY CacheTyped
<1>2. piece \in PieceType /\ piece \in Pieces /\ Inside(mem, piece)
  BY PiecesTyped, PiecesAre DEF PlaceInv
<1>3. piece \notin Emplaced /\ piece \notin CachedPieces /\ piece \notin Array
  BY DEF OnceInv
<1>4. PICK length : length = SmallerOf(64, (piece.to - piece.from) \div 8)
  OBVIOUS
<1>5. length \in Nat /\ 8 * length <= piece.to - piece.from
  <2>1. PICK s : s = piece.to - piece.from
    OBVIOUS
  <2>2. s \in Nat
    BY <1>2, <2>1 DEF Inside, PieceType
  <2>3. s \div 8 \in Nat /\ 8 * (s \div 8) <= s
    BY <2>2
  <2>4. length = SmallerOf(64, s \div 8)
    BY <1>4, <2>1
  <2> QED
    BY <2>1, <2>3, <2>4 DEF SmallerOf
<1>6. PICK m : m = [i \in 1 .. length |-> IF i <= cached.length THEN l[i] ELSE <<>>]
  OBVIOUS
<1>7. cached' = [length |-> length, at |-> piece, lists |-> m]
  BY <1>4, <1>6 DEF BecomeFreelist
<1>8. \A i \in 1 .. length :
        m[i] \in Seq(PieceType) /\ (m[i] = <<>> \/ (i \in DOMAIN l /\ m[i] = l[i]))
  BY <1>1, <1>5, <1>6
<1> HIDE DEF l
<1>9. m \in Seq(Seq(PieceType)) /\ Len(m) = length /\ DOMAIN m = 1 .. length
  BY <1>5, <1>6, <1>8
<1>10. ASSUME NEW j \in DOMAIN m, NEW a \in DOMAIN m[j]
       PROVE  j \in DOMAIN l /\ a \in DOMAIN l[j] /\ m[j][a] = l[j][a]
  BY <1>8, <1>9
<1>11. NoneTwice(m)
  <2>1. NoneTwice(l)
    BY DEF OnceInv, l
  <2> QED
    BY <1>10, <2>1 DEF NoneTwice
<1>12. /\ CacheInv' /\ Array' = {piece} \ {NULL}
       /\ \A p : p \in CachedPieces' <=> \E j \in DOMAIN m : \E a \in DOMAIN m[j] : m[j][a] = p
  <2>1. \A j \in DOMAIN m : \A a \in DOMAIN m[j] :
          m[j][a].use = "array" /\ CacheIndexToReturn(m[j][a].to - m[j][a].from) = j
    BY <1>10 DEF CacheInv, l
  <2>2. /\ length = Len(m) /\ piece \in PieceType \cup {NULL}
        /\ (piece # NULL => 8 * length <= piece.to - piece.from)
        /\ m \in Seq(Seq(PieceType))
    BY <1>2, <1>5, <1>9
  <2> QED
    BY ONLY CacheInv, <1>7, <2>1, <2>2, ListsChange
<1>13. \A p : p \in CachedPieces' => p \in CachedPieces
  <2> SUFFICES ASSUME NEW p, p \in CachedPieces' PROVE p \in CachedPieces
    OBVIOUS
  <2>1. PICK j \in DOMAIN m : \E a \in DOMAIN m[j] : m[j][a] = p
    BY <1>12
  <2>2. PICK a \in DOMAIN m[j] : m[j][a] = p
    BY <2>1
  <2>3. j \in DOMAIN l /\ a \in DOMAIN l[j] /\ p = l[j][a]
    BY <1>10, <2>2
  <2> QED
    BY <2>3, CachedIs DEF l
<1>14. PlaceInv'
  BY <1>12, <1>13, PiecesAreFewer
<1>15. OnceInv'
  <2>1. cached'.lists = m
    BY <1>7
  <2>2. PICK lists_ : lists_ = CachedPieces'
    OBVIOUS
  <2>3. lists_ \subseteq CachedPieces
    BY <1>13, <2>2
  <2>4. owned \cap Emplaced = {} /\ owned \cap CachedPieces = {} /\ Emplaced \cap CachedPieces = {}
    BY DEF OnceInv
  <2>5. /\ owned' \cap (Emplaced' \cup lists_ \cup Array') = {}
        /\ Emplaced' \cap (lists_ \cup Array') = {}
        /\ lists_ \cap Array' = {}
    BY <1>3, <1>12, <2>3, <2>4
  <2> QED
    BY <1>11, <2>1, <2>2, <2>5 DEF OnceInv, NoneTwice
<1> QED
  BY <1>12, <1>14, <1>15

(* Where only some of the pieces of clients are left, they are apart.       *)
LEMMA Cleared ==
    ASSUME PlaceInv, OwnedInv, StringsInv, CacheInv,
           NEW kept, kept \subseteq owned, owned' = kept, string_blocks' = <<>>, cached' = NoCache,
           \A p \in kept : Inside(mem', p)
    PROVE  CacheInv' /\ PlaceInv' /\ OnceInv'
<1>1. Emplaced' = {} /\ CachedPieces' = {} /\ Array' = {}
  BY DEF Emplaced, CachedPieces, Array, NoCache, ToSet
<1>2. Pieces' = kept
  <2>1. Pieces' = owned' \cup Emplaced' \cup CachedPieces' \cup Array'
    BY DEF Pieces, Array
  <2> QED
    BY <1>1, <2>1
<1>3. \A p, q \in kept : p # q => ~Overlap(p, q)
  BY PiecesAre DEF PlaceInv
<1>4. PlaceInv'
  BY <1>2, <1>3 DEF PlaceInv, Overlap, Inside, Top
<1>5. CacheInv'
  BY DEF CacheInv, CacheType, NoCache
<1>6. OnceInv'
  BY <1>1 DEF OnceInv, NoneTwice, NoCache
<1> QED
  BY <1>4, <1>5, <1>6

-----------------------------------------------------------------------------
(* The cleanup list, the string blocks and the first block                  *)

LEMMA ChunkIsLarge ==
    ASSUME CleanupInv, NEW size \in ChunkSizes
    PROVE  size \in Nat /\ ChunkStartSize <= size
<1>1. PICK last_size : last_size = IF cleanup = <<>> THEN 0 ELSE Last(cleanup).size
  OBVIOUS
<1>2. PICK s \in Surplus : size = AllocationSize(last_size, ChunkStartSize, ChunkMaxSize) + s
  BY <1>1 DEF ChunkSizes
<1>3. s \in Nat
  BY WordAssumption
<1>4. last_size = 0 \/ (last_size \in Nat /\ ChunkStartSize <= last_size)
  <2>1. CASE cleanup = <<>>
    BY <1>1, <2>1
  <2>2. CASE cleanup # <<>>
    <3>1. cleanup \in Seq(ChunkType) /\ Len(cleanup) \in DOMAIN cleanup
      BY <2>2 DEF CleanupInv
    <3>2. last_size = cleanup[Len(cleanup)].size
      BY <1>1, <2>2 DEF Last
    <3>3. cleanup[Len(cleanup)] \in ChunkType /\ ChunkStartSize <= last_size
      BY <3>1, <3>2 DEF CleanupInv
    <3> QED
      BY <3>2, <3>3 DEF ChunkType
  <2> QED
    BY <2>1, <2>2
<1> QED
  BY <1>2, <1>3, <1>4, SizesAssumption DEF AllocationSize, SmallerOf

LEMMA ChunkHoldsNodes ==
    ASSUME NEW size \in Nat, ChunkStartSize <= size
    PROVE  ChunkCapacity(size) \in Nat \ {0}
<1>1. PICK n, room : n = NodeSize /\ room = size - ChunkHeaderSize
  OBVIOUS
<1>2. n \in Nat \ {0} /\ room \in Nat /\ n <= room
  BY <1>1, SizesAssumption
<1>3. PICK q, r : q = room \div n /\ r = room % n
  OBVIOUS
<1>4. q \in Int /\ room = n * q + r /\ r \in 0 .. n - 1
  BY <1>2, <1>3, ModDivides, ModRange
<1>5. q > 0
  <2> SUFFICES ASSUME q <= 0 PROVE FALSE
    BY <1>4
  <2>1. n * q <= 0
    BY ONLY <1>2, <1>4, q <= 0
  <2> QED
    BY ONLY <1>2, <1>4, <2>1
<1> QED
  BY <1>1, <1>3, <1>4, <1>5 DEF ChunkCapacity

LEMMA ExceptOf ==
    ASSUME NEW S, NEW list \in Seq(S), NEW i, NEW e \in S
    PROVE  [list EXCEPT ![i] = e] \in Seq(S) /\ Len([list EXCEPT ![i] = e]) = Len(list)
<1>1. PICK n \in Nat : n = Len(list)
  OBVIOUS
<1>2. PICK f : f = [list EXCEPT ![i] = e]
  OBVIOUS
<1>3. DOMAIN f = 1 .. n /\ \A j \in 1 .. n : f[j] \in S
  BY <1>1, <1>2
<1>4. f = [j \in 1 .. n |-> f[j]]
  BY <1>2, <1>3
<1>5. f \in Seq(S) /\ Len(f) = n
  BY ONLY <1>3, <1>4, n \in Nat
<1> QED
  BY <1>1, <1>2, <1>5

(* Setting a node of the head chunk                                         *)
LEMMA NodeIsSet ==
    ASSUME NEW chunks \in Seq(ChunkType), chunks # <<>>, NEW elem \in Nat, NEW i,
           NEW after, after = AddFromExisting(chunks, i, elem)
    PROVE  /\ after \in Seq(ChunkType) /\ after # <<>> /\ Len(after) = Len(chunks)
           /\ Len(Last(after).nodes) = Len(Last(chunks).nodes)
           /\ \A j \in DOMAIN after : after[j].size = chunks[j].size
                                      /\ Len(after[j].nodes) = Len(chunks[j].nodes)
<1>1. PICK n \in Nat \ {0} : n = Len(chunks)
  OBVIOUS
<1>2. PICK old \in ChunkType : old = chunks[n]
  BY <1>1
<1>3. PICK nodes : nodes = [old.nodes EXCEPT ![i] = elem]
  OBVIOUS
<1>4. nodes \in Seq(Nat \cup {NULL}) /\ Len(nodes) = Len(old.nodes)
  <2>1. PICK list \in Seq(Nat \cup {NULL}) : list = old.nodes
    BY DEF ChunkType
  <2>2. nodes = [list EXCEPT ![i] = elem]
    BY <1>3, <2>1
  <2>3. nodes \in Seq(Nat \cup {NULL}) /\ Len(nodes) = Len(list)
    <3>1. PICK S : S = Nat \cup {NULL}
      OBVIOUS
    <3>2. list \in Seq(S) /\ elem \in S
      BY <3>1
    <3> QED
      BY <2>2, <3>1, <3>2, ExceptOf
  <2> QED
    BY <2>1, <2>3
<1>5. PICK new : new = [old EXCEPT !.nodes = nodes]
  OBVIOUS
<1>6. new \in ChunkType /\ new.size = old.size /\ new.nodes = nodes
  BY <1>4, <1>5 DEF ChunkType
<1>7. after = [chunks EXCEPT ![n] = new]
  BY <1>1, <1>2, <1>3, <1>5 DEF AddFromExisting
<1>8. /\ after \in Seq(ChunkType) /\ Len(after) = n /\ after[n] = new
      /\ \A j \in 1 .. n : j # n => after[j] = chunks[j]
  BY ONLY <1>1, <1>6, <1>7, chunks \in Seq(ChunkType), n \in Nat \ {0}
<1>9. Last(after) = new /\ Last(chunks) = old
  BY <1>1, <1>2, <1>8 DEF Last
<1> QED
  BY <1>1, <1>2, <1>4, <1>6, <1>8, <1>9

LEMMA CleanupIsAdded ==
    ASSUME CleanupInv, NEW m, MemInv(m), AddCleanup(m)
    PROVE  CleanupInv' /\ SameSpace(m, mem')
<1> DEFINE elem == Len(registered) + 1
<1>1. cleanup \in Seq(ChunkType) /\ next \in Nat /\ elem \in Nat
      /\ \A i \in DOMAIN cleanup : ChunkStartSize <= cleanup[i].size /\ cleanup[i].nodes # <<>>
  <2>1. cleanup \in Seq(ChunkType) /\ registered \in Seq(Nat)
    BY DEF CleanupInv
  <2>2. cleanup # <<>> => Last(cleanup) \in ChunkType
    BY <2>1 DEF Last
  <2>3. next \in Nat
    BY <2>2 DEF CleanupInv, ChunkType
  <2> QED
    BY <2>1, <2>3 DEF CleanupInv
<1>2. registered' \in Seq(Nat)
  BY DEF CleanupInv, AddCleanup
<1>3. CASE HasRoom /\ next' = next + 1 /\ cleanup' = AddFromExisting(cleanup, next', elem)
           /\ mem' = m
  <2>1. PICK after, i : after = cleanup' /\ i = next'
    OBVIOUS
  <2>2. after = AddFromExisting(cleanup, i, elem) /\ cleanup # <<>>
    BY <1>3, <2>1 DEF HasRoom
  <2> HIDE DEF elem
  <2>3. /\ after \in Seq(ChunkType) /\ after # <<>> /\ Len(after) = Len(cleanup)
        /\ Len(Last(after).nodes) = Len(Last(cleanup).nodes)
        /\ \A j \in DOMAIN after : after[j].size = cleanup[j].size
                                   /\ Len(after[j].nodes) = Len(cleanup[j].nodes)
    BY ONLY <1>1, <2>2, NodeIsSet
  <2>4. Last(cleanup) \in ChunkType
    BY <1>1, <2>2 DEF Last
  <2>5. next' \in 0 .. Len(Last(after).nodes)
    BY <1>1, <1>3, <2>3, <2>4 DEF HasRoom, ChunkType
  <2>6. \A j \in DOMAIN after : ChunkStartSize <= after[j].size /\ after[j].nodes # <<>>
    <3> SUFFICES ASSUME NEW j \in DOMAIN after
                 PROVE  ChunkStartSize <= after[j].size /\ after[j].nodes # <<>>
      OBVIOUS
    <3>1. j \in DOMAIN cleanup /\ after[j] \in ChunkType /\ cleanup[j] \in ChunkType
      BY <1>1, <2>3
    <3>2. after[j].nodes \in Seq(Nat \cup {NULL}) /\ cleanup[j].nodes \in Seq(Nat \cup {NULL})
      BY <3>1 DEF ChunkType
    <3> QED
      BY <1>1, <2>3, <3>1, <3>2
  <2>7. CleanupInv'
    BY <1>2, <2>1, <2>3, <2>5, <2>6 DEF CleanupInv
  <2>8. SameSpace(m, mem')
    BY <1>3 DEF SameSpace
  <2> QED
    BY <2>7, <2>8
<1>4. ASSUME NEW size \in ChunkSizes, next' = 1, mem' = AddSpaceAllocated(m, size),
             cleanup' = AddFromExisting(Append(cleanup, NewChunk(size)), 1, elem)
      PROVE  CleanupInv' /\ SameSpace(m, mem')
  <2>1. size \in Nat /\ ChunkStartSize <= size
    BY ChunkIsLarge
  <2>2. PICK capacity : capacity = ChunkCapacity(size)
    OBVIOUS
  <2>3. capacity \in Nat \ {0}
    BY <2>1, <2>2, ChunkHoldsNodes
  <2>4. PICK nodes : nodes = [i \in 1 .. capacity |-> NULL]
    OBVIOUS
  <2>5. nodes \in Seq(Nat \cup {NULL}) /\ Len(nodes) = capacity /\ nodes # <<>>
    BY <2>3, <2>4
  <2>6. PICK chunk : chunk = [size |-> size, nodes |-> nodes]
    OBVIOUS
  <2>7. chunk \in ChunkType /\ chunk.size = size /\ chunk.nodes = nodes
    BY <2>1, <2>5, <2>6 DEF ChunkType
  <2>8. NewChunk(size) = chunk
    BY <2>2, <2>4, <2>6 DEF NewChunk
  <2>9. PICK chunks : chunks = Append(cleanup, chunk)
    OBVIOUS
  <2>10. /\ chunks \in Seq(ChunkType) /\ chunks # <<>> /\ Last(chunks) = chunk
         /\ \A j \in DOMAIN chunks : ChunkStartSize <= chunks[j].size /\ chunks[j].nodes # <<>>
    <3>1. /\ chunks \in Seq(ChunkType) /\ Len(chunks) = Len(cleanup) + 1
          /\ chunks[Len(cleanup) + 1] = chunk
          /\ \A j \in 1 .. Len(cleanup) : chunks[j] = cleanup[j]
      BY ONLY <1>1, <2>7, <2>9
    <3>2. \A j \in DOMAIN chunks : j \in DOMAIN cleanup \/ j = Len(cleanup) + 1
      BY <1>1, <3>1
    <3> QED
      BY <1>1, <2>1, <2>5, <2>7, <3>1, <3>2 DEF Last
  <2>11. PICK after : after = cleanup'
    OBVIOUS
  <2>12. after = AddFromExisting(chunks, 1, elem)
    BY <1>4, <2>8, <2>9, <2>11
  <2> HIDE DEF elem
  <2>13. /\ after \in Seq(ChunkType) /\ after # <<>> /\ Len(after) = Len(chunks)
         /\ Len(Last(after).nodes) = Len(Last(chunks).nodes)
         /\ \A j \in DOMAIN after : after[j].size = chunks[j].size
                                    /\ Len(after[j].nodes) = Len(chunks[j].nodes)
    BY ONLY <1>1, <2>10, <2>12, NodeIsSet
  <2>14. next' \in 0 .. Len(Last(after).nodes)
    BY <1>4, <2>3, <2>5, <2>7, <2>10, <2>13
  <2>15. \A j \in DOMAIN after : ChunkStartSize <= after[j].size /\ after[j].nodes # <<>>
    <3> SUFFICES ASSUME NEW j \in DOMAIN after
                 PROVE  ChunkStartSize <= after[j].size /\ after[j].nodes # <<>>
      OBVIOUS
    <3>1. j \in DOMAIN chunks /\ after[j] \in ChunkType /\ chunks[j] \in ChunkType
      BY <2>10, <2>13
    <3>2. after[j].nodes \in Seq(Nat \cup {NULL}) /\ chunks[j].nodes \in Seq(Nat \cup {NULL})
      BY <3>1 DEF ChunkType
    <3> QED
      BY <2>10, <2>13, <3>1, <3>2
  <2>16. CleanupInv'
    BY <1>2, <2>11, <2>13, <2>14, <2>15 DEF CleanupInv
  <2>17. SameSpace(m, mem')
    <3>1. size \in Int
      BY <2>1
    <3>2. SameSpace(m, AddSpaceAllocated(m, size))
      BY <3>1, Counted
    <3> QED
      BY <1>4, <3>2 DEF SameSpace
  <2> QED
    BY <2>16, <2>17
<1> QED
  BY <1>3, <1>4 DEF AddCleanup

(* The strings of a block fill it                                           *)
LEMMA StringsFill ==
    ASSUME NEW n \in StringSizes
    PROVE  /\ RoundedSize(n) \in Nat /\ RoundedSize(n) > 0
           /\ RoundedSize(n) - StringHeaderSize - StringSize
                \in {k * StringSize : k \in 0 .. StringMaxSize}
<1>1. PICK s, h : s = StringSize /\ h = StringHeaderSize
  OBVIOUS
<1>2. n \in Nat /\ s \in Nat \ {0} /\ h \in Nat /\ h + s <= n /\ n <= StringMaxSize
      /\ StringMaxSize \in Nat
  BY <1>1, LayoutAssumption DEF StringSizes
<1>3. PICK room \in Nat : room = n - h
  BY <1>2
<1>4. PICK q, r : q = room \div s /\ r = room % s
  OBVIOUS
<1>5. q \in Int /\ room = s * q + r /\ r \in 0 .. s - 1
  BY <1>2, <1>4, ModDivides, ModRange
<1>6. s <= room
  BY <1>2, <1>3
<1>7. q > 0
  <2> SUFFICES ASSUME q <= 0 PROVE FALSE
    BY <1>5
  <2>1. s * q <= 0
    BY ONLY <1>2, <1>5, q <= 0
  <2> QED
    BY ONLY <1>2, <1>5, <1>6, <2>1, room \in Nat
<1>8. q <= room
  <2>1. q <= s * q
    BY ONLY <1>2, <1>5, <1>7
  <2>2. PICK p : p = s * q
    OBVIOUS
  <2> QED
    BY ONLY <1>2, <1>5, <2>1, <2>2, room \in Nat
<1>9. RoundedSize(n) = n - r
  BY <1>1, <1>3, <1>4 DEF RoundedSize
<1>10. PICK k : k = q - 1
  OBVIOUS
<1>11. k \in 0 .. StringMaxSize /\ room - r - s = k * s
  <2>1. s * q = k * s + s
    BY ONLY <1>2, <1>5, <1>10
  <2>2. PICK p, t : p = s * q /\ t = k * s
    OBVIOUS
  <2>3. p \in Int /\ t \in Int /\ k \in Int
    BY <1>2, <1>5, <1>10, <2>2
  <2>4. room - r - s = k * s
    BY ONLY <1>2, <1>5, <2>1, <2>2, <2>3, room \in Nat
  <2>5. room <= n
    BY ONLY <1>2, <1>3
  <2> QED
    BY ONLY <1>2, <1>5, <1>7, <1>8, <1>10, <2>4, <2>5, room \in Nat
<1>12. n - r - h - s = k * s
  BY ONLY <1>2, <1>3, <1>5, <1>11, room \in Nat
<1>13. n - r \in Nat /\ n - r > 0
  BY ONLY <1>2, <1>3, <1>5, <1>6, room \in Nat
<1> QED
  BY <1>1, <1>9, <1>11, <1>12, <1>13

LEMMA NextSizes ==
    ASSUME StringsInv
    PROVE  NextSize(string_blocks) \in StringSizes /\ NextNextSize(string_blocks) \in StringSizes
<1>1. StringMinSize \in StringSizes /\ StringMaxSize \in StringSizes
  BY LayoutAssumption, SizesAssumption DEF StringSizes
<1>2. string_blocks # <<>> =>
        /\ Len(string_blocks) \in DOMAIN string_blocks
        /\ NextSize(string_blocks) = string_blocks[Len(string_blocks)].next_size
  BY DEF StringsInv, NextSize
<1>3. NextSize(string_blocks) \in StringSizes
  BY <1>1, <1>2 DEF StringsInv, NextSize
<1>4. ASSUME NEW n \in StringSizes PROVE SmallerOf(2 * n, StringMaxSize) \in StringSizes
  BY <1>1, LayoutAssumption DEF StringSizes, SmallerOf
<1> QED
  BY <1>1, <1>3, <1>4 DEF NextNextSize

LEMMA StringSizeIsAligned ==
    ASSUME NEW n \in StringSizes
    PROVE  n \in Nat /\ n % 8 = 0 /\ n > 0
BY LayoutAssumption DEF StringSizes

(* A string block is added, on the heap or with its memory.                 *)
LEMMA StringBlockIsAdded ==
    ASSUME StringsInv, NEW at \in PieceType \cup {NULL},
           NEW sb, sb = NewStringBlock(at),
           string_blocks' = Append(string_blocks, sb),
           unused' = EffectiveSize(Last(string_blocks')) - StringSize
    PROVE  /\ StringsInv' /\ sb.size \in Nat
           /\ Emplaced' = Emplaced \cup (IF at = NULL THEN {} ELSE {at})
<1>1. PICK n, m : n = NextSize(string_blocks) /\ m = NextNextSize(string_blocks)
  OBVIOUS
<1>2. n \in StringSizes /\ m \in StringSizes
  BY <1>1, NextSizes
<1>3. PICK size, heap : size = RoundedSize(n) /\ heap = (at = NULL)
  OBVIOUS
<1>4. /\ size \in Nat
      /\ size - StringHeaderSize - StringSize \in {k * StringSize : k \in 0 .. StringMaxSize}
  BY <1>2, <1>3, StringsFill
<1>5. sb = [size |-> size, heap |-> heap, at |-> at, next_size |-> m]
  BY <1>1, <1>3 DEF NewStringBlock
<1>6. /\ sb \in StringBlockType /\ sb.next_size \in StringSizes /\ sb.size = size
      /\ sb.heap = heap /\ sb.at = at
  BY <1>2, <1>3, <1>4, <1>5, StringSizeIsAligned DEF StringBlockType
<1>7. PICK before, after : before = string_blocks /\ after = string_blocks'
  OBVIOUS
<1>8. before \in Seq(StringBlockType) /\ after = Append(before, sb)
  BY <1>7 DEF StringsInv
<1>9. /\ after \in Seq(StringBlockType) /\ Len(after) = Len(before) + 1 /\ Len(before) \in Nat
      /\ after[Len(before) + 1] = sb /\ \A i \in 1 .. Len(before) : after[i] = before[i]
      /\ DOMAIN after = 1 .. Len(before) + 1 /\ DOMAIN before = 1 .. Len(before)
  BY ONLY <1>6, <1>8
<1>10. Last(after) = sb
  BY <1>9 DEF Last
<1>11. unused' \in {k * StringSize : k \in 0 .. StringMaxSize}
  BY <1>4, <1>6, <1>7, <1>10 DEF EffectiveSize
<1>12. \A i \in DOMAIN after : (i \in DOMAIN before /\ after[i] = before[i])
                               \/ (i = Len(before) + 1 /\ after[i] = sb)
  BY <1>9
<1>13. \A i \in DOMAIN after : /\ after[i].next_size \in StringSizes
                               /\ ~after[i].heap => after[i].at \in PieceType
  BY <1>3, <1>6, <1>7, <1>12 DEF StringsInv
<1>14. StringsInv'
  BY <1>7, <1>9, <1>11, <1>13 DEF StringsInv, StringSizes
<1>15. Emplaced' = Emplaced \cup (IF at = NULL THEN {} ELSE {at})
  <2>1. Emplaced = {before[i].at : i \in {j \in DOMAIN before : ~before[j].heap}}
    BY <1>7, EmplacedIs
  <2>2. Emplaced' = {after[i].at : i \in {j \in DOMAIN after : ~after[j].heap}}
    BY <1>7 DEF Emplaced, ToSet
  <2>3. PICK old, new : old = Emplaced /\ new = Emplaced'
    OBVIOUS
  <2>4. \A p \in new : p \in old \/ (at # NULL /\ p = at)
    <3> SUFFICES ASSUME NEW p \in new PROVE p \in old \/ (at # NULL /\ p = at)
      OBVIOUS
    <3>1. PICK i \in DOMAIN after : ~after[i].heap /\ p = after[i].at
      BY <2>2, <2>3
    <3> QED
      BY <1>3, <1>6, <1>12, <2>1, <2>3, <3>1
  <2>5. \A p \in old : p \in new
    <3> SUFFICES ASSUME NEW p \in old PROVE p \in new
      OBVIOUS
    <3>1. PICK i \in DOMAIN before : ~before[i].heap /\ p = before[i].at
      BY <2>1, <2>3
    <3>2. i \in DOMAIN after /\ after[i] = before[i]
      BY <1>9, <3>1
    <3> QED
      BY <2>2, <2>3, <3>1, <3>2
  <2>6. at # NULL => at \in new
    <3>1. Len(before) + 1 \in DOMAIN after
      BY <1>9
    <3> QED
      BY <1>3, <1>6, <1>9, <2>2, <2>3, <3>1
  <2>7. new = old \cup (IF at = NULL THEN {} ELSE {at})
    BY ONLY <2>4, <2>5, <2>6
  <2> QED
    BY <2>3, <2>7
<1> QED
  BY <1>4, <1>6, <1>14, <1>15

(* The first block stays the first.                                         *)
LEMMA FirstStays ==
    ASSUME NEW m, NEW k, NEW n, MemInv(m), SameSpace(m, k) \/ Extends(m, k, n),
           m.blocks # <<>>
    PROVE  k.blocks # <<>> /\ k.blocks[1] = m.blocks[1]
<1>1. m.blocks \in Seq(BlockType)
  BY DEF MemInv, MemType
<1>2. ASSUME NEW b \in BlockType, k.blocks = Append(m.blocks, b)
      PROVE  k.blocks # <<>> /\ k.blocks[1] = m.blocks[1]
  BY <1>1, <1>2
<1> QED
  BY <1>2 DEF SameSpace, Extends

LEMMA PolicyStays ==
    ASSUME MemInv(mem), PolicyInv, policy.live, policy' = policy,
           NEW n, SameSpace(mem, mem') \/ Extends(mem, mem', n)
    PROVE  PolicyInv'
<1>1. PICK k : k = mem'
  OBVIOUS
<1>2. mem.blocks # <<>> => k.blocks # <<>> /\ k.blocks[1] = mem.blocks[1]
  BY <1>1, FirstStays
<1> QED
  BY <1>1, <1>2 DEF PolicyInv, Start

-----------------------------------------------------------------------------
(* Steps                                                                    *)

LEMMA CleanupStays ==
    ASSUME CleanupInv, cleanup' = cleanup, next' = next, registered' = registered
    PROVE  CleanupInv'
BY DEF CleanupInv

LEMMA StringsStay ==
    ASSUME StringsInv, string_blocks' = string_blocks, unused' = unused
    PROVE  StringsInv' /\ Emplaced' = Emplaced
BY DEF StringsInv, StringSizes, Emplaced, ToSet

LEMMA CacheStays == ASSUME CacheInv, cached' = cached PROVE CacheInv'
BY DEF CacheInv, CacheIndexToReturn

LEMMA OwnedStays ==
    ASSUME OwnedInv, policy' = policy, owned' \subseteq owned
    PROVE  OwnedInv'
BY DEF OwnedInv

LEMMA OwnedGrows ==
    ASSUME OwnedInv, policy' = policy, NEW new \in PieceType, new.use # "policy",
           owned' = owned \cup {new}
    PROVE  OwnedInv'
BY DEF OwnedInv

LEMMA Assembled ==
    ASSUME MemInv(mem'), PolicyInv', OwnedInv', CleanupInv', StringsInv', CacheInv',
           PlaceInv', OnceInv'
    PROVE  IInv'
BY DEF IInv, Others, MemInv, MemType

LEMMA StringIsTaken == ASSUME IInv, AllocateFromStringBlock PROVE IInv'
<1>1. /\ policy.live /\ policy' = policy /\ mem' = mem /\ owned' = owned /\ cached' = cached
      /\ string_blocks' = string_blocks /\ CleanupInv'
  BY CleanupStays DEF AllocateFromStringBlock, Room, IInv, Others
<1>2. SameSpace(mem, mem') /\ MemInv(mem')
  BY <1>1 DEF IInv, SameSpace
<1>3. PolicyInv' /\ OwnedInv' /\ CacheInv'
  BY <1>1, <1>2, PolicyStays, OwnedStays, CacheStays DEF IInv, Others
<1>4. unused' \in {k * StringSize : k \in 0 .. StringMaxSize}
  <2>1. PICK k \in 0 .. StringMaxSize : unused = k * StringSize
    BY DEF IInv, Others, StringsInv
  <2>2. unused # 0 /\ unused' = unused - StringSize
    BY DEF AllocateFromStringBlock
  <2>3. PICK s : s = StringSize
    OBVIOUS
  <2>4. s \in Nat \ {0} /\ k \in Nat /\ k # 0 /\ k - 1 \in 0 .. StringMaxSize
    BY <2>1, <2>2, <2>3, LayoutAssumption
  <2>5. k * s - s = (k - 1) * s
    BY ONLY <2>4
  <2> QED
    BY <2>1, <2>2, <2>3, <2>4, <2>5
<1>5. StringsInv' /\ Emplaced' = Emplaced
  BY <1>1, <1>4 DEF IInv, Others, StringsInv, StringSizes, Emplaced, ToSet
<1>6. StillInside(mem, mem')
  BY <1>2, SameIsInside
<1>7. PlaceInv' /\ OnceInv'
  BY <1>1, <1>5, <1>6, PiecesStay DEF IInv, Others
<1> QED
  BY <1>1, <1>2, <1>3, <1>5, <1>7, Assembled

LEMMA Registered == ASSUME IInv, Own PROVE IInv'
<1>1. /\ policy.live /\ policy' = policy /\ AddCleanup(mem) /\ owned' = owned /\ cached' = cached
      /\ string_blocks' = string_blocks /\ unused' = unused
  BY DEF Own, Room
<1>2. CleanupInv' /\ SameSpace(mem, mem')
  BY <1>1, CleanupIsAdded DEF IInv, Others
<1>3. PolicyInv' /\ OwnedInv' /\ CacheInv' /\ StringsInv' /\ Emplaced' = Emplaced
  BY <1>1, <1>2, PolicyStays, OwnedStays, CacheStays, StringsStay DEF IInv, Others
<1>4. StillInside(mem, mem')
  BY <1>2, SameIsInside
<1>5. PlaceInv' /\ OnceInv'
  BY <1>1, <1>3, <1>4, PiecesStay DEF IInv, Others
<1> QED
  BY <1>2, <1>3, <1>5, Assembled DEF SameSpace

(* A piece for a client is allocated, after which cleanups may be added.    *)
LEMMA ClientGets ==
    ASSUME IInv, policy.live, policy' = policy, CleanupInv',
           string_blocks' = string_blocks, unused' = unused, cached' = cached,
           NEW n \in Nat, n % 8 = 0, n > 0, Extends(mem, mem', n),
           NEW use \in {"object", "array"},
           NEW new, new = Piece(mem', n, use), owned' = owned \cup {new}
    PROVE  IInv'
<1>1. MemInv(mem) /\ OwnedInv /\ StringsInv /\ CacheInv /\ PlaceInv /\ OnceInv /\ PolicyInv
  BY DEF IInv, Others
<1>2. StringsInv' /\ Emplaced' = Emplaced /\ CacheInv'
  BY <1>1, StringsStay, CacheStays
<1>3. use \in Uses /\ use # "policy"
  BY DEF Uses
<1>4. PlaceInv' /\ OnceInv' /\ new \in PieceType /\ new.use = use
  BY ONLY <1>1, <1>2, <1>3, n \in Nat, n % 8 = 0, n > 0, Extends(mem, mem', n),
          new = Piece(mem', n, use), owned' = owned \cup {new}, cached' = cached, PieceIsAdded
<1>5. PolicyInv'
  BY <1>1, PolicyStays
<1>6. OwnedInv'
  <2>1. new.use # "policy"
    BY <1>3, <1>4
  <2> QED
    BY ONLY <1>1, <1>4, <2>1, policy' = policy, owned' = owned \cup {new}, OwnedGrows
<1>7. MemInv(mem')
  BY DEF Extends
<1> QED
  BY <1>2, <1>4, <1>5, <1>6, <1>7, Assembled

LEMMA ObjectIsAllocated == ASSUME IInv, NEW n \in Sizes, Allocate(n) PROVE IInv'
<1>1. n \in Nat /\ n % 8 = 0 /\ n > 0
  BY SizesAssumption
<1>2. Extends(mem, mem', n)
  BY <1>1, AlignedExtends DEF Allocate, IInv
<1>3. CleanupInv'
  BY CleanupStays DEF Allocate, lists, IInv, Others
<1> QED
  BY <1>1, <1>2, <1>3, ClientGets DEF Allocate, lists, Room

LEMMA ArrayIsAllocated == ASSUME IInv, NEW n \in ArraySizes, AllocateForArray(n) PROVE IInv'
<1>1. n \in Nat /\ n % 8 = 0 /\ n > 0
  BY SizesAssumption
<1>2. Extends(mem, mem', n)
  BY <1>1, AlignedExtends DEF AllocateForArray, IInv
<1>3. CleanupInv'
  BY CleanupStays DEF AllocateForArray, lists, IInv, Others
<1> QED
  BY <1>1, <1>2, <1>3, ClientGets DEF AllocateForArray, lists, Room

LEMMA AlignedIsAllocated ==
    ASSUME IInv, NEW n \in Sizes, NEW align \in Aligns, AllocateAlignedWithCleanup(n, align)
    PROVE  IInv'
<1>1. n \in Nat /\ n % 8 = 0 /\ n > 0
  BY SizesAssumption
<1>2. PICK m \in AllocateAlignedAs(mem, n, align) :
        AddCleanup(m) /\ owned' = owned \cup {Piece(m, n, "object")}
  BY DEF AllocateAlignedWithCleanup
<1>3. Extends(mem, m, n)
  BY <1>1, AlignedAsExtends DEF IInv
<1>4. CleanupInv' /\ SameSpace(m, mem')
  BY <1>2, <1>3, CleanupIsAdded DEF Extends, IInv, Others
<1>5. Extends(mem, mem', n)
  BY <1>3, <1>4, SameThenExtends
<1>6. Piece(m, n, "object") = Piece(mem', n, "object")
  BY <1>4 DEF SameSpace, Piece
<1>7. /\ policy.live /\ policy' = policy /\ string_blocks' = string_blocks /\ unused' = unused
      /\ cached' = cached
  BY DEF AllocateAlignedWithCleanup, Room
<1> QED
  BY <1>1, <1>2, <1>4, <1>5, <1>6, <1>7, ClientGets

LEMMA ArrayIsTaken == ASSUME IInv, NEW n \in ArraySizes, AllocateForArrayCached(n) PROVE IInv'
<1>1. MemInv(mem) /\ OwnedInv /\ StringsInv /\ CacheInv /\ PlaceInv /\ OnceInv /\ PolicyInv
  BY DEF IInv, Others
<1>2. PICK i, top : i = CacheIndexToTake(n) /\ top = cached.lists[i][1]
  OBVIOUS
<1>3. PICK part : part = [top EXCEPT !.to = top.from + n]
  OBVIOUS
<1>4. /\ policy.live /\ policy' = policy /\ mem' = mem /\ string_blocks' = string_blocks
      /\ unused' = unused /\ owned' = owned \cup {part}
      /\ cached' = [cached EXCEPT !.lists[i] = Tail(@)]
      /\ i \in 1 .. cached.length /\ cached.lists[i] # <<>>
  BY <1>2, <1>3 DEF AllocateForArrayCached, Room, CanTake
<1>5. StringsInv' /\ Emplaced' = Emplaced /\ CleanupInv'
  BY <1>1, <1>4, StringsStay, CleanupStays DEF AllocateForArrayCached, IInv, Others
<1>6. n \in Nat \ {0}
  BY SizesAssumption
<1>7. CacheInv' /\ PlaceInv' /\ OnceInv' /\ part \in PieceType /\ part.use = "array"
  BY ONLY <1>1, <1>2, <1>3, <1>4, <1>5, <1>6, PieceIsTaken
<1>8. SameSpace(mem, mem') /\ MemInv(mem')
  BY <1>1, <1>4 DEF SameSpace
<1>9. PolicyInv' /\ OwnedInv'
  <2>1. PolicyInv'
    BY <1>1, <1>4, <1>8, PolicyStays
  <2>2. part.use # "policy"
    BY <1>7
  <2>3. OwnedInv'
    BY ONLY <1>1, <1>4, <1>7, <2>2, OwnedGrows
  <2> QED
    BY <2>1, <2>3
<1> QED
  BY <1>5, <1>7, <1>8, <1>9, Assembled

LEMMA ArrayIsReturned == ASSUME IInv, NEW piece \in owned, ReturnArrayMemory(piece) PROVE IInv'
<1>1. MemInv(mem) /\ OwnedInv /\ StringsInv /\ CacheInv /\ PlaceInv /\ OnceInv /\ PolicyInv
  BY DEF IInv, Others
<1>2. PICK i : i = CacheIndexToReturn(piece.to - piece.from)
  OBVIOUS
<1>3. /\ policy' = policy /\ mem' = mem /\ string_blocks' = string_blocks
      /\ unused' = unused /\ owned' = owned \ {piece} /\ piece.use = "array"
      /\ \/ i \in 1 .. cached.length /\ cached' = Push(i, piece)
         \/ cached' = BecomeFreelist(piece)
  BY <1>2 DEF ReturnArrayMemory
<1>4. StringsInv' /\ Emplaced' = Emplaced /\ CleanupInv'
  BY <1>1, <1>3, StringsStay, CleanupStays DEF ReturnArrayMemory, IInv, Others
<1>5. CacheInv' /\ PlaceInv' /\ OnceInv'
  <2>1. CASE i \in 1 .. cached.length /\ cached' = Push(i, piece)
    BY ONLY piece \in owned, <1>1, <1>2, <1>3, <1>4, <2>1, PieceIsPushed
  <2>2. CASE cached' = BecomeFreelist(piece)
    BY ONLY piece \in owned, <1>1, <1>3, <1>4, <2>2, PieceBecomesArray
  <2> QED
    BY <1>3, <2>1, <2>2
<1>6. SameSpace(mem, mem') /\ MemInv(mem')
  BY <1>1, <1>3 DEF SameSpace
<1>7. policy.live
  BY <1>1 DEF PolicyInv
<1>8. PolicyInv' /\ OwnedInv'
  BY <1>1, <1>3, <1>6, <1>7, PolicyStays, OwnedStays
<1> QED
  BY <1>4, <1>5, <1>6, <1>8, Assembled

LEMMA ExtendsIsInside ==
    ASSUME NEW m, NEW k, MemInv(m), NEW n \in Nat, n % 8 = 0, n > 0, Extends(m, k, n)
    PROVE  StillInside(m, k)
<1>1. "object" \in Uses
  BY DEF Uses
<1> QED
  BY <1>1, NewPiece DEF StillInside

LEMMA StringBlockIsMade == ASSUME IInv, AllocateFromStringBlockFallback PROVE IInv'
<1>1. MemInv(mem) /\ OwnedInv /\ StringsInv /\ CacheInv /\ PlaceInv /\ OnceInv /\ PolicyInv
  BY DEF IInv, Others
<1>2. PICK n : n = NextSize(string_blocks)
  OBVIOUS
<1>3. n \in StringSizes /\ n \in Nat /\ n % 8 = 0 /\ n > 0 /\ 0 - n \in Int
  BY <1>1, <1>2, NextSizes, StringSizeIsAligned
<1>4. PICK full : full = IF string_blocks = <<>> THEN mem
                         ELSE AddSpaceUsed(mem, EffectiveSize(Last(string_blocks)))
  OBVIOUS
<1>5. SameSpace(mem, full)
  <2>1. string_blocks # <<>> => EffectiveSize(Last(string_blocks)) \in Int
    <3>1. string_blocks # <<>> => Last(string_blocks) \in StringBlockType
      BY <1>1 DEF StringsInv, Last
    <3> QED
      BY <3>1, LayoutAssumption DEF StringBlockType, EffectiveSize
  <2>2. SameSpace(mem, mem)
    BY <1>1 DEF SameSpace
  <2> QED
    BY <1>1, <1>4, <2>1, <2>2, Counted
<1>6. MemInv(full)
  BY <1>5 DEF SameSpace
<1>7. PICK bumped : bumped = Bump(full, n)
  OBVIOUS
<1>8. PICK piece : piece = Piece(bumped, n, "strings")
  OBVIOUS
<1>9. /\ policy.live /\ policy' = policy /\ owned' = owned /\ cached' = cached
      /\ cleanup' = cleanup /\ next' = next /\ registered' = registered
      /\ unused' = EffectiveSize(Last(string_blocks')) - StringSize
  BY DEF AllocateFromStringBlockFallback, Room
<1>10. CleanupInv' /\ OwnedInv' /\ CacheInv'
  BY <1>1, <1>9, CleanupStays, OwnedStays, CacheStays DEF IInv, Others
<1>11. CASE /\ MaybeFits(full, n) /\ mem' = AddSpaceUsed(bumped, -n)
            /\ string_blocks' = Append(string_blocks, NewStringBlock(piece))
  <2>1. Extends(full, bumped, n)
    BY <1>3, <1>6, <1>7, <1>11, BumpExtends
  <2>2. SameSpace(bumped, mem')
    <3>1. MemInv(bumped)
      BY <2>1 DEF Extends
    <3>2. -n \in Int
      BY <1>3
    <3>3. SameSpace(bumped, AddSpaceUsed(bumped, -n))
      BY <3>1, <3>2, Counted
    <3> QED
      BY <1>11, <3>3 DEF SameSpace
  <2>3. Extends(mem, mem', n) /\ MemInv(mem')
    <3>1. PICK k : k = mem'
      OBVIOUS
    <3>2. Extends(mem, bumped, n)
      BY <1>5, <2>1, SameThenExtends
    <3>3. Extends(mem, k, n)
      BY <2>2, <3>1, <3>2, SameThenExtends
    <3> QED
      BY <3>1, <3>3 DEF Extends
  <2>4. piece = Piece(mem', n, "strings")
    BY <1>8, <2>2 DEF SameSpace, Piece
  <2>5. "strings" \in Uses
    BY DEF Uses
  <2>6. piece \in PieceType
    <3>1. PICK k : k = mem'
      OBVIOUS
    <3>2. Piece(k, n, "strings") \in PieceType
      BY ONLY <1>1, <1>3, <2>3, <2>5, <3>1, NewPiece
    <3> QED
      BY <2>4, <3>1, <3>2
  <2>7. /\ StringsInv'
        /\ Emplaced' = Emplaced \cup (IF piece = NULL THEN {} ELSE {piece})
    BY <1>1, <1>9, <1>11, <2>6, StringBlockIsAdded
  <2>8. PlaceInv' /\ OnceInv'
    <3>1. CASE piece = NULL
      <4>1. StillInside(mem, mem')
        BY <1>1, <1>3, <2>3, ExtendsIsInside
      <4> QED
        BY <1>1, <1>9, <2>7, <3>1, <4>1, PiecesStay
    <3>2. CASE piece # NULL
      BY ONLY <1>1, <1>3, <1>9, <2>3, <2>4, <2>5, <2>7, <3>2, PieceIsAdded
    <3> QED
      BY <3>1, <3>2
  <2>9. PolicyInv'
    BY <1>1, <1>9, <2>3, PolicyStays
  <2> QED
    BY <1>10, <2>3, <2>7, <2>8, <2>9, Assembled
<1>12. CASE /\ mem' = AddSpaceAllocated(full, NewStringBlock(NULL).size)
            /\ string_blocks' = Append(string_blocks, NewStringBlock(NULL))
  <2>1. StringsInv' /\ NewStringBlock(NULL).size \in Nat /\ Emplaced' = Emplaced
    <3>1. NULL \in PieceType \cup {NULL}
      OBVIOUS
    <3>2. PICK at : at = NULL
      OBVIOUS
    <3>3. /\ StringsInv' /\ NewStringBlock(at).size \in Nat
          /\ Emplaced' = Emplaced \cup (IF at = NULL THEN {} ELSE {at})
      BY <1>1, <1>9, <1>12, <3>1, <3>2, StringBlockIsAdded
    <3> QED
      BY <3>2, <3>3
  <2>2. PICK size : size = NewStringBlock(NULL).size
    OBVIOUS
  <2>3. size \in Int
    BY <2>1, <2>2
  <2>4. SameSpace(full, AddSpaceAllocated(full, size))
    BY <1>6, <2>3, Counted
  <2>5. SameSpace(mem, mem') /\ MemInv(mem')
    BY <1>5, <1>12, <2>2, <2>4 DEF SameSpace
  <2>6. StillInside(mem, mem')
    BY <2>5, SameIsInside
  <2>7. PlaceInv' /\ OnceInv'
    BY <1>1, <1>9, <2>1, <2>6, PiecesStay
  <2>8. PolicyInv'
    BY <1>1, <1>9, <2>5, PolicyStays
  <2> QED
    BY <1>10, <2>1, <2>5, <2>7, <2>8, Assembled
<1> QED
  BY <1>2, <1>4, <1>7, <1>8, <1>11, <1>12 DEF AllocateFromStringBlockFallback

(* The first block of an arena, used from an offset on                      *)
LEMMA FirstInIs ==
    ASSUME NEW b \in BlockType, b.size < Word, NEW offset \in Nat, offset % 8 = 0,
           BlockHeaderSize <= offset, offset <= Limit(b)
    PROVE  /\ MemInv(FirstIn(b, offset)) /\ FirstIn(b, offset).blocks = <<b>>
           /\ FirstIn(b, offset).ptr = offset /\ FirstIn(b, offset).limit = Limit(b)
<1>1. PICK m : m = FirstIn(b, offset)
  OBVIOUS
<1>2. PICK limit : limit = Limit(b)
  OBVIOUS
<1>3. limit \in Nat /\ b.size \in 0 .. Word - 1
  BY <1>2, LimitOf, WordAssumption DEF BlockType
<1>4. m = [blocks |-> <<b>>, ptr |-> offset, limit |-> limit, space_used |-> 0,
           space_allocated |-> b.size]
  BY <1>1, <1>2 DEF FirstIn
<1>5. m \in MemType
  <2>1. 0 \in 0 .. Word - 1
    BY WordAssumption
  <2> QED
    BY <1>3, <1>4, <2>1 DEF MemType
<1>6. Last(<<b>>) = b /\ <<b>> # <<>>
  BY DEF Last
<1>7. MemInv(m)
  BY <1>2, <1>4, <1>5, <1>6 DEF MemInv
<1> QED
  BY <1>1, <1>2, <1>4, <1>7

LEMMA SentryIs == MemInv(Sentry)
<1>1. 0 \in 0 .. Word - 1
  BY WordAssumption
<1> QED
  BY <1>1 DEF MemInv, MemType, Sentry

LEMMA NothingIsListed ==
    ASSUME cleanup' = <<>>, next' = 0, registered' = <<>>, string_blocks' = <<>>, unused' = 0
    PROVE  CleanupInv' /\ StringsInv'
<1>1. unused' \in {k * StringSize : k \in 0 .. StringMaxSize}
  <2>1. 0 = 0 * StringSize /\ 0 \in 0 .. StringMaxSize
    BY LayoutAssumption
  <2> QED
    BY <2>1
<1>2. CleanupInv'
  BY DEF CleanupInv
<1> QED
  BY <1>1, <1>2 DEF StringsInv

LEMMA ArenaIsReset == ASSUME IInv, Reset PROVE IInv'
<1>1. MemInv(mem) /\ OwnedInv /\ StringsInv /\ CacheInv /\ PlaceInv /\ OnceInv /\ PolicyInv
  BY DEF IInv, Others
<1>2. PICK kept : kept = {piece \in owned : piece.use = "policy"}
  OBVIOUS
<1>3. /\ policy.live /\ policy' = policy /\ owned' = kept /\ kept \subseteq owned
      /\ string_blocks' = <<>> /\ cached' = NoCache /\ CleanupInv' /\ StringsInv'
  BY <1>2, NothingIsListed DEF Reset
<1>4. OwnedInv'
  BY <1>1, <1>3, OwnedStays
<1>5. CASE Kept = 1
  <2>1. policy.user \/ policy.pointer
    BY <1>5 DEF Kept
  <2>2. PICK b : b = mem.blocks[1]
    OBVIOUS
  <2>3. b \in BlockType /\ b.size < Word /\ Start <= Limit(b)
    <3>1. mem.blocks \in Seq(BlockType) /\ mem.blocks # <<>>
      BY <1>1, <2>1 DEF PolicyInv, MemInv, MemType
    <3> QED
      BY <1>1, <2>1, <2>2, <3>1 DEF PolicyInv
  <2>4. PICK offset : offset = Start
    OBVIOUS
  <2>5. mem' = FirstIn(b, offset)
    BY <1>5, <2>2, <2>4 DEF Reset, Start
  <2>6. offset \in Nat /\ offset % 8 = 0 /\ BlockHeaderSize <= offset
    BY <2>4, LayoutAssumption, SizesAssumption DEF Start
  <2>7. /\ MemInv(mem') /\ mem'.blocks = <<b>> /\ mem'.ptr = offset
        /\ mem'.limit = Limit(b)
    BY <2>3, <2>4, <2>5, <2>6, FirstInIs
  <2>8. \A p \in kept : Inside(mem', p)
    <3> SUFFICES ASSUME NEW p \in kept PROVE Inside(mem', p)
      OBVIOUS
    <3>1. /\ p \in PieceType /\ Inside(mem, p) /\ policy.pointer /\ p.block = 1
          /\ p.to = BlockHeaderSize + PolicySize
      BY <1>1, <1>2, PiecesAre DEF OwnedInv, PlaceInv
    <3>2. p.to = offset
      BY <2>4, <3>1 DEF Start
    <3>3. Top(mem', p.block) = offset /\ 1 \in DOMAIN mem'.blocks
      BY <2>7, <3>1 DEF Top
    <3> QED
      BY <2>6, <3>1, <3>2, <3>3 DEF Inside
  <2>9. CacheInv' /\ PlaceInv' /\ OnceInv'
    BY <1>1, <1>3, <2>8, Cleared
  <2>10. PolicyInv'
    <3>1. PICK k : k = mem'
      OBVIOUS
    <3>2. k.blocks # <<>> /\ k.blocks[1] = mem.blocks[1]
      BY <2>2, <2>7, <3>1
    <3> QED
      BY <1>1, <1>3, <2>1, <3>1, <3>2 DEF PolicyInv, Start
  <2> QED
    BY <1>3, <1>4, <2>7, <2>9, <2>10, Assembled
<1>6. CASE Kept # 1
  <2>1. ~policy.user /\ ~policy.pointer
    BY <1>6 DEF Kept
  <2>2. mem' = Sentry /\ MemInv(mem')
    BY <1>6, SentryIs DEF Reset
  <2>3. kept = {}
    BY <1>1, <1>2, <2>1 DEF OwnedInv
  <2>4. \A p \in kept : Inside(mem', p)
    BY <2>3
  <2>5. CacheInv' /\ PlaceInv' /\ OnceInv'
    BY <1>1, <1>3, <2>4, Cleared
  <2>6. PolicyInv'
    BY <1>1, <1>3, <2>1 DEF PolicyInv
  <2> QED
    BY <1>3, <1>4, <2>2, <2>5, <2>6, Assembled
<1> QED
  BY <1>5, <1>6

LEMMA NoneIsKept ==
    ASSUME PlaceInv, OwnedInv, StringsInv, CacheInv,
           owned' = {}, string_blocks' = <<>>, cached' = NoCache
    PROVE  OwnedInv' /\ CacheInv' /\ PlaceInv' /\ OnceInv'
<1>1. PICK kept : kept = {}
  OBVIOUS
<1>2. kept \subseteq owned /\ owned' = kept /\ \A p \in kept : Inside(mem', p)
  BY <1>1
<1>3. CacheInv' /\ PlaceInv' /\ OnceInv'
  BY ONLY PlaceInv, OwnedInv, StringsInv, CacheInv, string_blocks' = <<>>, cached' = NoCache,
          <1>2, Cleared
<1>4. OwnedInv'
  BY DEF OwnedInv
<1> QED
  BY <1>3, <1>4

LEMMA ArenaIsDestroyed == ASSUME IInv, Destroy PROVE IInv'
<1>1. OwnedInv /\ StringsInv /\ CacheInv /\ PlaceInv
  BY DEF IInv, Others
<1>2. /\ policy' = NoPolicy /\ mem' = Sentry /\ owned' = {}
      /\ string_blocks' = <<>> /\ cached' = NoCache /\ CleanupInv' /\ StringsInv'
  BY NothingIsListed DEF Destroy
<1>3. OwnedInv' /\ CacheInv' /\ PlaceInv' /\ OnceInv'
  BY <1>1, <1>2, NoneIsKept
<1>4. PolicyInv'
  BY <1>2 DEF PolicyInv, NoPolicy
<1>5. MemInv(mem')
  BY <1>2, SentryIs
<1> QED
  BY <1>2, <1>3, <1>4, <1>5, Assembled

LEMMA ArenaIsConstructed == ASSUME IInv, ConstructDefault PROVE IInv'
<1>1. OwnedInv /\ StringsInv /\ CacheInv /\ PlaceInv /\ PolicyInv
  BY DEF IInv, Others
<1>2. /\ owned = {} /\ string_blocks = <<>> /\ cached = NoCache
  BY <1>1 DEF PolicyInv, ConstructDefault
<1>3. /\ owned' = {} /\ string_blocks' = <<>> /\ cached' = NoCache /\ unused' = unused
      /\ string_blocks' = string_blocks /\ CleanupInv'
  BY <1>2, CleanupStays DEF ConstructDefault, lists, IInv, Others
<1>4. StringsInv'
  BY <1>1, <1>3, StringsStay
<1>5. OwnedInv' /\ CacheInv' /\ PlaceInv' /\ OnceInv'
  BY <1>1, <1>3, NoneIsKept
<1>6. PICK size \in UserSizes :
        /\ policy' = [live |-> TRUE, user |-> size > BlockHeaderSize, pointer |-> FALSE]
        /\ mem' \in IF size > BlockHeaderSize
                    THEN {FirstIn(b, BlockHeaderSize) : b \in UserBlocks(size)}
                    ELSE {Sentry}
  BY DEF ConstructDefault
<1>7. PICK k : k = mem'
  OBVIOUS
<1>8. CASE size > BlockHeaderSize
  <2>1. PICK b \in UserBlocks(size) : k = FirstIn(b, BlockHeaderSize)
    BY <1>6, <1>7, <1>8
  <2>2. size \in Nat /\ size < Word /\ BlockHeaderSize <= size
    <3>1. size \in 0 .. Word - 1 /\ Word \in Nat /\ BlockHeaderSize \in Nat
      BY WordAssumption, LayoutAssumption
    <3> QED
      BY <1>8, <3>1
  <2>3. b \in BlockType /\ b.size = size
    BY <2>1, <2>2 DEF UserBlocks, BlockType
  <2>4. BlockHeaderSize \in Nat /\ BlockHeaderSize % 8 = 0 /\ BlockHeaderSize <= Limit(b)
    BY <2>2, <2>3, LimitOf, LayoutAssumption
  <2>5. MemInv(k) /\ k.blocks = <<b>>
    BY <2>1, <2>2, <2>3, <2>4, FirstInIs
  <2>6. k.blocks # <<>> /\ k.blocks[1] = b
    BY <2>5
  <2>7. PolicyInv'
    BY <1>6, <1>7, <1>8, <2>2, <2>3, <2>4, <2>6 DEF PolicyInv, Start
  <2> QED
    BY <1>3, <1>4, <1>5, <1>7, <2>5, <2>7, Assembled
<1>9. CASE ~(size > BlockHeaderSize)
  <2>1. MemInv(mem')
    BY <1>6, <1>9, SentryIs
  <2>2. PolicyInv'
    <3>1. policy' = [live |-> TRUE, user |-> FALSE, pointer |-> FALSE]
      <4>1. (size > BlockHeaderSize) = FALSE
        BY <1>9
      <4> QED
        BY ONLY <1>6, <4>1
    <3> QED
      BY <3>1 DEF PolicyInv
  <2> QED
    BY <1>3, <1>4, <1>5, <2>1, <2>2, Assembled
<1> QED
  BY <1>8, <1>9

LEMMA ArenaIsConstructedWithPolicy == ASSUME IInv, ConstructWithPolicy PROVE IInv'
<1>1. OwnedInv /\ StringsInv /\ CacheInv /\ PlaceInv /\ PolicyInv
  BY DEF IInv, Others
<1>2. /\ string_blocks = <<>> /\ cached = NoCache
  BY <1>1 DEF PolicyInv, ConstructWithPolicy
<1>3. /\ string_blocks' = <<>> /\ cached' = NoCache /\ unused' = unused
      /\ string_blocks' = string_blocks /\ cached' = cached /\ CleanupInv'
  BY <1>2, CleanupStays DEF ConstructWithPolicy, lists, IInv, Others
<1>4. StringsInv' /\ CacheInv'
  BY <1>1, <1>3, StringsStay, CacheStays
<1>5. PICK size \in UserSizes :
        /\ policy' = [live |-> TRUE, user |-> size >= BlockHeaderSize + PolicySize,
                      pointer |-> TRUE]
        /\ mem' \in {Bump(FirstIn(b, BlockHeaderSize), PolicySize) :
                        b \in IF size >= BlockHeaderSize + PolicySize THEN UserBlocks(size)
                              ELSE AllocateBlock(0, PolicySize)}
  BY DEF ConstructWithPolicy
<1>6. PICK b \in IF size >= BlockHeaderSize + PolicySize THEN UserBlocks(size)
               ELSE AllocateBlock(0, PolicySize) :
        mem' = Bump(FirstIn(b, BlockHeaderSize), PolicySize)
  BY <1>5
<1>7. PICK h, n : h = BlockHeaderSize /\ n = PolicySize
  OBVIOUS
<1>8. h \in Nat /\ h % 8 = 0 /\ n \in Nat /\ n % 8 = 0 /\ n > 0 /\ h + n \in Nat /\ (h + n) % 8 = 0
  <2>1. h \in Nat /\ h % 8 = 0
    BY <1>7, LayoutAssumption
  <2>2. n \in Nat /\ n > 0 /\ n % 8 = 0
    BY <1>7, SizesAssumption
  <2>3. h + n \in Nat /\ (h + n) % 8 = 0
    BY ONLY <2>1, <2>2
  <2> QED
    BY <2>1, <2>2, <2>3
<1>9. b \in BlockType /\ b.size < Word /\ h + n <= b.size
  <2>1. CASE size >= h + n
    <3>1. size \in Nat /\ size < Word /\ h + n <= size
      <4>1. size \in 0 .. Word - 1 /\ Word \in Nat
        BY WordAssumption
      <4> QED
        BY <1>8, <2>1, <4>1
    <3> QED
      BY <1>6, <1>7, <2>1, <3>1 DEF UserBlocks, BlockType
  <2>2. CASE ~(size >= h + n)
    <3>1. PICK s \in Surplus, r \in Residues :
               b = [size |-> BlockSize(0, PolicySize) + s, residue |-> r]
      BY <1>6, <1>7, <2>2 DEF AllocateBlock, SomeBlock
    <3>2. PICK bytes : bytes = BlockSize(0, PolicySize)
      OBVIOUS
    <3>3. bytes \in Nat /\ h + n <= bytes
      BY <1>7, <1>8, <3>2, BlockSizes
    <3>4. s \in Nat /\ bytes + s < Word
      BY <3>2, WordAssumption
    <3> QED
      BY <1>8, <3>1, <3>2, <3>3, <3>4 DEF BlockType
  <2> QED
    BY <2>1, <2>2
<1>10. Limit(b) \in Nat /\ h + n <= Limit(b) /\ h <= Limit(b)
  BY <1>8, <1>9, LimitOf
<1>11. PICK first, k : first = FirstIn(b, h) /\ k = mem'
  OBVIOUS
<1>12. MemInv(first) /\ first.blocks = <<b>> /\ first.ptr = h /\ first.limit = Limit(b)
  BY <1>7, <1>8, <1>9, <1>10, <1>11, FirstInIs
<1>13. k = Bump(first, n)
  BY <1>6, <1>7, <1>11
<1>14. Extends(first, k, n) /\ k.ptr = h + n
  <2>1. MaybeFits(first, n)
    BY <1>8, <1>10, <1>12 DEF MaybeFits
  <2> QED
    BY <1>8, <1>12, <1>13, <2>1, BumpExtends
<1>15. k.blocks = <<b>> /\ MemInv(k)
  BY <1>12, <1>13, <1>14 DEF Bump, Extends
<1>16. PICK piece : piece = Piece(k, n, "policy")
  OBVIOUS
<1>17. owned' = {piece}
  BY <1>7, <1>11, <1>16 DEF ConstructWithPolicy
<1>18. piece \in PieceType /\ Inside(k, piece) /\ piece.use = "policy"
  <2>1. "policy" \in Uses
    BY DEF Uses
  <2> QED
    <3>1. MemInv(first) /\ Extends(first, k, n) /\ n \in Nat /\ n % 8 = 0 /\ n > 0
      BY <1>8, <1>12, <1>14
    <3>2. /\ Piece(k, n, "policy") \in PieceType /\ Inside(k, Piece(k, n, "policy"))
          /\ Piece(k, n, "policy").use = "policy"
      BY ONLY <2>1, <3>1, NewPiece
    <3> QED
      BY <1>16, <3>2
<1>19. piece.block = 1 /\ piece.to = h + n
  <2>1. Len(k.blocks) = 1
    BY <1>15
  <2> QED
    BY <1>14, <1>16, <2>1 DEF Piece
<1>20. PolicyInv'
  <2>1. k.blocks # <<>> /\ k.blocks[1] = b
    BY <1>15
  <2> QED
    BY <1>5, <1>7, <1>9, <1>10, <1>11, <2>1 DEF PolicyInv, Start
<1>21. OwnedInv'
  BY <1>5, <1>7, <1>17, <1>18, <1>19 DEF OwnedInv
<1>22. Emplaced' = {} /\ CachedPieces' = {} /\ Array' = {}
  BY <1>3 DEF Emplaced, CachedPieces, Array, NoCache, ToSet
<1>23. Pieces' = {piece}
  <2>1. Pieces' = owned' \cup Emplaced' \cup CachedPieces' \cup Array'
    BY DEF Pieces, Array
  <2> QED
    BY <1>17, <1>22, <2>1
<1>24. PlaceInv'
  <2>1. \A p \in Pieces' : Inside(mem, p)'
    BY <1>11, <1>18, <1>23 DEF Inside, Top
  <2> QED
    BY <1>23, <2>1 DEF PlaceInv, Overlap
<1>25. OnceInv'
  BY <1>3, <1>22 DEF OnceInv, NoneTwice, NoCache
<1> QED
  BY <1>3, <1>4, <1>11, <1>15, <1>20, <1>21, <1>24, <1>25, Assembled

LEMMA InitIsSafe == Init => IInv
<1> SUFFICES ASSUME Init PROVE IInv
  OBVIOUS
<1>1. MemInv(mem)
  BY SentryIs DEF Init
<1>2. PolicyInv /\ OwnedInv /\ CleanupInv
  BY DEF Init, PolicyInv, OwnedInv, CleanupInv, NoPolicy
<1>3. StringsInv
  <2>1. 0 = 0 * StringSize /\ 0 \in 0 .. StringMaxSize
    BY LayoutAssumption
  <2> QED
    BY <2>1 DEF Init, StringsInv
<1>4. CacheInv
  BY DEF Init, CacheInv, CacheType, NoCache
<1>5. Emplaced = {} /\ CachedPieces = {} /\ Array = {} /\ owned = {}
  BY DEF Init, Emplaced, CachedPieces, Array, NoCache, ToSet
<1>6. PlaceInv /\ OnceInv
  BY <1>5, PiecesAre DEF PlaceInv, OnceInv, NoneTwice, Init, NoCache
<1> QED
  BY <1>1, <1>2, <1>3, <1>4, <1>6 DEF IInv, Others

LEMMA NextIsSafe == IInv /\ [Next]_vars => IInv'
<1> SUFFICES ASSUME IInv, [Next]_vars PROVE IInv'
  OBVIOUS
<1>1. CASE ConstructDefault
  BY <1>1, ArenaIsConstructed
<1>2. CASE ConstructWithPolicy
  BY <1>2, ArenaIsConstructedWithPolicy
<1>3. ASSUME NEW n \in Sizes, Allocate(n) PROVE IInv'
  BY <1>3, ObjectIsAllocated
<1>4. ASSUME NEW n \in ArraySizes, AllocateForArrayCached(n) PROVE IInv'
  BY <1>4, ArrayIsTaken
<1>5. ASSUME NEW n \in ArraySizes, AllocateForArray(n) PROVE IInv'
  BY <1>5, ArrayIsAllocated
<1>6. ASSUME NEW piece \in owned, ReturnArrayMemory(piece) PROVE IInv'
  BY <1>6, ArrayIsReturned
<1>7. CASE Own
  BY <1>7, Registered
<1>8. ASSUME NEW n \in Sizes, NEW align \in Aligns, AllocateAlignedWithCleanup(n, align)
      PROVE  IInv'
  BY <1>8, AlignedIsAllocated
<1>9. CASE AllocateFromStringBlock
  BY <1>9, StringIsTaken
<1>10. CASE AllocateFromStringBlockFallback
  BY <1>10, StringBlockIsMade
<1>11. CASE Reset
  BY <1>11, ArenaIsReset
<1>12. CASE Destroy
  BY <1>12, ArenaIsDestroyed
<1>13. CASE UNCHANGED vars
  <2>1. /\ policy' = policy /\ mem' = mem /\ owned' = owned /\ cached' = cached
        /\ string_blocks' = string_blocks /\ unused' = unused
        /\ cleanup' = cleanup /\ next' = next /\ registered' = registered
    BY <1>13 DEF vars, lists, ghosts
  <2>2. MemInv(mem) /\ OwnedInv /\ StringsInv /\ CacheInv /\ PlaceInv /\ OnceInv /\ PolicyInv
    BY DEF IInv, Others
  <2>3. StringsInv' /\ Emplaced' = Emplaced /\ CacheInv' /\ CleanupInv' /\ OwnedInv'
    BY <2>1, <2>2, StringsStay, CacheStays, CleanupStays, OwnedStays DEF IInv, Others
  <2>4. PolicyInv'
    BY <2>1, <2>2 DEF PolicyInv, Start
  <2>5. SameSpace(mem, mem') /\ MemInv(mem')
    BY <2>1, <2>2 DEF SameSpace
  <2>6. StillInside(mem, mem')
    BY <2>5, SameIsInside
  <2>7. PlaceInv' /\ OnceInv'
    BY <2>1, <2>2, <2>3, <2>6, PiecesStay
  <2> QED
    BY <2>3, <2>4, <2>5, <2>7, Assembled
<1> QED
  BY <1>1, <1>2, <1>3, <1>4, <1>5, <1>6, <1>7, <1>8, <1>9, <1>10, <1>11, <1>12, <1>13 DEF Next

-----------------------------------------------------------------------------
(* Theorems                                                                 *)

(* The inductive invariant: every piece of memory in use lies inside one    *)
(* block, apart from all others; a free piece is on the list of its size.   *)
THEOREM MemoryHolds == Spec => []IInv
<1>1. Init => IInv
  BY InitIsSafe
<1>2. IInv /\ [Next]_vars => IInv'
  BY NextIsSafe
<1> QED
  BY <1>1, <1>2, PTL DEF Spec

LEMMA TypesFollow == IInv => TypeOK
<1> SUFFICES ASSUME IInv PROVE TypeOK
  OBVIOUS
<1>1. MemInv(mem) /\ PolicyInv /\ CleanupInv /\ StringsInv /\ CacheInv /\ PlaceInv
  BY DEF IInv, Others
<1>2. mem.space_used \in 0 .. Word - 1 /\ mem.space_allocated \in 0 .. Word - 1
  BY <1>1 DEF MemInv, MemType
<1>3. mem.ptr % 8 = 0 /\ mem.ptr <= mem.limit /\ mem.limit <= HeadSize(mem)
  <2>1. CASE mem.blocks = <<>>
    BY <1>1, <2>1 DEF MemInv, HeadSize
  <2>2. CASE mem.blocks # <<>>
    <3>1. mem.blocks \in Seq(BlockType)
      BY <1>1 DEF MemInv, MemType
    <3>2. Last(mem.blocks) \in BlockType
      BY <2>2, <3>1 DEF Last
    <3> QED
      BY <1>1, <2>2, <3>2, LimitOf DEF MemInv, HeadSize, HeadBlock
  <2> QED
    BY <2>1, <2>2
<1>4. ASSUME NEW p \in Pieces PROVE p.from % 8 = 0 /\ p.from <= p.to
  <2>1. Inside(mem, p) /\ p \in PieceType
    BY <1>1, PiecesTyped DEF PlaceInv, IInv, Others
  <2> QED
    BY <2>1 DEF Inside, PieceType
<1> QED
  BY <1>1, <1>2, <1>3, <1>4 DEF TypeOK, PolicyInv, CleanupInv, StringsInv, CacheInv

(* TypeOK holds in every reachable state, for any sizes and layout: ptr_ is *)
(* aligned and lies in the head block, next_ in its chunk, and the unused   *)
(* part of the active string block is a whole number of strings.            *)
THEOREM TypeCorrect == Spec => []TypeOK
<1>1. IInv => TypeOK
  BY TypesFollow
<1> QED
  BY <1>1, MemoryHolds, PTL

LEMMA PlacesFollow == IInv => NoOverlap
<1> SUFFICES ASSUME IInv PROVE NoOverlap
  OBVIOUS
<1>1. MemInv(mem) /\ CacheInv /\ PlaceInv /\ OnceInv
  BY DEF IInv, Others
<1>2. ASSUME NEW p \in Pieces
      PROVE  /\ p.block \in DOMAIN mem.blocks /\ BlockHeaderSize <= p.from
             /\ p.to <= IF p.block = Len(mem.blocks) THEN mem.ptr
                        ELSE Limit(mem.blocks[p.block])
  BY <1>1 DEF PlaceInv, Inside, Top
<1>3. ASSUME NEW i \in DOMAIN cached.lists PROVE IsInjective(cached.lists[i])
  <2>1. NoneTwice(cached.lists)
    BY <1>1 DEF OnceInv
  <2>2. \A a, b \in DOMAIN cached.lists[i] :
          cached.lists[i][a] = cached.lists[i][b] => a = b
    BY <2>1 DEF NoneTwice
  <2> QED
    BY <2>2 DEF IsInjective
<1> QED
  BY <1>1, <1>2, <1>3 DEF NoOverlap, PlaceInv

(* No byte is handed out twice, whatever is allocated, returned, taken from *)
(* a free list, emplaced as strings or kept by a Reset, in any order.       *)
THEOREM NothingHandedOutTwice == Spec => []NoOverlap
<1>1. IInv => NoOverlap
  BY PlacesFollow
<1> QED
  BY <1>1, MemoryHolds, PTL

LEMMA FitsFollow == IInv => CachedFits
<1> SUFFICES ASSUME IInv PROVE CachedFits
  OBVIOUS
<1>1. MemInv(mem) /\ OwnedInv /\ StringsInv /\ CacheInv /\ PlaceInv
  BY DEF IInv, Others
<1>2. ASSUME NEW i \in DOMAIN cached.lists, NEW p \in ToSet(cached.lists[i]),
             NEW n \in ArraySizes, CacheIndexToTake(n) = i
      PROVE  n <= p.to - p.from
  <2>1. PICK a \in DOMAIN cached.lists[i] : cached.lists[i][a] = p
    BY DEF ToSet
  <2>2. CacheIndexToReturn(p.to - p.from) = i
    BY <1>1, <2>1 DEF CacheInv
  <2>3. p \in CachedPieces
    BY <2>1, CachedIs
  <2>4. p \in PieceType /\ Inside(mem, p)
    BY <1>1, <2>3, PiecesTyped, PiecesAre DEF PlaceInv
  <2>5. PICK s : s = p.to - p.from
    OBVIOUS
  <2>6. s \in Nat /\ n \in Nat \ {0}
    BY <2>4, <2>5, SizesAssumption DEF Inside, PieceType
  <2> QED
    BY <1>2, <2>2, <2>5, <2>6, TakeFits
<1> QED
  BY <1>1, <1>2 DEF CachedFits, CacheInv

(* Whatever a free list gives out is as large as the array that asked for   *)
(* it, for any sizes: rounding up to find a list and down to file a piece   *)
(* meet; and the array of lists fits in the piece that became it.           *)
THEOREM FreeListsFit == Spec => []CachedFits
<1>1. IInv => CachedFits
  BY FitsFollow
<1> QED
  BY <1>1, MemoryHolds, PTL
=============================================================================
