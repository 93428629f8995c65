------------------------ MODULE ArenaSpaceUsedProofs ------------------------
(***************************************************************************)
(* SpaceUsed() racing with the owner's allocations, for every size of      *)
(* blocks and strings: the invariant of ArenaSpaceUsed is inductive, and   *)
(* the bounds of the result that arena.h and arena.cc promise follow.      *)
(*                                                                         *)
(* The owner's call is planned when it begins, so what it owes is stated   *)
(* of the atomics' final values, when the stores left are made.  What the  *)
(* reader may load is stated of every entry of a history, and what it      *)
(* knows of the others once it has loaded head_ is the view that came with *)
(* that entry.                                                             *)
(***************************************************************************)
EXTENDS ArenaSpaceUsed, SequenceTheorems, WellFoundedInduction, TLAPS

-----------------------------------------------------------------------------
(* The inductive invariant                                                  *)

Pointers == [block : Nat, offset : Nat]

StringBlockType == [size : Nat, next_size : Nat]

StoreType == [atomic : Atomics, value : Nat \cup Pointers]

Entry == [value : Nat \cup Pointers, view : [Atomics -> Nat]]

Typed ==
    /\ blocks \in Seq(Nat)
    /\ string_blocks \in Seq(StringBlockType)
    /\ closed \in Seq(Nat)
    /\ given \in Nat /\ memory \in Nat /\ count \in Nat /\ quiet \in BOOLEAN
    /\ hist \in [Atomics -> Seq(Entry)]
    /\ todo \in Seq(StoreType)
    /\ pc \in Atomics \cup {"idle", "done"}
    /\ view \in [Atomics -> Nat]
    /\ local \in [sb : Nat, head : Nat, sum : Nat]

(* Without strings space_used_ only grows                                   *)
NoStrings == string_blocks = <<>>

(* The bytes used of all blocks but the head: what space_used_ holds then   *)
UsedBeforeHead == UsedBefore(Len(closed))

(* The values that atomic x may have: those stored and those still to store *)
Possible(x, v) ==
    /\ x = "ptr" =>
        /\ v \in Pointers /\ v.block <= Len(blocks) /\ v.offset <= BlockBytes(v.block)
        /\ v.block > 0 => BlockHeaderSize <= v.offset
        /\ v.block = 1 => Reserved <= v.offset - BlockHeaderSize
    /\ x = "head" => v \in 0 .. Len(blocks)
    /\ x = "string_block" => v \in 0 .. Len(string_blocks)
    /\ x = "unused" => v \in 0 .. Word - 1 /\ v % StringSize = 0
    /\ x = "space_used" => v \in 0 .. Word - 1 /\ (NoStrings => v <= given)

(* The stores of one call concern the newest block *)
Newest(x, v) ==
    /\ x = "ptr" => v.block = Len(blocks)
    /\ x = "head" => v = Len(blocks)
    /\ x = "space_used" /\ NoStrings => v = UsedBeforeHead

(* A store to x in front of the i-th store left, or the newest one made, is *)
(* as those of this call                                                    *)
StoredBefore(x, i) ==
    \/ Newest(x, Latest(x))
    \/ \E j \in DOMAIN todo : j < i /\ todo[j].atomic = x

Planned ==
    \A i \in DOMAIN todo :
        /\ Possible(todo[i].atomic, todo[i].value)
        /\ Newest(todo[i].atomic, todo[i].value)
        /\ todo[i].atomic = "head" => StoredBefore("ptr", i) /\ StoredBefore("space_used", i)

Stores ==
    /\ \A x \in Atomics : Len(hist[x]) > 0
    /\ \A x \in Atomics : \A i \in DOMAIN hist[x] : Possible(x, hist[x][i].value)
    /\ Planned

(* Whoever knows of views[x] knows of block b as the head: he finds ptr_ in *)
(* that block or a later one, and the blocks before b counted               *)
Knows(views, b) ==
    /\ \A i \in DOMAIN hist["ptr"] : views["ptr"] <= i => b <= Value("ptr", i).block
    /\ NoStrings => \A i \in DOMAIN hist["space_used"] :
        views["space_used"] <= i => UsedBefore(b - 1) <= Value("space_used", i)

Views ==
    /\ \A x, y \in Atomics : \A i \in DOMAIN hist[x] : hist[x][i].view[y] \in 1 .. Len(hist[y])
    /\ \A x \in Atomics : view[x] \in 1 .. Len(hist[x])
    /\ \A i \in DOMAIN hist["head"] :
        Value("head", i) # 0 => Knows(hist["head"][i].view, Value("head", i))

-----------------------------------------------------------------------------
(* What an atomic holds when all stores t after the history h are made *)
LastStore(t, x, i) ==
    /\ i \in DOMAIN t /\ t[i].atomic = x
    /\ \A j \in DOMAIN t : t[j].atomic = x => j <= i

After(t, h, x) ==
    IF \E i \in DOMAIN t : t[i].atomic = x
    THEN t[CHOOSE i \in DOMAIN t : LastStore(t, x, i)].value
    ELSE h[x][Len(h[x])].value

Final(x) == After(todo, hist, x)

HeadUsed == IF blocks = <<>> THEN 0 ELSE Final("ptr").offset - BlockHeaderSize

StringsUsed ==
    IF NoStrings THEN 0
    ELSE EffectiveSize(string_blocks[Len(string_blocks)]) - Final("unused")

(* What the owner has, at the end of its call *)
Accounts ==
    /\ Len(closed) = IF blocks = <<>> THEN 0 ELSE Len(blocks) - 1
    /\ \A b, c \in DOMAIN closed : b <= c => closed[b] <= closed[c]
    /\ closed # <<>> => Reserved <= closed[1]
    /\ \A i \in DOMAIN string_blocks :
        /\ StringMinSize <= string_blocks[i].next_size
        /\ StringSize <= EffectiveSize(string_blocks[i])
        /\ EffectiveSize(string_blocks[i]) % StringSize = 0
    /\ Final("ptr").block = Len(blocks)
    /\ Final("head") = Len(blocks)
    /\ Final("string_block") = Len(string_blocks)
    /\ blocks = <<>> => Final("ptr").offset = 0
    /\ NoStrings => Final("unused") = 0
    /\ NoStrings => Final("space_used") = UsedBeforeHead /\ given = UsedBeforeHead + HeadUsed
    /\ (Final("space_used") + HeadUsed + StringsUsed) % Word = given
    /\ given + Final("unused") + (BlockBytes(Len(blocks)) - Final("ptr").offset) <= memory
    /\ 2 * memory < Word
    /\ \A b \in DOMAIN blocks : blocks[b] <= memory

(* The reader's sum, whatever the owner does meanwhile *)
Reading ==
    /\ local.head \in 0 .. Len(blocks) /\ local.sb \in 0 .. Len(string_blocks)
    /\ local.sum \in 0 .. Word - 1
    /\ pc = "unused" => local.sb # 0
    /\ pc \in {"ptr", "space_used"} => local.head # 0 /\ Knows(view, local.head)
    /\ NoStrings =>
        /\ pc \in {"string_block", "head", "ptr"} => local.sum = 0
        /\ pc = "space_used" =>
            /\ local.sum <= blocks[local.head]
            /\ local.head = 1 => Reserved <= local.sum
        /\ pc = "done" => BoundedOverestimate
    /\ CountsFullBlocks

(* The reader's sum while the owner is idle *)
QuietSum ==
    /\ pc = "string_block" => local.sum = 0
    /\ pc = "unused" => local.sb = Len(string_blocks)
    /\ pc \in {"head", "ptr"} => local.sum = StringsUsed % Word
    /\ pc \in {"ptr", "space_used"} => local.head = Len(blocks)
    /\ pc = "space_used" => local.sum = (StringsUsed + HeadUsed) % Word
    /\ ExactWhenQuiet

QuietReading ==
    quiet =>
        /\ todo = <<>>
        /\ \A x \in Atomics : view[x] = Len(hist[x])
        /\ QuietSum

(* A SerialArena that lies in a block lies in the first one                 *)
FirstBlock == Value("ptr", 1).block <= 1

IInv == Typed /\ Stores /\ Views /\ Accounts /\ FirstBlock /\ Reading /\ QuietReading

-----------------------------------------------------------------------------
(* Arithmetic modulo m *)
LEMMA SmallMod == ASSUME NEW m \in Nat, m > 0, NEW k \in 0 .. m - 1 PROVE k % m = k
  OBVIOUS

LEMMA ModRange == ASSUME NEW m \in Nat, m > 0, NEW k \in Int PROVE k % m \in 0 .. m - 1
  OBVIOUS

LEMMA ModAtMost == ASSUME NEW m \in Nat, m > 0, NEW k \in Nat PROVE k % m <= k /\ k % m \in Nat
  OBVIOUS

LEMMA ModDivides ==
    ASSUME NEW m \in Nat, m > 0, NEW k \in Int
    PROVE  k \div m \in Int /\ k = m * (k \div m) + (k % m)
  OBVIOUS

LEMMA NoMultiple ==
    ASSUME NEW m \in Nat, m > 0, NEW k \in Int, m * k < m, -m < m * k
    PROVE  k = 0
<1>1. k >= 1 => m * k >= m
  OBVIOUS
<1>2. k <= -1 => m * k <= -m
  OBVIOUS
<1> QED
  BY <1>1, <1>2

LEMMA ModUnique ==
    ASSUME NEW m \in Nat, m > 0, NEW j \in Int, NEW k \in Int, NEW q \in Int, j = k + m * q
    PROVE  j % m = k % m
<1> DEFINE p == j \div m
<1> DEFINE r == k \div m
<1>1. p \in Int /\ j = m * p + (j % m)
  BY ModDivides
<1>2. r \in Int /\ k = m * r + (k % m)
  BY ModDivides
<1>3. j % m \in 0 .. m - 1 /\ k % m \in 0 .. m - 1
  BY ModRange
<1> HIDE DEF p, r
<1>4. m * (p - (r + q)) = (k % m) - (j % m)
  <2>1. m * (p - (r + q)) = m * p - m * r - m * q
    BY <1>1, <1>2
  <2> QED
    BY <1>1, <1>2, <2>1
<1>5. p - (r + q) = 0
  BY <1>1, <1>2, <1>3, <1>4, NoMultiple
<1> QED
  BY <1>1, <1>2, <1>3, <1>4, <1>5

LEMMA ModAdds ==
    ASSUME NEW m \in Nat, m > 0, NEW j \in Int, NEW k \in Int
    PROVE  ((j % m) + k) % m = (j + k) % m
<1>1. j \div m \in Int /\ j = m * (j \div m) + (j % m)
  BY ModDivides
<1> DEFINE q == j \div m
<1> DEFINE r == j % m
<1>2. r \in Int
  BY ModRange
<1>3. q \in Int /\ j = m * q + r
  BY <1>1
<1> HIDE DEF q, r
<1> DEFINE sum == j + k
<1> DEFINE rest == r + k
<1>4. sum \in Int /\ rest \in Int /\ sum = rest + m * q
  BY <1>2, <1>3
<1>5. sum % m = rest % m
  <2> HIDE DEF sum, rest
  <2> QED
    BY <1>3, <1>4, ModUnique
<1> QED
  BY <1>5 DEF r

(* The multiples of a size *)
LEMMA ModShifts ==
    ASSUME NEW m \in Nat, m > 0, NEW k \in Int
    PROVE  (k - m) % m = k % m
<1> DEFINE rest == k - m
<1> DEFINE one == 1
<1>1. rest \in Int /\ one \in Int /\ k = rest + m * one
  OBVIOUS
<1>2. k % m = rest % m
  <2> HIDE DEF rest, one
  <2> QED
    BY <1>1, ModUnique
<1> QED
  BY <1>2

LEMMA MultipleBelow ==
    ASSUME NEW m \in Nat, m > 0, NEW k \in Nat, k % m = 0, k # 0
    PROVE  m <= k /\ (k - m) % m = 0
<1>1. m <= k
  <2>1. k < m => k % m = k
    BY SmallMod
  <2> QED
    BY <2>1
<1>2. (k - m) % m = k % m
  BY ModShifts
<1> QED
  BY <1>1, <1>2

LEMMA RoundedDown ==
    ASSUME NEW m \in Nat, m > 0, NEW k \in Int
    PROVE  k - (k % m) \in Int /\ (k - (k % m)) % m = 0
<1>1. k \div m \in Int /\ k = m * (k \div m) + (k % m)
  BY ModDivides
<1>2. k % m \in Int
  BY ModRange
<1> DEFINE q == k \div m
<1> DEFINE r == k % m
<1>3. q \in Int /\ r \in Int /\ k = m * q + r
  BY <1>1, <1>2
<1> HIDE DEF q, r
<1>4. k - r \in Int /\ k - r = 0 + m * q
  BY <1>3
<1>5. (k - r) % m = 0 % m
  BY <1>3, <1>4, ModUnique
<1>6. 0 % m = 0
  BY SmallMod
<1> QED
  BY <1>4, <1>5, <1>6 DEF r

-----------------------------------------------------------------------------
(* The sizes of blocks                                                      *)

LEMMA BlockSizes ==
    ASSUME NEW last \in Nat, NEW n \in Nat
    PROVE  /\ BlockSize(last, n) \in Nat
           /\ BlockHeaderSize + n <= BlockSize(last, n)
BY LayoutAssumption DEF BlockSize, AllocationSize, LargerOf, SmallerOf

LEMMA StringBlockSizes ==
    ASSUME NEW n \in Nat, StringMinSize <= n
    PROVE  LET sb == [size |-> RoundedSize(n), next_size |-> n]
           IN  /\ RoundedSize(n) \in Nat /\ RoundedSize(n) <= n
               /\ EffectiveSize(sb) \in Nat
               /\ StringSize <= EffectiveSize(sb)
               /\ EffectiveSize(sb) <= RoundedSize(n)
               /\ EffectiveSize(sb) % StringSize = 0
<1> DEFINE k == n - StringHeaderSize
<1>1. k \in Nat /\ StringSize <= k /\ StringSize \in Nat /\ StringSize > 0
  BY LayoutAssumption
<1>2. k % StringSize \in 0 .. StringSize - 1
  BY <1>1, ModRange
<1>3. (k - (k % StringSize)) % StringSize = 0
  BY <1>1, RoundedDown
<1>4. k - (k % StringSize) # 0
  BY <1>1, <1>2
<1>5. StringSize <= k - (k % StringSize)
  <2>1. k - (k % StringSize) \in Nat
    BY <1>1, <1>2
  <2> QED
    BY <1>1, <1>3, <1>4, <2>1, MultipleBelow
<1>6. RoundedSize(n) - StringHeaderSize = k - (k % StringSize)
  BY <1>1, <1>2, LayoutAssumption DEF RoundedSize
<1>7. RoundedSize(n) \in Nat /\ RoundedSize(n) <= n
  BY <1>1, <1>2, LayoutAssumption DEF RoundedSize
<1> HIDE DEF k
<1> QED
  BY <1>1, <1>2, <1>3, <1>5, <1>6, <1>7, LayoutAssumption DEF EffectiveSize

-----------------------------------------------------------------------------
(* What a call leaves behind                                                *)

LEMMA AfterLast ==
    ASSUME NEW t \in Seq(StoreType), NEW h, NEW x, NEW i,
           LastStore(t, x, i)
    PROVE  After(t, h, x) = t[i].value
<1> DEFINE j == CHOOSE k \in DOMAIN t : LastStore(t, x, k)
<1>1. i \in DOMAIN t /\ t[i].atomic = x
  BY DEF LastStore
<1>2. LastStore(t, x, j)
  <2>1. \E k \in DOMAIN t : LastStore(t, x, k)
    BY <1>1
  <2> QED
    BY <2>1, Zenon
<1>3. i <= j /\ j <= i
  BY <1>1, <1>2 DEF LastStore
<1>4. i = j
  BY <1>1, <1>2, <1>3 DEF LastStore
<1> QED
  BY <1>1, <1>4 DEF After

LEMMA AfterNone ==
    ASSUME NEW t, NEW h, NEW x, \A i \in DOMAIN t : t[i].atomic # x
    PROVE  After(t, h, x) = h[x][Len(h[x])].value
BY DEF After

(* The order of the natural numbers as a relation: it is well-founded, so   *)
(* that a set of positions has a last one                                   *)
Less == {p \in Nat \X Nat : p[1] < p[2]}

(* Every set of positions in a list has a last one *)
LEMMA HasGreatest ==
    ASSUME NEW S, NEW n \in Nat, S \subseteq 1 .. n, S # {}
    PROVE  \E i \in S : \A j \in S : j <= i
<1>1. IsWellFoundedOn(Less, Nat)
  <2>1. Less = OpToRel(<, Nat)
    BY DEF Less, OpToRel
  <2> QED BY <2>1, NatLessThanWellFounded
<1> DEFINE T == {m \in 0 .. n : n - m \in S}
<1>2. T \subseteq Nat
  OBVIOUS
<1>3. T # {}
  <2>1. PICK i \in S : TRUE
    OBVIOUS
  <2>2. i \in 1 .. n /\ n - (n - i) = i /\ n - i \in 0 .. n
    BY <2>1
  <2> QED BY <2>2
<1>4. PICK x \in T : \A y \in T : ~(<<y, x>> \in Less)
  BY <1>1, <1>2, <1>3, WFMin
<1>5. \A y \in T : x <= y
  <2> SUFFICES ASSUME NEW y \in T, ~(x <= y) PROVE FALSE
    OBVIOUS
  <2>1. x \in Nat /\ y \in Nat /\ y < x
    BY <1>2, <1>4
  <2>2. <<y, x>> \in Less
    BY <2>1 DEF Less
  <2> QED BY <1>4, <2>2
<1>6. n - x \in S
  BY <1>4
<1>7. ASSUME NEW j \in S PROVE j <= n - x
  <2>1. j \in 1 .. n /\ n - (n - j) = j /\ n - j \in 0 .. n
    OBVIOUS
  <2>2. x <= n - j
    BY <1>5, <2>1
  <2> QED BY <1>4, <2>1, <2>2
<1> QED BY <1>6, <1>7

LEMMA HasLast ==
    ASSUME NEW t \in Seq(StoreType), NEW x,
           \E i \in DOMAIN t : t[i].atomic = x
    PROVE  \E i : LastStore(t, x, i)
<1> DEFINE S == {i \in DOMAIN t : t[i].atomic = x}
<1>1. S \subseteq 1 .. Len(t) /\ S # {} /\ Len(t) \in Nat
  OBVIOUS
<1>2. PICK i \in S : \A j \in S : j <= i
  <2> HIDE DEF S
  <2> QED
    BY <1>1, HasGreatest
<1> QED
  BY <1>2 DEF LastStore

LEMMA AfterStore ==
    ASSUME NEW t \in Seq(StoreType), t # <<>>,
           NEW h \in [Atomics -> Seq(Entry)], NEW x \in Atomics,
           NEW e \in Entry, e.value = t[1].value
    PROVE  After(Tail(t), [h EXCEPT ![t[1].atomic] = Append(@, e)], x) = After(t, h, x)
<1> DEFINE g == [h EXCEPT ![t[1].atomic] = Append(@, e)]
<1> DEFINE r == Tail(t)
<1>1. /\ r \in Seq(StoreType) /\ Len(r) = Len(t) - 1 /\ Len(t) \in Nat /\ Len(t) > 0
      /\ DOMAIN r = 1 .. Len(r) /\ DOMAIN t = 1 .. Len(t)
      /\ \A i \in 1 .. Len(r) : r[i] = t[i + 1]
  OBVIOUS
<1>2. t[1].atomic \in Atomics
  <2>1. t[1] \in StoreType
    BY <1>1
  <2> QED
    BY <2>1 DEF StoreType
<1>3. CASE \E i \in DOMAIN r : r[i].atomic = x
  <2>1. PICK i : LastStore(r, x, i)
    BY <1>1, <1>3, HasLast
  <2>2. i \in 1 .. Len(r) /\ r[i].atomic = x /\ i + 1 \in DOMAIN t /\ t[i + 1].atomic = x
    BY <1>1, <2>1 DEF LastStore
  <2>3. ASSUME NEW j \in DOMAIN t, t[j].atomic = x PROVE j <= i + 1
    <3>1. CASE j = 1
      BY <2>2, <3>1
    <3>2. CASE j # 1
      <4>1. PICK k \in DOMAIN r : j = k + 1
        <5>1. j - 1 \in DOMAIN r /\ j = (j - 1) + 1
          BY <1>1, <3>2
        <5> QED
          BY <5>1
      <4>2. k <= i
        BY <1>1, <2>1, <2>3, <4>1 DEF LastStore
      <4> QED
        BY <1>1, <2>2, <4>1, <4>2
    <3> QED
      BY <3>1, <3>2
  <2>4. LastStore(t, x, i + 1)
    BY <2>2, <2>3 DEF LastStore
  <2>5. After(r, g, x) = r[i].value
    <3> HIDE DEF r, g
    <3> QED
      BY <1>1, <2>1, AfterLast
  <2>6. After(t, h, x) = t[i + 1].value
    BY <2>4, AfterLast
  <2> QED
    BY <1>1, <2>2, <2>5, <2>6
<1>4. CASE \A i \in DOMAIN r : r[i].atomic # x
  <2>1. After(r, g, x) = g[x][Len(g[x])].value
    <3> HIDE DEF r, g
    <3> QED
      BY <1>4, AfterNone
  <2>2. \A j \in DOMAIN t : j # 1 => t[j].atomic # x
    <3>1. SUFFICES ASSUME NEW j \in DOMAIN t, j # 1 PROVE t[j].atomic # x
      OBVIOUS
    <3>2. j - 1 \in DOMAIN r /\ r[j - 1] = t[j]
      BY <1>1, <3>1
    <3> QED
      BY <1>4, <3>2
  <2>3. CASE t[1].atomic = x
    <3>1. LastStore(t, x, 1)
      BY <1>1, <2>2, <2>3 DEF LastStore
    <3>2. After(t, h, x) = t[1].value
      BY <3>1, AfterLast
    <3>3. g[x] = Append(h[x], e) /\ h[x] \in Seq(Entry)
      BY <2>3
    <3>4. g[x][Len(g[x])] = e
      BY <3>3
    <3> QED
      BY <2>1, <3>2, <3>4
  <2>4. CASE t[1].atomic # x
    <3>1. g[x] = h[x]
      BY <1>2, <2>4
    <3>2. \A i \in DOMAIN t : t[i].atomic # x
      BY <2>2, <2>4
    <3>3. After(t, h, x) = h[x][Len(h[x])].value
      BY <3>2, AfterNone
    <3> QED
      BY <2>1, <3>1, <3>3
  <2> QED
    BY <2>3, <2>4
<1> QED
  BY <1>3, <1>4

-----------------------------------------------------------------------------
(* The owner's next store                                                   *)

LEMMA UsedGrows ==
    ASSUME Typed, Accounts, NEW b \in 0 .. Len(closed), NEW c \in 0 .. Len(closed), b <= c
    PROVE  UsedBefore(b) \in Nat /\ UsedBefore(c) \in Nat /\ UsedBefore(b) <= UsedBefore(c)
<1>1. closed \in Seq(Nat) /\ \A i, j \in DOMAIN closed : i <= j => closed[i] <= closed[j]
  BY DEF Typed, Accounts
<1>2. DOMAIN closed = 1 .. Len(closed) /\ \A i \in DOMAIN closed : closed[i] \in Nat
  BY <1>1
<1>3. CASE b = 0
  BY <1>2, <1>3 DEF UsedBefore
<1>4. CASE b # 0
  BY <1>1, <1>2, <1>4 DEF UsedBefore
<1> QED
  BY <1>3, <1>4

(* What a store changes: the history of one atomic, by one entry            *)
Appends(a, e) ==
    /\ todo # <<>>
    /\ a = todo[1].atomic /\ e.value = todo[1].value
    /\ \A y \in Atomics : e.view[y] = IF a \in Released THEN Len(hist[y]) ELSE 1
    /\ hist' = [hist EXCEPT ![a] = Append(@, e)]
    /\ \A x \in Atomics : hist[x] \in Seq(Entry)
    /\ \A x \in Atomics : Len(hist[x]) \in Nat /\ Len(hist[x]) <= Len(hist'[x])
    /\ \A x \in Atomics : \A i \in DOMAIN hist[x] :
           i \in DOMAIN hist'[x] /\ hist'[x][i] = hist[x][i]
    /\ \A x \in Atomics : \A i \in DOMAIN hist'[x] :
        \/ i \in DOMAIN hist[x]
        \/ x = a /\ i = Len(hist[x]) + 1 /\ hist'[x][i] = e
    /\ Len(hist'[a]) = Len(hist[a]) + 1
    /\ \A x \in Atomics : x # a => hist'[x] = hist[x]

LEMMA StoreAppends ==
    ASSUME Typed, StoreNext
    PROVE  \E a \in Atomics, e \in Entry : Appends(a, e)
<1> DEFINE s == todo[1]
<1> DEFINE e == [value |-> s.value,
                 view |-> [y \in Atomics |-> IF s.atomic \in Released THEN Len(hist[y]) ELSE 1]]
<1>1. todo \in Seq(StoreType) /\ todo # <<>> /\ Head(todo) = s
  BY DEF Typed, StoreNext
<1>2. s \in StoreType
  BY <1>1
<1>3. s.atomic \in Atomics /\ s.value \in Nat \cup Pointers
  BY <1>2 DEF StoreType
<1>4. \A x \in Atomics : hist[x] \in Seq(Entry) /\ Len(hist[x]) \in Nat
  BY DEF Typed
<1>5. e \in Entry
  BY <1>3, <1>4 DEF Entry
<1>6. hist' = [hist EXCEPT ![s.atomic] = Append(@, e)]
  BY <1>1 DEF StoreNext
<1>7. hist \in [Atomics -> Seq(Entry)]
  BY DEF Typed
<1>8. \A y \in Atomics : e.view[y] = IF s.atomic \in Released THEN Len(hist[y]) ELSE 1
  OBVIOUS
<1>9. e.value = s.value
  OBVIOUS
<1> HIDE DEF e
<1>10. /\ hist'[s.atomic] = Append(hist[s.atomic], e)
       /\ \A x \in Atomics : x # s.atomic => hist'[x] = hist[x]
  BY <1>3, <1>6, <1>7
<1>11. /\ Len(hist'[s.atomic]) = Len(hist[s.atomic]) + 1
       /\ DOMAIN hist'[s.atomic] = 1 .. Len(hist[s.atomic]) + 1
       /\ DOMAIN hist[s.atomic] = 1 .. Len(hist[s.atomic])
       /\ hist'[s.atomic][Len(hist[s.atomic]) + 1] = e
       /\ \A i \in 1 .. Len(hist[s.atomic]) : hist'[s.atomic][i] = hist[s.atomic][i]
  BY <1>3, <1>4, <1>5, <1>10
<1>12. \A x \in Atomics : Len(hist[x]) <= Len(hist'[x])
  BY <1>4, <1>10, <1>11
<1>13. \A x \in Atomics : \A i \in DOMAIN hist[x] :
           i \in DOMAIN hist'[x] /\ hist'[x][i] = hist[x][i]
  <2>1. SUFFICES ASSUME NEW x \in Atomics, NEW i \in DOMAIN hist[x]
                 PROVE  i \in DOMAIN hist'[x] /\ hist'[x][i] = hist[x][i]
    OBVIOUS
  <2>2. CASE x = s.atomic
    BY SMTT(30), <1>3, <1>4, <1>11, <2>1, <2>2
  <2>3. CASE x # s.atomic
    BY <1>10, <2>1, <2>3
  <2> QED
    BY <2>2, <2>3
<1>14. \A x \in Atomics : \A i \in DOMAIN hist'[x] :
         \/ i \in DOMAIN hist[x]
         \/ x = s.atomic /\ i = Len(hist[x]) + 1 /\ hist'[x][i] = e
  BY <1>4, <1>10, <1>11
<1>15. Appends(s.atomic, e)
  BY <1>1, <1>4, <1>6, <1>8, <1>9, <1>10, <1>11, <1>12, <1>13, <1>14 DEF Appends
<1> QED
  BY <1>3, <1>5, <1>15

(* Every store of a call concerns the newest block: who knows a block as    *)
(* the head still does                                                      *)
LEMMA KnowsStored ==
    ASSUME Typed, Stores, Accounts, NEW a \in Atomics, NEW e \in Entry, Appends(a, e),
           UNCHANGED owner, NEW w, NEW b \in 1 .. Len(blocks), Knows(w, b)
    PROVE  Knows(w, b)'
<1>1. /\ blocks' = blocks /\ string_blocks' = string_blocks /\ closed' = closed
      /\ Len(blocks) \in Nat /\ closed \in Seq(Nat) /\ Len(closed) \in Nat
  BY DEF owner, Typed
<1>2. todo # <<>> /\ 1 \in DOMAIN todo
  BY DEF Appends, Typed
<1>3. Newest(a, e.value)
  BY <1>2 DEF Appends, Stores, Planned
<1>4. ASSUME NEW i \in DOMAIN hist'["ptr"], w["ptr"] <= i PROVE b <= hist'["ptr"][i].value.block
  <2>1. CASE i \in DOMAIN hist["ptr"]
    BY <1>4, <2>1 DEF Knows, Value, Appends, Atomics
  <2>2. CASE a = "ptr" /\ hist'["ptr"][i] = e
    BY <1>1, <1>3, <2>2 DEF Newest
  <2> QED
    BY <2>1, <2>2 DEF Appends, Atomics
<1>5. ASSUME NoStrings, NEW i \in DOMAIN hist'["space_used"], w["space_used"] <= i
      PROVE  UsedBefore(b - 1) <= hist'["space_used"][i].value
  <2>1. CASE i \in DOMAIN hist["space_used"]
    BY <1>5, <2>1 DEF Knows, Value, Appends, Atomics
  <2>2. CASE a = "space_used" /\ hist'["space_used"][i] = e
    <3>1. e.value = UsedBefore(Len(closed))
      BY <1>3, <1>5, <2>2 DEF Newest, UsedBeforeHead
    <3>2. Len(closed) = Len(blocks) - 1
      BY <1>1 DEF Accounts
    <3>3. b - 1 \in 0 .. Len(closed) /\ Len(closed) \in 0 .. Len(closed) /\ b - 1 <= Len(closed)
      BY <1>1, <3>2
    <3> QED
      BY <2>2, <3>1, <3>3, UsedGrows
  <2> QED
    BY <2>1, <2>2 DEF Appends, Atomics
<1>6. UsedBefore(b - 1)' = UsedBefore(b - 1)
  BY <1>1 DEF UsedBefore
<1>7. NoStrings' = NoStrings
  BY <1>1 DEF NoStrings
<1> QED
  BY <1>4, <1>5, <1>6, <1>7 DEF Knows, Value

LEMMA TailOf ==
    ASSUME Typed, StoreNext
    PROVE  /\ todo' \in Seq(StoreType) /\ Len(todo) \in Nat /\ 1 \in DOMAIN todo
           /\ todo' = Tail(todo)
           /\ \A i \in DOMAIN todo' : i + 1 \in DOMAIN todo /\ todo'[i] = todo[i + 1]
           /\ \A j \in DOMAIN todo : j # 1 => \E i \in DOMAIN todo' : j = i + 1
<1>1. todo \in Seq(StoreType) /\ todo # <<>> /\ todo' = Tail(todo)
  BY DEF Typed, StoreNext
<1>2. /\ Len(todo) \in Nat /\ Len(todo) > 0 /\ todo' \in Seq(StoreType)
      /\ DOMAIN todo = 1 .. Len(todo) /\ DOMAIN todo' = 1 .. Len(todo) - 1
      /\ \A i \in 1 .. Len(todo) - 1 : todo'[i] = todo[i + 1]
  BY <1>1
<1>3. ASSUME NEW j \in DOMAIN todo, j # 1 PROVE \E i \in DOMAIN todo' : j = i + 1
  <2>1. j - 1 \in DOMAIN todo' /\ j = (j - 1) + 1
    BY <1>2, <1>3
  <2> QED
    BY <2>1
<1> QED
  BY <1>1, <1>2, <1>3

LEMMA StoreTyped ==
    ASSUME Typed, StoreNext
    PROVE  Typed'
<1>1. PICK a \in Atomics, e \in Entry : Appends(a, e)
  BY StoreAppends
<1>2. hist' \in [Atomics -> Seq(Entry)]
  <2>1. hist \in [Atomics -> Seq(Entry)] /\ hist' = [hist EXCEPT ![a] = Append(@, e)]
    BY <1>1 DEF Typed, Appends
  <2>2. Append(hist[a], e) \in Seq(Entry)
    BY <2>1
  <2> QED
    BY <2>1, <2>2
<1>3. todo' \in Seq(StoreType)
  BY TailOf
<1> QED
  BY <1>2, <1>3 DEF Typed, StoreNext, owner, reader

LEMMA StoreReserved ==
    ASSUME Typed, Stores, NEW a \in Atomics, NEW e \in Entry, Appends(a, e)
    PROVE  Reserved' = Reserved
<1>1. 1 \in DOMAIN hist["ptr"]
  BY SMTT(30) DEF Typed, Stores, Planned, Atomics
<1>2. hist'["ptr"][1] = hist["ptr"][1]
  BY <1>1 DEF Appends, Atomics
<1> QED
  BY <1>2 DEF Reserved, Value

LEMMA StoreFinal ==
    ASSUME Typed, StoreNext, NEW x \in Atomics
    PROVE  Final(x)' = Final(x)
<1>1. PICK a \in Atomics, e \in Entry : Appends(a, e)
  BY StoreAppends
<1>2. todo \in Seq(StoreType) /\ hist \in [Atomics -> Seq(Entry)]
  BY DEF Typed
<1>3. /\ todo # <<>> /\ e.value = todo[1].value
      /\ hist' = [hist EXCEPT ![todo[1].atomic] = Append(@, e)]
  BY <1>1 DEF Appends
<1>4. todo' = Tail(todo)
  BY TailOf
<1>5. After(Tail(todo), [hist EXCEPT ![todo[1].atomic] = Append(@, e)], x) = After(todo, hist, x)
  BY <1>2, <1>3, AfterStore
<1>6. After(todo', hist', x) = After(todo, hist, x)
  BY <1>3, <1>4, <1>5
<1> QED
  BY <1>6 DEF Final

LEMMA StoreStores ==
    ASSUME Typed, Stores, Accounts, StoreNext
    PROVE  Stores'
<1>1. PICK a \in Atomics, e \in Entry : Appends(a, e)
  BY StoreAppends
<1>2. /\ blocks' = blocks /\ string_blocks' = string_blocks /\ closed' = closed
      /\ given' = given
  BY DEF StoreNext, owner
<1>3. Reserved' = Reserved
  BY <1>1, StoreReserved
<1>4. ASSUME NEW x, NEW v, Possible(x, v) PROVE Possible(x, v)'
  BY <1>2, <1>3, <1>4 DEF Possible, BlockBytes, NoStrings
<1>5. ASSUME NEW x, NEW v, Newest(x, v) PROVE Newest(x, v)'
  BY <1>2, <1>5 DEF Newest, NoStrings, UsedBeforeHead, UsedBefore
<1>6. 1 \in DOMAIN todo /\ a = todo[1].atomic /\ e.value = todo[1].value
  BY <1>1, TailOf DEF Appends
<1>7. Possible(a, e.value) /\ Newest(a, e.value)
  BY <1>6 DEF Stores, Planned
<1>8. \A x \in Atomics : Len(hist'[x]) > 0
  BY <1>1 DEF Appends, Stores, Planned
<1>9. ASSUME NEW x \in Atomics, NEW i \in DOMAIN hist'[x]
      PROVE  Possible(x, hist[x][i].value)'
  <2>1. PICK v : v = hist'[x][i].value
    OBVIOUS
  <2>2. Possible(x, v)
    <3>1. CASE i \in DOMAIN hist[x]
      BY <1>1, <2>1, <3>1 DEF Appends, Stores, Planned
    <3>2. CASE x = a /\ hist'[x][i] = e
      BY <1>7, <2>1, <3>2
    <3> QED
      BY <1>1, <1>9, <3>1, <3>2 DEF Appends
  <2>3. Possible(x, v)'
    BY <1>4, <2>2
  <2> QED
    BY <2>1, <2>3 DEF Possible
<1>10. ASSUME NEW i \in DOMAIN todo'
       PROVE  (Possible(todo[i].atomic, todo[i].value) /\ Newest(todo[i].atomic, todo[i].value))'
  <2>1. PICK x, v : x = todo[i + 1].atomic /\ v = todo[i + 1].value
    OBVIOUS
  <2>2. i + 1 \in DOMAIN todo /\ todo'[i] = todo[i + 1]
    BY <1>10, TailOf
  <2>3. Possible(x, v) /\ Newest(x, v)
    BY <2>1, <2>2 DEF Stores, Planned
  <2>4. Possible(x, v)' /\ Newest(x, v)'
    BY <1>4, <1>5, <2>3
  <2>5. x = todo'[i].atomic /\ v = todo'[i].value
    BY <2>1, <2>2
  <2>6. Possible(todo[i].atomic, todo[i].value)'
    BY <2>4, <2>5 DEF Possible
  <2>7. Newest(todo[i].atomic, todo[i].value)'
    BY <2>4, <2>5 DEF Newest
  <2> QED
    BY <2>6, <2>7
<1>11. ASSUME NEW x \in Atomics, NEW i \in DOMAIN todo', StoredBefore(x, i + 1)
       PROVE  StoredBefore(x, i)'
  <2>1. CASE a = x
    <3>1. Latest(x)' = e.value
      <4>1. hist[x] \in Seq(Entry) /\ hist'[x] = Append(hist[x], e)
        BY <1>1, <2>1 DEF Appends, Typed
      <4> QED
        BY <4>1 DEF Latest
    <3>2. PICK v : v = e.value
      OBVIOUS
    <3>3. Newest(x, v)'
      BY <1>5, <1>7, <2>1, <3>2
    <3>4. Newest(x, Latest(x))'
      BY <3>1, <3>2, <3>3 DEF Newest
    <3> QED
      BY <3>4 DEF StoredBefore
  <2>2. CASE a # x /\ Newest(x, Latest(x))
    <3>1. hist'[x] = hist[x]
      BY <1>1, <2>2 DEF Appends
    <3>2. PICK v : v = Latest(x)
      OBVIOUS
    <3>3. v = Latest(x)'
      BY <3>1, <3>2 DEF Latest
    <3>4. Newest(x, v)'
      BY <1>5, <2>2, <3>2
    <3>5. Newest(x, Latest(x))'
      BY <3>3, <3>4 DEF Newest
    <3> QED
      BY <3>5 DEF StoredBefore
  <2>3. CASE a # x /\ \E j \in DOMAIN todo : j < i + 1 /\ todo[j].atomic = x
    <3>1. PICK j \in DOMAIN todo : j < i + 1 /\ todo[j].atomic = x
      BY <2>3
    <3>2. j # 1
      BY <1>6, <2>3, <3>1
    <3>3. PICK k \in DOMAIN todo' : j = k + 1
      BY <3>2, TailOf
    <3>4. k \in Nat /\ i \in Nat
      BY <1>11, TailOf
    <3>5. k < i /\ todo'[k].atomic = x
      BY SMTT(30), <3>1, <3>3, <3>4, TailOf
    <3> QED
      BY <3>5 DEF StoredBefore
  <2> QED
    BY <1>11, <2>1, <2>2, <2>3 DEF StoredBefore
<1>12. ASSUME NEW i \in DOMAIN todo', todo'[i].atomic = "head"
       PROVE  StoredBefore("ptr", i)' /\ StoredBefore("space_used", i)'
  <2>1. i + 1 \in DOMAIN todo /\ todo'[i] = todo[i + 1]
    BY <1>12, TailOf
  <2>2. StoredBefore("ptr", i + 1) /\ StoredBefore("space_used", i + 1)
    BY <1>12, <2>1 DEF Stores, Planned
  <2> QED
    BY <1>11, <2>2 DEF Atomics
<1> QED
  BY <1>8, <1>9, <1>10, <1>12 DEF Stores, Planned

LEMMA StoreViews ==
    ASSUME Typed, Stores, Views, Accounts, StoreNext
    PROVE  Views'
<1>1. PICK a \in Atomics, e \in Entry : Appends(a, e)
  BY StoreAppends
<1>2. /\ blocks' = blocks /\ string_blocks' = string_blocks /\ closed' = closed
      /\ view' = view /\ UNCHANGED owner
  BY DEF StoreNext, owner, reader
<1>3. \A x \in Atomics : Len(hist[x]) \in Nat /\ Len(hist[x]) > 0 /\ Len(hist[x]) <= Len(hist'[x])
  BY <1>1 DEF Stores, Planned, Appends
<1>4. ASSUME NEW x \in Atomics, NEW y \in Atomics, NEW i \in DOMAIN hist'[x]
      PROVE  hist'[x][i].view[y] \in 1 .. Len(hist'[y])
  <2>1. Len(hist'[y]) \in Nat
    BY <1>1, StoreTyped DEF Typed
  <2>2. CASE i \in DOMAIN hist[x]
    <3>1. hist'[x][i] = hist[x][i] /\ hist[x][i].view[y] \in 1 .. Len(hist[y])
      BY <1>1, <2>2 DEF Appends, Views
    <3> QED
      BY <1>3, <2>1, <3>1
  <2>3. CASE hist'[x][i] = e
    <3>1. e.view[y] \in {1, Len(hist[y])}
      BY <1>1 DEF Appends
    <3> QED
      BY <1>3, <2>1, <2>3, <3>1
  <2> QED
    BY <1>1, <1>4, <2>2, <2>3 DEF Appends
<1>5. \A x \in Atomics : view'[x] \in 1 .. Len(hist'[x])
  <2>1. \A x \in Atomics : view[x] \in 1 .. Len(hist[x]) /\ Len(hist'[x]) \in Nat
    BY StoreTyped DEF Typed, Views
  <2> QED
    BY <1>2, <1>3, <2>1
<1>6. ASSUME NEW i \in DOMAIN hist'["head"], hist'["head"][i].value # 0
      PROVE  Knows(hist["head"][i].view, hist["head"][i].value)'
  <2>1. PICK w, b : w = hist'["head"][i].view /\ b = hist'["head"][i].value
    OBVIOUS
  <2>2. CASE i \in DOMAIN hist["head"]
    <3>1. w = hist["head"][i].view /\ b = Value("head", i) /\ b # 0
      BY <1>1, <1>6, <2>1, <2>2 DEF Appends, Value, Atomics
    <3>2. Knows(w, b)
      BY <2>2, <3>1 DEF Views
    <3>3. b \in 1 .. Len(blocks)
      <4>1. Possible("head", b)
        BY <2>2, <3>1 DEF Stores, Planned, Value, Atomics
      <4> QED
        BY <3>1, <4>1 DEF Possible, Typed
    <3>4. Knows(w, b)'
      BY <1>1, <1>2, <3>2, <3>3, KnowsStored
    <3> QED
      BY <2>1, <3>4 DEF Knows
  <2>3. CASE a = "head" /\ hist'["head"][i] = e
    <3>1. 1 \in DOMAIN todo /\ todo[1].atomic = "head" /\ todo[1].value = b
      BY <1>1, <2>1, <2>3, TailOf DEF Appends
    <3>2. b = Len(blocks) /\ b # 0
      BY <1>6, <2>1, <3>1 DEF Stores, Planned, Newest
    <3>3. StoredBefore("ptr", 1) /\ StoredBefore("space_used", 1)
      BY <3>1 DEF Stores, Planned
    <3>4. ~ \E j \in DOMAIN todo : j < 1
      BY DEF Typed
    <3>5. Newest("ptr", Latest("ptr")) /\ Newest("space_used", Latest("space_used"))
      BY <3>3, <3>4 DEF StoredBefore
    <3>6. w["ptr"] = Len(hist["ptr"]) /\ w["space_used"] = Len(hist["space_used"])
      BY <1>1, <2>1, <2>3 DEF Appends, Released, Atomics
    <3>7. hist'["ptr"] = hist["ptr"] /\ hist'["space_used"] = hist["space_used"]
      BY <1>1, <2>3 DEF Appends, Atomics
    <3>8. ASSUME NEW j \in DOMAIN hist'["ptr"], w["ptr"] <= j PROVE b <= hist'["ptr"][j].value.block
      <4>1. hist["ptr"] \in Seq(Entry)
        BY DEF Typed, Atomics
      <4>2. j = Len(hist["ptr"])
        BY <3>6, <3>7, <3>8, <4>1
      <4>3. Latest("ptr").block = b /\ b \in Nat
        BY <3>2, <3>5 DEF Newest, Typed
      <4> QED
        BY <3>7, <4>2, <4>3 DEF Latest
    <3>9. ASSUME NoStrings, NEW j \in DOMAIN hist'["space_used"], w["space_used"] <= j
          PROVE  UsedBefore(b - 1) <= hist'["space_used"][j].value
      <4>1. hist["space_used"] \in Seq(Entry)
        BY DEF Typed, Atomics
      <4>2. j = Len(hist["space_used"])
        BY <3>6, <3>7, <3>9, <4>1
      <4>3. Latest("space_used") = UsedBefore(Len(closed))
        BY <3>5, <3>9 DEF Newest, UsedBeforeHead
      <4>4. Len(closed) = b - 1
        BY <3>2 DEF Accounts, Typed
      <4>5. Len(closed) \in 0 .. Len(closed) /\ Len(closed) <= Len(closed)
        BY DEF Typed
      <4>6. UsedBefore(Len(closed)) \in Nat
        BY <4>5, UsedGrows
      <4> QED
        BY <3>7, <4>2, <4>3, <4>4, <4>6 DEF Latest
    <3>10. UsedBefore(b - 1)' = UsedBefore(b - 1) /\ NoStrings' = NoStrings
      BY <1>2 DEF UsedBefore, NoStrings
    <3> QED
      BY <2>1, <3>8, <3>9, <3>10 DEF Knows, Value
  <2> QED
    BY <1>1, <1>6, <2>2, <2>3 DEF Appends, Atomics
<1> QED
  BY <1>4, <1>5, <1>6 DEF Views, Value

LEMMA StoreAccounts ==
    ASSUME Typed, Stores, Accounts, StoreNext
    PROVE  Accounts'
<1>1. PICK a \in Atomics, e \in Entry : Appends(a, e)
  BY StoreAppends
<1>2. /\ blocks' = blocks /\ string_blocks' = string_blocks /\ closed' = closed
      /\ given' = given /\ memory' = memory
  BY DEF StoreNext, owner
<1>3. Reserved' = Reserved
  BY <1>1, StoreReserved
<1>4. /\ Final("ptr")' = Final("ptr") /\ Final("head")' = Final("head")
      /\ Final("string_block")' = Final("string_block")
      /\ Final("unused")' = Final("unused") /\ Final("space_used")' = Final("space_used")
  BY StoreFinal DEF Atomics
<1>5. NoStrings' = NoStrings /\ UsedBeforeHead' = UsedBeforeHead
  BY <1>2 DEF NoStrings, UsedBeforeHead, UsedBefore
<1>6. HeadUsed' = HeadUsed /\ StringsUsed' = StringsUsed
  BY <1>2, <1>4, <1>5 DEF HeadUsed, StringsUsed
<1>7. BlockBytes(Len(blocks))' = BlockBytes(Len(blocks))
  BY <1>2 DEF BlockBytes
<1> QED
  BY <1>2, <1>3, <1>4, <1>5, <1>6, <1>7 DEF Accounts

LEMMA StoreReading ==
    ASSUME Typed, Stores, Accounts, Reading, StoreNext
    PROVE  Reading'
<1>1. PICK a \in Atomics, e \in Entry : Appends(a, e)
  BY StoreAppends
<1>2. /\ blocks' = blocks /\ string_blocks' = string_blocks /\ closed' = closed
      /\ given' = given /\ pc' = pc /\ local' = local /\ view' = view /\ UNCHANGED owner
  BY DEF StoreNext, owner, reader
<1>3. Reserved' = Reserved
  BY <1>1, StoreReserved
<1>4. ASSUME pc \in {"ptr", "space_used"} PROVE Knows(view, local.head)'
  <2>1. PICK w, b : w = view /\ b = local.head
    OBVIOUS
  <2>2. Knows(w, b) /\ b \in 1 .. Len(blocks)
    BY <1>4, <2>1 DEF Reading, Typed
  <2>3. Knows(w, b)'
    BY <1>1, <1>2, <2>2, KnowsStored
  <2> QED
    BY <1>2, <2>1, <2>3 DEF Knows
<1>5. BoundedOverestimate' = BoundedOverestimate
  BY <1>2 DEF BoundedOverestimate, Returned, BlockBytes, StringBlockBytes
<1>6. CountsFullBlocks' = CountsFullBlocks
  BY <1>2, <1>3 DEF CountsFullBlocks, Returned, UsedBefore
<1>7. NoStrings' = NoStrings
  BY <1>2 DEF NoStrings
<1> QED
  BY <1>2, <1>3, <1>4, <1>5, <1>6, <1>7 DEF Reading

LEMMA StoreNextIInv == ASSUME IInv, StoreNext PROVE IInv'
<1>1. Typed' /\ Stores' /\ Views' /\ Accounts' /\ Reading'
  BY StoreTyped, StoreStores, StoreViews, StoreAccounts, StoreReading DEF IInv
<1>2. QuietReading'
  BY DEF StoreNext, QuietReading
<1>3. FirstBlock'
  <2>1. PICK a \in Atomics, e \in Entry : Appends(a, e)
    BY StoreAppends DEF IInv
  <2>2. 1 \in DOMAIN hist["ptr"]
    BY SMTT(30) DEF IInv, Typed, Stores, Atomics
  <2>3. hist'["ptr"][1] = hist["ptr"][1]
    BY <2>1, <2>2 DEF Appends, Atomics
  <2> QED
    BY <2>3 DEF IInv, FirstBlock, Value
<1> QED
  BY <1>1, <1>2, <1>3 DEF IInv

-----------------------------------------------------------------------------
(* The start of a call of the owner                                         *)

(* Nothing is lost of what there was                                        *)
Grows ==
    /\ hist' = hist /\ todo = <<>> /\ quiet' = FALSE
    /\ pc' = pc /\ view' = view /\ local' = local
    /\ Len(blocks) <= Len(blocks') /\ \A b \in DOMAIN blocks : blocks'[b] = blocks[b]
    /\ Len(closed) <= Len(closed') /\ \A b \in DOMAIN closed : closed'[b] = closed[b]
    /\ Len(string_blocks) <= Len(string_blocks')
    /\ \A b \in DOMAIN string_blocks : string_blocks'[b] = string_blocks[b]
    /\ given <= given'

LEMMA GrowsBasics ==
    ASSUME Typed, Typed', Grows
    PROVE  /\ Reserved' = Reserved
           /\ NoStrings' => NoStrings
           /\ \A b \in 0 .. Len(blocks) : BlockBytes(b)' = BlockBytes(b)
           /\ \A b \in 0 .. Len(closed) : UsedBefore(b)' = UsedBefore(b)
           /\ \A b \in 0 .. Len(string_blocks) : StringBlockBytes(b)' = StringBlockBytes(b)
<1>1. Reserved' = Reserved
  BY DEF Grows, Reserved, Value
<1>2. NoStrings' => NoStrings
  <2>1. /\ string_blocks \in Seq(StringBlockType)
        /\ string_blocks' \in Seq(StringBlockType)
        /\ Len(string_blocks) <= Len(string_blocks')
    BY DEF Typed, Grows
  <2> QED
    BY <2>1 DEF NoStrings
<1>3. \A b \in 0 .. Len(blocks) : BlockBytes(b)' = BlockBytes(b)
  <2>1. /\ blocks \in Seq(Nat) /\ Len(blocks) \in Nat
        /\ \A b \in DOMAIN blocks : blocks'[b] = blocks[b]
    BY DEF Typed, Grows
  <2>2. ASSUME NEW b \in 0 .. Len(blocks) PROVE BlockBytes(b)' = BlockBytes(b)
    <3>1. b # 0 => blocks'[b] = blocks[b]
      BY <2>1
    <3> QED
      BY <3>1 DEF BlockBytes
  <2> QED
    BY <2>2
<1>4. \A b \in 0 .. Len(closed) : UsedBefore(b)' = UsedBefore(b)
  <2>1. /\ closed \in Seq(Nat) /\ Len(closed) \in Nat
        /\ \A b \in DOMAIN closed : closed'[b] = closed[b]
    BY DEF Typed, Grows
  <2>2. ASSUME NEW b \in 0 .. Len(closed) PROVE UsedBefore(b)' = UsedBefore(b)
    <3>1. b # 0 => closed'[b] = closed[b]
      BY <2>1
    <3> QED
      BY <3>1 DEF UsedBefore
  <2> QED
    BY <2>2
<1>5. \A b \in 0 .. Len(string_blocks) : StringBlockBytes(b)' = StringBlockBytes(b)
  <2>1. /\ string_blocks \in Seq(StringBlockType) /\ Len(string_blocks) \in Nat
        /\ \A b \in DOMAIN string_blocks : string_blocks'[b] = string_blocks[b]
    BY DEF Typed, Grows
  <2>2. ASSUME NEW b \in 0 .. Len(string_blocks) PROVE StringBlockBytes(b)' = StringBlockBytes(b)
    <3>1. b # 0 => string_blocks'[b] = string_blocks[b]
      BY <2>1
    <3> QED
      BY <3>1 DEF StringBlockBytes
  <2> QED
    BY <2>2
<1> QED
  BY <1>1, <1>2, <1>3, <1>4, <1>5

LEMMA GrowsPossible ==
    ASSUME Typed, Typed', Grows, NEW x, NEW v, Possible(x, v)
    PROVE  Possible(x, v)'
<1>1. /\ Len(blocks) \in Nat /\ Len(blocks') \in Nat /\ Len(blocks) <= Len(blocks')
      /\ Len(string_blocks) \in Nat /\ Len(string_blocks') \in Nat
      /\ Len(string_blocks) <= Len(string_blocks')
      /\ given \in Nat /\ given' \in Nat /\ given <= given'
  BY DEF Typed, Grows
<1>2. Reserved' = Reserved /\ (NoStrings' => NoStrings)
  BY GrowsBasics
<1>3. x = "ptr" => /\ v \in Pointers /\ v.block <= Len(blocks)
                   /\ v.offset <= BlockBytes(v.block)
                   /\ BlockBytes(v.block)' = BlockBytes(v.block)
  <2>1. x = "ptr" => v \in Pointers /\ v.block <= Len(blocks) /\ v.offset <= BlockBytes(v.block)
    BY DEF Possible
  <2>2. x = "ptr" => v.block \in 0 .. Len(blocks)
    BY <1>1, <2>1 DEF Pointers
  <2> QED
    BY <2>1, <2>2, GrowsBasics
<1>4. x = "ptr" => /\ v.block <= Len(blocks')
                   /\ v.offset <= BlockBytes(v.block)'
  BY <1>1, <1>3 DEF Pointers
<1>5. x = "head" => v \in 0 .. Len(blocks')
  BY <1>1 DEF Possible
<1>6. x = "string_block" => v \in 0 .. Len(string_blocks')
  BY <1>1 DEF Possible
<1>7. x = "space_used" /\ NoStrings' => v <= given'
  BY <1>1, <1>2, SpaceUsedAssumption DEF Possible
<1> QED
  BY <1>2, <1>3, <1>4, <1>5, <1>6, <1>7 DEF Possible

LEMMA GrowsKnows ==
    ASSUME Typed, Typed', Accounts, Grows, NEW w, NEW b \in 1 .. Len(blocks), Knows(w, b)
    PROVE  Knows(w, b)'
<1>1. b - 1 \in 0 .. Len(closed)
  BY DEF Accounts, Typed
<1>2. UsedBefore(b - 1)' = UsedBefore(b - 1) /\ (NoStrings' => NoStrings)
  BY <1>1, GrowsBasics
<1>3. hist' = hist
  BY DEF Grows
<1> QED
  BY <1>2, <1>3 DEF Knows, Value

LEMMA GrowsViews ==
    ASSUME Typed, Typed', Stores, Views, Accounts, Grows
    PROVE  Views'
<1>1. hist' = hist /\ view' = view
  BY DEF Grows
<1>2. ASSUME NEW i \in DOMAIN hist["head"], hist["head"][i].value # 0
      PROVE  Knows(hist["head"][i].view, hist["head"][i].value)'
  <2>1. PICK w, b : w = hist["head"][i].view /\ b = hist["head"][i].value
    OBVIOUS
  <2>2. Possible("head", b)
    BY <2>1 DEF Stores, Planned, Atomics
  <2>3. b \in 1 .. Len(blocks)
    <3>1. b \in 0 .. Len(blocks)
      BY <2>2 DEF Possible
    <3>2. Len(blocks) \in Nat
      BY DEF Typed
    <3> QED
      BY <1>2, <2>1, <3>1, <3>2
  <2>4. Knows(w, b)
    BY <1>2, <2>1 DEF Views, Value
  <2>5. Knows(w, b)'
    BY <2>3, <2>4, GrowsKnows
  <2> QED
    BY <1>1, <2>1, <2>5 DEF Knows
<1> QED
  BY <1>1, <1>2 DEF Views, Value

LEMMA GrowsReading ==
    ASSUME Typed, Typed', Accounts, Reading, Grows
    PROVE  Reading'
<1>1. /\ pc' = pc /\ view' = view /\ local' = local
      /\ Len(blocks) \in Nat /\ Len(blocks') \in Nat /\ Len(blocks) <= Len(blocks')
      /\ Len(string_blocks) \in Nat /\ Len(string_blocks') \in Nat
      /\ Len(string_blocks) <= Len(string_blocks')
      /\ given \in Nat /\ given' \in Nat /\ given <= given'
  BY DEF Typed, Grows
<1>2. Reserved' = Reserved /\ (NoStrings' => NoStrings)
  BY GrowsBasics
<1>3. local.head \in 0 .. Len(blocks) /\ local.sb \in 0 .. Len(string_blocks)
  BY DEF Reading
<1>4. BlockBytes(local.head)' = BlockBytes(local.head)
  <2>1. PICK b : b = local.head
    OBVIOUS
  <2>2. BlockBytes(b)' = BlockBytes(b)
    BY <1>3, <2>1, GrowsBasics
  <2> QED
    BY <1>1, <2>1, <2>2 DEF BlockBytes
<1>5. StringBlockBytes(local.sb)' = StringBlockBytes(local.sb)
  <2>1. PICK b : b = local.sb
    OBVIOUS
  <2>2. StringBlockBytes(b)' = StringBlockBytes(b)
    BY <1>3, <2>1, GrowsBasics
  <2> QED
    BY <1>1, <2>1, <2>2 DEF StringBlockBytes
<1>6. local.head # 0 => UsedBefore(local.head - 1)' = UsedBefore(local.head - 1)
  <2>1. SUFFICES ASSUME local.head # 0
                 PROVE  UsedBefore(local.head - 1)' = UsedBefore(local.head - 1)
    OBVIOUS
  <2>2. PICK b : b = local.head - 1
    OBVIOUS
  <2>3. b \in 0 .. Len(closed)
    <3>1. Len(closed) = IF blocks = <<>> THEN 0 ELSE Len(blocks) - 1
      BY DEF Accounts
    <3>2. local.head \in 1 .. Len(blocks)
      BY <1>1, <1>3, <2>1
    <3>3. blocks # <<>>
      BY <1>1, <3>2
    <3> QED
      BY <1>1, <2>2, <3>1, <3>2, <3>3
  <2>4. UsedBefore(b)' = UsedBefore(b)
    BY <2>3, GrowsBasics
  <2> QED
    BY <1>1, <2>2, <2>4 DEF UsedBefore
<1>7. ASSUME pc \in {"ptr", "space_used"} PROVE local.head # 0 /\ Knows(view, local.head)'
  <2>1. PICK w, b : w = view /\ b = local.head
    OBVIOUS
  <2>2. Knows(w, b) /\ b # 0
    BY <1>7, <2>1 DEF Reading
  <2>3. b \in 1 .. Len(blocks)
    BY <1>1, <1>3, <2>1, <2>2
  <2>4. Knows(w, b)'
    BY <2>2, <2>3, GrowsKnows
  <2> QED
    BY <1>1, <2>1, <2>2, <2>4 DEF Knows
<1>8. NoStrings' /\ BoundedOverestimate => BoundedOverestimate'
  <2>1. /\ local.sum \in Int /\ BlockBytes(local.head) \in Int
        /\ StringBlockBytes(local.sb) \in Int
    <3>1. local.sum \in Nat
      BY DEF Typed
    <3>2. BlockBytes(local.head) \in Nat
      <4>1. blocks \in Seq(Nat)
        BY DEF Typed
      <4>2. local.head # 0 => blocks[local.head] \in Nat
        BY <1>1, <1>3, <4>1
      <4> QED
        BY <4>2 DEF BlockBytes
    <3>3. StringBlockBytes(local.sb) \in Nat
      <4>1. string_blocks \in Seq(StringBlockType)
        BY DEF Typed
      <4>2. local.sb # 0 => local.sb \in DOMAIN string_blocks
        BY <1>1, <1>3, <4>1
      <4>3. local.sb # 0 => string_blocks[local.sb] \in StringBlockType
        BY <4>1, <4>2
      <4> QED
        BY <4>3 DEF StringBlockBytes, StringBlockType
    <3> QED
      BY <3>1, <3>2, <3>3
  <2>2. Returned' = Returned
    BY <1>1 DEF Returned
  <2>3. /\ given + BlockBytes(local.head) + StringBlockBytes(local.sb)
             <= given' + BlockBytes(local.head) + StringBlockBytes(local.sb)
    BY <1>1, <2>1
  <2> QED
    BY SMTT(30), <1>1, <1>4, <1>5, <2>1, <2>2, <2>3 DEF BoundedOverestimate
<1>9. CountsFullBlocks'
  <2>1. CountsFullBlocks
    BY DEF Reading
  <2> QED
    BY <1>1, <1>2, <1>6, <2>1 DEF CountsFullBlocks, Returned, NoStrings
<1>10. ASSUME NoStrings'
       PROVE  /\ pc \in {"string_block", "head", "ptr"} => local.sum = 0
              /\ pc = "space_used" => /\ local.sum <= blocks'[local.head]
                                      /\ local.head = 1 => Reserved' <= local.sum
              /\ pc = "done" => BoundedOverestimate'
  <2>1. /\ pc \in {"string_block", "head", "ptr"} => local.sum = 0
        /\ pc = "space_used" => /\ local.sum <= blocks[local.head]
                                /\ local.head = 1 => Reserved <= local.sum
        /\ pc = "done" => BoundedOverestimate
    BY <1>2, <1>10 DEF Reading
  <2>2. pc = "space_used" => blocks'[local.head] = blocks[local.head]
    BY <1>1, <1>4, <1>7 DEF BlockBytes
  <2> QED
    BY <1>2, <1>8, <1>10, <2>1, <2>2
<1>11. /\ local.head \in 0 .. Len(blocks') /\ local.sb \in 0 .. Len(string_blocks')
  BY <1>1, <1>3
<1> QED
  BY <1>1, <1>2, <1>7, <1>9, <1>10, <1>11 DEF Reading

(* A call begins well if its stores do, and if it accounts for what it takes *)
LEMMA BeginIInv ==
    ASSUME IInv, Grows, Typed', Planned', Accounts'
    PROVE  IInv'
<1>1. Typed /\ Stores /\ Views /\ Accounts /\ Reading
  BY DEF IInv
<1>2. ASSUME NEW x \in Atomics, NEW i \in DOMAIN hist[x]
      PROVE  Possible(x, hist[x][i].value)'
  <2>1. PICK v : v = hist[x][i].value
    OBVIOUS
  <2>2. Possible(x, v)
    BY <1>1, <2>1 DEF Stores
  <2>3. Possible(x, v)'
    BY <1>1, <2>2, GrowsPossible
  <2> QED
    BY <2>1, <2>3 DEF Grows, Possible
<1>3. Stores'
  BY <1>1, <1>2 DEF Stores, Grows
<1>4. Views' /\ Reading'
  BY <1>1, GrowsViews, GrowsReading
<1>5. QuietReading' /\ FirstBlock'
  BY DEF Grows, QuietReading, IInv, FirstBlock, Value
<1> QED
  BY <1>3, <1>4, <1>5 DEF IInv

LEMMA WordPositive == Word \in Nat /\ Word > 0
<1>1. BlockSize(0, SerialArenaSize) \in Nat /\ BlockSize(0, SerialArenaSize) > 0
  BY LayoutAssumption, SpaceUsedAssumption DEF BlockSize, AllocationSize, LargerOf, SmallerOf
<1> QED
  BY <1>1, SpaceUsedAssumption

LEMMA ModSteps ==
    ASSUME NEW j \in Int, NEW k \in Int, NEW g \in Nat, j % Word = g, g + k \in 0 .. Word - 1
    PROVE  (j + k) % Word = g + k
<1>1. ((j % Word) + k) % Word = (j + k) % Word
  BY WordPositive, ModAdds
<1>2. (g + k) % Word = g + k
  BY WordPositive, SmallMod
<1> QED
  BY <1>1, <1>2

(* The values of the atomics between two calls, and after the next one      *)
LEMMA BetweenCalls ==
    ASSUME Typed, Stores, todo = <<>>, NEW x \in Atomics
    PROVE  Final(x) = Latest(x) /\ Possible(x, Latest(x))
<1>1. Final(x) = Latest(x)
  <2>1. \A i \in DOMAIN todo : todo[i].atomic # x
    OBVIOUS
  <2>2. After(todo, hist, x) = hist[x][Len(hist[x])].value
    BY <2>1, AfterNone
  <2> QED
    BY <2>2 DEF Final, Latest
<1>2. Len(hist[x]) \in DOMAIN hist[x]
  BY DEF Typed, Stores
<1>3. Possible(x, hist[x][Len(hist[x])].value)
  BY <1>2 DEF Stores
<1> QED
  BY <1>1, <1>3 DEF Latest

LEMMA FinalStored ==
    ASSUME NEW t \in Seq(StoreType), todo' = t, NEW x, NEW i, LastStore(t, x, i)
    PROVE  Final(x)' = t[i].value
<1>1. After(t, hist', x) = t[i].value
  BY AfterLast
<1>2. After(todo', hist', x) = t[i].value
  BY <1>1
<1> QED
  BY <1>2 DEF Final

LEMMA FinalKept ==
    ASSUME NEW x \in Atomics, Typed, Stores, todo = <<>>, hist' = hist,
           \A i \in DOMAIN todo' : todo'[i].atomic # x
    PROVE  Final(x)' = Final(x)
<1>1. After(todo', hist', x) = hist'[x][Len(hist'[x])].value
  BY AfterNone
<1>2. Final(x) = hist[x][Len(hist[x])].value
  BY BetweenCalls DEF Latest
<1> QED
  BY <1>1, <1>2 DEF Final

(* What the owner knows when it begins                                      *)
LEMMA OwnerKnows ==
    ASSUME IInv, todo = <<>>
    PROVE  /\ Latest("ptr") \in Pointers
           /\ Latest("ptr").block = Len(blocks) /\ Len(blocks) \in Nat
           /\ Latest("ptr").block > 0 => BlockHeaderSize <= Latest("ptr").offset
           /\ Latest("ptr").block = 1 => Reserved <= Latest("ptr").offset - BlockHeaderSize
           /\ Latest("ptr").offset <= BlockBytes(Len(blocks))
           /\ BlockBytes(Len(blocks)) \in Nat
           /\ Latest("unused") \in 0 .. Word - 1 /\ Latest("unused") % StringSize = 0
           /\ Latest("space_used") \in 0 .. Word - 1
           /\ Latest("head") = Len(blocks) /\ Latest("string_block") = Len(string_blocks)
           /\ \A x \in Atomics : Final(x) = Latest(x)
<1>1. Typed /\ Stores /\ Accounts
  BY DEF IInv
<1>2. \A x \in Atomics : Final(x) = Latest(x) /\ Possible(x, Latest(x))
  BY <1>1, BetweenCalls
<1>3. /\ Possible("ptr", Latest("ptr")) /\ Possible("unused", Latest("unused"))
      /\ Possible("space_used", Latest("space_used"))
  BY <1>2 DEF Atomics
<1>4. /\ Latest("ptr").block = Len(blocks) /\ Latest("head") = Len(blocks)
      /\ Latest("string_block") = Len(string_blocks)
  BY <1>1, <1>2 DEF Accounts, Atomics
<1>5. BlockBytes(Len(blocks)) \in Nat /\ Len(blocks) \in Nat
  <2>1. blocks \in Seq(Nat) /\ Len(blocks) \in Nat
    BY <1>1 DEF Typed
  <2>2. Len(blocks) # 0 => blocks[Len(blocks)] \in Nat
    BY <2>1
  <2> QED
    BY <2>1, <2>2 DEF BlockBytes
<1>6. /\ Latest("ptr") \in Pointers /\ Latest("ptr").offset <= BlockBytes(Latest("ptr").block)
      /\ Latest("ptr").block > 0 => BlockHeaderSize <= Latest("ptr").offset
      /\ Latest("ptr").block = 1 => Reserved <= Latest("ptr").offset - BlockHeaderSize
  BY <1>3 DEF Possible
<1>7. /\ Latest("unused") \in 0 .. Word - 1 /\ Latest("unused") % StringSize = 0
      /\ Latest("space_used") \in 0 .. Word - 1
  BY <1>3 DEF Possible
<1> QED
  BY <1>2, <1>4, <1>5, <1>6, <1>7

(* The owner takes n bytes of the head block                                *)
LEMMA FitsIn ==
    ASSUME IInv, todo = <<>>, NEW n \in Nat, Fits(n)
    PROVE  /\ blocks # <<>> /\ Len(blocks) > 0
           /\ Latest("ptr").offset + n <= BlockBytes(Len(blocks))
<1>1. /\ Latest("ptr") \in Pointers /\ Latest("ptr").block = Len(blocks)
      /\ Len(blocks) \in Nat /\ BlockBytes(Len(blocks)) \in Nat
  BY OwnerKnows
<1>2. /\ Latest("ptr").block > 0
      /\ Latest("ptr").offset + n <= (BlockBytes(Latest("ptr").block) \div 8) * 8
  BY DEF Fits
<1>3. (BlockBytes(Len(blocks)) \div 8) * 8 <= BlockBytes(Len(blocks))
  BY <1>1
<1>4. blocks # <<>>
  BY <1>1, <1>2
<1>5. Latest("ptr").offset \in Nat
  BY <1>1 DEF Pointers
<1> QED
  BY <1>1, <1>2, <1>3, <1>4, <1>5

(* Where the head block has room, bytes can be taken for a value of ptr_    *)
LEMMA BumpPossible ==
    ASSUME IInv, todo = <<>>, NEW n \in Nat, Fits(n)
    PROVE  LET q == BumpPtr(Latest("ptr"), n).value
           IN  /\ BumpPtr(Latest("ptr"), n) \in StoreType
               /\ BumpPtr(Latest("ptr"), n).atomic = "ptr"
               /\ q \in Pointers /\ q.block = Len(blocks)
               /\ q.offset = Latest("ptr").offset + n
               /\ Possible("ptr", q)
<1> DEFINE p == Latest("ptr")
<1> DEFINE q == [p EXCEPT !.offset = @ + n]
<1>1. /\ p \in Pointers /\ p.block = Len(blocks) /\ Len(blocks) \in Nat
      /\ p.block > 0 => BlockHeaderSize <= p.offset
      /\ p.block = 1 => Reserved <= p.offset - BlockHeaderSize
  BY OwnerKnows
<1>2. Len(blocks) > 0 /\ p.offset + n <= BlockBytes(Len(blocks))
  BY FitsIn
<1>3. p.block \in Nat /\ p.offset \in Nat
  BY <1>1 DEF Pointers
<1>4. q \in Pointers /\ q.block = p.block /\ q.offset = p.offset + n
  BY <1>1, <1>3 DEF Pointers
<1>5. BumpPtr(p, n) = [atomic |-> "ptr", value |-> q]
  BY DEF BumpPtr, Store
<1>6. Reserved \in Int
  <2>1. hist["ptr"][1] \in Entry /\ 1 \in DOMAIN hist["ptr"]
    BY SMTT(30) DEF IInv, Typed, Stores, Atomics
  <2>2. Possible("ptr", hist["ptr"][1].value)
    BY <2>1 DEF IInv, Stores, Atomics
  <2>3. hist["ptr"][1].value \in Pointers
    BY <2>2 DEF Possible
  <2> QED
    BY <2>3, LayoutAssumption DEF Reserved, Value, Pointers
<1> HIDE DEF q
<1>7. Possible("ptr", q)
  <2>1. q.offset <= BlockBytes(q.block) /\ q.block <= Len(blocks)
    BY <1>1, <1>2, <1>4
  <2>2. q.block > 0 => BlockHeaderSize <= q.offset
    BY <1>1, <1>3, <1>4, LayoutAssumption
  <2>3. q.block = 1 => Reserved <= q.offset - BlockHeaderSize
    BY <1>1, <1>3, <1>4, <1>6, LayoutAssumption
  <2> QED
    BY <1>4, <2>1, <2>2, <2>3 DEF Possible
<1>8. BumpPtr(p, n) \in StoreType
  BY <1>4, <1>5 DEF StoreType, Atomics
<1>9. BumpPtr(p, n).atomic = "ptr" /\ BumpPtr(p, n).value = q
  BY <1>5
<1> QED
  BY <1>1, <1>4, <1>7, <1>8, <1>9

LEMMA AccountTypes ==
    ASSUME IInv, todo = <<>>
    PROVE  /\ HeadUsed \in Nat /\ StringsUsed \in Int
           /\ Final("unused") \in Nat /\ Final("space_used") \in Nat
           /\ given \in Nat /\ memory \in Nat /\ UsedBeforeHead \in Nat
<1>1. /\ Final("ptr") \in Pointers /\ Final("ptr").block = Len(blocks)
      /\ Final("ptr").block > 0 => BlockHeaderSize <= Final("ptr").offset
      /\ Final("unused") \in Nat /\ Final("space_used") \in Nat
  BY OwnerKnows, WordPositive DEF Atomics
<1>2. HeadUsed \in Nat
  <2>1. blocks # <<>> => Final("ptr").block > 0
    BY <1>1 DEF IInv, Typed
  <2> QED
    BY <1>1, <2>1, LayoutAssumption DEF HeadUsed, Pointers
<1>3. StringsUsed \in Int
  <2>1. string_blocks \in Seq(StringBlockType)
    BY DEF IInv, Typed
  <2>2. ~ NoStrings => string_blocks[Len(string_blocks)] \in StringBlockType
    BY <2>1 DEF NoStrings
  <2>3. ~ NoStrings => EffectiveSize(string_blocks[Len(string_blocks)]) \in Int
    BY <2>2, LayoutAssumption DEF EffectiveSize, StringBlockType
  <2> QED
    BY <1>1, <2>3 DEF StringsUsed
<1>4. given \in Nat /\ memory \in Nat /\ closed \in Seq(Nat)
  BY DEF IInv, Typed
<1>5. UsedBeforeHead \in Nat
  BY <1>4 DEF UsedBeforeHead, UsedBefore
<1> QED
  BY <1>1, <1>2, <1>3, <1>4, <1>5

LEMMA AllocateIInv ==
    ASSUME IInv, NEW n \in Sizes, Allocate(n)
    PROVE  IInv'
<1>1. Typed /\ Stores /\ Accounts /\ n \in Nat /\ todo = <<>> /\ Fits(n)
  BY SpaceUsedAssumption DEF IInv, Allocate, Begins
<1>2. PICK s : s = BumpPtr(Latest("ptr"), n)
  OBVIOUS
<1>3. /\ todo' = <<s>> /\ given' = given + n /\ count' = count + 1 /\ quiet' = FALSE
      /\ UNCHANGED <<blocks, string_blocks, closed, memory, hist, pc, view, local>>
  BY <1>2 DEF Allocate, Begins, reader
<1>4. /\ s \in StoreType /\ s.atomic = "ptr" /\ s.value \in Pointers
      /\ s.value.block = Len(blocks)
      /\ s.value.offset = Latest("ptr").offset + n /\ Possible("ptr", s.value)
  BY <1>1, <1>2, BumpPossible
<1>5. todo' \in Seq(StoreType) /\ DOMAIN todo' = {1} /\ todo'[1] = s
  BY <1>3, <1>4
<1>6. Typed'
  <2>1. given' \in Nat /\ count' \in Nat
    BY <1>1, <1>3 DEF Typed
  <2> QED
    BY <1>1, <1>3, <1>5, <2>1 DEF Typed
<1>7. given \in Nat /\ given <= given'
  BY <1>1, <1>3 DEF Typed
<1>8. Grows
  BY <1>1, <1>3, <1>7 DEF Grows, Typed
<1>9. Possible("ptr", s.value)' /\ Newest("ptr", s.value)'
  <2>1. PICK v : v = s.value
    OBVIOUS
  <2>2. Possible("ptr", v)'
    BY <1>1, <1>4, <1>6, <1>8, <2>1, GrowsPossible
  <2>3. Newest("ptr", v)'
    BY <1>3, <1>4, <2>1 DEF Newest
  <2> QED
    BY <2>1, <2>2, <2>3 DEF Possible, Newest
<1>10. Planned'
  BY <1>4, <1>5, <1>9 DEF Planned, Possible, Newest
<1>11. /\ Final("ptr")' = s.value
       /\ \A x \in Atomics : x # "ptr" => Final(x)' = Final(x)
  <2>1. LastStore(<<s>>, "ptr", 1)
    BY <1>4 DEF LastStore
  <2>2. Final("ptr")' = s.value
    <3>1. <<s>> \in Seq(StoreType)
      BY <1>4
    <3>2. Final("ptr")' = <<s>>[1].value
      BY <1>3, <2>1, <3>1, FinalStored
    <3> QED
      BY <3>2
  <2>3. ASSUME NEW x \in Atomics, x # "ptr" PROVE Final(x)' = Final(x)
    BY <1>1, <1>3, <1>4, <1>5, <2>3, FinalKept
  <2> QED
    BY <2>2, <2>3
<1>12. /\ NoStrings' = NoStrings /\ UsedBeforeHead' = UsedBeforeHead
       /\ StringsUsed' = StringsUsed /\ HeadUsed' = HeadUsed + n
       /\ BlockBytes(Len(blocks))' = BlockBytes(Len(blocks))
       /\ Reserved' = Reserved
  <2>1. NoStrings' = NoStrings /\ UsedBeforeHead' = UsedBeforeHead
    BY <1>3 DEF NoStrings, UsedBeforeHead, UsedBefore
  <2>2. StringsUsed' = StringsUsed
    BY <1>3, <1>11, <2>1 DEF StringsUsed, Atomics
  <2>3. Final("ptr") = Latest("ptr") /\ Latest("ptr").offset \in Nat
    BY <1>1, OwnerKnows DEF Pointers, Atomics
  <2>4. blocks # <<>>
    BY <1>1, FitsIn
  <2>5. HeadUsed' = HeadUsed + n
    BY <1>1, <1>3, <1>4, <1>11, <2>3, <2>4, LayoutAssumption DEF HeadUsed
  <2> QED
    BY <1>3, <2>1, <2>2, <2>5 DEF BlockBytes, Reserved, Value
<1>13. /\ given' + Final("unused")' + (BlockBytes(Len(blocks))' - Final("ptr")'.offset) <= memory'
       /\ given' <= memory'
  <2>1. /\ Final("ptr").offset \in Nat /\ Latest("ptr").offset = Final("ptr").offset
        /\ Final("ptr").offset + n <= BlockBytes(Len(blocks)) /\ BlockBytes(Len(blocks)) \in Nat
    BY <1>1, OwnerKnows, FitsIn DEF Pointers, Atomics
  <2>2. given + Final("unused") + (BlockBytes(Len(blocks)) - Final("ptr").offset) <= memory
    BY <1>1 DEF Accounts
  <2>3. /\ Final("ptr")'.offset = Final("ptr").offset + n /\ Final("unused")' = Final("unused")
        /\ given' = given + n /\ memory' = memory
    BY <1>3, <1>4, <1>11, <2>1 DEF Atomics
  <2>4. Final("unused") \in Nat /\ given \in Nat /\ memory \in Nat
    BY <1>1, AccountTypes
  <2>5. PICK off, all, unused \in Nat : /\ off = Final("ptr").offset
                                        /\ all = BlockBytes(Len(blocks))
                                        /\ unused = Final("unused")
    BY <2>1, <2>4
  <2>6. given + unused + (all - off) <= memory /\ off + n <= all
    BY <2>1, <2>2, <2>5
  <2>7. given + n + unused + (all - (off + n)) <= memory /\ given + n <= memory
    <3>1. given \in Nat /\ memory \in Nat /\ n \in Nat
      BY <1>1, <2>4
    <3> QED
      BY <2>6, <3>1
  <2>8. BlockBytes(Len(blocks))' - Final("ptr")'.offset = all - (off + n)
    BY <1>12, <2>3, <2>5
  <2> QED
    BY <2>3, <2>5, <2>7, <2>8
<1>14. (Final("space_used")' + HeadUsed' + StringsUsed') % Word = given'
  <2>1. (Final("space_used") + HeadUsed + StringsUsed) % Word = given
    BY <1>1 DEF Accounts
  <2>2. /\ Final("space_used") \in Nat /\ HeadUsed \in Nat /\ StringsUsed \in Int
        /\ given \in Nat /\ memory \in Nat
    BY <1>1, AccountTypes
  <2>3. given + n \in 0 .. Word - 1
    <3>1. given + n <= memory /\ 2 * memory < Word
      BY <1>1, <1>3, <1>13 DEF Accounts
    <3> QED
      BY <1>1, <2>2, <3>1, WordPositive
  <2>4. PICK j \in Int : j = Final("space_used") + HeadUsed + StringsUsed
    BY <2>2
  <2>5. (j + n) % Word = given + n
    <3>1. j % Word = given /\ n \in Int
      BY <1>1, <2>1, <2>4
    <3> QED
      BY <2>2, <2>3, <3>1, ModSteps
  <2>6. Final("space_used")' + HeadUsed' + StringsUsed' = j + n
    <3>1. Final("space_used")' = Final("space_used")
      BY <1>11 DEF Atomics
    <3> QED
      BY <1>1, <1>12, <2>2, <2>4, <3>1
  <2> QED
    BY <1>3, <2>5, <2>6
<1>15. Accounts'
  <2>1. /\ Final("head")' = Final("head") /\ Final("string_block")' = Final("string_block")
        /\ Final("unused")' = Final("unused") /\ Final("space_used")' = Final("space_used")
        /\ Final("ptr")'.block = Len(blocks) /\ blocks # <<>>
    BY <1>1, <1>4, <1>11, FitsIn DEF Atomics
  <2>2. NoStrings => given' = UsedBeforeHead' + HeadUsed'
    <3>1. NoStrings => given = UsedBeforeHead + HeadUsed
      BY <1>1 DEF Accounts
    <3>2. UsedBeforeHead \in Nat /\ HeadUsed \in Nat
      BY <1>1, AccountTypes
    <3> QED
      BY <1>1, <1>3, <1>12, <3>1, <3>2
  <2> QED
    BY <1>1, <1>3, <1>12, <1>13, <1>14, <2>1, <2>2 DEF Accounts
<1> QED
  BY <1>6, <1>8, <1>10, <1>15, BeginIInv

(* What the owner stores when it adds a block: the bytes used of the old     *)
(* one, if it was no sentry, then ptr_, head_, and ptr_ again                *)
LEMMA NewBlockStores ==
    ASSUME IInv, NEW n \in Sizes, AllocateInNewBlock(n)
    PROVE  \E acc, f, h, s :
             /\ todo' \in Seq(StoreType)
             /\ blocks = <<>> =>
                  Len(todo') = 3 /\ todo'[1] = f /\ todo'[2] = h /\ todo'[3] = s
             /\ blocks # <<>> =>
                  Len(todo') = 4 /\ todo'[1] = acc /\ todo'[2] = f /\ todo'[3] = h /\ todo'[4] = s
             /\ acc \in StoreType /\ f \in StoreType /\ h \in StoreType /\ s \in StoreType
             /\ acc.atomic = "space_used" /\ f.atomic = "ptr" /\ h.atomic = "head"
             /\ s.atomic = "ptr"
             /\ blocks # <<>> =>
                  acc.value = (Latest("space_used") + (Latest("ptr").offset - BlockHeaderSize)) % Word
             /\ f.value \in Pointers /\ s.value \in Pointers
             /\ f.value.block = Len(blocks) + 1 /\ f.value.offset = BlockHeaderSize
             /\ s.value.block = Len(blocks) + 1 /\ s.value.offset = BlockHeaderSize + n
             /\ h.value = Len(blocks) + 1
<1>1. todo = <<>> /\ n \in Nat
  BY SpaceUsedAssumption DEF AllocateInNewBlock, Begins
<1>2. /\ Latest("ptr") \in Pointers /\ Latest("ptr").block = Len(blocks) /\ Len(blocks) \in Nat
      /\ Latest("space_used") \in 0 .. Word - 1
      /\ Latest("ptr").block > 0 => BlockHeaderSize <= Latest("ptr").offset
  BY <1>1, OwnerKnows
<1> DEFINE used == Latest("ptr").offset - BlockHeaderSize
<1> DEFINE total == (Latest("space_used") + used) % Word
<1> DEFINE fresh == [block |-> Len(blocks) + 1, offset |-> BlockHeaderSize]
<1> DEFINE next == [block |-> Len(blocks) + 1, offset |-> BlockHeaderSize + n]
<1>3. Latest("ptr").block = 0 <=> blocks = <<>>
  BY <1>2 DEF IInv, Typed
<1>4. fresh \in Pointers /\ next \in Pointers /\ BlockHeaderSize \in Nat
  BY <1>1, <1>2, LayoutAssumption DEF Pointers
<1>5. BumpPtr(fresh, n) = Store("ptr", next)
  BY DEF BumpPtr, Store
<1>6. todo' = (IF Latest("ptr").block = 0 THEN <<>> ELSE <<Store("space_used", total)>>)
              \o <<Store("ptr", fresh), Store("head", fresh.block), BumpPtr(fresh, n)>>
  BY DEF AllocateInNewBlock
<1>7. Latest("ptr").offset \in Nat /\ used \in Int /\ Latest("space_used") + used \in Int
  BY <1>2, <1>4, WordPositive DEF Pointers
<1>8. total \in Nat
  <2> HIDE DEF used
  <2>1. total \in 0 .. Word - 1
    BY <1>7, WordPositive, ModRange
  <2> QED
    BY <2>1, WordPositive
<1> DEFINE acc == Store("space_used", total)
<1> DEFINE f == Store("ptr", fresh)
<1> DEFINE h == Store("head", fresh.block)
<1> DEFINE s == Store("ptr", next)
<1>9. acc \in StoreType /\ acc.atomic = "space_used" /\ acc.value = total
  <2> HIDE DEF total
  <2> QED
    BY <1>8 DEF Store, StoreType, Atomics
<1>10. /\ f \in StoreType /\ f.atomic = "ptr" /\ f.value = fresh
       /\ s \in StoreType /\ s.atomic = "ptr" /\ s.value = next
  <2> HIDE DEF fresh, next
  <2> QED
    BY <1>4 DEF Store, StoreType, Atomics
<1>11. h \in StoreType /\ h.atomic = "head" /\ h.value = Len(blocks) + 1
  BY <1>2 DEF Store, StoreType, Atomics
<1>12. /\ todo' \in Seq(StoreType)
       /\ blocks = <<>> =>
            Len(todo') = 3 /\ todo'[1] = f /\ todo'[2] = h /\ todo'[3] = s
       /\ blocks # <<>> =>
            Len(todo') = 4 /\ todo'[1] = acc /\ todo'[2] = f /\ todo'[3] = h /\ todo'[4] = s
  <2> HIDE DEF acc, f, h, s, total, fresh, next
  <2>1. PICK one : one = IF blocks = <<>> THEN <<>> ELSE <<acc>>
    OBVIOUS
  <2>2. PICK rest : rest = <<f, h, s>>
    OBVIOUS
  <2>3. todo' = one \o rest
    BY <1>3, <1>5, <1>6, <2>1, <2>2 DEF acc, f, h, s
  <2>4. one \in Seq(StoreType) /\ Len(one) = (IF blocks = <<>> THEN 0 ELSE 1)
        /\ (blocks # <<>> => one[1] = acc)
    BY <1>9, <2>1
  <2>5. rest \in Seq(StoreType) /\ Len(rest) = 3 /\ rest[1] = f /\ rest[2] = h /\ rest[3] = s
    BY <1>10, <1>11, <2>2
  <2>6. /\ one \o rest \in Seq(StoreType) /\ Len(one \o rest) = Len(one) + Len(rest)
        /\ \A i \in 1 .. Len(one) + Len(rest) :
             (one \o rest)[i] = IF i <= Len(one) THEN one[i] ELSE rest[i - Len(one)]
    <3>1. one \in Seq(StoreType) /\ rest \in Seq(StoreType)
      BY <2>4, <2>5
    <3> QED
      BY <3>1, ConcatProperties
  <2>7. PICK c : c = one \o rest
    OBVIOUS
  <2>8. /\ c \in Seq(StoreType) /\ Len(c) = Len(one) + Len(rest)
        /\ \A i \in 1 .. Len(one) + Len(rest) :
             c[i] = IF i <= Len(one) THEN one[i] ELSE rest[i - Len(one)]
    BY <2>6, <2>7
  <2>9. todo' = c
    BY <2>3, <2>7
  <2>10. CASE blocks = <<>>
    <3>1. Len(one) = 0 /\ Len(rest) = 3
      BY <2>4, <2>5, <2>10
    <3>2. c[1] = rest[1] /\ c[2] = rest[2] /\ c[3] = rest[3] /\ Len(c) = 3
      BY <2>8, <3>1
    <3> QED
      BY <2>5, <2>8, <2>9, <2>10, <3>2
  <2>11. CASE blocks # <<>>
    <3>1. Len(one) = 1 /\ Len(rest) = 3 /\ one[1] = acc
      BY <2>4, <2>5, <2>11
    <3>2. c[1] = one[1] /\ c[2] = rest[1] /\ c[3] = rest[2] /\ c[4] = rest[3] /\ Len(c) = 4
      BY <2>8, <3>1
    <3> QED
      BY <2>5, <2>8, <2>9, <2>11, <3>1, <3>2
  <2> QED
    BY <2>8, <2>9, <2>10, <2>11
<1>13. /\ fresh.block = Len(blocks) + 1 /\ fresh.offset = BlockHeaderSize
       /\ next.block = Len(blocks) + 1 /\ next.offset = BlockHeaderSize + n
  OBVIOUS
<1> HIDE DEF acc, f, h, s, fresh, next
<1>14. f.value \in Pointers /\ f.value.block = Len(blocks) + 1 /\ f.value.offset = BlockHeaderSize
  BY <1>4, <1>10, <1>13
<1>15. s.value \in Pointers /\ s.value.block = Len(blocks) + 1 /\ s.value.offset = BlockHeaderSize + n
  BY <1>4, <1>10, <1>13
<1> QED
  BY <1>9, <1>10, <1>11, <1>12, <1>14, <1>15

LEMMA ReservedFacts ==
    ASSUME IInv
    PROVE  Reserved \in Nat /\ (blocks = <<>> => Reserved = 0)
<1>1. hist["ptr"] \in Seq(Entry) /\ 1 \in DOMAIN hist["ptr"]
  BY SMTT(30) DEF IInv, Typed, Stores, Atomics
<1>2. Possible("ptr", hist["ptr"][1].value)
  BY <1>1 DEF IInv, Stores, Atomics
<1>3. PICK p : p = hist["ptr"][1].value
  OBVIOUS
<1>4. p \in Pointers /\ p.block <= Len(blocks) /\ (p.block > 0 => BlockHeaderSize <= p.offset)
  BY <1>2, <1>3 DEF Possible
<1>5. Reserved = IF p.block = 0 THEN 0 ELSE p.offset - BlockHeaderSize
  BY <1>3 DEF Reserved, Value
<1>6. blocks = <<>> => Len(blocks) = 0
  OBVIOUS
<1> QED
  BY <1>4, <1>5, <1>6, LayoutAssumption DEF Pointers

LEMMA NewBlockClosed ==
    ASSUME IInv, NEW n \in Sizes, AllocateInNewBlock(n)
    PROVE  /\ closed' \in Seq(Nat)
           /\ Len(closed') = Len(blocks)
           /\ Len(closed) <= Len(closed') /\ \A b \in DOMAIN closed : closed'[b] = closed[b]
           /\ UsedBeforeHead' = UsedBeforeHead + HeadUsed
           /\ \A b, c \in DOMAIN closed' : b <= c => closed'[b] <= closed'[c]
           /\ closed' # <<>> => Reserved <= closed'[1]
<1>1. /\ todo = <<>> /\ closed \in Seq(Nat) /\ Len(closed) \in Nat
      /\ Len(closed) = IF blocks = <<>> THEN 0 ELSE Len(blocks) - 1
      /\ \A b, c \in DOMAIN closed : b <= c => closed[b] <= closed[c]
      /\ closed # <<>> => Reserved <= closed[1]
  BY DEF AllocateInNewBlock, Begins, IInv, Typed, Accounts
<1>2. /\ Latest("ptr").block = Len(blocks) /\ Len(blocks) \in Nat
      /\ Latest("ptr").block = 1 => Reserved <= Latest("ptr").offset - BlockHeaderSize
      /\ Final("ptr") = Latest("ptr")
      /\ HeadUsed \in Nat /\ UsedBeforeHead \in Nat
  BY <1>1, OwnerKnows, AccountTypes DEF Atomics
<1>3. blocks = <<>> <=> Len(blocks) = 0
  BY <1>2 DEF IInv, Typed
<1>4. CASE blocks = <<>>
  <2>1. closed' = closed /\ closed = <<>> /\ HeadUsed = 0
    BY <1>1, <1>2, <1>3, <1>4 DEF AllocateInNewBlock, HeadUsed
  <2> QED
    BY <1>1, <1>2, <1>3, <1>4, <2>1 DEF UsedBeforeHead, UsedBefore
<1>5. CASE blocks # <<>>
  <2>1. HeadUsed = Latest("ptr").offset - BlockHeaderSize
    BY <1>2, <1>5 DEF HeadUsed
  <2>2. closed' = Append(closed, UsedBeforeHead + HeadUsed)
    BY <1>2, <1>3, <1>5, <2>1 DEF AllocateInNewBlock, UsedBeforeHead
  <2>3. PICK u : u = UsedBeforeHead + HeadUsed
    OBVIOUS
  <2>4. u \in Nat /\ closed' = Append(closed, u)
    BY <1>2, <2>2, <2>3
  <2>5. /\ closed' \in Seq(Nat) /\ Len(closed') = Len(closed) + 1
        /\ DOMAIN closed' = 1 .. Len(closed) + 1 /\ DOMAIN closed = 1 .. Len(closed)
        /\ closed'[Len(closed) + 1] = u
        /\ \A b \in 1 .. Len(closed) : closed'[b] = closed[b] /\ closed[b] \in Nat
    BY <1>1, <2>4
  <2>6. UsedBeforeHead' = u
    BY <1>1, <2>5 DEF UsedBeforeHead, UsedBefore
  <2>7. ASSUME NEW b \in DOMAIN closed PROVE closed[b] <= u
    <3>1. Len(closed) \in DOMAIN closed /\ b <= Len(closed)
      BY <1>1, <2>5, <2>7
    <3>2. closed[b] <= closed[Len(closed)]
      BY <1>1, <3>1
    <3>3. closed[Len(closed)] = UsedBeforeHead
      <4>1. Len(closed) # 0
        <5>1. b \in 1 .. Len(closed)
          BY <2>5, <2>7
        <5>2. Len(closed) \in Nat
          BY <1>1
        <5> QED
          BY <5>1, <5>2
      <4> QED
        BY <4>1 DEF UsedBeforeHead, UsedBefore
    <3> QED
      BY <1>2, <2>3, <2>5, <2>7, <3>1, <3>2, <3>3
  <2>8. ASSUME NEW b \in DOMAIN closed', NEW c \in DOMAIN closed', b <= c
        PROVE  closed'[b] <= closed'[c]
    <3>1. CASE c \in DOMAIN closed
      <4>1. b \in DOMAIN closed
        BY <1>1, <2>5, <2>8, <3>1
      <4>2. closed[b] <= closed[c]
        BY <1>1, <2>8, <3>1, <4>1
      <4>3. closed'[b] = closed[b] /\ closed'[c] = closed[c]
        BY <2>5, <3>1, <4>1
      <4> QED
        BY <4>2, <4>3
    <3>2. CASE c = Len(closed) + 1 /\ b \in DOMAIN closed
      BY <2>5, <2>7, <3>2
    <3>3. CASE c = Len(closed) + 1 /\ b = Len(closed) + 1
      BY <2>4, <2>5, <3>3
    <3> QED
      BY <1>1, <2>5, <2>8, <3>1, <3>2, <3>3
  <2>9. Reserved <= closed'[1]
    <3>1. CASE closed # <<>>
      BY <1>1, <2>5, <3>1
    <3>2. CASE closed = <<>>
      <4>1. Len(closed) = 0 /\ Latest("ptr").block = 1
        BY <1>1, <1>2, <1>3, <1>5, <3>2
      <4>2. UsedBeforeHead = 0 /\ closed'[1] = u
        BY <2>5, <4>1 DEF UsedBeforeHead, UsedBefore
      <4> QED
        BY <1>2, <2>1, <2>3, <4>1, <4>2
    <3> QED
      BY <3>1, <3>2
  <2> QED
    BY <1>1, <1>2, <1>3, <1>5, <2>3, <2>5, <2>6, <2>8, <2>9
<1> QED
  BY <1>4, <1>5

LEMMA NewBlockIInv ==
    ASSUME IInv, NEW n \in Sizes, AllocateInNewBlock(n)
    PROVE  IInv'
<1>1. Typed /\ Stores /\ Accounts /\ n \in Nat /\ todo = <<>>
  BY SpaceUsedAssumption DEF IInv, AllocateInNewBlock, Begins
<1>2. PICK size : size = BlockSize(BlockBytes(Len(blocks)), n)
  OBVIOUS
<1>3. /\ Latest("ptr") \in Pointers /\ Latest("ptr").block = Len(blocks) /\ Len(blocks) \in Nat
      /\ BlockBytes(Len(blocks)) \in Nat
      /\ Latest("ptr").offset <= BlockBytes(Len(blocks))
      /\ Latest("space_used") \in 0 .. Word - 1
      /\ \A x \in Atomics : Final(x) = Latest(x)
  BY <1>1, OwnerKnows
<1>4. /\ blocks' = Append(blocks, size) /\ given' = given + n /\ count' = count + 1
      /\ memory' = memory + size /\ 2 * (memory + size) < Word /\ quiet' = FALSE
      /\ UNCHANGED <<string_blocks, hist, pc, view, local>>
  BY <1>2, <1>3 DEF AllocateInNewBlock, Begins, Obtain, reader
<1>5. size \in Nat /\ BlockHeaderSize + n <= size /\ BlockHeaderSize \in Nat
  BY <1>1, <1>2, <1>3, BlockSizes, LayoutAssumption
<1>6. PICK acc, f, h, s :
             /\ todo' \in Seq(StoreType)
             /\ blocks = <<>> =>
                  Len(todo') = 3 /\ todo'[1] = f /\ todo'[2] = h /\ todo'[3] = s
             /\ blocks # <<>> =>
                  Len(todo') = 4 /\ todo'[1] = acc /\ todo'[2] = f /\ todo'[3] = h /\ todo'[4] = s
             /\ acc \in StoreType /\ f \in StoreType /\ h \in StoreType /\ s \in StoreType
             /\ acc.atomic = "space_used" /\ f.atomic = "ptr" /\ h.atomic = "head"
             /\ s.atomic = "ptr"
             /\ blocks # <<>> =>
                  acc.value = (Latest("space_used") + (Latest("ptr").offset - BlockHeaderSize)) % Word
             /\ f.value \in Pointers /\ s.value \in Pointers
             /\ f.value.block = Len(blocks) + 1 /\ f.value.offset = BlockHeaderSize
             /\ s.value.block = Len(blocks) + 1 /\ s.value.offset = BlockHeaderSize + n
             /\ h.value = Len(blocks) + 1
  BY NewBlockStores
<1>7. /\ closed' \in Seq(Nat) /\ Len(closed') = Len(blocks)
      /\ Len(closed) <= Len(closed') /\ \A b \in DOMAIN closed : closed'[b] = closed[b]
      /\ UsedBeforeHead' = UsedBeforeHead + HeadUsed
      /\ \A b, c \in DOMAIN closed' : b <= c => closed'[b] <= closed'[c]
      /\ closed' # <<>> => Reserved <= closed'[1]
  BY NewBlockClosed
<1>8. /\ blocks' \in Seq(Nat) /\ Len(blocks') = Len(blocks) + 1 /\ blocks' # <<>>
      /\ blocks'[Len(blocks) + 1] = size
      /\ \A b \in DOMAIN blocks : blocks'[b] = blocks[b]
      /\ \A b \in DOMAIN blocks' : b \in DOMAIN blocks \/ b = Len(blocks) + 1
      /\ blocks = <<>> <=> Len(blocks) = 0
  <2>1. blocks \in Seq(Nat)
    BY <1>1 DEF Typed
  <2>2. blocks' = Append(blocks, size) /\ size \in Nat
    BY <1>4, <1>5
  <2>3. /\ blocks' \in Seq(Nat) /\ Len(blocks') = Len(blocks) + 1
        /\ blocks'[Len(blocks) + 1] = size
        /\ \A b \in DOMAIN blocks : blocks'[b] = blocks[b]
    BY <2>1, <2>2
  <2> QED
    BY <2>1, <2>3
<1>9. /\ HeadUsed \in Nat /\ StringsUsed \in Int /\ given \in Nat /\ memory \in Nat
      /\ Final("unused") \in Nat /\ Final("space_used") \in Nat /\ UsedBeforeHead \in Nat
  BY <1>1, AccountTypes
<1>10. Typed'
  <2>1. given' \in Nat /\ count' \in Nat /\ memory' \in Nat
    BY <1>1, <1>4, <1>5, <1>9 DEF Typed
  <2> QED
    BY <1>1, <1>4, <1>6, <1>7, <1>8, <2>1 DEF Typed
<1>11. Grows
  <2>1. given <= given' /\ Len(blocks) <= Len(blocks')
    BY <1>1, <1>3, <1>4, <1>8, <1>9
  <2>2. /\ Len(string_blocks) <= Len(string_blocks')
        /\ \A b \in DOMAIN string_blocks : string_blocks'[b] = string_blocks[b]
    BY <1>1, <1>4 DEF Typed
  <2> QED
    BY <1>1, <1>4, <1>7, <1>8, <2>1, <2>2 DEF Grows
<1>12. /\ BlockBytes(Len(blocks))' = size /\ Reserved' = Reserved /\ NoStrings' = NoStrings
       /\ Reserved \in Nat /\ (blocks = <<>> => Reserved = 0)
  <2>1. Len(blocks') # 0 /\ blocks'[Len(blocks')] = size
    BY <1>3, <1>8
  <2>2. BlockBytes(Len(blocks))' = size
    BY <2>1 DEF BlockBytes
  <2>3. Reserved' = Reserved /\ NoStrings' = NoStrings
    BY <1>4 DEF Reserved, Value, NoStrings
  <2> QED
    BY <2>2, <2>3, ReservedFacts
<1>13. \A i \in DOMAIN todo' : todo'[i] \in {acc, f, h, s}
  BY <1>6
<1>14. \A i \in DOMAIN todo' : todo'[i] = acc => blocks # <<>>
  <2>1. acc # f /\ acc # h /\ acc # s
    BY <1>6
  <2> QED
    BY <1>6, <2>1
<1>15. ASSUME NEW v, v \in {f.value, s.value} PROVE Possible("ptr", v)' /\ Newest("ptr", v)'
  <2>1. v \in Pointers /\ v.block = Len(blocks')
    BY <1>6, <1>8, <1>15
  <2>2. BlockHeaderSize <= v.offset /\ v.offset <= BlockBytes(Len(blocks))'
    BY <1>1, <1>5, <1>6, <1>12, <1>15
  <2>3. v.block = 1 => Reserved' <= v.offset - BlockHeaderSize
    <3>1. v.block = 1 => blocks = <<>>
      BY <1>3, <1>8, <2>1
    <3> QED
      BY <1>5, <1>12, <2>1, <2>2, <3>1 DEF Pointers
  <2>4. v.block <= Len(blocks') /\ v.offset <= BlockBytes(v.block)'
    <3>1. PICK b : b = v.block
      OBVIOUS
    <3>2. BlockBytes(b)' = BlockBytes(Len(blocks))'
      BY <2>1, <3>1 DEF BlockBytes
    <3> QED
      BY <1>3, <1>8, <2>1, <2>2, <3>1, <3>2 DEF BlockBytes
  <2> QED
    BY <2>1, <2>2, <2>3, <2>4 DEF Possible, Newest
<1>16. Possible("head", h.value)' /\ Newest("head", h.value)'
  BY <1>3, <1>6, <1>8 DEF Possible, Newest
<1>17. HeadUsed = IF blocks = <<>> THEN 0 ELSE Latest("ptr").offset - BlockHeaderSize
  BY <1>3 DEF HeadUsed, Atomics
<1>18. ASSUME blocks # <<>>
       PROVE  /\ acc.value = (Final("space_used") + HeadUsed) % Word
              /\ acc.value \in 0 .. Word - 1
  <2>1. Final("space_used") = Latest("space_used")
    BY <1>3 DEF Atomics
  <2>2. acc.value = (Final("space_used") + HeadUsed) % Word
    BY <1>6, <1>17, <1>18, <2>1
  <2>3. Final("space_used") + HeadUsed \in Int
    BY <1>9
  <2> QED
    BY <2>2, <2>3, WordPositive, ModRange
<1>19. NoStrings => /\ Final("space_used") = UsedBeforeHead /\ given = UsedBeforeHead + HeadUsed
                    /\ UsedBeforeHead' = given
  BY <1>1, <1>7 DEF Accounts
<1>20. given \in 0 .. Word - 1 /\ given + n \in 0 .. Word - 1
  <2>1. given + Final("unused") + (BlockBytes(Len(blocks)) - Final("ptr").offset) <= memory
    BY <1>1 DEF Accounts
  <2>2. Final("ptr") = Latest("ptr") /\ Latest("ptr").offset \in Nat
    BY <1>3 DEF Atomics, Pointers
  <2>3. given <= memory
    BY <1>3, <1>9, <2>1, <2>2
  <2> QED
    BY <1>1, <1>4, <1>5, <1>9, <2>3, WordPositive
<1>21. ASSUME blocks # <<>>
       PROVE  Possible("space_used", acc.value)' /\ Newest("space_used", acc.value)'
  <2>1. NoStrings => acc.value = given
    <3>1. NoStrings => acc.value = given % Word
      BY <1>18, <1>19, <1>21
    <3>2. given % Word = given
      BY <1>20, WordPositive, SmallMod
    <3> QED
      BY <3>1, <3>2
  <2>2. NoStrings' => acc.value <= given' /\ acc.value = UsedBeforeHead'
    BY <1>1, <1>4, <1>9, <1>12, <1>19, <2>1
  <2> QED
    BY <1>18, <1>21, <2>2 DEF Possible, Newest
<1>22. ASSUME NEW i \in DOMAIN todo', todo'[i].atomic = "head"
       PROVE  StoredBefore("ptr", i)' /\ StoredBefore("space_used", i)'
  <2>1. DOMAIN todo' = 1 .. Len(todo')
    BY <1>6
  <2>2. CASE blocks = <<>>
    <3>1. i = 2 /\ 1 \in DOMAIN todo' /\ todo'[1].atomic = "ptr"
      BY <1>6, <1>22, <2>1, <2>2
    <3>2. StoredBefore("ptr", i)'
      BY <3>1 DEF StoredBefore
    <3>3. NoStrings' => Latest("space_used")' = UsedBeforeHead'
      <4>1. Latest("space_used")' = Latest("space_used") /\ Latest("space_used") = Final("space_used")
        BY <1>3, <1>4 DEF Latest, Atomics
      <4> QED
        BY <1>7, <1>9, <1>12, <1>17, <1>19, <2>2, <4>1
    <3>4. StoredBefore("space_used", i)'
      BY <3>3 DEF StoredBefore, Newest
    <3> QED
      BY <3>2, <3>4
  <2>3. CASE blocks # <<>>
    <3>1. /\ i = 3 /\ 1 \in DOMAIN todo' /\ todo'[1].atomic = "space_used"
          /\ 2 \in DOMAIN todo' /\ todo'[2].atomic = "ptr"
      BY <1>6, <1>22, <2>1, <2>3
    <3> QED
      BY <3>1 DEF StoredBefore
  <2> QED
    BY <2>2, <2>3
<1>23. Planned'
  <2>1. ASSUME NEW i \in DOMAIN todo'
        PROVE  (Possible(todo[i].atomic, todo[i].value) /\ Newest(todo[i].atomic, todo[i].value))'
    <3>1. PICK x, v : x = todo'[i].atomic /\ v = todo'[i].value
      OBVIOUS
    <3>2. Possible(x, v)' /\ Newest(x, v)'
      <4>1. CASE todo'[i] \in {f, s}
        BY <1>6, <1>15, <3>1, <4>1
      <4>2. CASE todo'[i] = h
        <5>1. x = "head" /\ v = h.value
          BY <1>6, <3>1, <4>2
        <5> QED
          BY <1>16, <5>1 DEF Possible, Newest
      <4>3. CASE todo'[i] = acc
        <5>1. x = "space_used" /\ v = acc.value /\ blocks # <<>>
          BY <1>6, <1>14, <2>1, <3>1, <4>3
        <5> QED
          BY <1>21, <5>1 DEF Possible, Newest
      <4> QED
        BY <1>13, <2>1, <4>1, <4>2, <4>3
    <3> QED
      BY <3>1, <3>2 DEF Possible, Newest
  <2> QED
    BY <1>22, <2>1 DEF Planned
<1>24. /\ Final("ptr")' = s.value /\ Final("head")' = Len(blocks')
       /\ Final("string_block")' = Final("string_block") /\ Final("unused")' = Final("unused")
       /\ Final("space_used")' = IF blocks = <<>> THEN Final("space_used") ELSE acc.value
  <2>1. PICK t : t = todo'
    OBVIOUS
  <2>2. t \in Seq(StoreType) /\ DOMAIN t = 1 .. Len(t)
    BY <1>6, <2>1
  <2>3. hist' = hist
    BY <1>4
  <2>4. /\ Final("string_block")' = Final("string_block") /\ Final("unused")' = Final("unused")
    <3>1. \A i \in DOMAIN todo' : todo'[i].atomic # "string_block" /\ todo'[i].atomic # "unused"
      BY <1>6, <1>13
    <3> QED
      BY <1>1, <2>3, <3>1, FinalKept DEF Atomics
  <2>5. CASE blocks = <<>>
    <3>1. Len(t) = 3 /\ t[1] = f /\ t[2] = h /\ t[3] = s
      BY <1>6, <2>1, <2>5
    <3>2. LastStore(t, "ptr", 3) /\ LastStore(t, "head", 2)
      BY <1>6, <2>2, <3>1 DEF LastStore
    <3>3. Final("ptr")' = t[3].value /\ Final("head")' = t[2].value
      BY <2>1, <2>2, <3>2, FinalStored
    <3>4. \A i \in DOMAIN todo' : todo'[i].atomic # "space_used"
      BY <1>6, <2>1, <2>2, <3>1
    <3>5. Final("space_used")' = Final("space_used")
      BY <1>1, <2>3, <3>4, FinalKept DEF Atomics
    <3> QED
      BY <1>6, <1>8, <2>4, <2>5, <3>1, <3>3, <3>5
  <2>6. CASE blocks # <<>>
    <3>1. Len(t) = 4 /\ t[1] = acc /\ t[2] = f /\ t[3] = h /\ t[4] = s
      BY <1>6, <2>1, <2>6
    <3>2. LastStore(t, "ptr", 4) /\ LastStore(t, "head", 3) /\ LastStore(t, "space_used", 1)
      BY <1>6, <2>2, <3>1 DEF LastStore
    <3>3. /\ Final("ptr")' = t[4].value /\ Final("head")' = t[3].value
          /\ Final("space_used")' = t[1].value
      BY <2>1, <2>2, <3>2, FinalStored
    <3> QED
      BY <1>6, <1>8, <2>4, <2>6, <3>1, <3>3
  <2> QED
    BY <2>5, <2>6
<1>25. HeadUsed' = n /\ StringsUsed' = StringsUsed
  <2>1. HeadUsed' = Final("ptr")'.offset - BlockHeaderSize
    BY <1>8 DEF HeadUsed
  <2>2. HeadUsed' = n
    BY <1>1, <1>5, <1>6, <1>24, <2>1
  <2>3. StringsUsed' = StringsUsed
    BY <1>4, <1>12, <1>24 DEF StringsUsed
  <2> QED
    BY <2>2, <2>3
<1>26. (Final("space_used")' + HeadUsed' + StringsUsed') % Word = given'
  <2>1. PICK a \in Int : a = Final("space_used") + HeadUsed
    BY <1>9
  <2>2. PICK b \in Int : b = StringsUsed
    BY <1>9
  <2>3. (a + b) % Word = given
    BY <1>1, <2>1, <2>2 DEF Accounts
  <2>4. PICK c \in Int : c = a + b
    BY <2>1, <2>2
  <2>5. (c + n) % Word = given + n
    <3>1. c % Word = given /\ n \in Int
      BY <1>1, <2>3, <2>4
    <3> QED
      BY <1>9, <1>20, <3>1, ModSteps
  <2>6. CASE blocks = <<>>
    <3>1. Final("space_used")' + HeadUsed' + StringsUsed' = c + n
      BY <1>1, <1>9, <1>17, <1>24, <1>25, <2>1, <2>2, <2>4, <2>6
    <3> QED
      BY <1>4, <2>5, <3>1
  <2>7. CASE blocks # <<>>
    <3>1. PICK d \in Int : d = b + n
      BY <1>1, <2>2
    <3>2. ((a % Word) + d) % Word = (a + d) % Word
      BY <2>1, <3>1, WordPositive, ModAdds
    <3>3. a + d = c + n
      BY <1>1, <2>1, <2>2, <2>4, <3>1
    <3>4. Final("space_used")' = a % Word /\ a % Word \in Int
      BY <1>18, <1>24, <2>1, <2>7
    <3>5. Final("space_used")' + HeadUsed' + StringsUsed' = (a % Word) + d
      BY <1>1, <1>25, <2>2, <3>1, <3>4
    <3> QED
      BY <1>4, <2>5, <3>2, <3>3, <3>5
  <2> QED
    BY <2>6, <2>7
<1>27. given' + Final("unused")' + (BlockBytes(Len(blocks))' - Final("ptr")'.offset) <= memory'
  <2>1. given + Final("unused") + (BlockBytes(Len(blocks)) - Final("ptr").offset) <= memory
    BY <1>1 DEF Accounts
  <2>2. Final("ptr") = Latest("ptr") /\ Latest("ptr").offset \in Nat
    BY <1>3 DEF Atomics, Pointers
  <2>3. given + Final("unused") <= memory
    BY <1>3, <1>9, <2>1, <2>2
  <2>4. Final("ptr")'.offset = BlockHeaderSize + n
    BY <1>6, <1>24
  <2> QED
    BY SMTT(30), <1>1, <1>4, <1>5, <1>9, <1>12, <1>24, <2>3, <2>4
<1>28. NoStrings' => /\ Final("space_used")' = UsedBeforeHead'
                     /\ given' = UsedBeforeHead' + HeadUsed'
  <2>1. blocks = <<>> => HeadUsed = 0
    BY <1>17
  <2>2. NoStrings /\ blocks # <<>> => Final("space_used")' = given
    <3>1. SUFFICES ASSUME NoStrings, blocks # <<>> PROVE Final("space_used")' = given
      OBVIOUS
    <3>2. Final("space_used")' = given % Word
      BY <1>18, <1>19, <1>24, <3>1
    <3> QED
      BY <1>20, <3>2, WordPositive, SmallMod
  <2> QED
    BY <1>1, <1>4, <1>9, <1>12, <1>19, <1>24, <1>25, <2>1, <2>2
<1>29. \A b \in DOMAIN blocks' : blocks'[b] <= memory'
  <2>1. \A b \in DOMAIN blocks : blocks[b] <= memory /\ blocks[b] \in Nat
    <3>1. blocks \in Seq(Nat)
      BY <1>1 DEF Typed
    <3>2. \A b \in DOMAIN blocks : blocks[b] <= memory
      BY <1>1 DEF Accounts
    <3> QED
      BY <3>1, <3>2
  <2> QED
    BY SMTT(30), <1>4, <1>5, <1>8, <1>9, <2>1
<1>30. Accounts'
  <2>1. Len(closed') = IF blocks' = <<>> THEN 0 ELSE Len(blocks') - 1
    BY <1>3, <1>7, <1>8
  <2>2. /\ \A i \in DOMAIN string_blocks :
             /\ StringMinSize <= string_blocks[i].next_size
             /\ StringSize <= EffectiveSize(string_blocks[i])
             /\ EffectiveSize(string_blocks[i]) % StringSize = 0
        /\ Final("string_block") = Len(string_blocks)
        /\ NoStrings => Final("unused") = 0
    BY <1>1 DEF Accounts
  <2>3. Final("ptr")'.block = Len(blocks')
    BY <1>6, <1>8, <1>24
  <2> QED
    BY <1>4, <1>7, <1>8, <1>12, <1>24, <1>26, <1>27, <1>28, <1>29, <2>1, <2>2, <2>3 DEF Accounts
<1> QED
  BY <1>10, <1>11, <1>23, <1>30, BeginIInv

LEMMA AllocateStringIInv ==
    ASSUME IInv, AllocateString
    PROVE  IInv'
<1>1. Typed /\ Stores /\ Accounts /\ todo = <<>> /\ Latest("unused") # 0
  BY DEF IInv, AllocateString, Begins
<1>2. PICK u : u = Latest("unused")
  OBVIOUS
<1>3. PICK s : s = Store("unused", u - StringSize)
  OBVIOUS
<1>4. /\ todo' = <<s>> /\ given' = given + StringSize /\ count' = count + 1 /\ quiet' = FALSE
      /\ UNCHANGED <<blocks, string_blocks, closed, memory, hist, pc, view, local>>
  BY <1>2, <1>3 DEF AllocateString, Begins, reader
<1>5. /\ u \in 0 .. Word - 1 /\ u % StringSize = 0 /\ u = Final("unused") /\ u # 0
      /\ StringSize \in Nat /\ StringSize > 0
  BY <1>1, <1>2, OwnerKnows, LayoutAssumption DEF Atomics
<1>6. StringSize <= u /\ (u - StringSize) % StringSize = 0
  <2>1. u \in Nat
    BY <1>5, WordPositive
  <2> QED
    BY <1>5, <2>1, MultipleBelow
<1>7. u - StringSize \in 0 .. Word - 1
  BY <1>5, <1>6, WordPositive
<1>8. s.atomic = "unused" /\ s.value = u - StringSize /\ s \in StoreType
  BY <1>3, <1>7, WordPositive DEF Store, StoreType, Atomics
<1>9. todo' \in Seq(StoreType) /\ DOMAIN todo' = {1} /\ todo'[1] = s
  BY <1>4, <1>8
<1>10. /\ HeadUsed \in Nat /\ StringsUsed \in Int /\ given \in Nat /\ memory \in Nat
       /\ Final("space_used") \in Nat /\ UsedBeforeHead \in Nat
  BY <1>1, AccountTypes
<1>11. ~ NoStrings
  BY <1>1, <1>5 DEF Accounts
<1>12. Typed'
  <2>1. given' \in Nat /\ count' \in Nat
    BY <1>1, <1>4, <1>5 DEF Typed
  <2> QED
    BY <1>1, <1>4, <1>9, <2>1 DEF Typed
<1>13. Grows
  <2>1. given <= given'
    BY <1>4, <1>5, <1>10
  <2> QED
    BY <1>1, <1>4, <2>1 DEF Grows, Typed
<1>14. Possible("unused", s.value)' /\ Newest("unused", s.value)'
  BY <1>6, <1>7, <1>8 DEF Possible, Newest
<1>15. Planned'
  BY <1>8, <1>9, <1>14 DEF Planned, Possible, Newest
<1>16. /\ Final("unused")' = u - StringSize
       /\ \A x \in Atomics : x # "unused" => Final(x)' = Final(x)
  <2>1. LastStore(<<s>>, "unused", 1)
    BY <1>8 DEF LastStore
  <2>2. Final("unused")' = s.value
    <3>1. <<s>> \in Seq(StoreType)
      BY <1>8
    <3>2. Final("unused")' = <<s>>[1].value
      BY <1>4, <2>1, <3>1, FinalStored
    <3> QED
      BY <3>2
  <2>3. ASSUME NEW x \in Atomics, x # "unused" PROVE Final(x)' = Final(x)
    BY <1>1, <1>4, <1>8, <1>9, <2>3, FinalKept
  <2> QED
    BY <1>8, <2>2, <2>3
<1>17. /\ ~ NoStrings' /\ HeadUsed' = HeadUsed
       /\ StringsUsed' = StringsUsed + StringSize
       /\ BlockBytes(Len(blocks))' = BlockBytes(Len(blocks)) /\ Reserved' = Reserved
  <2>1. ~ NoStrings' /\ HeadUsed' = HeadUsed
    BY <1>4, <1>11, <1>16 DEF NoStrings, HeadUsed, Atomics
  <2>2. PICK e : e = EffectiveSize(string_blocks[Len(string_blocks)])
    OBVIOUS
  <2>3. StringsUsed = e - u
    BY <1>5, <1>11, <2>2 DEF StringsUsed
  <2>4. StringsUsed' = e - (u - StringSize)
    BY <1>4, <1>16, <2>1, <2>2 DEF StringsUsed
  <2>5. e \in Int
    <3>1. string_blocks \in Seq(StringBlockType)
      BY <1>1 DEF Typed
    <3>2. string_blocks[Len(string_blocks)] \in StringBlockType
      BY <1>11, <3>1 DEF NoStrings
    <3> QED
      BY <2>2, <3>2, LayoutAssumption DEF EffectiveSize, StringBlockType
  <2>6. StringsUsed' = StringsUsed + StringSize
    BY <1>5, <2>3, <2>4, <2>5
  <2> QED
    BY <1>4, <2>1, <2>6 DEF BlockBytes, Reserved, Value
<1>18. /\ given' + Final("unused")' + (BlockBytes(Len(blocks))' - Final("ptr")'.offset) <= memory'
       /\ given' <= memory'
  <2>1. /\ Final("ptr").offset \in Nat /\ BlockBytes(Len(blocks)) \in Nat
        /\ Final("ptr").offset <= BlockBytes(Len(blocks))
    BY <1>1, OwnerKnows DEF Pointers, Atomics
  <2>2. given + Final("unused") + (BlockBytes(Len(blocks)) - Final("ptr").offset) <= memory
    BY <1>1 DEF Accounts
  <2>3. Final("ptr")' = Final("ptr") /\ u \in Nat
    BY <1>5, <1>16, WordPositive DEF Atomics
  <2>4. PICK room \in Nat : room = BlockBytes(Len(blocks)) - Final("ptr").offset
    BY <2>1
  <2>5. given + u + room <= memory
    BY <1>5, <2>2, <2>4
  <2>6. BlockBytes(Len(blocks))' - Final("ptr")'.offset = room
    BY <1>17, <2>3, <2>4
  <2>7. given' + Final("unused")' = given + u
    BY <1>4, <1>5, <1>10, <1>16, <2>3
  <2>8. given' <= memory'
    BY SMTT(30), <1>4, <1>5, <1>6, <1>10, <2>3, <2>4, <2>5
  <2> QED
    BY <1>4, <1>10, <2>3, <2>4, <2>5, <2>6, <2>7, <2>8
<1>19. (Final("space_used")' + HeadUsed' + StringsUsed') % Word = given'
  <2>1. PICK j \in Int : j = Final("space_used") + HeadUsed + StringsUsed
    BY <1>10
  <2>2. j % Word = given
    BY <1>1, <2>1 DEF Accounts
  <2>3. given + StringSize \in 0 .. Word - 1
    <3>1. given + StringSize <= memory /\ 2 * memory < Word
      BY <1>1, <1>4, <1>18 DEF Accounts
    <3> QED
      BY <1>5, <1>10, <3>1, WordPositive
  <2>4. (j + StringSize) % Word = given + StringSize
    <3>1. StringSize \in Int
      BY <1>5
    <3> QED
      BY <1>10, <2>2, <2>3, <3>1, ModSteps
  <2>5. Final("space_used")' + HeadUsed' + StringsUsed' = j + StringSize
    <3>1. Final("space_used")' = Final("space_used")
      BY <1>16 DEF Atomics
    <3> QED
      BY <1>5, <1>10, <1>17, <2>1, <3>1
  <2> QED
    BY <1>4, <2>4, <2>5
<1>20. Accounts'
  <2>1. /\ Final("head")' = Final("head") /\ Final("string_block")' = Final("string_block")
        /\ Final("ptr")' = Final("ptr")
    BY <1>16 DEF Atomics
  <2> QED
    BY <1>1, <1>4, <1>17, <1>18, <1>19, <2>1 DEF Accounts
<1> QED
  BY <1>12, <1>13, <1>15, <1>20, BeginIInv

(* The sizes of a new string block                                          *)
LEMMA NewStringBlock ==
    ASSUME IInv, NEW n, n = NextSize(string_blocks),
           NEW fresh, fresh = [size |-> RoundedSize(n), next_size |-> NextNextSize(string_blocks)]
    PROVE  /\ n \in Nat /\ fresh \in StringBlockType /\ fresh.size <= n
           /\ StringMinSize <= fresh.next_size
           /\ EffectiveSize(fresh) \in Nat /\ StringSize <= EffectiveSize(fresh)
           /\ EffectiveSize(fresh) <= fresh.size
           /\ EffectiveSize(fresh) % StringSize = 0
           /\ (EffectiveSize(fresh) - StringSize) % StringSize = 0
           /\ StringSize \in Nat /\ StringSize > 0
<1>1. string_blocks \in Seq(StringBlockType)
  BY DEF IInv, Typed
<1>2. /\ StringMinSize \in Nat /\ StringMaxSize \in Nat /\ StringMinSize <= StringMaxSize
      /\ StringSize \in Nat /\ StringSize > 0 /\ StringHeaderSize \in Nat
  BY LayoutAssumption
<1>3. n \in Nat /\ StringMinSize <= n
  <2>1. CASE string_blocks = <<>>
    BY <1>2, <2>1 DEF NextSize
  <2>2. CASE string_blocks # <<>>
    <3>1. Len(string_blocks) \in DOMAIN string_blocks
      BY <1>1, <2>2
    <3>2. string_blocks[Len(string_blocks)] \in StringBlockType
      BY <1>1, <3>1
    <3>3. StringMinSize <= string_blocks[Len(string_blocks)].next_size
      BY <3>1 DEF IInv, Accounts
    <3> QED
      BY <2>2, <3>2, <3>3 DEF NextSize, StringBlockType
  <2> QED
    BY <2>1, <2>2
<1>4. NextNextSize(string_blocks) \in Nat /\ StringMinSize <= NextNextSize(string_blocks)
  BY <1>2, <1>3 DEF NextNextSize, SmallerOf
<1>5. LET sb == [size |-> RoundedSize(n), next_size |-> n]
      IN  /\ RoundedSize(n) \in Nat /\ RoundedSize(n) <= n
          /\ EffectiveSize(sb) \in Nat
          /\ StringSize <= EffectiveSize(sb)
          /\ EffectiveSize(sb) <= RoundedSize(n)
          /\ EffectiveSize(sb) % StringSize = 0
  BY <1>3, StringBlockSizes
<1>6. EffectiveSize(fresh) = EffectiveSize([size |-> RoundedSize(n), next_size |-> n])
  BY DEF EffectiveSize
<1>7. fresh.size = RoundedSize(n) /\ fresh.next_size = NextNextSize(string_blocks)
  OBVIOUS
<1>8. fresh \in StringBlockType
  BY <1>4, <1>5 DEF StringBlockType
<1>9. (EffectiveSize(fresh) - StringSize) % StringSize = EffectiveSize(fresh) % StringSize
  <2>1. EffectiveSize(fresh) \in Int
    BY <1>5, <1>6
  <2> QED
    BY <1>2, <2>1, ModShifts
<1> QED
  BY <1>2, <1>3, <1>4, <1>5, <1>6, <1>7, <1>8, <1>9

(* What the owner stores when a string block is full: the bytes of that one *)
(* (acc), the memory of the next (bp) and the correction (cor), if the head *)
(* block has room for it, and the new block with all but one string unused  *)
StringStores(t, n, e, acc, bp, cor, sb, un) ==
    /\ t \in Seq(StoreType)
    /\ acc \in StoreType /\ bp \in StoreType /\ cor \in StoreType /\ sb \in StoreType
    /\ un \in StoreType
    /\ acc.atomic = "space_used" /\ bp.atomic = "ptr" /\ cor.atomic = "space_used"
    /\ sb.atomic = "string_block" /\ un.atomic = "unused"
    /\ NoStrings /\ ~ Fits(n) => Len(t) = 2 /\ t[1] = sb /\ t[2] = un
    /\ ~ NoStrings /\ ~ Fits(n) => Len(t) = 3 /\ t[1] = acc /\ t[2] = sb /\ t[3] = un
    /\ NoStrings /\ Fits(n) => Len(t) = 4 /\ t[1] = bp /\ t[2] = cor /\ t[3] = sb /\ t[4] = un
    /\ ~ NoStrings /\ Fits(n) =>
        Len(t) = 5 /\ t[1] = acc /\ t[2] = bp /\ t[3] = cor /\ t[4] = sb /\ t[5] = un
    /\ ~ NoStrings => acc.value =
        (Latest("space_used") + EffectiveSize(string_blocks[Len(string_blocks)])) % Word
    /\ Fits(n) => bp = BumpPtr(Latest("ptr"), n)
    /\ Fits(n) => cor.value =
        ((IF NoStrings THEN Latest("space_used") ELSE acc.value) + Word - n) % Word
    /\ sb.value = Len(string_blocks) + 1
    /\ un.value = e - StringSize

(* t is the lists one, two and rest in a row: at most one store, two or none, and two *)
Row(t, one, two, rest) ==
    /\ t \in Seq(StoreType) /\ Len(t) = Len(one) + Len(two) + 2
    /\ Len(one) = 1 => t[1] = one[1]
    /\ Len(two) = 2 => t[Len(one) + 1] = two[1] /\ t[Len(one) + 2] = two[2]
    /\ t[Len(one) + Len(two) + 1] = rest[1] /\ t[Len(one) + Len(two) + 2] = rest[2]

LEMMA TwoThenTwo ==
    ASSUME NEW one \in Seq(StoreType), NEW two \in Seq(StoreType), NEW rest \in Seq(StoreType),
           NEW t,
           t = one \o two \o rest,
           Len(one) \in {0, 1}, Len(two) \in {0, 2}, Len(rest) = 2
    PROVE  Row(t, one, two, rest)
<1>1. PICK c : c = one \o two
  OBVIOUS
<1>2. /\ c \in Seq(StoreType) /\ Len(c) = Len(one) + Len(two)
      /\ \A i \in 1 .. Len(one) + Len(two) : c[i] = IF i <= Len(one) THEN one[i] ELSE two[i - Len(one)]
  BY <1>1, ConcatProperties
<1>3. /\ t \in Seq(StoreType) /\ Len(t) = Len(c) + Len(rest)
      /\ \A i \in 1 .. Len(c) + Len(rest) : t[i] = IF i <= Len(c) THEN c[i] ELSE rest[i - Len(c)]
  <2>1. t = c \o rest /\ c \in Seq(StoreType)
    BY <1>1, <1>2
  <2>2. /\ c \o rest \in Seq(StoreType) /\ Len(c \o rest) = Len(c) + Len(rest)
        /\ \A i \in 1 .. Len(c) + Len(rest) :
             (c \o rest)[i] = IF i <= Len(c) THEN c[i] ELSE rest[i - Len(c)]
    BY <2>1, ConcatProperties
  <2> QED
    BY <2>1, <2>2
<1>4. Len(one) = 1 => t[1] = one[1]
  <2>1. Len(one) = 1 => c[1] = one[1]
    BY <1>2
  <2> QED
    BY <1>2, <1>3, <2>1
<1>5. ASSUME Len(two) = 2 PROVE t[Len(one) + 1] = two[1] /\ t[Len(one) + 2] = two[2]
  <2>1. c[Len(one) + 1] = two[1] /\ c[Len(one) + 2] = two[2]
    <3>1. CASE Len(one) = 0
      <4>1. c[1] = two[1] /\ c[2] = two[2]
        BY <1>2, <1>5, <3>1
      <4> QED
        BY <3>1, <4>1
    <3>2. CASE Len(one) = 1
      <4>1. c[2] = two[1] /\ c[3] = two[2]
        BY <1>2, <1>5, <3>2
      <4> QED
        BY <3>2, <4>1
    <3> QED
      BY <3>1, <3>2
  <2>2. t[Len(one) + 1] = c[Len(one) + 1] /\ t[Len(one) + 2] = c[Len(one) + 2]
    BY <1>2, <1>3, <1>5
  <2> QED
    BY <2>1, <2>2
<1>6. t[Len(one) + Len(two) + 1] = rest[1] /\ t[Len(one) + Len(two) + 2] = rest[2]
  <2>1. PICK k \in Nat : k = Len(c)
    BY <1>2
  <2>2. ASSUME NEW m \in 1 .. 2, NEW at, at = k + m PROVE t[at] = rest[m]
    <3>1. PICK j \in Int : j = k + m
      BY <2>1
    <3>2. j \in 1 .. Len(c) + Len(rest) /\ ~(j <= Len(c))
      BY <2>1, <3>1
    <3>3. t[j] = rest[j - Len(c)]
      BY <1>3, <3>2
    <3>4. j - Len(c) = m
      BY <2>1, <3>1
    <3> QED
      BY <2>2, <3>1, <3>3, <3>4
  <2>3. t[k + 1] = rest[1] /\ t[k + 2] = rest[2]
    <3>1. 1 \in 1 .. 2 /\ 2 \in 1 .. 2
      OBVIOUS
    <3>2. t[k + 1] = rest[1]
      BY <2>2, <3>1, Zenon
    <3>3. t[k + 2] = rest[2]
      BY <2>2, <3>1, Zenon
    <3> QED
      BY <3>2, <3>3
  <2> QED
    BY <1>2, <2>1, <2>3
<1>7. Len(t) = Len(one) + Len(two) + 2
  BY <1>2, <1>3
<1> QED
  BY <1>3, <1>4, <1>5, <1>6, <1>7 DEF Row

LEMMA StringFallbackStores ==
    ASSUME IInv, AllocateStringFallback, NEW n, n = NextSize(string_blocks),
           NEW fresh, fresh = [size |-> RoundedSize(n), next_size |-> NextNextSize(string_blocks)],
           NEW e, e = EffectiveSize(fresh)
    PROVE  \E acc, bp, cor, sb, un : StringStores(todo', n, e, acc, bp, cor, sb, un)
<1>1. todo = <<>> /\ string_blocks' = Append(string_blocks, fresh)
  BY DEF AllocateStringFallback, Begins
<1>2. /\ n \in Nat /\ fresh \in StringBlockType /\ e \in Nat /\ StringSize <= e
      /\ StringSize \in Nat
  BY NewStringBlock
<1>3. string_blocks \in Seq(StringBlockType) /\ Len(string_blocks) \in Nat
  BY DEF IInv, Typed
<1>4. Latest("ptr") \in Pointers /\ Latest("space_used") \in 0 .. Word - 1
  BY <1>1, OwnerKnows
<1> DEFINE used == IF NoStrings THEN Latest("space_used")
                   ELSE (Latest("space_used")
                         + EffectiveSize(string_blocks[Len(string_blocks)])) % Word
<1> DEFINE acc == Store("space_used", used)
<1> DEFINE bp == BumpPtr(Latest("ptr"), n)
<1> DEFINE cor == Store("space_used", (used + Word - n) % Word)
<1> DEFINE sb == Store("string_block", Len(string_blocks) + 1)
<1> DEFINE un == Store("unused", e - StringSize)
<1>5. Len(string_blocks') = Len(string_blocks) + 1
  BY <1>1, <1>2, <1>3
<1>6. todo' = (IF NoStrings THEN <<>> ELSE <<acc>>)
              \o (IF Fits(n) THEN <<bp, cor>> ELSE <<>>) \o <<sb, un>>
  BY <1>5 DEF AllocateStringFallback, Corrected, NoStrings
<1>7. used \in 0 .. Word - 1
  <2>1. CASE NoStrings
    BY <1>4, <2>1
  <2>2. CASE ~ NoStrings
    <3>1. string_blocks[Len(string_blocks)] \in StringBlockType
      BY <1>3, <2>2 DEF NoStrings
    <3>2. EffectiveSize(string_blocks[Len(string_blocks)]) \in Int
      BY <3>1, LayoutAssumption DEF EffectiveSize, StringBlockType
    <3>3. PICK j \in Int : j = Latest("space_used")
                               + EffectiveSize(string_blocks[Len(string_blocks)])
      BY <1>4, <3>2, WordPositive
    <3>4. used = j % Word
      BY <2>2, <3>3
    <3> QED
      BY <3>4, WordPositive, ModRange
  <2> QED
    BY <2>1, <2>2
<1>8. (used + Word - n) % Word \in 0 .. Word - 1
  <2> HIDE DEF used
  <2>1. used + Word - n \in Int
    BY <1>2, <1>7, WordPositive
  <2> QED
    BY <2>1, WordPositive, ModRange
<1>9. /\ acc \in StoreType /\ acc.atomic = "space_used" /\ acc.value = used
      /\ cor \in StoreType /\ cor.atomic = "space_used" /\ cor.value = (used + Word - n) % Word
  <2> HIDE DEF used
  <2>1. PICK v : v = (used + Word - n) % Word
    OBVIOUS
  <2>2. used \in Nat /\ v \in Nat
    BY <1>7, <1>8, <2>1, WordPositive
  <2> QED
    BY <2>1, <2>2 DEF Store, StoreType, Atomics
<1>10. bp \in StoreType /\ bp.atomic = "ptr"
  <2>1. [Latest("ptr") EXCEPT !.offset = @ + n] \in Pointers
    BY <1>2, <1>4 DEF Pointers
  <2> QED
    BY <2>1 DEF BumpPtr, Store, StoreType, Atomics
<1>11. /\ sb \in StoreType /\ sb.atomic = "string_block" /\ sb.value = Len(string_blocks) + 1
       /\ un \in StoreType /\ un.atomic = "unused" /\ un.value = e - StringSize
  <2>1. Len(string_blocks) + 1 \in Nat /\ e - StringSize \in Nat
    BY <1>2, <1>3
  <2> QED
    BY <2>1 DEF Store, StoreType, Atomics
<1>12. used = IF NoStrings THEN Latest("space_used") ELSE acc.value
  BY <1>9
<1>13. ~ NoStrings => acc.value = (Latest("space_used")
                                   + EffectiveSize(string_blocks[Len(string_blocks)])) % Word
  BY <1>9
<1>14. cor.value = ((IF NoStrings THEN Latest("space_used") ELSE acc.value) + Word - n) % Word
  <2> HIDE DEF used, acc, cor
  <2> QED
    BY <1>9, <1>12
<1>15. bp = BumpPtr(Latest("ptr"), n)
  OBVIOUS
<1> HIDE DEF used, acc, bp, cor, sb, un
<1>16. PICK one, two, rest : /\ one = IF NoStrings THEN <<>> ELSE <<acc>>
                             /\ two = IF Fits(n) THEN <<bp, cor>> ELSE <<>>
                             /\ rest = <<sb, un>>
  OBVIOUS
<1>17. /\ one \in Seq(StoreType) /\ two \in Seq(StoreType) /\ rest \in Seq(StoreType)
       /\ Len(one) = (IF NoStrings THEN 0 ELSE 1) /\ Len(two) = (IF Fits(n) THEN 2 ELSE 0)
       /\ Len(rest) = 2 /\ rest[1] = sb /\ rest[2] = un
       /\ ~ NoStrings => one[1] = acc
       /\ Fits(n) => two[1] = bp /\ two[2] = cor
  BY <1>9, <1>10, <1>11, <1>16
<1>18. PICK t : t = todo'
  OBVIOUS
<1>19. Row(t, one, two, rest)
  <2>1. t = one \o two \o rest
    BY <1>6, <1>16, <1>18
  <2>2. Len(one) \in {0, 1} /\ Len(two) \in {0, 2}
    BY <1>17
  <2>3. /\ one \in Seq(StoreType) /\ two \in Seq(StoreType) /\ rest \in Seq(StoreType)
        /\ Len(rest) = 2
    BY <1>17
  <2> QED
    BY <2>1, <2>2, <2>3, TwoThenTwo
<1>20. NoStrings /\ ~ Fits(n) => Len(t) = 2 /\ t[1] = sb /\ t[2] = un
  BY <1>17, <1>19 DEF Row
<1>21. ~ NoStrings /\ ~ Fits(n) => Len(t) = 3 /\ t[1] = acc /\ t[2] = sb /\ t[3] = un
  BY <1>17, <1>19 DEF Row
<1>22. NoStrings /\ Fits(n) => Len(t) = 4 /\ t[1] = bp /\ t[2] = cor /\ t[3] = sb /\ t[4] = un
  BY <1>17, <1>19 DEF Row
<1>23. ~ NoStrings /\ Fits(n) =>
          Len(t) = 5 /\ t[1] = acc /\ t[2] = bp /\ t[3] = cor /\ t[4] = sb /\ t[5] = un
  BY <1>17, <1>19 DEF Row
<1>24. StringStores(t, n, e, acc, bp, cor, sb, un)
  BY <1>9, <1>10, <1>11, <1>13, <1>14, <1>15, <1>19, <1>20, <1>21, <1>22, <1>23 DEF StringStores, Row
<1> QED
  BY <1>18, <1>24

LEMMA StringFallbackFinals ==
    ASSUME Typed, Stores, todo = <<>>, hist' = hist,
           NEW t, t = todo', NEW n, NEW e, NEW acc, NEW bp, NEW cor, NEW sb, NEW un,
           StringStores(t, n, e, acc, bp, cor, sb, un)
    PROVE  /\ Final("head")' = Final("head")
           /\ Final("string_block")' = sb.value
           /\ Final("unused")' = un.value
           /\ Final("ptr")' = IF Fits(n) THEN bp.value ELSE Final("ptr")
           /\ Final("space_used")' = IF Fits(n) THEN cor.value
                                     ELSE IF NoStrings THEN Final("space_used") ELSE acc.value
<1>1. t \in Seq(StoreType)
  BY DEF StringStores
<1>2. DOMAIN t = 1 .. Len(t)
  BY <1>1
<1>3. /\ acc.atomic = "space_used" /\ bp.atomic = "ptr" /\ cor.atomic = "space_used"
      /\ sb.atomic = "string_block" /\ un.atomic = "unused"
  BY DEF StringStores
<1>4. /\ NoStrings /\ ~ Fits(n) => Len(t) = 2 /\ t[1] = sb /\ t[2] = un
      /\ ~ NoStrings /\ ~ Fits(n) => Len(t) = 3 /\ t[1] = acc /\ t[2] = sb /\ t[3] = un
      /\ NoStrings /\ Fits(n) => Len(t) = 4 /\ t[1] = bp /\ t[2] = cor /\ t[3] = sb /\ t[4] = un
      /\ ~ NoStrings /\ Fits(n) =>
          Len(t) = 5 /\ t[1] = acc /\ t[2] = bp /\ t[3] = cor /\ t[4] = sb /\ t[5] = un
  BY DEF StringStores
<1>5. ASSUME NEW x, NEW i, LastStore(t, x, i) PROVE Final(x)' = t[i].value
  BY <1>1, <1>5, FinalStored
<1>6. ASSUME NEW x \in Atomics, \A i \in DOMAIN t : t[i].atomic # x
      PROVE  Final(x)' = Final(x)
  BY <1>6, FinalKept
<1>7. "ptr" \in Atomics /\ "head" \in Atomics /\ "space_used" \in Atomics
  BY DEF Atomics
<1>8. CASE NoStrings /\ ~ Fits(n)
  <2>1. Len(t) = 2 /\ t[1] = sb /\ t[2] = un
    BY <1>4, <1>8
  <2>2. /\ 1 \in DOMAIN t /\ 2 \in DOMAIN t
        /\ \A i \in DOMAIN t : i = 1 \/ i = 2
        /\ t[1] = sb /\ t[2] = un
    <3>1. DOMAIN t = 1 .. 2
      BY <1>2, <2>1
    <3> QED
      BY <2>1, <3>1
  <2>3. LastStore(t, "string_block", 1) /\ LastStore(t, "unused", 2)
    BY <1>3, <2>2 DEF LastStore
  <2>4. \A x \in {"ptr", "head", "space_used"} : \A i \in DOMAIN t : t[i].atomic # x
    BY <1>3, <2>2
  <2> QED
    BY <1>5, <1>6, <1>7, <1>8, <2>2, <2>3, <2>4
<1>9. CASE ~ NoStrings /\ ~ Fits(n)
  <2>1. Len(t) = 3 /\ t[1] = acc /\ t[2] = sb /\ t[3] = un
    BY <1>4, <1>9
  <2>2. /\ 1 \in DOMAIN t /\ 2 \in DOMAIN t /\ 3 \in DOMAIN t
        /\ \A i \in DOMAIN t : i = 1 \/ i = 2 \/ i = 3
        /\ t[1] = acc /\ t[2] = sb /\ t[3] = un
    <3>1. DOMAIN t = 1 .. 3
      BY <1>2, <2>1
    <3> QED
      BY <2>1, <3>1
  <2>3. LastStore(t, "space_used", 1) /\ LastStore(t, "string_block", 2) /\ LastStore(t, "unused", 3)
    BY <1>3, <2>2 DEF LastStore
  <2>4. \A x \in {"ptr", "head"} : \A i \in DOMAIN t : t[i].atomic # x
    BY <1>3, <2>2
  <2> QED
    BY <1>5, <1>6, <1>7, <1>9, <2>2, <2>3, <2>4
<1>10. CASE NoStrings /\ Fits(n)
  <2>1. Len(t) = 4 /\ t[1] = bp /\ t[2] = cor /\ t[3] = sb /\ t[4] = un
    BY <1>4, <1>10
  <2>2. /\ 1 \in DOMAIN t /\ 2 \in DOMAIN t /\ 3 \in DOMAIN t /\ 4 \in DOMAIN t
        /\ \A i \in DOMAIN t : i = 1 \/ i = 2 \/ i = 3 \/ i = 4
        /\ t[1] = bp /\ t[2] = cor /\ t[3] = sb /\ t[4] = un
    <3>1. DOMAIN t = 1 .. 4
      BY <1>2, <2>1
    <3> QED
      BY <2>1, <3>1
  <2>3. /\ LastStore(t, "ptr", 1) /\ LastStore(t, "space_used", 2)
        /\ LastStore(t, "string_block", 3) /\ LastStore(t, "unused", 4)
    BY <1>3, <2>2 DEF LastStore
  <2>4. \A i \in DOMAIN t : t[i].atomic # "head"
    BY <1>3, <2>2
  <2> QED
    BY <1>5, <1>6, <1>7, <1>10, <2>2, <2>3, <2>4
<1>11. CASE ~ NoStrings /\ Fits(n)
  <2>1. Len(t) = 5 /\ t[1] = acc /\ t[2] = bp /\ t[3] = cor /\ t[4] = sb /\ t[5] = un
    BY <1>4, <1>11
  <2>2. /\ 1 \in DOMAIN t /\ 2 \in DOMAIN t /\ 3 \in DOMAIN t /\ 4 \in DOMAIN t /\ 5 \in DOMAIN t
        /\ \A i \in DOMAIN t : i = 1 \/ i = 2 \/ i = 3 \/ i = 4 \/ i = 5
        /\ t[1] = acc /\ t[2] = bp /\ t[3] = cor /\ t[4] = sb /\ t[5] = un
    <3>1. DOMAIN t = 1 .. 5
      BY <1>2, <2>1
    <3> QED
      BY <2>1, <3>1
  <2>3. /\ LastStore(t, "ptr", 2) /\ LastStore(t, "space_used", 3)
        /\ LastStore(t, "string_block", 4) /\ LastStore(t, "unused", 5)
    BY <1>3, <2>2 DEF LastStore
  <2>4. \A i \in DOMAIN t : t[i].atomic # "head"
    BY <1>3, <2>2
  <2> QED
    BY <1>5, <1>6, <1>7, <1>11, <2>2, <2>3, <2>4
<1> QED
  BY <1>8, <1>9, <1>10, <1>11

LEMMA StringFallbackIInv ==
    ASSUME IInv, AllocateStringFallback
    PROVE  IInv'
<1>1. Typed /\ Stores /\ Accounts /\ todo = <<>>
  BY DEF IInv, AllocateStringFallback, Begins
<1>2. PICK n : n = NextSize(string_blocks)
  OBVIOUS
<1>3. PICK fresh : fresh = [size |-> RoundedSize(n), next_size |-> NextNextSize(string_blocks)]
  OBVIOUS
<1>4. PICK e : e = EffectiveSize(fresh)
  OBVIOUS
<1>5. /\ string_blocks' = Append(string_blocks, fresh)
      /\ given' = given + StringSize /\ count' = count + 1 /\ quiet' = FALSE
      /\ Fits(n) => memory' = memory
      /\ ~ Fits(n) => memory' = memory + fresh.size /\ 2 * (memory + fresh.size) < Word
      /\ Latest("unused") = 0
      /\ UNCHANGED <<blocks, closed, hist, pc, view, local>>
  BY <1>2, <1>3 DEF AllocateStringFallback, Begins, Obtain, reader
<1>6. /\ n \in Nat /\ fresh \in StringBlockType /\ fresh.size <= n
      /\ StringMinSize <= fresh.next_size
      /\ e \in Nat /\ StringSize <= e /\ e <= fresh.size /\ e % StringSize = 0
      /\ (e - StringSize) % StringSize = 0
      /\ StringSize \in Nat /\ StringSize > 0
  BY <1>2, <1>3, <1>4, NewStringBlock
<1>7. fresh.size \in Nat
  BY <1>6 DEF StringBlockType
<1>8. PICK t, acc, bp, cor, sb, un : t = todo' /\ StringStores(t, n, e, acc, bp, cor, sb, un)
  BY <1>2, <1>3, <1>4, StringFallbackStores
<1>9. /\ t \in Seq(StoreType)
      /\ acc.atomic = "space_used" /\ bp.atomic = "ptr" /\ cor.atomic = "space_used"
      /\ sb.atomic = "string_block" /\ un.atomic = "unused"
      /\ sb.value = Len(string_blocks) + 1 /\ un.value = e - StringSize
      /\ Fits(n) => bp = BumpPtr(Latest("ptr"), n)
      /\ Fits(n) => cor.value =
            ((IF NoStrings THEN Latest("space_used") ELSE acc.value) + Word - n) % Word
      /\ ~ NoStrings => acc.value =
            (Latest("space_used") + EffectiveSize(string_blocks[Len(string_blocks)])) % Word
  BY <1>8 DEF StringStores
<1>10. \A i \in DOMAIN t : \/ ~ NoStrings /\ t[i] = acc
                           \/ Fits(n) /\ t[i] \in {bp, cor}
                           \/ t[i] \in {sb, un}
  <2>1. DOMAIN t = 1 .. Len(t)
    BY <1>9
  <2> QED
    BY SMTT(30), <1>8, <2>1 DEF StringStores
<1>11. /\ Final("head")' = Final("head")
       /\ Final("string_block")' = sb.value
       /\ Final("unused")' = un.value
       /\ Final("ptr")' = IF Fits(n) THEN bp.value ELSE Final("ptr")
       /\ Final("space_used")' = IF Fits(n) THEN cor.value
                                 ELSE IF NoStrings THEN Final("space_used") ELSE acc.value
  BY <1>1, <1>5, <1>8, StringFallbackFinals
<1>12. /\ HeadUsed \in Nat /\ StringsUsed \in Int /\ given \in Nat /\ memory \in Nat
       /\ Final("space_used") \in Nat /\ UsedBeforeHead \in Nat
  BY <1>1, AccountTypes
<1>13. /\ Final("ptr") = Latest("ptr") /\ Final("unused") = 0
       /\ Final("space_used") = Latest("space_used") /\ Final("space_used") \in 0 .. Word - 1
       /\ Final("ptr") \in Pointers /\ BlockBytes(Len(blocks)) \in Nat
       /\ Final("ptr").offset <= BlockBytes(Len(blocks))
  BY <1>1, <1>5, OwnerKnows DEF Atomics
<1>14. /\ string_blocks' \in Seq(StringBlockType)
       /\ Len(string_blocks') = Len(string_blocks) + 1 /\ Len(string_blocks) \in Nat
       /\ string_blocks'[Len(string_blocks')] = fresh
       /\ \A b \in DOMAIN string_blocks : string_blocks'[b] = string_blocks[b]
       /\ \A b \in DOMAIN string_blocks' : b \in DOMAIN string_blocks \/ string_blocks'[b] = fresh
  <2>1. string_blocks \in Seq(StringBlockType)
    BY <1>1 DEF Typed
  <2> QED
    BY <1>5, <1>6, <2>1
<1>15. ~ NoStrings'
  BY <1>14 DEF NoStrings
<1>16. Typed'
  <2>1. given' \in Nat /\ count' \in Nat /\ memory' \in Nat
    <3>1. count \in Nat
      BY <1>1 DEF Typed
    <3>2. given' \in Nat /\ count' \in Nat
      BY <1>5, <1>6, <1>12, <3>1
    <3>3. memory + fresh.size \in Nat
      BY <1>7, <1>12
    <3>4. memory' \in {memory, memory + fresh.size}
      BY <1>5
    <3> QED
      BY <1>12, <3>2, <3>3, <3>4
  <2> QED
    BY <1>1, <1>5, <1>8, <1>9, <1>14, <2>1 DEF Typed
<1>17. Grows
  <2>1. given <= given' /\ Len(string_blocks) <= Len(string_blocks')
    BY <1>5, <1>6, <1>12, <1>14
  <2> QED
    BY <1>1, <1>5, <1>14, <2>1 DEF Grows, Typed
<1>18. ASSUME Fits(n)
       PROVE  /\ bp.value \in Pointers /\ bp.value.block = Len(blocks)
              /\ bp.value.offset = Final("ptr").offset + n
              /\ bp.value.offset <= BlockBytes(Len(blocks)) /\ blocks # <<>>
              /\ Possible("ptr", bp.value)
  <2>1. /\ bp.value \in Pointers /\ bp.value.block = Len(blocks)
        /\ bp.value.offset = Latest("ptr").offset + n /\ Possible("ptr", bp.value)
    BY <1>1, <1>6, <1>9, <1>18, BumpPossible
  <2>2. Latest("ptr").offset + n <= BlockBytes(Len(blocks)) /\ blocks # <<>>
    BY <1>1, <1>6, <1>18, FitsIn
  <2> QED
    BY <1>13, <2>1, <2>2
(* a: what space_used_ is before the new block is accounted for              *)
<1>19. PICK a : a = IF NoStrings THEN Final("space_used") ELSE acc.value
  OBVIOUS
<1>20. a \in 0 .. Word - 1 /\ (a + HeadUsed) % Word = given
  <2>1. (Final("space_used") + HeadUsed + StringsUsed) % Word = given
    BY <1>1 DEF Accounts
  <2>2. CASE NoStrings
    <3>1. StringsUsed = 0
      BY <2>2 DEF StringsUsed
    <3>2. Final("space_used") + HeadUsed + StringsUsed = a + HeadUsed
      BY <1>12, <1>19, <2>2, <3>1
    <3> QED
      BY <1>13, <1>19, <2>1, <2>2, <3>2
  <2>3. CASE ~ NoStrings
    <3>1. StringsUsed = EffectiveSize(string_blocks[Len(string_blocks)]) - 0
      BY <1>13, <2>3 DEF StringsUsed
    <3>2. EffectiveSize(string_blocks[Len(string_blocks)]) \in Int
      <4>1. string_blocks \in Seq(StringBlockType)
        BY <1>1 DEF Typed
      <4>2. string_blocks[Len(string_blocks)] \in StringBlockType
        BY <2>3, <4>1 DEF NoStrings
      <4> QED
        BY <4>2, LayoutAssumption DEF EffectiveSize, StringBlockType
    <3>3. EffectiveSize(string_blocks[Len(string_blocks)]) = StringsUsed
      BY <3>1, <3>2
    <3>4. PICK j \in Int : j = Final("space_used") + StringsUsed
      BY <1>12
    <3>5. a = j % Word
      BY <1>9, <1>13, <1>19, <2>3, <3>3, <3>4
    <3>6. ((j % Word) + HeadUsed) % Word = (j + HeadUsed) % Word
      <4>1. HeadUsed \in Int
        BY <1>12
      <4> QED
        BY <3>4, <4>1, WordPositive, ModAdds
    <3>7. j + HeadUsed = Final("space_used") + HeadUsed + StringsUsed
      BY <1>12, <3>4
    <3>8. j % Word \in 0 .. Word - 1
      BY <3>4, WordPositive, ModRange
    <3> QED
      BY <2>1, <3>5, <3>6, <3>7, <3>8
  <2> QED
    BY <2>2, <2>3
<1>21. /\ Final("space_used")' = IF Fits(n) THEN (a + Word - n) % Word ELSE a
       /\ Final("space_used")' \in 0 .. Word - 1
  <2>1. Final("space_used")' = IF Fits(n) THEN (a + Word - n) % Word ELSE a
    <3>1. Fits(n) => cor.value = (a + Word - n) % Word
      BY <1>9, <1>13, <1>19
    <3> QED
      BY <1>11, <1>19, <3>1
  <2>2. a + Word - n \in Int
    BY <1>6, <1>20, WordPositive
  <2>3. (a + Word - n) % Word \in 0 .. Word - 1
    BY <2>2, WordPositive, ModRange
  <2> QED
    BY <1>20, <2>1, <2>3
<1>22. /\ HeadUsed' = IF Fits(n) THEN HeadUsed + n ELSE HeadUsed
       /\ StringsUsed' = StringSize
       /\ BlockBytes(Len(blocks))' = BlockBytes(Len(blocks)) /\ Reserved' = Reserved
       /\ Final("ptr")'.block = Len(blocks) /\ (blocks = <<>> => Final("ptr")'.offset = 0)
  <2>1. ASSUME Fits(n)
        PROVE  /\ HeadUsed' = HeadUsed + n
               /\ Final("ptr")'.block = Len(blocks) /\ blocks # <<>>
    <3>1. Final("ptr")' = bp.value
      BY <1>11, <2>1
    <3>2. HeadUsed' = Final("ptr").offset + n - BlockHeaderSize
      <4>1. HeadUsed' = Final("ptr")'.offset - BlockHeaderSize
        BY <1>5, <1>18, <2>1 DEF HeadUsed
      <4>2. Final("ptr")'.offset = Final("ptr").offset + n
        BY <1>18, <2>1, <3>1
      <4>3. Final("ptr").offset \in Nat /\ n \in Nat /\ BlockHeaderSize \in Nat
        BY <1>6, <1>13, LayoutAssumption DEF Pointers
      <4> QED
        BY <4>1, <4>2, <4>3
    <3>3. HeadUsed = Final("ptr").offset - BlockHeaderSize
      BY <1>18, <2>1 DEF HeadUsed
    <3>4. PICK off \in Nat : off = Final("ptr").offset
      BY <1>13 DEF Pointers
    <3>5. HeadUsed' = HeadUsed + n
      BY <1>6, <3>2, <3>3, <3>4, LayoutAssumption
    <3> QED
      BY <1>18, <2>1, <3>1, <3>5
  <2>2. ASSUME ~ Fits(n)
        PROVE  /\ HeadUsed' = HeadUsed
               /\ Final("ptr")'.block = Len(blocks) /\ (blocks = <<>> => Final("ptr")'.offset = 0)
    <3>1. Final("ptr")' = Final("ptr")
      BY <1>11, <2>2
    <3>2. HeadUsed' = HeadUsed
      BY <1>5, <3>1 DEF HeadUsed
    <3>3. Final("ptr").block = Len(blocks) /\ (blocks = <<>> => Final("ptr").offset = 0)
      BY <1>1 DEF Accounts
    <3> QED
      BY <3>1, <3>2, <3>3
  <2>3. StringsUsed' = e - (e - StringSize)
    BY <1>4, <1>9, <1>11, <1>14, <1>15 DEF StringsUsed
  <2>4. StringsUsed' = StringSize
    BY <1>6, <2>3
  <2>5. BlockBytes(Len(blocks))' = BlockBytes(Len(blocks)) /\ Reserved' = Reserved
    BY <1>5 DEF BlockBytes, Reserved, Value
  <2>6. /\ Final("ptr")'.block = Len(blocks) /\ (blocks = <<>> => Final("ptr")'.offset = 0)
        /\ HeadUsed' = IF Fits(n) THEN HeadUsed + n ELSE HeadUsed
    BY <2>1, <2>2
  <2> QED
    BY <2>4, <2>5, <2>6
<1>23. /\ given' + Final("unused")' + (BlockBytes(Len(blocks))' - Final("ptr")'.offset) <= memory'
       /\ given' + (e - StringSize) <= memory' /\ 2 * memory' < Word /\ memory <= memory'
  <2>1. PICK off, all \in Nat : off = Final("ptr").offset /\ all = BlockBytes(Len(blocks)) /\ off <= all
    <3>1. Final("ptr").offset \in Nat
      BY <1>13 DEF Pointers
    <3> QED
      BY <1>13, <3>1
  <2>2. given + (all - off) <= memory /\ 2 * memory < Word
    <3>1. /\ given + Final("unused") + (BlockBytes(Len(blocks)) - Final("ptr").offset) <= memory
          /\ 2 * memory < Word
      BY <1>1 DEF Accounts
    <3> QED
      BY <1>12, <1>13, <2>1, <3>1
  <2>3. given' + Final("unused")' = given + e
    BY <1>5, <1>6, <1>9, <1>11, <1>12
  <2>4. given' + (e - StringSize) = given + e
    BY <1>5, <1>6, <1>12
  <2>5. CASE Fits(n)
    <3>1. Final("ptr")'.offset = off + n /\ off + n <= all
      <4>1. Final("ptr")' = bp.value
        BY <1>11, <2>5
      <4> QED
        BY <1>18, <2>1, <2>5, <4>1
    <3>2. memory' = memory
      BY <1>5, <2>5
    <3>3. e <= n
      BY <1>6, <1>7
    <3>4. BlockBytes(Len(blocks))' - Final("ptr")'.offset = all - (off + n)
      BY <1>22, <2>1, <3>1
    <3>5. given + e + (all - (off + n)) <= memory /\ given + e <= memory
      <4>1. e \in Nat /\ n \in Nat /\ given \in Nat /\ memory \in Nat /\ off <= all
        BY <1>6, <1>12, <2>1
      <4> QED
        BY <2>2, <3>1, <3>3, <4>1
    <3> QED
      BY <1>12, <2>2, <2>3, <2>4, <3>2, <3>4, <3>5
  <2>6. CASE ~ Fits(n)
    <3>1. Final("ptr")'.offset = off
      BY <1>11, <2>1, <2>6
    <3>2. memory' = memory + fresh.size /\ 2 * (memory + fresh.size) < Word
      BY <1>5, <2>6
    <3>3. PICK m \in Nat : m = fresh.size
      BY <1>7
    <3>4. BlockBytes(Len(blocks))' - Final("ptr")'.offset = all - off
      BY <1>22, <2>1, <3>1
    <3>5. e <= m
      BY <1>6, <3>3
    <3>6. given + e + (all - off) <= memory + m /\ given + e <= memory + m /\ memory <= memory + m
      <4>1. e \in Nat /\ given \in Nat /\ memory \in Nat /\ off <= all
        BY <1>6, <1>12, <2>1
      <4> QED
        BY <2>2, <3>5, <4>1
    <3> QED
      BY <2>3, <2>4, <3>2, <3>3, <3>4, <3>6
  <2> QED
    BY <2>5, <2>6
<1>24. (Final("space_used")' + HeadUsed' + StringsUsed') % Word = given'
  <2>1. PICK j \in Int : j = a + HeadUsed
    BY <1>12, <1>20
  <2>2. j % Word = given /\ StringSize \in Int
    BY <1>6, <1>20, <2>1
  <2>3. given + StringSize \in 0 .. Word - 1
    <3>1. given + StringSize <= memory' /\ 2 * memory' < Word
      BY <1>5, <1>6, <1>12, <1>16, <1>23 DEF Typed
    <3>2. memory' \in Nat
      BY <1>16 DEF Typed
    <3>3. PICK g \in Nat : g = given + StringSize
      BY <1>6, <1>12
    <3> QED
      <4>1. PICK m \in Nat : m = memory'
        BY <3>2
      <4>2. g <= m /\ 2 * m < Word
        BY <3>1, <3>3, <4>1
      <4>3. g \in 0 .. Word - 1
        BY <4>2, WordPositive
      <4> QED
        BY <3>3, <4>3
  <2>4. (j + StringSize) % Word = given + StringSize
    BY <1>12, <2>2, <2>3, ModSteps
  <2>5. CASE Fits(n)
    <3>1. PICK i \in Int : i = a + Word - n
      BY <1>6, <1>20, WordPositive
    <3>2. PICK k \in Int : k = HeadUsed + n + StringSize
      BY <1>6, <1>12
    <3>3. ((i % Word) + k) % Word = (i + k) % Word
      BY <3>1, <3>2, WordPositive, ModAdds
    <3>4. i + k - Word = j + StringSize /\ i + k \in Int
      BY <1>6, <1>12, <1>20, <2>1, <3>1, <3>2, WordPositive
    <3>5. (i + k - Word) % Word = (i + k) % Word
      BY <3>4, WordPositive, ModShifts
    <3>6. Final("space_used")' + HeadUsed' + StringsUsed' = (i % Word) + k
      <4>1. Final("space_used")' = i % Word /\ i % Word \in Int
        BY <1>21, <2>5, <3>1, WordPositive, ModRange
      <4>2. HeadUsed' = HeadUsed + n /\ StringsUsed' = StringSize
        BY <1>22, <2>5
      <4> QED
        BY <1>6, <1>12, <3>2, <4>1, <4>2
    <3> QED
      BY <1>5, <2>4, <3>3, <3>4, <3>5, <3>6
  <2>6. CASE ~ Fits(n)
    <3>1. Final("space_used")' + HeadUsed' + StringsUsed' = j + StringSize
      BY <1>6, <1>12, <1>20, <1>21, <1>22, <2>1, <2>6
    <3> QED
      BY <1>5, <2>4, <3>1
  <2> QED
    BY <2>5, <2>6
<1>25. ASSUME NEW v \in 0 .. Word - 1
       PROVE  Possible("space_used", v)' /\ Newest("space_used", v)'
  BY <1>15 DEF Possible, Newest
<1>26. /\ ~ NoStrings => acc.value \in 0 .. Word - 1
       /\ Fits(n) => cor.value \in 0 .. Word - 1
  <2>1. Fits(n) => cor.value = Final("space_used")'
    BY <1>11
  <2> QED
    BY <1>19, <1>20, <1>21, <2>1
<1>27. ASSUME Fits(n) PROVE Possible("ptr", bp.value)' /\ Newest("ptr", bp.value)'
  <2>1. PICK v : v = bp.value
    OBVIOUS
  <2>2. Possible("ptr", v)'
    BY <1>1, <1>16, <1>17, <1>18, <1>27, <2>1, GrowsPossible
  <2>3. Newest("ptr", v)'
    BY <1>5, <1>18, <1>27, <2>1 DEF Newest
  <2> QED
    BY <2>1, <2>2, <2>3 DEF Possible, Newest
<1>28. Possible("string_block", sb.value)' /\ Newest("string_block", sb.value)'
  BY <1>9, <1>14 DEF Possible, Newest
<1>29. Possible("unused", un.value)' /\ Newest("unused", un.value)'
  <2>1. PICK u \in Nat : u = e - StringSize
    BY <1>6
  <2>2. u <= Word - 1
    <3>1. given' + u <= memory' /\ 2 * memory' < Word
      BY <1>23, <2>1
    <3>2. PICK g, m \in Nat : g = given' /\ m = memory'
      BY <1>16 DEF Typed
    <3>3. g + u <= m /\ 2 * m < Word
      BY <3>1, <3>2
    <3> QED
      BY <3>3, WordPositive
  <2> QED
    BY <1>6, <1>9, <2>1, <2>2, WordPositive DEF Possible, Newest
<1>30. Planned'
  <2>1. SUFFICES ASSUME NEW i \in DOMAIN t
                 PROVE  /\ t[i].atomic # "head"
                        /\ Possible(t[i].atomic, t[i].value)'
                        /\ Newest(t[i].atomic, t[i].value)'
    <3>1. todo' = t
      BY <1>8
    <3> QED
      BY <3>1 DEF Planned, Possible, Newest
  <2>2. CASE ~ NoStrings /\ t[i] = acc
    <3>1. PICK v : v = acc.value
      OBVIOUS
    <3>2. Possible("space_used", v)' /\ Newest("space_used", v)'
      BY <1>25, <1>26, <2>2, <3>1
    <3> QED
      BY <1>9, <2>2, <3>1, <3>2 DEF Possible, Newest
  <2>3. CASE Fits(n) /\ t[i] = bp
    BY <1>9, <1>27, <2>3 DEF Possible, Newest
  <2>4. CASE Fits(n) /\ t[i] = cor
    <3>1. PICK v : v = cor.value
      OBVIOUS
    <3>2. Possible("space_used", v)' /\ Newest("space_used", v)'
      BY <1>25, <1>26, <2>4, <3>1
    <3> QED
      BY <1>9, <2>4, <3>1, <3>2 DEF Possible, Newest
  <2>5. CASE t[i] = sb
    BY <1>9, <1>28, <2>5 DEF Possible, Newest
  <2>6. CASE t[i] = un
    BY <1>9, <1>29, <2>6 DEF Possible, Newest
  <2> QED
    BY <1>10, <2>2, <2>3, <2>4, <2>5, <2>6
<1>31. Accounts'
  <2>1. /\ Len(closed) = IF blocks = <<>> THEN 0 ELSE Len(blocks) - 1
        /\ \A b, c \in DOMAIN closed : b <= c => closed[b] <= closed[c]
        /\ closed # <<>> => Reserved <= closed[1]
        /\ \A i \in DOMAIN string_blocks :
             /\ StringMinSize <= string_blocks[i].next_size
             /\ StringSize <= EffectiveSize(string_blocks[i])
             /\ EffectiveSize(string_blocks[i]) % StringSize = 0
        /\ Final("head") = Len(blocks)
        /\ \A b \in DOMAIN blocks : blocks[b] <= memory
    BY <1>1 DEF Accounts
  <2>2. \A i \in DOMAIN string_blocks' :
             /\ StringMinSize <= string_blocks'[i].next_size
             /\ StringSize <= EffectiveSize(string_blocks'[i])
             /\ EffectiveSize(string_blocks'[i]) % StringSize = 0
    BY <1>4, <1>6, <1>14, <2>1
  <2>3. \A b \in DOMAIN blocks : blocks[b] <= memory'
    <3>1. blocks \in Seq(Nat) /\ memory' \in Nat
      BY <1>1, <1>16 DEF Typed
    <3>2. ASSUME NEW b \in DOMAIN blocks PROVE blocks[b] <= memory'
      <4>1. blocks[b] \in Nat /\ blocks[b] <= memory
        BY <2>1, <3>1
      <4> QED
        BY <1>12, <1>23, <3>1, <4>1
    <3> QED
      BY <3>2
  <2>4. /\ Final("head")' = Len(blocks) /\ Final("string_block")' = Len(string_blocks')
    BY <1>9, <1>11, <1>14, <2>1
  <2> QED
    BY <1>5, <1>15, <1>22, <1>23, <1>24, <2>1, <2>2, <2>3, <2>4 DEF Accounts, EffectiveSize
<1> QED
  BY <1>16, <1>17, <1>30, <1>31, BeginIInv

-----------------------------------------------------------------------------
(* The reader's loads                                                       *)

LooksOn == UNCHANGED <<blocks, string_blocks, given, closed, memory, count, hist, todo>>

(* What the owner has is as it was, and so are the values to load           *)
LEMMA LooksOnKeeps ==
    ASSUME IInv, LooksOn, quiet' \in BOOLEAN,
           pc' \in Atomics \cup {"idle", "done"}, view' \in [Atomics -> Nat],
           local' \in [sb : Nat, head : Nat, sum : Nat]
    PROVE  /\ Typed' /\ Stores' /\ Accounts' /\ FirstBlock'
           /\ NoStrings' = NoStrings /\ Reserved' = Reserved
           /\ HeadUsed' = HeadUsed /\ StringsUsed' = StringsUsed
<1>1. /\ blocks' = blocks /\ string_blocks' = string_blocks /\ given' = given
      /\ closed' = closed /\ memory' = memory /\ count' = count /\ hist' = hist /\ todo' = todo
  BY DEF LooksOn
<1>2. Typed'
  BY <1>1 DEF IInv, Typed
<1>3. Stores'
  BY <1>1 DEF IInv, Stores, Planned, Possible, Newest, StoredBefore, Latest, NoStrings,
              UsedBeforeHead, UsedBefore, BlockBytes, Reserved, Value
<1>4. /\ \A x \in Atomics : Final(x)' = Final(x)
      /\ NoStrings' = NoStrings /\ Reserved' = Reserved /\ UsedBeforeHead' = UsedBeforeHead
      /\ BlockBytes(Len(blocks))' = BlockBytes(Len(blocks))
  BY <1>1 DEF Final, NoStrings, Reserved, Value, UsedBeforeHead, UsedBefore, BlockBytes
<1>5. /\ Final("ptr")' = Final("ptr") /\ Final("head")' = Final("head")
      /\ Final("string_block")' = Final("string_block") /\ Final("unused")' = Final("unused")
      /\ Final("space_used")' = Final("space_used")
  BY <1>4 DEF Atomics
<1>6. HeadUsed' = HeadUsed /\ StringsUsed' = StringsUsed
  BY <1>1, <1>4, <1>5 DEF HeadUsed, StringsUsed
<1>7. Accounts'
  BY <1>1, <1>4, <1>5, <1>6 DEF IInv, Accounts
<1>8. FirstBlock'
  BY <1>1 DEF IInv, FirstBlock, Value
<1> QED
  BY <1>2, <1>3, <1>4, <1>6, <1>7, <1>8

(* A view that is no older knows no less                                    *)
LEMMA KnowsMore ==
    ASSUME Typed, NEW v \in [Atomics -> Nat], NEW w \in [Atomics -> Nat], NEW b,
           \A y \in Atomics : v[y] <= w[y], Knows(v, b)
    PROVE  Knows(w, b)
<1>1. /\ v["ptr"] \in Nat /\ w["ptr"] \in Nat /\ v["ptr"] <= w["ptr"]
      /\ v["space_used"] \in Nat /\ w["space_used"] \in Nat /\ v["space_used"] <= w["space_used"]
  BY DEF Atomics
<1>2. /\ \A i \in DOMAIN hist["ptr"] : i \in Nat
      /\ \A i \in DOMAIN hist["space_used"] : i \in Nat
  <2>1. hist["ptr"] \in Seq(Entry) /\ hist["space_used"] \in Seq(Entry)
    BY DEF Typed, Atomics
  <2> QED
    BY <2>1
<1>3. \A i \in DOMAIN hist["ptr"] : w["ptr"] <= i => b <= Value("ptr", i).block
  BY <1>1, <1>2 DEF Knows
<1>4. NoStrings => \A i \in DOMAIN hist["space_used"] :
        w["space_used"] <= i => UsedBefore(b - 1) <= Value("space_used", i)
  BY <1>1, <1>2 DEF Knows
<1> QED
  BY <1>3, <1>4 DEF Knows

LEMMA LoadView ==
    ASSUME IInv, NEW x \in Atomics, NEW i, Load(x, i)
    PROVE  /\ i \in DOMAIN hist[x] /\ view[x] <= i
           /\ Possible(x, Value(x, i))
           /\ view' \in [Atomics -> Nat]
           /\ \A y \in Atomics : view'[y] \in 1 .. Len(hist[y]) /\ view[y] <= view'[y]
           /\ x = "head" /\ Value("head", i) # 0 => Knows(view', Value("head", i))
           /\ \A b : Knows(view, b) => Knows(view', b)
           /\ quiet => view' = view /\ i = Len(hist[x])
<1>1. /\ Typed /\ \A y \in Atomics : view[y] \in 1 .. Len(hist[y])
      /\ \A y, z \in Atomics : \A j \in DOMAIN hist[y] : hist[y][j].view[z] \in 1 .. Len(hist[z])
  BY DEF IInv, Views
<1>2. i \in view[x] .. Len(hist[x])
  BY DEF Load
<1>3. i \in DOMAIN hist[x] /\ view[x] <= i /\ i \in Nat
  <2>1. hist[x] \in Seq(Entry) /\ view[x] \in 1 .. Len(hist[x])
    BY <1>1 DEF Typed
  <2> QED
    BY <1>2, <2>1
<1>4. PICK carried : carried = IF x \in Released THEN hist[x][i].view ELSE view
  OBVIOUS
<1>5. view' = [y \in Atomics |-> LargerOf(LargerOf(view[y], carried[y]), IF y = x THEN i ELSE 1)]
  BY <1>4 DEF Load
<1>6. ASSUME NEW y \in Atomics
      PROVE  /\ view'[y] \in 1 .. Len(hist[y]) /\ view[y] <= view'[y] /\ carried[y] <= view'[y]
             /\ view'[y] \in Nat
  <2>1. Len(hist[y]) \in Nat
    BY <1>1 DEF Typed
  <2>2. view[y] \in 1 .. Len(hist[y]) /\ carried[y] \in 1 .. Len(hist[y])
    BY <1>1, <1>3, <1>4
  <2>3. PICK k : k = IF y = x THEN i ELSE 1
    OBVIOUS
  <2>4. k \in 1 .. Len(hist[y])
    <3>1. CASE y = x
      <4>1. i \in 1 .. Len(hist[x])
        BY <1>1, <1>2
      <4> QED
        BY <2>3, <3>1, <4>1
    <3>2. CASE y # x
      BY <2>1, <2>2, <2>3, <3>2
    <3> QED
      BY <3>1, <3>2
  <2>5. view'[y] = LargerOf(LargerOf(view[y], carried[y]), k)
    BY <1>5, <2>3
  <2> QED
    BY <2>1, <2>2, <2>4, <2>5 DEF LargerOf
<1>7. view' \in [Atomics -> Nat]
  <2>1. view' = [y \in Atomics |-> view'[y]]
    BY <1>5
  <2> QED
    BY <1>6, <2>1
<1>8. Possible(x, Value(x, i))
  BY <1>3 DEF IInv, Stores, Value
<1>9. view \in [Atomics -> Nat]
  BY <1>1 DEF Typed
<1>10. ASSUME NEW b, Knows(view, b) PROVE Knows(view', b)
  <2>1. PICK w : w = view'
    OBVIOUS
  <2>2. Knows(w, b)
    BY <1>1, <1>6, <1>7, <1>9, <1>10, <2>1, KnowsMore
  <2> QED
    BY <2>1, <2>2
<1>11. ASSUME x = "head", Value("head", i) # 0 PROVE Knows(view', Value("head", i))
  <2>1. carried = hist["head"][i].view
    BY <1>4, <1>11 DEF Released
  <2>2. Knows(carried, Value("head", i))
    BY <1>3, <1>11, <2>1 DEF IInv, Views
  <2>3. carried \in [Atomics -> Nat]
    <3>1. hist["head"] \in Seq(Entry) /\ i \in DOMAIN hist["head"]
      BY <1>1, <1>3, <1>11 DEF Typed
    <3>2. hist["head"][i] \in Entry
      BY <3>1
    <3> QED
      BY <2>1, <3>2 DEF Entry
  <2>4. PICK w, b : w = view' /\ b = Value("head", i)
    OBVIOUS
  <2>5. Knows(w, b)
    BY <1>1, <1>6, <1>7, <2>2, <2>3, <2>4, KnowsMore
  <2> QED
    BY <2>4, <2>5
<1>12. ASSUME quiet PROVE view' = view /\ i = Len(hist[x])
  <2>1. \A y \in Atomics : view[y] = Len(hist[y]) /\ Len(hist[y]) \in Nat
    BY <1>1, <1>12 DEF IInv, QuietReading, Typed
  <2>2. \A y \in Atomics : view'[y] = view[y]
    BY <1>6, <2>1
  <2>3. view' = view
    BY <1>7, <1>9, <2>2
  <2> QED
    BY <1>2, <2>1, <2>3
<1> QED
  BY <1>3, <1>6, <1>7, <1>8, <1>10, <1>11, <1>12

LEMMA KnowsStill ==
    ASSUME LooksOn, NEW w, NEW b
    PROVE  Knows(w, b)' <=> Knows(w, b)
BY DEF LooksOn, Knows, Value, NoStrings, UsedBefore

(* A load does well if the reader's sum does                                *)
LEMMA LookIInv ==
    ASSUME IInv, LooksOn, quiet' = quiet, NEW x \in Atomics, NEW i, Load(x, i),
           pc' \in Atomics \cup {"idle", "done"}, local' \in [sb : Nat, head : Nat, sum : Nat],
           Reading', quiet => QuietSum'
    PROVE  IInv'
<1>1. /\ view' \in [Atomics -> Nat]
      /\ \A y \in Atomics : view'[y] \in 1 .. Len(hist[y])
      /\ quiet => view' = view
  BY LoadView
<1>2. quiet' \in BOOLEAN
  BY DEF IInv, Typed
<1>3. Typed' /\ Stores' /\ Accounts' /\ FirstBlock'
  BY <1>1, <1>2, LooksOnKeeps
<1>4. hist' = hist /\ todo' = todo
  BY DEF LooksOn
<1>5. Views'
  <2>1. \A y, z \in Atomics : \A j \in DOMAIN hist[y] : hist[y][j].view[z] \in 1 .. Len(hist[z])
    BY DEF IInv, Views
  <2>2. ASSUME NEW j \in DOMAIN hist["head"], hist["head"][j].value # 0
        PROVE  Knows(hist["head"][j].view, hist["head"][j].value)'
    <3>1. PICK w, b : w = hist["head"][j].view /\ b = hist["head"][j].value
      OBVIOUS
    <3>2. Knows(w, b)
      BY <2>2, <3>1 DEF IInv, Views, Value
    <3>3. Knows(w, b)'
      BY <3>2, KnowsStill
    <3> QED
      BY <1>4, <3>1, <3>3 DEF Knows
  <2> QED
    BY <1>1, <1>4, <2>1, <2>2 DEF Views, Value
<1>6. QuietReading'
  <2>1. quiet => todo = <<>> /\ \A y \in Atomics : view[y] = Len(hist[y])
    BY DEF IInv, QuietReading
  <2> QED
    BY <1>1, <1>4, <2>1 DEF QuietReading
<1> QED
  BY <1>3, <1>5, <1>6 DEF IInv

(* What the reader's steps find as it was                                   *)
LEMMA Found ==
    ASSUME IInv, LooksOn
    PROVE  /\ blocks' = blocks /\ string_blocks' = string_blocks /\ given' = given
           /\ closed' = closed /\ hist' = hist
           /\ NoStrings' = NoStrings
           /\ Len(blocks) \in Nat /\ Len(string_blocks) \in Nat /\ given \in Nat
           /\ local \in [sb : Nat, head : Nat, sum : Nat]
           /\ local.sb \in Nat /\ local.head \in Nat /\ local.sum \in Nat
           /\ local.head \in 0 .. Len(blocks) /\ local.sb \in 0 .. Len(string_blocks)
           /\ local.sum \in 0 .. Word - 1
BY DEF IInv, Typed, Reading, LooksOn, NoStrings

(* The values of the atomics while the owner is idle                        *)
LEMMA QuietValues ==
    ASSUME IInv, quiet
    PROVE  /\ todo = <<>>
           /\ \A x \in Atomics : Value(x, Len(hist[x])) = Final(x)
<1>1. todo = <<>>
  BY DEF IInv, QuietReading
<1> QED
  BY <1>1, OwnerKnows DEF Latest, Value

LEMMA CallIInv ==
    ASSUME IInv, SpaceUsed \/ SpaceUsedSynchronized
    PROVE  IInv'
<1>1. /\ LooksOn /\ pc' = "string_block" /\ local' = [sb |-> 0, head |-> 0, sum |-> 0]
      /\ \/ quiet' = FALSE /\ view' = view
         \/ quiet' = TRUE /\ todo = <<>> /\ view' = [x \in Atomics |-> Len(hist[x])]
  BY DEF SpaceUsed, SpaceUsedSynchronized, Call, LooksOn, owner
<1>2. /\ quiet' \in BOOLEAN /\ pc' \in Atomics \cup {"idle", "done"}
      /\ local' \in [sb : Nat, head : Nat, sum : Nat]
  BY <1>1 DEF Atomics
<1>3. view' \in [Atomics -> Nat] /\ \A x \in Atomics : view'[x] \in 1 .. Len(hist[x])
  <2>1. \A x \in Atomics : Len(hist[x]) \in Nat /\ Len(hist[x]) > 0
    BY DEF IInv, Typed, Stores
  <2>2. view \in [Atomics -> Nat] /\ \A x \in Atomics : view[x] \in 1 .. Len(hist[x])
    BY DEF IInv, Typed, Views
  <2> QED
    BY <1>1, <2>1, <2>2
<1>4. Typed' /\ Stores' /\ Accounts' /\ FirstBlock'
  BY <1>1, <1>2, <1>3, LooksOnKeeps
<1>5. hist' = hist /\ todo' = todo
  BY <1>1 DEF LooksOn
<1>6. Views'
  <2>1. \A y, z \in Atomics : \A j \in DOMAIN hist[y] : hist[y][j].view[z] \in 1 .. Len(hist[z])
    BY DEF IInv, Views
  <2>2. ASSUME NEW j \in DOMAIN hist["head"], hist["head"][j].value # 0
        PROVE  Knows(hist["head"][j].view, hist["head"][j].value)'
    <3>1. PICK w, b : w = hist["head"][j].view /\ b = hist["head"][j].value
      OBVIOUS
    <3>2. Knows(w, b)
      BY <2>2, <3>1 DEF IInv, Views, Value
    <3>3. Knows(w, b)'
      BY <1>1, <3>2, KnowsStill
    <3> QED
      BY <1>5, <3>1, <3>3 DEF Knows
  <2> QED
    BY <1>3, <1>5, <2>1, <2>2 DEF Views, Value
<1>7. Reading'
  <2>1. local'.sb = 0 /\ local'.head = 0 /\ local'.sum = 0
    BY <1>1
  <2>2. 0 \in 0 .. Len(blocks') /\ 0 \in 0 .. Len(string_blocks') /\ 0 \in 0 .. Word - 1
    BY <1>4, WordPositive DEF Typed
  <2> QED
    BY <1>1, <2>1, <2>2 DEF Reading, CountsFullBlocks, Returned
<1>8. QuietReading'
  <2>1. local'.sum = 0
    BY <1>1
  <2>2. QuietSum'
    BY <1>1, <2>1 DEF QuietSum, ExactWhenQuiet, Returned
  <2> QED
    BY <1>1, <1>5, <2>2 DEF QuietReading
<1> QED
  BY <1>4, <1>6, <1>7, <1>8 DEF IInv

LEMMA LoadStringBlockIInv ==
    ASSUME IInv, LoadStringBlock
    PROVE  IInv'
<1>1. /\ pc = "string_block" /\ LooksOn /\ quiet' = quiet
  BY DEF LoadStringBlock, Reads, LooksOn, owner
<1>2. PICK i : /\ Load("string_block", i)
               /\ local' = [local EXCEPT !.sb = Value("string_block", i)]
               /\ pc' = IF local'.sb = 0 THEN "head" ELSE "unused"
  BY DEF LoadStringBlock
<1>3. PICK v : v = Value("string_block", i)
  OBVIOUS
<1>4. v \in 0 .. Len(string_blocks) /\ (quiet => i = Len(hist["string_block"]))
  BY <1>2, <1>3, LoadView DEF Possible, Atomics
<1>5. /\ string_blocks' = string_blocks /\ blocks' = blocks /\ given' = given
      /\ NoStrings' = NoStrings
      /\ Len(string_blocks) \in Nat
      /\ local \in [sb : Nat, head : Nat, sum : Nat] /\ local.sum \in 0 .. Word - 1
      /\ local.head \in 0 .. Len(blocks)
  BY <1>1, Found
<1>6. /\ local' \in [sb : Nat, head : Nat, sum : Nat]
      /\ local'.sb = v /\ local'.head = local.head /\ local'.sum = local.sum
  <2>1. v \in Nat
    BY <1>4, <1>5
  <2> QED
    BY <1>2, <1>3, <1>5, <2>1
<1>7. pc' = IF v = 0 THEN "head" ELSE "unused"
  BY <1>2, <1>6
<1>8. Reading'
  <2>1. NoStrings => local.sum = 0
    BY <1>1 DEF IInv, Reading
  <2> QED
    BY <1>4, <1>5, <1>6, <1>7, <2>1 DEF Reading, CountsFullBlocks, Returned
<1>9. ASSUME quiet PROVE QuietSum'
  <2>1. v = Final("string_block") /\ Final("string_block") = Len(string_blocks) /\ local.sum = 0
    BY <1>1, <1>3, <1>4, <1>9, QuietValues DEF IInv, Accounts, QuietReading, QuietSum, Atomics
  <2>2. v = 0 => StringsUsed' % Word = 0
    <3>1. v = 0 => NoStrings
      <4>1. string_blocks \in Seq(StringBlockType)
        BY DEF IInv, Typed
      <4> QED
        BY <2>1, <4>1 DEF NoStrings
    <3>2. NoStrings => StringsUsed' = 0
      BY <1>5 DEF StringsUsed
    <3>3. 0 % Word = 0
      BY WordPositive, SmallMod
    <3> QED
      BY <3>1, <3>2, <3>3
  <2> QED
    BY <1>5, <1>6, <1>7, <2>1, <2>2 DEF QuietSum, ExactWhenQuiet, Returned
<1>10. pc' \in Atomics \cup {"idle", "done"} /\ "string_block" \in Atomics
  BY <1>7 DEF Atomics
<1> QED
  BY <1>1, <1>2, <1>6, <1>8, <1>9, <1>10, LookIInv

LEMMA LoadUnusedIInv ==
    ASSUME IInv, LoadUnused
    PROVE  IInv'
<1>1. pc = "unused" /\ LooksOn /\ quiet' = quiet
  BY DEF LoadUnused, Reads, LooksOn, owner
<1>2. PICK i : /\ Load("unused", i)
               /\ local' = [local EXCEPT !.sum =
                     (EffectiveSize(string_blocks[local.sb]) + Word - Value("unused", i)) % Word]
               /\ pc' = "head"
  BY DEF LoadUnused
<1>3. PICK v : v = Value("unused", i)
  OBVIOUS
<1>4. v \in 0 .. Word - 1 /\ (quiet => i = Len(hist["unused"]))
  BY <1>2, <1>3, LoadView DEF Possible, Atomics
<1>5. /\ string_blocks' = string_blocks /\ blocks' = blocks /\ NoStrings' = NoStrings
      /\ Len(string_blocks) \in Nat
      /\ local \in [sb : Nat, head : Nat, sum : Nat] /\ local.head \in 0 .. Len(blocks)
      /\ local.sb \in 0 .. Len(string_blocks)
  BY <1>1, Found
<1>6. local.sb # 0 /\ ~ NoStrings /\ EffectiveSize(string_blocks[local.sb]) \in Int
  <2>1. local.sb # 0
    BY <1>1 DEF IInv, Reading
  <2>2. string_blocks \in Seq(StringBlockType) /\ local.sb \in DOMAIN string_blocks
    BY <1>5, <2>1 DEF IInv, Typed
  <2>3. string_blocks[local.sb] \in StringBlockType
    BY <2>2
  <2> QED
    BY <2>1, <2>2, <2>3, LayoutAssumption DEF NoStrings, EffectiveSize, StringBlockType
<1>7. PICK k \in Int : k = EffectiveSize(string_blocks[local.sb]) - v
  BY <1>4, <1>6, WordPositive
<1>8. PICK s : s = (EffectiveSize(string_blocks[local.sb]) + Word - v) % Word
  OBVIOUS
<1>9. s = k % Word /\ s \in 0 .. Word - 1 /\ s \in Nat
  <2>1. PICK j \in Int : j = EffectiveSize(string_blocks[local.sb]) + Word - v
    BY <1>4, <1>6, WordPositive
  <2>2. j - Word = k
    BY <1>4, <1>6, <1>7, <2>1, WordPositive
  <2>3. (j - Word) % Word = j % Word
    BY <2>1, WordPositive, ModShifts
  <2>4. s = j % Word
    BY <1>8, <2>1
  <2>5. s \in 0 .. Word - 1
    BY <2>4, WordPositive, ModRange
  <2> QED
    BY <2>2, <2>3, <2>4, <2>5, WordPositive
<1>10. /\ local' \in [sb : Nat, head : Nat, sum : Nat]
       /\ local'.sb = local.sb /\ local'.head = local.head /\ local'.sum = s
  BY <1>2, <1>3, <1>5, <1>8, <1>9
<1>11. Reading'
  BY <1>2, <1>5, <1>6, <1>9, <1>10 DEF Reading, CountsFullBlocks, Returned
<1>12. ASSUME quiet PROVE QuietSum'
  <2>1. v = Final("unused") /\ local.sb = Len(string_blocks)
    BY <1>1, <1>3, <1>4, <1>12, QuietValues DEF IInv, QuietReading, QuietSum, Atomics
  <2>2. k = StringsUsed
    BY <1>6, <1>7, <2>1 DEF StringsUsed
  <2>3. StringsUsed' = StringsUsed /\ HeadUsed' = HeadUsed
    <3>1. /\ quiet' \in BOOLEAN /\ pc' \in Atomics \cup {"idle", "done"}
          /\ view' \in [Atomics -> Nat]
      BY <1>1, <1>2, LoadView DEF IInv, Typed, Atomics
    <3> QED
      BY <1>1, <1>10, <3>1, LooksOnKeeps
  <2> QED
    BY <1>2, <1>9, <1>10, <2>2, <2>3 DEF QuietSum, ExactWhenQuiet, Returned
<1>13. pc' \in Atomics \cup {"idle", "done"} /\ "unused" \in Atomics
  BY <1>2 DEF Atomics
<1> QED
  BY <1>1, <1>2, <1>10, <1>11, <1>12, <1>13, LookIInv

LEMMA LoadHeadIInv ==
    ASSUME IInv, LoadHead
    PROVE  IInv'
<1>1. pc = "head" /\ LooksOn /\ quiet' = quiet
  BY DEF LoadHead, Reads, LooksOn, owner
<1>2. PICK i : /\ Load("head", i)
               /\ local' = [local EXCEPT !.head = Value("head", i)]
               /\ pc' = IF local'.head = 0 THEN "done" ELSE "ptr"
  BY DEF LoadHead
<1>3. PICK v : v = Value("head", i)
  OBVIOUS
<1>4. /\ v \in 0 .. Len(blocks) /\ (quiet => i = Len(hist["head"]))
      /\ v # 0 => Knows(view', v)
      /\ view' \in [Atomics -> Nat]
  BY <1>2, <1>3, LoadView DEF Possible, Atomics
<1>5. /\ string_blocks' = string_blocks /\ blocks' = blocks /\ given' = given
      /\ NoStrings' = NoStrings
      /\ Len(blocks) \in Nat /\ Len(string_blocks) \in Nat /\ given \in Nat
      /\ local \in [sb : Nat, head : Nat, sum : Nat] /\ local.sum \in 0 .. Word - 1
      /\ local.sb \in 0 .. Len(string_blocks)
  BY <1>1, Found
<1>6. /\ local' \in [sb : Nat, head : Nat, sum : Nat]
      /\ local'.sb = local.sb /\ local'.head = v /\ local'.sum = local.sum
  <2>1. v \in Nat
    BY <1>4, <1>5
  <2> QED
    BY <1>2, <1>3, <1>5, <2>1
<1>7. pc' = IF v = 0 THEN "done" ELSE "ptr"
  BY <1>2, <1>6
<1>8. v # 0 => Knows(view, local.head)'
  <2>1. PICK w : w = view'
    OBVIOUS
  <2>2. v # 0 => Knows(w, v)'
    BY <1>1, <1>4, <2>1, KnowsStill
  <2> QED
    BY <1>6, <2>1, <2>2 DEF Knows
<1>9. NoStrings => local.sum = 0
  BY <1>1 DEF IInv, Reading
<1>10. NoStrings /\ v = 0 => BoundedOverestimate'
  <2>1. SUFFICES ASSUME NoStrings, v = 0 PROVE BoundedOverestimate'
    OBVIOUS
  <2>2. local.sb = 0
    BY <1>5, <2>1 DEF NoStrings
  <2>3. local'.sum = 0 /\ BlockBytes(local.head)' = 0 /\ StringBlockBytes(local.sb)' = 0
    BY <1>6, <1>9, <2>1, <2>2 DEF BlockBytes, StringBlockBytes
  <2> QED
    BY <1>5, <2>3 DEF BoundedOverestimate
<1>11. Reading'
  <2>1. /\ local'.head \in 0 .. Len(blocks') /\ local'.sb \in 0 .. Len(string_blocks')
        /\ local'.sum \in 0 .. Word - 1
    BY <1>4, <1>5, <1>6
  <2>2. CountsFullBlocks'
    BY <1>6, <1>7 DEF CountsFullBlocks, Returned
  <2>3. pc' = "ptr" => local'.head # 0 /\ Knows(view, local.head)'
    BY <1>6, <1>7, <1>8
  <2>4. pc' \in {"done", "ptr"} /\ (pc' = "done" => v = 0)
    BY <1>7
  <2> QED
    BY <1>5, <1>6, <1>9, <1>10, <2>1, <2>2, <2>3, <2>4 DEF Reading
<1>12. ASSUME quiet PROVE QuietSum'
  <2>1. v = Final("head") /\ Final("head") = Len(blocks) /\ local.sum = StringsUsed % Word
    BY <1>1, <1>3, <1>4, <1>12, QuietValues DEF IInv, Accounts, QuietReading, QuietSum, Atomics
  <2>2. StringsUsed' = StringsUsed /\ HeadUsed' = HeadUsed
    <3>1. /\ quiet' \in BOOLEAN /\ pc' \in Atomics \cup {"idle", "done"}
      BY <1>1, <1>7 DEF IInv, Typed, Atomics
    <3> QED
      BY <1>1, <1>4, <1>6, <3>1, LooksOnKeeps
  <2> QED
    BY <1>5, <1>6, <1>7, <2>1, <2>2 DEF QuietSum, ExactWhenQuiet, Returned
<1>13. pc' \in Atomics \cup {"idle", "done"} /\ "head" \in Atomics
  BY <1>7 DEF Atomics
<1> QED
  BY <1>1, <1>2, <1>6, <1>11, <1>12, <1>13, LookIInv

(* What the reader takes a block for that it found as the head              *)
LEMMA UsedInBlock ==
    ASSUME IInv, NEW b \in 1 .. Len(blocks), NEW p, Possible("ptr", p)
    PROVE  /\ blocks[b] \in Nat /\ blocks[b] <= memory
           /\ UsedOf(p, b) \in Nat /\ UsedOf(p, b) <= blocks[b]
           /\ b = 1 => Reserved <= UsedOf(p, b)
           /\ p.block = b => UsedOf(p, b) = p.offset - BlockHeaderSize
<1>1. /\ p \in Pointers /\ p.block \in Nat /\ p.offset \in Nat
      /\ p.offset <= BlockBytes(p.block)
      /\ p.block > 0 => BlockHeaderSize <= p.offset
      /\ p.block = 1 => Reserved <= p.offset - BlockHeaderSize
  BY DEF Possible, Pointers
<1>2. blocks[b] \in Nat /\ blocks[b] <= memory /\ b \in Nat /\ b > 0
  <2>1. blocks \in Seq(Nat) /\ \A c \in DOMAIN blocks : blocks[c] <= memory
    BY DEF IInv, Typed, Accounts
  <2>2. b \in DOMAIN blocks
    BY <2>1
  <2> QED
    BY <2>1, <2>2
<1>3. BlockBytes(b) = blocks[b]
  BY <1>2 DEF BlockBytes
<1>4. Reserved \in Nat
  BY ReservedFacts
<1>5. p.block = b => /\ UsedOf(p, b) = p.offset - BlockHeaderSize
                     /\ UsedOf(p, b) \in Nat /\ UsedOf(p, b) <= blocks[b]
  BY <1>1, <1>2, <1>3, LayoutAssumption DEF UsedOf, SmallerOf
<1>6. p.block # b => UsedOf(p, b) = blocks[b]
  BY DEF UsedOf
<1>7. b = 1 => Reserved <= blocks[b]
  <2>1. PICK q : q = hist["ptr"][1].value
    OBVIOUS
  <2>2. Possible("ptr", q)
    <3>1. 1 \in DOMAIN hist["ptr"]
      BY SMTT(30) DEF IInv, Typed, Stores, Atomics
    <3> QED
      BY <2>1, <3>1 DEF IInv, Stores, Atomics
  <2>3. q \in Pointers /\ q.offset <= BlockBytes(q.block) /\ q.block <= 1
    BY <2>1, <2>2 DEF Possible, IInv, FirstBlock, Value
  <2>4. q.block \in {0, 1} /\ q.offset \in Nat
    BY <2>3 DEF Pointers
  <2>5. Reserved = IF q.block = 0 THEN 0 ELSE q.offset - BlockHeaderSize
    BY <2>1 DEF Reserved, Value
  <2>6. CASE q.block = 0
    BY <1>2, <2>5, <2>6
  <2>7. CASE q.block = 1
    <3>1. b = 1 => q.offset <= blocks[b]
      BY <1>3, <2>3, <2>7
    <3> QED
      BY <1>2, <2>4, <2>5, <2>7, <3>1, LayoutAssumption
  <2> QED
    BY <2>4, <2>6, <2>7
<1> QED
  BY <1>1, <1>2, <1>4, <1>5, <1>6, <1>7

LEMMA LoadPtrIInv ==
    ASSUME IInv, LoadPtr
    PROVE  IInv'
<1>1. pc = "ptr" /\ LooksOn /\ quiet' = quiet
  BY DEF LoadPtr, Reads, LooksOn, owner
<1>2. PICK i : /\ Load("ptr", i)
               /\ local' = [local EXCEPT !.sum = (@ + UsedOf(Value("ptr", i), local.head)) % Word]
               /\ pc' = "space_used"
  BY DEF LoadPtr
<1>3. PICK p : p = Value("ptr", i)
  OBVIOUS
<1>4. /\ Possible("ptr", p) /\ (quiet => i = Len(hist["ptr"]))
      /\ view' \in [Atomics -> Nat]
      /\ \A b : Knows(view, b) => Knows(view', b)
  BY <1>2, <1>3, LoadView DEF Atomics
<1>5. /\ string_blocks' = string_blocks /\ blocks' = blocks /\ NoStrings' = NoStrings
      /\ Len(blocks) \in Nat
      /\ local \in [sb : Nat, head : Nat, sum : Nat] /\ local.sum \in 0 .. Word - 1
      /\ local.head \in 0 .. Len(blocks) /\ local.sb \in 0 .. Len(string_blocks)
  BY <1>1, Found
<1>6. local.head # 0 /\ Knows(view, local.head) /\ (NoStrings => local.sum = 0)
  BY <1>1 DEF IInv, Reading
<1>7. PICK b \in 1 .. Len(blocks) : b = local.head
  BY <1>5, <1>6
<1>8. PICK u : u = UsedOf(p, b)
  OBVIOUS
<1>9. /\ blocks[b] \in Nat /\ blocks[b] <= memory /\ u \in Nat /\ u <= blocks[b]
      /\ b = 1 => Reserved <= u
      /\ p.block = b => u = p.offset - BlockHeaderSize
  BY <1>4, <1>7, <1>8, UsedInBlock
<1>10. PICK s : s = (local.sum + u) % Word
  OBVIOUS
<1>11. local.sum \in Nat /\ s \in 0 .. Word - 1 /\ s \in Nat
  <2>1. local.sum \in Nat
    BY <1>5
  <2>2. local.sum + u \in Int
    BY <1>9, <2>1
  <2>3. s \in 0 .. Word - 1
    BY <1>10, <2>2, WordPositive, ModRange
  <2> QED
    BY <2>1, <2>3, WordPositive
<1>12. /\ local' \in [sb : Nat, head : Nat, sum : Nat]
       /\ local'.sb = local.sb /\ local'.head = local.head /\ local'.sum = s
  BY <1>2, <1>3, <1>5, <1>7, <1>8, <1>10, <1>11
<1>13. NoStrings => s = u
  <2>1. SUFFICES ASSUME NoStrings PROVE s = u
    OBVIOUS
  <2>2. memory \in Nat /\ 2 * memory < Word
    BY DEF IInv, Typed, Accounts
  <2>3. u \in 0 .. Word - 1
    BY <1>9, <2>2, WordPositive
  <2>4. s = u % Word
    BY <1>6, <1>9, <1>10, <2>1
  <2> QED
    BY <2>3, <2>4, WordPositive, SmallMod
<1>14. Knows(view, local.head)'
  <2>1. PICK w : w = view'
    OBVIOUS
  <2>2. Knows(w, b)
    BY <1>4, <1>6, <1>7, <2>1
  <2>3. Knows(w, b)'
    BY <1>1, <2>2, KnowsStill
  <2> QED
    BY <1>7, <1>12, <2>1, <2>3 DEF Knows
<1>15. /\ quiet' \in BOOLEAN /\ pc' \in Atomics \cup {"idle", "done"}
  BY <1>1, <1>2 DEF IInv, Typed, Atomics
<1>16. StringsUsed' = StringsUsed /\ HeadUsed' = HeadUsed /\ Reserved' = Reserved
  BY <1>1, <1>4, <1>12, <1>15, LooksOnKeeps
<1>17. Reading'
  <2>1. NoStrings => s <= blocks[b] /\ (b = 1 => Reserved <= s)
    BY <1>9, <1>13
  <2>2. CountsFullBlocks'
    BY <1>2 DEF CountsFullBlocks, Returned
  <2> QED
    BY <1>2, <1>5, <1>6, <1>7, <1>11, <1>12, <1>14, <1>16, <2>1, <2>2 DEF Reading
<1>18. ASSUME quiet PROVE QuietSum'
  <2>1. /\ p = Final("ptr") /\ Final("ptr").block = Len(blocks)
        /\ local.sum = StringsUsed % Word /\ b = Len(blocks) /\ todo = <<>>
    BY <1>1, <1>3, <1>4, <1>7, <1>18, QuietValues
       DEF IInv, Accounts, QuietReading, QuietSum, Atomics
  <2>2. u = HeadUsed
    <3>1. blocks # <<>>
      BY <1>7
    <3> QED
      BY <1>9, <2>1, <3>1 DEF HeadUsed
  <2>3. StringsUsed \in Int /\ HeadUsed \in Int
    BY <2>1, AccountTypes
  <2>4. ((StringsUsed % Word) + HeadUsed) % Word = (StringsUsed + HeadUsed) % Word
    BY <2>3, WordPositive, ModAdds
  <2>5. s = (StringsUsed + HeadUsed) % Word
    BY <1>10, <2>1, <2>2, <2>4
  <2> QED
    BY <1>2, <1>5, <1>7, <1>12, <1>16, <2>1, <2>5 DEF QuietSum, ExactWhenQuiet, Returned
<1>19. "ptr" \in Atomics
  BY DEF Atomics
<1> QED
  BY <1>1, <1>2, <1>12, <1>15, <1>17, <1>18, <1>19, LookIInv

(* What is handed out comes from the heap                                   *)
LEMMA FinalPossible ==
    ASSUME IInv, NEW x \in Atomics
    PROVE  Possible(x, Final(x))
<1>1. Typed /\ Stores
  BY DEF IInv
<1>2. CASE \E i \in DOMAIN todo : todo[i].atomic = x
  <2>1. todo \in Seq(StoreType)
    BY <1>1 DEF Typed
  <2>2. PICK i : LastStore(todo, x, i)
    BY <1>2, <2>1, HasLast
  <2>3. Final(x) = todo[i].value
    BY <2>1, <2>2, AfterLast DEF Final
  <2>4. i \in DOMAIN todo /\ todo[i].atomic = x
    BY <2>2 DEF LastStore
  <2>5. Possible(todo[i].atomic, todo[i].value)
    BY <1>1, <2>4 DEF Stores, Planned
  <2> QED
    BY <2>3, <2>4, <2>5
<1>3. CASE \A i \in DOMAIN todo : todo[i].atomic # x
  <2>1. Final(x) = hist[x][Len(hist[x])].value
    BY <1>3, AfterNone DEF Final
  <2>2. Len(hist[x]) \in DOMAIN hist[x]
    BY <1>1 DEF Typed, Stores
  <2>3. Possible(x, hist[x][Len(hist[x])].value)
    BY <1>1, <2>2 DEF Stores
  <2> QED
    BY <2>1, <2>3
<1> QED
  BY <1>2, <1>3

LEMMA GivenFromMemory ==
    ASSUME IInv
    PROVE  given \in Nat /\ memory \in Nat /\ given <= memory /\ 2 * memory < Word
<1>1. /\ given + Final("unused") + (BlockBytes(Len(blocks)) - Final("ptr").offset) <= memory
      /\ 2 * memory < Word /\ Final("ptr").block = Len(blocks)
      /\ given \in Nat /\ memory \in Nat
  BY DEF IInv, Accounts, Typed
<1>2. Possible("unused", Final("unused")) /\ Possible("ptr", Final("ptr"))
  BY FinalPossible DEF Atomics
<1>3. PICK unused \in Nat : unused = Final("unused")
  BY <1>2, WordPositive DEF Possible
<1>4. PICK off \in Nat : off = Final("ptr").offset
  BY <1>2 DEF Possible, Pointers
<1>5. off <= BlockBytes(Len(blocks))
  BY <1>1, <1>2, <1>4 DEF Possible
<1>6. BlockBytes(Len(blocks)) \in Nat
  <2>1. blocks \in Seq(Nat) /\ Len(blocks) \in Nat
    BY DEF IInv, Typed
  <2>2. Len(blocks) # 0 => blocks[Len(blocks)] \in Nat
    BY <2>1
  <2> QED
    BY <2>2 DEF BlockBytes
<1> QED
  BY SMTT(30), <1>1, <1>3, <1>4, <1>5, <1>6

LEMMA LoadSpaceUsedIInv ==
    ASSUME IInv, LoadSpaceUsed
    PROVE  IInv'
<1>1. pc = "space_used" /\ LooksOn /\ quiet' = quiet
  BY DEF LoadSpaceUsed, Reads, LooksOn, owner
<1>2. PICK i : /\ Load("space_used", i)
               /\ local' = [local EXCEPT !.sum = (@ + Value("space_used", i)) % Word]
               /\ pc' = "done"
  BY DEF LoadSpaceUsed
<1>3. PICK v : v = Value("space_used", i)
  OBVIOUS
<1>4. /\ v \in 0 .. Word - 1 /\ v \in Nat /\ (NoStrings => v <= given)
      /\ i \in DOMAIN hist["space_used"] /\ view["space_used"] <= i
      /\ quiet => i = Len(hist["space_used"])
      /\ view' \in [Atomics -> Nat]
  BY <1>2, <1>3, LoadView, WordPositive DEF Possible, Atomics
<1>5. /\ string_blocks' = string_blocks /\ blocks' = blocks /\ given' = given /\ closed' = closed
      /\ NoStrings' = NoStrings
      /\ Len(blocks) \in Nat /\ given \in Nat
      /\ local \in [sb : Nat, head : Nat, sum : Nat] /\ local.sum \in 0 .. Word - 1
      /\ local.head \in 0 .. Len(blocks) /\ local.sb \in 0 .. Len(string_blocks)
      /\ local.sum \in Nat
  BY <1>1, Found
<1>6. local.head # 0 /\ Knows(view, local.head)
  BY <1>1 DEF IInv, Reading
<1>7. PICK b \in 1 .. Len(blocks) : b = local.head
  BY <1>5, <1>6
<1>8. PICK s : s = (local.sum + v) % Word
  OBVIOUS
<1>9. s \in 0 .. Word - 1 /\ s \in Nat
  <2>1. local.sum + v \in Int
    BY <1>4, <1>5
  <2>2. s \in 0 .. Word - 1
    BY <1>8, <2>1, WordPositive, ModRange
  <2> QED
    BY <2>2, WordPositive
<1>10. /\ local' \in [sb : Nat, head : Nat, sum : Nat]
       /\ local'.sb = local.sb /\ local'.head = local.head /\ local'.sum = s
  BY <1>2, <1>3, <1>5, <1>8, <1>9
<1>11. /\ quiet' \in BOOLEAN /\ pc' \in Atomics \cup {"idle", "done"}
  BY <1>1, <1>2 DEF IInv, Typed, Atomics
<1>12. /\ StringsUsed' = StringsUsed /\ HeadUsed' = HeadUsed /\ Reserved' = Reserved
       /\ Reserved \in Nat
  BY <1>1, <1>4, <1>10, <1>11, LooksOnKeeps, ReservedFacts
<1>13. blocks[b] \in Nat /\ blocks[b] <= memory
  <2>1. blocks \in Seq(Nat) /\ \A c \in DOMAIN blocks : blocks[c] <= memory
    BY DEF IInv, Typed, Accounts
  <2>2. b \in DOMAIN blocks
    BY <1>7, <2>1
  <2> QED
    BY <2>1, <2>2
(* Without strings the sum stays below the word                             *)
<1>14. ASSUME NoStrings
       PROVE  /\ s = local.sum + v /\ local.sum <= blocks[b]
              /\ UsedBefore(b - 1) <= v /\ (b = 1 => Reserved <= local.sum)
  <2>1. local.sum <= blocks[b] /\ (b = 1 => Reserved <= local.sum)
    BY <1>1, <1>7, <1>14 DEF IInv, Reading
  <2>2. UsedBefore(b - 1) <= v
    BY <1>3, <1>4, <1>6, <1>7, <1>14 DEF Knows
  <2>3. given <= memory /\ 2 * memory < Word /\ memory \in Nat
    BY GivenFromMemory
  <2>4. PICK j \in Nat : j = local.sum + v
    BY <1>4, <1>5
  <2>5. j \in 0 .. Word - 1
    BY <1>4, <1>5, <1>13, <1>14, <2>1, <2>3, <2>4, WordPositive
  <2>6. j % Word = j
    BY <2>5, WordPositive, SmallMod
  <2> QED
    BY <1>8, <2>1, <2>2, <2>4, <2>6
<1>15. NoStrings => BoundedOverestimate'
  <2>1. SUFFICES ASSUME NoStrings PROVE BoundedOverestimate'
    OBVIOUS
  <2>2. s = local.sum + v /\ local.sum <= blocks[b] /\ v <= given
    BY <1>4, <1>14, <2>1
  <2>3. BlockBytes(local.head)' = blocks[b]
    BY <1>5, <1>6, <1>7, <1>10 DEF BlockBytes
  <2>4. StringBlockBytes(local.sb)' = 0
    <3>1. local.sb = 0
      BY <1>5, <2>1 DEF NoStrings
    <3> QED
      BY <1>10, <3>1 DEF StringBlockBytes
  <2>5. s <= given + blocks[b] + 0
    BY <1>4, <1>5, <1>13, <2>2
  <2> QED
    BY <1>5, <1>10, <2>3, <2>4, <2>5 DEF BoundedOverestimate
<1>16. CountsFullBlocks'
  <2>1. SUFFICES ASSUME NoStrings PROVE s >= UsedBefore(b - 1) /\ s >= Reserved
    <3>1. UsedBefore(local.head - 1)' = UsedBefore(b - 1)
      BY <1>5, <1>7, <1>10 DEF UsedBefore
    <3> QED
      BY <1>5, <1>10, <1>12, <3>1 DEF CountsFullBlocks, NoStrings
  <2>2. Typed /\ Accounts
    BY DEF IInv
  <2>3. Len(closed) = Len(blocks) - 1 /\ b - 1 \in 0 .. Len(closed)
    <3>1. blocks # <<>>
      BY <1>7
    <3> QED
      BY <1>5, <1>7, <2>2, <3>1 DEF Accounts
  <2>4. UsedBefore(b - 1) \in Nat /\ UsedBefore(b - 1) <= v /\ s = local.sum + v
    BY <1>14, <2>1, <2>2, <2>3, UsedGrows
  <2>5. s >= UsedBefore(b - 1)
    BY <1>4, <1>5, <2>4
  <2>6. CASE b = 1
    <3>1. Reserved <= local.sum
      BY <1>14, <2>1, <2>6
    <3> QED
      BY <1>4, <1>5, <1>12, <2>4, <2>5, <3>1
  <2>7. CASE b # 1
    <3>1. 1 \in 0 .. Len(closed) /\ 1 <= b - 1 /\ closed # <<>>
      <4>1. PICK l \in Nat : l = Len(closed)
        BY <2>2 DEF Typed
      <4>2. b - 1 \in 0 .. l /\ b - 1 # 0
        BY <1>5, <1>7, <2>3, <2>7, <4>1
      <4>3. 1 \in 0 .. l /\ 1 <= b - 1 /\ l > 0
        BY <1>7, <4>1, <4>2
      <4> QED
        BY <4>1, <4>3
    <3>2. UsedBefore(1) \in Nat /\ UsedBefore(1) <= UsedBefore(b - 1)
      BY <2>2, <2>3, <3>1, UsedGrows
    <3>3. Reserved <= UsedBefore(1)
      BY <2>2, <3>1 DEF Accounts, UsedBefore
    <3> QED
      BY <1>9, <1>12, <2>4, <2>5, <3>2, <3>3
  <2> QED
    BY <2>6, <2>7
<1>17. Reading'
  BY <1>2, <1>5, <1>9, <1>10, <1>15, <1>16 DEF Reading
<1>18. ASSUME quiet PROVE QuietSum'
  <2>1. v = Final("space_used") /\ local.sum = (StringsUsed + HeadUsed) % Word /\ todo = <<>>
    BY <1>1, <1>3, <1>4, <1>18, QuietValues DEF IInv, QuietReading, QuietSum, Atomics
  <2>2. (Final("space_used") + HeadUsed + StringsUsed) % Word = given
    BY DEF IInv, Accounts
  <2>3. StringsUsed \in Int /\ HeadUsed \in Int /\ Final("space_used") \in Int
    BY <2>1, AccountTypes
  <2>4. PICK j \in Int : j = StringsUsed + HeadUsed
    BY <2>3
  <2>5. ((j % Word) + v) % Word = (j + v) % Word
    <3>1. v \in Int
      BY <1>4
    <3> QED
      BY <2>4, <3>1, WordPositive, ModAdds
  <2>6. j + v = Final("space_used") + HeadUsed + StringsUsed
    BY <2>1, <2>3, <2>4
  <2>7. s = given
    BY <1>8, <2>1, <2>2, <2>4, <2>5, <2>6
  <2> QED
    BY <1>2, <1>5, <1>10, <2>7 DEF QuietSum, ExactWhenQuiet
<1>19. "space_used" \in Atomics
  BY DEF Atomics
<1> QED
  BY <1>1, <1>2, <1>10, <1>11, <1>17, <1>18, <1>19, LookIInv

-----------------------------------------------------------------------------
(* The invariant                                                            *)

LEMMA FirstBlockSize ==
    ASSUME NEW reserved \in {0, SerialArenaSize}, NEW first \in {0, BlockSize(0, reserved)},
           reserved > 0 => first > 0
    PROVE  /\ first \in Nat /\ reserved \in Nat /\ 2 * first < Word
           /\ first > 0 => BlockHeaderSize + reserved <= first
           /\ first = 0 => reserved = 0
<1>1. SerialArenaSize \in Nat /\ reserved \in Nat /\ reserved <= SerialArenaSize
  BY SpaceUsedAssumption
<1>2. PICK s \in Nat : s = BlockSize(0, SerialArenaSize) /\ 2 * s < Word
  BY <1>1, BlockSizes, SpaceUsedAssumption
<1>3. PICK r \in Nat : r = BlockSize(0, reserved) /\ BlockHeaderSize + reserved <= r
  BY <1>1, BlockSizes
<1>4. r <= s
  BY <1>1, <1>2, <1>3, LayoutAssumption DEF BlockSize, AllocationSize, LargerOf
<1>5. first = 0 \/ first = r
  BY <1>3
<1> QED
  BY <1>1, <1>2, <1>3, <1>4, <1>5, WordPositive

LEMMA InitIInv == ASSUME Init PROVE IInv
<1> DEFINE value(x, reserved, first) ==
        CASE x = "ptr" /\ first > 0 -> [block |-> 1, offset |-> BlockHeaderSize + reserved]
          [] x = "ptr" /\ first = 0 -> [block |-> 0, offset |-> 0]
          [] x = "head" /\ first > 0 -> 1
          [] OTHER -> 0
<1>1. PICK reserved \in {0, SerialArenaSize} : \E first \in {0, BlockSize(0, reserved)} :
          /\ reserved > 0 => first > 0
          /\ blocks = IF first > 0 THEN <<first>> ELSE <<>>
          /\ string_blocks = <<>>
          /\ hist = [x \in Atomics |->
                        <<[value |-> value(x, reserved, first), view |-> [y \in Atomics |-> 1]]>>]
          /\ todo = <<>>
          /\ given = reserved /\ closed = <<>> /\ memory = first
          /\ count = 0 /\ quiet = FALSE
          /\ pc = "idle" /\ view = [x \in Atomics |-> 1]
          /\ local = [sb |-> 0, head |-> 0, sum |-> 0]
  BY DEF Init
<1>2. PICK first \in {0, BlockSize(0, reserved)} :
          /\ reserved > 0 => first > 0
          /\ blocks = IF first > 0 THEN <<first>> ELSE <<>>
          /\ string_blocks = <<>>
          /\ hist = [x \in Atomics |->
                        <<[value |-> value(x, reserved, first), view |-> [y \in Atomics |-> 1]]>>]
          /\ todo = <<>>
          /\ given = reserved /\ closed = <<>> /\ memory = first
          /\ count = 0 /\ quiet = FALSE
          /\ pc = "idle" /\ view = [x \in Atomics |-> 1]
          /\ local = [sb |-> 0, head |-> 0, sum |-> 0]
  BY <1>1
<1>3. /\ first \in Nat /\ reserved \in Nat /\ 2 * first < Word
      /\ first > 0 => BlockHeaderSize + reserved <= first
      /\ first = 0 => reserved = 0
      /\ BlockHeaderSize \in Nat
  BY <1>2, FirstBlockSize, LayoutAssumption
<1> DEFINE start == IF first > 0 THEN [block |-> 1, offset |-> BlockHeaderSize + reserved]
                    ELSE [block |-> 0, offset |-> 0]
<1> DEFINE one == IF first > 0 THEN 1 ELSE 0
<1>4. /\ value("ptr", reserved, first) = start
      /\ value("head", reserved, first) = one
      /\ \A x \in {"string_block", "unused", "space_used"} : value(x, reserved, first) = 0
  BY <1>3
<1> HIDE DEF value
<1>5. PICK h : h = hist
  OBVIOUS
<1>6. \A x \in Atomics : h[x] = <<[value |-> value(x, reserved, first), view |-> [y \in Atomics |-> 1]]>>
  BY <1>2, <1>5
<1>7. /\ h["ptr"] = <<[value |-> start, view |-> [y \in Atomics |-> 1]]>>
      /\ h["head"] = <<[value |-> one, view |-> [y \in Atomics |-> 1]]>>
      /\ \A x \in {"string_block", "unused", "space_used"} :
            h[x] = <<[value |-> 0, view |-> [y \in Atomics |-> 1]]>>
  BY <1>4, <1>6 DEF Atomics
<1>8. /\ start \in Pointers /\ start.block = one /\ one \in Nat
      /\ start.offset = (IF first > 0 THEN BlockHeaderSize + reserved ELSE 0)
  BY <1>3 DEF Pointers
<1> HIDE DEF start, one
<1>9. /\ h["ptr"][1].value = start /\ h["head"][1].value = one
      /\ \A x \in {"string_block", "unused", "space_used"} : h[x][1].value = 0
      /\ \A x, y \in Atomics : h[x][1].view[y] = 1
      /\ \A x \in Atomics : Len(h[x]) = 1 /\ \A i \in DOMAIN h[x] : i = 1
  <2>1. /\ h["ptr"][1].value = start /\ h["head"][1].value = one
        /\ \A x \in {"string_block", "unused", "space_used"} : h[x][1].value = 0
    BY <1>7
  <2>2. ASSUME NEW x \in Atomics
        PROVE  /\ Len(h[x]) = 1 /\ \A i \in DOMAIN h[x] : i = 1
               /\ \A y \in Atomics : h[x][1].view[y] = 1
    <3>1. PICK e : e = [value |-> value(x, reserved, first), view |-> [y \in Atomics |-> 1]]
      OBVIOUS
    <3>2. h[x] = <<e>>
      BY <1>6, <3>1
    <3>3. \A y \in Atomics : e.view[y] = 1
      BY <3>1
    <3> QED
      BY <3>2, <3>3
  <2> QED
    BY <2>1, <2>2
<1>10. h \in [Atomics -> Seq(Entry)]
  <2>1. [y \in Atomics |-> 1] \in [Atomics -> Nat]
    OBVIOUS
  <2>2. ASSUME NEW x \in Atomics PROVE h[x] \in Seq(Entry)
    <3>1. PICK w \in [Atomics -> Nat] : w = [y \in Atomics |-> 1]
      BY <2>1
    <3>2. PICK v : h[x] = <<[value |-> v, view |-> w]>> /\ v \in Nat \cup Pointers
      <4>1. CASE x = "ptr"
        BY <1>7, <1>8, <3>1, <4>1
      <4>2. CASE x = "head"
        BY <1>7, <1>8, <3>1, <4>2
      <4>3. CASE x \in {"string_block", "unused", "space_used"}
        BY <1>7, <3>1, <4>3
      <4> QED
        BY <4>1, <4>2, <4>3 DEF Atomics
    <3>3. [value |-> v, view |-> w] \in Entry
      BY <3>2 DEF Entry
    <3> QED
      BY <3>2, <3>3
  <2>3. h = [x \in Atomics |-> h[x]]
    BY <1>2, <1>5
  <2> QED
    BY <2>2, <2>3
<1>11. /\ blocks \in Seq(Nat) /\ Len(blocks) = one
       /\ blocks = <<>> <=> first = 0
       /\ first > 0 => blocks[1] = first
       /\ \A b \in DOMAIN blocks : blocks[b] = first
  BY <1>2, <1>3 DEF one
<1>12. Typed
  <2>1. \A f : f = [x \in Atomics |-> 1] => f \in [Atomics -> Nat]
    OBVIOUS
  <2>2. view \in [Atomics -> Nat]
    BY <1>2, <2>1
  <2>3. /\ string_blocks \in Seq(StringBlockType) /\ closed \in Seq(Nat) /\ todo \in Seq(StoreType)
    BY <1>2
  <2>4. /\ given \in Nat /\ memory \in Nat /\ count \in Nat /\ quiet \in BOOLEAN
        /\ pc \in Atomics \cup {"idle", "done"} /\ local \in [sb : Nat, head : Nat, sum : Nat]
    BY <1>2, <1>3
  <2> QED
    BY <1>5, <1>10, <1>11, <2>2, <2>3, <2>4 DEF Typed
<1>13. BlockBytes(one) = first /\ NoStrings /\ UsedBeforeHead = 0
  BY <1>2, <1>3, <1>11 DEF BlockBytes, NoStrings, UsedBeforeHead, UsedBefore, one
<1>14. Reserved = reserved
  BY <1>3, <1>5, <1>8, <1>9 DEF Reserved, Value, one
<1>15. Stores
  <2>1. ASSUME NEW x \in Atomics, NEW i \in DOMAIN h[x] PROVE Possible(x, h[x][i].value)
    <3>1. i = 1
      BY <1>9
    <3>2. CASE x = "ptr"
      <4>1. PICK v : v = h[x][i].value /\ v = start
        BY <1>9, <3>1, <3>2
      <4>2. v \in Pointers /\ v.block <= Len(blocks) /\ v.offset <= BlockBytes(v.block)
        BY <1>3, <1>8, <1>11, <1>13, <4>1
      <4>3. v.block > 0 => BlockHeaderSize <= v.offset /\ Reserved <= v.offset - BlockHeaderSize
        BY <1>3, <1>8, <1>14, <4>1 DEF one
      <4> QED
        BY <3>2, <4>1, <4>2, <4>3 DEF Possible
    <3>3. CASE x = "head"
      BY <1>8, <1>9, <1>11, <3>1, <3>3 DEF Possible
    <3>4. CASE x \in {"string_block", "unused", "space_used"}
      <4>1. h[x][i].value = 0
        BY <1>9, <3>1, <3>4
      <4>2. 0 % StringSize = 0
        BY LayoutAssumption, SmallMod
      <4>3. 0 \in 0 .. Word - 1 /\ 0 <= given /\ 0 \in 0 .. Len(string_blocks)
        BY <1>2, <1>3, WordPositive
      <4> QED
        BY <3>4, <4>1, <4>2, <4>3 DEF Possible
    <3> QED
      BY <3>2, <3>3, <3>4 DEF Atomics
  <2>2. Planned
    BY <1>2 DEF Planned
  <2> QED
    BY <1>5, <1>9, <2>1, <2>2 DEF Stores
<1>16. Views
  <2>1. ASSUME NEW i \in DOMAIN h["head"], h["head"][i].value # 0
        PROVE  Knows(h["head"][i].view, h["head"][i].value)
    <3>1. i = 1 /\ h["head"][i].value = 1 /\ one = 1
      BY <1>9, <2>1 DEF Atomics, one
    <3>2. \A j \in DOMAIN hist["ptr"] : 1 <= Value("ptr", j).block
      BY <1>5, <1>8, <1>9, <3>1 DEF Value, Atomics
    <3>3. UsedBefore(1 - 1) = 0
      BY DEF UsedBefore
    <3>4. \A j \in DOMAIN hist["space_used"] : UsedBefore(1 - 1) <= Value("space_used", j)
      BY <1>5, <1>9, <3>3 DEF Value, Atomics
    <3> QED
      BY <3>1, <3>2, <3>4 DEF Knows
  <2>2. \A x, y \in Atomics : \A i \in DOMAIN h[x] : h[x][i].view[y] \in 1 .. Len(h[y])
    BY <1>9
  <2>3. \A x \in Atomics : view[x] \in 1 .. Len(h[x])
    BY <1>2, <1>9
  <2> QED
    BY <1>5, <2>1, <2>2, <2>3 DEF Views, Value
<1>17. \A x \in Atomics : Final(x) = h[x][1].value
  <2>1. ASSUME NEW x \in Atomics PROVE Final(x) = h[x][1].value
    <3>1. \A i \in DOMAIN todo : todo[i].atomic # x
      BY <1>2
    <3>2. After(todo, h, x) = h[x][Len(h[x])].value
      BY <3>1, AfterNone
    <3> QED
      BY <1>5, <1>9, <3>2 DEF Final
  <2> QED
    BY <2>1
<1>18. /\ Final("ptr") = start /\ Final("head") = one /\ Final("string_block") = 0
       /\ Final("unused") = 0 /\ Final("space_used") = 0
  BY <1>9, <1>17 DEF Atomics
<1>19. HeadUsed = reserved /\ StringsUsed = 0
  BY <1>3, <1>8, <1>11, <1>13, <1>18 DEF HeadUsed, StringsUsed
<1>20. Accounts
  <2>1. (Final("space_used") + HeadUsed + StringsUsed) % Word = given
    <3>1. reserved \in 0 .. Word - 1
      BY <1>3, WordPositive
    <3>2. reserved % Word = reserved
      BY <3>1, WordPositive, SmallMod
    <3>3. Final("space_used") + HeadUsed + StringsUsed = reserved
      BY <1>3, <1>18, <1>19
    <3> QED
      BY <1>2, <3>2, <3>3
  <2>2. given + Final("unused") + (BlockBytes(Len(blocks)) - Final("ptr").offset) <= memory
    <3>1. /\ BlockBytes(Len(blocks)) = first /\ given = reserved /\ memory = first
          /\ Final("unused") = 0
          /\ Final("ptr").offset = IF first > 0 THEN BlockHeaderSize + reserved ELSE 0
      BY <1>2, <1>8, <1>11, <1>13, <1>18
    <3> QED
      BY <1>3, <3>1
  <2>3. \A b \in DOMAIN blocks : blocks[b] <= memory
    BY <1>2, <1>3, <1>11
  <2>4. Len(closed) = IF blocks = <<>> THEN 0 ELSE Len(blocks) - 1
    BY <1>2, <1>3, <1>11 DEF one
  <2>5. blocks = <<>> => Final("ptr").offset = 0
    BY <1>8, <1>11, <1>18
  <2>6. given = UsedBeforeHead + HeadUsed
    BY <1>2, <1>3, <1>13, <1>19
  <2> QED
    BY <1>2, <1>3, <1>8, <1>11, <1>13, <1>18, <2>1, <2>2, <2>3, <2>4, <2>5, <2>6 DEF Accounts
<1>21. FirstBlock
  BY <1>5, <1>8, <1>9 DEF FirstBlock, Value, one
<1>22. Reading /\ QuietReading
  <2>1. local.head = 0 /\ local.sb = 0 /\ local.sum = 0 /\ pc = "idle" /\ quiet = FALSE
    BY <1>2
  <2>2. 0 \in 0 .. Len(blocks) /\ 0 \in 0 .. Len(string_blocks) /\ 0 \in 0 .. Word - 1
    BY <1>8, <1>11, <1>2, WordPositive
  <2> QED
    BY <2>1, <2>2 DEF Reading, QuietReading, CountsFullBlocks, Returned
<1> QED
  BY <1>12, <1>15, <1>16, <1>20, <1>21, <1>22 DEF IInv

LEMMA NextIInv == ASSUME IInv, Next PROVE IInv'
<1>1. CASE \E n \in Sizes : Allocate(n)
  BY <1>1, AllocateIInv
<1>2. CASE \E n \in Sizes : AllocateInNewBlock(n)
  BY <1>2, NewBlockIInv
<1>3. CASE AllocateString \/ AllocateStringFallback \/ StoreNext
  BY <1>3, AllocateStringIInv, StringFallbackIInv, StoreNextIInv
<1>4. CASE SpaceUsed \/ SpaceUsedSynchronized
  BY <1>4, CallIInv
<1>5. CASE LoadStringBlock \/ LoadUnused \/ LoadHead \/ LoadPtr \/ LoadSpaceUsed
  BY <1>5, LoadStringBlockIInv, LoadUnusedIInv, LoadHeadIInv, LoadPtrIInv, LoadSpaceUsedIInv
<1> QED
  BY <1>1, <1>2, <1>3, <1>4, <1>5 DEF Next

(* A step that changes nothing                                              *)
LEMMA StutterIInv == ASSUME IInv, UNCHANGED vars PROVE IInv'
<1>1. LooksOn /\ quiet' = quiet /\ pc' = pc /\ view' = view /\ local' = local
  BY DEF vars, owner, reader, LooksOn
<1>2. Typed
  BY DEF IInv
<1>3. /\ Typed' /\ Stores' /\ Accounts' /\ FirstBlock'
      /\ NoStrings' = NoStrings /\ Reserved' = Reserved
      /\ HeadUsed' = HeadUsed /\ StringsUsed' = StringsUsed
  BY <1>1, <1>2, LooksOnKeeps DEF Typed
<1>4. /\ blocks' = blocks /\ string_blocks' = string_blocks /\ given' = given
      /\ closed' = closed /\ hist' = hist /\ todo' = todo
  BY <1>1 DEF LooksOn
<1>5. Views'
  BY <1>1, <1>3, <1>4 DEF IInv, Views, Knows, Value, UsedBefore
<1>6. Reading'
  BY <1>1, <1>3, <1>4 DEF IInv, Reading, Knows, Value, UsedBefore, BoundedOverestimate,
                          CountsFullBlocks, Returned, BlockBytes, StringBlockBytes, NoStrings
<1>7. QuietReading'
  BY <1>1, <1>3, <1>4 DEF IInv, QuietReading, QuietSum, ExactWhenQuiet, Returned
<1> QED
  BY <1>3, <1>5, <1>6, <1>7 DEF IInv

(* The invariant is inductive: every store of the owner and every load of   *)
(* the reader keeps it.                                                     *)
THEOREM Inductive == Spec => []IInv
<1>1. Init => IInv
  BY InitIInv
<1>2. IInv /\ [Next]_vars => IInv'
  BY NextIInv, StutterIInv
<1> QED
  BY <1>1, <1>2, PTL DEF Spec

LEMMA IInvTypeOK == ASSUME IInv PROVE TypeOK
<1>1. /\ \A x \in Atomics : view[x] \in 1 .. Len(hist[x])
      /\ pc \in Atomics \cup {"idle", "done"} /\ given \in Nat /\ local.sum \in 0 .. Word - 1
  BY DEF IInv, Views, Typed, Reading
<1>2. ASSUME NEW x \in Atomics PROVE Possible(x, Latest(x))
  <2>1. Len(hist[x]) \in DOMAIN hist[x]
    BY DEF IInv, Typed, Stores
  <2> QED
    BY <2>1 DEF IInv, Stores, Latest
<1>3. /\ \A x \in {"unused", "space_used"} : Latest(x) \in 0 .. Word - 1
      /\ Latest("head") \in 0 .. Len(blocks)
      /\ Latest("string_block") \in 0 .. Len(string_blocks)
  BY <1>2 DEF Possible, Atomics
<1>4. ASSUME NEW i \in DOMAIN hist["ptr"]
      PROVE  Value("ptr", i).offset <= BlockBytes(Value("ptr", i).block)
  <2>1. Possible("ptr", Value("ptr", i))
    BY DEF IInv, Stores, Value, Atomics
  <2> QED
    BY <2>1 DEF Possible
<1> QED
  BY <1>1, <1>3, <1>4 DEF TypeOK

(* Type correctness: every value of the five atomics is a position the      *)
(* blocks have, and the reader never loads what was not stored.             *)
THEOREM TypeCorrect == Spec => []TypeOK
<1>1. IInv => TypeOK
  BY IInvTypeOK
<1> QED
  BY <1>1, Inductive, PTL

(* An arena without strings never reports more than was handed out and the  *)
(* block the reader found, whatever loads raced with AllocateNewBlock.      *)
THEOREM NoLargeOverestimate == Spec => []BoundedWithoutStrings
<1>1. IInv => BoundedWithoutStrings
  BY DEF IInv, Reading, BoundedWithoutStrings, BoundedOverestimate, Returned, NoStrings
<1> QED
  BY <1>1, Inductive, PTL

(* Without strings, the release of head_ makes the accounts of all blocks   *)
(* before it known: SpaceUsed() counts them, and kSerialArenaSize with them. *)
THEOREM FullBlocksCounted == Spec => []CountsFullBlocks
<1>1. IInv => CountsFullBlocks
  BY DEF IInv, Reading
<1> QED
  BY <1>1, Inductive, PTL

(* A synchronized SpaceUsed() is exact, strings, wrap-around of             *)
(* space_used_ and all.                                                     *)
THEOREM ExactWhenSynchronized == Spec => []ExactWhenQuiet
<1>1. IInv => ExactWhenQuiet
  BY DEF IInv, QuietReading, QuietSum, ExactWhenQuiet
<1> QED
  BY <1>1, Inductive, PTL
=============================================================================
