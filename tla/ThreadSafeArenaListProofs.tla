--------------------- MODULE ThreadSafeArenaListProofs ---------------------
(***************************************************************************)
(* Proofs about the chunk list of ThreadSafeArena: what is listed stays    *)
(* listed and nothing is lost, there is no hole when the list is walked,   *)
(* the sizes do not run away, and the arena implements SerialRegistry.     *)
(*                                                                         *)
(* They rest on the invariant IInv of ThreadSafeArenaProofs, which says    *)
(* what a slot may hold; here is what the list as a whole looks like.      *)
(***************************************************************************)
EXTENDS ThreadSafeArenaProofs, FiniteSetTheorems

(* A slot of the list of a holds s. *)
Listed(a, s) ==
    \E k \in 1 .. Len(chunks[a]) : \E i \in Slot(a, k) : chunks[a][k].arenas[i] = s

InHands(a, s) == \E t \in Threads : cur[t] = a /\ pc[t] \in Adding /\ ser[t] = s

LostInv ==
    \A s \in Serials : heap[s] # NULL =>
        \E a \in live : /\ heap[s].arena = a /\ heap[s].id = tag[a]
                        /\ Listed(a, s) \/ InHands(a, s)

(* An empty slot below the size is one that a thread is about to fill. *)
HoleInv ==
    \A a \in live : \A k \in 1 .. Len(chunks[a]) : \A i \in Slot(a, k) :
        i < chunks[a][k].size =>
            \/ chunks[a][k].arenas[i] # NULL
            \/ \E t \in Threads : pc[t] \in Claiming /\ InSlot(t, a, k, i)

FullAt(a, k) == chunks[a][k].size >= chunks[a][k].capacity

(* A thread that comes to add a chunk found the one it goes in front of full. *)
RoomInv ==
    /\ \A a \in live : OnlyHeadHasRoom(a)
    /\ \A t \in Threads : pc[t] \in {"lock", "grow"} /\ hd[t] # 0 => FullAt(cur[t], hd[t])

Busy == {t \in Threads : pc[t] # "idle"}

Failing(a, k) == {t \in Threads : cur[t] = a /\ pc[t] = "full" /\ hd[t] = k}

(* Only finitely many threads are inside arenas: calls begin one by one. *)
SizeInv ==
    /\ IsFiniteSet(Busy)
    /\ \A a \in live : \A k \in 1 .. Len(chunks[a]) :
        chunks[a][k].size <= chunks[a][k].capacity + Cardinality(Failing(a, k))

ListInv == LostInv /\ HoleInv /\ RoomInv /\ SizeInv
-----------------------------------------------------------------------------
(* What the actions do, seen from the list *)

OthersStay(t) ==
    \A u \in Threads : u # t =>
        /\ pc'[u] = pc[u] /\ cur'[u] = cur[u] /\ ser'[u] = ser[u]
        /\ hd'[u] = hd[u] /\ slot'[u] = slot[u]

StaysInside(t) == cur'[t] = cur[t] /\ ser'[t] = ser[t] /\ hd'[t] = hd[t]

(* A step of t that leaves the list alone *)
Quiet(t) ==
    /\ UNCHANGED <<live, tag, first_owner, chunks>>
    /\ OthersStay(t)
    /\ pc[t] \in {"idle", "load", "lock", "alloc"}
    /\ pc'[t] \in {"idle", "load", "lock", "fetch", "grow", "alloc"}
    /\ pc'[t] \in {"lock", "grow"} /\ hd'[t] # 0
         => pc[t] = "lock" /\ hd'[t] = hd[t] /\ cur'[t] = cur[t]
    /\ pc[t] \in {"load", "lock"}
         => pc'[t] \in {"lock", "fetch", "grow"} /\ cur'[t] = cur[t] /\ ser'[t] = ser[t]

LEMMA LoadHeadIsQuiet ==
    ASSUME IInv, NEW t \in Threads, LoadHead(t)
    PROVE  Quiet(t) /\ UNCHANGED heap
BY DEF IInv, TypeOK, LoadHead, Goto, Quiet, OthersStay, shared

LEMMA LockIsQuiet ==
    ASSUME IInv, NEW t \in Threads, Lock(t)
    PROVE  Quiet(t) /\ UNCHANGED heap
BY DEF IInv, TypeOK, Lock, Goto, Quiet, OthersStay

LEMMA FinishIsQuiet ==
    ASSUME IInv, NEW t \in Threads, Finish(t)
    PROVE  Quiet(t) /\ UNCHANGED heap
BY DEF IInv, TypeOK, Finish, Goto, Quiet, OthersStay, shared

LEMMA ThreadExitIsQuiet ==
    ASSUME IInv, NEW t \in Threads, ThreadExit(t)
    PROVE  Quiet(t) /\ UNCHANGED heap
BY DEF IInv, TypeOK, ThreadExit, Quiet, OthersStay, shared

LEMMA FoundIsQuiet ==
    ASSUME IInv, NEW t \in Threads, NEW a \in Arenas,
           GetSerialArenaFast(t, a) \/ FallbackFirstArena(t, a) \/ FallbackFound(t, a)
    PROVE  Quiet(t) /\ UNCHANGED heap
<1>1. PICK s : Allocate(t, s)
  BY DEF GetSerialArenaFast, FallbackFirstArena, FallbackFound
<1>2. /\ Enter(t, a)
      /\ UNCHANGED <<live, tag, first_owner, chunks, heap, hd, slot>>
  BY DEF GetSerialArenaFast, FallbackFirstArena, FallbackFound, shared
<1> QED
  BY <1>1, <1>2 DEF IInv, TypeOK, Enter, Allocate, Quiet, OthersStay

LEMMA NewIsQuiet ==
    ASSUME IInv, NEW t \in Threads, NEW a \in Arenas, FallbackNew(t, a)
    PROVE  /\ Quiet(t)
           /\ a \in live /\ pc'[t] \in Adding /\ cur'[t] = a
           /\ heap' = [heap EXCEPT ![ser'[t]] = [arena |-> a, id |-> tag[a], owner |-> t]]
<1>1. PICK s \in Serials :
        /\ heap' = [heap EXCEPT ![s] = [arena |-> a, id |-> tag[a], owner |-> t]]
        /\ ser' = [ser EXCEPT ![t] = s]
  BY DEF FallbackNew
<1>2. /\ Enter(t, a) /\ pc' = [pc EXCEPT ![t] = "load"]
      /\ UNCHANGED <<live, tag, first_owner, chunks, hd, slot>>
  BY DEF FallbackNew
<1>3. ser'[t] = s
  BY <1>1 DEF IInv, TypeOK
<1> QED
  BY <1>1, <1>2, <1>3 DEF IInv, TypeOK, Enter, Quiet, OthersStay, Adding, Pcs

(* A step of t that writes a slot it claims, and no size *)
Writes(t, s) ==
    /\ UNCHANGED <<live, tag, first_owner, heap>>
    /\ OthersStay(t) /\ StaysInside(t)
    /\ slot'[t] = slot[t]
    /\ pc[t] \in Claiming
    /\ SlotWritten(t, t, s)

LEMMA StoreIdWritesSlot ==
    ASSUME IInv, NEW t \in Threads, StoreId(t)
    PROVE  Writes(t, NULL) /\ pc'[t] = "arenas"
<1>1. SlotWritten(t, t, NULL)
  BY StoreIdWrites
<1>2. /\ pc[t] = "ids" /\ pc' = [pc EXCEPT ![t] = "arenas"]
      /\ UNCHANGED <<live, tag, first_owner, heap, cur, ser, hd, slot>>
  BY DEF StoreId, Goto
<1> QED
  BY <1>1, <1>2 DEF IInv, TypeOK, Writes, OthersStay, StaysInside, Claiming

LEMMA StoreArenaWritesSlot ==
    ASSUME IInv, NEW t \in Threads, StoreArena(t)
    PROVE  /\ Writes(t, ser[t]) /\ pc'[t] = "alloc"
           /\ ser[t] \in Serials /\ ser[t] # NULL
<1>1. SlotWritten(t, t, ser[t])
  BY StoreArenaWrites
<1>2. /\ pc[t] = "arenas" /\ pc' = [pc EXCEPT ![t] = "alloc"]
      /\ UNCHANGED <<live, tag, first_owner, heap, cur, ser, hd, slot>>
  BY DEF StoreArena, Added, Goto
<1>3. ser[t] \in Serials
  BY <1>2 DEF IInv, NewSerialInv, Adding, Pcs
<1> QED
  BY <1>1, <1>2, <1>3, ConstantsAssumption
     DEF IInv, TypeOK, Writes, OthersStay, StaysInside, Claiming

(* A step of t that writes the size of the chunk it inserts into *)
Sizes(t, n) ==
    /\ UNCHANGED <<live, tag, first_owner, heap>>
    /\ OthersStay(t) /\ StaysInside(t)
    /\ pc[t] \in {"fetch", "full"}
    /\ cur[t] \in live /\ hd[t] \in 1 .. Len(chunks[cur[t]])
    /\ ChunkOf(t).size \in Nat /\ ChunkOf(t).capacity \in Nat
    /\ n \in Nat
    /\ SameSlots
    /\ \A b \in Arenas : \A m \in 1 .. Len(chunks[b]) :
         chunks'[b][m].size = IF b = cur[t] /\ m = hd[t] THEN n ELSE chunks[b][m].size

LEMMA FetchAddSizes ==
    ASSUME IInv, NEW t \in Threads, FetchAdd(t)
    PROVE  /\ Sizes(t, ChunkOf(t).size + 1)
           /\ pc[t] = "fetch" /\ slot'[t] = ChunkOf(t).size
           /\ pc'[t] = IF FullAt(cur[t], hd[t]) THEN "full" ELSE "ids"
<1> DEFINE n == ChunkOf(t).size + 1
<1>1. /\ pc[t] = "fetch" /\ pc[t] \in Inserting
      /\ slot' = [slot EXCEPT ![t] = ChunkOf(t).size]
      /\ pc' = [pc EXCEPT ![t] = IF FullAt(cur[t], hd[t]) THEN "full" ELSE "ids"]
      /\ UNCHANGED <<live, tag, first_owner, heap, cur, ser, hd>>
  BY DEF FetchAdd, Goto, ChunkOf, FullAt, Inserting
<1>2. /\ cur[t] \in live /\ hd[t] \in 1 .. Len(chunks[cur[t]]) /\ ChunkOf(t) \in Chunk
  BY <1>1, CallState
<1>3. ChunkOf(t).size \in Nat /\ ChunkOf(t).capacity \in Nat /\ n \in Nat \ {0}
  BY <1>2, MaxCapacityType DEF Chunk
<1>4. WritesSize(t, n)
  BY DEF FetchAdd, WritesSize, ChunkOf
<1> HIDE DEF n
<1>5. /\ SameSlots
      /\ \A b \in Arenas : \A m \in 1 .. Len(chunks[b]) :
           chunks'[b][m].size = IF b = cur[t] /\ m = hd[t] THEN n ELSE chunks[b][m].size
  BY <1>1, <1>3, <1>4, SizeWrite
<1>6. Sizes(t, n)
  BY <1>1, <1>2, <1>3, <1>5 DEF IInv, TypeOK, Sizes, OthersStay, StaysInside
<1> QED
  BY <1>1, <1>6 DEF n, IInv, TypeOK

LEMMA ChunkFullSizes ==
    ASSUME IInv, NEW t \in Threads, ChunkFull(t)
    PROVE  /\ Sizes(t, ChunkOf(t).capacity)
           /\ pc[t] = "full" /\ pc'[t] \in {"grow", "lock"} /\ slot'[t] = slot[t]
           /\ FullAt(cur[t], hd[t])
<1> DEFINE n == ChunkOf(t).capacity
<1>1. /\ pc[t] = "full" /\ pc[t] \in Inserting
      /\ pc' = [pc EXCEPT ![t] = IF HoldsMutex(t) THEN "grow" ELSE "lock"]
      /\ UNCHANGED <<live, tag, first_owner, heap, cur, ser, hd, slot>>
  BY DEF ChunkFull, Goto, Inserting
<1>2. /\ cur[t] \in live /\ hd[t] \in 1 .. Len(chunks[cur[t]]) /\ ChunkOf(t) \in Chunk
  BY <1>1, CallState
<1>3. ChunkOf(t).size \in Nat /\ ChunkOf(t).capacity \in Nat /\ n \in Nat \ {0}
  BY <1>2, MaxCapacityType DEF Chunk
<1>4. WritesSize(t, n)
  BY DEF ChunkFull, WritesSize, ChunkOf
<1>5. FullAt(cur[t], hd[t])
  BY <1>1 DEF IInv, ControlInv, ControlOK, FullAt, ChunkOf
<1> HIDE DEF n
<1>6. /\ SameSlots
      /\ \A b \in Arenas : \A m \in 1 .. Len(chunks[b]) :
           chunks'[b][m].size = IF b = cur[t] /\ m = hd[t] THEN n ELSE chunks[b][m].size
  BY <1>1, <1>3, <1>4, SizeWrite
<1>7. Sizes(t, n)
  BY <1>1, <1>2, <1>3, <1>6 DEF IInv, TypeOK, Sizes, OthersStay, StaysInside
<1> QED
  BY <1>1, <1>5, <1>7 DEF n, IInv, TypeOK

(* The step of t that adds a chunk, which holds the SerialArena of t *)
Extends(t) ==
    /\ UNCHANGED <<live, tag, first_owner, heap>>
    /\ OthersStay(t) /\ StaysInside(t)
    /\ pc[t] = "grow" /\ pc'[t] = "alloc"
    /\ cur[t] \in live /\ cur[t] \in Arenas
    /\ ser[t] \in Serials /\ ser[t] # NULL
    /\ hd[t] = Len(chunks[cur[t]]) /\ hd[t] \in Nat
    /\ \A b \in Arenas : b # cur[t] => chunks'[b] = chunks[b]
    /\ Len(chunks'[cur[t]]) = hd[t] + 1
    /\ \A m \in 1 .. hd[t] : chunks'[cur[t]][m] = chunks[cur[t]][m]
    /\ chunks'[cur[t]][hd[t] + 1].size = 1
    /\ chunks'[cur[t]][hd[t] + 1].capacity \in Nat \ {0}
    /\ chunks'[cur[t]][hd[t] + 1].arenas[0] = ser[t]
    /\ chunks'[cur[t]][hd[t] + 1].ids[0] = t
    /\ \A i \in 1 .. chunks'[cur[t]][hd[t] + 1].capacity - 1 :
         chunks'[cur[t]][hd[t] + 1].arenas[i] = NULL

LEMMA GrowExtends ==
    ASSUME IInv, NEW t \in Threads, Grow(t)
    PROVE  Extends(t)
<1> USE ConstantsAssumption
<1> DEFINE a == cur[t]  n == Len(chunks[a])  cap == NextCapacity(CapacityAt(a, hd[t]))
           c == NewChunk(cap, t, ser[t])
<1>1. /\ pc[t] = "grow" /\ pc[t] \in Adding
      /\ pc' = [pc EXCEPT ![t] = "alloc"]
      /\ UNCHANGED <<live, tag, first_owner, heap, cur, ser, hd, slot>>
  BY DEF Grow, Added, Goto, Adding, Pcs
<1>2. ser[t] \in Serials /\ ser[t] # NULL
  BY <1>1 DEF IInv, NewSerialInv
<1>3. a \in live /\ a \in Arenas /\ chunks[a] \in Seq(Chunk) /\ n \in Nat
  BY <1>1 DEF IInv, TypeOK, ControlInv, ControlOK
<1>4. mutex[a] = t /\ hd[t] = n
  BY <1>1, <1>3 DEF IInv, LockInv
<1>5. cap \in 1 .. MaxCapacity
  <2>1. CapacityAt(a, hd[t]) \in Nat
    <3>1. CASE n = 0
      BY <1>4, <3>1 DEF CapacityAt
    <3>2. CASE n # 0
      <4>1. chunks[a][n] \in Chunk
        BY <1>3, <3>2
      <4> QED
        BY <1>4, <3>2, <4>1, MaxCapacityType DEF CapacityAt, Chunk
    <3> QED
      BY <3>1, <3>2
  <2> QED
    BY <2>1, NextCapacityType
<1>6. c \in Chunk /\ HasSlots(c) /\ cap \in Nat \ {0}
  BY <1>2, <1>5, NewChunkType, MaxCapacityType
<1>7. /\ c.size = 1 /\ c.capacity = cap /\ c.arenas[0] = ser[t] /\ c.ids[0] = t
      /\ \A i \in 1 .. cap - 1 : c.arenas[i] = NULL
  BY <1>6 DEF NewChunk, Slots
<1>8. Adds(a, c)
  BY <1>4 DEF Grow, Adds
<1> HIDE DEF c, cap
<1>9. /\ \A b \in Arenas : b # a => chunks'[b] = chunks[b]
      /\ Len(chunks'[a]) = n + 1
      /\ chunks'[a][n + 1] = c
      /\ \A m \in 1 .. n : chunks'[a][m] = chunks[a][m]
  BY <1>3, <1>6, <1>8, AppendChunk DEF IInv
<1> QED
  BY <1>1, <1>2, <1>3, <1>4, <1>6, <1>7, <1>9 DEF IInv, TypeOK, Extends, OthersStay, StaysInside

(* A step at the beginning or the end of a life of a *)
Renews(t, a) ==
    /\ pc[t] = "idle"
    /\ UNCHANGED <<pc, cur, ser, hd, slot>>
    /\ Quiescent(a)
    /\ live' \subseteq live \cup {a}
    /\ \A b \in Arenas : b # a =>
         /\ tag'[b] = tag[b] /\ chunks'[b] = chunks[b] /\ first_owner'[b] = first_owner[b]
         /\ b \in live <=> b \in live'
    /\ a \in live' => chunks'[a] = <<>> /\ tag'[a] # tag[a] /\ first_owner'[a] = t
    /\ \A s \in Serials :
         /\ heap[s] # NULL /\ heap[s].arena # a => heap'[s] = heap[s]
         /\ heap'[s] = heap[s] \/ heap'[s] = NULL
    /\ a \in live => \A e \in Entries(a) : ArenaAt(a, e) \in Serials => heap'[ArenaAt(a, e)] = NULL

LEMMA LifecycleRenews ==
    ASSUME IInv, NEW t \in Threads, NEW a \in Arenas, Lifecycle(t, a)
    PROVE  Renews(t, a)
<1> USE ConstantsAssumption
<1>0. live \subseteq Arenas /\ \A s : FreeSerials(a) /\ s \in Serials =>
         /\ heap'[s] = heap[s] \/ heap'[s] = NULL
         /\ \A e \in Entries(a) : s = ArenaAt(a, e) => heap'[s] = NULL
  BY DEF FreeSerials, IInv, TypeOK
<1>1. ASSUME InitArena(t, a), live' = live \cup {a}
      PROVE  /\ \A b \in Arenas : b # a =>
                  /\ tag'[b] = tag[b] /\ chunks'[b] = chunks[b]
                  /\ first_owner'[b] = first_owner[b]
             /\ chunks'[a] = <<>> /\ tag'[a] # tag[a] /\ first_owner'[a] = t
  <2>1. /\ \A b \in Arenas : b # a => tag'[b] = tag[b]
        /\ tag[a] # tag'[a]
    BY <1>1, FreshId DEF IInv
  <2>2. /\ chunks' = [chunks EXCEPT ![a] = <<>>]
        /\ first_owner' = [first_owner EXCEPT ![a] = t]
    BY <1>1 DEF InitArena
  <2> QED
    BY <2>1, <2>2 DEF IInv, TypeOK
<1>2. CASE Construct(t, a)
  <2>1. Quiescent(a)
    BY <1>2 DEF IInv, ControlInv, ControlOK, Quiescent, Construct
  <2> QED
    BY <1>0, <1>1, <1>2, <2>1 DEF Construct, Renews
<1>3. CASE Reset(t, a)
  <2>1. /\ a \in live /\ live' = live \cup {a} /\ Quiescent(a) /\ pc[t] = "idle"
        /\ FreeSerials(a) /\ InitArena(t, a) /\ UNCHANGED <<pc, cur, ser, hd, slot>>
    BY <1>3 DEF Reset
  <2>2. \A s \in Serials : heap[s] # NULL /\ heap[s].arena # a => heap'[s] = heap[s]
    BY <2>1, FreesOwn
  <2> QED
    BY <1>0, <1>1, <2>1, <2>2 DEF Renews
<1>4. CASE Destroy(t, a)
  <2>1. /\ a \in live /\ live' = live \ {a} /\ Quiescent(a) /\ pc[t] = "idle"
        /\ FreeSerials(a) /\ UNCHANGED <<tag, first_owner, chunks, pc, cur, ser, hd, slot>>
    BY <1>4 DEF Destroy, locals
  <2>2. \A s \in Serials : heap[s] # NULL /\ heap[s].arena # a => heap'[s] = heap[s]
    BY <2>1, FreesOwn
  <2> QED
    BY <1>0, <2>1, <2>2 DEF Renews
<1> QED
  BY <1>2, <1>3, <1>4 DEF Lifecycle

-----------------------------------------------------------------------------
(* Nothing is lost *)

(* A thread inserting s goes on doing so, or has listed it. *)
LEMMA LostKept ==
    ASSUME IInv, LostInv, UNCHANGED <<live, tag, heap>>,
           \A a \in Arenas, s \in Serials : Listed(a, s) => Listed(a, s)',
           \A u \in Threads, a \in Arenas, s \in Serials :
             pc[u] \in Adding /\ cur[u] = a /\ ser[u] = s =>
               \/ pc'[u] \in Adding /\ cur'[u] = a /\ ser'[u] = s
               \/ Listed(a, s)'
    PROVE  LostInv'
<1> SUFFICES ASSUME NEW s \in Serials, heap[s] # NULL
             PROVE  \E a \in live : /\ heap[s].arena = a /\ heap[s].id = tag[a]
                                    /\ Listed(a, s)' \/ InHands(a, s)'
  BY DEF LostInv
<1>1. PICK a \in live : /\ heap[s].arena = a /\ heap[s].id = tag[a]
                        /\ Listed(a, s) \/ InHands(a, s)
  BY DEF LostInv
<1>2. a \in Arenas
  BY DEF IInv, TypeOK
<1>3. InHands(a, s) => Listed(a, s)' \/ InHands(a, s)'
  BY <1>2 DEF InHands
<1> QED
  BY <1>1, <1>2, <1>3

LEMMA ListedFrame ==
    ASSUME SameSlots, NEW a \in Arenas, NEW s, Listed(a, s)
    PROVE  Listed(a, s)'
BY DEF Listed, SameSlots, Slot

LEMMA LostQuiet ==
    ASSUME IInv, LostInv, NEW t \in Threads, Quiet(t), UNCHANGED heap
    PROVE  LostInv'
<1>1. SameSlots
  BY DEF SameSlots, Quiet
<1>2. \A u \in Threads : pc[u] \in Adding =>
        pc'[u] \in Adding /\ cur'[u] = cur[u] /\ ser'[u] = ser[u]
  BY DEF Quiet, OthersStay, Adding, Pcs
<1> QED
  BY <1>1, <1>2, ListedFrame, LostKept DEF Quiet

LEMMA LostSizes ==
    ASSUME IInv, LostInv, NEW t \in Threads, NEW n, Sizes(t, n), pc'[t] \in Adding
    PROVE  LostInv'
<1>1. SameSlots
  BY DEF Sizes
<1>2. \A u \in Threads : pc[u] \in Adding =>
        pc'[u] \in Adding /\ cur'[u] = cur[u] /\ ser'[u] = ser[u]
  BY DEF Sizes, OthersStay, StaysInside
<1> QED
  BY <1>1, <1>2, ListedFrame, LostKept DEF Sizes

LEMMA ListedWrites ==
    ASSUME IInv, NEW t \in Threads, NEW v, Writes(t, v), NEW a \in Arenas, NEW s \in Serials,
           Listed(a, s)
    PROVE  Listed(a, s)'
<1>1. PICK k \in 1 .. Len(chunks[a]) : \E i \in Slot(a, k) : chunks[a][k].arenas[i] = s
  BY DEF Listed
<1>2. PICK i \in Slot(a, k) : chunks[a][k].arenas[i] = s
  BY <1>1
<1>3. ~InSlot(t, a, k, i)
  BY <1>2, ClaimState, ConstantsAssumption DEF InSlot, Writes
<1>4. k \in 1 .. Len(chunks'[a]) /\ i \in Slot(a, k)' /\ chunks'[a][k].arenas[i] = s
  BY <1>2, <1>3 DEF Writes, SlotWritten, Slot
<1> QED
  BY <1>4 DEF Listed

LEMMA LostStoreId ==
    ASSUME IInv, LostInv, NEW t \in Threads, Writes(t, NULL), pc'[t] = "arenas"
    PROVE  LostInv'
<1>1. \A u \in Threads : pc[u] \in Adding =>
        pc'[u] \in Adding /\ cur'[u] = cur[u] /\ ser'[u] = ser[u]
  BY DEF Writes, OthersStay, StaysInside, Adding, Pcs
<1>2. \A a \in Arenas, s \in Serials : Listed(a, s) => Listed(a, s)'
  BY ListedWrites
<1> QED
  BY <1>1, <1>2, LostKept DEF Writes

LEMMA LostStoreArena ==
    ASSUME IInv, LostInv, NEW t \in Threads, Writes(t, ser[t])
    PROVE  LostInv'
<1>1. PICK a, k, i, v : a = cur[t] /\ k = hd[t] /\ i = slot[t] /\ v = ser[t]
  OBVIOUS
<1>2. Listed(a, v)'
  <2>1. a \in Arenas /\ k \in 1 .. Len(chunks[a]) /\ i \in Slot(a, k)
    BY <1>1, ClaimState DEF Writes
  <2>2. /\ k \in 1 .. Len(chunks'[a]) /\ i \in Slot(a, k)'
        /\ chunks'[a][k].arenas[i] = v
    BY <1>1, <2>1 DEF Writes, SlotWritten, InSlot, Slot
  <2> QED
    BY <2>2 DEF Listed
<1>3. \A u \in Threads, b \in Arenas, s \in Serials :
        pc[u] \in Adding /\ cur[u] = b /\ ser[u] = s =>
          \/ pc'[u] \in Adding /\ cur'[u] = b /\ ser'[u] = s
          \/ Listed(b, s)'
  BY <1>1, <1>2 DEF Writes, OthersStay
<1>4. \A b \in Arenas, s \in Serials : Listed(b, s) => Listed(b, s)'
  BY ListedWrites
<1> QED
  BY <1>3, <1>4, LostKept DEF Writes

LEMMA LostGrow ==
    ASSUME IInv, LostInv, NEW t \in Threads, Extends(t)
    PROVE  LostInv'
<1>1. PICK a, n, v : a = cur[t] /\ n = hd[t] /\ v = ser[t]
  OBVIOUS
<1>2. Listed(a, v)'
  <2>1. n + 1 \in 1 .. Len(chunks'[a])
    BY <1>1 DEF Extends
  <2>2. 0 \in Slot(a, n + 1)' /\ chunks'[a][n + 1].arenas[0] = v
    <3>1. chunks'[a][n + 1].capacity \in Nat \ {0} /\ chunks'[a][n + 1].arenas[0] = v
      BY <1>1 DEF Extends
    <3> QED
      BY <3>1 DEF Slot
  <2> QED
    BY <2>1, <2>2 DEF Listed
<1>3. \A u \in Threads, b \in Arenas, s \in Serials :
        pc[u] \in Adding /\ cur[u] = b /\ ser[u] = s =>
          \/ pc'[u] \in Adding /\ cur'[u] = b /\ ser'[u] = s
          \/ Listed(b, s)'
  BY <1>1, <1>2 DEF Extends, OthersStay
<1>4. ASSUME NEW b \in Arenas, NEW s \in Serials, Listed(b, s) PROVE Listed(b, s)'
  <2>1. \A k \in 1 .. Len(chunks[b]) : k \in 1 .. Len(chunks'[b]) /\ chunks'[b][k] = chunks[b][k]
    BY DEF Extends
  <2> QED
    BY <1>4, <2>1 DEF Listed, Slot
<1> QED
  BY <1>3, <1>4, LostKept DEF Extends

LEMMA LostNew ==
    ASSUME IInv, LostInv, NEW t \in Threads, Quiet(t), NEW a \in live, NEW v \in Serials,
           pc[t] = "idle", pc'[t] \in Adding, cur'[t] = a, ser'[t] = v,
           heap' = [heap EXCEPT ![v] = [arena |-> a, id |-> tag[a], owner |-> t]]
    PROVE  LostInv'
<1> SUFFICES ASSUME NEW s \in Serials, heap'[s] # NULL
             PROVE  \E b \in live : /\ heap'[s].arena = b /\ heap'[s].id = tag[b]
                                    /\ Listed(b, s)' \/ InHands(b, s)'
  BY DEF LostInv, Quiet
<1>1. CASE s = v
  <2>1. heap'[s] = [arena |-> a, id |-> tag[a], owner |-> t]
    BY <1>1 DEF IInv, TypeOK
  <2>2. InHands(a, s)'
    BY <1>1 DEF InHands
  <2> QED
    BY <2>1, <2>2
<1>2. CASE s # v
  <2>1. heap'[s] = heap[s]
    BY <1>2 DEF IInv, TypeOK
  <2>2. PICK b \in live : /\ heap[s].arena = b /\ heap[s].id = tag[b]
                          /\ Listed(b, s) \/ InHands(b, s)
    BY <2>1 DEF LostInv
  <2>3. Listed(b, s) => Listed(b, s)'
    BY DEF Listed, Quiet, Slot
  <2>4. InHands(b, s) => InHands(b, s)'
    <3>1. \A u \in Threads : pc[u] \in Adding => u # t
      BY DEF Adding
    <3> QED
      BY <3>1 DEF InHands, Quiet, OthersStay
  <2> QED
    BY <2>1, <2>2, <2>3, <2>4
<1> QED
  BY <1>1, <1>2

(* A slot that is filled is below the size: the walk of Free reaches it. *)
LEMMA ListedIsEntry ==
    ASSUME IInv, NEW a \in live, NEW k \in 1 .. Len(chunks[a]), NEW i \in Slot(a, k),
           chunks[a][k].arenas[i] # NULL \/ chunks[a][k].ids[i] # NULL
           \/ i < chunks[a][k].size
    PROVE  <<k, i>> \in Entries(a)
<1>1. a \in Arenas /\ chunks[a] \in Seq(Chunk)
  BY DEF IInv, TypeOK
<1>2. SlotOK(a, k, i) /\ chunks[a][k] \in Chunk /\ HasSlots(chunks[a][k])
  BY <1>1 DEF IInv, SlotInv, TypeOK
<1>3. i < chunks[a][k].size
  BY <1>2, MaxCapacityType DEF SlotOK, Slot, Chunk
<1>4. i \in 0 .. SafeSize(chunks[a][k]) - 1
  BY <1>2, <1>3, MaxCapacityType DEF Slot, SafeSize, SmallerOf, Chunk
<1> QED
  BY <1>1, <1>4 DEF Entries

(* Free frees all that the arena has: no thread is inserting. *)
LEMMA LostRenew ==
    ASSUME IInv, LostInv, NEW t \in Threads, NEW a \in Arenas, Renews(t, a)
    PROVE  LostInv'
<1> SUFFICES ASSUME NEW s \in Serials, heap'[s] # NULL
             PROVE  \E b \in live' : /\ heap'[s].arena = b /\ heap'[s].id = tag'[b]
                                     /\ Listed(b, s)' \/ InHands(b, s)'
  BY DEF LostInv
<1>2. heap'[s] = heap[s]
  BY DEF Renews
<1>1. PICK b \in live : /\ heap[s].arena = b /\ heap[s].id = tag[b]
                        /\ Listed(b, s) \/ InHands(b, s)
  BY <1>2 DEF LostInv
<1>3. b \in Arenas
  BY DEF IInv, TypeOK
<1>4. b # a
  <2> SUFFICES ASSUME b = a PROVE FALSE
    OBVIOUS
  <2>1. ~InHands(b, s)
    BY DEF InHands, Renews, Quiescent
  <2>2. PICK k \in 1 .. Len(chunks[a]) : \E i \in Slot(a, k) : chunks[a][k].arenas[i] = s
    BY <1>1, <2>1 DEF Listed
  <2>3. PICK i \in Slot(a, k) : chunks[a][k].arenas[i] = s
    BY <2>2
  <2>4. s # NULL
    BY ConstantsAssumption
  <2>5. <<k, i>> \in Entries(a) /\ ArenaAt(a, <<k, i>>) = s
    BY <1>3, <2>3, <2>4, ListedIsEntry DEF ArenaAt
  <2>6. heap'[s] = NULL
    BY <1>3, <2>5 DEF Renews
  <2> QED
    BY <2>6
<1>5. Listed(b, s)' \/ InHands(b, s)'
  <2>1. Listed(b, s) => Listed(b, s)'
    BY <1>3, <1>4 DEF Listed, Renews, Slot
  <2>2. InHands(b, s) => InHands(b, s)'
    BY DEF InHands, Renews
  <2> QED
    BY <1>1, <2>1, <2>2
<1>6. b \in live' /\ tag'[b] = tag[b]
  BY <1>3, <1>4 DEF Renews
<1> QED
  BY <1>1, <1>2, <1>5, <1>6

-----------------------------------------------------------------------------
(* Holes are only where threads are about to insert *)

Claimed(a, k, i) == \E t \in Threads : pc[t] \in Claiming /\ InSlot(t, a, k, i)

LEMMA HoleQuiet ==
    ASSUME IInv, HoleInv, NEW t \in Threads, Quiet(t)
    PROVE  HoleInv'
<1>1. \A a, k, i : Claimed(a, k, i) => Claimed(a, k, i)'
  BY DEF Claimed, InSlot, Quiet, OthersStay, Claiming
<1> QED
  BY <1>1 DEF HoleInv, Claimed, Quiet, Slot

LEMMA HoleFetchAdd ==
    ASSUME IInv, HoleInv, NEW t \in Threads, Sizes(t, ChunkOf(t).size + 1),
           pc[t] = "fetch", slot'[t] = ChunkOf(t).size,
           pc'[t] = IF FullAt(cur[t], hd[t]) THEN "full" ELSE "ids"
    PROVE  HoleInv'
<1> SUFFICES ASSUME NEW a \in live, NEW k \in 1 .. Len(chunks'[a]), NEW i \in Slot(a, k)',
                    i < chunks'[a][k].size, chunks'[a][k].arenas[i] = NULL
             PROVE  Claimed(a, k, i)'
  BY DEF HoleInv, Claimed, Sizes
<1>1. /\ a \in Arenas /\ k \in 1 .. Len(chunks[a]) /\ i \in Slot(a, k)
      /\ chunks[a][k].arenas[i] = NULL
  BY DEF IInv, TypeOK, Sizes, SameSlots, Slot
<1>2. CASE i < chunks[a][k].size
  <2>1. Claimed(a, k, i)
    BY <1>1, <1>2 DEF HoleInv, Claimed
  <2> QED
    BY <2>1 DEF Claimed, InSlot, Sizes, OthersStay, Claiming
<1>3. CASE ~(i < chunks[a][k].size)
  <2>1. a = cur[t] /\ k = hd[t] /\ chunks'[a][k].size = ChunkOf(t).size + 1
    BY <1>1, <1>3 DEF Sizes
  <2>2. i = ChunkOf(t).size
    BY <1>1, <1>3, <2>1 DEF ChunkOf, Sizes, Slot
  <2>3. ~FullAt(cur[t], hd[t])
    BY SMTT(30), <1>1, <2>1, <2>2 DEF FullAt, ChunkOf, Sizes, Slot
  <2>4. pc'[t] \in Claiming /\ slot'[t] = i /\ cur'[t] = a /\ hd'[t] = k
    BY <2>1, <2>2, <2>3 DEF Claiming, Sizes, StaysInside
  <2> QED
    BY <2>4 DEF Claimed, InSlot
<1> QED
  BY <1>2, <1>3

LEMMA HoleChunkFull ==
    ASSUME IInv, HoleInv, NEW t \in Threads, Sizes(t, ChunkOf(t).capacity), pc[t] = "full",
           FullAt(cur[t], hd[t])
    PROVE  HoleInv'
<1> SUFFICES ASSUME NEW a \in live, NEW k \in 1 .. Len(chunks'[a]), NEW i \in Slot(a, k)',
                    i < chunks'[a][k].size, chunks'[a][k].arenas[i] = NULL
             PROVE  Claimed(a, k, i)'
  BY DEF HoleInv, Claimed, Sizes
<1>1. /\ a \in Arenas /\ k \in 1 .. Len(chunks[a]) /\ i \in Slot(a, k)
      /\ chunks[a][k].arenas[i] = NULL
  BY DEF IInv, TypeOK, Sizes, SameSlots, Slot
<1>2. i < chunks[a][k].size
  <2>1. CASE a = cur[t] /\ k = hd[t]
    BY <1>1, <2>1 DEF FullAt, ChunkOf, Sizes, Slot
  <2>2. CASE ~(a = cur[t] /\ k = hd[t])
    BY <1>1, <2>2 DEF Sizes
  <2> QED
    BY <2>1, <2>2
<1>3. Claimed(a, k, i)
  BY <1>1, <1>2 DEF HoleInv, Claimed
<1> QED
  BY <1>3 DEF Claimed, InSlot, Sizes, OthersStay, Claiming

LEMMA HoleWrites ==
    ASSUME IInv, HoleInv, NEW t \in Threads, NEW v, Writes(t, v),
           pc'[t] \in Claiming \/ v # NULL
    PROVE  HoleInv'
<1> SUFFICES ASSUME NEW a \in live, NEW k \in 1 .. Len(chunks'[a]), NEW i \in Slot(a, k)',
                    i < chunks'[a][k].size, chunks'[a][k].arenas[i] = NULL
             PROVE  Claimed(a, k, i)'
  BY DEF HoleInv, Claimed, Writes
<1>1. /\ a \in Arenas /\ k \in 1 .. Len(chunks[a]) /\ i \in Slot(a, k)
      /\ i < chunks[a][k].size
      /\ chunks'[a][k].arenas[i] = IF InSlot(t, a, k, i) THEN v ELSE chunks[a][k].arenas[i]
  <2>1. a \in Arenas /\ SlotWritten(t, t, v)
    BY DEF IInv, TypeOK, Writes
  <2>2. k \in 1 .. Len(chunks[a]) /\ i \in Slot(a, k)
    BY <2>1 DEF SlotWritten, Slot
  <2> QED
    BY <2>1, <2>2 DEF SlotWritten
<1>2. CASE InSlot(t, a, k, i)
  <2>1. pc'[t] \in Claiming
    BY <1>1, <1>2
  <2> QED
    BY <1>2, <2>1 DEF Claimed, InSlot, Writes, StaysInside
<1>3. CASE ~InSlot(t, a, k, i)
  <2>1. PICK u \in Threads : pc[u] \in Claiming /\ InSlot(u, a, k, i)
    BY <1>1, <1>3 DEF HoleInv
  <2> QED
    BY <1>3, <2>1 DEF Claimed, InSlot, Writes, OthersStay
<1> QED
  BY <1>2, <1>3

LEMMA HoleGrow ==
    ASSUME IInv, HoleInv, NEW t \in Threads, Extends(t)
    PROVE  HoleInv'
<1> SUFFICES ASSUME NEW a \in live, NEW k \in 1 .. Len(chunks'[a]), NEW i \in Slot(a, k)',
                    i < chunks'[a][k].size, chunks'[a][k].arenas[i] = NULL
             PROVE  Claimed(a, k, i)'
  BY DEF HoleInv, Claimed, Extends
<1>1. CASE a = cur[t] /\ k = hd[t] + 1
  BY <1>1 DEF Extends, Slot
<1>2. CASE ~(a = cur[t] /\ k = hd[t] + 1)
  <2>1. a \in Arenas /\ k \in 1 .. Len(chunks[a]) /\ chunks'[a][k] = chunks[a][k]
    <3>1. CASE a = cur[t]
      BY <1>2, <3>1 DEF IInv, TypeOK, Extends
    <3>2. CASE a # cur[t]
      BY <3>2 DEF IInv, TypeOK, Extends
    <3> QED
      BY <3>1, <3>2
  <2>2. Claimed(a, k, i)
    BY <2>1 DEF HoleInv, Claimed, Slot
  <2> QED
    BY <2>2 DEF Claimed, InSlot, Extends, OthersStay, Claiming
<1> QED
  BY <1>1, <1>2

LEMMA HoleRenew ==
    ASSUME IInv, HoleInv, NEW t \in Threads, NEW a \in Arenas, Renews(t, a)
    PROVE  HoleInv'
<1> SUFFICES ASSUME NEW b \in live', NEW k \in 1 .. Len(chunks'[b]), NEW i \in Slot(b, k)',
                    i < chunks'[b][k].size, chunks'[b][k].arenas[i] = NULL
             PROVE  Claimed(b, k, i)'
  BY DEF HoleInv, Claimed
<1>1. b # a /\ b \in live /\ chunks'[b] = chunks[b]
  BY DEF Renews, IInv, TypeOK
<1>2. Claimed(b, k, i)
  BY <1>1 DEF HoleInv, Claimed, Slot
<1> QED
  BY <1>2 DEF Claimed, InSlot, Renews

-----------------------------------------------------------------------------
(* A chunk gets a successor when it is full, and stays full *)

LEMMA RoomKept ==
    ASSUME IInv, RoomInv, NEW t \in Threads, OthersStay(t), live' = live,
           \A a \in Arenas : Len(chunks'[a]) = Len(chunks[a]),
           \A a \in Arenas : \A k \in 1 .. Len(chunks[a]) : FullAt(a, k) => FullAt(a, k)',
           pc'[t] \in {"lock", "grow"} /\ hd'[t] # 0 =>
             /\ cur'[t] = cur[t] /\ hd'[t] = hd[t]
             /\ hd[t] <= Len(chunks[cur[t]]) /\ cur[t] \in Arenas
             /\ FullAt(cur[t], hd[t])
    PROVE  RoomInv'
<1>1. ASSUME NEW a \in live PROVE OnlyHeadHasRoom(a)'
  BY DEF RoomInv, OnlyHeadHasRoom, FullAt, IInv, TypeOK
<1>2. ASSUME NEW u \in Threads, pc'[u] \in {"lock", "grow"}, hd'[u] # 0
      PROVE  FullAt(cur[u], hd[u])'
  <2>1. /\ cur'[u] = cur[u] /\ hd'[u] = hd[u] /\ FullAt(cur[u], hd[u])
        /\ hd[u] <= Len(chunks[cur[u]]) /\ cur[u] \in Arenas
    <3>1. CASE u = t
      BY <1>2, <3>1
    <3>2. CASE u # t
      <4>1. /\ pc[u] \in {"lock", "grow"} /\ cur'[u] = cur[u] /\ hd'[u] = hd[u]
            /\ FullAt(cur[u], hd[u])
        BY <1>2, <3>2 DEF OthersStay, RoomInv
      <4>2. cur[u] \in Arenas
        BY <4>1 DEF IInv, TypeOK, ControlInv, ControlOK
      <4>3. hd[u] <= Len(chunks[cur[u]])
        BY <4>1, <4>2 DEF IInv, TypeOK, ControlInv, ControlOK, LockInv
      <4> QED
        BY <4>1, <4>2, <4>3
    <3> QED
      BY <3>1, <3>2
  <2>2. PICK a, k : a = cur[u] /\ k = hd[u]
    OBVIOUS
  <2>3. k \in 1 .. Len(chunks[a]) /\ a \in Arenas
    BY <1>2, <2>1, <2>2 DEF IInv, TypeOK
  <2>4. FullAt(a, k)'
    BY <2>1, <2>2, <2>3
  <2> QED
    BY <2>1, <2>2, <2>4 DEF FullAt
<1> QED
  BY <1>1, <1>2 DEF RoomInv

LEMMA RoomQuiet ==
    ASSUME IInv, RoomInv, NEW t \in Threads, Quiet(t)
    PROVE  RoomInv'
<1>1. pc'[t] \in {"lock", "grow"} /\ hd'[t] # 0 =>
        /\ cur'[t] = cur[t] /\ hd'[t] = hd[t]
        /\ hd[t] <= Len(chunks[cur[t]]) /\ cur[t] \in Arenas
        /\ FullAt(cur[t], hd[t])
  BY DEF Quiet, RoomInv, IInv, TypeOK, ControlInv, ControlOK
<1> QED
  BY <1>1, RoomKept DEF Quiet, FullAt

LEMMA RoomSizes ==
    ASSUME IInv, RoomInv, NEW t \in Threads, NEW n \in Nat, Sizes(t, n),
           FullAt(cur[t], hd[t]) => n >= ChunkOf(t).capacity,
           pc'[t] \in {"lock", "grow"} => FullAt(cur[t], hd[t])
    PROVE  RoomInv'
<1>1. ASSUME NEW a \in Arenas, NEW k \in 1 .. Len(chunks[a]), FullAt(a, k)
      PROVE  FullAt(a, k)'
  <2>1. CASE a = cur[t] /\ k = hd[t]
    BY <1>1, <2>1 DEF FullAt, Sizes, SameSlots, ChunkOf
  <2>2. CASE ~(a = cur[t] /\ k = hd[t])
    BY <1>1, <2>2 DEF FullAt, Sizes, SameSlots
  <2> QED
    BY <2>1, <2>2
<1>2. /\ cur'[t] = cur[t] /\ hd'[t] = hd[t]
      /\ hd[t] <= Len(chunks[cur[t]]) /\ cur[t] \in Arenas
  BY DEF Sizes, StaysInside, IInv, TypeOK
<1> QED
  BY <1>1, <1>2, RoomKept DEF Sizes, SameSlots

LEMMA RoomWrites ==
    ASSUME IInv, RoomInv, NEW t \in Threads, NEW v, Writes(t, v),
           pc'[t] \in {"arenas", "alloc"}
    PROVE  RoomInv'
<1>1. \A a \in Arenas : Len(chunks'[a]) = Len(chunks[a])
  BY DEF Writes, SlotWritten
<1>2. \A a \in Arenas : \A k \in 1 .. Len(chunks[a]) : FullAt(a, k) => FullAt(a, k)'
  BY DEF FullAt, Writes, SlotWritten
<1> QED
  BY <1>1, <1>2, RoomKept DEF Writes

LEMMA RoomGrow ==
    ASSUME IInv, RoomInv, NEW t \in Threads, Extends(t)
    PROVE  RoomInv'
<1>1. \A b \in Arenas : \A k \in 1 .. Len(chunks[b]) : chunks'[b][k] = chunks[b][k]
  BY DEF Extends
<1>2. ASSUME NEW a \in live PROVE OnlyHeadHasRoom(a)'
  <2>1. a \in Arenas /\ OnlyHeadHasRoom(a)
    BY DEF RoomInv, IInv, TypeOK
  <2>2. CASE a # cur[t]
    BY <2>1, <2>2 DEF Extends, OnlyHeadHasRoom
  <2>3. CASE a = cur[t]
    <3> SUFFICES ASSUME NEW k \in 1 .. Len(chunks'[a]) - 1
                 PROVE  chunks'[a][k].size >= chunks'[a][k].capacity
      BY DEF OnlyHeadHasRoom
    <3>1. Len(chunks'[a]) = Len(chunks[a]) + 1 /\ hd[t] = Len(chunks[a]) /\ hd[t] \in Nat
      BY <2>3 DEF Extends
    <3>2. k \in 1 .. Len(chunks[a])
      BY <3>1
    <3>3. chunks[a][k].size >= chunks[a][k].capacity
      <4>1. CASE k = hd[t]
        <5>1. hd[t] # 0 /\ pc[t] = "grow"
          BY <3>2, <4>1 DEF Extends
        <5>2. FullAt(cur[t], hd[t])
          BY <5>1 DEF RoomInv
        <5> QED
          BY <2>3, <4>1, <5>2 DEF FullAt
      <4>2. CASE k # hd[t]
        BY <2>1, <3>1, <3>2, <4>2 DEF OnlyHeadHasRoom
      <4> QED
        BY <4>1, <4>2
    <3> QED
      BY <1>1, <2>1, <3>2, <3>3
  <2> QED
    BY <2>2, <2>3
<1>3. ASSUME NEW u \in Threads, pc'[u] \in {"lock", "grow"}, hd'[u] # 0
      PROVE  FullAt(cur[u], hd[u])'
  <2>1. /\ pc[u] \in {"lock", "grow"} /\ cur'[u] = cur[u] /\ hd'[u] = hd[u]
        /\ FullAt(cur[u], hd[u])
    BY <1>3 DEF Extends, OthersStay, RoomInv
  <2>2. cur[u] \in Arenas
    BY <2>1 DEF IInv, TypeOK, ControlInv, ControlOK
  <2>3. hd[u] \in 1 .. Len(chunks[cur[u]])
    BY <1>3, <2>1, <2>2 DEF IInv, TypeOK, ControlInv, ControlOK, LockInv
  <2> QED
    BY <1>1, <2>1, <2>2, <2>3 DEF FullAt
<1> QED
  BY <1>2, <1>3 DEF RoomInv, Extends

LEMMA RoomRenew ==
    ASSUME IInv, RoomInv, NEW t \in Threads, NEW a \in Arenas, Renews(t, a)
    PROVE  RoomInv'
<1>1. ASSUME NEW b \in live' PROVE OnlyHeadHasRoom(b)'
  <2>1. CASE b = a
    BY <2>1 DEF Renews, OnlyHeadHasRoom
  <2>2. CASE b # a
    BY <2>2 DEF Renews, OnlyHeadHasRoom, RoomInv, IInv, TypeOK
  <2> QED
    BY <2>1, <2>2
<1>2. ASSUME NEW u \in Threads, pc[u] \in {"lock", "grow"}, hd[u] # 0
      PROVE  FullAt(cur[u], hd[u])'
  <2>1. cur[u] \in Arenas /\ cur[u] # a /\ FullAt(cur[u], hd[u])
    BY <1>2 DEF IInv, TypeOK, ControlInv, ControlOK, RoomInv, Renews, Quiescent
  <2> QED
    BY <2>1 DEF FullAt, Renews
<1> QED
  BY <1>1, <1>2 DEF RoomInv, Renews

-----------------------------------------------------------------------------
(* Sizes exceed capacities by no more than the inserts that fail now *)

LEMMA FailingFinite ==
    ASSUME IsFiniteSet(Busy), NEW a, NEW k
    PROVE  IsFiniteSet(Failing(a, k)) /\ Cardinality(Failing(a, k)) \in Nat
<1>1. Failing(a, k) \subseteq Busy
  BY DEF Failing, Busy
<1>2. IsFiniteSet(Failing(a, k))
  BY <1>1, FS_Subset
<1> QED
  BY <1>2, FS_CardinalityType

(* One step brings one thread into an arena at most. *)
LEMMA BusyStaysFinite ==
    ASSUME IsFiniteSet(Busy), NEW t \in Threads, OthersStay(t)
    PROVE  IsFiniteSet(Busy)'
<1>1. IsFiniteSet(Busy \cup {t})
  BY FS_AddElement
<1>2. Busy' \subseteq Busy \cup {t}
  BY DEF Busy, OthersStay
<1>3. IsFiniteSet(Busy')
  BY <1>1, <1>2, FS_Subset
<1> QED
  BY <1>3

LEMMA SameFailing ==
    ASSUME NEW t \in Threads, OthersStay(t), pc[t] # "full", pc'[t] # "full", NEW a, NEW k
    PROVE  Failing(a, k)' = Failing(a, k)
BY DEF Failing, OthersStay

SizeBound(a, k) == chunks[a][k].size <= chunks[a][k].capacity + Cardinality(Failing(a, k))

LEMMA SizeQuiet ==
    ASSUME IInv, SizeInv, NEW t \in Threads, Quiet(t)
    PROVE  SizeInv'
<1>1. IsFiniteSet(Busy)'
  BY BusyStaysFinite DEF SizeInv, Quiet
<1>2. \A a, k : Failing(a, k)' = Failing(a, k)
  BY SameFailing DEF Quiet
<1> QED
  BY <1>1, <1>2 DEF SizeInv, Quiet

LEMMA SizeWrites ==
    ASSUME IInv, SizeInv, NEW t \in Threads, NEW v, Writes(t, v),
           pc'[t] \in {"arenas", "alloc"}
    PROVE  SizeInv'
<1>1. IsFiniteSet(Busy)'
  BY BusyStaysFinite DEF SizeInv, Writes
<1>2. \A a, k : Failing(a, k)' = Failing(a, k)
  BY SameFailing DEF Writes, Claiming
<1>3. \A a \in live : \A k \in 1 .. Len(chunks'[a]) :
        /\ k \in 1 .. Len(chunks[a])
        /\ chunks'[a][k].size = chunks[a][k].size
        /\ chunks'[a][k].capacity = chunks[a][k].capacity
  BY DEF Writes, SlotWritten, IInv, TypeOK
<1> QED
  BY <1>1, <1>2, <1>3 DEF SizeInv, Writes

LEMMA SizeGrow ==
    ASSUME IInv, SizeInv, NEW t \in Threads, Extends(t)
    PROVE  SizeInv'
<1>1. IsFiniteSet(Busy)'
  BY BusyStaysFinite DEF SizeInv, Extends
<1>2. \A a, k : Failing(a, k)' = Failing(a, k)
  BY SameFailing DEF Extends
<1>3. ASSUME NEW a \in live, NEW k \in 1 .. Len(chunks'[a])
      PROVE  chunks'[a][k].size <= chunks'[a][k].capacity + Cardinality(Failing(a, k))
  <2>1. CASE a = cur[t] /\ k = hd[t] + 1
    <3>1. Cardinality(Failing(a, k)) \in Nat
      BY FailingFinite DEF SizeInv
    <3>2. chunks'[a][k].size = 1 /\ chunks'[a][k].capacity \in Nat \ {0}
      BY <2>1 DEF Extends
    <3> QED
      BY <3>1, <3>2
  <2>2. CASE ~(a = cur[t] /\ k = hd[t] + 1)
    <3>1. k \in 1 .. Len(chunks[a]) /\ chunks'[a][k] = chunks[a][k]
      <4>1. CASE a = cur[t]
        BY <2>2, <4>1 DEF IInv, TypeOK, Extends
      <4>2. CASE a # cur[t]
        BY <4>2 DEF IInv, TypeOK, Extends
      <4> QED
        BY <4>1, <4>2
    <3> QED
      BY <3>1 DEF SizeInv
  <2> QED
    BY <2>1, <2>2
<1> QED
  BY <1>1, <1>2, <1>3 DEF SizeInv, Extends

LEMMA SizeRenew ==
    ASSUME IInv, SizeInv, NEW t \in Threads, NEW a \in Arenas, Renews(t, a)
    PROVE  SizeInv'
<1>1. Busy' = Busy /\ \A b, k : Failing(b, k)' = Failing(b, k)
  BY DEF Busy, Failing, Renews
<1>2. \A b \in live' : \A k \in 1 .. Len(chunks'[b]) : b \in live /\ chunks'[b] = chunks[b]
  BY DEF Renews, IInv, TypeOK
<1> QED
  BY <1>1, <1>2 DEF SizeInv

(* The insert that finds the chunk full counts itself. *)
LEMMA SizeFetchAdd ==
    ASSUME IInv, SizeInv, NEW t \in Threads, Sizes(t, ChunkOf(t).size + 1), pc[t] = "fetch",
           pc'[t] = IF FullAt(cur[t], hd[t]) THEN "full" ELSE "ids"
    PROVE  SizeInv'
<1>1. IsFiniteSet(Busy)'
  BY BusyStaysFinite DEF SizeInv, Sizes
<1>2. ASSUME NEW a \in live, NEW k \in 1 .. Len(chunks'[a])
      PROVE  chunks'[a][k].size <= chunks'[a][k].capacity + Cardinality(Failing(a, k)')
  <2>1. a \in Arenas /\ k \in 1 .. Len(chunks[a])
    BY DEF IInv, TypeOK, Sizes, SameSlots
  <2>2. chunks'[a][k].capacity = chunks[a][k].capacity
    BY <2>1 DEF Sizes, SameSlots
  <2>3. /\ IsFiniteSet(Failing(a, k)) /\ Cardinality(Failing(a, k)) \in Nat
        /\ chunks[a][k].size <= chunks[a][k].capacity + Cardinality(Failing(a, k))
    BY <2>1, FailingFinite DEF SizeInv
  <2>4. CASE a = cur[t] /\ k = hd[t]
    <3>1. chunks'[a][k].size = chunks[a][k].size + 1
      BY <2>1, <2>4 DEF Sizes, ChunkOf
    <3>2. chunks[a][k].size \in Nat /\ chunks[a][k].capacity \in Nat
      BY <2>4 DEF Sizes, ChunkOf
    <3>3. CASE FullAt(cur[t], hd[t])
      <4>1. Failing(a, k)' = Failing(a, k) \cup {t} /\ t \notin Failing(a, k)
        BY <2>4, <3>3 DEF Failing, Sizes, OthersStay, StaysInside
      <4>2. Cardinality(Failing(a, k) \cup {t}) = Cardinality(Failing(a, k)) + 1
        BY <2>3, <4>1, FS_AddElement
      <4> QED
        BY SMTT(30), <2>2, <2>3, <3>1, <3>2, <4>1, <4>2
    <3>4. CASE ~FullAt(cur[t], hd[t])
      <4>1. Failing(a, k)' = Failing(a, k)
        BY <3>4, SameFailing DEF Sizes
      <4> QED
        BY <2>2, <2>3, <2>4, <3>1, <3>2, <3>4, <4>1 DEF FullAt
    <3> QED
      BY <3>3, <3>4
  <2>5. CASE ~(a = cur[t] /\ k = hd[t])
    <3>1. chunks'[a][k].size = chunks[a][k].size
      BY <2>1, <2>5 DEF Sizes
    <3>2. Failing(a, k)' = Failing(a, k)
      BY <2>5 DEF Failing, Sizes, OthersStay, StaysInside
    <3> QED
      BY <2>2, <2>3, <3>1, <3>2
  <2> QED
    BY <2>4, <2>5
<1> QED
  BY <1>1, <1>2 DEF SizeInv, Sizes

(* "Write old value back to avoid potential overflow": one store makes up   *)
(* for all inserts that have failed.                                        *)
LEMMA SizeChunkFull ==
    ASSUME IInv, SizeInv, NEW t \in Threads, Sizes(t, ChunkOf(t).capacity), pc[t] = "full"
    PROVE  SizeInv'
<1>1. IsFiniteSet(Busy)'
  BY BusyStaysFinite DEF SizeInv, Sizes
<1>2. ASSUME NEW a \in live, NEW k \in 1 .. Len(chunks'[a])
      PROVE  chunks'[a][k].size <= chunks'[a][k].capacity + Cardinality(Failing(a, k)')
  <2>1. a \in Arenas /\ k \in 1 .. Len(chunks[a])
    BY DEF IInv, TypeOK, Sizes, SameSlots
  <2>2. chunks'[a][k].capacity = chunks[a][k].capacity
    BY <2>1 DEF Sizes, SameSlots
  <2>3. CASE a = cur[t] /\ k = hd[t]
    <3>1. chunks'[a][k].size = chunks[a][k].capacity /\ chunks[a][k].capacity \in Nat
      BY <2>1, <2>3 DEF Sizes, ChunkOf
    <3>2. Failing(a, k)' \subseteq Busy
      BY DEF Failing, Busy, Sizes, OthersStay
    <3>3. IsFiniteSet(Failing(a, k)')
      BY <3>2, FS_Subset DEF SizeInv
    <3>4. Cardinality(Failing(a, k)') \in Nat
      BY <3>3, FS_CardinalityType
    <3> QED
      BY <2>2, <3>1, <3>4
  <2>4. CASE ~(a = cur[t] /\ k = hd[t])
    <3>1. chunks'[a][k].size = chunks[a][k].size
      BY <2>1, <2>4 DEF Sizes
    <3>2. Failing(a, k)' = Failing(a, k)
      BY <2>4 DEF Failing, Sizes, OthersStay, StaysInside
    <3> QED
      BY <2>1, <2>2, <3>1, <3>2 DEF SizeInv
  <2> QED
    BY <2>3, <2>4
<1> QED
  BY <1>1, <1>2 DEF SizeInv, Sizes

-----------------------------------------------------------------------------
(* The invariant of the list *)

LEMMA QuietStep ==
    ASSUME IInv, ListInv, NEW t \in Threads, Quiet(t), UNCHANGED heap
    PROVE  ListInv'
BY LostQuiet, HoleQuiet, RoomQuiet, SizeQuiet DEF ListInv

LEMMA ListStep ==
    ASSUME IInv, ListInv, NEW t \in Threads, Step(t)
    PROVE  ListInv'
<1>1. CASE LoadHead(t) \/ Lock(t) \/ Finish(t)
  BY <1>1, LoadHeadIsQuiet, LockIsQuiet, FinishIsQuiet, QuietStep
<1>2. CASE FetchAdd(t)
  <2>1. /\ Sizes(t, ChunkOf(t).size + 1)
        /\ pc[t] = "fetch" /\ slot'[t] = ChunkOf(t).size
        /\ pc'[t] = IF FullAt(cur[t], hd[t]) THEN "full" ELSE "ids"
    BY <1>2, FetchAddSizes
  <2>2. pc'[t] \in Adding /\ pc'[t] \notin {"lock", "grow"}
    BY <2>1 DEF Adding, Pcs
  <2>3. PICK n : n = ChunkOf(t).size + 1
    OBVIOUS
  <2>4. n \in Nat /\ (FullAt(cur[t], hd[t]) => n >= ChunkOf(t).capacity)
    BY <2>1, <2>3 DEF Sizes, FullAt, ChunkOf
  <2>5. LostInv'
    BY <2>1, <2>2, <2>3, LostSizes DEF ListInv
  <2>6. RoomInv'
    BY <2>1, <2>2, <2>3, <2>4, RoomSizes DEF ListInv
  <2> QED
    BY <2>1, <2>5, <2>6, HoleFetchAdd, SizeFetchAdd DEF ListInv
<1>3. CASE ChunkFull(t)
  <2>1. /\ Sizes(t, ChunkOf(t).capacity)
        /\ pc[t] = "full" /\ pc'[t] \in {"grow", "lock"} /\ slot'[t] = slot[t]
        /\ FullAt(cur[t], hd[t])
    BY <1>3, ChunkFullSizes
  <2>2. pc'[t] \in Adding
    BY <2>1 DEF Adding, Pcs
  <2>3. PICK n : n = ChunkOf(t).capacity
    OBVIOUS
  <2>4. n \in Nat /\ n >= ChunkOf(t).capacity
    BY <2>1, <2>3 DEF Sizes
  <2>5. LostInv'
    BY <2>1, <2>2, <2>3, LostSizes DEF ListInv
  <2>6. RoomInv'
    BY <2>1, <2>3, <2>4, RoomSizes DEF ListInv
  <2> QED
    BY <2>1, <2>5, <2>6, HoleChunkFull, SizeChunkFull DEF ListInv
<1>4. CASE StoreId(t)
  <2>1. Writes(t, NULL) /\ pc'[t] = "arenas" /\ pc'[t] \in Claiming
    BY <1>4, StoreIdWritesSlot DEF Claiming
  <2> QED
    BY <2>1, LostStoreId, HoleWrites, RoomWrites, SizeWrites DEF ListInv
<1>5. CASE StoreArena(t)
  <2>1. Writes(t, ser[t]) /\ pc'[t] = "alloc" /\ ser[t] # NULL
    BY <1>5, StoreArenaWritesSlot
  <2>2. LostInv'
    BY <2>1, LostStoreArena DEF ListInv
  <2> QED
    BY <2>1, <2>2, HoleWrites, RoomWrites, SizeWrites DEF ListInv
<1>6. CASE Grow(t)
  BY <1>6, GrowExtends, LostGrow, HoleGrow, RoomGrow, SizeGrow DEF ListInv
<1> QED
  BY <1>1, <1>2, <1>3, <1>4, <1>5, <1>6 DEF Step

LEMMA ListCall ==
    ASSUME IInv, ListInv, NEW t \in Threads, NEW a \in Arenas, Call(t, a)
    PROVE  ListInv'
<1>1. CASE GetSerialArenaFast(t, a) \/ FallbackFirstArena(t, a) \/ FallbackFound(t, a)
  BY <1>1, FoundIsQuiet, QuietStep
<1>2. CASE FallbackNew(t, a)
  <2>1. PICK v : v = ser'[t]
    OBVIOUS
  <2>2. /\ Quiet(t) /\ a \in live /\ pc'[t] \in Adding /\ cur'[t] = a
        /\ heap' = [heap EXCEPT ![v] = [arena |-> a, id |-> tag[a], owner |-> t]]
    BY <1>2, <2>1, NewIsQuiet
  <2>3. v \in Serials /\ pc[t] = "idle"
    BY <1>2, <2>1 DEF FallbackNew, Enter, IInv, TypeOK
  <2>4. LostInv'
    BY <2>1, <2>2, <2>3, LostNew DEF ListInv
  <2> QED
    BY <2>2, <2>4, HoleQuiet, RoomQuiet, SizeQuiet DEF ListInv
<1> QED
  BY <1>1, <1>2 DEF Call

LEMMA ListLifecycle ==
    ASSUME IInv, ListInv, NEW t \in Threads, NEW a \in Arenas, Lifecycle(t, a)
    PROVE  ListInv'
BY LifecycleRenews, LostRenew, HoleRenew, RoomRenew, SizeRenew DEF ListInv

LEMMA ListStutter ==
    ASSUME IInv, ListInv, UNCHANGED vars
    PROVE  ListInv'
<1>1. UNCHANGED <<live, tag, chunks, heap, pc, cur, ser, hd, slot>>
  BY DEF vars, shared, locals
<1>2. LostInv'
  BY <1>1 DEF ListInv, LostInv, Listed, InHands, Slot
<1>3. HoleInv'
  BY <1>1 DEF ListInv, HoleInv, InSlot, Slot
<1>4. RoomInv'
  BY <1>1 DEF ListInv, RoomInv, OnlyHeadHasRoom, FullAt
<1>5. SizeInv'
  BY <1>1 DEF ListInv, SizeInv, Busy, Failing
<1> QED
  BY <1>2, <1>3, <1>4, <1>5 DEF ListInv

LEMMA ListInit == Init => ListInv
<1> SUFFICES ASSUME Init PROVE ListInv
  OBVIOUS
<1>1. Busy = {}
  BY DEF Init, Busy
<1>2. LostInv /\ HoleInv
  BY DEF Init, LostInv, HoleInv
<1>3. RoomInv
  BY DEF Init, RoomInv
<1>4. SizeInv
  BY <1>1, FS_EmptySet DEF Init, SizeInv
<1> QED
  BY <1>2, <1>3, <1>4 DEF ListInv

LEMMA ListNext == IInv /\ ListInv /\ [Next]_vars => ListInv'
<1> SUFFICES ASSUME IInv, ListInv, [Next]_vars PROVE ListInv'
  OBVIOUS
<1>1. ASSUME NEW t \in Threads, ThreadExit(t) PROVE ListInv'
  BY <1>1, ThreadExitIsQuiet, QuietStep
<1>2. CASE Next
  BY <1>1, <1>2, ListStep, ListCall, ListLifecycle DEF Next
<1> QED
  BY <1>2, ListStutter

(* The four parts of the list's invariant hold together, over IInv. *)
THEOREM ListInductive == Spec => []ListInv
<1> QED
  BY ListInit, ListNext, Inductive, PTL DEF Spec

(* No SerialArena is ever lost, whatever inserts race and wherever an arena *)
(* is reset or destroyed: each is in the chunk list of its live arena, in   *)
(* an entry the walk of Free reaches, or in the hands of the thread that    *)
(* inserts it.                                                              *)
THEOREM NothingIsLost == Spec => []NoSerialLost
<1>1. IInv /\ ListInv => NoSerialLost
  <2> SUFFICES ASSUME IInv, ListInv, NEW s \in Serials, heap[s] # NULL
               PROVE  /\ heap[s].arena \in live
                      /\ heap[s].id = tag[heap[s].arena]
                      /\ \/ \E e \in Filled(heap[s].arena) : ArenaAt(heap[s].arena, e) = s
                         \/ \E t \in Threads :
                              cur[t] = heap[s].arena /\ pc[t] \in Adding /\ ser[t] = s
    BY DEF NoSerialLost
  <2>1. PICK a \in live : /\ heap[s].arena = a /\ heap[s].id = tag[a]
                          /\ Listed(a, s) \/ InHands(a, s)
    BY DEF ListInv, LostInv
  <2>2. CASE Listed(a, s)
    <3>1. PICK k \in 1 .. Len(chunks[a]) : \E i \in Slot(a, k) : chunks[a][k].arenas[i] = s
      BY <2>2 DEF Listed
    <3>2. PICK i \in Slot(a, k) : chunks[a][k].arenas[i] = s
      BY <3>1
    <3>3. s # NULL
      BY ConstantsAssumption
    <3>4. <<k, i>> \in Filled(a) /\ ArenaAt(a, <<k, i>>) = s
      BY <3>2, <3>3, ListedIsEntry DEF Filled, ArenaAt
    <3> QED
      BY <2>1, <3>4
  <2>3. CASE InHands(a, s)
    BY <2>1, <2>3 DEF InHands
  <2> QED
    BY <2>1, <2>2, <2>3
<1> QED
  BY <1>1, Inductive, ListInductive, PTL

(* An entry of the list is a slot of one of its chunks, below the size. *)
LEMMA EntryIsSlot ==
    ASSUME IInv, NEW a \in live, NEW e \in Entries(a)
    PROVE  /\ e = <<e[1], e[2]>>
           /\ e[1] \in 1 .. Len(chunks[a]) /\ e[2] \in Slot(a, e[1])
           /\ e[2] < chunks[a][e[1]].size
<1>1. PICK k \in DOMAIN chunks[a] : e \in {<<k, i>> : i \in 0 .. SafeSize(chunks[a][k]) - 1}
  BY DEF Entries
<1>2. PICK i \in 0 .. SafeSize(chunks[a][k]) - 1 : e = <<k, i>>
  BY <1>1
<1>3. k \in 1 .. Len(chunks[a]) /\ chunks[a][k] \in Chunk
  BY DEF IInv, TypeOK
<1>4. i \in Slot(a, k) /\ i < chunks[a][k].size
  BY <1>3, MaxCapacityType DEF Slot, SafeSize, SmallerOf, Chunk
<1> QED
  BY <1>2, <1>3, <1>4

(* When no thread is inside an arena its list has no holes, at all times    *)
(* only the head has room, and no size runs away from its capacity.         *)
THEOREM ListIsSound == Spec => []ChunkListSound
<1>1. IInv /\ ListInv => ChunkListSound
  <2> SUFFICES ASSUME IInv, ListInv, NEW a \in live
               PROVE  NoHoles(a) /\ OnlyHeadHasRoom(a) /\ SizeNearCapacity(a)
    BY DEF ChunkListSound
  <2>1. NoHoles(a)
    <3> SUFFICES ASSUME Quiescent(a), NEW e \in Entries(a) PROVE ArenaAt(a, e) # NULL
      BY DEF NoHoles, Filled
    <3>1. /\ e[1] \in 1 .. Len(chunks[a]) /\ e[2] \in Slot(a, e[1])
          /\ e[2] < chunks[a][e[1]].size
      BY EntryIsSlot
    <3>2. PICK k, i : k = e[1] /\ i = e[2]
      OBVIOUS
    <3>3. ~Claimed(a, k, i)
      BY DEF Claimed, InSlot, Quiescent
    <3> QED
      BY <3>1, <3>2, <3>3 DEF ListInv, HoleInv, Claimed, ArenaAt
  <2>2. OnlyHeadHasRoom(a)
    BY DEF ListInv, RoomInv
  <2>3. SizeNearCapacity(a)
    <3>1. DOMAIN chunks[a] = 1 .. Len(chunks[a])
      BY DEF IInv, TypeOK
    <3> QED
      BY <3>1 DEF ListInv, SizeInv, SizeNearCapacity, Failing
  <2> QED
    BY <2>1, <2>2, <2>3
<1> QED
  BY <1>1, Inductive, ListInductive, PTL

-----------------------------------------------------------------------------
(* Entries are stable *)

(* In one life of an arena a filled slot keeps its place and what it holds. *)
LEMMA SlotKept ==
    ASSUME IInv, [Next]_vars, NEW a \in Arenas, a \in live, a \in live', tag'[a] = tag[a],
           NEW k \in 1 .. Len(chunks[a]), NEW i \in Slot(a, k), chunks[a][k].arenas[i] # NULL
    PROVE  /\ k \in 1 .. Len(chunks'[a]) /\ i \in Slot(a, k)'
           /\ chunks'[a][k].arenas[i] = chunks[a][k].arenas[i]
           /\ chunks'[a][k].ids[i] = chunks[a][k].ids[i]
<1> DEFINE Kept ==
           /\ k \in 1 .. Len(chunks'[a]) /\ i \in Slot(a, k)'
           /\ chunks'[a][k].arenas[i] = chunks[a][k].arenas[i]
           /\ chunks'[a][k].ids[i] = chunks[a][k].ids[i]
<1>1. ASSUME chunks' = chunks PROVE Kept
  BY <1>1 DEF Slot
<1>2. ASSUME SameSlots PROVE Kept
  BY <1>2 DEF SameSlots, Slot
<1>3. ASSUME NEW t \in Threads, NEW v, Writes(t, v) PROVE Kept
  <2>1. ~InSlot(t, a, k, i)
    BY <1>3, ClaimState DEF InSlot, Writes
  <2> QED
    BY <1>3, <2>1 DEF Writes, SlotWritten, Slot
<1>4. ASSUME NEW t \in Threads, Extends(t) PROVE Kept
  <2>1. k \in 1 .. Len(chunks'[a]) /\ chunks'[a][k] = chunks[a][k]
    BY <1>4 DEF Extends
  <2> QED
    BY <2>1 DEF Slot
<1> HIDE DEF Kept
<1>5. ASSUME NEW t \in Threads, Step(t) PROVE Kept
  <2>1. CASE LoadHead(t) \/ Lock(t) \/ Finish(t)
    BY <1>1, <2>1, LoadHeadIsQuiet, LockIsQuiet, FinishIsQuiet DEF Quiet
  <2>2. CASE FetchAdd(t)
    BY <1>2, <2>2, FetchAddSizes DEF Sizes
  <2>3. CASE ChunkFull(t)
    BY <1>2, <2>3, ChunkFullSizes DEF Sizes
  <2>4. CASE StoreId(t)
    BY <1>3, <2>4, StoreIdWritesSlot
  <2>5. CASE StoreArena(t)
    BY <1>3, <2>5, StoreArenaWritesSlot
  <2>6. CASE Grow(t)
    BY <1>4, <2>6, GrowExtends
  <2> QED
    BY <1>5, <2>1, <2>2, <2>3, <2>4, <2>5, <2>6 DEF Step
<1>6. ASSUME NEW t \in Threads, NEW b \in Arenas, Call(t, b) PROVE Kept
  BY <1>1, <1>6, FoundIsQuiet, NewIsQuiet DEF Call, Quiet
<1>7. ASSUME NEW t \in Threads, NEW b \in Arenas, Lifecycle(t, b) PROVE Kept
  <2>1. Renews(t, b)
    BY <1>7, LifecycleRenews
  <2>2. a # b
    BY <2>1 DEF Renews
  <2>3. chunks'[a] = chunks[a]
    BY <2>1, <2>2 DEF Renews
  <2> QED
    BY <2>3 DEF Kept, Slot
<1>8. ASSUME NEW t \in Threads, ThreadExit(t) PROVE Kept
  BY <1>1, <1>8, ThreadExitIsQuiet DEF Quiet
<1>9. ASSUME UNCHANGED vars PROVE Kept
  BY <1>1, <1>9 DEF vars, shared
<1>10. ASSUME Next PROVE Kept
  BY <1>5, <1>6, <1>7, <1>8, <1>10 DEF Next
<1>11. Kept
  BY <1>9, <1>10
<1> QED
  BY <1>11 DEF Kept

(* A filled slot is an entry of the walk. *)
LEMMA FilledIsEntry ==
    IInv => \A a \in live : \A k \in 1 .. Len(chunks[a]) : \A i \in Slot(a, k) :
              chunks[a][k].arenas[i] # NULL => <<k, i>> \in Filled(a)
BY ListedIsEntry DEF Filled, ArenaAt

LEMMA FilledIsEntryNext ==
    IInv' => (\A a \in live : \A k \in 1 .. Len(chunks[a]) : \A i \in Slot(a, k) :
               chunks[a][k].arenas[i] # NULL => <<k, i>> \in Filled(a))'
BY FilledIsEntry, PTL

(* An entry, once written, is only dropped by Reset or Destroy: no insert   *)
(* overwrites another's slot and no chunk is unlinked by a racing one.      *)
THEOREM EntriesAreStable == Spec => EntriesStable
<1> DEFINE Stable ==
        \A a \in Arenas : a \in live \cap live' /\ tag'[a] = tag[a] =>
            \A e \in Filled(a) : e \in Filled(a)' /\ ArenaAt(a, e)' = ArenaAt(a, e)
<1>1. IInv /\ [Next]_vars => Stable
  <2> SUFFICES ASSUME IInv, [Next]_vars,
                      NEW a \in Arenas, a \in live, a \in live', tag'[a] = tag[a],
                      NEW e \in Filled(a)
               PROVE  e \in Filled(a)' /\ ArenaAt(a, e)' = ArenaAt(a, e)
    OBVIOUS
  <2>1. PICK k, i : k = e[1] /\ i = e[2]
    OBVIOUS
  <2>2. /\ e = <<k, i>> /\ k \in 1 .. Len(chunks[a]) /\ i \in Slot(a, k)
        /\ chunks[a][k].arenas[i] # NULL /\ chunks[a][k].arenas[i] = ArenaAt(a, e)
    BY <2>1, EntryIsSlot DEF Filled, ArenaAt
  <2>3. /\ k \in 1 .. Len(chunks'[a]) /\ i \in Slot(a, k)'
        /\ chunks'[a][k].arenas[i] = chunks[a][k].arenas[i]
    BY <2>2, SlotKept
  <2>4. IInv'
    BY NextStep
  <2>5. <<k, i>> \in Filled(a)'
    BY <2>2, <2>3, <2>4, FilledIsEntryNext
  <2> QED
    BY <2>1, <2>2, <2>3, <2>5 DEF ArenaAt
<1>2. Spec => [][Stable]_vars
  BY <1>1, Inductive, PTL DEF Spec
<1> QED
  BY <1>2 DEF EntriesStable

-----------------------------------------------------------------------------
(* The registry *)

(* Thread t has the SerialArena s in the list of a. *)
Has(a, t, s) ==
    \E k \in 1 .. Len(chunks[a]) : \E i \in Slot(a, k) :
        chunks[a][k].ids[i] = t /\ chunks[a][k].arenas[i] = s /\ s # NULL

(* No thread has a SerialArena in an arena whose first one is its own. *)
StrangerInv ==
    \A s \in Serials : heap[s] # NULL =>
        \A a \in Arenas, t \in Threads :
            heap[s].arena = a /\ heap[s].owner = t => first_owner[a] # t

LEMMA HasMeans ==
    IInv => \A a \in live, t \in Threads : \A s :
              Has(a, t, s) => s \in Serials /\ heap[s] = [arena |-> a, id |-> tag[a], owner |-> t]
<1> SUFFICES ASSUME IInv, NEW a \in live, NEW t \in Threads, NEW s, Has(a, t, s)
             PROVE  s \in Serials /\ heap[s] = [arena |-> a, id |-> tag[a], owner |-> t]
  OBVIOUS
<1>1. PICK k \in 1 .. Len(chunks[a]) : \E i \in Slot(a, k) :
        chunks[a][k].ids[i] = t /\ chunks[a][k].arenas[i] = s /\ s # NULL
  BY DEF Has
<1>2. PICK i \in Slot(a, k) :
        chunks[a][k].ids[i] = t /\ chunks[a][k].arenas[i] = s /\ s # NULL
  BY <1>1
<1>3. SlotOK(a, k, i)
  BY DEF IInv, SlotInv
<1> QED
  BY <1>2, <1>3 DEF SlotOK

LEMMA HasOnce ==
    ASSUME IInv, NEW a \in live, NEW t \in Threads,
           NEW k \in 1 .. Len(chunks[a]), NEW i \in Slot(a, k), chunks[a][k].ids[i] = t,
           NEW m \in 1 .. Len(chunks[a]), NEW j \in Slot(a, m), chunks[a][m].ids[j] = t
    PROVE  k = m /\ i = j
<1>1. OneSlotInv
  BY DEF IInv
<1> QED
  BY <1>1, ConstantsAssumption DEF OneSlotInv

(* What the arena knows of thread t *)
LEMMA RegisteredMeans ==
    IInv => \A a \in Arenas, t \in Threads :
              /\ a \notin live => Registered(a, t) = NULL
              /\ a \in live /\ first_owner[a] = t => Registered(a, t) = a
              /\ a \in live /\ first_owner[a] # t =>
                   /\ \A s : Has(a, t, s) => Registered(a, t) = s
                   /\ (\A s : ~Has(a, t, s)) => Registered(a, t) = NULL
<1> SUFFICES ASSUME IInv, NEW a \in Arenas, NEW t \in Threads, a \in live, first_owner[a] # t
             PROVE  /\ \A s : Has(a, t, s) => Registered(a, t) = s
                    /\ (\A s : ~Has(a, t, s)) => Registered(a, t) = NULL
  BY DEF Registered
<1> DEFINE mine == {e \in Filled(a) : IdAt(a, e) = t}
<1>1. /\ mine = {} => Registered(a, t) = NULL
      /\ mine # {} => Registered(a, t) = ArenaAt(a, CHOOSE e \in mine : TRUE)
  BY DEF Registered
<1>2. ASSUME NEW e \in mine
      PROVE  /\ e = <<e[1], e[2]>> /\ e[1] \in 1 .. Len(chunks[a]) /\ e[2] \in Slot(a, e[1])
             /\ chunks[a][e[1]].ids[e[2]] = t
             /\ chunks[a][e[1]].arenas[e[2]] = ArenaAt(a, e) /\ ArenaAt(a, e) # NULL
  BY EntryIsSlot DEF Filled, IdAt, ArenaAt
<1>3. ASSUME NEW s, Has(a, t, s) PROVE Registered(a, t) = s
  <2>1. PICK k \in 1 .. Len(chunks[a]) : \E i \in Slot(a, k) :
          chunks[a][k].ids[i] = t /\ chunks[a][k].arenas[i] = s /\ s # NULL
    BY <1>3 DEF Has
  <2>2. PICK i \in Slot(a, k) :
          chunks[a][k].ids[i] = t /\ chunks[a][k].arenas[i] = s /\ s # NULL
    BY <2>1
  <2>3. <<k, i>> \in mine
    BY <2>2, FilledIsEntry DEF IdAt
  <2>4. PICK e \in mine : e = CHOOSE f \in mine : TRUE
    BY <2>3
  <2>5. PICK m, j : m = e[1] /\ j = e[2]
    OBVIOUS
  <2>6. /\ m \in 1 .. Len(chunks[a]) /\ j \in Slot(a, m)
        /\ chunks[a][m].ids[j] = t /\ chunks[a][m].arenas[j] = ArenaAt(a, e)
    BY <1>2, <2>5
  <2>7. k = m /\ i = j
    BY <2>2, <2>6, HasOnce
  <2> HIDE DEF mine
  <2> QED
    BY <1>1, <2>2, <2>3, <2>4, <2>6, <2>7
<1>4. ASSUME \A s : ~Has(a, t, s) PROVE Registered(a, t) = NULL
  <2>1. ASSUME NEW e \in mine PROVE FALSE
    <3>1. PICK m, j : m = e[1] /\ j = e[2]
      OBVIOUS
    <3>2. /\ m \in 1 .. Len(chunks[a]) /\ j \in Slot(a, m)
          /\ chunks[a][m].ids[j] = t
          /\ chunks[a][m].arenas[j] = ArenaAt(a, e) /\ ArenaAt(a, e) # NULL
      BY <1>2, <3>1
    <3>3. Has(a, t, ArenaAt(a, e))
      BY <3>2 DEF Has
    <3> QED
      BY <1>4, <3>3
  <2> QED
    BY <1>1, <2>1
<1> QED
  BY <1>3, <1>4

LEMMA RegisteredMeansNext ==
    IInv' => (\A a \in Arenas, t \in Threads :
               /\ a \notin live => Registered(a, t) = NULL
               /\ a \in live /\ first_owner[a] = t => Registered(a, t) = a
               /\ a \in live /\ first_owner[a] # t =>
                    /\ \A s : Has(a, t, s) => Registered(a, t) = s
                    /\ (\A s : ~Has(a, t, s)) => Registered(a, t) = NULL)'
BY RegisteredMeans, PTL

LEMMA SameRegistered ==
    ASSUME IInv, IInv', NEW a \in Arenas, NEW t \in Threads, a \in live <=> a \in live',
           first_owner'[a] = first_owner[a],
           a \in live => \A s : Has(a, t, s) <=> Has(a, t, s)'
    PROVE  Registered(a, t)' = Registered(a, t)
<1>1. CASE a \notin live \/ first_owner[a] = t
  BY <1>1, RegisteredMeans, RegisteredMeansNext
<1>2. CASE a \in live /\ first_owner[a] # t
  <2>1. CASE \E s : Has(a, t, s)
    BY <1>2, <2>1, RegisteredMeans, RegisteredMeansNext
  <2>2. CASE \A s : ~Has(a, t, s)
    BY <1>2, <2>2, RegisteredMeans, RegisteredMeansNext
  <2> QED
    BY <2>1, <2>2
<1> QED
  BY <1>1, <1>2

(* A SerialArena that a thread outside an arena may use is the one it is    *)
(* registered with: a cached pointer, and what the search finds.            *)
LEMMA OwnIsRegistered ==
    ASSUME IInv, ListInv, StrangerInv, NEW t \in Threads, NEW a \in live, NEW s,
           pc[t] = "idle", OwnSerial(t, a, s)
    PROVE  Registered(a, t) = s
<1>1. a \in Arenas /\ tag[a] \in Ids
  BY DEF IInv, TypeOK, IdInv
<1>2. CASE s = a /\ first_owner[a] = t
  BY <1>1, <1>2, RegisteredMeans
<1>3. CASE s \in Serials /\ heap[s] = [arena |-> a, id |-> tag[a], owner |-> t]
  <2>1. heap[s] # NULL /\ heap[s].arena = a /\ heap[s].owner = t
    BY <1>1, <1>3, ConstantsAssumption DEF Allocations
  <2>2. first_owner[a] # t
    BY <1>1, <1>3, <2>1 DEF StrangerInv
  <2>3. ~InHands(a, s)
    <3> SUFFICES ASSUME NEW u \in Threads, cur[u] = a, pc[u] \in Adding, ser[u] = s
                 PROVE  FALSE
      BY DEF InHands
    <3>1. OwnSerial(u, a, s)
      BY DEF IInv, NewSerialInv
    <3>2. s # a
      BY <1>1, <1>3, ConstantsAssumption
    <3>3. heap[s].owner = u
      BY <3>1, <3>2 DEF OwnSerial
    <3> QED
      BY <2>1, <3>3 DEF Adding
  <2>4. Listed(a, s)
    BY <1>3, <2>1, <2>3 DEF ListInv, LostInv
  <2>5. PICK k \in 1 .. Len(chunks[a]) : \E i \in Slot(a, k) : chunks[a][k].arenas[i] = s
    BY <2>4 DEF Listed
  <2>6. PICK i \in Slot(a, k) : chunks[a][k].arenas[i] = s
    BY <2>5
  <2>7. SlotOK(a, k, i) /\ s # NULL
    BY <1>3, ConstantsAssumption DEF IInv, SlotInv
  <2>8. chunks[a][k].ids[i] = t
    <3>1. heap[s] = [arena |-> a, id |-> tag[a], owner |-> chunks[a][k].ids[i]]
      BY <2>6, <2>7 DEF SlotOK
    <3> QED
      BY <2>1, <3>1
  <2>9. Has(a, t, s)
    BY <2>6, <2>7, <2>8 DEF Has
  <2> QED
    BY <1>1, <2>2, <2>9, RegisteredMeans
<1> QED
  BY <1>2, <1>3 DEF OwnSerial

(* The threads in an arena whose first SerialArena is theirs are none that  *)
(* insert, so the list never gets a SerialArena of its owner.               *)
LEMMA StrangerKept ==
    ASSUME StrangerInv, UNCHANGED <<first_owner, heap>>
    PROVE  StrangerInv'
BY DEF StrangerInv

LEMMA StrangerNew ==
    ASSUME IInv, StrangerInv, NEW t \in Threads, NEW a \in Arenas, FallbackNew(t, a)
    PROVE  StrangerInv'
<1>1. PICK v : v = ser'[t]
  OBVIOUS
<1>2. /\ heap' = [heap EXCEPT ![v] = [arena |-> a, id |-> tag[a], owner |-> t]]
      /\ UNCHANGED first_owner
  BY <1>1, NewIsQuiet DEF Quiet
<1>3. first_owner[a] # t
  BY DEF FallbackNew
<1> SUFFICES ASSUME NEW s \in Serials, heap'[s] # NULL, NEW b \in Arenas, NEW u \in Threads,
                    heap'[s].arena = b, heap'[s].owner = u
             PROVE  first_owner[b] # u
  BY <1>2 DEF StrangerInv
<1>4. CASE s = v
  <2>1. heap'[s] = [arena |-> a, id |-> tag[a], owner |-> t]
    BY <1>2, <1>4 DEF IInv, TypeOK
  <2> QED
    BY <1>3, <2>1
<1>5. CASE s # v
  <2>1. heap'[s] = heap[s]
    BY <1>2, <1>5 DEF IInv, TypeOK
  <2> QED
    BY <2>1 DEF StrangerInv
<1> QED
  BY <1>4, <1>5

(* What was made for an arena is freed before the arena changes owner. *)
LEMMA StrangerRenew ==
    ASSUME IInv, LostInv, LostInv', StrangerInv, NEW t \in Threads, NEW a \in Arenas,
           Renews(t, a)
    PROVE  StrangerInv'
<1> SUFFICES ASSUME NEW s \in Serials, heap'[s] # NULL, NEW b \in Arenas, NEW u \in Threads,
                    heap'[s].arena = b, heap'[s].owner = u
             PROVE  first_owner'[b] # u
  BY DEF StrangerInv
<1>1. heap'[s] = heap[s]
  BY DEF Renews
<1>2. b \in live /\ b \in live' /\ heap[s].id = tag[b] /\ heap[s].id = tag'[b]
  BY <1>1 DEF LostInv
<1>3. b # a
  BY <1>2 DEF Renews
<1> QED
  BY <1>1, <1>3 DEF StrangerInv, Renews

LEMMA StrangerNext == IInv /\ ListInv /\ ListInv' /\ StrangerInv /\ [Next]_vars => StrangerInv'
<1> SUFFICES ASSUME IInv, ListInv, ListInv', StrangerInv, [Next]_vars PROVE StrangerInv'
  OBVIOUS
<1>1. ASSUME NEW t \in Threads, Step(t) PROVE StrangerInv'
  <2>1. CASE LoadHead(t) \/ Lock(t) \/ Finish(t)
    BY <2>1, LoadHeadIsQuiet, LockIsQuiet, FinishIsQuiet, StrangerKept DEF Quiet
  <2>2. CASE FetchAdd(t) \/ ChunkFull(t)
    BY <2>2, FetchAddSizes, ChunkFullSizes, StrangerKept DEF Sizes
  <2>3. CASE StoreId(t) \/ StoreArena(t)
    BY <2>3, StoreIdWritesSlot, StoreArenaWritesSlot, StrangerKept DEF Writes
  <2>4. CASE Grow(t)
    BY <2>4, GrowExtends, StrangerKept DEF Extends
  <2> QED
    BY <1>1, <2>1, <2>2, <2>3, <2>4 DEF Step
<1>2. ASSUME NEW t \in Threads, ThreadExit(t) PROVE StrangerInv'
  BY <1>2, ThreadExitIsQuiet, StrangerKept DEF Quiet
<1>3. ASSUME NEW t \in Threads, NEW a \in Arenas, Call(t, a) PROVE StrangerInv'
  BY <1>3, FoundIsQuiet, StrangerKept, StrangerNew DEF Call, Quiet
<1>4. ASSUME NEW t \in Threads, NEW a \in Arenas, Lifecycle(t, a) PROVE StrangerInv'
  BY <1>4, LifecycleRenews, StrangerRenew DEF ListInv
<1>5. CASE UNCHANGED vars
  BY <1>5, StrangerKept DEF vars, shared
<1> QED
  BY <1>1, <1>2, <1>3, <1>4, <1>5 DEF Next

-----------------------------------------------------------------------------
(* Every step is one of the registry, or none *)

Reg == [a \in Arenas |-> [t \in Threads |-> Registered(a, t)]]

Use == [t \in Threads |-> IF pc[t] = "alloc" THEN <<cur[t], ser[t]>> ELSE NULL]

LEMMA UseKept ==
    ASSUME TypeOK, NEW t \in Threads, OthersStay(t), pc[t] # "alloc", pc'[t] # "alloc"
    PROVE  Use' = Use
<1>1. \A u \in Threads :
        (IF pc'[u] = "alloc" THEN <<cur'[u], ser'[u]>> ELSE NULL)
          = (IF pc[u] = "alloc" THEN <<cur[u], ser[u]>> ELSE NULL)
  BY DEF OthersStay
<1> QED
  BY <1>1 DEF Use

LEMMA UseBegins ==
    ASSUME NEW t \in Threads, OthersStay(t), pc[t] # "alloc", pc'[t] = "alloc",
           NEW a, cur'[t] = a, NEW s, ser'[t] = s
    PROVE  Use[t] = NULL /\ Use' = [Use EXCEPT ![t] = <<a, s>>]
<1>1. \A u \in Threads :
        (IF pc'[u] = "alloc" THEN <<cur'[u], ser'[u]>> ELSE NULL)
          = IF u = t THEN <<a, s>> ELSE IF pc[u] = "alloc" THEN <<cur[u], ser[u]>> ELSE NULL
  BY DEF OthersStay
<1>2. Use' = [u \in Threads |-> IF u = t THEN <<a, s>>
                ELSE IF pc[u] = "alloc" THEN <<cur[u], ser[u]>> ELSE NULL]
  BY <1>1 DEF Use
<1>3. [Use EXCEPT ![t] = <<a, s>>] = [u \in Threads |-> IF u = t THEN <<a, s>>
                ELSE IF pc[u] = "alloc" THEN <<cur[u], ser[u]>> ELSE NULL]
  BY DEF Use
<1> QED
  BY <1>2, <1>3 DEF Use

LEMMA UseEnds ==
    ASSUME IInv, NEW t \in Threads, Finish(t)
    PROVE  Use[t] # NULL /\ Use' = [Use EXCEPT ![t] = NULL]
<1>1. OthersStay(t) /\ pc[t] = "alloc" /\ pc'[t] # "alloc"
  BY FinishIsQuiet DEF Quiet, Finish, Goto, IInv, TypeOK
<1>2. \A u \in Threads :
        (IF pc'[u] = "alloc" THEN <<cur'[u], ser'[u]>> ELSE NULL)
          = IF u = t THEN NULL ELSE IF pc[u] = "alloc" THEN <<cur[u], ser[u]>> ELSE NULL
  BY <1>1 DEF OthersStay
<1>3. Use' = [u \in Threads |-> IF u = t THEN NULL
                ELSE IF pc[u] = "alloc" THEN <<cur[u], ser[u]>> ELSE NULL]
  BY <1>2 DEF Use
<1>4. [Use EXCEPT ![t] = NULL] = [u \in Threads |-> IF u = t THEN NULL
                ELSE IF pc[u] = "alloc" THEN <<cur[u], ser[u]>> ELSE NULL]
  BY DEF Use
<1>5. Use[t] # NULL
  <2>1. cur[t] \in Arenas /\ ser[t] \in SerialPtrs
    BY <1>1, ConstantsAssumption
       DEF IInv, TypeOK, ControlInv, ControlOK, UseInv, OwnSerial, SerialPtrs
  <2>2. <<cur[t], ser[t]>> \in Arenas \X SerialPtrs
    BY <2>1
  <2> QED
    BY <1>1, <2>2, NullAssumption DEF Use
<1> QED
  BY <1>3, <1>4, <1>5

LEMMA RegKept ==
    ASSUME IInv, IInv', UNCHANGED <<live, first_owner>>,
           \A a \in live, t \in Threads : \A s : Has(a, t, s) <=> Has(a, t, s)'
    PROVE  Reg' = Reg
<1>1. \A a \in Arenas, t \in Threads : Registered(a, t)' = Registered(a, t)
  BY SameRegistered
<1> QED
  BY <1>1 DEF Reg

(* Nothing is known of t in a before, and s after. *)
LEMMA RegAdds ==
    ASSUME IInv, IInv', UNCHANGED <<live, first_owner>>,
           NEW a \in live, NEW t \in Threads, NEW s, first_owner[a] # t,
           \A v : ~Has(a, t, v), Has(a, t, s)',
           \A b \in live, u \in Threads : b # a \/ u # t =>
             \A v : Has(b, u, v) <=> Has(b, u, v)'
    PROVE  Reg[a][t] = NULL /\ Reg' = [Reg EXCEPT ![a][t] = s]
<1>1. a \in Arenas
  BY DEF IInv, TypeOK
<1>2. Registered(a, t) = NULL
  BY <1>1, RegisteredMeans
<1>3. Registered(a, t)' = s
  BY <1>1, RegisteredMeansNext
<1>4. \A b \in Arenas, u \in Threads :
        b # a \/ u # t => Registered(b, u)' = Registered(b, u)
  BY SameRegistered
<1>5. Reg' = [b \in Arenas |-> [u \in Threads |->
                IF b = a /\ u = t THEN s ELSE Registered(b, u)]]
  BY <1>3, <1>4 DEF Reg
<1>6. [Reg EXCEPT ![a][t] = s] = [b \in Arenas |-> [u \in Threads |->
                IF b = a /\ u = t THEN s ELSE Registered(b, u)]]
  BY <1>1 DEF Reg
<1> QED
  BY <1>1, <1>2, <1>5, <1>6 DEF Reg

(* What is filled, with the id of its thread, is what it was. *)
LEMMA HasQuiet ==
    ASSUME IInv, SameSlots, NEW a \in Arenas, NEW t \in Threads, NEW s
    PROVE  Has(a, t, s) <=> Has(a, t, s)'
BY SMTT(30) DEF Has, SameSlots, Slot

LEMMA HasWrites ==
    ASSUME IInv, NEW t \in Threads, NEW v, Writes(t, v), NEW a \in Arenas, NEW u \in Threads,
           NEW s, ~(a = cur[t] /\ u = t) \/ v = NULL
    PROVE  Has(a, u, s) <=> Has(a, u, s)'
<1>1. SlotWritten(t, t, v) /\ pc[t] \in Claiming
  BY DEF Writes
<1>2. /\ cur[t] \in Arenas /\ hd[t] \in 1 .. Len(chunks[cur[t]])
      /\ slot[t] \in Slot(cur[t], hd[t])
      /\ chunks[cur[t]][hd[t]].arenas[slot[t]] = NULL
  BY <1>1, ClaimState
<1>3. ASSUME NEW k \in 1 .. Len(chunks[a]), NEW i \in Slot(a, k)
      PROVE  (chunks[a][k].ids[i] = u /\ chunks[a][k].arenas[i] = s /\ s # NULL)
               <=> (chunks'[a][k].ids[i] = u /\ chunks'[a][k].arenas[i] = s /\ s # NULL)
  <2>1. /\ chunks'[a][k].ids[i] = IF InSlot(t, a, k, i) THEN t ELSE chunks[a][k].ids[i]
        /\ chunks'[a][k].arenas[i] = IF InSlot(t, a, k, i) THEN v ELSE chunks[a][k].arenas[i]
    BY <1>1 DEF SlotWritten
  <2>2. CASE InSlot(t, a, k, i)
    BY <1>2, <2>1, <2>2 DEF InSlot
  <2>3. CASE ~InSlot(t, a, k, i)
    BY <2>1, <2>3
  <2> QED
    BY <2>2, <2>3
<1>4. \A k : k \in 1 .. Len(chunks[a]) <=> k \in 1 .. Len(chunks'[a])
  BY <1>1 DEF SlotWritten
<1>5. \A k \in 1 .. Len(chunks[a]) : \A i : i \in Slot(a, k) <=> i \in Slot(a, k)'
  BY <1>1 DEF SlotWritten, Slot
<1>6. Has(a, u, s) => Has(a, u, s)'
  BY <1>3, <1>4, <1>5 DEF Has
<1>7. Has(a, u, s)' => Has(a, u, s)
  BY <1>3, <1>4, <1>5 DEF Has
<1> QED
  BY <1>6, <1>7

LEMMA HasExtends ==
    ASSUME IInv, NEW t \in Threads, Extends(t), NEW a \in Arenas, NEW u \in Threads,
           NEW s, ~(a = cur[t] /\ u = t)
    PROVE  Has(a, u, s) <=> Has(a, u, s)'
<1>1. \A k \in 1 .. Len(chunks[a]) : k \in 1 .. Len(chunks'[a]) /\ chunks'[a][k] = chunks[a][k]
  BY DEF Extends
<1>2. Has(a, u, s) => Has(a, u, s)'
  BY <1>1 DEF Has, Slot
<1>3. ASSUME Has(a, u, s)' PROVE Has(a, u, s)
  <2>1. PICK k \in 1 .. Len(chunks'[a]) : \E i \in Slot(a, k)' :
          chunks'[a][k].ids[i] = u /\ chunks'[a][k].arenas[i] = s /\ s # NULL
    BY <1>3 DEF Has
  <2>2. PICK i \in Slot(a, k)' :
          chunks'[a][k].ids[i] = u /\ chunks'[a][k].arenas[i] = s /\ s # NULL
    BY <2>1
  <2>3. k \in 1 .. Len(chunks[a])
    <3>1. CASE a # cur[t]
      BY <3>1 DEF Extends
    <3>2. CASE a = cur[t]
      <4>1. CASE k = hd[t] + 1
        <5>1. /\ chunks'[a][k].ids[0] = t
              /\ \A j \in 1 .. chunks'[a][k].capacity - 1 : chunks'[a][k].arenas[j] = NULL
              /\ chunks'[a][k].capacity \in Nat
          BY <3>2, <4>1 DEF Extends
        <5>2. i \in 0 .. chunks'[a][k].capacity - 1
          BY DEF Slot
        <5>3. i # 0
          BY <2>2, <3>2, <5>1
        <5>4. i \in 1 .. chunks'[a][k].capacity - 1
          BY <5>1, <5>2, <5>3
        <5> QED
          BY <2>2, <5>1, <5>4
      <4>2. CASE k # hd[t] + 1
        BY <3>2, <4>2 DEF Extends
      <4> QED
        BY <4>1, <4>2
    <3> QED
      BY <3>1, <3>2
  <2>4. i \in Slot(a, k) /\ chunks[a][k].ids[i] = u /\ chunks[a][k].arenas[i] = s
    BY <1>1, <2>2, <2>3 DEF Slot
  <2> QED
    BY <2>2, <2>3, <2>4 DEF Has
<1> QED
  BY <1>2, <1>3

(* A thread that inserts has nothing in the arena yet, *)
LEMMA AdderHasNone ==
    ASSUME IInv, StrangerInv, NEW t \in Threads, pc[t] \in Adding
    PROVE  /\ cur[t] \in live /\ cur[t] \in Arenas /\ first_owner[cur[t]] # t
           /\ \A s : ~Has(cur[t], t, s)
           /\ ser[t] \in Serials
           /\ \A a \in live, u \in Threads : ~Has(a, u, ser[t])
<1>1. cur[t] \in live /\ cur[t] \in Arenas
  BY DEF IInv, TypeOK, ControlInv, ControlOK, Adding
<1>2. \A s : ~Has(cur[t], t, s)
  BY DEF Has, IInv, UnlistedInv
<1>3. ser[t] \in Serials /\ OwnSerial(t, cur[t], ser[t])
  BY DEF IInv, NewSerialInv
<1>4. heap[ser[t]] = [arena |-> cur[t], id |-> tag[cur[t]], owner |-> t]
  BY <1>1, <1>3, ConstantsAssumption DEF OwnSerial
<1>5. heap[ser[t]] # NULL /\ tag[cur[t]] \in Ids
  <2>1. tag[cur[t]] \in Ids
    BY <1>1 DEF IInv, IdInv
  <2> QED
    BY <1>1, <1>4, <2>1, ConstantsAssumption DEF Allocations
<1>6. first_owner[cur[t]] # t
  BY <1>1, <1>3, <1>4, <1>5 DEF StrangerInv
<1>7. ASSUME NEW a \in live, NEW u \in Threads, Has(a, u, ser[t]) PROVE FALSE
  <2>1. heap[ser[t]] = [arena |-> a, id |-> tag[a], owner |-> u]
    BY <1>7, HasMeans
  <2>2. a = cur[t] /\ u = t
    BY <1>4, <2>1
  <2> QED
    BY <1>2, <1>7, <2>2
<1> QED
  BY <1>1, <1>2, <1>3, <1>6, <1>7

(* and its SerialArena is nobody's. *)
LEMMA NewIsUnregistered ==
    ASSUME IInv, NEW s \in Serials, \A a \in live, t \in Threads : ~Has(a, t, s)
    PROVE  \A a \in Arenas, t \in Threads : Reg[a][t] # s
<1> SUFFICES ASSUME NEW a \in Arenas, NEW t \in Threads PROVE Registered(a, t) # s
  BY DEF Reg
<1>1. s # NULL /\ s # a
  BY ConstantsAssumption
<1>2. CASE a \notin live \/ first_owner[a] = t
  BY <1>1, <1>2, RegisteredMeans
<1>3. CASE a \in live /\ first_owner[a] # t
  <2>1. CASE \E v : Has(a, t, v)
    BY <1>3, <2>1, RegisteredMeans
  <2>2. CASE \A v : ~Has(a, t, v)
    BY <1>1, <1>3, <2>2, RegisteredMeans
  <2> QED
    BY <2>1, <2>2
<1> QED
  BY <1>2, <1>3

Same == Reg' = Reg /\ Use' = Use /\ live' = live

Acquires(t, a, s) ==
    /\ a \in live /\ Use[t] = NULL /\ live' = live
    /\ \/ Reg[a][t] = s
       \/ Reg[a][t] = NULL /\ s \in Serials /\ \A b \in Arenas, u \in Threads : Reg[b][u] # s
    /\ Reg' = [Reg EXCEPT ![a][t] = s]
    /\ Use' = [Use EXCEPT ![t] = <<a, s>>]

(* A call that has its SerialArena *)
LEMMA FoundAcquires ==
    ASSUME IInv, IInv', ListInv, StrangerInv, NEW t \in Threads, NEW a \in Arenas,
           GetSerialArenaFast(t, a) \/ FallbackFirstArena(t, a) \/ FallbackFound(t, a)
    PROVE  \E s \in SerialPtrs : Acquires(t, a, s)
<1>1. /\ pc[t] = "idle" /\ a \in live /\ cur'[t] = a
  BY DEF GetSerialArenaFast, FallbackFirstArena, FallbackFound, Enter, IInv, TypeOK
<1>2. PICK s : OwnSerial(t, a, s) /\ Allocate(t, s)
  <2>1. CASE GetSerialArenaFast(t, a)
    BY <1>1, <2>1 DEF GetSerialArenaFast, IInv, CacheCoherent
  <2>2. CASE FallbackFirstArena(t, a)
    BY <2>2 DEF FallbackFirstArena, OwnSerial
  <2>3. CASE FallbackFound(t, a)
    BY <1>1, <2>3, FoundSerial DEF FallbackFound
  <2> QED
    BY <2>1, <2>2, <2>3
<1>3. pc'[t] = "alloc" /\ ser'[t] = s /\ s \in SerialPtrs
  BY <1>2 DEF Allocate, IInv, TypeOK, OwnSerial, SerialPtrs
<1>4. Quiet(t)
  BY FoundIsQuiet
<1>5. Registered(a, t) = s
  BY <1>1, <1>2, OwnIsRegistered
<1>6. Use[t] = NULL /\ Use' = [Use EXCEPT ![t] = <<a, s>>]
  BY <1>1, <1>3, <1>4, UseBegins DEF Quiet
<1>7. Reg' = Reg
  <2>1. SameSlots
    BY <1>4 DEF Quiet, SameSlots
  <2> QED
    BY <1>4, <2>1, HasQuiet, RegKept DEF Quiet, IInv, TypeOK
<1>8. Reg[a][t] = s /\ Reg' = [Reg EXCEPT ![a][t] = s]
  BY <1>5, <1>7 DEF Reg
<1> QED
  BY <1>1, <1>3, <1>4, <1>6, <1>8 DEF Acquires, Quiet

(* An entry is filled: registration takes effect. *)
LEMMA AddedAcquires ==
    ASSUME IInv, IInv', StrangerInv, NEW t \in Threads, pc[t] \in Adding, pc'[t] = "alloc",
           OthersStay(t), StaysInside(t), UNCHANGED <<live, first_owner>>,
           \A a \in Arenas : \A s : a = cur[t] /\ s = ser[t] => Has(a, t, s)',
           \A b \in Arenas, u \in Threads : \A v :
             ~(b = cur[t] /\ u = t) => (Has(b, u, v) <=> Has(b, u, v)')
    PROVE  \E a \in Arenas, s \in SerialPtrs : Acquires(t, a, s)
<1>1. PICK a, s : a = cur[t] /\ s = ser[t]
  OBVIOUS
<1>2. /\ a \in live /\ a \in Arenas /\ first_owner[a] # t /\ s \in Serials
      /\ \A v : ~Has(a, t, v)
      /\ \A b \in live, u \in Threads : ~Has(b, u, s)
  BY <1>1, AdderHasNone
<1>3. Use[t] = NULL /\ Use' = [Use EXCEPT ![t] = <<a, s>>]
  BY <1>1, UseBegins DEF StaysInside, Adding
<1>4. \A b \in live, u \in Threads : b # a \/ u # t => \A v : Has(b, u, v) <=> Has(b, u, v)'
  BY <1>1 DEF IInv, TypeOK
<1>5. Has(a, t, s)'
  BY <1>1, <1>2
<1>6. Reg[a][t] = NULL /\ Reg' = [Reg EXCEPT ![a][t] = s]
  BY <1>2, <1>4, <1>5, RegAdds
<1>7. \A b \in Arenas, u \in Threads : Reg[b][u] # s
  BY <1>2, NewIsUnregistered
<1> QED
  BY <1>2, <1>3, <1>6, <1>7 DEF Acquires, SerialPtrs

(* The steps that the registry does not see *)
LEMMA QuietSame ==
    ASSUME IInv, IInv', NEW t \in Threads, Quiet(t), pc[t] # "alloc", pc'[t] # "alloc"
    PROVE  Same
<1>1. UNCHANGED <<live, first_owner, chunks>> /\ OthersStay(t)
  BY DEF Quiet
<1>2. SameSlots
  BY <1>1 DEF SameSlots
<1>3. Reg' = Reg
  BY <1>1, <1>2, HasQuiet, RegKept DEF IInv, TypeOK
<1>4. Use' = Use
  BY <1>1, UseKept DEF IInv
<1> QED
  BY <1>1, <1>3, <1>4 DEF Same

LEMMA SizesSame ==
    ASSUME IInv, IInv', NEW t \in Threads, NEW n, Sizes(t, n), pc'[t] # "alloc"
    PROVE  Same
<1>1. UNCHANGED <<live, first_owner>> /\ OthersStay(t) /\ SameSlots /\ pc[t] # "alloc"
  BY DEF Sizes
<1>2. Reg' = Reg
  BY <1>1, HasQuiet, RegKept DEF IInv, TypeOK
<1>3. Use' = Use
  BY <1>1, UseKept DEF IInv
<1> QED
  BY <1>1, <1>2, <1>3 DEF Same

LEMMA StoreIdSame ==
    ASSUME IInv, IInv', NEW t \in Threads, StoreId(t)
    PROVE  Same
<1>1. Writes(t, NULL) /\ pc'[t] # "alloc"
  BY StoreIdWritesSlot
<1>2. UNCHANGED <<live, first_owner>> /\ OthersStay(t) /\ pc[t] # "alloc"
  BY <1>1 DEF Writes, Claiming
<1>3. Reg' = Reg
  <2>1. PICK v : v = NULL
    OBVIOUS
  <2>2. \A a \in Arenas, u \in Threads : \A s : Has(a, u, s) <=> Has(a, u, s)'
    BY <1>1, <2>1, HasWrites
  <2> QED
    BY <1>2, <2>2, RegKept DEF IInv, TypeOK
<1>4. Use' = Use
  BY <1>1, <1>2, UseKept DEF IInv
<1> QED
  BY <1>2, <1>3, <1>4 DEF Same

(* The steps that fill an entry *)
LEMMA StoreArenaAcquires ==
    ASSUME IInv, IInv', StrangerInv, NEW t \in Threads, StoreArena(t)
    PROVE  \E a \in Arenas, s \in SerialPtrs : Acquires(t, a, s)
<1>1. PICK v : v = ser[t]
  OBVIOUS
<1>2. Writes(t, v) /\ pc'[t] = "alloc" /\ v # NULL
  BY <1>1, StoreArenaWritesSlot
<1>3. /\ pc[t] \in Adding /\ OthersStay(t) /\ StaysInside(t) /\ UNCHANGED <<live, first_owner>>
      /\ SlotWritten(t, t, v) /\ pc[t] \in Claiming
  BY <1>2 DEF Writes, Claiming, Adding, Pcs
<1>4. \A b \in Arenas, u \in Threads : \A s :
        ~(b = cur[t] /\ u = t) => (Has(b, u, s) <=> Has(b, u, s)')
  BY <1>2, HasWrites
<1>5. ASSUME NEW a \in Arenas, NEW s, a = cur[t], s = ser[t] PROVE Has(a, t, s)'
  <2>1. PICK k, i : k = hd[t] /\ i = slot[t]
    OBVIOUS
  <2>2. k \in 1 .. Len(chunks[a]) /\ i \in Slot(a, k) /\ InSlot(t, a, k, i)
    BY <1>3, <1>5, <2>1, ClaimState DEF InSlot
  <2>3. /\ k \in 1 .. Len(chunks'[a]) /\ i \in Slot(a, k)'
        /\ chunks'[a][k].ids[i] = t /\ chunks'[a][k].arenas[i] = s
    BY <1>1, <1>3, <1>5, <2>2 DEF SlotWritten, Slot
  <2> QED
    BY <1>1, <1>2, <1>5, <2>3 DEF Has
<1> QED
  BY <1>2, <1>3, <1>4, <1>5, AddedAcquires

LEMMA GrowAcquires ==
    ASSUME IInv, IInv', StrangerInv, NEW t \in Threads, Grow(t)
    PROVE  \E a \in Arenas, s \in SerialPtrs : Acquires(t, a, s)
<1>1. Extends(t)
  BY GrowExtends
<1>2. /\ pc[t] \in Adding /\ pc'[t] = "alloc" /\ OthersStay(t) /\ StaysInside(t)
      /\ UNCHANGED <<live, first_owner>>
  BY <1>1 DEF Extends, Adding, Pcs
<1>3. \A b \in Arenas, u \in Threads : \A s :
        ~(b = cur[t] /\ u = t) => (Has(b, u, s) <=> Has(b, u, s)')
  BY <1>1, HasExtends
<1>4. ASSUME NEW a \in Arenas, NEW s, a = cur[t], s = ser[t] PROVE Has(a, t, s)'
  <2>1. PICK k : k = hd[t] + 1
    OBVIOUS
  <2>2. /\ k \in 1 .. Len(chunks'[a]) /\ 0 \in 0 .. chunks'[a][k].capacity - 1
        /\ chunks'[a][k].ids[0] = t /\ chunks'[a][k].arenas[0] = s /\ s # NULL
    BY <1>1, <1>4, <2>1 DEF Extends
  <2> QED
    BY <2>2 DEF Has, Slot
<1> QED
  BY <1>2, <1>3, <1>4, AddedAcquires

(* The lives of an arena *)
Becomes(a, r) ==
    /\ Reg' = [Reg EXCEPT ![a] = r]
    /\ Use' = Use
    /\ \A t \in Threads : Use[t] = NULL \/ Use[t][1] # a

LEMMA RenewBecomes ==
    ASSUME IInv, IInv', NEW t \in Threads, NEW a \in Arenas, Renews(t, a)
    PROVE  /\ a \in live' => Becomes(a, [u \in Threads |-> IF u = t THEN a ELSE NULL])
           /\ a \notin live' => Becomes(a, [u \in Threads |-> NULL])
<1>1. \A b \in Arenas, u \in Threads : b # a => Registered(b, u)' = Registered(b, u)
  <2> SUFFICES ASSUME NEW b \in Arenas, NEW u \in Threads, b # a
               PROVE  Registered(b, u)' = Registered(b, u)
    OBVIOUS
  <2>1. /\ chunks'[b] = chunks[b] /\ first_owner'[b] = first_owner[b]
        /\ b \in live <=> b \in live'
    BY DEF Renews
  <2>2. \A s : Has(b, u, s) <=> Has(b, u, s)'
    BY <2>1 DEF Has, Slot
  <2> QED
    BY <2>1, <2>2, SameRegistered
<1>2. Use' = Use
  BY DEF Renews, Use
<1>3. \A u \in Threads : Use[u] = NULL \/ Use[u][1] # a
  BY DEF Renews, Use, Quiescent
<1>4. ASSUME NEW u \in Threads
      PROVE  Registered(a, u)' = IF a \in live' /\ u = t THEN a ELSE NULL
  <2>1. CASE a \notin live'
    BY <2>1, RegisteredMeansNext
  <2>2. CASE a \in live'
    <3>1. chunks'[a] = <<>> /\ first_owner'[a] = t
      BY <2>2 DEF Renews
    <3>2. \A s : ~Has(a, u, s)'
      BY <3>1 DEF Has
    <3> QED
      BY <2>2, <3>1, <3>2, RegisteredMeansNext
  <2> QED
    BY <2>1, <2>2
<1>5. ASSUME NEW r, r = [u \in Threads |-> Registered(a, u)'] PROVE Reg' = [Reg EXCEPT ![a] = r]
  <2>1. \A b \in Arenas : [u \in Threads |-> Registered(b, u)']
          = IF b = a THEN r ELSE [u \in Threads |-> Registered(b, u)]
    BY <1>1, <1>5
  <2>2. Reg' = [b \in Arenas |-> IF b = a THEN r ELSE [u \in Threads |-> Registered(b, u)]]
    BY <2>1 DEF Reg
  <2> QED
    BY <2>2 DEF Reg
<1>6. a \in live' => [u \in Threads |-> Registered(a, u)']
                       = [u \in Threads |-> IF u = t THEN a ELSE NULL]
  BY <1>4
<1>7. a \notin live' => [u \in Threads |-> Registered(a, u)'] = [u \in Threads |-> NULL]
  BY <1>4
<1> QED
  BY <1>2, <1>3, <1>5, <1>6, <1>7 DEF Becomes

(* The four ways the registry moves *)
LEMMA SameStutters == Same => UNCHANGED Registry!vars
BY DEF Same, Registry!vars, Reg, Use

LEMMA AcquiresAcquire ==
    ASSUME NEW t \in Threads, NEW a \in Arenas, NEW s \in SerialPtrs, Acquires(t, a, s)
    PROVE  Registry!Next
<1>1. Registry!Acquire(t, a, s)
  BY DEF Acquires, Registry!Acquire, Registry!Unregistered, Reg, Use
<1> QED
  BY <1>1 DEF Registry!Next, SerialPtrs

LEMMA FinishReleases ==
    ASSUME IInv, IInv', NEW t \in Threads, Finish(t)
    PROVE  Registry!Next
<1>1. Use[t] # NULL /\ Use' = [Use EXCEPT ![t] = NULL]
  BY UseEnds
<1>2. UNCHANGED <<live, first_owner, chunks>>
  BY FinishIsQuiet DEF Quiet
<1>3. SameSlots
  BY <1>2 DEF SameSlots
<1>4. Reg' = Reg
  BY <1>2, <1>3, HasQuiet, RegKept DEF IInv, TypeOK
<1>5. Registry!Release(t)
  BY <1>1, <1>2, <1>4 DEF Registry!Release, Reg, Use
<1> QED
  BY <1>5 DEF Registry!Next

LEMMA LifecycleSteps ==
    ASSUME IInv, IInv', NEW t \in Threads, NEW a \in Arenas, Lifecycle(t, a)
    PROVE  Registry!Next
<1>1. /\ a \in live' => Becomes(a, [u \in Threads |-> IF u = t THEN a ELSE NULL])
      /\ a \notin live' => Becomes(a, [u \in Threads |-> NULL])
  BY LifecycleRenews, RenewBecomes
<1>2. CASE Construct(t, a)
  <2>1. a \notin live /\ live' = live \cup {a} /\ a \in live'
    BY <1>2 DEF Construct
  <2>2. Registry!Construct(t, a)
    BY <1>1, <2>1 DEF Becomes, Registry!Construct, Registry!FirstOwner, Reg, Use
  <2> QED
    BY <2>2 DEF Registry!Next
<1>3. CASE Reset(t, a)
  <2>1. a \in live /\ live' = live /\ a \in live'
    BY <1>3 DEF Reset
  <2>2. ~Registry!InUse(a)
    BY <1>1, <2>1 DEF Becomes, Registry!InUse, Use
  <2>3. Registry!Reset(t, a)
    BY <1>1, <2>1, <2>2 DEF Becomes, Registry!Reset, Registry!FirstOwner, Reg, Use
  <2> QED
    BY <2>3 DEF Registry!Next
<1>4. CASE Destroy(t, a)
  <2>1. a \in live /\ live' = live \ {a} /\ a \notin live'
    BY <1>4 DEF Destroy
  <2>2. ~Registry!InUse(a)
    BY <1>1, <2>1 DEF Becomes, Registry!InUse, Use
  <2>3. Registry!Destroy(a)
    BY <1>1, <2>1, <2>2 DEF Becomes, Registry!Destroy, Reg, Use
  <2> QED
    BY <2>3 DEF Registry!Next
<1> QED
  BY <1>2, <1>3, <1>4 DEF Lifecycle

LEMMA RegistryInit == Init => Registry!Init
<1> SUFFICES ASSUME Init PROVE Registry!Init
  OBVIOUS
<1>1. \A a \in Arenas, t \in Threads : Registered(a, t) = NULL
  BY DEF Init, Registered
<1>2. \A t \in Threads : pc[t] # "alloc"
  BY DEF Init
<1> QED
  BY <1>1, <1>2 DEF Init, Registry!Init

LEMMA RegistryNext ==
    IInv /\ IInv' /\ ListInv /\ StrangerInv /\ [Next]_vars => [Registry!Next]_(Registry!vars)
<1> SUFFICES ASSUME IInv, IInv', ListInv, StrangerInv, [Next]_vars
             PROVE  Same \/ Registry!Next
  BY SameStutters
<1>1. ASSUME NEW t \in Threads, Step(t) PROVE Same \/ Registry!Next
  <2>1. CASE LoadHead(t) \/ Lock(t)
    <3>1. pc[t] # "alloc" /\ pc'[t] # "alloc"
      BY <2>1 DEF LoadHead, Lock, Goto, IInv, TypeOK
    <3> QED
      BY <2>1, <3>1, LoadHeadIsQuiet, LockIsQuiet, QuietSame
  <2>2. CASE FetchAdd(t)
    BY <2>2, FetchAddSizes, SizesSame
  <2>3. CASE ChunkFull(t)
    BY <2>3, ChunkFullSizes, SizesSame
  <2>4. CASE StoreId(t)
    BY <2>4, StoreIdSame
  <2>5. CASE StoreArena(t) \/ Grow(t)
    BY <2>5, StoreArenaAcquires, GrowAcquires, AcquiresAcquire
  <2>6. CASE Finish(t)
    BY <2>6, FinishReleases
  <2> QED
    BY <1>1, <2>1, <2>2, <2>3, <2>4, <2>5, <2>6 DEF Step
<1>2. ASSUME NEW t \in Threads, ThreadExit(t) PROVE Same \/ Registry!Next
  <2>1. pc[t] # "alloc" /\ pc'[t] # "alloc"
    BY <1>2 DEF ThreadExit
  <2> QED
    BY <1>2, <2>1, ThreadExitIsQuiet, QuietSame
<1>3. ASSUME NEW t \in Threads, NEW a \in Arenas, Call(t, a) PROVE Same \/ Registry!Next
  <2>1. CASE FallbackNew(t, a)
    <3>1. pc[t] # "alloc" /\ pc'[t] # "alloc"
      BY <2>1, NewIsQuiet DEF FallbackNew, Enter, Adding
    <3> QED
      BY <2>1, <3>1, NewIsQuiet, QuietSame
  <2>2. CASE GetSerialArenaFast(t, a) \/ FallbackFirstArena(t, a) \/ FallbackFound(t, a)
    <3>1. PICK s \in SerialPtrs : Acquires(t, a, s)
      BY <2>2, FoundAcquires
    <3> QED
      BY <3>1, AcquiresAcquire
  <2> QED
    BY <1>3, <2>1, <2>2 DEF Call
<1>4. ASSUME NEW t \in Threads, NEW a \in Arenas, Lifecycle(t, a) PROVE Registry!Next
  BY <1>4, LifecycleSteps
<1>5. CASE UNCHANGED vars
  <2>1. Reg' = Reg
    BY <1>5 DEF vars, shared, Reg, Registered, Filled, Entries, ArenaAt, IdAt, SafeSize
  <2>2. Use' = Use
    BY <1>5 DEF vars, shared, locals, Use
  <2> QED
    BY <1>5, <2>1, <2>2 DEF Same, vars, shared
<1> QED
  BY <1>1, <1>2, <1>3, <1>4, <1>5 DEF Next

(* The arena implements the registry.  Lookups, in the cache or in the      *)
(* list, answer what was registered; the store that fills an entry is where *)
(* a thread is registered; Reset and Destroy forget; no other step shows.   *)
THEOREM ImplementsTheRegistry == Spec => ImplementsRegistry
<1>1. Init => StrangerInv
  BY DEF Init, StrangerInv
<1>2. Spec => []StrangerInv
  BY <1>1, StrangerNext, Inductive, ListInductive, PTL DEF Spec
<1>3. Spec => Registry!Spec
  BY <1>2, RegistryInit, RegistryNext, Inductive, ListInductive, PTL DEF Spec, Registry!Spec
<1> QED
  BY <1>3 DEF ImplementsRegistry
=============================================================================
