----------------------- MODULE ThreadSafeArenaProofs -----------------------
(***************************************************************************)
(* Proofs about ThreadSafeArena, for every number of threads, arenas and   *)
(* SerialArenas and every growth of the chunks.                            *)
(*                                                                         *)
(* None of the invariants is inductive by itself: that a cached pointer is *)
(* right depends on lifecycle ids never being issued twice and on what the *)
(* slots hold, and the slots depend on how far each insert has come.       *)
(***************************************************************************)
EXTENDS ThreadSafeArena, SequenceTheorems, TLAPS

(* An insert that has an index in the chunk hd[t] of its arena *)
Inserting == {"fetch", "full", "ids", "arenas"}
Claiming  == {"ids", "arenas"}
Locked    == Inserting \cup {"grow"}

ChunkOf(t) == chunks[cur[t]][hd[t]]

(* Where a call stands, and where the locals of AddSerialArena point *)
ControlOK(t) ==
    /\ pc[t] = "idle" => cur[t] = NULL
    /\ pc[t] # "idle" => cur[t] \in live
    /\ pc[t] \in Inserting => hd[t] \in 1 .. Len(chunks[cur[t]])
    /\ pc[t] = "lock" => hd[t] <= Len(chunks[cur[t]])
    /\ pc[t] \in Claiming => slot[t] < ChunkOf(t).capacity
    /\ pc[t] = "full" => ChunkOf(t).size >= ChunkOf(t).capacity

ControlInv == \A t \in Threads : ControlOK(t)

(* Under mutex_ the local head is the head: only a holder adds a chunk. *)
LockInv ==
    /\ \A a \in Arenas, t \in Threads :
        mutex[a] = t => /\ cur[t] = a
                        /\ pc[t] \in Locked
                        /\ hd[t] = Len(chunks[a])
    /\ \A t \in Threads : pc[t] = "grow" => mutex[cur[t]] = t

(* id was issued by a batch, and is not one that a thread still has to issue. *)
Issued(id) ==
    \/ id = NoId
    \/ /\ id \in Ids
       /\ id.batch < lifecycle_id
       /\ \A t \in Threads :
            ~NeedsBatch(t) /\ tc[t].next.batch = id.batch => id.index < tc[t].next.index

(* Lifecycle ids are never issued twice. *)
IdInv ==
    /\ \A a \in Arenas : Issued(tag[a])
    /\ \A t \in Threads : Issued(tc[t].seen)
    /\ \A t \in Threads : ~NeedsBatch(t) => tc[t].next.batch < lifecycle_id
    /\ \A t, u \in Threads :
        ~NeedsBatch(t) /\ ~NeedsBatch(u) /\ tc[t].next.batch = tc[u].next.batch => t = u
    /\ \A a, b \in live : tag[a] = tag[b] => a = b
    /\ \A a \in live : tag[a] \in Ids

(* The SerialArena in the hands of a thread that inserts it is its own. *)
NewSerialInv ==
    \A t \in Threads : pc[t] \in Adding =>
        /\ ser[t] \in Serials
        /\ OwnSerial(t, cur[t], ser[t])

Slot(a, k) == 0 .. chunks[a][k].capacity - 1

(* What slot i of chunk k of arena a may hold *)
SlotOK(a, k, i) ==
    LET c == chunks[a][k]
        t == c.ids[i]
        s == c.arenas[i]
    IN  /\ t \in Threads \cup {NULL} /\ s \in Serials \cup {NULL}
        /\ i >= c.size => t = NULL /\ s = NULL
        /\ s # NULL => /\ t # NULL
                       /\ heap[s] = [arena |-> a, id |-> tag[a], owner |-> t]
        /\ t # NULL /\ s = NULL =>
             pc[t] = "arenas" /\ cur[t] = a /\ hd[t] = k /\ slot[t] = i

SlotInv ==
    \A a \in live : \A k \in 1 .. Len(chunks[a]) : \A i \in Slot(a, k) : SlotOK(a, k, i)

(* A thread has one slot at most *)
OneSlotInv ==
    \A a \in live : \A k, m \in 1 .. Len(chunks[a]) : \A i \in Slot(a, k), j \in Slot(a, m) :
        chunks[a][k].ids[i] = chunks[a][m].ids[j] /\ chunks[a][k].ids[i] # NULL
            => k = m /\ i = j

(* and none that is filled while it inserts. *)
UnlistedInv ==
    \A t \in Threads : pc[t] \in Adding =>
        \A k \in 1 .. Len(chunks[cur[t]]) : \A i \in Slot(cur[t], k) :
            chunks[cur[t]][k].ids[i] = t => chunks[cur[t]][k].arenas[i] = NULL

(* The index a thread drew is its own, and still empty. *)
ClaimOK(t) ==
    /\ slot[t] < ChunkOf(t).size
    /\ ChunkOf(t).arenas[slot[t]] = NULL
    /\ ChunkOf(t).ids[slot[t]] = IF pc[t] = "ids" THEN NULL ELSE t

SameClaim(t, u) == cur[u] = cur[t] /\ hd[u] = hd[t] /\ slot[u] = slot[t]

ClaimInv ==
    /\ \A t \in Threads : pc[t] \in Claiming => ClaimOK(t)
    /\ \A t, u \in Threads :
        pc[t] \in Claiming /\ pc[u] \in Claiming /\ SameClaim(t, u) => u = t

UseInv == \A t \in Threads : pc[t] = "alloc" => OwnSerial(t, cur[t], ser[t])

IInv ==
    /\ TypeOK /\ ControlInv /\ LockInv /\ IdInv /\ NewSerialInv
    /\ SlotInv /\ OneSlotInv /\ UnlistedInv /\ ClaimInv /\ UseInv /\ CacheCoherent
-----------------------------------------------------------------------------
(* Lemmas about chunks *)

(* A chunk made after one of any capacity has room for an entry at least. *)
LEMMA NextCapacityType ==
    ASSUME NEW prev \in Nat
    PROVE  NextCapacity(prev) \in 1 .. MaxCapacity
<1> DEFINE bytes == SmallerOf(MaxChunkBytes, AllocSize(prev) * GrowthFactor)
<1>1. prev * EntryBytes \in Nat /\ prev * EntryBytes * GrowthFactor \in Nat
  BY ConstantsAssumption, SMTT(30)
<1>2. AllocSize(prev) * GrowthFactor
        = HeaderBytes * GrowthFactor + prev * EntryBytes * GrowthFactor
  BY <1>1, ConstantsAssumption, SMTT(30) DEF AllocSize
<1>3. bytes \in Nat /\ bytes <= MaxChunkBytes /\ bytes - HeaderBytes >= EntryBytes
  BY <1>1, <1>2, ConstantsAssumption, SMTT(30) DEF SmallerOf
<1> HIDE DEF bytes
<1>4. /\ (bytes - HeaderBytes) \div EntryBytes \in Nat \ {0}
      /\ (bytes - HeaderBytes) \div EntryBytes
            <= (MaxChunkBytes - HeaderBytes) \div EntryBytes
  BY <1>3, ConstantsAssumption, SMTT(30)
<1>5. MaxCapacity \in Int
  BY ConstantsAssumption, SMTT(30) DEF MaxCapacity
<1> QED
  BY <1>4, <1>5, SMTT(30) DEF NextCapacity, MaxCapacity, bytes

(* Storing into an array keeps its type and its other elements. *)
LEMMA ArrayStore ==
    ASSUME NEW S, NEW f \in Arrays(S), NEW i \in DOMAIN f, NEW v \in S
    PROVE  /\ [f EXCEPT ![i] = v] \in Arrays(S)
           /\ DOMAIN [f EXCEPT ![i] = v] = DOMAIN f
BY DEF Arrays

LEMMA NewChunkType ==
    ASSUME NEW n \in 1 .. MaxCapacity, NEW t \in Threads, NEW s \in Serials
    PROVE  /\ NewChunk(n, t, s) \in Chunk
           /\ HasSlots(NewChunk(n, t, s))
<1>1. Slots(n, t) \in Arrays(Threads \cup {NULL}) /\ Slots(n, s) \in Arrays(Serials \cup {NULL})
  BY DEF Slots, Arrays
<1>2. DOMAIN Slots(n, t) = 0 .. n - 1 /\ DOMAIN Slots(n, s) = 0 .. n - 1
  BY DEF Slots
<1> QED
  BY <1>1, <1>2 DEF NewChunk, Chunk, HasSlots

(* Replacing one chunk of one arena *)
Replaces(a, k, c) == chunks' = [chunks EXCEPT ![a] = [chunks[a] EXCEPT ![k] = c]]

LEMMA ReplaceChunk ==
    ASSUME TypeOK, NEW a \in Arenas, NEW k \in 1 .. Len(chunks[a]),
           NEW c \in Chunk, HasSlots(c), Replaces(a, k, c)
    PROVE  /\ chunks' \in [Arenas -> Seq(Chunk)]
           /\ \A b \in Arenas : \A m \in DOMAIN chunks'[b] : HasSlots(chunks'[b][m])
           /\ \A b \in Arenas : Len(chunks'[b]) = Len(chunks[b])
           /\ \A b \in Arenas : b # a => chunks'[b] = chunks[b]
           /\ chunks'[a][k] = c
           /\ \A m \in 1 .. Len(chunks[a]) : m # k => chunks'[a][m] = chunks[a][m]
<1>1. chunks[a] \in Seq(Chunk)
  BY DEF TypeOK
<1>2. /\ [chunks[a] EXCEPT ![k] = c] \in Seq(Chunk)
      /\ Len([chunks[a] EXCEPT ![k] = c]) = Len(chunks[a])
  BY <1>1, ExceptSeq
<1> QED
  BY <1>1, <1>2 DEF TypeOK, Replaces

(* Adding a chunk in front of the head *)
Adds(a, c) ==
    chunks' = [chunks EXCEPT ![a] = Append(SubSeq(chunks[a], 1, Len(chunks[a])), c)]

LEMMA AppendChunk ==
    ASSUME TypeOK, NEW a \in Arenas, NEW c \in Chunk, HasSlots(c), Adds(a, c)
    PROVE  /\ chunks' \in [Arenas -> Seq(Chunk)]
           /\ \A b \in Arenas : \A m \in DOMAIN chunks'[b] : HasSlots(chunks'[b][m])
           /\ \A b \in Arenas : b # a => chunks'[b] = chunks[b]
           /\ Len(chunks'[a]) = Len(chunks[a]) + 1
           /\ chunks'[a][Len(chunks[a]) + 1] = c
           /\ \A m \in 1 .. Len(chunks[a]) : chunks'[a][m] = chunks[a][m]
<1>1. chunks[a] \in Seq(Chunk) /\ Len(chunks[a]) \in Nat
  BY DEF TypeOK
<1>2. SubSeq(chunks[a], 1, Len(chunks[a])) = chunks[a]
  BY <1>1
<1>3. chunks'[a] = Append(chunks[a], c) /\ chunks'[a] \in Seq(Chunk)
  BY <1>1, <1>2 DEF TypeOK, Adds
<1>4. /\ Len(chunks'[a]) = Len(chunks[a]) + 1
      /\ chunks'[a][Len(chunks[a]) + 1] = c
      /\ \A m \in 1 .. Len(chunks[a]) : chunks'[a][m] = chunks[a][m]
  BY <1>1, <1>3
<1>5. \A m \in DOMAIN chunks'[a] : HasSlots(chunks'[a][m])
  BY <1>1, <1>3, <1>4 DEF TypeOK
<1> QED
  BY <1>3, <1>4, <1>5 DEF TypeOK, Adds

-----------------------------------------------------------------------------
(* The steps that leave the chunks, the lifecycle ids and the tags alone *)

LEMMA CallState ==
    ASSUME IInv, NEW t \in Threads, pc[t] \in Inserting
    PROVE  /\ cur[t] \in live /\ cur[t] \in Arenas
           /\ hd[t] \in 1 .. Len(chunks[cur[t]])
           /\ ChunkOf(t) \in Chunk /\ HasSlots(ChunkOf(t))
<1>1. cur[t] \in live /\ cur[t] \in Arenas /\ hd[t] \in 1 .. Len(chunks[cur[t]])
  BY DEF IInv, TypeOK, ControlInv, ControlOK, Inserting
<1>2. chunks[cur[t]] \in Seq(Chunk)
  BY <1>1 DEF IInv, TypeOK
<1>3. HasSlots(ChunkOf(t))
  BY <1>1, <1>2 DEF IInv, TypeOK, ChunkOf
<1> QED
  BY <1>1, <1>2, <1>3 DEF ChunkOf

LEMMA CacheWrite ==
    ASSUME TypeOK, NEW t \in Threads, NEW a \in Arenas, NEW s \in SerialPtrs,
           CacheSerialArena(t, a, s)
    PROVE  /\ tc' \in [Threads -> [next : Ids, seen : Ids \cup {NoId},
                                   last : SerialPtrs \cup {NULL}]]
           /\ tc'[t].seen = tag[a] /\ tc'[t].last = s
           /\ \A u \in Threads : tc'[u].next = tc[u].next
           /\ \A u \in Threads : u # t => tc'[u] = tc[u]
<1>1. tc[t] \in [next : Ids, seen : Ids \cup {NoId}, last : SerialPtrs \cup {NULL}]
      /\ tag[a] \in Ids \cup {NoId}
  BY DEF TypeOK
<1>2. tc' = [tc EXCEPT ![t] = [tc[t] EXCEPT !.last = s, !.seen = tag[a]]]
  BY DEF CacheSerialArena
<1> DEFINE c == [tc[t] EXCEPT !.last = s, !.seen = tag[a]]
<1>3. /\ c \in [next : Ids, seen : Ids \cup {NoId}, last : SerialPtrs \cup {NULL}]
      /\ c.next = tc[t].next /\ c.seen = tag[a] /\ c.last = s
  BY <1>1
<1> HIDE DEF c
<1>4. tc' = [tc EXCEPT ![t] = c]
  BY <1>2 DEF c
<1> QED
  BY <1>3, <1>4 DEF TypeOK

(* Caching a SerialArena issues no lifecycle id. *)
LEMMA CacheKeepsIds ==
    ASSUME TypeOK, IdInv, NEW t \in Threads, NEW a \in Arenas, NEW s \in SerialPtrs,
           CacheSerialArena(t, a, s), UNCHANGED <<lifecycle_id, tag, live>>
    PROVE  IdInv'
<1> HIDE DEF CacheSerialArena
<1>1. /\ tc'[t].seen = tag[a]
      /\ \A u \in Threads : tc'[u].next = tc[u].next
      /\ \A u \in Threads : u # t => tc'[u] = tc[u]
  BY CacheWrite
<1>2. \A id : Issued(id) <=> Issued(id)'
  BY <1>1 DEF Issued, NeedsBatch
<1>3. \A u \in Threads : Issued(tc'[u].seen)
  BY <1>1 DEF IdInv
<1> QED
  BY <1>1, <1>2, <1>3 DEF IdInv, NeedsBatch

(* The slots are what they were, whatever became of the sizes. *)
SameSlots ==
    \A b \in Arenas :
        /\ Len(chunks'[b]) = Len(chunks[b])
        /\ \A m \in 1 .. Len(chunks[b]) :
            /\ chunks'[b][m].capacity = chunks[b][m].capacity
            /\ chunks'[b][m].ids = chunks[b][m].ids
            /\ chunks'[b][m].arenas = chunks[b][m].arenas

LEMMA OneSlotFrame ==
    ASSUME OneSlotInv, live \subseteq Arenas, UNCHANGED live, SameSlots
    PROVE  OneSlotInv'
<1> SUFFICES ASSUME NEW a \in live',
                    NEW k \in (1 .. Len(chunks[a]))', NEW m \in (1 .. Len(chunks[a]))',
                    NEW i \in Slot(a, k)', NEW j \in Slot(a, m)',
                    (chunks[a][k].ids[i] = chunks[a][m].ids[j])',
                    (chunks[a][k].ids[i] # NULL)'
             PROVE  k = m /\ i = j
  BY DEF OneSlotInv
<1>1. a \in live /\ k \in 1 .. Len(chunks[a]) /\ m \in 1 .. Len(chunks[a])
  BY DEF SameSlots
<1>2. i \in Slot(a, k) /\ j \in Slot(a, m)
  BY <1>1 DEF SameSlots, Slot
<1>3. chunks[a][k].ids[i] = chunks[a][m].ids[j] /\ chunks[a][k].ids[i] # NULL
  BY <1>1 DEF SameSlots
<1> QED
  BY <1>1, <1>2, <1>3 DEF OneSlotInv

LEMMA UnlistedFrame ==
    ASSUME UnlistedInv, SameSlots,
           \A t \in Threads : pc'[t] \in Adding =>
             pc[t] \in Adding /\ cur'[t] = cur[t] /\ cur[t] \in Arenas
    PROVE  UnlistedInv'
<1> SUFFICES ASSUME NEW t \in Threads, pc'[t] \in Adding,
                    NEW k \in (1 .. Len(chunks[cur[t]]))', NEW i \in Slot(cur[t], k)',
                    (chunks[cur[t]][k].ids[i] = t)'
             PROVE  (chunks[cur[t]][k].arenas[i] = NULL)'
  BY DEF UnlistedInv
<1>1. /\ pc[t] \in Adding /\ cur'[t] = cur[t] /\ cur[t] \in Arenas
      /\ k \in 1 .. Len(chunks[cur[t]])
  BY DEF SameSlots
<1>2. i \in Slot(cur[t], k) /\ chunks[cur[t]][k].ids[i] = t
  BY <1>1 DEF SameSlots, Slot
<1>3. chunks[cur[t]][k].arenas[i] = NULL
  BY <1>1, <1>2 DEF UnlistedInv
<1> QED
  BY <1>1, <1>3 DEF SameSlots

(* No slot changes, and a size only uncovers slots. *)
LEMMA SlotFrame ==
    ASSUME SlotInv, live \subseteq Arenas, SameSlots, UNCHANGED <<live, tag, heap>>,
           \A b \in live : \A m \in 1 .. Len(chunks[b]) : \A i \in Slot(b, m) :
             i >= chunks'[b][m].size => i >= chunks[b][m].size,
           \A u \in Threads : pc[u] = "arenas" =>
             pc'[u] = "arenas" /\ cur'[u] = cur[u] /\ hd'[u] = hd[u] /\ slot'[u] = slot[u]
    PROVE  SlotInv'
<1> SUFFICES ASSUME NEW b \in live, NEW m \in 1 .. Len(chunks[b]), NEW i \in Slot(b, m)
             PROVE  SlotOK(b, m, i)'
  BY DEF SlotInv, Slot, SameSlots
<1>1. SlotOK(b, m, i)
  BY DEF SlotInv
<1>2. /\ chunks'[b][m].ids = chunks[b][m].ids
      /\ chunks'[b][m].arenas = chunks[b][m].arenas
      /\ i >= chunks'[b][m].size => i >= chunks[b][m].size
  BY DEF SameSlots
<1> QED
  BY <1>1, <1>2 DEF SlotOK

(* A thread that claims a slot claimed it before. *)
LEMMA ClaimFrame ==
    ASSUME ClaimInv, UNCHANGED chunks,
           \A u \in Threads : pc'[u] \in Claiming =>
             pc'[u] = pc[u] /\ cur'[u] = cur[u] /\ hd'[u] = hd[u] /\ slot'[u] = slot[u]
    PROVE  ClaimInv'
<1>1. ASSUME NEW u \in Threads, pc'[u] \in Claiming
      PROVE  pc[u] \in Claiming /\ ClaimOK(u)'
  BY <1>1 DEF ClaimInv, ClaimOK, ChunkOf
<1> QED
  BY <1>1 DEF ClaimInv, SameClaim

(* A call that has found its SerialArena, and may have cached it *)
LEMMA EnterStep ==
    ASSUME IInv, NEW t \in Threads, NEW a \in live, NEW s \in SerialPtrs,
           pc[t] = "idle", OwnSerial(t, a, s),
           cur' = [cur EXCEPT ![t] = a],
           pc' = [pc EXCEPT ![t] = "alloc"],
           ser' = [ser EXCEPT ![t] = s],
           tc' = tc \/ CacheSerialArena(t, a, s),
           UNCHANGED <<shared, hd, slot>>
    PROVE  IInv'
<1> USE ConstantsAssumption DEF shared
<1>0. a \in Arenas
  BY DEF IInv, TypeOK
<1>1. /\ tc' \in [Threads -> [next : Ids, seen : Ids \cup {NoId},
                              last : SerialPtrs \cup {NULL}]]
      /\ tc'[t] = tc[t] \/ (tc'[t].seen = tag[a] /\ tc'[t].last = s)
      /\ \A u \in Threads : u # t => tc'[u] = tc[u]
  BY <1>0, CacheWrite DEF IInv, TypeOK
<1>2. TypeOK'
  BY <1>0, <1>1 DEF IInv, TypeOK, Pcs
<1>3. ControlInv'
  BY DEF IInv, TypeOK, ControlInv, ControlOK, ChunkOf, Inserting, Claiming
<1>4. LockInv'
  BY DEF IInv, TypeOK, ControlInv, ControlOK, LockInv, Locked, Inserting
<1>5. IdInv'
  <2>1. CASE tc' = tc
    BY <2>1 DEF IInv, IdInv, Issued, NeedsBatch
  <2>2. CASE CacheSerialArena(t, a, s)
    BY <1>0, <2>2, CacheKeepsIds DEF IInv
  <2> QED
    BY <2>1, <2>2
<1>6. NewSerialInv'
  BY DEF IInv, TypeOK, NewSerialInv, OwnSerial, Adding, Pcs
<1>7. SlotInv'
  <2>1. \A u \in Threads : pc[u] = "arenas" =>
          pc'[u] = "arenas" /\ cur'[u] = cur[u] /\ hd'[u] = hd[u] /\ slot'[u] = slot[u]
    BY DEF IInv, TypeOK
  <2>2. SameSlots
    BY DEF SameSlots
  <2> QED
    BY <2>1, <2>2, SlotFrame DEF IInv, TypeOK
<1>8. OneSlotInv'
  BY DEF IInv, OneSlotInv, Slot
<1>9. UnlistedInv'
  BY DEF IInv, TypeOK, UnlistedInv, Slot, Adding, Pcs
<1>10. ClaimInv'
  <2>1. \A u \in Threads : pc'[u] \in Claiming =>
          pc'[u] = pc[u] /\ cur'[u] = cur[u] /\ hd'[u] = hd[u] /\ slot'[u] = slot[u]
    BY DEF IInv, TypeOK, Claiming
  <2> QED
    BY <2>1, ClaimFrame DEF IInv
<1>11. UseInv'
  BY DEF IInv, TypeOK, UseInv, OwnSerial
<1>12. CacheCoherent'
  <2> SUFFICES ASSUME NEW u \in Threads, NEW b \in live, CacheHit(u, b)'
               PROVE  OwnSerial(u, b, tc'[u].last)
    BY DEF CacheCoherent, OwnSerial
  <2>1. CASE tc'[u] = tc[u]
    BY <2>1 DEF IInv, CacheCoherent, CacheHit
  <2>2. CASE u = t /\ tc'[t].seen = tag[a] /\ tc'[t].last = s
    BY <2>2 DEF IInv, IdInv, CacheHit
  <2> QED
    BY <1>1, <2>1, <2>2
<1> QED
  BY <1>2, <1>3, <1>4, <1>5, <1>6, <1>7, <1>8, <1>9, <1>10, <1>11, <1>12 DEF IInv

LEMMA GetSerialArenaFastStep ==
    ASSUME IInv, NEW t \in Threads, NEW a \in Arenas, GetSerialArenaFast(t, a)
    PROVE  IInv'
<1>1. OwnSerial(t, a, tc[t].last)
  BY DEF IInv, CacheCoherent, GetSerialArenaFast, Enter
<1>2. tc[t].last \in SerialPtrs
  BY <1>1 DEF OwnSerial, SerialPtrs
<1> QED
  BY <1>1, <1>2, EnterStep DEF GetSerialArenaFast, Enter, Allocate

LEMMA FallbackFirstArenaStep ==
    ASSUME IInv, NEW t \in Threads, NEW a \in Arenas, FallbackFirstArena(t, a)
    PROVE  IInv'
<1>1. OwnSerial(t, a, a) /\ a \in SerialPtrs
  BY DEF FallbackFirstArena, OwnSerial, SerialPtrs
<1> QED
  BY <1>1, EnterStep DEF FallbackFirstArena, Enter, Allocate

(* The entry a search finds is the only one, and it is filled. *)
LEMMA FoundSerial ==
    ASSUME IInv, NEW t \in Threads, NEW a \in live, pc[t] = "idle", EntriesOf(a, t) # {}
    PROVE  Found(a, t) \in Serials /\ OwnSerial(t, a, Found(a, t))
<1>1. \A e \in Entries(a) : /\ e = <<e[1], e[2]>>
                            /\ e[1] \in 1 .. Len(chunks[a])
                            /\ e[2] \in Slot(a, e[1])
  <2>1. chunks[a] \in Seq(Chunk) /\ a \in Arenas
    BY DEF IInv, TypeOK
  <2>2. \A k \in 1 .. Len(chunks[a]) : chunks[a][k] \in Chunk
    BY <2>1
  <2>3. \A c \in Chunk : SafeSize(c) <= c.capacity /\ SafeSize(c) \in Nat /\ c.capacity \in Nat
    <3>1. MaxCapacity \in Int
      BY ConstantsAssumption, SMTT(30) DEF MaxCapacity
    <3> QED
      BY <3>1 DEF SafeSize, SmallerOf, Chunk
  <2> QED
    BY <2>1, <2>2, <2>3, SMTT(30) DEF Entries, Slot
<1>2. PICK e \in EntriesOf(a, t) : TRUE
  OBVIOUS
<1>3. e \in Entries(a) /\ chunks[a][e[1]].ids[e[2]] = t
  BY <1>2 DEF EntriesOf, IdAt
<1>4. \A f \in EntriesOf(a, t) : f = e
  <2> TAKE f \in EntriesOf(a, t)
  <2>1. f \in Entries(a) /\ chunks[a][f[1]].ids[f[2]] = t
    BY DEF EntriesOf, IdAt
  <2>2. f[1] = e[1] /\ f[2] = e[2]
    <3> DEFINE k == f[1]  i == f[2]  m == e[1]  j == e[2]
    <3>1. /\ k \in 1 .. Len(chunks[a]) /\ i \in Slot(a, k)
          /\ m \in 1 .. Len(chunks[a]) /\ j \in Slot(a, m)
      BY <1>1, <1>3, <2>1
    <3>2. chunks[a][k].ids[i] = chunks[a][m].ids[j] /\ chunks[a][k].ids[i] # NULL
      BY <1>3, <2>1, ConstantsAssumption
    <3> HIDE DEF k, i, m, j
    <3>3. k = m /\ i = j
      BY <3>1, <3>2 DEF IInv, OneSlotInv
    <3> QED
      BY <3>3 DEF k, i, m, j
  <2> QED
    BY <1>1, <1>3, <2>1, <2>2
<1>5. e[1] \in Nat /\ e[2] \in Nat
  BY <1>1, <1>3 DEF Slot, IInv, TypeOK
<1>6. Found(a, t) = chunks[a][e[1]].arenas[e[2]]
  BY <1>2, <1>4, <1>5 DEF Found, ArenaAt
<1>7. SlotOK(a, e[1], e[2])
  BY <1>1, <1>3 DEF IInv, SlotInv
<1>8. Found(a, t) # NULL
  BY <1>3, <1>6, <1>7, ConstantsAssumption DEF SlotOK
<1>9. Found(a, t) \in Serials
  <2>1. chunks[a] \in Seq(Chunk) /\ a \in Arenas
    BY DEF IInv, TypeOK
  <2>2. chunks[a][e[1]] \in Chunk /\ HasSlots(chunks[a][e[1]])
    BY <1>1, <1>3, <2>1 DEF IInv, TypeOK
  <2>3. chunks[a][e[1]].arenas[e[2]] \in Serials \cup {NULL}
    BY <1>1, <1>3, <2>2 DEF Chunk, Arrays, HasSlots, Slot
  <2> QED
    BY <1>6, <1>8, <2>3
<1> QED
  BY <1>3, <1>6, <1>7, <1>8, <1>9 DEF SlotOK, OwnSerial

LEMMA FallbackFoundStep ==
    ASSUME IInv, NEW t \in Threads, NEW a \in Arenas, FallbackFound(t, a)
    PROVE  IInv'
<1>1. Found(a, t) \in Serials /\ OwnSerial(t, a, Found(a, t))
  BY FoundSerial DEF FallbackFound, Enter
<1>2. Found(a, t) \in SerialPtrs
  BY <1>1 DEF SerialPtrs
<1> QED
  BY <1>1, <1>2, EnterStep DEF FallbackFound, Enter, Allocate

LEMMA FallbackNewStep ==
    ASSUME IInv, NEW t \in Threads, NEW a \in Arenas, FallbackNew(t, a)
    PROVE  IInv'
<1> USE ConstantsAssumption
<1>1. PICK s \in Serials :
        /\ heap[s] = NULL
        /\ heap' = [heap EXCEPT ![s] = [arena |-> a, id |-> tag[a], owner |-> t]]
        /\ ser' = [ser EXCEPT ![t] = s]
  BY DEF FallbackNew
<1>2. /\ pc[t] = "idle" /\ a \in live /\ first_owner[a] # t /\ EntriesOf(a, t) = {}
      /\ cur' = [cur EXCEPT ![t] = a]
      /\ pc' = [pc EXCEPT ![t] = "load"]
      /\ UNCHANGED <<lifecycle_id, live, tag, first_owner, chunks, mutex, tc, hd, slot>>
  BY DEF FallbackNew, Enter
<1>3. tag[a] \in Ids
  BY <1>2 DEF IInv, IdInv
<1>4. [arena |-> a, id |-> tag[a], owner |-> t] \in Allocations
  BY <1>3 DEF Allocations
<1>5. TypeOK'
  BY <1>1, <1>2, <1>4 DEF IInv, TypeOK, Pcs, SerialPtrs
<1>6. ControlInv'
  BY <1>2 DEF IInv, TypeOK, ControlInv, ControlOK, ChunkOf, Inserting, Claiming
<1>7. LockInv'
  BY <1>2 DEF IInv, TypeOK, ControlInv, ControlOK, LockInv, Locked, Inserting
<1>8. IdInv'
  BY <1>2 DEF IInv, IdInv, Issued, NeedsBatch
<1>9. \A u \in Threads, b \in live : \A r :
        OwnSerial(u, b, r) => r # s /\ OwnSerial(u, b, r)'
  <2> SUFFICES ASSUME NEW u \in Threads, NEW b \in live, NEW r, OwnSerial(u, b, r)
               PROVE  r # s /\ OwnSerial(u, b, r)'
    OBVIOUS
  <2>1. CASE r = b /\ first_owner[b] = u
    BY <1>2, <2>1 DEF OwnSerial, IInv, TypeOK
  <2>2. CASE r \in Serials /\ heap[r] = [arena |-> b, id |-> tag[b], owner |-> u]
    <3>1. [arena |-> b, id |-> tag[b], owner |-> u] \in Allocations
      BY DEF IInv, TypeOK, IdInv, Allocations
    <3>2. r # s
      BY <1>1, <2>2, <3>1
    <3> QED
      BY <1>1, <1>2, <2>2, <3>2 DEF OwnSerial, IInv, TypeOK
  <2> QED
    BY <2>1, <2>2 DEF OwnSerial
<1>10. NewSerialInv'
  <2> SUFFICES ASSUME NEW u \in Threads, pc'[u] \in Adding
               PROVE  (ser[u] \in Serials)' /\ OwnSerial(u, cur[u], ser[u])'
    BY DEF NewSerialInv
  <2>1. CASE u = t
    BY <1>1, <1>2, <2>1 DEF IInv, TypeOK, OwnSerial
  <2>2. CASE u # t
    <3>1. pc[u] \in Adding /\ cur'[u] = cur[u] /\ ser'[u] = ser[u] /\ cur[u] \in live
      BY <1>1, <1>2, <2>2 DEF IInv, TypeOK, ControlInv, ControlOK, Adding, Pcs
    <3>2. ser[u] \in Serials /\ OwnSerial(u, cur[u], ser[u])
      BY <3>1 DEF IInv, NewSerialInv
    <3>3. OwnSerial(u, cur[u], ser[u])'
      BY <1>2, <1>9, <3>1, <3>2 DEF OwnSerial
    <3> QED
      BY <3>1, <3>2, <3>3
  <2> QED
    BY <2>1, <2>2
<1>11. SlotInv'
  <2> SUFFICES ASSUME NEW b \in live, NEW k \in 1 .. Len(chunks[b]), NEW i \in Slot(b, k)
               PROVE  SlotOK(b, k, i)'
    BY <1>2 DEF SlotInv, Slot
  <2> DEFINE c == chunks[b][k]
  <2>1. SlotOK(b, k, i)
    BY DEF IInv, SlotInv
  <2>2. c.arenas[i] # NULL => heap'[c.arenas[i]] = heap[c.arenas[i]]
    <3> SUFFICES ASSUME c.arenas[i] # NULL PROVE c.arenas[i] # s
      BY <1>1 DEF IInv, TypeOK
    <3>1. [arena |-> b, id |-> tag[b], owner |-> c.ids[i]] \in Allocations
      BY <2>1 DEF SlotOK, IInv, TypeOK, IdInv, Allocations
    <3> QED
      BY <1>1, <2>1, <3>1 DEF SlotOK
  <2>3. c.ids[i] # NULL /\ c.arenas[i] = NULL => c.ids[i] # t
    BY <1>2, <2>1 DEF SlotOK
  <2> QED
    BY <1>2, <2>1, <2>2, <2>3 DEF SlotOK, IInv, TypeOK
<1>12. OneSlotInv'
  BY <1>2, OneSlotFrame DEF IInv, TypeOK, SameSlots
<1>13. UnlistedInv'
  <2> SUFFICES ASSUME NEW u \in Threads, pc'[u] \in Adding,
                      NEW k \in 1 .. Len(chunks[cur'[u]]), NEW i \in Slot(cur'[u], k),
                      chunks[cur'[u]][k].ids[i] = u
               PROVE  chunks[cur'[u]][k].arenas[i] = NULL
    BY <1>2 DEF UnlistedInv, Slot
  <2>1. CASE u = t
    <3>1. cur'[u] = a
      BY <1>2, <2>1 DEF IInv, TypeOK
    <3>2. SlotOK(a, k, i)
      BY <1>2, <3>1 DEF IInv, SlotInv
    <3>3. chunks[a][k] \in Chunk /\ HasSlots(chunks[a][k])
      BY <3>1 DEF IInv, TypeOK
    <3>4. i < chunks[a][k].size
      BY <2>1, <3>1, <3>2, <3>3 DEF SlotOK, Slot, Chunk
    <3>5. <<k, i>> \in Entries(a)
      <4>1. MaxCapacity \in Int
        BY SMTT(30) DEF MaxCapacity
      <4>2. i \in 0 .. SafeSize(chunks[a][k]) - 1
        BY <3>1, <3>3, <3>4, <4>1 DEF SafeSize, SmallerOf, Slot, Chunk
      <4>3. k \in DOMAIN chunks[a]
        BY <1>2, <3>1 DEF IInv, TypeOK
      <4> QED
        BY <4>2, <4>3 DEF Entries
    <3>6. <<k, i>> \in EntriesOf(a, t)
      BY <2>1, <3>1, <3>5 DEF EntriesOf, IdAt
    <3> QED
      BY <1>2, <3>6
  <2>2. CASE u # t
    BY <1>2, <2>2 DEF IInv, TypeOK, UnlistedInv, Slot
  <2> QED
    BY <2>1, <2>2
<1>14. ClaimInv'
  BY <1>2 DEF IInv, TypeOK, ClaimInv, ClaimOK, SameClaim, ChunkOf, Claiming
<1>15. UseInv'
  <2> SUFFICES ASSUME NEW u \in Threads, pc'[u] = "alloc"
               PROVE  OwnSerial(u, cur[u], ser[u])'
    BY DEF UseInv
  <2>1. pc[u] = "alloc" /\ cur'[u] = cur[u] /\ ser'[u] = ser[u] /\ cur[u] \in live
    BY <1>1, <1>2 DEF IInv, TypeOK, ControlInv, ControlOK
  <2>2. OwnSerial(u, cur[u], ser[u])
    BY <2>1 DEF IInv, UseInv
  <2> QED
    BY <1>2, <1>9, <2>1, <2>2 DEF OwnSerial
<1>16. CacheCoherent'
  <2> SUFFICES ASSUME NEW u \in Threads, NEW b \in live, CacheHit(u, b)
               PROVE  OwnSerial(u, b, tc[u].last)'
    BY <1>2 DEF CacheCoherent, OwnSerial, CacheHit
  <2> QED
    BY <1>2, <1>9 DEF IInv, CacheCoherent
<1> QED
  BY <1>5, <1>6, <1>7, <1>8, <1>10, <1>11, <1>12, <1>13, <1>14, <1>15, <1>16 DEF IInv

LEMMA LoadHeadStep ==
    ASSUME IInv, NEW t \in Threads, LoadHead(t)
    PROVE  IInv'
<1> USE ConstantsAssumption DEF LoadHead, Goto, shared
<1>1. cur[t] \in Arenas /\ cur[t] \in live /\ Len(chunks[cur[t]]) \in Nat
  BY DEF IInv, TypeOK, ControlInv, ControlOK
<1>2. TypeOK'
  BY <1>1 DEF IInv, TypeOK, Pcs
<1>3. ControlInv'
  BY <1>1 DEF IInv, TypeOK, ControlInv, ControlOK, ChunkOf, Inserting, Claiming
<1>4. LockInv'
  BY DEF IInv, TypeOK, ControlInv, ControlOK, LockInv, Locked, Inserting
<1>5. IdInv'
  BY DEF IInv, IdInv, Issued, NeedsBatch
<1>6. NewSerialInv'
  BY DEF IInv, TypeOK, NewSerialInv, OwnSerial, Adding, Pcs
<1>7. SlotInv'
  <2> SUFFICES ASSUME NEW b \in live, NEW k \in 1 .. Len(chunks[b]), NEW i \in Slot(b, k)
               PROVE  SlotOK(b, k, i)'
    BY DEF SlotInv, Slot
  <2>1. SlotOK(b, k, i)
    BY DEF IInv, SlotInv
  <2> QED
    BY <2>1 DEF SlotOK, IInv, TypeOK
<1>8. OneSlotInv'
  BY OneSlotFrame DEF IInv, TypeOK, SameSlots
<1>9. UnlistedInv'
  BY UnlistedFrame DEF IInv, TypeOK, ControlInv, ControlOK, SameSlots, Adding, Pcs
<1>10. ClaimInv'
  <2>1. \A u \in Threads : pc'[u] \in Claiming =>
          pc'[u] = pc[u] /\ cur'[u] = cur[u] /\ hd'[u] = hd[u] /\ slot'[u] = slot[u]
    BY DEF IInv, TypeOK, Claiming
  <2> QED
    BY <2>1, ClaimFrame DEF IInv
<1>11. UseInv'
  BY DEF IInv, TypeOK, UseInv, OwnSerial
<1>12. CacheCoherent'
  BY DEF IInv, CacheCoherent, CacheHit, OwnSerial
<1> QED
  BY <1>2, <1>3, <1>4, <1>5, <1>6, <1>7, <1>8, <1>9, <1>10, <1>11, <1>12 DEF IInv

LEMMA LockStep ==
    ASSUME IInv, NEW t \in Threads, Lock(t)
    PROVE  IInv'
<1> USE ConstantsAssumption DEF Lock, Goto
<1>1. cur[t] \in Arenas /\ cur[t] \in live /\ Len(chunks[cur[t]]) \in Nat
  BY DEF IInv, TypeOK, ControlInv, ControlOK
<1>2. TypeOK'
  BY <1>1 DEF IInv, TypeOK, Pcs
<1>3. ControlInv'
  BY <1>1 DEF IInv, TypeOK, ControlInv, ControlOK, ChunkOf, Inserting, Claiming
<1>4. LockInv'
  BY <1>1 DEF IInv, TypeOK, ControlInv, ControlOK, LockInv, Locked, Inserting
<1>5. IdInv'
  BY DEF IInv, IdInv, Issued, NeedsBatch
<1>6. NewSerialInv'
  BY DEF IInv, TypeOK, NewSerialInv, OwnSerial, Adding, Pcs
<1>7. SlotInv'
  <2>1. \A u \in Threads : pc[u] = "arenas" =>
          pc'[u] = "arenas" /\ cur'[u] = cur[u] /\ hd'[u] = hd[u] /\ slot'[u] = slot[u]
    BY DEF IInv, TypeOK
  <2>2. SameSlots
    BY DEF SameSlots
  <2> QED
    BY <2>1, <2>2, SlotFrame DEF IInv, TypeOK
<1>8. OneSlotInv'
  BY OneSlotFrame DEF IInv, TypeOK, SameSlots
<1>9. UnlistedInv'
  BY UnlistedFrame DEF IInv, TypeOK, ControlInv, ControlOK, SameSlots, Adding, Pcs
<1>10. ClaimInv'
  <2>1. \A u \in Threads : pc'[u] \in Claiming =>
          pc'[u] = pc[u] /\ cur'[u] = cur[u] /\ hd'[u] = hd[u] /\ slot'[u] = slot[u]
    BY DEF IInv, TypeOK, Claiming
  <2> QED
    BY <2>1, ClaimFrame DEF IInv
<1>11. UseInv'
  BY DEF IInv, TypeOK, UseInv, OwnSerial
<1>12. CacheCoherent'
  BY DEF IInv, CacheCoherent, CacheHit, OwnSerial
<1> QED
  BY <1>2, <1>3, <1>4, <1>5, <1>6, <1>7, <1>8, <1>9, <1>10, <1>11, <1>12 DEF IInv

LEMMA FinishStep ==
    ASSUME IInv, NEW t \in Threads, Finish(t)
    PROVE  IInv'
<1> USE ConstantsAssumption DEF Finish, Goto, shared
<1>1. TypeOK'
  BY DEF IInv, TypeOK, Pcs
<1>2. ControlInv'
  BY DEF IInv, TypeOK, ControlInv, ControlOK, ChunkOf, Inserting, Claiming
<1>3. LockInv'
  BY DEF IInv, TypeOK, ControlInv, ControlOK, LockInv, Locked, Inserting
<1>4. IdInv'
  BY DEF IInv, IdInv, Issued, NeedsBatch
<1>5. NewSerialInv'
  BY DEF IInv, TypeOK, NewSerialInv, OwnSerial, Adding, Pcs
<1>6. SlotInv'
  <2>1. \A u \in Threads : pc[u] = "arenas" =>
          pc'[u] = "arenas" /\ cur'[u] = cur[u] /\ hd'[u] = hd[u] /\ slot'[u] = slot[u]
    BY DEF IInv, TypeOK
  <2>2. SameSlots
    BY DEF SameSlots
  <2> QED
    BY <2>1, <2>2, SlotFrame DEF IInv, TypeOK
<1>7. OneSlotInv'
  BY OneSlotFrame DEF IInv, TypeOK, SameSlots
<1>8. UnlistedInv'
  BY UnlistedFrame DEF IInv, TypeOK, ControlInv, ControlOK, SameSlots, Adding, Pcs
<1>9. ClaimInv'
  <2>1. \A u \in Threads : pc'[u] \in Claiming =>
          pc'[u] = pc[u] /\ cur'[u] = cur[u] /\ hd'[u] = hd[u] /\ slot'[u] = slot[u]
    BY DEF IInv, TypeOK, Claiming
  <2> QED
    BY <2>1, ClaimFrame DEF IInv
<1>10. UseInv'
  BY DEF IInv, TypeOK, UseInv, OwnSerial
<1>11. CacheCoherent'
  BY DEF IInv, CacheCoherent, CacheHit, OwnSerial
<1> QED
  BY <1>1, <1>2, <1>3, <1>4, <1>5, <1>6, <1>7, <1>8, <1>9, <1>10, <1>11 DEF IInv

LEMMA ThreadExitStep ==
    ASSUME IInv, NEW t \in Threads, ThreadExit(t)
    PROVE  IInv'
<1> USE ConstantsAssumption DEF ThreadExit, shared
<1>1. /\ tc'[t] = FreshCache /\ \A u \in Threads : u # t => tc'[u] = tc[u]
      /\ FreshCache \in [next : Ids, seen : Ids \cup {NoId}, last : SerialPtrs \cup {NULL}]
      /\ FreshCache.next.index = 0 /\ FreshCache.seen = NoId /\ NoId \notin Ids
  BY DEF IInv, TypeOK, FreshCache, Ids, NoId
<1>2. TypeOK'
  BY <1>1 DEF IInv, TypeOK
<1>3. ControlInv'
  BY DEF IInv, ControlInv, ControlOK, ChunkOf
<1>4. LockInv'
  BY DEF IInv, LockInv
<1>5. IdInv'
  BY <1>1 DEF IInv, IdInv, Issued, NeedsBatch
<1>6. NewSerialInv' /\ UseInv'
  BY DEF IInv, NewSerialInv, UseInv, OwnSerial
<1>7. SlotInv'
  BY DEF IInv, SlotInv, SlotOK, Slot
<1>8. OneSlotInv' /\ UnlistedInv'
  BY OneSlotFrame, UnlistedFrame DEF IInv, TypeOK, ControlInv, ControlOK, SameSlots, Adding, Pcs
<1>9. ClaimInv'
  BY DEF IInv, ClaimInv, ClaimOK, SameClaim, ChunkOf
<1>10. CacheCoherent'
  BY <1>1 DEF IInv, IdInv, CacheCoherent, CacheHit, OwnSerial
<1> QED
  BY <1>2, <1>3, <1>4, <1>5, <1>6, <1>7, <1>8, <1>9, <1>10 DEF IInv

-----------------------------------------------------------------------------
(* The steps of an insert *)

LEMMA MaxCapacityType == MaxCapacity \in Int
BY ConstantsAssumption, SMTT(30) DEF MaxCapacity

(* One chunk of one arena gets a new size: the slots stay as they are. *)
WritesSize(t, n) == chunks' = [chunks EXCEPT ![cur[t]][hd[t]].size = n]

LEMMA SizeWrite ==
    ASSUME IInv, NEW t \in Threads, pc[t] \in Inserting, NEW n \in Nat \ {0},
           WritesSize(t, n)
    PROVE  /\ chunks' \in [Arenas -> Seq(Chunk)]
           /\ \A b \in Arenas : \A m \in DOMAIN chunks'[b] : HasSlots(chunks'[b][m])
           /\ SameSlots
           /\ \A b \in Arenas : \A m \in 1 .. Len(chunks[b]) :
                chunks'[b][m].size = IF b = cur[t] /\ m = hd[t] THEN n ELSE chunks[b][m].size
<1> DEFINE a == cur[t]  k == hd[t]  d == [chunks[a][k] EXCEPT !.size = n]
<1>1. a \in Arenas /\ k \in 1 .. Len(chunks[a]) /\ chunks[a][k] \in Chunk /\ HasSlots(chunks[a][k])
  BY CallState DEF ChunkOf
<1>2. /\ d \in Chunk /\ d.size = n /\ d.capacity = chunks[a][k].capacity
      /\ d.ids = chunks[a][k].ids /\ d.arenas = chunks[a][k].arenas
  BY <1>1 DEF Chunk
<1>3. HasSlots(d)
  BY <1>1, <1>2 DEF HasSlots
<1>4. Replaces(a, k, d)
  BY DEF WritesSize, Replaces
<1> HIDE DEF d
<1>5. /\ chunks' \in [Arenas -> Seq(Chunk)]
      /\ \A b \in Arenas : \A m \in DOMAIN chunks'[b] : HasSlots(chunks'[b][m])
      /\ \A b \in Arenas : Len(chunks'[b]) = Len(chunks[b])
      /\ \A b \in Arenas : b # a => chunks'[b] = chunks[b]
      /\ chunks'[a][k] = d
      /\ \A m \in 1 .. Len(chunks[a]) : m # k => chunks'[a][m] = chunks[a][m]
  BY <1>1, <1>2, <1>3, <1>4, ReplaceChunk DEF IInv
<1> QED
  BY <1>1, <1>2, <1>5 DEF SameSlots

LEMMA FetchAddStep ==
    ASSUME IInv, NEW t \in Threads, FetchAdd(t)
    PROVE  IInv'
<1> USE ConstantsAssumption
<1> DEFINE a == cur[t]  k == hd[t]  size == chunks[a][k].size  n == size + 1
<1>1. /\ a \in live /\ a \in Arenas /\ k \in 1 .. Len(chunks[a])
      /\ chunks[a][k] \in Chunk /\ HasSlots(chunks[a][k])
  BY CallState DEF FetchAdd, Inserting, ChunkOf
<1>2. size \in Nat \ {0} /\ chunks[a][k].capacity \in Nat \ {0}
  BY <1>1, MaxCapacityType DEF Chunk
<1>3. /\ pc[t] = "fetch"
      /\ slot' = [slot EXCEPT ![t] = size]
      /\ pc' = [pc EXCEPT ![t] = IF size >= chunks[a][k].capacity THEN "full" ELSE "ids"]
      /\ UNCHANGED <<lifecycle_id, live, tag, first_owner, mutex, heap, tc, cur, ser, hd>>
  BY DEF FetchAdd, Goto
<1>4. WritesSize(t, n)
  BY DEF FetchAdd, WritesSize
<1>5. n \in Nat \ {0} /\ n = size + 1
  BY <1>2
<1> HIDE DEF n
<1>6. /\ chunks' \in [Arenas -> Seq(Chunk)]
      /\ \A b \in Arenas : \A m \in DOMAIN chunks'[b] : HasSlots(chunks'[b][m])
      /\ SameSlots
      /\ \A b \in Arenas : \A m \in 1 .. Len(chunks[b]) :
           chunks'[b][m].size = IF b = cur[t] /\ m = hd[t] THEN n ELSE chunks[b][m].size
  BY <1>3, <1>4, <1>5, SizeWrite DEF Inserting
<1>7. \A i \in Slot(a, k) : i >= size =>
        chunks[a][k].ids[i] = NULL /\ chunks[a][k].arenas[i] = NULL
  <2> TAKE i \in Slot(a, k)
  <2>1. SlotOK(a, k, i)
    BY <1>1 DEF IInv, SlotInv
  <2> QED
    BY <2>1 DEF SlotOK
<1>8. live \subseteq Arenas /\ \A u \in Threads : ControlOK(u)
  BY DEF IInv, TypeOK, ControlInv
<1>9. \A u \in Threads : u # t => pc'[u] = pc[u] /\ slot'[u] = slot[u]
  BY <1>3 DEF IInv, TypeOK
<1>10. pc'[t] = (IF size >= chunks[a][k].capacity THEN "full" ELSE "ids") /\ slot'[t] = size
  BY <1>3 DEF IInv, TypeOK
(* The chunk a thread inserts into *)
<1>11. \A u \in Threads : pc[u] \in Inserting =>
        /\ Len(chunks'[cur[u]]) = Len(chunks[cur[u]])
        /\ ChunkOf(u)'.capacity = ChunkOf(u).capacity
        /\ ChunkOf(u)'.ids = ChunkOf(u).ids
        /\ ChunkOf(u)'.arenas = ChunkOf(u).arenas
        /\ ChunkOf(u).size \in Nat /\ ChunkOf(u).capacity \in Nat
        /\ ChunkOf(u)'.size \in Nat /\ ChunkOf(u)'.size >= ChunkOf(u).size
  <2> SUFFICES ASSUME NEW u \in Threads, pc[u] \in Inserting
               PROVE  /\ Len(chunks'[cur[u]]) = Len(chunks[cur[u]])
                      /\ ChunkOf(u)'.capacity = ChunkOf(u).capacity
                      /\ ChunkOf(u)'.ids = ChunkOf(u).ids
                      /\ ChunkOf(u)'.arenas = ChunkOf(u).arenas
                      /\ ChunkOf(u).size \in Nat /\ ChunkOf(u).capacity \in Nat
                      /\ ChunkOf(u)'.size \in Nat /\ ChunkOf(u)'.size >= ChunkOf(u).size
    OBVIOUS
  <2>1. cur[u] \in Arenas /\ hd[u] \in 1 .. Len(chunks[cur[u]]) /\ ChunkOf(u) \in Chunk
    BY CallState
  <2>2. ChunkOf(u).size \in Nat /\ ChunkOf(u).capacity \in Nat
    BY <2>1, MaxCapacityType DEF Chunk
  <2>3. ChunkOf(u)'.size = IF cur[u] = a /\ hd[u] = k THEN n ELSE ChunkOf(u).size
    BY <1>3, <1>6, <2>1 DEF ChunkOf
  <2>4. cur[u] = a /\ hd[u] = k => ChunkOf(u).size = size
    BY DEF ChunkOf
  <2>5. ChunkOf(u)'.size \in Nat /\ ChunkOf(u)'.size >= ChunkOf(u).size
    BY <1>2, <1>5, <2>2, <2>3, <2>4
  <2> QED
    BY <1>3, <1>6, <2>1, <2>2, <2>5 DEF ChunkOf, SameSlots
<1>12. TypeOK'
  BY <1>2, <1>3, <1>6 DEF IInv, TypeOK, Pcs
<1>13. ControlInv'
  <2> SUFFICES ASSUME NEW u \in Threads PROVE ControlOK(u)'
    BY DEF ControlInv
  <2>1. CASE u = t
    <3>1. /\ ControlOK(t) /\ cur'[t] = a /\ hd'[t] = k /\ Len(chunks'[a]) = Len(chunks[a])
          /\ ChunkOf(t)'.size = n /\ ChunkOf(t)'.capacity = chunks[a][k].capacity
      BY <1>1, <1>3, <1>6, <1>8 DEF ChunkOf, SameSlots
    <3> QED
      BY <1>1, <1>2, <1>3, <1>5, <1>10, <2>1, <3>1 DEF ControlOK, Inserting, Claiming
  <2>2. CASE u # t
    <3>1. ControlOK(u) /\ pc'[u] = pc[u] /\ slot'[u] = slot[u] /\ cur'[u] = cur[u] /\ hd'[u] = hd[u]
      BY <1>3, <1>8, <1>9, <2>2
    <3>2. pc[u] = "lock" => Len(chunks'[cur[u]]) = Len(chunks[cur[u]])
      BY <1>6, <1>8 DEF SameSlots, ControlOK
    <3>3. slot[u] \in Nat
      BY DEF IInv, TypeOK
    <3> QED
      BY <1>3, <1>11, <3>1, <3>2, <3>3 DEF ControlOK, Inserting, Claiming
  <2> QED
    BY <2>1, <2>2
<1>14. LockInv'
  BY <1>3, <1>6 DEF IInv, TypeOK, LockInv, Locked, Inserting, SameSlots
<1>15. IdInv'
  BY <1>3 DEF IInv, IdInv, Issued, NeedsBatch
<1>16. NewSerialInv'
  BY <1>3 DEF IInv, TypeOK, NewSerialInv, OwnSerial, Adding, Pcs
<1>17. SlotInv'
  <2>1. \A b \in live : \A m \in 1 .. Len(chunks[b]) : chunks[b][m] \in Chunk
    BY <1>8 DEF IInv, TypeOK
  <2>2. \A b \in live : \A m \in 1 .. Len(chunks[b]) :
          chunks[b][m].size \in Nat /\ chunks'[b][m].size \in Nat
             /\ chunks'[b][m].size >= chunks[b][m].size
    <3> SUFFICES ASSUME NEW b \in live, NEW m \in 1 .. Len(chunks[b])
                 PROVE  /\ chunks[b][m].size \in Nat /\ chunks'[b][m].size \in Nat
                        /\ chunks'[b][m].size >= chunks[b][m].size
      OBVIOUS
    <3>1. chunks[b][m].size \in Nat
      BY <2>1 DEF Chunk
    <3>2. chunks'[b][m].size = IF b = cur[t] /\ m = hd[t] THEN n ELSE chunks[b][m].size
      BY <1>6, <1>8
    <3> QED
      BY <1>2, <1>5, <3>1, <3>2
  <2>3. \A b \in live : \A m \in 1 .. Len(chunks[b]) : \A i \in Slot(b, m) :
          i >= chunks'[b][m].size => i >= chunks[b][m].size
    BY <2>1, <2>2, MaxCapacityType DEF Slot, Chunk
  <2> QED
    BY <1>3, <1>6, <1>8, <1>9, <2>3, SlotFrame DEF IInv, TypeOK
<1>18. OneSlotInv'
  BY <1>3, <1>6, <1>8, OneSlotFrame DEF IInv
<1>19. UnlistedInv'
  BY <1>3, <1>6, <1>8, <1>9, UnlistedFrame DEF IInv, ControlOK, Adding, Pcs
<1>20. ClaimInv'
  <2>1. ASSUME NEW u \in Threads, pc'[u] \in Claiming PROVE ClaimOK(u)'
    <3>1. CASE u = t
      <4>1. size < chunks[a][k].capacity /\ pc'[t] = "ids" /\ size \in Slot(a, k)
        BY <1>2, <1>10, <2>1, <3>1 DEF Claiming, Slot
      <4>2. chunks[a][k].ids[size] = NULL /\ chunks[a][k].arenas[size] = NULL
        BY <1>2, <1>7, <4>1
      <4>3. /\ ChunkOf(t)'.size = n /\ ChunkOf(t)'.ids = chunks[a][k].ids
            /\ ChunkOf(t)'.arenas = chunks[a][k].arenas
        BY <1>1, <1>3, <1>6 DEF ChunkOf, SameSlots
      <4> QED
        BY <1>2, <1>5, <1>10, <3>1, <4>1, <4>2, <4>3 DEF ClaimOK
    <3>2. CASE u # t
      <4>1. pc[u] \in Inserting /\ pc[u] \in Claiming /\ ClaimOK(u)
        BY <1>9, <2>1, <3>2 DEF IInv, ClaimInv, Inserting, Claiming
      <4>2. slot[u] \in Nat
        BY DEF IInv, TypeOK
      <4> QED
        BY <1>9, <1>11, <3>2, <4>1, <4>2 DEF ClaimOK
    <3> QED
      BY <3>1, <3>2
  <2>2. ASSUME NEW u \in Threads, pc[u] \in Claiming, cur[u] = a, hd[u] = k
        PROVE  slot[u] \in Nat /\ slot[u] < size
    BY <2>2 DEF IInv, TypeOK, ClaimInv, ClaimOK, ChunkOf
  <2>3. ASSUME NEW u \in Threads, NEW v \in Threads,
               pc'[u] \in Claiming, pc'[v] \in Claiming, SameClaim(u, v)'
        PROVE  v = u
    <3>1. CASE u = t /\ v # t
      BY <1>2, <1>3, <1>9, <1>10, <2>2, <2>3, <3>1 DEF SameClaim
    <3>2. CASE u # t /\ v = t
      BY <1>2, <1>3, <1>9, <1>10, <2>2, <2>3, <3>2 DEF SameClaim
    <3>3. CASE u # t /\ v # t
      BY <1>3, <1>9, <2>3, <3>3 DEF IInv, ClaimInv, SameClaim
    <3> QED
      BY <3>1, <3>2, <3>3
  <2> QED
    BY <2>1, <2>3 DEF ClaimInv
<1>21. UseInv' /\ CacheCoherent'
  BY <1>3 DEF IInv, TypeOK, UseInv, OwnSerial, CacheCoherent, CacheHit
<1> QED
  BY <1>12, <1>13, <1>14, <1>15, <1>16, <1>17, <1>18, <1>19, <1>20, <1>21 DEF IInv


LEMMA ChunkFullStep ==
    ASSUME IInv, NEW t \in Threads, ChunkFull(t)
    PROVE  IInv'
<1> USE ConstantsAssumption
<1> DEFINE a == cur[t]  k == hd[t]  n == chunks[a][k].capacity
<1>1. /\ a \in live /\ a \in Arenas /\ k \in 1 .. Len(chunks[a])
      /\ chunks[a][k] \in Chunk /\ HasSlots(chunks[a][k])
  BY CallState DEF ChunkFull, Inserting, ChunkOf
<1>2. n \in Nat \ {0}
  BY <1>1, MaxCapacityType DEF Chunk
<1>3. /\ pc[t] = "full"
      /\ pc' = [pc EXCEPT ![t] = IF mutex[a] = t THEN "grow" ELSE "lock"]
      /\ UNCHANGED <<lifecycle_id, live, tag, first_owner, mutex, heap, tc, cur, ser, hd, slot>>
  BY DEF ChunkFull, Goto, HoldsMutex
<1>4. WritesSize(t, n)
  BY DEF ChunkFull, WritesSize
<1> HIDE DEF n
<1>5. /\ chunks' \in [Arenas -> Seq(Chunk)]
      /\ \A b \in Arenas : \A m \in DOMAIN chunks'[b] : HasSlots(chunks'[b][m])
      /\ SameSlots
      /\ \A b \in Arenas : \A m \in 1 .. Len(chunks[b]) :
           chunks'[b][m].size = IF b = cur[t] /\ m = hd[t] THEN n ELSE chunks[b][m].size
  BY <1>2, <1>3, <1>4, SizeWrite DEF Inserting
<1>6. live \subseteq Arenas /\ \A u \in Threads : ControlOK(u)
  BY DEF IInv, TypeOK, ControlInv
<1>7. \A u \in Threads : u # t => pc'[u] = pc[u]
  BY <1>3 DEF IInv, TypeOK
<1>8. pc'[t] = IF mutex[a] = t THEN "grow" ELSE "lock"
  BY <1>3 DEF IInv, TypeOK
<1>9. \A u \in Threads : pc[u] \in Inserting =>
        /\ Len(chunks'[cur[u]]) = Len(chunks[cur[u]])
        /\ ChunkOf(u)'.capacity = ChunkOf(u).capacity
        /\ ChunkOf(u)'.ids = ChunkOf(u).ids
        /\ ChunkOf(u)'.arenas = ChunkOf(u).arenas
        /\ ChunkOf(u).capacity \in Nat
        /\ ChunkOf(u)'.size = ChunkOf(u).size \/ ChunkOf(u)'.size = ChunkOf(u).capacity
  <2> SUFFICES ASSUME NEW u \in Threads, pc[u] \in Inserting
               PROVE  /\ Len(chunks'[cur[u]]) = Len(chunks[cur[u]])
                      /\ ChunkOf(u)'.capacity = ChunkOf(u).capacity
                      /\ ChunkOf(u)'.ids = ChunkOf(u).ids
                      /\ ChunkOf(u)'.arenas = ChunkOf(u).arenas
                      /\ ChunkOf(u).capacity \in Nat
                      /\ ChunkOf(u)'.size = ChunkOf(u).size
                           \/ ChunkOf(u)'.size = ChunkOf(u).capacity
    OBVIOUS
  <2>1. cur[u] \in Arenas /\ hd[u] \in 1 .. Len(chunks[cur[u]]) /\ ChunkOf(u) \in Chunk
    BY CallState
  <2>2. ChunkOf(u).capacity \in Nat
    BY <2>1, MaxCapacityType DEF Chunk
  <2>3. ChunkOf(u)'.size = IF cur[u] = a /\ hd[u] = k THEN n ELSE ChunkOf(u).size
    BY <1>3, <1>5, <2>1 DEF ChunkOf
  <2>4. cur[u] = a /\ hd[u] = k => ChunkOf(u).capacity = n
    BY DEF ChunkOf, n
  <2> QED
    BY <1>3, <1>5, <2>1, <2>2, <2>3, <2>4 DEF ChunkOf, SameSlots
<1>10. TypeOK'
  BY <1>3, <1>5 DEF IInv, TypeOK, Pcs
<1>11. ControlInv'
  <2> SUFFICES ASSUME NEW u \in Threads PROVE ControlOK(u)'
    BY DEF ControlInv
  <2>1. CASE u = t
    <3>1. ControlOK(t) /\ cur'[t] = a /\ hd'[t] = k /\ Len(chunks'[a]) = Len(chunks[a])
      BY <1>1, <1>3, <1>5, <1>6 DEF SameSlots
    <3> QED
      BY <1>1, <1>3, <1>8, <2>1, <3>1 DEF ControlOK, Inserting, Claiming
  <2>2. CASE u # t
    <3>1. ControlOK(u) /\ pc'[u] = pc[u] /\ cur'[u] = cur[u] /\ hd'[u] = hd[u] /\ slot'[u] = slot[u]
      BY <1>3, <1>6, <1>7, <2>2
    <3>2. pc[u] = "lock" => Len(chunks'[cur[u]]) = Len(chunks[cur[u]])
      BY <1>5, <1>6 DEF SameSlots, ControlOK
    <3> QED
      BY <1>3, <1>9, <3>1, <3>2 DEF ControlOK, Inserting, Claiming
  <2> QED
    BY <2>1, <2>2
<1>12. LockInv'
  BY <1>3, <1>5 DEF IInv, TypeOK, LockInv, Locked, Inserting, SameSlots
<1>13. IdInv'
  BY <1>3 DEF IInv, IdInv, Issued, NeedsBatch
<1>14. NewSerialInv'
  BY <1>3 DEF IInv, TypeOK, NewSerialInv, OwnSerial, Adding, Pcs
<1>15. SlotInv'
  <2>1. \A b \in live : \A m \in 1 .. Len(chunks[b]) : \A i \in Slot(b, m) :
          i >= chunks'[b][m].size => i >= chunks[b][m].size
    BY <1>2, <1>5, <1>6 DEF n, Slot
  <2> QED
    BY <1>3, <1>5, <1>6, <1>7, <2>1, SlotFrame DEF IInv, TypeOK
<1>16. OneSlotInv'
  BY <1>3, <1>5, <1>6, OneSlotFrame DEF IInv
<1>17. UnlistedInv'
  BY <1>3, <1>5, <1>6, <1>7, UnlistedFrame DEF IInv, ControlOK, Adding, Pcs
<1>18. ClaimInv'
  <2>1. ASSUME NEW u \in Threads, pc'[u] \in Claiming PROVE ClaimOK(u)'
    <3>1. u # t /\ pc[u] \in Inserting /\ pc[u] \in Claiming /\ ClaimOK(u)
      BY <1>7, <1>8, <2>1 DEF IInv, ClaimInv, Inserting, Claiming
    <3>2. slot[u] < ChunkOf(u).capacity
      BY <1>6, <3>1 DEF ControlOK
    <3> QED
      BY <1>3, <1>7, <1>9, <3>1, <3>2 DEF ClaimOK
  <2> QED
    BY <1>3, <1>7, <1>8, <2>1 DEF IInv, ClaimInv, SameClaim, Claiming
<1>19. UseInv' /\ CacheCoherent'
  BY <1>3 DEF IInv, TypeOK, UseInv, OwnSerial, CacheCoherent, CacheHit
<1> QED
  BY <1>10, <1>11, <1>12, <1>13, <1>14, <1>15, <1>16, <1>17, <1>18, <1>19 DEF IInv


(* After the step the slot that t claimed holds id and s; nothing else of   *)
(* the chunks has changed.                                                  *)
InSlot(t, b, m, i) == b = cur[t] /\ m = hd[t] /\ i = slot[t]

SlotWritten(t, id, s) ==
    /\ chunks' \in [Arenas -> Seq(Chunk)]
    /\ \A b \in Arenas : \A m \in DOMAIN chunks'[b] : HasSlots(chunks'[b][m])
    /\ \A b \in Arenas : Len(chunks'[b]) = Len(chunks[b])
    /\ \A b \in Arenas : \A m \in 1 .. Len(chunks[b]) :
        /\ chunks'[b][m].capacity = chunks[b][m].capacity
        /\ chunks'[b][m].size = chunks[b][m].size
        /\ \A i \in Slot(b, m) :
            /\ chunks'[b][m].ids[i] =
                 IF InSlot(t, b, m, i) THEN id ELSE chunks[b][m].ids[i]
            /\ chunks'[b][m].arenas[i] =
                 IF InSlot(t, b, m, i) THEN s ELSE chunks[b][m].arenas[i]

LEMMA ClaimState ==
    ASSUME IInv, NEW t \in Threads, pc[t] \in Claiming
    PROVE  /\ cur[t] \in live /\ cur[t] \in Arenas
           /\ hd[t] \in 1 .. Len(chunks[cur[t]])
           /\ slot[t] \in Slot(cur[t], hd[t])
           /\ chunks[cur[t]][hd[t]] \in Chunk /\ HasSlots(chunks[cur[t]][hd[t]])
           /\ chunks[cur[t]][hd[t]].arenas[slot[t]] = NULL
           /\ chunks[cur[t]][hd[t]].ids[slot[t]] = IF pc[t] = "ids" THEN NULL ELSE t
           /\ slot[t] < chunks[cur[t]][hd[t]].size
<1>1. pc[t] \in Inserting
  BY DEF Inserting, Claiming
<1>2. /\ cur[t] \in live /\ cur[t] \in Arenas /\ hd[t] \in 1 .. Len(chunks[cur[t]])
      /\ ChunkOf(t) \in Chunk /\ HasSlots(ChunkOf(t))
  BY <1>1, CallState
<1>3. ControlOK(t) /\ ClaimOK(t) /\ slot[t] \in Nat
  BY DEF IInv, TypeOK, ControlInv, ClaimInv
<1>4. slot[t] \in Slot(cur[t], hd[t])
  BY <1>2, <1>3, MaxCapacityType DEF ControlOK, Slot, ChunkOf, Chunk
<1> QED
  BY <1>2, <1>3, <1>4 DEF ClaimOK, ChunkOf

LEMMA StoreIdWrites ==
    ASSUME IInv, NEW t \in Threads, StoreId(t)
    PROVE  SlotWritten(t, t, NULL)
<1> DEFINE a == cur[t]  k == hd[t]  c == chunks[a][k]
           ids == [c.ids EXCEPT ![slot[t]] = t]
           d == [c EXCEPT !.ids = ids]
<1>1. pc[t] = "ids" /\ pc[t] \in Claiming
  BY DEF StoreId, Claiming
<1>2. /\ a \in Arenas /\ k \in 1 .. Len(chunks[a]) /\ slot[t] \in Slot(a, k)
      /\ c \in Chunk /\ HasSlots(c) /\ c.arenas[slot[t]] = NULL
  BY <1>1, ClaimState
<1>3. ids \in Arrays(Threads \cup {NULL}) /\ DOMAIN ids = DOMAIN c.ids
  <2>1. c.ids \in Arrays(Threads \cup {NULL}) /\ slot[t] \in DOMAIN c.ids
    BY <1>2 DEF Chunk, HasSlots, Slot
  <2> QED
    BY <2>1, ArrayStore
<1>4. \A i \in Slot(a, k) : ids[i] = IF i = slot[t] THEN t ELSE c.ids[i]
  BY <1>2 DEF HasSlots, Slot
<1> HIDE DEF ids
<1>5. /\ d \in Chunk /\ d.capacity = c.capacity /\ d.size = c.size
      /\ d.ids = ids /\ d.arenas = c.arenas
  BY <1>2, <1>3 DEF Chunk
<1>6. HasSlots(d)
  BY <1>2, <1>3, <1>5 DEF HasSlots
<1>7. Replaces(a, k, d)
  BY DEF StoreId, Replaces, ids
<1> HIDE DEF d
<1>8. /\ chunks' \in [Arenas -> Seq(Chunk)]
      /\ \A b \in Arenas : \A m \in DOMAIN chunks'[b] : HasSlots(chunks'[b][m])
      /\ \A b \in Arenas : Len(chunks'[b]) = Len(chunks[b])
      /\ \A b \in Arenas : b # a => chunks'[b] = chunks[b]
      /\ chunks'[a][k] = d
      /\ \A m \in 1 .. Len(chunks[a]) : m # k => chunks'[a][m] = chunks[a][m]
  BY <1>2, <1>5, <1>6, <1>7, ReplaceChunk DEF IInv
<1> QED
  BY <1>2, <1>4, <1>5, <1>8, SMTT(30) DEF SlotWritten, InSlot

LEMMA StoreArenaWrites ==
    ASSUME IInv, NEW t \in Threads, StoreArena(t)
    PROVE  SlotWritten(t, t, ser[t])
<1> DEFINE a == cur[t]  k == hd[t]  c == chunks[a][k]
           arenas == [c.arenas EXCEPT ![slot[t]] = ser[t]]
           d == [c EXCEPT !.arenas = arenas]
<1>1. pc[t] = "arenas" /\ pc[t] \in Claiming /\ pc[t] \in Adding
  BY DEF StoreArena, Claiming, Adding, Pcs
<1>2. /\ a \in Arenas /\ k \in 1 .. Len(chunks[a]) /\ slot[t] \in Slot(a, k)
      /\ c \in Chunk /\ HasSlots(c) /\ c.ids[slot[t]] = t
  BY <1>1, ClaimState
<1>3. arenas \in Arrays(Serials \cup {NULL}) /\ DOMAIN arenas = DOMAIN c.arenas
  <2>1. c.arenas \in Arrays(Serials \cup {NULL}) /\ slot[t] \in DOMAIN c.arenas
    BY <1>2 DEF Chunk, HasSlots, Slot
  <2>2. ser[t] \in Serials \cup {NULL}
    BY <1>1 DEF IInv, NewSerialInv
  <2> QED
    BY <2>1, <2>2, ArrayStore
<1>4. \A i \in Slot(a, k) : arenas[i] = IF i = slot[t] THEN ser[t] ELSE c.arenas[i]
  BY <1>2 DEF HasSlots, Slot
<1> HIDE DEF arenas
<1>5. /\ d \in Chunk /\ d.capacity = c.capacity /\ d.size = c.size
      /\ d.ids = c.ids /\ d.arenas = arenas
  BY <1>2, <1>3 DEF Chunk
<1>6. HasSlots(d)
  BY <1>2, <1>3, <1>5 DEF HasSlots
<1>7. Replaces(a, k, d)
  BY DEF StoreArena, Replaces, arenas
<1> HIDE DEF d
<1>8. /\ chunks' \in [Arenas -> Seq(Chunk)]
      /\ \A b \in Arenas : \A m \in DOMAIN chunks'[b] : HasSlots(chunks'[b][m])
      /\ \A b \in Arenas : Len(chunks'[b]) = Len(chunks[b])
      /\ \A b \in Arenas : b # a => chunks'[b] = chunks[b]
      /\ chunks'[a][k] = d
      /\ \A m \in 1 .. Len(chunks[a]) : m # k => chunks'[a][m] = chunks[a][m]
  BY <1>2, <1>5, <1>6, <1>7, ReplaceChunk DEF IInv
<1> QED
  BY <1>2, <1>4, <1>5, <1>8 DEF SlotWritten, InSlot

(* Other claims are for other slots. *)
LEMMA OtherClaims ==
    ASSUME IInv, NEW t \in Threads, NEW u \in Threads, u # t,
           pc[t] \in Claiming, pc[u] \in Claiming
    PROVE  ~InSlot(t, cur[u], hd[u], slot[u])
BY DEF IInv, ClaimInv, SameClaim, InSlot

(* What is claimed stays claimed when another thread writes its slot. *)
LEMMA OthersKeepClaims ==
    ASSUME IInv, NEW t \in Threads, NEW u \in Threads, u # t, pc[t] \in Claiming,
           pc[u] \in Claiming, pc'[u] = pc[u], cur'[u] = cur[u], hd'[u] = hd[u],
           slot'[u] = slot[u], NEW s, SlotWritten(t, t, s)
    PROVE  ClaimOK(u)'
<1>1. ~InSlot(t, cur[u], hd[u], slot[u])
  BY OtherClaims
<1>2. /\ cur[u] \in Arenas /\ hd[u] \in 1 .. Len(chunks[cur[u]])
      /\ slot[u] \in Slot(cur[u], hd[u])
  BY ClaimState
<1>3. ClaimOK(u)
  BY DEF IInv, ClaimInv
<1> QED
  BY <1>1, <1>2, <1>3 DEF ClaimOK, ChunkOf, SlotWritten

LEMMA OthersKeepControl ==
    ASSUME IInv, NEW t \in Threads, NEW u \in Threads, UNCHANGED live,
           pc'[u] = pc[u], cur'[u] = cur[u], hd'[u] = hd[u],
           slot'[u] = slot[u], NEW s, SlotWritten(t, t, s)
    PROVE  ControlOK(u)'
<1>1. ControlOK(u)
  BY DEF IInv, ControlInv
<1>2. pc[u] # "idle" => cur[u] \in Arenas /\ Len(chunks'[cur[u]]) = Len(chunks[cur[u]])
  BY <1>1 DEF IInv, TypeOK, ControlOK, SlotWritten
<1>3. pc[u] \in Inserting => /\ ChunkOf(u)'.capacity = ChunkOf(u).capacity
                             /\ ChunkOf(u)'.size = ChunkOf(u).size
  BY CallState DEF ChunkOf, SlotWritten
<1> QED
  BY <1>1, <1>2, <1>3 DEF ControlOK, Inserting, Claiming


LEMMA StoreIdStep ==
    ASSUME IInv, NEW t \in Threads, StoreId(t)
    PROVE  IInv'
<1> USE ConstantsAssumption
<1> DEFINE a == cur[t]  k == hd[t]
<1>1. /\ pc[t] = "ids" /\ pc[t] \in Claiming
      /\ pc' = [pc EXCEPT ![t] = "arenas"]
      /\ UNCHANGED <<lifecycle_id, live, tag, first_owner, mutex, heap, tc, cur, ser, hd, slot>>
  BY DEF StoreId, Goto, Claiming
<1>2. /\ a \in live /\ a \in Arenas /\ k \in 1 .. Len(chunks[a]) /\ slot[t] \in Slot(a, k)
      /\ chunks[a][k].arenas[slot[t]] = NULL /\ chunks[a][k].ids[slot[t]] = NULL
      /\ slot[t] < chunks[a][k].size
  BY <1>1, ClaimState
<1>3. SlotWritten(t, t, NULL)
  BY StoreIdWrites
<1>4. pc'[t] = "arenas" /\ \A u \in Threads : u # t => pc'[u] = pc[u]
  BY <1>1 DEF IInv, TypeOK
<1>5. live \subseteq Arenas /\ \A u \in Threads : ControlOK(u)
  BY DEF IInv, TypeOK, ControlInv
<1>6. TypeOK'
  BY <1>1, <1>3 DEF IInv, TypeOK, Pcs, SlotWritten
<1>7. ControlInv'
  <2> SUFFICES ASSUME NEW u \in Threads PROVE ControlOK(u)'
    BY DEF ControlInv
  <2>1. CASE u = t
    <3>1. ControlOK(t) /\ Len(chunks'[a]) = Len(chunks[a])
          /\ chunks'[a][k].capacity = chunks[a][k].capacity
      BY <1>2, <1>3, <1>5 DEF SlotWritten
    <3> QED
      BY <1>1, <1>2, <1>4, <2>1, <3>1 DEF ControlOK, Inserting, Claiming, ChunkOf
  <2>2. CASE u # t
    BY <1>1, <1>3, <1>4, <2>2, OthersKeepControl
  <2> QED
    BY <2>1, <2>2
<1>8. LockInv'
  BY <1>1, <1>3 DEF IInv, TypeOK, LockInv, Locked, Inserting, SlotWritten
<1>9. IdInv'
  BY <1>1 DEF IInv, IdInv, Issued, NeedsBatch
<1>10. NewSerialInv'
  BY <1>1 DEF IInv, TypeOK, NewSerialInv, OwnSerial, Adding, Pcs
(* Before the step no slot of the arena had the id of t. *)
<1>11. \A m \in 1 .. Len(chunks[a]) : \A i \in Slot(a, m) : chunks[a][m].ids[i] # t
  <2> SUFFICES ASSUME NEW m \in 1 .. Len(chunks[a]), NEW i \in Slot(a, m),
                      chunks[a][m].ids[i] = t
               PROVE  FALSE
    OBVIOUS
  <2>1. chunks[a][m].arenas[i] = NULL
    BY <1>1 DEF IInv, UnlistedInv, Adding, Pcs
  <2>2. SlotOK(a, m, i)
    BY <1>2 DEF IInv, SlotInv
  <2> QED
    BY <1>1, <2>1, <2>2 DEF SlotOK
<1>12. SlotInv'
  <2> SUFFICES ASSUME NEW b \in live', NEW m \in (1 .. Len(chunks[b]))', NEW i \in Slot(b, m)'
               PROVE  SlotOK(b, m, i)'
    BY DEF SlotInv
  <2>1. b \in live /\ b \in Arenas /\ m \in 1 .. Len(chunks[b]) /\ i \in Slot(b, m)
    BY <1>1, <1>3, <1>5 DEF SlotWritten, Slot
  <2>2. SlotOK(b, m, i)
    BY <2>1 DEF IInv, SlotInv
  <2>3. CASE InSlot(t, b, m, i)
    <3>1. /\ chunks'[b][m].ids[i] = t /\ chunks'[b][m].arenas[i] = NULL
          /\ chunks'[b][m].size = chunks[b][m].size
      BY <1>3, <2>1, <2>3 DEF SlotWritten
    <3>2. ~(i >= chunks[b][m].size)
      <4>1. slot[t] \in Nat /\ chunks[a][k].size \in Nat
        BY <1>1, ClaimState DEF IInv, TypeOK, Chunk
      <4> QED
        BY <1>2, <2>3, <4>1 DEF InSlot
    <3> QED
      BY <1>1, <1>4, <2>3, <3>1, <3>2 DEF SlotOK, InSlot
  <2>4. CASE ~InSlot(t, b, m, i)
    BY <1>1, <1>3, <1>4, <2>1, <2>2, <2>4 DEF SlotOK, SlotWritten
  <2> QED
    BY <2>3, <2>4
<1>13. OneSlotInv'
  <2> SUFFICES ASSUME NEW b \in live',
                      NEW m \in (1 .. Len(chunks[b]))', NEW n \in (1 .. Len(chunks[b]))',
                      NEW i \in Slot(b, m)', NEW j \in Slot(b, n)',
                      (chunks[b][m].ids[i] = chunks[b][n].ids[j])',
                      (chunks[b][m].ids[i] # NULL)'
               PROVE  m = n /\ i = j
    BY DEF OneSlotInv
  <2>1. /\ b \in live /\ b \in Arenas /\ m \in 1 .. Len(chunks[b]) /\ n \in 1 .. Len(chunks[b])
        /\ i \in Slot(b, m) /\ j \in Slot(b, n)
    BY <1>1, <1>3, <1>5 DEF SlotWritten, Slot
  <2>2. /\ chunks'[b][m].ids[i] = IF InSlot(t, b, m, i) THEN t ELSE chunks[b][m].ids[i]
        /\ chunks'[b][n].ids[j] = IF InSlot(t, b, n, j) THEN t ELSE chunks[b][n].ids[j]
    BY <1>3, <2>1 DEF SlotWritten
  <2>3. CASE InSlot(t, b, m, i) \/ InSlot(t, b, n, j)
    BY <1>11, <2>1, <2>2, <2>3 DEF InSlot
  <2>4. CASE ~InSlot(t, b, m, i) /\ ~InSlot(t, b, n, j)
    <3>1. chunks[b][m].ids[i] = chunks[b][n].ids[j] /\ chunks[b][m].ids[i] # NULL
      BY <2>2, <2>4
    <3>2. OneSlotInv
      BY DEF IInv
    <3> QED
      BY <2>1, <3>1, <3>2 DEF OneSlotInv
  <2> QED
    BY <2>3, <2>4
<1>14. UnlistedInv'
  <2> SUFFICES ASSUME NEW u \in Threads, pc'[u] \in Adding,
                      NEW m \in (1 .. Len(chunks[cur[u]]))', NEW i \in Slot(cur[u], m)',
                      (chunks[cur[u]][m].ids[i] = u)'
               PROVE  (chunks[cur[u]][m].arenas[i] = NULL)'
    BY DEF UnlistedInv
  <2>1. pc[u] \in Adding /\ cur[u] \in Arenas /\ cur'[u] = cur[u]
    BY <1>1, <1>4, <1>5 DEF ControlOK, Adding, Pcs
  <2>2. m \in 1 .. Len(chunks[cur[u]]) /\ i \in Slot(cur[u], m)
    BY <1>3, <2>1 DEF SlotWritten, Slot
  <2>3. CASE InSlot(t, cur[u], m, i)
    BY <1>3, <2>1, <2>2, <2>3 DEF SlotWritten
  <2>4. CASE ~InSlot(t, cur[u], m, i)
    <3>1. /\ chunks'[cur[u]][m].ids[i] = chunks[cur[u]][m].ids[i]
          /\ chunks'[cur[u]][m].arenas[i] = chunks[cur[u]][m].arenas[i]
      BY <1>3, <2>1, <2>2, <2>4 DEF SlotWritten
    <3>2. chunks[cur[u]][m].ids[i] = u
      BY <2>1, <3>1
    <3>3. chunks[cur[u]][m].arenas[i] = NULL
      BY <2>1, <2>2, <3>2 DEF IInv, UnlistedInv
    <3> QED
      BY <2>1, <3>1, <3>3
  <2> QED
    BY <2>3, <2>4
<1>15. ClaimInv'
  <2>1. ASSUME NEW u \in Threads, pc'[u] \in Claiming PROVE ClaimOK(u)'
    <3>1. CASE u = t
      BY <1>1, <1>2, <1>3, <1>4, <3>1 DEF ClaimOK, ChunkOf, SlotWritten, InSlot
    <3>2. CASE u # t
      BY <1>1, <1>3, <1>4, <2>1, <3>2, OthersKeepClaims
    <3> QED
      BY <3>1, <3>2
  <2> QED
    BY <1>1, <1>4, <2>1 DEF IInv, ClaimInv, SameClaim, Claiming
<1>16. UseInv' /\ CacheCoherent'
  BY <1>1 DEF IInv, TypeOK, UseInv, OwnSerial, CacheCoherent, CacheHit
<1> QED
  BY <1>6, <1>7, <1>8, <1>9, <1>10, <1>12, <1>13, <1>14, <1>15, <1>16 DEF IInv

(* The SerialArena is registered: the caller caches it and uses it. *)
LEMMA AddedState ==
    ASSUME IInv, NEW t \in Threads, pc[t] \in Adding, Added(t)
    PROVE  /\ IdInv' /\ NewSerialInv' /\ UseInv' /\ CacheCoherent'
           /\ pc'[t] = "alloc"
           /\ \A u \in Threads : u # t => pc'[u] = pc[u]
           /\ tc' \in [Threads -> [next : Ids, seen : Ids \cup {NoId},
                                   last : SerialPtrs \cup {NULL}]]
           /\ \A b \in Arenas, u \in Threads : mutex'[b] = u => mutex[b] = u /\ u # t
           /\ \A u \in Threads : u # t /\ pc[u] = "grow" => mutex'[cur[u]] = u
           /\ mutex' \in [Arenas -> Threads \cup {NULL}]
<1> USE ConstantsAssumption
<1> DEFINE a == cur[t]
<1>1. /\ pc' = [pc EXCEPT ![t] = "alloc"]
      /\ mutex' = IF mutex[a] = t THEN [mutex EXCEPT ![a] = NULL] ELSE mutex
      /\ CacheSerialArena(t, a, ser[t])
      /\ UNCHANGED <<lifecycle_id, live, tag, first_owner, heap, cur, ser, hd, slot>>
  BY DEF Added, Goto, HoldsMutex
<1>2. a \in live /\ a \in Arenas
  BY DEF IInv, TypeOK, ControlInv, ControlOK, Adding
<1>3. ser[t] \in Serials /\ OwnSerial(t, a, ser[t]) /\ ser[t] \in SerialPtrs
  BY DEF IInv, NewSerialInv, SerialPtrs
<1>4. pc'[t] = "alloc" /\ \A u \in Threads : u # t => pc'[u] = pc[u]
  BY <1>1 DEF IInv, TypeOK
<1>5. /\ tc' \in [Threads -> [next : Ids, seen : Ids \cup {NoId},
                              last : SerialPtrs \cup {NULL}]]
      /\ tc'[t].seen = tag[a] /\ tc'[t].last = ser[t]
      /\ \A u \in Threads : u # t => tc'[u] = tc[u]
  BY <1>1, <1>2, <1>3, CacheWrite DEF IInv
<1>6. IdInv'
  BY <1>1, <1>2, <1>3, CacheKeepsIds DEF IInv
<1>7. NewSerialInv'
  BY <1>1, <1>4 DEF IInv, NewSerialInv, OwnSerial, Adding
<1>8. UseInv'
  BY <1>1, <1>3, <1>4 DEF IInv, UseInv, OwnSerial
<1>9. CacheCoherent'
  <2> SUFFICES ASSUME NEW u \in Threads, NEW b \in live, CacheHit(u, b)'
               PROVE  OwnSerial(u, b, tc'[u].last)
    BY <1>1 DEF CacheCoherent, OwnSerial
  <2>1. CASE u # t
    BY <1>1, <1>5, <2>1 DEF IInv, CacheCoherent, CacheHit
  <2>2. CASE u = t
    BY <1>1, <1>2, <1>3, <1>5, <2>2 DEF IInv, IdInv, CacheHit
  <2> QED
    BY <2>1, <2>2
(* A thread holds no mutex_ but that of its arena. *)
<1>10. \A b \in Arenas : mutex[b] = t => b = a
  BY DEF IInv, LockInv
<1>11. /\ mutex' \in [Arenas -> Threads \cup {NULL}]
       /\ \A b \in Arenas, u \in Threads : mutex'[b] = u => mutex[b] = u /\ u # t
  BY <1>1, <1>2, <1>10 DEF IInv, TypeOK
<1>12. \A u \in Threads : u # t /\ pc[u] = "grow" => mutex'[cur[u]] = u
  BY <1>1, <1>2 DEF IInv, TypeOK, LockInv, ControlInv, ControlOK
<1> QED
  BY <1>4, <1>5, <1>6, <1>7, <1>8, <1>9, <1>11, <1>12

LEMMA StoreArenaStep ==
    ASSUME IInv, NEW t \in Threads, StoreArena(t)
    PROVE  IInv'
<1> USE ConstantsAssumption
<1> DEFINE a == cur[t]  k == hd[t]
<1>1. /\ pc[t] = "arenas" /\ pc[t] \in Claiming /\ pc[t] \in Adding /\ Added(t)
      /\ UNCHANGED <<lifecycle_id, live, tag, first_owner, heap, cur, ser, hd, slot>>
  BY DEF StoreArena, Added, Claiming, Adding, Pcs
<1>2. /\ a \in live /\ a \in Arenas /\ k \in 1 .. Len(chunks[a]) /\ slot[t] \in Slot(a, k)
      /\ chunks[a][k].arenas[slot[t]] = NULL /\ chunks[a][k].ids[slot[t]] = t
      /\ slot[t] < chunks[a][k].size
  BY <1>1, ClaimState
<1>3. SlotWritten(t, t, ser[t])
  BY StoreArenaWrites
<1>4. /\ IdInv' /\ NewSerialInv' /\ UseInv' /\ CacheCoherent'
      /\ pc'[t] = "alloc"
      /\ \A u \in Threads : u # t => pc'[u] = pc[u]
      /\ tc' \in [Threads -> [next : Ids, seen : Ids \cup {NoId},
                              last : SerialPtrs \cup {NULL}]]
      /\ \A b \in Arenas, u \in Threads : mutex'[b] = u => mutex[b] = u /\ u # t
      /\ \A u \in Threads : u # t /\ pc[u] = "grow" => mutex'[cur[u]] = u
      /\ mutex' \in [Arenas -> Threads \cup {NULL}]
  BY <1>1, AddedState
<1>5. /\ live \subseteq Arenas /\ \A u \in Threads : ControlOK(u)
      /\ ser[t] \in Serials /\ OwnSerial(t, a, ser[t])
  BY <1>1 DEF IInv, TypeOK, ControlInv, NewSerialInv
<1>6. TypeOK'
  <2>1. pc' \in [Threads -> Pcs]
    BY DEF IInv, TypeOK, Pcs, StoreArena, Added, Goto
  <2>2. /\ chunks' \in [Arenas -> Seq(Chunk)]
        /\ \A b \in Arenas : \A m \in DOMAIN chunks'[b] : HasSlots(chunks'[b][m])
    BY <1>3 DEF SlotWritten
  <2> QED
    BY <1>1, <1>4, <2>1, <2>2 DEF IInv, TypeOK
<1>7. ControlInv'
  <2> SUFFICES ASSUME NEW u \in Threads PROVE ControlOK(u)'
    BY DEF ControlInv
  <2>1. CASE u = t
    BY <1>1, <1>2, <1>4, <2>1 DEF ControlOK, Inserting, Claiming
  <2>2. CASE u # t
    BY <1>1, <1>3, <1>4, <2>2, OthersKeepControl
  <2> QED
    BY <2>1, <2>2
<1>8. LockInv'
  <2>1. \A b \in Arenas : Len(chunks'[b]) = Len(chunks[b])
    BY <1>3 DEF SlotWritten
  <2> QED
    BY <1>1, <1>4, <2>1 DEF IInv, LockInv
<1>9. SlotInv'
  <2> SUFFICES ASSUME NEW b \in live', NEW m \in (1 .. Len(chunks[b]))', NEW i \in Slot(b, m)'
               PROVE  SlotOK(b, m, i)'
    BY DEF SlotInv
  <2>1. b \in live /\ b \in Arenas /\ m \in 1 .. Len(chunks[b]) /\ i \in Slot(b, m)
    BY <1>1, <1>3, <1>5 DEF SlotWritten, Slot
  <2>2. SlotOK(b, m, i)
    BY <2>1 DEF IInv, SlotInv
  <2>3. CASE InSlot(t, b, m, i)
    <3>1. /\ chunks'[b][m].ids[i] = t /\ chunks'[b][m].arenas[i] = ser[t]
          /\ chunks'[b][m].size = chunks[b][m].size
      BY <1>3, <2>1, <2>3 DEF SlotWritten
    <3>2. heap[ser[t]] = [arena |-> b, id |-> tag[b], owner |-> t] /\ ser[t] # NULL
      <4>1. ser[t] # a
        BY <1>2, <1>5
      <4> QED
        BY <1>5, <2>3, <4>1 DEF InSlot, OwnSerial
    <3>3. ~(i >= chunks[b][m].size)
      BY <1>2, <2>2, <2>3 DEF InSlot, SlotOK
    <3> QED
      BY <1>1, <1>5, <3>1, <3>2, <3>3 DEF SlotOK
  <2>4. CASE ~InSlot(t, b, m, i)
    <3>1. /\ chunks'[b][m].ids[i] = chunks[b][m].ids[i]
          /\ chunks'[b][m].arenas[i] = chunks[b][m].arenas[i]
          /\ chunks'[b][m].size = chunks[b][m].size
      BY <1>3, <2>1, <2>4 DEF SlotWritten
    <3>2. chunks[b][m].ids[i] = t => chunks[b][m].arenas[i] # NULL
      BY <2>2, <2>4 DEF SlotOK, InSlot
    <3> QED
      BY <1>1, <1>4, <2>2, <3>1, <3>2 DEF SlotOK
  <2> QED
    BY <2>3, <2>4
<1>10. \A b \in Arenas : \A m \in 1 .. Len(chunks[b]) : \A i \in Slot(b, m) :
         chunks'[b][m].ids[i] = chunks[b][m].ids[i]
  <2> TAKE b \in Arenas
  <2> TAKE m \in 1 .. Len(chunks[b])
  <2> TAKE i \in Slot(b, m)
  <2>1. chunks'[b][m].ids[i] = IF InSlot(t, b, m, i) THEN t ELSE chunks[b][m].ids[i]
    BY <1>3 DEF SlotWritten
  <2> QED
    BY <1>2, <2>1 DEF InSlot
<1>11. OneSlotInv'
  <2> SUFFICES ASSUME NEW b \in live',
                      NEW m \in (1 .. Len(chunks[b]))', NEW n \in (1 .. Len(chunks[b]))',
                      NEW i \in Slot(b, m)', NEW j \in Slot(b, n)',
                      (chunks[b][m].ids[i] = chunks[b][n].ids[j])',
                      (chunks[b][m].ids[i] # NULL)'
               PROVE  m = n /\ i = j
    BY DEF OneSlotInv
  <2>1. /\ b \in live /\ b \in Arenas /\ m \in 1 .. Len(chunks[b]) /\ n \in 1 .. Len(chunks[b])
        /\ i \in Slot(b, m) /\ j \in Slot(b, n)
    BY <1>1, <1>3, <1>5 DEF SlotWritten, Slot
  <2>2. chunks[b][m].ids[i] = chunks[b][n].ids[j] /\ chunks[b][m].ids[i] # NULL
    <3>1. /\ chunks'[b][m].ids[i] = chunks[b][m].ids[i]
          /\ chunks'[b][n].ids[j] = chunks[b][n].ids[j]
      BY <1>10, <2>1
    <3> QED
      BY <3>1
  <2>3. OneSlotInv
    BY DEF IInv
  <2> QED
    BY <2>1, <2>2, <2>3 DEF OneSlotInv
<1>12. UnlistedInv'
  <2> SUFFICES ASSUME NEW u \in Threads, pc'[u] \in Adding,
                      NEW m \in (1 .. Len(chunks[cur[u]]))', NEW i \in Slot(cur[u], m)',
                      (chunks[cur[u]][m].ids[i] = u)'
               PROVE  (chunks[cur[u]][m].arenas[i] = NULL)'
    BY DEF UnlistedInv
  <2>1. u # t /\ pc[u] \in Adding /\ cur[u] \in Arenas /\ cur'[u] = cur[u]
    BY <1>1, <1>4, <1>5 DEF ControlOK, Adding, Pcs
  <2>2. m \in 1 .. Len(chunks[cur[u]]) /\ i \in Slot(cur[u], m)
    BY <1>3, <2>1 DEF SlotWritten, Slot
  <2>3. chunks[cur[u]][m].ids[i] = u /\ chunks[cur[u]][m].arenas[i] = NULL
    <3>1. chunks'[cur[u]][m].ids[i] = u
      BY <2>1
    <3>2. chunks'[cur[u]][m].ids[i] = chunks[cur[u]][m].ids[i]
      BY <1>10, <2>1, <2>2
    <3>3. chunks[cur[u]][m].ids[i] = u
      BY <3>1, <3>2
    <3> QED
      BY <2>1, <2>2, <3>3 DEF IInv, UnlistedInv
  <2>4. ~InSlot(t, cur[u], m, i)
    BY <1>2, <2>1, <2>3 DEF InSlot
  <2> QED
    BY <1>3, <2>1, <2>2, <2>3, <2>4 DEF SlotWritten
<1>13. ClaimInv'
  <2>1. ASSUME NEW u \in Threads, pc'[u] \in Claiming
        PROVE  u # t /\ pc[u] \in Claiming /\ ClaimOK(u)'
    <3>1. u # t /\ pc[u] \in Claiming
      BY <1>4, <2>1 DEF Claiming
    <3> QED
      BY <1>1, <1>3, <1>4, <3>1, OthersKeepClaims
  <2> QED
    BY <1>1, <2>1 DEF IInv, ClaimInv, SameClaim
<1> QED
  BY <1>4, <1>6, <1>7, <1>8, <1>9, <1>11, <1>12, <1>13 DEF IInv


LEMMA GrowStep ==
    ASSUME IInv, NEW t \in Threads, Grow(t)
    PROVE  IInv'
<1> USE ConstantsAssumption
<1> DEFINE a == cur[t]  n == Len(chunks[a])  cap == NextCapacity(CapacityAt(a, hd[t]))
           c == NewChunk(cap, t, ser[t])
<1>1. /\ pc[t] = "grow" /\ pc[t] \in Adding /\ Added(t)
      /\ UNCHANGED <<lifecycle_id, live, tag, first_owner, heap, cur, ser, hd, slot>>
  BY DEF Grow, Added, Adding, Pcs
<1>2. /\ live \subseteq Arenas /\ \A u \in Threads : ControlOK(u)
      /\ ser[t] \in Serials /\ OwnSerial(t, a, ser[t])
  BY <1>1 DEF IInv, TypeOK, ControlInv, NewSerialInv
<1>3. a \in live /\ a \in Arenas /\ chunks[a] \in Seq(Chunk) /\ n \in Nat
  BY <1>1, <1>2 DEF ControlOK, IInv, TypeOK
<1>4. mutex[a] = t /\ hd[t] = n
  BY <1>1, <1>3 DEF IInv, LockInv
<1>5. cap \in 1 .. MaxCapacity
  <2>1. CapacityAt(a, hd[t]) \in Nat
    <3>1. CASE n = 0
      BY <1>4, <3>1 DEF CapacityAt
    <3>2. CASE n # 0
      <4>1. chunks[a][n] \in Chunk
        BY <1>3, <3>2
      <4> QED
        BY <1>4, <3>2, <4>1, MaxCapacityType DEF CapacityAt, Chunk
    <3> QED
      BY <3>1, <3>2
  <2> QED
    BY <2>1, NextCapacityType
<1>6. c \in Chunk /\ HasSlots(c)
  BY <1>2, <1>5, NewChunkType
<1>7. /\ c.size = 1 /\ c.capacity = cap
      /\ \A i \in 0 .. cap - 1 : /\ c.ids[i] = IF i = 0 THEN t ELSE NULL
                                 /\ c.arenas[i] = IF i = 0 THEN ser[t] ELSE NULL
  BY DEF NewChunk, Slots
<1>8. Adds(a, c)
  BY <1>4 DEF Grow, Adds
<1> HIDE DEF c, cap
<1>9. /\ chunks' \in [Arenas -> Seq(Chunk)]
      /\ \A b \in Arenas : \A m \in DOMAIN chunks'[b] : HasSlots(chunks'[b][m])
      /\ \A b \in Arenas : b # a => chunks'[b] = chunks[b]
      /\ Len(chunks'[a]) = n + 1
      /\ chunks'[a][n + 1] = c
      /\ \A m \in 1 .. n : chunks'[a][m] = chunks[a][m]
  BY <1>3, <1>6, <1>8, AppendChunk DEF IInv
<1>10. /\ IdInv' /\ NewSerialInv' /\ UseInv' /\ CacheCoherent'
       /\ pc'[t] = "alloc"
       /\ \A u \in Threads : u # t => pc'[u] = pc[u]
       /\ tc' \in [Threads -> [next : Ids, seen : Ids \cup {NoId},
                               last : SerialPtrs \cup {NULL}]]
       /\ \A b \in Arenas, u \in Threads : mutex'[b] = u => mutex[b] = u /\ u # t
       /\ \A u \in Threads : u # t /\ pc[u] = "grow" => mutex'[cur[u]] = u
       /\ mutex' \in [Arenas -> Threads \cup {NULL}]
  BY <1>1, AddedState
(* A chunk of the new list is an old one or the new head. *)
<1>11. \A b \in Arenas : \A m \in 1 .. Len(chunks'[b]) :
         \/ m \in 1 .. Len(chunks[b]) /\ chunks'[b][m] = chunks[b][m]
         \/ b = a /\ m = n + 1 /\ chunks'[b][m] = c
  <2> TAKE b \in Arenas
  <2> TAKE m \in 1 .. Len(chunks'[b])
  <2>1. CASE b = a
    <3>1. m \in 1 .. n \/ m = n + 1
      BY <1>3, <1>9, <2>1
    <3> QED
      BY <1>9, <2>1, <3>1
  <2>2. CASE b # a
    BY <1>9, <2>2
  <2> QED
    BY <2>1, <2>2
<1>12. \A b \in Arenas : /\ Len(chunks'[b]) \in Nat /\ Len(chunks[b]) \in Nat
                         /\ Len(chunks'[b]) >= Len(chunks[b])
                         /\ \A m \in 1 .. Len(chunks[b]) : chunks'[b][m] = chunks[b][m]
  <2> TAKE b \in Arenas
  <2>1. chunks[b] \in Seq(Chunk) /\ Len(chunks[b]) \in Nat
    BY DEF IInv, TypeOK
  <2>2. CASE b = a
    BY <1>3, <1>9, <2>1, <2>2
  <2>3. CASE b # a
    BY <1>9, <2>1, <2>3
  <2> QED
    BY <2>2, <2>3
<1>13. TypeOK'
  <2>1. pc' \in [Threads -> Pcs]
    BY DEF IInv, TypeOK, Pcs, Grow, Added, Goto
  <2> QED
    BY <1>1, <1>9, <1>10, <2>1 DEF IInv, TypeOK
<1>14. ControlInv'
  <2> SUFFICES ASSUME NEW u \in Threads PROVE ControlOK(u)'
    BY DEF ControlInv
  <2>1. CASE u = t
    BY <1>1, <1>3, <1>10, <2>1 DEF ControlOK, Inserting, Claiming
  <2>2. CASE u # t
    <3>1. ControlOK(u) /\ pc'[u] = pc[u] /\ cur'[u] = cur[u] /\ hd'[u] = hd[u] /\ slot'[u] = slot[u]
      BY <1>1, <1>2, <1>10, <2>2
    <3>2. pc[u] \in Inserting => hd[u] \in 1 .. Len(chunks'[cur[u]]) /\ ChunkOf(u)' = ChunkOf(u)
      BY <1>1, <1>12, CallState DEF ChunkOf
    <3>3. pc[u] = "lock" => hd[u] <= Len(chunks'[cur[u]])
      <4>1. hd[u] \in Nat
        BY DEF IInv, TypeOK
      <4> QED
        BY <1>2, <1>12, <3>1, <4>1 DEF ControlOK
    <3> QED
      BY <1>1, <3>1, <3>2, <3>3 DEF ControlOK, Inserting, Claiming
  <2> QED
    BY <2>1, <2>2
<1>15. LockInv'
  <2>1. ASSUME NEW b \in Arenas, NEW u \in Threads, mutex'[b] = u
        PROVE  (cur[u] = b /\ pc[u] \in Locked /\ hd[u] = Len(chunks[b]))'
    <3>1. mutex[b] = u /\ u # t /\ b # a
      BY <1>4, <1>10, <2>1
    <3> QED
      BY SMTT(30), <1>1, <1>9, <1>10, <3>1 DEF IInv, LockInv
  <2>2. ASSUME NEW u \in Threads, pc'[u] = "grow"
        PROVE  mutex'[cur'[u]] = u
    BY <1>1, <1>10, <2>2
  <2> QED
    BY <2>1, <2>2 DEF LockInv
<1>16. SlotInv'
  <2> SUFFICES ASSUME NEW b \in live', NEW m \in (1 .. Len(chunks[b]))', NEW i \in Slot(b, m)'
               PROVE  SlotOK(b, m, i)'
    BY DEF SlotInv
  <2>1. b \in live /\ b \in Arenas
    BY <1>1, <1>2
  <2>2. CASE m \in 1 .. Len(chunks[b]) /\ chunks'[b][m] = chunks[b][m]
    <3>1. SlotOK(b, m, i)
      BY <2>1, <2>2 DEF IInv, SlotInv, Slot
    <3>2. chunks[b][m].ids[i] = t => chunks[b][m].arenas[i] # NULL
      BY <1>1, <3>1 DEF SlotOK
    <3> QED
      BY <1>1, <1>10, <2>2, <3>1, <3>2 DEF SlotOK
  <2>3. CASE b = a /\ m = n + 1 /\ chunks'[b][m] = c
    <3>1. i \in 0 .. cap - 1
      BY <1>7, <2>3 DEF Slot
    <3>2. heap[ser[t]] = [arena |-> a, id |-> tag[a], owner |-> t] /\ ser[t] # NULL
      <4>1. ser[t] # a
        BY <1>2, <1>3
      <4> QED
        BY <1>2, <4>1 DEF OwnSerial
    <3>3. CASE i = 0
      BY <1>1, <1>2, <1>7, <2>3, <3>1, <3>2, <3>3 DEF SlotOK
    <3>4. CASE i # 0
      BY <1>1, <1>2, <1>7, <2>3, <3>1, <3>4 DEF SlotOK
    <3> QED
      BY <3>3, <3>4
  <2> QED
    BY <1>11, <2>1, <2>2, <2>3
(* Before the step no slot of the arena had the id of t. *)
<1>17. \A m \in 1 .. n : \A i \in Slot(a, m) : chunks[a][m].ids[i] # t
  <2> SUFFICES ASSUME NEW m \in 1 .. n, NEW i \in Slot(a, m), chunks[a][m].ids[i] = t
               PROVE  FALSE
    OBVIOUS
  <2>1. chunks[a][m].arenas[i] = NULL
    BY <1>1 DEF IInv, UnlistedInv
  <2>2. SlotOK(a, m, i)
    BY <1>3 DEF IInv, SlotInv
  <2> QED
    BY <1>1, <2>1, <2>2 DEF SlotOK
<1>18. OneSlotInv'
  <2> SUFFICES ASSUME NEW b \in live',
                      NEW m \in (1 .. Len(chunks[b]))', NEW o \in (1 .. Len(chunks[b]))',
                      NEW i \in Slot(b, m)', NEW j \in Slot(b, o)',
                      (chunks[b][m].ids[i] = chunks[b][o].ids[j])',
                      (chunks[b][m].ids[i] # NULL)'
               PROVE  m = o /\ i = j
    BY DEF OneSlotInv
  <2>1. b \in live /\ b \in Arenas
    BY <1>1, <1>2
  <2>2. /\ \/ m \in 1 .. Len(chunks[b]) /\ chunks'[b][m] = chunks[b][m] /\ i \in Slot(b, m)
           \/ b = a /\ m = n + 1 /\ chunks'[b][m] = c /\ i \in 0 .. cap - 1
        /\ \/ o \in 1 .. Len(chunks[b]) /\ chunks'[b][o] = chunks[b][o] /\ j \in Slot(b, o)
           \/ b = a /\ o = n + 1 /\ chunks'[b][o] = c /\ j \in 0 .. cap - 1
    BY <1>7, <1>11, <2>1 DEF Slot
  <2>3. CASE /\ m \in 1 .. Len(chunks[b]) /\ chunks'[b][m] = chunks[b][m] /\ i \in Slot(b, m)
             /\ o \in 1 .. Len(chunks[b]) /\ chunks'[b][o] = chunks[b][o] /\ j \in Slot(b, o)
    <3>1. chunks[b][m].ids[i] = chunks[b][o].ids[j] /\ chunks[b][m].ids[i] # NULL
      BY <2>3
    <3>2. OneSlotInv
      BY DEF IInv
    <3> QED
      BY <2>1, <2>3, <3>1, <3>2 DEF OneSlotInv
  <2>4. CASE /\ m \in 1 .. Len(chunks[b]) /\ chunks'[b][m] = chunks[b][m] /\ i \in Slot(b, m)
             /\ b = a /\ o = n + 1 /\ chunks'[b][o] = c /\ j \in 0 .. cap - 1
    BY <1>7, <1>17, <2>4
  <2>5. CASE /\ b = a /\ m = n + 1 /\ chunks'[b][m] = c /\ i \in 0 .. cap - 1
             /\ o \in 1 .. Len(chunks[b]) /\ chunks'[b][o] = chunks[b][o] /\ j \in Slot(b, o)
    BY <1>7, <1>17, <2>5
  <2>6. CASE /\ b = a /\ m = n + 1 /\ chunks'[b][m] = c /\ i \in 0 .. cap - 1
             /\ o = n + 1 /\ chunks'[b][o] = c /\ j \in 0 .. cap - 1
    BY <1>7, <2>6
  <2> QED
    BY <2>2, <2>3, <2>4, <2>5, <2>6
<1>19. UnlistedInv'
  <2> SUFFICES ASSUME NEW u \in Threads, pc'[u] \in Adding,
                      NEW m \in (1 .. Len(chunks[cur[u]]))', NEW i \in Slot(cur[u], m)',
                      (chunks[cur[u]][m].ids[i] = u)'
               PROVE  (chunks[cur[u]][m].arenas[i] = NULL)'
    BY DEF UnlistedInv
  <2>1. u # t /\ pc[u] \in Adding /\ cur[u] \in Arenas /\ cur'[u] = cur[u]
    BY <1>1, <1>2, <1>10 DEF ControlOK, Adding, Pcs
  <2>2. CASE m \in 1 .. Len(chunks[cur[u]]) /\ chunks'[cur[u]][m] = chunks[cur[u]][m]
    <3>1. chunks[cur[u]][m].ids[i] = u /\ i \in Slot(cur[u], m)
      BY <2>1, <2>2 DEF Slot
    <3> QED
      BY <2>1, <2>2, <3>1 DEF IInv, UnlistedInv
  <2>3. CASE cur[u] = a /\ m = n + 1 /\ chunks'[cur[u]][m] = c
    BY <1>7, <2>1, <2>3 DEF Slot
  <2> QED
    BY <1>11, <2>1, <2>2, <2>3
<1>20. ClaimInv'
  <2>1. ASSUME NEW u \in Threads, pc'[u] \in Claiming
        PROVE  u # t /\ pc[u] \in Claiming /\ ClaimOK(u)'
    <3>1. u # t /\ pc[u] \in Claiming /\ pc[u] \in Inserting /\ pc'[u] = pc[u]
      BY <1>10, <2>1 DEF Claiming, Inserting
    <3>2. ChunkOf(u)' = ChunkOf(u)
      BY <1>1, <1>12, <3>1, CallState DEF ChunkOf
    <3> QED
      BY <1>1, <3>1, <3>2 DEF IInv, ClaimInv, ClaimOK
  <2> QED
    BY <1>1, <2>1 DEF IInv, ClaimInv, SameClaim
<1> QED
  BY <1>10, <1>13, <1>14, <1>15, <1>16, <1>18, <1>19, <1>20 DEF IInv


-----------------------------------------------------------------------------
(* Lifecycle steps: no thread is inside the arena *)

(* The lifecycle id of the new life of an arena is cached nowhere. *)
LEMMA FreshId ==
    ASSUME TypeOK, IdInv, NEW t \in Threads, NEW a \in Arenas, InitArena(t, a),
           live' = live \cup {a}
    PROVE  /\ IdInv'
           /\ lifecycle_id' \in Nat /\ tag' \in [Arenas -> Ids \cup {NoId}]
           /\ tc' \in [Threads -> [next : Ids, seen : Ids \cup {NoId},
                                   last : SerialPtrs \cup {NULL}]]
           /\ tc'[t].seen = tag'[a] /\ tc'[t].last = a
           /\ \A u \in Threads : u # t => tc'[u] = tc[u] /\ tc[u].seen # tag'[a]
           /\ \A b \in Arenas : b # a => tag'[b] = tag[b]
           /\ \A b \in Arenas : tag[b] # tag'[a]
<1> USE ConstantsAssumption
<1>0. PICK id, next : id = NewLifeCycleId(t) /\ next = NextId(id)
  OBVIOUS
<1>1. /\ lifecycle_id' = IF NeedsBatch(t) THEN lifecycle_id + 1 ELSE lifecycle_id
      /\ tag' = [tag EXCEPT ![a] = id]
      /\ tc' = [tc EXCEPT ![t] = [next |-> next, seen |-> id, last |-> a]]
  BY <1>0 DEF InitArena
<1>2. lifecycle_id \in Nat /\ tc[t].next \in Ids /\ \A u \in Threads : tc[u].next \in Ids
  BY DEF TypeOK
<1>3. id \in Ids /\ id.batch < lifecycle_id'
  <2>1. CASE NeedsBatch(t)
    BY <1>0, <1>1, <1>2, <2>1 DEF NewLifeCycleId, Ids
  <2>2. CASE ~NeedsBatch(t)
    BY <1>0, <1>1, <1>2, <2>2 DEF NewLifeCycleId, IdInv, Ids
  <2> QED
    BY <2>1, <2>2
<1>4. /\ next \in Ids
      /\ next.index # 0 => next.batch = id.batch /\ next.index = id.index + 1
  <2>1. id.batch \in Nat /\ id.index \in 0 .. PerThreadIds - 1
    BY <1>3 DEF Ids
  <2>2. CASE id.index + 1 = PerThreadIds
    BY <1>0, <2>1, <2>2 DEF NextId, Ids
  <2>3. CASE id.index + 1 # PerThreadIds
    <3>1. next = [id EXCEPT !.index = id.index + 1]
      BY <1>0, <2>3 DEF NextId
    <3>2. next = [batch |-> id.batch, index |-> id.index + 1]
      BY <1>3, <3>1 DEF Ids
    <3> QED
      BY <2>1, <2>3, <3>2 DEF Ids
  <2> QED
    BY <2>2, <2>3
<1>5. \A x : Issued(x) => x # id
  <2> SUFFICES ASSUME NEW x, Issued(x), x = id PROVE FALSE
    OBVIOUS
  <2>1. x # NoId
    BY <1>3 DEF NoId, Ids
  <2>2. CASE NeedsBatch(t)
    BY <1>0, <1>2, <2>1, <2>2 DEF Issued, NewLifeCycleId, Ids
  <2>3. CASE ~NeedsBatch(t)
    BY <1>0, <1>2, <2>1, <2>3 DEF Issued, NewLifeCycleId, Ids
  <2> QED
    BY <2>2, <2>3
<1>6. /\ NeedsBatch(t) => id.batch = lifecycle_id
      /\ ~NeedsBatch(t) => id = tc[t].next
  BY <1>0 DEF NewLifeCycleId
<1>7. /\ tc'[t].next = next /\ tc'[t].seen = id /\ tc'[t].last = a
      /\ \A u \in Threads : u # t => tc'[u] = tc[u]
      /\ tag'[a] = id /\ \A b \in Arenas : b # a => tag'[b] = tag[b]
  BY <1>1 DEF TypeOK
<1>8. lifecycle_id' \in Nat /\ lifecycle_id' >= lifecycle_id
  BY <1>1, <1>2
<1>9. tc' \in [Threads -> [next : Ids, seen : Ids \cup {NoId},
                           last : SerialPtrs \cup {NULL}]]
  <2>1. [next |-> next, seen |-> id, last |-> a]
            \in [next : Ids, seen : Ids \cup {NoId}, last : SerialPtrs \cup {NULL}]
    BY <1>3, <1>4 DEF SerialPtrs
  <2> QED
    BY <1>1, <2>1 DEF TypeOK
<1>10. tag' \in [Arenas -> Ids \cup {NoId}]
  BY <1>1, <1>3 DEF TypeOK
(* What has been issued remains so. *)
<1>11. \A x : Issued(x) => Issued(x)'
  <2> SUFFICES ASSUME NEW x, Issued(x), x # NoId,
                      NEW u \in Threads, (~NeedsBatch(u))', tc'[u].next.batch = x.batch
               PROVE  x.index < tc'[u].next.index
    BY <1>2, <1>8 DEF Issued, Ids
  <2>1. CASE u # t
    BY <1>7, <2>1 DEF Issued, NeedsBatch
  <2>2. CASE u = t
    <3>1. next.index # 0 /\ next.batch = x.batch
      BY <1>7, <2>2 DEF NeedsBatch
    <3>2. id.batch = x.batch /\ next.index = id.index + 1
      BY <1>4, <3>1
    <3>3. x \in Ids /\ x.batch < lifecycle_id
      BY DEF Issued
    <3>4. ~NeedsBatch(t)
      BY <1>2, <1>6, <3>2, <3>3 DEF Ids
    <3>5. x.index < id.index
      BY <1>6, <3>2, <3>4 DEF Issued
    <3> QED
      BY <1>3, <1>7, <2>2, <3>2, <3>3, <3>5 DEF Ids
  <2> QED
    BY <2>1, <2>2
(* No other thread is about to issue an id of this batch. *)
<1>12. \A u \in Threads : u # t /\ ~NeedsBatch(u) => tc[u].next.batch # id.batch
  <2> SUFFICES ASSUME NEW u \in Threads, u # t, ~NeedsBatch(u), tc[u].next.batch = id.batch
               PROVE  FALSE
    OBVIOUS
  <2>1. tc[u].next.batch < lifecycle_id
    BY DEF IdInv
  <2>2. CASE NeedsBatch(t)
    BY <1>2, <1>6, <2>1, <2>2
  <2>3. CASE ~NeedsBatch(t)
    BY <1>6, <2>3 DEF IdInv
  <2> QED
    BY <2>2, <2>3
<1>13. Issued(id)'
  <2> SUFFICES ASSUME NEW u \in Threads, (~NeedsBatch(u))', tc'[u].next.batch = id.batch
               PROVE  id.index < tc'[u].next.index
    BY <1>3 DEF Issued
  <2>1. CASE u = t
    BY <1>3, <1>4, <1>7, <2>1 DEF NeedsBatch, Ids
  <2>2. CASE u # t
    BY <1>7, <1>12, <2>2 DEF NeedsBatch
  <2> QED
    BY <2>1, <2>2
<1>14. IdInv'
  <2>1. \A b \in Arenas : Issued(tag[b])'
    BY <1>7, <1>11, <1>13 DEF IdInv
  <2>2. \A u \in Threads : Issued(tc[u].seen)'
    BY <1>7, <1>11, <1>13 DEF IdInv
  <2>3. \A u \in Threads : (~NeedsBatch(u) => tc[u].next.batch < lifecycle_id)'
    <3> TAKE u \in Threads
    <3>1. CASE u = t
      BY <1>3, <1>4, <1>7, <3>1 DEF NeedsBatch
    <3>2. CASE u # t
      BY <1>2, <1>7, <1>8, <3>2 DEF NeedsBatch, IdInv, Ids
    <3> QED
      BY <3>1, <3>2
  <2>4. \A u, w \in Threads :
          (~NeedsBatch(u) /\ ~NeedsBatch(w) /\ tc[u].next.batch = tc[w].next.batch => u = w)'
    <3> TAKE u, w \in Threads
    <3>1. CASE u # t /\ w # t
      BY <1>7, <3>1 DEF NeedsBatch, IdInv
    <3>2. CASE u = t \/ w = t
      BY <1>4, <1>7, <1>12, <3>2 DEF NeedsBatch
    <3> QED
      BY <3>1, <3>2
  <2>5. \A b, d \in live' : tag'[b] = tag'[d] => b = d
    BY <1>5, <1>7 DEF IdInv, TypeOK
  <2>6. \A b \in live' : tag'[b] \in Ids
    BY <1>3, <1>7 DEF IdInv, TypeOK
  <2> QED
    BY <2>1, <2>2, <2>3, <2>4, <2>5, <2>6 DEF IdInv
<1> QED
  BY <1>5, <1>7, <1>8, <1>9, <1>10, <1>14 DEF IdInv

(* What the walk of Free reaches belongs to the arena. *)
LEMMA FreesOwn ==
    ASSUME IInv, NEW a \in live, FreeSerials(a)
    PROVE  /\ heap' \in [Serials -> Allocations \cup {NULL}]
           /\ \A s \in Serials :
                heap[s] # NULL /\ heap[s].arena # a => heap'[s] = heap[s]
<1> USE ConstantsAssumption
<1> DEFINE reached == {ArenaAt(a, e) : e \in Entries(a)}
<1>1. heap' = [s \in Serials |-> IF s \in reached THEN NULL ELSE heap[s]]
  BY DEF FreeSerials
<1>2. \A e \in Entries(a) : ArenaAt(a, e) \in Serials => heap[ArenaAt(a, e)].arena = a
  <2> SUFFICES ASSUME NEW e \in Entries(a), ArenaAt(a, e) \in Serials
               PROVE  heap[ArenaAt(a, e)].arena = a
    OBVIOUS
  <2>1. PICK k \in DOMAIN chunks[a] : \E i \in 0 .. SafeSize(chunks[a][k]) - 1 : e = <<k, i>>
    BY DEF Entries
  <2>2. PICK i \in 0 .. SafeSize(chunks[a][k]) - 1 : e = <<k, i>>
    BY <2>1
  <2>3. a \in Arenas /\ k \in 1 .. Len(chunks[a]) /\ chunks[a][k] \in Chunk
    BY DEF IInv, TypeOK
  <2>4. i \in Slot(a, k)
    BY <2>3, MaxCapacityType DEF Slot, SafeSize, SmallerOf, Chunk
  <2>5. SlotOK(a, k, i)
    BY <2>3, <2>4 DEF IInv, SlotInv
  <2>6. ArenaAt(a, e) = chunks[a][k].arenas[i]
    BY <2>2 DEF ArenaAt
  <2> QED
    BY <2>5, <2>6 DEF SlotOK
<1> HIDE DEF reached
<1>3. \A s \in Serials : s \in reached => heap[s].arena = a
  BY <1>2 DEF reached
<1> QED
  BY <1>1, <1>3 DEF IInv, TypeOK

(* Slots of the arenas that a lifecycle step leaves alone *)
LEMMA OtherSlots ==
    ASSUME IInv, NEW a \in Arenas, Quiescent(a),
           live' \subseteq live \cup {a}, \A b \in Arenas : b # a => chunks'[b] = chunks[b],
           a \in live' => chunks'[a] = <<>>,
           \A b \in Arenas : b # a => tag'[b] = tag[b],
           \A s \in Serials : heap[s] # NULL /\ heap[s].arena # a => heap'[s] = heap[s],
           UNCHANGED <<pc, cur, ser, hd, slot>>
    PROVE  SlotInv' /\ OneSlotInv' /\ UnlistedInv' /\ ClaimInv'
<1> USE ConstantsAssumption
<1>1. live \subseteq Arenas
  BY DEF IInv, TypeOK
<1>2. \A b \in live' : \A k \in 1 .. Len(chunks'[b]) :
         b \in live /\ b # a /\ chunks'[b] = chunks[b] /\ k \in 1 .. Len(chunks[b])
  BY <1>1
<1>3. SlotInv'
  <2> SUFFICES ASSUME NEW b \in live', NEW k \in (1 .. Len(chunks[b]))', NEW i \in Slot(b, k)'
               PROVE  SlotOK(b, k, i)'
    BY DEF SlotInv
  <2>1. b \in live /\ b # a /\ chunks'[b] = chunks[b] /\ tag'[b] = tag[b]
    BY <1>1, <1>2
  <2>3. tag[b] \in Ids
    BY <2>1 DEF IInv, IdInv
  <2>2. SlotOK(b, k, i)
    BY <1>2, <2>1 DEF IInv, SlotInv, Slot
  <2>4. \A u \in Threads, s \in Serials :
          heap[s] = [arena |-> b, id |-> tag[b], owner |-> u] => heap'[s] = heap[s]
    BY <1>1, <2>1, <2>3 DEF Allocations
  <2> QED
    BY <2>1, <2>2, <2>4 DEF SlotOK
<1>4. OneSlotInv'
  <2> SUFFICES ASSUME NEW b \in live',
                      NEW m \in (1 .. Len(chunks[b]))', NEW n \in (1 .. Len(chunks[b]))',
                      NEW i \in Slot(b, m)', NEW j \in Slot(b, n)',
                      (chunks[b][m].ids[i] = chunks[b][n].ids[j])',
                      (chunks[b][m].ids[i] # NULL)'
               PROVE  m = n /\ i = j
    BY DEF OneSlotInv
  <2>1. /\ b \in live /\ m \in 1 .. Len(chunks[b]) /\ n \in 1 .. Len(chunks[b])
        /\ i \in Slot(b, m) /\ j \in Slot(b, n)
        /\ chunks[b][m].ids[i] = chunks[b][n].ids[j] /\ chunks[b][m].ids[i] # NULL
    BY <1>2 DEF Slot
  <2>2. OneSlotInv
    BY DEF IInv
  <2> QED
    BY <2>1, <2>2 DEF OneSlotInv
(* No thread inside an arena is inside a. *)
<1>5. \A u \in Threads : pc[u] # "idle" => cur[u] \in live /\ cur[u] # a
  BY DEF IInv, ControlInv, ControlOK, Quiescent
<1>6. UnlistedInv'
  <2> SUFFICES ASSUME NEW u \in Threads, pc[u] \in Adding,
                      NEW k \in 1 .. Len(chunks'[cur[u]]), NEW i \in 0 .. chunks'[cur[u]][k].capacity - 1,
                      chunks'[cur[u]][k].ids[i] = u
               PROVE  chunks'[cur[u]][k].arenas[i] = NULL
    BY DEF UnlistedInv, Slot
  <2>1. cur[u] \in live /\ cur[u] # a /\ chunks'[cur[u]] = chunks[cur[u]]
    BY <1>1, <1>5 DEF Adding, Pcs
  <2> QED
    BY <2>1 DEF IInv, UnlistedInv, Slot
<1>7. ClaimInv'
  <2>1. ASSUME NEW u \in Threads, pc[u] \in Claiming PROVE ChunkOf(u)' = ChunkOf(u)
    BY <1>1, <1>5, <2>1 DEF Claiming, ChunkOf
  <2> QED
    BY <2>1 DEF IInv, ClaimInv, ClaimOK, SameClaim
<1> QED
  BY <1>3, <1>4, <1>6, <1>7

(* The arena starts a new life: what is left of the invariant holds. *)
LEMMA RenewStep ==
    ASSUME IInv, NEW t \in Threads, NEW a \in Arenas, Quiescent(a), InitArena(t, a),
           live' = live \cup {a},
           heap' \in [Serials -> Allocations \cup {NULL}],
           \A s \in Serials : heap[s] # NULL /\ heap[s].arena # a => heap'[s] = heap[s],
           UNCHANGED <<mutex, pc, cur, ser, hd, slot>>
    PROVE  IInv'
<1> USE ConstantsAssumption
<1>1. /\ IdInv'
      /\ lifecycle_id' \in Nat /\ tag' \in [Arenas -> Ids \cup {NoId}]
      /\ tc' \in [Threads -> [next : Ids, seen : Ids \cup {NoId},
                              last : SerialPtrs \cup {NULL}]]
      /\ tc'[t].seen = tag'[a] /\ tc'[t].last = a
      /\ \A u \in Threads : u # t => tc'[u] = tc[u] /\ tc[u].seen # tag'[a]
      /\ \A b \in Arenas : b # a => tag'[b] = tag[b] /\ tag[b] # tag'[a]
  BY FreshId DEF IInv
<1>2. /\ chunks' = [chunks EXCEPT ![a] = <<>>]
      /\ first_owner' = [first_owner EXCEPT ![a] = t]
  BY DEF InitArena
<1>3. /\ chunks' \in [Arenas -> Seq(Chunk)] /\ chunks'[a] = <<>>
      /\ \A b \in Arenas : b # a => chunks'[b] = chunks[b] /\ first_owner'[b] = first_owner[b]
      /\ first_owner'[a] = t /\ first_owner' \in [Arenas -> Threads \cup {NULL}]
  BY <1>2 DEF IInv, TypeOK
<1>4. live' \subseteq Arenas
  BY DEF IInv, TypeOK
<1>5. TypeOK'
  <2>1. \A b \in Arenas : \A k \in DOMAIN chunks'[b] : HasSlots(chunks'[b][k])
    <3> TAKE b \in Arenas
    <3>1. CASE b = a
      BY <1>3, <3>1
    <3>2. CASE b # a
      BY <1>3, <3>2 DEF IInv, TypeOK
    <3> QED
      BY <3>1, <3>2
  <2> QED
    BY <1>1, <1>3, <1>4, <2>1 DEF IInv, TypeOK
(* No thread inside an arena is inside a. *)
<1>6. \A u \in Threads : pc[u] # "idle" => cur[u] \in live /\ cur[u] \in Arenas /\ cur[u] # a
  BY <1>4 DEF IInv, ControlInv, ControlOK, Quiescent
<1>7. ControlInv'
  <2> SUFFICES ASSUME NEW u \in Threads PROVE ControlOK(u)'
    BY DEF ControlInv
  <2>1. ControlOK(u)
    BY DEF IInv, ControlInv
  <2>2. pc[u] # "idle" => chunks'[cur[u]] = chunks[cur[u]]
    BY <1>3, <1>6
  <2> QED
    BY <1>6, <2>1, <2>2 DEF ControlOK, ChunkOf, Inserting, Claiming
<1>8. LockInv'
  <2>1. ASSUME NEW b \in Arenas, NEW u \in Threads, mutex[b] = u
        PROVE  cur[u] = b /\ pc[u] \in Locked /\ hd[u] = Len(chunks'[b])
    <3>1. cur[u] = b /\ pc[u] \in Locked /\ hd[u] = Len(chunks[b])
      BY <2>1 DEF IInv, LockInv
    <3>2. b # a
      BY <1>6, <3>1 DEF Locked, Inserting
    <3> QED
      BY <1>3, <3>1, <3>2
  <2> QED
    BY <2>1 DEF IInv, LockInv
(* Another arena keeps its SerialArenas. *)
<1>9. \A u \in Threads, b \in live : \A s :
        b # a /\ OwnSerial(u, b, s) => OwnSerial(u, b, s)'
  <2> SUFFICES ASSUME NEW u \in Threads, NEW b \in live, NEW s, b # a, OwnSerial(u, b, s)
               PROVE  OwnSerial(u, b, s)'
    OBVIOUS
  <2>1. b \in Arenas /\ tag'[b] = tag[b] /\ first_owner'[b] = first_owner[b] /\ tag[b] \in Ids
    BY <1>1, <1>3, <1>4 DEF IInv, IdInv
  <2>2. [arena |-> b, id |-> tag[b], owner |-> u] # NULL
    BY <2>1 DEF Allocations
  <2> QED
    BY <2>1, <2>2 DEF OwnSerial
<1>10. NewSerialInv' /\ UseInv'
  <2>1. \A u \in Threads : pc[u] # "idle" /\ OwnSerial(u, cur[u], ser[u])
                             => OwnSerial(u, cur[u], ser[u])'
    <3> SUFFICES ASSUME NEW u \in Threads, pc[u] # "idle", OwnSerial(u, cur[u], ser[u])
                 PROVE  OwnSerial(u, cur[u], ser[u])'
      OBVIOUS
    <3>1. PICK b, s : b = cur[u] /\ s = ser[u]
      OBVIOUS
    <3>2. OwnSerial(u, b, s)'
      BY <1>6, <1>9, <3>1
    <3> QED
      BY <3>1, <3>2 DEF OwnSerial
  <2> QED
    BY <2>1 DEF IInv, NewSerialInv, UseInv, Adding, Pcs
<1>11. SlotInv' /\ OneSlotInv' /\ UnlistedInv' /\ ClaimInv'
  BY <1>1, <1>3, OtherSlots, SMTT(30)
<1>12. CacheCoherent'
  <2> SUFFICES ASSUME NEW u \in Threads, NEW b \in live', tc'[u].seen = tag'[b]
               PROVE  OwnSerial(u, b, tc[u].last)'
    BY DEF CacheCoherent, CacheHit
  <2>1. CASE b = a
    <3>1. u = t
      BY <1>1, <2>1
    <3> QED
      BY <1>1, <1>3, <2>1, <3>1 DEF OwnSerial
  <2>2. CASE b # a
    <3>1. u # t /\ b \in live /\ tc'[u] = tc[u] /\ tag'[b] = tag[b]
      BY <1>1, <1>4, <2>2
    <3>2. PICK s : s = tc[u].last
      OBVIOUS
    <3>3. OwnSerial(u, b, s)
      BY <3>1, <3>2 DEF IInv, CacheCoherent, CacheHit
    <3>4. OwnSerial(u, b, s)'
      BY <1>9, <2>2, <3>1, <3>3
    <3> QED
      BY <3>1, <3>2, <3>4 DEF OwnSerial
  <2> QED
    BY <2>1, <2>2
<1> QED
  BY <1>1, <1>5, <1>7, <1>8, <1>10, <1>11, <1>12 DEF IInv

LEMMA ConstructStep ==
    ASSUME IInv, NEW t \in Threads, NEW a \in Arenas, Construct(t, a)
    PROVE  IInv'
<1>1. Quiescent(a)
  BY ConstantsAssumption DEF IInv, ControlInv, ControlOK, Quiescent, Construct
<1> QED
  BY <1>1, RenewStep DEF Construct, IInv, TypeOK

LEMMA ResetStep ==
    ASSUME IInv, NEW t \in Threads, NEW a \in Arenas, Reset(t, a)
    PROVE  IInv'
<1>1. a \in live /\ live' = live \cup {a}
  BY DEF Reset
<1>2. /\ heap' \in [Serials -> Allocations \cup {NULL}]
      /\ \A s \in Serials : heap[s] # NULL /\ heap[s].arena # a => heap'[s] = heap[s]
  BY <1>1, FreesOwn DEF Reset
<1> QED
  BY <1>1, <1>2, RenewStep DEF Reset

LEMMA DestroyStep ==
    ASSUME IInv, NEW t \in Threads, NEW a \in Arenas, Destroy(t, a)
    PROVE  IInv'
<1> USE ConstantsAssumption
<1>1. /\ a \in live /\ Quiescent(a) /\ live' = live \ {a}
      /\ UNCHANGED <<lifecycle_id, tag, first_owner, chunks, mutex, tc, pc, cur, ser, hd, slot>>
  BY DEF Destroy, locals
<1>2. /\ heap' \in [Serials -> Allocations \cup {NULL}]
      /\ \A s \in Serials : heap[s] # NULL /\ heap[s].arena # a => heap'[s] = heap[s]
  BY <1>1, FreesOwn DEF Destroy
<1>3. TypeOK'
  BY <1>1, <1>2 DEF IInv, TypeOK
<1>4. \A u \in Threads : pc[u] # "idle" => cur[u] \in live /\ cur[u] # a
  BY <1>1 DEF IInv, ControlInv, ControlOK, Quiescent
<1>5. ControlInv'
  BY <1>1, <1>4 DEF IInv, ControlInv, ControlOK, ChunkOf
<1>6. LockInv' /\ IdInv'
  BY <1>1 DEF IInv, LockInv, IdInv, Issued, NeedsBatch
(* Another arena keeps its SerialArenas. *)
<1>7. \A u \in Threads, b \in live : \A s :
        b # a /\ OwnSerial(u, b, s) => OwnSerial(u, b, s)'
  <2> SUFFICES ASSUME NEW u \in Threads, NEW b \in live, NEW s, b # a, OwnSerial(u, b, s)
               PROVE  OwnSerial(u, b, s)'
    OBVIOUS
  <2>1. [arena |-> b, id |-> tag[b], owner |-> u] # NULL
    BY DEF IInv, TypeOK, IdInv, Allocations
  <2> QED
    BY <1>1, <1>2, <2>1 DEF OwnSerial
<1>8. NewSerialInv' /\ UseInv'
  <2>1. \A u \in Threads : pc[u] # "idle" /\ OwnSerial(u, cur[u], ser[u])
                             => OwnSerial(u, cur[u], ser[u])'
    <3> SUFFICES ASSUME NEW u \in Threads, pc[u] # "idle", OwnSerial(u, cur[u], ser[u])
                 PROVE  OwnSerial(u, cur[u], ser[u])'
      OBVIOUS
    <3>1. PICK b, s : b = cur[u] /\ s = ser[u]
      OBVIOUS
    <3>2. OwnSerial(u, b, s)'
      BY <1>4, <1>7, <3>1
    <3> QED
      BY <1>1, <3>1, <3>2 DEF OwnSerial
  <2> QED
    BY <1>1, <2>1 DEF IInv, NewSerialInv, UseInv, Adding, Pcs
<1>9. SlotInv' /\ OneSlotInv' /\ UnlistedInv' /\ ClaimInv'
  <2>1. live' \subseteq live \cup {a} /\ a \notin live' /\ a \in Arenas
    BY <1>1
  <2> QED
    BY <1>1, <1>2, <2>1, OtherSlots
<1>10. CacheCoherent'
  <2> SUFFICES ASSUME NEW u \in Threads, NEW b \in live', tc'[u].seen = tag'[b]
               PROVE  OwnSerial(u, b, tc[u].last)'
    BY DEF CacheCoherent, CacheHit
  <2>1. PICK s : s = tc[u].last
    OBVIOUS
  <2>2. OwnSerial(u, b, s)
    BY <1>1, <2>1 DEF IInv, CacheCoherent, CacheHit
  <2>3. OwnSerial(u, b, s)'
    BY <1>1, <1>7, <2>2
  <2> QED
    BY <1>1, <2>1, <2>3 DEF OwnSerial
<1> QED
  BY <1>3, <1>5, <1>6, <1>8, <1>9, <1>10 DEF IInv

-----------------------------------------------------------------------------
(* The invariant and what follows from it *)

LEMMA InitStep == Init => IInv
<1> SUFFICES ASSUME Init PROVE IInv
  OBVIOUS
<1> USE ConstantsAssumption
<1>1. TypeOK
  <2>1. FreshCache \in [next : Ids, seen : Ids \cup {NoId}, last : SerialPtrs \cup {NULL}]
    BY DEF FreshCache, Ids
  <2>2. chunks \in [Arenas -> Seq(Chunk)]
        /\ \A a \in Arenas : \A k \in DOMAIN chunks[a] : HasSlots(chunks[a][k])
    BY DEF Init
  <2>3. tc \in [Threads -> [next : Ids, seen : Ids \cup {NoId}, last : SerialPtrs \cup {NULL}]]
    BY <2>1 DEF Init
  <2> QED
    BY <2>2, <2>3 DEF Init, TypeOK, Pcs
<1>2. \A t \in Threads : pc[t] = "idle" /\ cur[t] = NULL
  BY DEF Init
<1>3. ControlInv /\ LockInv
  BY <1>2 DEF Init, ControlInv, ControlOK, LockInv, Inserting, Claiming
<1>4. IdInv
  <2>1. \A t \in Threads : NeedsBatch(t) /\ tc[t].seen = NoId
    BY DEF Init, NeedsBatch, FreshCache
  <2> QED
    BY <2>1 DEF Init, IdInv, Issued
<1>5. NewSerialInv /\ UnlistedInv /\ ClaimInv /\ UseInv
  BY <1>2 DEF NewSerialInv, UnlistedInv, ClaimInv, UseInv, Adding, Pcs, Claiming
<1>6. SlotInv /\ OneSlotInv /\ CacheCoherent
  BY DEF Init, SlotInv, OneSlotInv, CacheCoherent
<1> QED
  BY <1>1, <1>3, <1>4, <1>5, <1>6 DEF IInv

(* Every step of every thread preserves the invariant. *)
LEMMA NextStep == IInv /\ [Next]_vars => IInv'
<1> SUFFICES ASSUME IInv, [Next]_vars PROVE IInv'
  OBVIOUS
<1>1. ASSUME NEW t \in Threads, Step(t) PROVE IInv'
  BY <1>1, LoadHeadStep, FetchAddStep, ChunkFullStep, StoreIdStep, StoreArenaStep,
     LockStep, GrowStep, FinishStep DEF Step
<1>2. ASSUME NEW t \in Threads, ThreadExit(t) PROVE IInv'
  BY <1>2, ThreadExitStep
<1>3. ASSUME NEW t \in Threads, NEW a \in Arenas, Call(t, a) PROVE IInv'
  BY <1>3, GetSerialArenaFastStep, FallbackFirstArenaStep, FallbackFoundStep,
     FallbackNewStep DEF Call
<1>4. ASSUME NEW t \in Threads, NEW a \in Arenas, Lifecycle(t, a) PROVE IInv'
  BY <1>4, ConstructStep, ResetStep, DestroyStep DEF Lifecycle
<1>5. CASE UNCHANGED vars
  <2>1. UNCHANGED <<lifecycle_id, live, tag, first_owner, chunks, mutex, heap>>
        /\ UNCHANGED <<tc, pc, cur, ser, hd, slot>>
    BY <1>5 DEF vars, shared, locals
  <2>2. TypeOK'
    BY <2>1 DEF IInv, TypeOK
  <2>3. ControlInv' /\ LockInv'
    BY <2>1 DEF IInv, ControlInv, ControlOK, ChunkOf, LockInv
  <2>4. IdInv' /\ CacheCoherent'
    BY <2>1 DEF IInv, IdInv, Issued, NeedsBatch, CacheCoherent, CacheHit, OwnSerial
  <2>5. NewSerialInv' /\ UseInv'
    BY <2>1 DEF IInv, NewSerialInv, UseInv, OwnSerial
  <2>6. SlotInv'
    BY <2>1 DEF IInv, SlotInv, Slot, SlotOK
  <2>7. OneSlotInv' /\ UnlistedInv'
    BY <2>1 DEF IInv, OneSlotInv, UnlistedInv, Slot
  <2>8. ClaimInv'
    BY <2>1 DEF IInv, ClaimInv, ClaimOK, ChunkOf, SameClaim
  <2> QED
    BY <2>2, <2>3, <2>4, <2>5, <2>6, <2>7, <2>8 DEF IInv
<1> QED
  BY <1>1, <1>2, <1>3, <1>4, <1>5 DEF Next

(* The invariant holds in every reachable state. *)
THEOREM Inductive == Spec => []IInv
<1> QED
  BY InitStep, NextStep, PTL DEF Spec

(* The fields of arenas, chunks and caches always have their types: a slot  *)
(* index and a chunk index never leave their arrays, a chunk is never empty.*)
THEOREM TypeCorrect == Spec => []TypeOK
<1>1. IInv => TypeOK
  BY DEF IInv
<1> QED
  BY <1>1, Inductive, PTL

(* A hit in the thread-local cache of GetSerialArenaFast yields the         *)
(* caller's own SerialArena of this arena in its current life, whatever     *)
(* arenas were reset, destroyed or constructed at the same address since.   *)
THEOREM CachesAreCoherent == Spec => []CacheCoherent
<1>1. IInv => CacheCoherent
  BY DEF IInv
<1> QED
  BY <1>1, Inductive, PTL

(* No two threads ever allocate from the same SerialArena.                  *)
THEOREM SerialsAreExclusive == Spec => []SerialExclusive
<1>1. IInv => SerialExclusive
  <2> SUFFICES ASSUME IInv PROVE SerialExclusive
    OBVIOUS
  <2>1. \A t \in Threads : pc[t] = "alloc" => OwnSerial(t, cur[t], ser[t])
    BY DEF IInv, UseInv
  <2>2. ASSUME NEW t \in Threads, NEW u \in Threads,
               pc[t] = "alloc", pc[u] = "alloc", ser[t] = ser[u]
        PROVE  t = u
    <3>1. OwnSerial(t, cur[t], ser[t]) /\ OwnSerial(u, cur[u], ser[u])
      BY <2>1, <2>2
    <3>2. cur[t] \in Arenas /\ cur[u] \in Arenas
      BY <2>2 DEF IInv, TypeOK, ControlInv, ControlOK
    <3>3. CASE ser[t] \in Serials
      <4>1. /\ heap[ser[t]] = [arena |-> cur[t], id |-> tag[cur[t]], owner |-> t]
            /\ heap[ser[t]] = [arena |-> cur[u], id |-> tag[cur[u]], owner |-> u]
        BY <2>2, <3>1, <3>2, <3>3, ConstantsAssumption DEF OwnSerial
      <4> QED
        BY <4>1
    <3>4. CASE ser[t] \notin Serials
      BY <2>2, <3>1, <3>4 DEF OwnSerial
    <3> QED
      BY <3>3, <3>4
  <2> QED
    BY <2>1, <2>2 DEF SerialExclusive
<1> QED
  BY <1>1, Inductive, PTL

(* However the inserts of threads interleave, no thread and no SerialArena  *)
(* has two entries: the search of GetSerialArenaFallback is unambiguous,    *)
(* and Free frees no SerialArena twice.                                     *)
THEOREM EntriesAreUnique == Spec => []OneEntryEach
<1>1. IInv => OneEntryEach
  <2> SUFFICES ASSUME IInv, NEW a \in live, NEW e \in Entries(a), NEW f \in Entries(a)
               PROVE  \/ e = f
                      \/ /\ IdAt(a, e) = NULL \/ IdAt(a, e) # IdAt(a, f)
                         /\ ArenaAt(a, e) = NULL \/ ArenaAt(a, e) # ArenaAt(a, f)
    BY DEF OneEntryEach
  <2>1. ASSUME NEW g \in Entries(a)
        PROVE  \E k \in 1 .. Len(chunks[a]) : \E i \in Slot(a, k) :
                 /\ g = <<k, i>> /\ SlotOK(a, k, i)
                 /\ IdAt(a, g) = chunks[a][k].ids[i] /\ ArenaAt(a, g) = chunks[a][k].arenas[i]
    <3>1. PICK k \in DOMAIN chunks[a] : g \in {<<k, i>> : i \in 0 .. SafeSize(chunks[a][k]) - 1}
      BY DEF Entries
    <3>2. PICK i \in 0 .. SafeSize(chunks[a][k]) - 1 : g = <<k, i>>
      BY <3>1
    <3>3. a \in Arenas /\ k \in 1 .. Len(chunks[a]) /\ chunks[a][k] \in Chunk
      BY DEF IInv, TypeOK
    <3>4. i \in Slot(a, k)
      BY <3>3, MaxCapacityType DEF Slot, SafeSize, SmallerOf, Chunk
    <3>5. SlotOK(a, k, i)
      BY <3>3, <3>4 DEF IInv, SlotInv
    <3> QED
      BY <3>2, <3>3, <3>4, <3>5 DEF IdAt, ArenaAt
  <2> DEFINE At(g, k, i) ==
        /\ g = <<k, i>> /\ SlotOK(a, k, i)
        /\ IdAt(a, g) = chunks[a][k].ids[i] /\ ArenaAt(a, g) = chunks[a][k].arenas[i]
  <2>2. /\ \E k \in 1 .. Len(chunks[a]) : \E i \in Slot(a, k) : At(e, k, i)
        /\ \E m \in 1 .. Len(chunks[a]) : \E j \in Slot(a, m) : At(f, m, j)
    BY <2>1
  <2>3. PICK k \in 1 .. Len(chunks[a]), m \in 1 .. Len(chunks[a]) :
          (\E i \in Slot(a, k) : At(e, k, i)) /\ (\E j \in Slot(a, m) : At(f, m, j))
    BY <2>2
  <2>4. PICK i \in Slot(a, k), j \in Slot(a, m) : At(e, k, i) /\ At(f, m, j)
    BY <2>3
(* The ids of filled slots are the owners of their SerialArenas. *)
  <2>5. ArenaAt(a, e) # NULL /\ ArenaAt(a, e) = ArenaAt(a, f)
          => IdAt(a, e) # NULL /\ IdAt(a, e) = IdAt(a, f)
    BY <2>4 DEF SlotOK
  <2>6. IdAt(a, e) # NULL /\ IdAt(a, e) = IdAt(a, f) => e = f
    <3> SUFFICES ASSUME IdAt(a, e) # NULL, IdAt(a, e) = IdAt(a, f) PROVE e = f
      OBVIOUS
    <3>1. OneSlotInv
      BY DEF IInv
    <3>2. chunks[a][k].ids[i] = chunks[a][m].ids[j] /\ chunks[a][k].ids[i] # NULL
      BY <2>4
    <3>3. k = m /\ i = j
      BY <3>1, <3>2 DEF OneSlotInv
    <3> QED
      BY <2>4, <3>3
  <2> QED
    BY <2>5, <2>6
<1> QED
  BY <1>1, Inductive, PTL
=============================================================================
