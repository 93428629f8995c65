-------------------------- MODULE ThreadSafeArena --------------------------
(***************************************************************************)
(* ThreadSafeArena (arena.cc, thread_safe_arena.h): an arena shared by     *)
(* threads gives each of them a SerialArena of its own, a bump allocator   *)
(* that is not thread-safe.  A thread finds its SerialArena                *)
(*   - in its thread-local cache, when the lifecycle id cached there is    *)
(*     the arena's;                                                        *)
(*   - else in the arena: first_arena_ for the thread that constructed or  *)
(*     reset it, or a slot of the list of SerialArenaChunks;               *)
(*   - else it allocates one and inserts it into the chunk list, without a *)
(*     lock when the head chunk has room and under mutex_ when not.        *)
(*                                                                         *)
(* An action is one access to memory that other threads may access, with   *)
(* the thread-local computation that follows it.  A SerialArena is its     *)
(* address: one embedded in its arena, or a heap address that is reused    *)
(* after it was freed, as malloc does.  A thread is the address of its     *)
(* ThreadCache, which a later thread takes over after the thread exits.    *)
(***************************************************************************)
EXTENDS Integers, Sequences, FiniteSets

CONSTANTS
    Threads,        \* addresses of the thread-local ThreadCaches
    Arenas,         \* addresses of Arena objects; also of their first_arena_
    Serials,        \* heap addresses of SerialArena objects
    NULL,
    PerThreadIds,   \* ThreadCache::kPerThreadIds
    HeaderBytes,    \* SerialArenaChunk::AllocSize(0)
    EntryBytes,     \* what one entry adds to AllocSize
    GrowthFactor,   \* kGrowthFactor of NewSerialArenaChunk
    MaxChunkBytes,  \* kMaxBytes of NewSerialArenaChunk
    MaxBatches      \* bound: batches of lifecycle ids the model hands out

(* Lifecycle ids.  The 64-bit id batch * PerThreadIds + index is kept as    *)
(* the pair of the two: "id & (kInc - 1)" is the index.                     *)
Ids == [batch : Nat, index : 0 .. PerThreadIds - 1]

(* What a SerialArena is made for: an arena in one of its lives, a thread *)
Allocations == [arena : Arenas, id : Ids, owner : Threads]

ASSUME ConstantsAssumption ==
    /\ NULL \notin Threads \cup Arenas \cup Serials \cup Allocations
    /\ Arenas \cap Serials = {}
    /\ PerThreadIds \in Nat \ {0}
    /\ MaxBatches \in Nat
    /\ HeaderBytes \in Nat /\ EntryBytes \in Nat \ {0}
    /\ GrowthFactor \in Nat \ {0}
    /\ HeaderBytes * GrowthFactor >= HeaderBytes + EntryBytes
    /\ MaxChunkBytes \in Nat /\ MaxChunkBytes >= HeaderBytes + EntryBytes

VARIABLES
    lifecycle_id,   \* the global counter lifecycle_id_: batches handed out
    tc,             \* tc[t]: ThreadCache of thread t
    live,           \* the arenas constructed and not yet destroyed
    tag,            \* tag[a]: tag_and_id_
    first_owner,    \* first_owner[a]: first_owner_
    chunks,         \* chunks[a]: the list of chunks from head_ as a sequence;
                    \*   its last element is the head, <<>> is the sentry
    mutex,          \* mutex[a]: the thread that holds mutex_
    heap,           \* heap[s]: what the SerialArena at s was made for, or NULL
    pc,             \* control state of each thread
    cur,            \* cur[t]: arena of the call in progress
    ser,            \* ser[t]: the SerialArena the call found or made
    hd,             \* hd[t]: local head/new_head of AddSerialArena, an index
    slot            \* slot[t]: local idx of SerialArenaChunk::insert

shared == <<lifecycle_id, live, tag, first_owner, chunks, mutex, heap>>
locals == <<tc, pc, cur, ser, hd, slot>>
vars   == <<shared, locals>>

-----------------------------------------------------------------------------
(* static_cast<uint64_t>(-1), the initial last_lifecycle_id_seen *)
NoId == [batch |-> -1, index |-> PerThreadIds - 1]

NextId(id) ==
    IF id.index + 1 = PerThreadIds
    THEN [batch |-> id.batch + 1, index |-> 0]
    ELSE [id EXCEPT !.index = @ + 1]

FreshCache == [next |-> [batch |-> 0, index |-> 0], seen |-> NoId, last |-> NULL]

NeedsBatch(t) == tc[t].next.index = 0

(* The id GetNextLifeCycleId returns to thread t *)
NewLifeCycleId(t) ==
    IF NeedsBatch(t) THEN [batch |-> lifecycle_id, index |-> 0] ELSE tc[t].next

-----------------------------------------------------------------------------
(* Chunks of the list of SerialArenas *)

SmallerOf(m, n) == IF m <= n THEN m ELSE n

AllocSize(n) == HeaderBytes + n * EntryBytes

NextCapacity(prev) ==
    (SmallerOf(MaxChunkBytes, AllocSize(prev) * GrowthFactor) - HeaderBytes)
        \div EntryBytes

(* The atomics of a fresh chunk: v in slot 0, null in the others *)
Slots(capacity, v) == [i \in 0 .. capacity - 1 |-> IF i = 0 THEN v ELSE NULL]

(* Faults: a chunk that does not count the entry it is made with, or counts *)
(* all of its slots.                                                        *)
NewChunk_SizeZero(capacity, me, serial) ==
    [capacity |-> capacity, size |-> 0,
     ids |-> Slots(capacity, me), arenas |-> Slots(capacity, serial)]

NewChunk_SizeFull(capacity, me, serial) ==
    [capacity |-> capacity, size |-> capacity,
     ids |-> Slots(capacity, me), arenas |-> Slots(capacity, serial)]

(* SerialArenaChunk{capacity, me, serial} *)
NewChunk(capacity, me, serial) ==
    [capacity |-> capacity, size |-> 1,
     ids |-> Slots(capacity, me), arenas |-> Slots(capacity, serial)]

SafeSize(c) == SmallerOf(c.capacity, c.size)

CapacityAt(a, k) == IF k = 0 THEN 0 ELSE chunks[a][k].capacity

(* The entries <<k, i>> a walk over the chunk list of a visits *)
Entries(a) ==
    UNION {{<<k, i>> : i \in 0 .. SafeSize(chunks[a][k]) - 1} : k \in DOMAIN chunks[a]}

IdAt(a, e)    == chunks[a][e[1]].ids[e[2]]
ArenaAt(a, e) == chunks[a][e[1]].arenas[e[2]]

(* What the search in GetSerialArenaFallback compares with its own id *)
EntriesOf(a, t) == {e \in Entries(a) : IdAt(a, e) = t}

(* The search keeps walking, so the match in the oldest chunk is the one    *)
(* that stays in "serial".                                                  *)
Found(a, t) ==
    ArenaAt(a, CHOOSE e \in EntriesOf(a, t) :
                   \A f \in EntriesOf(a, t) :
                       e[1] < f[1] \/ (e[1] = f[1] /\ e[2] <= f[2]))

-----------------------------------------------------------------------------
Init ==
    /\ lifecycle_id = 0
    /\ tc = [t \in Threads |-> FreshCache]
    /\ live = {}
    /\ tag = [a \in Arenas |-> NoId]
    /\ first_owner = [a \in Arenas |-> NULL]
    /\ chunks = [a \in Arenas |-> <<>>]
    /\ mutex = [a \in Arenas |-> NULL]
    /\ heap = [s \in Serials |-> NULL]
    /\ pc = [t \in Threads |-> "idle"]
    /\ cur = [t \in Threads |-> NULL]
    /\ ser = [t \in Threads |-> NULL]
    /\ hd = [t \in Threads |-> 0]
    /\ slot = [t \in Threads |-> 0]

(* The contract of ~Arena and Reset: no other thread is inside the arena. *)
Quiescent(a) == \A t \in Threads : cur[t] # a

(* Fault: Reset keeps the lifecycle id. *)
InitArena_KeepsId(t, a) ==
    LET id == IF a \in live THEN tag[a] ELSE NewLifeCycleId(t)
    IN  /\ NeedsBatch(t) => lifecycle_id < MaxBatches
        /\ lifecycle_id' = IF NeedsBatch(t) THEN lifecycle_id + 1 ELSE lifecycle_id
        /\ tag' = [tag EXCEPT ![a] = id]
        /\ chunks' = [chunks EXCEPT ![a] = <<>>]
        /\ first_owner' = [first_owner EXCEPT ![a] = t]
        /\ tc' = [tc EXCEPT ![t] = [next |-> NextId(id), seen |-> id, last |-> a]]

(* ThreadSafeArena::Init: GetNextLifeCycleId, an empty chunk list, the      *)
(* calling thread as owner of first_arena_ and CacheSerialArena.  The only  *)
(* shared access is one fetch_add: the arena is not yet, or no longer,      *)
(* visible to other threads.                                                *)
InitArena(t, a) ==
    LET id == NewLifeCycleId(t)
    IN  /\ NeedsBatch(t) => lifecycle_id < MaxBatches
        /\ lifecycle_id' = IF NeedsBatch(t) THEN lifecycle_id + 1 ELSE lifecycle_id
        /\ tag' = [tag EXCEPT ![a] = id]
        /\ chunks' = [chunks EXCEPT ![a] = <<>>]
        /\ first_owner' = [first_owner EXCEPT ![a] = t]
        /\ tc' = [tc EXCEPT ![t] = [next |-> NextId(id), seen |-> id, last |-> a]]

Construct(t, a) ==
    /\ pc[t] = "idle"
    /\ a \notin live
    /\ live' = live \cup {a}
    /\ InitArena(t, a)
    /\ UNCHANGED <<mutex, heap, pc, cur, ser, hd, slot>>

(* Fault: the backward walk of a chunk stops before its first entry. *)
FreeSerials_SkipsFirst(a) ==
    LET reached == {ArenaAt(a, e) : e \in {f \in Entries(a) : f[2] > 0}}
    IN  heap' = [s \in Serials |-> IF s \in reached THEN NULL ELSE heap[s]]

(* CleanupList and Free walk the chunks and free what they reach. *)
FreeSerials(a) ==
    LET reached == {ArenaAt(a, e) : e \in Entries(a)}
    IN  heap' = [s \in Serials |-> IF s \in reached THEN NULL ELSE heap[s]]

Reset(t, a) ==
    /\ pc[t] = "idle"
    /\ a \in live
    /\ Quiescent(a)
    /\ FreeSerials(a)
    /\ InitArena(t, a)
    /\ UNCHANGED <<live, mutex, pc, cur, ser, hd, slot>>

Destroy(t, a) ==
    /\ pc[t] = "idle"
    /\ a \in live
    /\ Quiescent(a)
    /\ FreeSerials(a)
    /\ live' = live \ {a}
    /\ UNCHANGED <<lifecycle_id, tag, first_owner, chunks, mutex, locals>>

(* A thread exits and another one starts with its ThreadCache address. *)
ThreadExit(t) ==
    /\ pc[t] = "idle"
    /\ tc' = [tc EXCEPT ![t] = FreshCache]
    /\ UNCHANGED <<shared, pc, cur, ser, hd, slot>>

-----------------------------------------------------------------------------
(* A call that allocates: GetSerialArenaFast, GetSerialArenaFallback *)

(* The call has its SerialArena s and allocates from it until Finish. *)
Allocate(t, s) ==
    /\ pc' = [pc EXCEPT ![t] = "alloc"]
    /\ ser' = [ser EXCEPT ![t] = s]

CacheSerialArena(t, a, s) ==
    tc' = [tc EXCEPT ![t].last = s, ![t].seen = tag[a]]

Enter(t, a) ==
    /\ pc[t] = "idle"
    /\ a \in live
    /\ cur' = [cur EXCEPT ![t] = a]

CacheHit(t, a) == tc[t].seen = tag[a]

GetSerialArenaFast(t, a) ==
    /\ Enter(t, a)
    /\ CacheHit(t, a)
    /\ Allocate(t, tc[t].last)
    /\ UNCHANGED <<shared, tc, hd, slot>>

(* Fault: the owner of first_arena_ is not compared. *)
FallbackFirstArena_AnyThread(t, a) ==
    /\ Enter(t, a)
    /\ ~CacheHit(t, a)
    /\ CacheSerialArena(t, a, a)
    /\ Allocate(t, a)
    /\ UNCHANGED <<shared, hd, slot>>

FallbackFirstArena(t, a) ==
    /\ Enter(t, a)
    /\ ~CacheHit(t, a)
    /\ first_owner[a] = t
    /\ CacheSerialArena(t, a, a)
    /\ Allocate(t, a)
    /\ UNCHANGED <<shared, hd, slot>>

(* The search depends only on the entries with the caller's own id, which   *)
(* no other thread writes: it is one step.                                  *)
FallbackFound(t, a) ==
    /\ Enter(t, a)
    /\ ~CacheHit(t, a)
    /\ first_owner[a] # t
    /\ EntriesOf(a, t) # {}
    /\ CacheSerialArena(t, a, Found(a, t))
    /\ Allocate(t, Found(a, t))
    /\ UNCHANGED <<shared, hd, slot>>

(* SerialArena::New, at an address malloc finds free, then AddSerialArena *)
FallbackNew(t, a) ==
    /\ Enter(t, a)
    /\ ~CacheHit(t, a)
    /\ first_owner[a] # t
    /\ EntriesOf(a, t) = {}
    /\ \E s \in Serials :
        /\ heap[s] = NULL
        /\ heap' = [heap EXCEPT ![s] = [arena |-> a, id |-> tag[a], owner |-> t]]
        /\ ser' = [ser EXCEPT ![t] = s]
    /\ pc' = [pc EXCEPT ![t] = "load"]
    /\ UNCHANGED <<lifecycle_id, live, tag, first_owner, chunks, mutex, tc, hd, slot>>

Goto(t, label) == pc' = [pc EXCEPT ![t] = label]

HoldsMutex(t) == mutex[cur[t]] = t

(* AddSerialArena: head = head_.load(acquire) *)
LoadHead(t) ==
    LET head == Len(chunks[cur[t]])
    IN  /\ pc[t] = "load"
        /\ hd' = [hd EXCEPT ![t] = head]
        /\ Goto(t, IF head = 0 THEN "lock" ELSE "fetch")
        /\ UNCHANGED <<shared, tc, cur, ser, slot>>

(* insert: idx = size().fetch_add(1) *)
FetchAdd(t) ==
    LET a == cur[t]
        c == chunks[a][hd[t]]
    IN  /\ pc[t] = "fetch"
        /\ slot' = [slot EXCEPT ![t] = c.size]
        /\ chunks' = [chunks EXCEPT ![a][hd[t]].size = @ + 1]
        /\ Goto(t, IF c.size >= c.capacity THEN "full" ELSE "ids")
        /\ UNCHANGED <<lifecycle_id, live, tag, first_owner, mutex, heap, tc, cur, ser, hd>>

(* Fault: the size is not written back. *)
ChunkFull_NoWriteBack(t) ==
    /\ pc[t] = "full"
    /\ Goto(t, IF HoldsMutex(t) THEN "grow" ELSE "lock")
    /\ UNCHANGED <<shared, tc, cur, ser, hd, slot>>

(* insert fails: size().store(capacity()).  On the fast path the thread now *)
(* waits for mutex_; under mutex_ it adds a chunk in front of new_head.     *)
ChunkFull(t) ==
    LET a == cur[t]
    IN  /\ pc[t] = "full"
        /\ chunks' = [chunks EXCEPT ![a][hd[t]].size = chunks[a][hd[t]].capacity]
        /\ Goto(t, IF HoldsMutex(t) THEN "grow" ELSE "lock")
        /\ UNCHANGED <<lifecycle_id, live, tag, first_owner, mutex, heap, tc, cur, ser, hd, slot>>

(* insert: id(idx).store(me) *)
StoreId(t) ==
    LET a == cur[t]
    IN  /\ pc[t] = "ids"
        /\ chunks' = [chunks EXCEPT ![a][hd[t]].ids[slot[t]] = t]
        /\ Goto(t, "arenas")
        /\ UNCHANGED <<lifecycle_id, live, tag, first_owner, mutex, heap, tc, cur, ser, hd, slot>>

(* Fault: mutex_ is not released. *)
Added_KeepsMutex(t) ==
    LET a == cur[t]
    IN  /\ CacheSerialArena(t, a, ser[t])
        /\ Goto(t, "alloc")
        /\ UNCHANGED <<lifecycle_id, live, tag, first_owner, mutex, heap, cur, ser, hd, slot>>

(* AddSerialArena returns, releasing mutex_ if it holds it, and             *)
(* GetSerialArenaFallback caches the SerialArena.                           *)
Added(t) ==
    LET a == cur[t]
    IN  /\ mutex' = IF HoldsMutex(t) THEN [mutex EXCEPT ![a] = NULL] ELSE mutex
        /\ CacheSerialArena(t, a, ser[t])
        /\ Goto(t, "alloc")
        /\ UNCHANGED <<lifecycle_id, live, tag, first_owner, heap, cur, ser, hd, slot>>

(* Fault: an insert on the fast path goes on to the slow one. *)
StoreArena_FallsThrough(t) ==
    LET a == cur[t]
    IN  /\ pc[t] = "arenas"
        /\ chunks' = [chunks EXCEPT ![a][hd[t]].arenas[slot[t]] = ser[t]]
        /\ IF HoldsMutex(t)
           THEN Added(t)
           ELSE /\ Goto(t, "lock")
                /\ UNCHANGED <<lifecycle_id, live, tag, first_owner, mutex, heap>>
                /\ UNCHANGED <<tc, cur, ser, hd, slot>>

(* insert: arena(idx).store(serial, release) *)
StoreArena(t) ==
    LET a == cur[t]
    IN  /\ pc[t] = "arenas"
        /\ chunks' = [chunks EXCEPT ![a][hd[t]].arenas[slot[t]] = ser[t]]
        /\ Added(t)

(* Faults: the head is not fetched again, or fetched and not tried first. *)
Lock_StaleHead(t) ==
    LET a == cur[t]
    IN  /\ pc[t] = "lock"
        /\ mutex[a] = NULL
        /\ mutex' = [mutex EXCEPT ![a] = t]
        /\ Goto(t, "grow")
        /\ UNCHANGED <<lifecycle_id, live, tag, first_owner, chunks, heap, tc, cur, ser, hd, slot>>

Lock_NoRetry(t) ==
    LET a == cur[t]
    IN  /\ pc[t] = "lock"
        /\ mutex[a] = NULL
        /\ mutex' = [mutex EXCEPT ![a] = t]
        /\ hd' = [hd EXCEPT ![t] = Len(chunks[a])]
        /\ Goto(t, "grow")
        /\ UNCHANGED <<lifecycle_id, live, tag, first_owner, chunks, heap, tc, cur, ser, slot>>

(* MutexLock lock(&mutex_), then the head is fetched again: a head that     *)
(* another thread installed meanwhile is tried first.                       *)
Lock(t) ==
    LET a        == cur[t]
        new_head == Len(chunks[a])
    IN  /\ pc[t] = "lock"
        /\ mutex[a] = NULL
        /\ mutex' = [mutex EXCEPT ![a] = t]
        /\ hd' = [hd EXCEPT ![t] = new_head]
        /\ Goto(t, IF new_head # hd[t] THEN "fetch" ELSE "grow")
        /\ UNCHANGED <<lifecycle_id, live, tag, first_owner, chunks, heap, tc, cur, ser, slot>>

(* NewSerialArenaChunk with {id, serial} in slot 0, set_next(head), and     *)
(* head_.store(new_head, release): the list is now the new chunk and what   *)
(* follows the local head.                                                  *)
Grow(t) ==
    LET a == cur[t]
        c == NewChunk(NextCapacity(CapacityAt(a, hd[t])), t, ser[t])
    IN  /\ pc[t] = "grow"
        /\ chunks' = [chunks EXCEPT ![a] = Append(SubSeq(@, 1, hd[t]), c)]
        /\ Added(t)

(* The allocation from the SerialArena is done. *)
Finish(t) ==
    /\ pc[t] = "alloc"
    /\ Goto(t, "idle")
    /\ cur' = [cur EXCEPT ![t] = NULL]
    /\ ser' = [ser EXCEPT ![t] = NULL]
    /\ hd' = [hd EXCEPT ![t] = 0]
    /\ slot' = [slot EXCEPT ![t] = 0]
    /\ UNCHANGED <<shared, tc>>

-----------------------------------------------------------------------------
Step(t) ==
    \/ LoadHead(t) \/ FetchAdd(t) \/ ChunkFull(t) \/ StoreId(t)
    \/ StoreArena(t) \/ Lock(t) \/ Grow(t) \/ Finish(t)

Call(t, a) ==
    \/ GetSerialArenaFast(t, a) \/ FallbackFirstArena(t, a)
    \/ FallbackFound(t, a) \/ FallbackNew(t, a)

Lifecycle(t, a) == Construct(t, a) \/ Reset(t, a) \/ Destroy(t, a)

Next ==
    \E t \in Threads :
        \/ Step(t)
        \/ ThreadExit(t)
        \/ \E a \in Arenas : Call(t, a) \/ Lifecycle(t, a)

(* A thread inside a call keeps running.  Weak fairness is enough for       *)
(* mutex_: a thread that registered does not come for it again unless its   *)
(* arena is reset, which waits for those inside.                            *)
Fairness == \A t \in Threads : WF_vars(Step(t))

Spec     == Init /\ [][Next]_vars
FairSpec == Spec /\ Fairness

-----------------------------------------------------------------------------
(* Properties *)

Pcs == {"idle", "load", "fetch", "full", "ids", "arenas", "lock", "grow", "alloc"}

(* The thread has a new SerialArena that the chunk list does not have yet. *)
Adding == Pcs \ {"idle", "alloc"}

SerialPtrs == Arenas \cup Serials

MaxCapacity == (MaxChunkBytes - HeaderBytes) \div EntryBytes

Arrays(S) == UNION {[0 .. n - 1 -> S] : n \in 1 .. MaxCapacity}

Chunk == [capacity : 1 .. MaxCapacity, size : Nat \ {0},
          ids : Arrays(Threads \cup {NULL}), arenas : Arrays(Serials \cup {NULL})]

HasSlots(c) == DOMAIN c.ids = 0 .. c.capacity - 1 /\ DOMAIN c.arenas = DOMAIN c.ids

(* The fields have their types; a chunk, once published, is never empty. *)
TypeOK ==
    /\ lifecycle_id \in Nat
    /\ tc \in [Threads -> [next : Ids, seen : Ids \cup {NoId},
                           last : SerialPtrs \cup {NULL}]]
    /\ live \subseteq Arenas
    /\ tag \in [Arenas -> Ids \cup {NoId}]
    /\ first_owner \in [Arenas -> Threads \cup {NULL}]
    /\ chunks \in [Arenas -> Seq(Chunk)]
    /\ \A a \in Arenas : \A k \in DOMAIN chunks[a] : HasSlots(chunks[a][k])
    /\ mutex \in [Arenas -> Threads \cup {NULL}]
    /\ heap \in [Serials -> Allocations \cup {NULL}]
    /\ pc \in [Threads -> Pcs]
    /\ cur \in [Threads -> Arenas \cup {NULL}]
    /\ ser \in [Threads -> SerialPtrs \cup {NULL}]
    /\ hd \in [Threads -> Nat]
    /\ slot \in [Threads -> Nat]

(* s is the SerialArena that thread t may use in the current life of a. *)
OwnSerial(t, a, s) ==
    \/ s = a /\ first_owner[a] = t
    \/ s \in Serials /\ heap[s] = [arena |-> a, id |-> tag[a], owner |-> t]

(* GetSerialArenaFast compares only lifecycle ids.  Whatever arenas were    *)
(* reset, destroyed or constructed at the same address since, a hit means   *)
(* that the cached pointer is the caller's own SerialArena of this arena    *)
(* in its current life, not freed.                                          *)
CacheCoherent ==
    \A t \in Threads, a \in live : CacheHit(t, a) => OwnSerial(t, a, tc[t].last)

(* SerialArena "must be properly serialized by the caller": no two threads  *)
(* allocate from the same one, and each allocates from its own.             *)
SerialExclusive ==
    /\ \A t \in Threads : pc[t] = "alloc" => OwnSerial(t, cur[t], ser[t])
    /\ \A t, u \in Threads :
        pc[t] = "alloc" /\ pc[u] = "alloc" /\ ser[t] = ser[u] => t = u

Filled(a) == {e \in Entries(a) : ArenaAt(a, e) # NULL}

(* Every SerialArena is reachable from the chunk list of its live arena, or *)
(* in the hands of the thread inserting it: CleanupList and Free miss none, *)
(* so nothing is leaked and every registered destructor will run.           *)
NoSerialLost ==
    \A s \in Serials : heap[s] # NULL =>
        LET a == heap[s].arena
        IN  /\ a \in live
            /\ heap[s].id = tag[a]
            /\ \/ \E e \in Filled(a) : ArenaAt(a, e) = s
               \/ \E t \in Threads : cur[t] = a /\ pc[t] \in Adding /\ ser[t] = s

(* Racing inserts never give a thread two entries, nor list a SerialArena   *)
(* twice, which Free would free twice.                                      *)
OneEntryEach ==
    \A a \in live : \A e, f \in Entries(a) :
        \/ e = f
        \/ /\ IdAt(a, e) = NULL \/ IdAt(a, e) # IdAt(a, f)
           /\ ArenaAt(a, e) = NULL \/ ArenaAt(a, e) # ArenaAt(a, f)

NoHoles(a) == Quiescent(a) => Filled(a) = Entries(a)

OnlyHeadHasRoom(a) ==
    \A k \in 1 .. Len(chunks[a]) - 1 : chunks[a][k].size >= chunks[a][k].capacity

SizeNearCapacity(a) ==
    \A k \in DOMAIN chunks[a] :
        chunks[a][k].size <= chunks[a][k].capacity
            + Cardinality({t \in Threads : cur[t] = a /\ pc[t] = "full" /\ hd[t] = k})

(* ABSL_DCHECK_NE(serial, nullptr) of CleanupList and Free: once no thread  *)
(* is inside the arena, the entries up to size are all filled.  A chunk     *)
(* behind the head is full: destruction, newest chunk first and each chunk  *)
(* backwards, is then the reverse of the order of registration.  "Write old *)
(* value back to avoid potential overflow": however many threads fail to    *)
(* insert, size exceeds capacity by at most those failing now.              *)
ChunkListSound ==
    \A a \in live : NoHoles(a) /\ OnlyHeadHasRoom(a) /\ SizeNearCapacity(a)

(* An entry, once written, is only dropped by Reset or Destroy: no insert   *)
(* overwrites another's slot and no chunk is unlinked by a racing one.      *)
EntriesStable ==
    [][\A a \in Arenas : a \in live \cap live' /\ tag'[a] = tag[a] =>
        \A e \in Filled(a) : e \in Filled(a)' /\ ArenaAt(a, e)' = ArenaAt(a, e)]_vars

(* Every call for a SerialArena returns, contention for mutex_ and failed   *)
(* inserts notwithstanding.                                                 *)
CallsReturn == \A t \in Threads : (cur[t] # NULL) ~> (cur[t] = NULL)

-----------------------------------------------------------------------------
(* Refinement *)

(* The SerialArena of thread t that the arena knows: registration takes     *)
(* effect when its entry is filled.                                         *)
Registered(a, t) ==
    LET mine == {e \in Filled(a) : IdAt(a, e) = t}
    IN  IF a \notin live THEN NULL
        ELSE IF first_owner[a] = t THEN a
        ELSE IF mine = {} THEN NULL
        ELSE ArenaAt(a, CHOOSE e \in mine : TRUE)

(* NULL, for a thread that allocates from none, is no SerialArena in use.   *)
ASSUME NullAssumption == NULL \notin Arenas \X SerialPtrs

Registry == INSTANCE SerialRegistry WITH
    reg   <- [a \in Arenas |-> [t \in Threads |-> Registered(a, t)]],
    using <- [t \in Threads |-> IF pc[t] = "alloc" THEN <<cur[t], ser[t]>> ELSE NULL]

(* The arena, with its caches, ids and chunks, implements the registry: two *)
(* calls of a thread in one life of an arena get the same SerialArena, and  *)
(* no other thread ever gets it.                                            *)
ImplementsRegistry == Registry!Spec
=============================================================================
