---------------------------- MODULE MapFieldSync ----------------------------
(***************************************************************************)
(* MapFieldBase (map_field.h, map_field.cc, map.h): a map field has two    *)
(* representations, a hash map and, once reflection asked for it, a        *)
(* RepeatedPtrField of entries in a ReflectionPayload.  The payload's      *)
(* state_ says which of them is stale; const accessors, which threads may  *)
(* call concurrently, bring the one they need up to date under mutex_.     *)
(* Two fields, each in a message of its own, can be merged and swapped,    *)
(* on one arena or across arenas.                                          *)
(*                                                                         *)
(* A const call is one action per access to what threads share.  Mutators  *)
(* are called while no other thread uses the message, as its interface     *)
(* demands, and are one action each; the source of a merge is const, and   *)
(* the merge part of a call of its GetMap.                                 *)
(***************************************************************************)
EXTENDS Integers, Sequences, FiniteSets, SequencesExt

CONSTANTS
    Fields,    \* map fields of one type, each in a message of its own
    Arenas,    \* arenas their messages may be on
    Readable,  \* the fields that const accessors are called on
    Threads,   \* threads that call const accessors
    Keys, Values, NULL,
    Pairs,     \* bound: the keys and values that mutators put
    Payloads,  \* addresses of ReflectionPayload objects
    MaxRep     \* bound: entries of a repeated field

ASSUME ConstantsAssumption ==
    /\ NULL \notin Fields \cup Arenas \cup Threads \cup Payloads
    /\ Readable \subseteq Fields /\ Pairs \subseteq Keys \X Values /\ MaxRep \in Nat

VARIABLES
    arena,     \* arena[f]: the arena of the message of f, NULL: on the heap
    map,       \* map[f]: the hash map, a function
    payload,   \* payload[f]: prototype_or_payload_, NULL for the prototype
    heap,      \* heap[p]: the payload at p, or NULL
    pc,        \* control state of each thread
    cur,       \* cur[t]: the field that the call of thread t is about
    mine,      \* mine[t]: the payload that thread t made or found
    todo       \* todo[t]: entries that the sync of thread t has yet to copy

locals == <<pc, cur, mine, todo>>
vars == <<arena, map, payload, heap, locals>>

-----------------------------------------------------------------------------
Maps == UNION {[K -> Values] : K \in SUBSET Keys}

With(m, k, v) == [j \in DOMAIN m \cup {k} |-> IF j = k THEN v ELSE m[j]]

Without(m, k) == [j \in DOMAIN m \ {k} |-> m[j]]

Entry(k, v) == [key |-> k, value |-> v]

(* The entries of a map, in the order of its iteration *)
EntriesOf(m) == SetToSeq({Entry(k, m[k]) : k \in DOMAIN m})

(* The map that a list of entries stands for: the last entry of a key counts *)
MapOf(rep) ==
    [k \in {rep[i].key : i \in DOMAIN rep} |->
        rep[CHOOSE i \in DOMAIN rep :
                rep[i].key = k /\ \A j \in i + 1 .. Len(rep) : rep[j].key # k].value]

(* A free address: only equality tells addresses apart, so any one will do *)
Free == {p \in Payloads : heap[p] = NULL}
NewAddress == CHOOSE p \in Free : TRUE

FreshPayload == [rep |-> <<>>, state |-> "MODIFIED_MAP", mutex |-> NULL]

(* state(): without a payload it is assumed that the map was modified *)
State(f) == IF payload[f] = NULL THEN "MODIFIED_MAP" ELSE heap[payload[f]].state

Init ==
    /\ arena \in [Fields -> Arenas \cup {NULL}]
    /\ map = [f \in Fields |-> <<>>]
    /\ payload = [f \in Fields |-> NULL]
    /\ heap = [p \in Payloads |-> NULL]
    /\ pc = [t \in Threads |-> "idle"]
    /\ cur = [t \in Threads |-> NULL]
    /\ mine = [t \in Threads |-> NULL]
    /\ todo = [t \in Threads |-> <<>>]

Goto(t, from, to) == pc[t] = from /\ pc' = [pc EXCEPT ![t] = to]

-----------------------------------------------------------------------------
(* Const accessors *)

Call(t, f) ==
    /\ \E accessor \in {"GetMap", "GetRepeatedField", "FieldSize", "SpaceUsed"} :
            Goto(t, "idle", accessor)
    /\ cur' = [cur EXCEPT ![t] = f]
    /\ UNCHANGED <<arena, map, payload, heap, mine, todo>>

(* Reflection::FieldSize: IsRepeatedFieldValid, then the one or the other *)
FieldSize(t) ==
    /\ Goto(t, "FieldSize",
            IF State(cur[t]) # "MODIFIED_MAP" THEN "GetRepeatedField" ELSE "GetMap")
    /\ UNCHANGED <<arena, map, payload, heap, cur, mine, todo>>

(* GetMap: without a payload there is nothing to sync *)
GetMap(t) ==
    /\ Goto(t, "GetMap", IF payload[cur[t]] = NULL THEN "read_map" ELSE "sync_map")
    /\ UNCHANGED <<arena, map, payload, heap, cur, mine, todo>>

(* SyncMapWithRepeatedField, up to the lock *)
SyncMapWithRepeatedField(t) ==
    /\ Goto(t, "sync_map",
            IF State(cur[t]) = "MODIFIED_REPEATED" THEN "lock_map" ELSE "read_map")
    /\ mine' = [mine EXCEPT ![t] = payload[cur[t]]]
    /\ UNCHANGED <<arena, map, payload, heap, cur, todo>>

(* SyncRepeatedFieldWithMap(false), up to the lock *)
SyncRepeatedFieldWithMap(t) ==
    /\ Goto(t, "GetRepeatedField",
            IF State(cur[t]) = "MODIFIED_MAP" THEN "payload" ELSE "read_rep")
    /\ mine' = [mine EXCEPT ![t] = payload[cur[t]]]
    /\ UNCHANGED <<arena, map, payload, heap, cur, todo>>

(* "If we have no payload, and the map is empty, then do nothing" *)
ReturnDefault(t) ==
    /\ Goto(t, "payload", "read_default")
    /\ payload[cur[t]] = NULL /\ DOMAIN map[cur[t]] = {}
    /\ UNCHANGED <<arena, map, payload, heap, cur, mine, todo>>

HavePayload(t) ==
    /\ Goto(t, "payload", "lock_rep")
    /\ payload[cur[t]] # NULL
    /\ mine' = [mine EXCEPT ![t] = payload[cur[t]]]
    /\ UNCHANGED <<arena, map, payload, heap, cur, todo>>

(* PayloadSlow, up to the compare-and-exchange *)
MakePayload(t) ==
    /\ Goto(t, "payload", "publish")
    /\ payload[cur[t]] = NULL /\ DOMAIN map[cur[t]] # {}
    /\ Free # {}
    /\ heap' = [heap EXCEPT ![NewAddress] = FreshPayload]
    /\ mine' = [mine EXCEPT ![t] = NewAddress]
    /\ UNCHANGED <<arena, map, payload, cur, todo>>

(* "Someone beat us to it. Throw away the one we made": on an arena it stays.  *)
(* Faults: it always stays; the winner's is thrown away.                      *)
Discarded_Not(t, winner) == heap
Discarded_Winner(t, winner) ==
    IF winner # mine[t] /\ arena[cur[t]] = NULL THEN [heap EXCEPT ![winner] = NULL]
    ELSE heap

Discarded(t, winner) ==
    IF winner # mine[t] /\ arena[cur[t]] = NULL THEN [heap EXCEPT ![mine[t]] = NULL]
    ELSE heap

PublishPayload(t) ==
    LET f == cur[t]
        winner == IF payload[f] = NULL THEN mine[t] ELSE payload[f]
    IN  /\ Goto(t, "publish", "lock_rep")
        /\ payload' = [payload EXCEPT ![f] = winner]
        /\ mine' = [mine EXCEPT ![t] = winner]
        /\ heap' = Discarded(t, winner)
        /\ UNCHANGED <<arena, map, cur, todo>>

Acquires(t, at) == pc[t] = at /\ heap[mine[t]].mutex = NULL
Locked(t, p) == [p EXCEPT !.mutex = t]

(* Fault: the state is not checked again under the lock *)
StillStale_Unchecked(t, state) == TRUE

StillStale(t, state) == heap[mine[t]].state = state

(* SyncMapWithRepeatedFieldNoLock begins with ClearMapNoSync *)
LockToSyncMap(t) ==
    /\ Acquires(t, "lock_map")
    /\ IF StillStale(t, "MODIFIED_REPEATED")
       THEN /\ Goto(t, "lock_map", "fill_map")
            /\ map' = [map EXCEPT ![cur[t]] = <<>>]
            /\ todo' = [todo EXCEPT ![t] = heap[mine[t]].rep]
       ELSE Goto(t, "lock_map", "unlock_map") /\ UNCHANGED <<map, todo>>
    /\ heap' = [heap EXCEPT ![mine[t]] = Locked(t, @)]
    /\ UNCHANGED <<arena, payload, cur, mine>>

(* Fault: the iterator of the repeated field is not advanced *)
FillMap_SameEntry(t) ==
    /\ todo[t] # <<>>
    /\ Goto(t, "fill_map", "fill_map")
    /\ map' = [map EXCEPT ![cur[t]] = With(@, Head(todo[t]).key, Head(todo[t]).value)]
    /\ UNCHANGED <<arena, payload, heap, cur, mine, todo>>

FillMap(t) ==
    /\ todo[t] # <<>>
    /\ Goto(t, "fill_map", "fill_map")
    /\ map' = [map EXCEPT ![cur[t]] = With(@, Head(todo[t]).key, Head(todo[t]).value)]
    /\ todo' = [todo EXCEPT ![t] = Tail(@)]
    /\ UNCHANGED <<arena, payload, heap, cur, mine>>

(* SyncRepeatedFieldWithMapNoLock begins with Clear *)
LockToSyncRep(t) ==
    /\ Acquires(t, "lock_rep")
    /\ IF StillStale(t, "MODIFIED_MAP")
       THEN /\ Goto(t, "lock_rep", "fill_rep")
            /\ todo' = [todo EXCEPT ![t] = EntriesOf(map[cur[t]])]
            /\ heap' = [heap EXCEPT ![mine[t]] = [Locked(t, @) EXCEPT !.rep = <<>>]]
       ELSE /\ Goto(t, "lock_rep", "unlock_rep")
            /\ heap' = [heap EXCEPT ![mine[t]] = Locked(t, @)]
            /\ UNCHANGED todo
    /\ UNCHANGED <<arena, map, payload, cur, mine>>

FillRep(t) ==
    /\ todo[t] # <<>>
    /\ Goto(t, "fill_rep", "fill_rep")
    /\ heap' = [heap EXCEPT ![mine[t]].rep = Append(@, Head(todo[t]))]
    /\ todo' = [todo EXCEPT ![t] = Tail(@)]
    /\ UNCHANGED <<arena, map, payload, cur, mine>>

(* Fault: the field is called clean before all entries are copied *)
Synced_Early(t) == Len(todo[t]) <= 1

Synced(t) == todo[t] = <<>>

SetClean(t) ==
    /\ \/ Synced(t) /\ Goto(t, "fill_map", "unlock_map")
       \/ Synced(t) /\ Goto(t, "fill_rep", "unlock_rep")
    /\ heap' = [heap EXCEPT ![mine[t]].state = "CLEAN"]
    /\ UNCHANGED <<arena, map, payload, cur, mine, todo>>

Released(p) == [p EXCEPT !.mutex = NULL]

Unlock(t) ==
    /\ Goto(t, "unlock_map", "read_map") \/ Goto(t, "unlock_rep", "read_rep")
    /\ heap' = [heap EXCEPT ![mine[t]] = Released(@)]
    /\ UNCHANGED <<arena, map, payload, cur, mine, todo>>

(* SpaceUsedExcludingSelfLong: the map alone, or both under the lock *)
SpaceUsed(t) ==
    /\ Goto(t, "SpaceUsed",
            IF payload[cur[t]] = NULL THEN "measure_map" ELSE "lock_to_measure")
    /\ mine' = [mine EXCEPT ![t] = payload[cur[t]]]
    /\ UNCHANGED <<arena, map, payload, heap, cur, todo>>

LockToMeasure(t) ==
    /\ Acquires(t, "lock_to_measure")
    /\ Goto(t, "lock_to_measure", "measure_both")
    /\ heap' = [heap EXCEPT ![mine[t]] = Locked(t, @)]
    /\ UNCHANGED <<arena, map, payload, cur, mine, todo>>

Leave(t) == cur' = [cur EXCEPT ![t] = NULL] /\ mine' = [mine EXCEPT ![t] = NULL]

Measured(t) ==
    /\ Goto(t, "measure_both", "idle")
    /\ heap' = [heap EXCEPT ![mine[t]] = Released(@)]
    /\ Leave(t)
    /\ UNCHANGED <<arena, map, payload, todo>>

(* The caller has looked long enough at what it was given *)
Return(t) ==
    /\ \E at \in {"read_map", "read_rep", "read_default", "measure_map"} : Goto(t, at, "idle")
    /\ Leave(t)
    /\ UNCHANGED <<arena, map, payload, heap, todo>>

-----------------------------------------------------------------------------
(* Mutators: nobody else uses the field *)

Exclusive(f) == \A t \in Threads : cur[t] # f

(* What SyncMapWithRepeatedField leaves in the map of f and in its payload *)
SyncedMap(f) == IF State(f) = "MODIFIED_REPEATED" THEN MapOf(heap[payload[f]].rep) ELSE map[f]

(* SetMapDirty: without a payload the state is implied *)
MapDirty(f) ==
    IF payload[f] = NULL THEN heap
    ELSE [heap EXCEPT ![payload[f]].state = "MODIFIED_MAP"]

(* MutableMap, InsertOrLookupMapValue *)
Put(f, k, v) ==
    /\ Exclusive(f)
    /\ map' = [map EXCEPT ![f] = With(SyncedMap(f), k, v)]
    /\ heap' = MapDirty(f)
    /\ UNCHANGED <<arena, payload, locals>>

(* DeleteMapValue *)
Erase(f, k) ==
    /\ Exclusive(f)
    /\ map' = [map EXCEPT ![f] = Without(SyncedMap(f), k)]
    /\ heap' = MapDirty(f)
    /\ UNCHANGED <<arena, payload, locals>>

(* payload() of f: the one there is, or a fresh one that PayloadSlow publishes *)
HasPayload(f) == payload[f] # NULL \/ Free # {}
PayloadOf(f) == IF payload[f] = NULL THEN NewAddress ELSE payload[f]

(* MutableRepeatedField, and an entry added through it *)
AddEntry(f, k, v) ==
    /\ Exclusive(f)
    /\ HasPayload(f)
    /\ LET p == PayloadOf(f)
           rep == IF State(f) = "MODIFIED_MAP" THEN EntriesOf(map[f]) ELSE heap[p].rep
       IN  /\ Len(rep) < MaxRep
           /\ heap' = [heap EXCEPT ![p] =
                          [rep |-> Append(rep, Entry(k, v)),
                           state |-> "MODIFIED_REPEATED", mutex |-> NULL]]
           /\ payload' = [payload EXCEPT ![f] = p]
    /\ UNCHANGED <<arena, map, locals>>

(* "we can't set status CLEAN" *)
Clear(f) ==
    /\ Exclusive(f)
    /\ map' = [map EXCEPT ![f] = <<>>]
    /\ heap' = IF payload[f] = NULL THEN heap
               ELSE [MapDirty(f) EXCEPT ![payload[f]].rep = <<>>]
    /\ UNCHANGED <<arena, payload, locals>>

Merged(m, n) == [k \in DOMAIN m \cup DOMAIN n |-> IF k \in DOMAIN n THEN n[k] ELSE m[k]]

(* MergeFrom: MutableMap of f, and what thread t got from GetMap of another   *)
(* field.  That one is const: other threads may read it, and sync it, too.   *)
MergeFrom(t, f) ==
    /\ pc[t] = "read_map" /\ Exclusive(f)
    /\ map' = [map EXCEPT ![f] = Merged(SyncedMap(f), map[cur[t]])]
    /\ heap' = MapDirty(f)
    /\ UNCHANGED <<arena, payload, locals>>

Transposed(f, g, x) == [x EXCEPT ![f] = x[g], ![g] = x[f]]

(* SwapPayload on one arena, or on none: the pointers change places *)
SwapPointers(f, g) ==
    /\ arena[f] = arena[g]
    /\ payload' = Transposed(f, g, payload)
    /\ UNCHANGED heap

(* Fault: a field that has no payload makes none *)
SwapPayloads_Missing(f, g) ==
    /\ arena[f] # arena[g]
    /\ IF payload[f] = NULL \/ payload[g] = NULL THEN UNCHANGED heap
       ELSE heap' = Transposed(payload[f], payload[g], heap)
    /\ UNCHANGED payload

(* SwapPayload across arenas: the payloads stay and swap what they hold, and  *)
(* a field that has none makes one, when the other has                        *)
SwapPayloads(f, g) ==
    /\ arena[f] # arena[g]
    /\ IF payload[f] = NULL /\ payload[g] = NULL THEN UNCHANGED <<payload, heap>>
       ELSE /\ HasPayload(f) /\ HasPayload(g)
            /\ LET p == PayloadOf(f)
                   q == PayloadOf(g)
                   held(r) == IF heap[r] = NULL THEN FreshPayload ELSE heap[r]
               IN  /\ payload' = [payload EXCEPT ![f] = p, ![g] = q]
                   /\ heap' = [heap EXCEPT ![p] = held(q), ![q] = held(p)]

(* Swap, InternalSwap, UntypedSwap: the maps are swapped without a sync *)
Swap(f, g) ==
    /\ f # g /\ Exclusive(f) /\ Exclusive(g)
    /\ map' = Transposed(f, g, map)
    /\ SwapPointers(f, g) \/ SwapPayloads(f, g)
    /\ UNCHANGED <<arena, locals>>

Step(t) ==
    \/ FieldSize(t) \/ GetMap(t) \/ SyncMapWithRepeatedField(t)
    \/ SyncRepeatedFieldWithMap(t) \/ ReturnDefault(t) \/ HavePayload(t)
    \/ MakePayload(t) \/ PublishPayload(t)
    \/ LockToSyncMap(t) \/ FillMap(t) \/ LockToSyncRep(t) \/ FillRep(t)
    \/ SetClean(t) \/ Unlock(t)
    \/ SpaceUsed(t) \/ LockToMeasure(t) \/ Measured(t) \/ Return(t)

Mutate(f) ==
    \/ \E p \in Pairs : Put(f, p[1], p[2]) \/ AddEntry(f, p[1], p[2])
    \/ \E k \in Keys : Erase(f, k)
    \/ Clear(f)
    \/ \E g \in Fields : Swap(f, g)

Next ==
    \/ \E f \in Fields : Mutate(f)
    \/ \E t \in Threads : Step(t) \/ \E f \in Readable : Call(t, f)
    \/ \E t \in Threads, f \in Fields : MergeFrom(t, f)

Spec == Init /\ [][Next]_vars

FairSpec == Spec /\ \A t \in Threads : WF_vars(Step(t))

-----------------------------------------------------------------------------
(* Properties *)

PayloadType ==
    [rep : Seq([key : Keys, value : Values]),
     state : {"MODIFIED_MAP", "MODIFIED_REPEATED", "CLEAN"},
     mutex : Threads \cup {NULL}]

ASSUME NullAssumption == NULL \notin PayloadType /\ NULL \notin Fields \X Maps

TypeOK ==
    /\ arena \in [Fields -> Arenas \cup {NULL}]
    /\ map \in [Fields -> Maps]
    /\ payload \in [Fields -> Payloads \cup {NULL}]
    /\ \A f \in Fields : payload[f] # NULL => heap[payload[f]] # NULL
    /\ heap \in [Payloads -> PayloadType \cup {NULL}]
    /\ cur \in [Threads -> Fields \cup {NULL}]
    /\ \A t \in Threads : (pc[t] = "idle") = (cur[t] = NULL)
    /\ mine \in [Threads -> Payloads \cup {NULL}]

ReadsMap(t) == pc[t] \in {"read_map", "measure_map", "measure_both", "fill_rep"}
ReadsRep(t) == pc[t] \in {"read_rep", "measure_both", "fill_map"}

(* Nobody uses a representation that another thread is rewriting: neither    *)
(* the caller of a const accessor, who holds no lock while it looks at the   *)
(* result, nor SpaceUsedExcludingSelfLong, which reads the map without the   *)
(* lock when there is no payload, nor a second thread that syncs.            *)
NoDataRace ==
    \A t, u \in Threads : t # u /\ cur[t] = cur[u] =>
        /\ pc[t] = "fill_map" => ~ReadsMap(u) /\ pc[u] # "fill_map"
        /\ pc[t] = "fill_rep" => ~ReadsRep(u) /\ pc[u] # "fill_rep"

(* A field has one payload in the end: of several that threads made at once, *)
(* the others are deleted, unless an arena owns them, and no thread works    *)
(* on one of those.  Whatever was swapped, no two fields share a payload,    *)
(* which the destructors of both would delete.                               *)
OnePayload ==
    /\ \A p \in Payloads : heap[p] # NULL =>
        \/ \E f \in Fields : payload[f] = p
        \/ \E t \in Threads : pc[t] = "publish" /\ mine[t] = p
        \/ \E f \in Fields : arena[f] # NULL
    /\ \A f, g \in Fields : payload[f] # NULL /\ payload[f] = payload[g] => f = g
    /\ \A t \in Threads :
          mine[t] # NULL => heap[mine[t]] # NULL /\ (pc[t] # "publish" => mine[t] = payload[cur[t]])

(* "CLEAN = 2, // data in map and repeated field are same": the same map, for *)
(* the repeated field may still have several entries with one key            *)
CleanAgrees ==
    \A f \in Fields : State(f) = "CLEAN" => map[f] = MapOf(heap[payload[f]].rep)

(* When no more calls begin, every call has returned: no path keeps mutex_,  *)
(* and none locks it twice.                                                  *)
AllReturn ==
    []<><<\E t \in Threads, f \in Readable : Call(t, f)>>_vars
        \/ <>[](\A f \in Fields : Exclusive(f))

Value == INSTANCE MapValue WITH
    value <- [f \in Fields |-> SyncedMap(f)],
    shown <- [t \in Threads |->
                CASE pc[t] = "read_map" -> <<cur[t], map[cur[t]]>>
                  [] pc[t] = "read_rep" -> <<cur[t], MapOf(heap[mine[t]].rep)>>
                  [] pc[t] = "read_default" -> <<cur[t], <<>>>>
                  [] OTHER -> NULL]

(* The fields implement MapValue: what a const accessor returned is the      *)
(* value of its field, and stays so while the caller looks at it, whatever   *)
(* other const calls do; a swap, across arenas or not, exchanges two values. *)
ImplementsMapValue == Value!Spec
=============================================================================
