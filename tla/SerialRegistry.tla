--------------------------- MODULE SerialRegistry ---------------------------
(***************************************************************************)
(* What ThreadSafeArena promises, without caches, ids, chunks or locks: in *)
(* each life of an arena a thread gets one SerialArena, its own, on every  *)
(* call, and the thread that constructed or reset the arena gets the one   *)
(* embedded in it.                                                         *)
(***************************************************************************)
CONSTANTS Threads, Arenas, Serials, NULL

VARIABLES
    live,   \* the arenas in use
    reg,    \* reg[a][t]: the SerialArena of thread t in this life of a
    using   \* using[t]: <<a, s>> while t allocates from s of arena a, or NULL

vars == <<live, reg, using>>

InUse(a) == \E t \in Threads : using[t] # NULL /\ using[t][1] = a

Unregistered(s) == \A a \in Arenas, t \in Threads : reg[a][t] # s

FirstOwner(a, t) == [u \in Threads |-> IF u = t THEN a ELSE NULL]

Init ==
    /\ live = {}
    /\ reg = [a \in Arenas |-> [t \in Threads |-> NULL]]
    /\ using = [t \in Threads |-> NULL]

Construct(t, a) ==
    /\ a \notin live
    /\ live' = live \cup {a}
    /\ reg' = [reg EXCEPT ![a] = FirstOwner(a, t)]
    /\ UNCHANGED using

Reset(t, a) ==
    /\ a \in live /\ ~InUse(a)
    /\ reg' = [reg EXCEPT ![a] = FirstOwner(a, t)]
    /\ UNCHANGED <<live, using>>

Destroy(a) ==
    /\ a \in live /\ ~InUse(a)
    /\ live' = live \ {a}
    /\ reg' = [reg EXCEPT ![a] = [t \in Threads |-> NULL]]
    /\ UNCHANGED using

Acquire(t, a, s) ==
    /\ a \in live /\ using[t] = NULL
    /\ \/ reg[a][t] = s
       \/ reg[a][t] = NULL /\ s \in Serials /\ Unregistered(s)
    /\ reg' = [reg EXCEPT ![a][t] = s]
    /\ using' = [using EXCEPT ![t] = <<a, s>>]
    /\ UNCHANGED live

Release(t) ==
    /\ using[t] # NULL
    /\ using' = [using EXCEPT ![t] = NULL]
    /\ UNCHANGED <<live, reg>>

Next ==
    \E t \in Threads :
        \/ Release(t)
        \/ \E a \in Arenas :
            \/ Construct(t, a) \/ Reset(t, a) \/ Destroy(a)
            \/ \E s \in Arenas \cup Serials : Acquire(t, a, s)

Spec == Init /\ [][Next]_vars
=============================================================================
