------------------------- MODULE MCThreadSafeArena -------------------------
(***************************************************************************)
(* Instances of ThreadSafeArena for TLC.                                   *)
(***************************************************************************)
EXTENDS ThreadSafeArena, TLC

Symmetry ==
    Permutations(Threads) \cup Permutations(Serials) \cup Permutations(Arenas)

(* A race in two lives of an arena: one thread constructs and resets it, and *)
(* all threads call for their SerialArenas.                                 *)
Maker == CHOOSE t \in Threads : TRUE

RaceNext ==
    \/ \E a \in Arenas : (live = {} /\ Construct(Maker, a)) \/ Reset(Maker, a)
    \/ \E t \in Threads : Step(t) \/ \E a \in Arenas : Call(t, a)

RaceSpec == Init /\ [][RaceNext]_vars /\ Fairness
=============================================================================
