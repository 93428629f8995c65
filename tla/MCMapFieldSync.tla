--------------------------- MODULE MCMapFieldSync ---------------------------
(***************************************************************************)
(* MapFieldSync for TLC.                                                   *)
(***************************************************************************)
EXTENDS MapFieldSync, TLC

CONSTANTS k1, k2, v1, v2

(* One key has two values, so that a later entry can override an earlier one *)
MCPairs == {<<k1, v1>>, <<k1, v2>>, <<k2, v1>>}

Untouched(f) == map[f] = <<>> /\ payload[f] = NULL

Idle == \A t \in Threads : pc[t] = "idle"

Merger == CHOOSE t \in Threads : TRUE

(* A reduction: const accessors use one field, and what they do to it does  *)
(* not depend on the others.  Calls begin while the others are as made, and *)
(* merge into them while other calls go on.  A thread that is alone calls   *)
(* GetMap, and merges, whatever the others hold, on arenas no differently.  *)
CallsStart(t, f) ==
    /\ Call(t, f)
    /\ \/ \A g \in Fields \ Readable : Untouched(g)
       \/ Idle /\ pc'[Merger] = "GetMap" /\ \A g \in Fields : arena[g] = NULL

MCNext ==
    \/ Idle /\ \E f \in Fields : Mutate(f)
    \/ \E t \in Threads : Step(t) \/ \E f \in Readable : CallsStart(t, f)
    \/ \E t \in Threads, f \in Fields : MergeFrom(t, f)

MCSpec == Init /\ [][MCNext]_vars /\ \A t \in Threads : WF_vars(Step(t))
=============================================================================
