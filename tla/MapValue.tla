------------------------------ MODULE MapValue ------------------------------
(***************************************************************************)
(* What map fields promise, without representations: each has a value, a   *)
(* map, that mutators change while nobody reads it, and every const        *)
(* accessor shows that value for as long as the caller looks at it.        *)
(***************************************************************************)
CONSTANTS Fields, Threads, Keys, Values, NULL

VARIABLES
    value,   \* value[f]: the map
    shown    \* shown[t]: the field that thread t looks at and its map, or NULL

vars == <<value, shown>>

Maps == UNION {[K -> Values] : K \in SUBSET Keys}

With(m, k, v) == [j \in DOMAIN m \cup {k} |-> IF j = k THEN v ELSE m[j]]

Without(m, k) == [j \in DOMAIN m \ {k} |-> m[j]]

Init == value \in [Fields -> Maps] /\ shown = [t \in Threads |-> NULL]

Nobody(f) == \A t \in Threads : shown[t] # NULL => shown[t][1] # f

Becomes(f, m) == Nobody(f) /\ value' = [value EXCEPT ![f] = m] /\ UNCHANGED shown

Put(f, k, v) == Becomes(f, With(value[f], k, v))

Erase(f, k) == Becomes(f, Without(value[f], k))

Clear(f) == Becomes(f, <<>>)

MergeFrom(f, g) ==
    Becomes(f, [k \in DOMAIN value[f] \cup DOMAIN value[g] |->
                   IF k \in DOMAIN value[g] THEN value[g][k] ELSE value[f][k]])

Swap(f, g) ==
    /\ Nobody(f) /\ Nobody(g)
    /\ value' = [value EXCEPT ![f] = value[g], ![g] = value[f]]
    /\ UNCHANGED shown

Show(t, f) ==
    shown[t] = NULL /\ shown' = [shown EXCEPT ![t] = <<f, value[f]>>] /\ UNCHANGED value

Hide(t) == shown[t] # NULL /\ shown' = [shown EXCEPT ![t] = NULL] /\ UNCHANGED value

Next ==
    \/ \E f \in Fields :
        \/ \E k \in Keys : Erase(f, k) \/ \E v \in Values : Put(f, k, v)
        \/ Clear(f)
        \/ \E g \in Fields : MergeFrom(f, g) \/ Swap(f, g)
    \/ \E t \in Threads : Hide(t) \/ \E f \in Fields : Show(t, f)

Spec == Init /\ [][Next]_vars
=============================================================================
