------------------------- MODULE MapFieldSyncProofs -------------------------
(***************************************************************************)
(* Proofs about MapFieldSync, for any fields, arenas, threads, keys,       *)
(* values and lengths: that const accessors never race, that a field has   *)
(* one payload, that CLEAN means equal, and that the fields implement      *)
(* MapValue.                                                               *)
(*                                                                         *)
(* First come the lists of entries and the maps they stand for; then the   *)
(* invariant, with a lemma for each of the three kinds of step: of a       *)
(* thread that only looks, of one that works on a payload under its        *)
(* mutex_, and of a mutator; then the actions one by one, each with what   *)
(* it does to the meaning of the fields; then the refinement.              *)
(***************************************************************************)
EXTENDS MapFieldSync, FiniteSetTheorems, FunctionTheorems, SequenceTheorems,
        WellFoundedInduction, TLAPS

(* An entry of the repeated field *)
EntryType == [key : Keys, value : Values]

-----------------------------------------------------------------------------
(* The order of the natural numbers as a relation, whose well-foundedness    *)
(* stands for induction on the length of a list of entries.                  *)
Less == {p \in Nat \X Nat : p[1] < p[2]}

(* Every set of positions in a list has a last one *)
LEMMA HasGreatest ==
    ASSUME NEW S, NEW n \in Nat, S \subseteq 1 .. n, S # {}
    PROVE  \E i \in S : \A j \in S : j <= i
<1>1. IsWellFoundedOn(Less, Nat)
  <2>1. Less = OpToRel(<, Nat)
    BY DEF Less, OpToRel
  <2> QED BY <2>1, NatLessThanWellFounded
<1> DEFINE T == {m \in 0 .. n : n - m \in S}
<1>2. T \subseteq Nat
  OBVIOUS
<1>3. T # {}
  <2>1. PICK i \in S : TRUE
    OBVIOUS
  <2>2. i \in 1 .. n /\ n - (n - i) = i /\ n - i \in 0 .. n
    BY <2>1
  <2> QED BY <2>2
<1>4. PICK x \in T : \A y \in T : ~(<<y, x>> \in Less)
  BY <1>1, <1>2, <1>3, WFMin
<1>5. \A y \in T : x <= y
  <2> SUFFICES ASSUME NEW y \in T, ~(x <= y) PROVE FALSE
    OBVIOUS
  <2>1. x \in Nat /\ y \in Nat /\ y < x
    BY <1>2, <1>4
  <2>2. <<y, x>> \in Less
    BY <2>1 DEF Less
  <2> QED BY <1>4, <2>2
<1>6. n - x \in S
  BY <1>4
<1>7. ASSUME NEW j \in S PROVE j <= n - x
  <2>1. j \in 1 .. n /\ n - (n - j) = j /\ n - j \in 0 .. n
    OBVIOUS
  <2>2. x <= n - j
    BY <1>5, <2>1
  <2> QED BY <1>4, <2>1, <2>2
<1> QED BY <1>6, <1>7

-----------------------------------------------------------------------------
(* The entries of a list and the map that it stands for *)

KeysOf(s) == {s[i].key : i \in DOMAIN s}

(* Entry i is the last of s with key k *)
LastOf(s, k, i) ==
    i \in DOMAIN s /\ s[i].key = k /\ \A j \in i + 1 .. Len(s) : s[j].key # k

(* Every key of a list has a last entry, the one that counts                 *)
LEMMA HasLast ==
    ASSUME NEW s \in Seq(EntryType), NEW k \in KeysOf(s)
    PROVE  \E i \in DOMAIN s : LastOf(s, k, i)
<1> DEFINE S == {i \in DOMAIN s : s[i].key = k}
<1>1. DOMAIN s = 1 .. Len(s) /\ Len(s) \in Nat
  BY LenProperties
<1>2. S \subseteq 1 .. Len(s) /\ S # {}
  BY <1>1 DEF KeysOf
<1>3. PICK i \in S : \A j \in S : j <= i
  BY <1>1, <1>2, HasGreatest
<1>4. \A j \in i + 1 .. Len(s) : s[j].key # k
  BY <1>1, <1>3
<1> QED BY <1>3, <1>4 DEF LastOf

(* ... and only one                                                          *)
LEMMA LastOfUnique ==
    ASSUME NEW s \in Seq(EntryType), NEW k, NEW i, NEW j, LastOf(s, k, i), LastOf(s, k, j)
    PROVE  i = j
BY LenProperties DEF LastOf

(* What MapOf returns, at each key and as a whole *)
LEMMA MapOfAt ==
    ASSUME NEW s \in Seq(EntryType)
    PROVE  /\ DOMAIN MapOf(s) = KeysOf(s)
           /\ \A k \in KeysOf(s) : \A i : LastOf(s, k, i) => MapOf(s)[k] = s[i].value
<1>1. DOMAIN MapOf(s) = KeysOf(s)
  BY DEF MapOf, KeysOf
<1>2. ASSUME NEW k \in KeysOf(s), NEW i, LastOf(s, k, i)
      PROVE  MapOf(s)[k] = s[i].value
  <2> DEFINE c == CHOOSE x \in DOMAIN s :
                     s[x].key = k /\ \A j \in x + 1 .. Len(s) : s[j].key # k
  <2>1. MapOf(s)[k] = s[c].value
    BY DEF MapOf, KeysOf
  <2>2. \E x \in DOMAIN s : s[x].key = k /\ \A j \in x + 1 .. Len(s) : s[j].key # k
    BY <1>2 DEF LastOf
  <2>3. LastOf(s, k, c)
    BY <2>2 DEF LastOf
  <2> QED BY <1>2, <2>1, <2>3, LastOfUnique
<1> QED BY <1>1, <1>2

(* A repeated field of entries stands for a finite map                       *)
LEMMA MapOfType ==
    ASSUME NEW s \in Seq(EntryType)
    PROVE  MapOf(s) \in Maps /\ IsFiniteSet(DOMAIN MapOf(s))
<1>1. DOMAIN s = 1 .. Len(s) /\ Len(s) \in Nat /\ \A i \in 1 .. Len(s) : s[i] \in EntryType
  BY LenProperties, ElementOfSeq
<1>2. KeysOf(s) \subseteq Keys
  BY <1>1 DEF KeysOf, EntryType
<1>3. ASSUME NEW k \in KeysOf(s) PROVE MapOf(s)[k] \in Values
  <2>1. PICK i \in DOMAIN s : LastOf(s, k, i)
    BY HasLast
  <2>2. MapOf(s)[k] = s[i].value BY <2>1, MapOfAt
  <2>3. s[i] \in EntryType BY <1>1, <2>1
  <2> QED BY <2>2, <2>3 DEF EntryType
<1>4. MapOf(s) \in [KeysOf(s) -> Values]
  <2>1. MapOf(s) = [k \in KeysOf(s) |-> MapOf(s)[k]]
    BY DEF MapOf, KeysOf
  <2> QED BY <1>3, <2>1
<1>5. IsFiniteSet(KeysOf(s))
  <2> DEFINE g == [i \in DOMAIN s |-> s[i].key]
  <2>1. g \in Surjection(DOMAIN s, KeysOf(s))
    BY Fun_IsSurj DEF KeysOf
  <2>2. IsFiniteSet(DOMAIN s)
    BY <1>1, FS_Interval
  <2> QED BY <2>1, <2>2, FS_Surjection
<1> QED BY <1>2, <1>4, <1>5, MapOfAt DEF Maps

(* Two maps with the same keys and values are one                            *)
LEMMA MapExt ==
    ASSUME NEW m \in Maps, NEW n \in Maps, DOMAIN m = DOMAIN n,
           \A k \in DOMAIN m : m[k] = n[k]
    PROVE  m = n
<1>1. PICK K \in SUBSET Keys : m \in [K -> Values]
  BY DEF Maps
<1>2. PICK L \in SUBSET Keys : n \in [L -> Values]
  BY DEF Maps
<1>3. K = DOMAIN m /\ L = DOMAIN n /\ K = L
  BY <1>1, <1>2
<1>4. m = [k \in K |-> m[k]] /\ n = [k \in K |-> n[k]]
  BY <1>1, <1>2, <1>3
<1>5. [k \in K |-> m[k]] = [k \in K |-> n[k]]
  BY <1>3
<1> QED BY <1>4, <1>5

(* The empty map, which Clear and a fresh field have                         *)
LEMMA EmptyMap ==
    /\ <<>> \in Maps /\ DOMAIN <<>> = {} /\ IsFiniteSet({})
    /\ \A m \in Maps : DOMAIN m = {} => m = <<>>
<1>1. <<>> \in [{} -> Values] /\ DOMAIN <<>> = {}
  OBVIOUS
<1>2. <<>> \in Maps
  BY <1>1 DEF Maps
<1> QED BY <1>1, <1>2, MapExt, FS_EmptySet

(* A map stays a finite map when InsertOrLookupMapValue puts a value         *)
LEMMA WithType ==
    ASSUME NEW m \in Maps, IsFiniteSet(DOMAIN m), NEW k \in Keys, NEW v \in Values
    PROVE  With(m, k, v) \in Maps /\ IsFiniteSet(DOMAIN With(m, k, v))
<1>1. PICK K \in SUBSET Keys : m \in [K -> Values]
  BY DEF Maps
<1>2. With(m, k, v) \in [K \cup {k} -> Values] /\ DOMAIN With(m, k, v) = DOMAIN m \cup {k}
  BY <1>1 DEF With
<1>3. K \cup {k} \in SUBSET Keys
  OBVIOUS
<1>4. With(m, k, v) \in Maps
  BY <1>2, <1>3 DEF Maps
<1> QED BY <1>2, <1>4, FS_AddElement

(* ... or DeleteMapValue takes a key away                                    *)
LEMMA WithoutType ==
    ASSUME NEW m \in Maps, IsFiniteSet(DOMAIN m), NEW k
    PROVE  Without(m, k) \in Maps /\ IsFiniteSet(DOMAIN Without(m, k))
<1>1. PICK K \in SUBSET Keys : m \in [K -> Values]
  BY DEF Maps
<1>2. Without(m, k) \in [K \ {k} -> Values] /\ DOMAIN Without(m, k) = DOMAIN m \ {k}
  BY <1>1 DEF Without
<1>3. K \ {k} \in SUBSET Keys
  OBVIOUS
<1>4. Without(m, k) \in Maps
  BY <1>2, <1>3 DEF Maps
<1> QED BY <1>2, <1>4, FS_RemoveElement

(* ... or MergeFrom merges another one into it                               *)
LEMMA MergedType ==
    ASSUME NEW m \in Maps, IsFiniteSet(DOMAIN m), NEW n \in Maps, IsFiniteSet(DOMAIN n)
    PROVE  Merged(m, n) \in Maps /\ IsFiniteSet(DOMAIN Merged(m, n))
<1>1. PICK K \in SUBSET Keys : m \in [K -> Values]
  BY DEF Maps
<1>2. PICK L \in SUBSET Keys : n \in [L -> Values]
  BY DEF Maps
<1>3. /\ Merged(m, n) \in [K \cup L -> Values]
      /\ DOMAIN Merged(m, n) = DOMAIN m \cup DOMAIN n
  BY <1>1, <1>2 DEF Merged
<1>4. K \cup L \in SUBSET Keys
  OBVIOUS
<1>5. Merged(m, n) \in Maps
  BY <1>3, <1>4 DEF Maps
<1> QED BY ZenonT(30), <1>3, <1>5, FS_Union

(* An entry that is added to a list counts *)
LEMMA MapOfAppend ==
    ASSUME NEW s \in Seq(EntryType), NEW e \in EntryType
    PROVE  MapOf(Append(s, e)) = With(MapOf(s), e.key, e.value)
<1> DEFINE t == Append(s, e)
<1>1. t \in Seq(EntryType) /\ DOMAIN s = 1 .. Len(s) /\ Len(s) \in Nat
      /\ DOMAIN t = 1 .. Len(s) + 1 /\ Len(t) = Len(s) + 1
      /\ t[Len(s) + 1] = e /\ \A i \in 1 .. Len(s) : t[i] = s[i]
  BY AppendProperties, LenProperties
<1> HIDE DEF t
<1>2. KeysOf(t) = KeysOf(s) \cup {e.key}
  BY <1>1 DEF KeysOf
<1>3. ASSUME NEW k \in KeysOf(t)
      PROVE  MapOf(t)[k] = With(MapOf(s), e.key, e.value)[k]
  <2>1. CASE k = e.key
    <3>1. LastOf(t, k, Len(s) + 1)
      BY <1>1, <2>1 DEF LastOf
    <3> QED BY <1>1, <1>2, <2>1, <3>1, MapOfAt DEF With
  <2>2. CASE k # e.key
    <3>1. k \in KeysOf(s)
      BY <1>2, <2>2
    <3>2. PICK i \in DOMAIN s : LastOf(s, k, i)
      BY <3>1, HasLast
    <3>3. LastOf(t, k, i)
      BY <1>1, <2>2, <3>2 DEF LastOf
    <3>4. MapOf(t)[k] = t[i].value /\ MapOf(s)[k] = s[i].value /\ t[i] = s[i]
      BY <1>1, <3>1, <3>2, <3>3, MapOfAt
    <3> QED BY <2>2, <3>1, <3>4, MapOfAt DEF With
  <2> QED BY <2>1, <2>2
<1>4. DOMAIN MapOf(t) = KeysOf(t) /\ DOMAIN With(MapOf(s), e.key, e.value) = KeysOf(t)
  BY <1>1, <1>2, MapOfAt DEF With
<1>5. MapOf(t) \in Maps /\ With(MapOf(s), e.key, e.value) \in Maps
  BY <1>1, MapOfType, WithType DEF EntryType
<1> QED BY <1>3, <1>4, <1>5, MapExt DEF t

(* The first entry of a list counts where no later one has its key: a map    *)
(* filled with the entries one by one ends as the map of the list.           *)
LEMMA MapOfTail ==
    ASSUME NEW s \in Seq(EntryType), s # <<>>, NEW m \in Maps, IsFiniteSet(DOMAIN m)
    PROVE  Merged(With(m, Head(s).key, Head(s).value), MapOf(Tail(s))) = Merged(m, MapOf(s))
<1> DEFINE t == Tail(s)
           h == Head(s)
<1>1. t \in Seq(EntryType) /\ h \in EntryType /\ h = s[1]
      /\ DOMAIN s = 1 .. Len(s) /\ Len(s) \in Nat \ {0}
      /\ DOMAIN t = 1 .. Len(s) - 1 /\ Len(t) = Len(s) - 1
      /\ \A i \in 1 .. Len(s) - 1 : t[i] = s[i + 1]
  BY HeadTailProperties, LenProperties, EmptySeq
<1> HIDE DEF t, h
<1>2. KeysOf(s) = KeysOf(t) \cup {h.key}
  <2>1. ASSUME NEW k \in KeysOf(s) PROVE k \in KeysOf(t) \cup {h.key}
    <3>1. PICK i \in 1 .. Len(s) : s[i].key = k
      BY <1>1 DEF KeysOf
    <3>2. CASE i = 1
      BY <1>1, <3>1, <3>2
    <3>3. CASE i # 1
      <4>1. i - 1 \in DOMAIN t /\ t[i - 1] = s[i]
        BY <1>1, <3>3
      <4> QED BY <3>1, <4>1 DEF KeysOf
    <3> QED BY <3>2, <3>3
  <2>2. ASSUME NEW k \in KeysOf(t) PROVE k \in KeysOf(s)
    <3>1. PICK i \in 1 .. Len(s) - 1 : t[i].key = k
      BY <1>1 DEF KeysOf
    <3>2. i + 1 \in DOMAIN s /\ s[i + 1].key = k
      BY <1>1, <3>1
    <3> QED BY <3>2 DEF KeysOf
  <2>3. h.key \in KeysOf(s)
    BY <1>1 DEF KeysOf
  <2> QED BY <2>1, <2>2, <2>3
<1>3. ASSUME NEW k \in KeysOf(t) PROVE MapOf(t)[k] = MapOf(s)[k]
  <2>1. PICK i \in DOMAIN t : LastOf(t, k, i)
    BY <1>1, HasLast
  <2>2. LastOf(s, k, i + 1)
    <3>1. i \in 1 .. Len(s) - 1 /\ i + 1 \in DOMAIN s /\ s[i + 1] = t[i] /\ t[i].key = k
      BY <1>1, <2>1 DEF LastOf
    <3>2. ASSUME NEW j \in i + 2 .. Len(s) PROVE s[j].key # k
      <4>1. j - 1 \in i + 1 .. Len(t) /\ j - 1 \in 1 .. Len(s) - 1 /\ t[j - 1] = s[j]
        BY <1>1, <3>1
      <4> QED BY <2>1, <4>1 DEF LastOf
    <3> QED BY <3>1, <3>2 DEF LastOf
  <2>3. MapOf(t)[k] = t[i].value
    BY <1>1, <2>1, MapOfAt
  <2>4. MapOf(s)[k] = s[i + 1].value
    BY <1>2, <2>2, MapOfAt
  <2> QED BY <1>1, <2>3, <2>4
<1>4. ASSUME h.key \notin KeysOf(t) PROVE MapOf(s)[h.key] = h.value
  <2>1. ASSUME NEW j \in 2 .. Len(s) PROVE s[j].key # h.key
    <3>1. j - 1 \in DOMAIN t /\ t[j - 1] = s[j]
      BY <1>1
    <3> QED BY <1>4, <3>1 DEF KeysOf
  <2>2. LastOf(s, h.key, 1)
    BY <1>1, <2>1 DEF LastOf
  <2> QED BY <1>1, <1>2, <2>2, MapOfAt
<1> DEFINE a == Merged(With(m, h.key, h.value), MapOf(t))
           b == Merged(m, MapOf(s))
<1>5. DOMAIN MapOf(t) = KeysOf(t) /\ DOMAIN MapOf(s) = KeysOf(s)
  BY <1>1, MapOfAt
<1>6. DOMAIN a = DOMAIN b
  BY <1>2, <1>5 DEF Merged, With
<1>7. ASSUME NEW k \in DOMAIN a PROVE a[k] = b[k]
  <2>1. k \in DOMAIN With(m, h.key, h.value) \cup KeysOf(t) /\ k \in DOMAIN m \cup KeysOf(s)
    BY <1>5, <1>6, <1>7 DEF Merged
  <2>2. a[k] = IF k \in KeysOf(t) THEN MapOf(t)[k] ELSE With(m, h.key, h.value)[k]
    BY <1>5, <2>1 DEF Merged
  <2>3. b[k] = IF k \in KeysOf(s) THEN MapOf(s)[k] ELSE m[k]
    BY <1>5, <2>1 DEF Merged
  <2>4. k \in DOMAIN m \cup {h.key} =>
           With(m, h.key, h.value)[k] = IF k = h.key THEN h.value ELSE m[k]
    BY DEF With
  <2>5. k \notin KeysOf(t) => k \in DOMAIN m \cup {h.key}
    BY <1>2, <2>1
  <2> QED BY <1>2, <1>3, <1>4, <2>2, <2>3, <2>4, <2>5
<1>8. a \in Maps /\ b \in Maps
  BY <1>1, MapOfType, WithType, MergedType DEF EntryType
<1> QED BY <1>6, <1>7, <1>8, MapExt DEF t, h

(* There is nothing to copy from an empty list, nor to keep of a cleared map *)
LEMMA MergedEmpty ==
    ASSUME NEW m \in Maps
    PROVE  Merged(m, MapOf(<<>>)) = m /\ Merged(<<>>, m) = m
<1>1. <<>> \in Seq(EntryType) /\ DOMAIN <<>> = {}
  OBVIOUS
<1>2. DOMAIN MapOf(<<>>) = {}
  BY <1>1 DEF MapOf
<1>3. m = [k \in DOMAIN m |-> m[k]]
  BY DEF Maps
<1> QED BY <1>1, <1>2, <1>3 DEF Merged

(* What SetToSeq returns is a sequence                                       *)
LEMMA FunctionIsSeq ==
    ASSUME NEW S, NEW n \in Nat, NEW s \in [1 .. n -> S]
    PROVE  s \in Seq(S) /\ DOMAIN s = 1 .. n /\ Len(s) = n
<1>1. s \in Seq(S)
  <2>1. s \in UNION {[1 .. k -> S] : k \in Nat}
    OBVIOUS
  <2> QED BY <2>1, SeqDef
<1>2. DOMAIN s = 1 .. n /\ DOMAIN s = 1 .. Len(s) /\ Len(s) \in Nat
  BY <1>1, LenProperties
<1> QED BY <1>1, <1>2

(* A map is the map of its entries *)
LEMMA EntriesOfMap ==
    ASSUME NEW m \in Maps, IsFiniteSet(DOMAIN m)
    PROVE  EntriesOf(m) \in Seq(EntryType) /\ MapOf(EntriesOf(m)) = m
<1> DEFINE S == {Entry(k, m[k]) : k \in DOMAIN m}
           s == EntriesOf(m)
<1>1. DOMAIN m \subseteq Keys /\ \A k \in DOMAIN m : m[k] \in Values
  BY DEF Maps
<1>2. S \subseteq EntryType
  BY <1>1 DEF Entry, EntryType
<1>3. IsFiniteSet(S)
  <2> DEFINE g == [k \in DOMAIN m |-> Entry(k, m[k])]
  <2>1. g \in Surjection(DOMAIN m, S)
    BY Fun_IsSurj
  <2> QED BY <2>1, FS_Surjection
<1> DEFINE n == Cardinality(S)
<1>4. n \in Nat /\ ExistsBijection(1 .. n, S)
  BY <1>3, FS_CardinalityType
<1>5. PICK g \in Bijection(1 .. n, S) : TRUE
  BY <1>4 DEF ExistsBijection
<1>6. g \in [1 .. n -> S] /\ IsInjective(g)
  BY <1>5 DEF Bijection, Injection
<1>7. s \in [1 .. n -> S] /\ IsInjective(s)
  BY <1>6 DEF EntriesOf, SetToSeq
<1>8. s \in Injection(1 .. n, S)
  BY <1>7 DEF Injection
<1>9. Cardinality(1 .. n) = n /\ IsFiniteSet(1 .. n)
  BY <1>4, FS_Interval
<1>10. s \in Surjection(1 .. n, S)
  BY <1>3, <1>8, <1>9, FS_Injection
<1>11. \A e \in S : \E i \in 1 .. n : s[i] = e
  BY <1>10 DEF Surjection
<1> HIDE DEF s
<1>12. s \in Seq(EntryType) /\ DOMAIN s = 1 .. n /\ Len(s) = n
  <2>1. s \in [1 .. n -> EntryType]
    BY <1>2, <1>7
  <2> QED BY <1>4, <2>1, FunctionIsSeq
<1>13. KeysOf(s) = DOMAIN m
  <2>1. ASSUME NEW k \in DOMAIN m PROVE k \in KeysOf(s)
    <3> DEFINE e == Entry(k, m[k])
    <3>1. e \in S
      OBVIOUS
    <3>2. PICK i \in 1 .. n : s[i] = e
      BY <1>11, <3>1
    <3>3. i \in DOMAIN s /\ s[i].key = k
      BY <1>12, <3>2 DEF Entry
    <3> QED BY <3>3 DEF KeysOf
  <2>2. ASSUME NEW k \in KeysOf(s) PROVE k \in DOMAIN m
    <3>1. PICK i \in 1 .. n : s[i].key = k
      BY <1>12 DEF KeysOf
    <3>2. PICK j \in DOMAIN m : s[i] = Entry(j, m[j])
      BY <1>7
    <3> QED BY <3>1, <3>2 DEF Entry
  <2> QED BY <2>1, <2>2
<1>14. ASSUME NEW k \in KeysOf(s) PROVE MapOf(s)[k] = m[k]
  <2>1. PICK i \in DOMAIN s : LastOf(s, k, i)
    BY <1>12, HasLast
  <2>2. PICK j \in DOMAIN m : s[i] = Entry(j, m[j])
    BY <1>7, <1>12, <2>1
  <2>3. s[i].key = k /\ MapOf(s)[k] = s[i].value
    BY <1>12, <2>1, MapOfAt DEF LastOf
  <2> QED BY <2>2, <2>3 DEF Entry
<1>15. MapOf(s) \in Maps /\ DOMAIN MapOf(s) = DOMAIN m
  BY <1>12, <1>13, MapOfType, MapOfAt
<1>16. MapOf(s) = m
  BY <1>13, <1>14, <1>15, MapExt
<1> QED BY <1>12, <1>16 DEF s

-----------------------------------------------------------------------------
(* The inductive invariant *)

Stages ==
    {"idle", "GetMap", "GetRepeatedField", "FieldSize", "SpaceUsed", "sync_map",
     "lock_map", "fill_map", "unlock_map", "read_map", "payload", "publish",
     "lock_rep", "fill_rep", "unlock_rep", "read_rep", "read_default",
     "lock_to_measure", "measure_both", "measure_map"}

Typed ==
    /\ TypeOK
    /\ pc \in [Threads -> Stages]
    /\ todo \in [Threads -> Seq(EntryType)]
    /\ \A f \in Fields : IsFiniteSet(DOMAIN map[f])

Holding == {"fill_map", "unlock_map", "fill_rep", "unlock_rep", "measure_both"}

Working == Holding \cup {"publish", "lock_map", "lock_rep", "lock_to_measure", "read_rep"}

(* Where a thread has a payload to work on *)
Found ==
    \A t \in Threads :
        /\ pc[t] = "idle" => mine[t] = NULL
        /\ pc[t] \in Working => mine[t] # NULL
        /\ pc[t] = "sync_map" => payload[cur[t]] # NULL

(* mutex_ of a payload is held by the one thread that works under it *)
Locking == \A t \in Threads : pc[t] \in Holding => heap[mine[t]].mutex = t

(* A payload that is not yet published is the secret of the thread that made it *)
Publishing ==
    \A t \in Threads : pc[t] = "publish" =>
        /\ \A f \in Fields : payload[f] # mine[t]
        /\ \A u \in Threads : u # t => mine[u] # mine[t]
        /\ heap[mine[t]].state = "MODIFIED_MAP"

(* What a thread found out about state_ stays so, lock or no lock *)
Steady ==
    \A t \in Threads :
        /\ pc[t] \in {"read_map", "measure_map", "read_default", "payload", "publish",
                      "lock_rep", "unlock_map"} => State(cur[t]) # "MODIFIED_REPEATED"
        /\ pc[t] \in {"read_rep", "lock_map", "unlock_rep"} => State(cur[t]) # "MODIFIED_MAP"
        /\ pc[t] = "fill_map" => State(cur[t]) = "MODIFIED_REPEATED"
        /\ pc[t] = "fill_rep" => State(cur[t]) = "MODIFIED_MAP"

(* A representation that is being filled becomes the other one *)
Copying ==
    \A t \in Threads :
        /\ pc[t] = "fill_map" =>
              Merged(map[cur[t]], MapOf(todo[t])) = MapOf(heap[mine[t]].rep)
        /\ pc[t] = "fill_rep" => MapOf(heap[mine[t]].rep \o todo[t]) = map[cur[t]]
        /\ pc[t] = "read_default" => map[cur[t]] = <<>>

Inv ==
    /\ Typed /\ OnePayload /\ Found /\ Locking
    /\ Publishing /\ Steady /\ Copying /\ CleanAgrees

(* What the fields stand for, which only mutators change *)
Meaning == [f \in Fields |-> SyncedMap(f)]

(* The meaning of the fields now and after a step, from payloads and maps    *)
LEMMA MeaningIs ==
    /\ Meaning = [f \in Fields |->
          IF payload[f] # NULL /\ heap[payload[f]].state = "MODIFIED_REPEATED"
          THEN MapOf(heap[payload[f]].rep) ELSE map[f]]
    /\ Meaning' = [f \in Fields |->
          IF payload'[f] # NULL /\ heap'[payload'[f]].state = "MODIFIED_REPEATED"
          THEN MapOf(heap'[payload'[f]].rep) ELSE map'[f]]
BY DEF Meaning, SyncedMap, State

-----------------------------------------------------------------------------
(* A step of thread t that only looks, and goes on to some stage *)

Look(t, to, f, p) ==
    /\ pc' = [pc EXCEPT ![t] = to]
    /\ cur' = [cur EXCEPT ![t] = f]
    /\ mine' = [mine EXCEPT ![t] = p]
    /\ UNCHANGED <<arena, map, payload, heap, todo>>

(* What it must have found *)
Looked(to, f, p) ==
    /\ (to = "idle") <=> (f = NULL)
    /\ p # NULL => f # NULL /\ p = payload[f]
    /\ to \in Working => p # NULL
    /\ to = "sync_map" => payload[f] # NULL
    /\ to \in {"read_map", "measure_map", "read_default", "payload", "lock_rep"} =>
          State(f) # "MODIFIED_REPEATED"
    /\ to \in {"read_rep", "lock_map"} => State(f) # "MODIFIED_MAP"
    /\ to = "read_default" => map[f] = <<>>

(* A step that only looks keeps the invariant and what the fields mean       *)
LEMMA LookStep ==
    ASSUME Inv, NEW t \in Threads, NEW to \in Stages \ (Holding \cup {"publish"}),
           NEW f \in Fields \cup {NULL}, NEW p \in Payloads \cup {NULL},
           pc[t] # "publish", Look(t, to, f, p), Looked(to, f, p)
    PROVE  Inv' /\ Meaning' = Meaning
<1> USE ConstantsAssumption, NullAssumption
<1>1. /\ pc'[t] = to /\ cur'[t] = f /\ mine'[t] = p
      /\ \A u \in Threads : u # t => pc'[u] = pc[u] /\ cur'[u] = cur[u] /\ mine'[u] = mine[u]
  BY DEF Inv, Typed, TypeOK, Look
<1>2. /\ pc' \in [Threads -> Stages] /\ cur' \in [Threads -> Fields \cup {NULL}]
      /\ mine' \in [Threads -> Payloads \cup {NULL}]
  BY DEF Inv, Typed, TypeOK, Look
<1>3. arena' = arena /\ map' = map /\ payload' = payload /\ heap' = heap /\ todo' = todo
  BY DEF Look
<1>4. Typed'
  <2>1. ASSUME NEW u \in Threads PROVE (pc'[u] = "idle") <=> (cur'[u] = NULL)
    <3>1. CASE u = t
      BY <1>1, <3>1 DEF Looked
    <3>2. CASE u # t
      BY <1>1, <3>2 DEF Inv, Typed, TypeOK
    <3> QED BY <3>1, <3>2
  <2>2. TypeOK'
    BY <1>2, <1>3, <2>1 DEF Inv, Typed, TypeOK
  <2> QED BY <1>2, <1>3, <2>2 DEF Inv, Typed
<1>5. \A u \in Threads : pc[u] = "publish" => mine[u] # NULL
  BY DEF Inv, Found, Working
<1>6. OnePayload'
  <2>1. p # NULL => heap[p] # NULL
    BY DEF Inv, Typed, TypeOK, Looked
  <2>2. ASSUME NEW q \in Payloads, heap[q] # NULL
        PROVE  \/ \E g \in Fields : payload[g] = q
               \/ \E u \in Threads : pc'[u] = "publish" /\ mine'[u] = q
               \/ \E g \in Fields : arena[g] # NULL
    BY <1>1, <2>2 DEF Inv, OnePayload
  <2>3. ASSUME NEW u \in Threads, mine'[u] # NULL
        PROVE  heap[mine'[u]] # NULL /\ (pc'[u] # "publish" => mine'[u] = payload[cur'[u]])
    <3>1. CASE u = t
      BY <1>1, <2>1, <2>3, <3>1 DEF Looked
    <3>2. CASE u # t
      BY <1>1, <2>3, <3>2 DEF Inv, OnePayload
    <3> QED BY <3>1, <3>2
  <2> QED BY <1>3, <2>2, <2>3 DEF Inv, OnePayload
<1>7. Found'
  BY ZenonT(60), <1>1, <1>2, <1>3 DEF Inv, Found, Typed, TypeOK, Looked
<1>8. Locking'
  BY <1>1, <1>2, <1>3 DEF Inv, Locking
<1>9. Publishing'
  <2> SUFFICES ASSUME NEW u \in Threads, pc'[u] = "publish"
               PROVE  /\ \A g \in Fields : payload'[g] # mine'[u]
                      /\ \A v \in Threads : v # u => mine'[v] # mine'[u]
                      /\ heap'[mine'[u]].state = "MODIFIED_MAP"
    BY DEF Publishing
  <2>1. u # t /\ pc[u] = "publish" /\ mine'[u] = mine[u]
    BY <1>1
  <2>2. /\ \A g \in Fields : payload[g] # mine[u]
        /\ \A v \in Threads : v # u => mine[v] # mine[u]
        /\ heap[mine[u]].state = "MODIFIED_MAP"
    BY <2>1 DEF Inv, Publishing
  <2>3. p # mine[u]
    BY <1>5, <2>1, <2>2 DEF Looked
  <2> QED BY <1>1, <1>3, <2>1, <2>2, <2>3
<1>10. Steady'
  <2> DEFINE Now(g) == IF payload[g] = NULL THEN "MODIFIED_MAP" ELSE heap[payload[g]].state
  <2> SUFFICES ASSUME NEW u \in Threads
               PROVE  /\ pc'[u] \in {"read_map", "measure_map", "read_default", "payload",
                                     "publish", "lock_rep", "unlock_map"} =>
                            Now(cur'[u]) # "MODIFIED_REPEATED"
                      /\ pc'[u] \in {"read_rep", "lock_map", "unlock_rep"} =>
                            Now(cur'[u]) # "MODIFIED_MAP"
                      /\ pc'[u] = "fill_map" => Now(cur'[u]) = "MODIFIED_REPEATED"
                      /\ pc'[u] = "fill_rep" => Now(cur'[u]) = "MODIFIED_MAP"
    BY <1>3 DEF Steady, State
  <2>1. CASE u = t
    BY <1>1, <2>1 DEF Holding, Looked, State
  <2>2. CASE u # t
    BY <1>1, <2>2 DEF Inv, Steady, State
  <2> QED BY <2>1, <2>2
<1>11. Copying'
  <2> SUFFICES ASSUME NEW u \in Threads
               PROVE  /\ pc'[u] = "fill_map" =>
                           Merged(map'[cur'[u]], MapOf(todo'[u])) = MapOf(heap'[mine'[u]].rep)
                      /\ pc'[u] = "fill_rep" =>
                           MapOf(heap'[mine'[u]].rep \o todo'[u]) = map'[cur'[u]]
                      /\ pc'[u] = "read_default" => map'[cur'[u]] = <<>>
    BY DEF Copying
  <2>1. CASE u = t
    BY <1>1, <1>3, <2>1 DEF Holding, Looked
  <2>2. CASE u # t
    BY <1>1, <1>3, <2>2 DEF Inv, Copying
  <2> QED BY <2>1, <2>2
<1>12. CleanAgrees'
  BY <1>3 DEF Inv, CleanAgrees, State
<1>13. Meaning' = Meaning
  BY <1>3, MeaningIs
<1> QED BY <1>4, <1>6, <1>7, <1>8, <1>9, <1>10, <1>11, <1>12, <1>13 DEF Inv

(* A step of thread t on the payload p of its field f, which it holds or takes *)

Own(t, to, f, p, r, m, s) ==
    /\ pc' = [pc EXCEPT ![t] = to]
    /\ IF to = "idle" THEN Leave(t) ELSE UNCHANGED <<cur, mine>>
    /\ heap' = [heap EXCEPT ![p] = r]
    /\ map' = [map EXCEPT ![f] = m]
    /\ todo' = [todo EXCEPT ![t] = s]
    /\ UNCHANGED <<arena, payload>>

(* What it must have found, and what it leaves *)
Owned(t, to, f, p, r, m, s) ==
    /\ f = cur[t] /\ p = mine[t] /\ p = payload[f]
    /\ heap[p].mutex \in {NULL, t} /\ (to \in Holding => r.mutex = t)
    /\ r.state \in {heap[p].state, "CLEAN"}
    /\ heap[p].state = "MODIFIED_REPEATED" => r.rep = heap[p].rep
    /\ m # map[f] => heap[p].state = "MODIFIED_REPEATED"
    /\ r.state = "CLEAN" => m = MapOf(r.rep)
    /\ to \in {"read_map", "measure_map", "read_default", "payload", "lock_rep",
               "unlock_map"} => r.state # "MODIFIED_REPEATED"
    /\ to \in {"read_rep", "lock_map", "unlock_rep"} => r.state # "MODIFIED_MAP"
    /\ to = "fill_map" =>
          r.state = "MODIFIED_REPEATED" /\ Merged(m, MapOf(s)) = MapOf(r.rep)
    /\ to = "fill_rep" => r.state = "MODIFIED_MAP" /\ MapOf(r.rep \o s) = m
    /\ to = "read_default" => m = <<>>

(* So does a step on a payload whose mutex_ the thread holds or finds free   *)
LEMMA OwnStep ==
    ASSUME Inv, NEW t \in Threads, NEW to \in Stages, to # "publish",
           NEW f \in Fields, NEW p \in Payloads, NEW r \in PayloadType,
           NEW m \in Maps, IsFiniteSet(DOMAIN m), NEW s \in Seq(EntryType),
           pc[t] # "publish", Own(t, to, f, p, r, m, s), Owned(t, to, f, p, r, m, s)
    PROVE  Inv' /\ Meaning' = Meaning
<1> USE ConstantsAssumption, NullAssumption
<1>1. /\ pc'[t] = to /\ todo'[t] = s /\ heap'[p] = r /\ map'[f] = m
      /\ \A u \in Threads : u # t =>
            pc'[u] = pc[u] /\ cur'[u] = cur[u] /\ mine'[u] = mine[u] /\ todo'[u] = todo[u]
      /\ \A q \in Payloads : q # p => heap'[q] = heap[q]
      /\ \A g \in Fields : g # f => map'[g] = map[g]
      /\ arena' = arena /\ payload' = payload
  BY DEF Inv, Typed, TypeOK, Own, Leave
<1>2. IF to = "idle" THEN cur'[t] = NULL /\ mine'[t] = NULL ELSE cur'[t] = f /\ mine'[t] = p
  BY DEF Inv, Typed, TypeOK, Own, Owned, Leave
<1>3. /\ pc' \in [Threads -> Stages] /\ cur' \in [Threads -> Fields \cup {NULL}]
      /\ mine' \in [Threads -> Payloads \cup {NULL}] /\ todo' \in [Threads -> Seq(EntryType)]
      /\ heap' \in [Payloads -> PayloadType \cup {NULL}] /\ map' \in [Fields -> Maps]
  BY DEF Inv, Typed, TypeOK, Own, Leave
<1>4. /\ \A g \in Fields : g # f => payload[g] # p
      /\ payload[f] = p /\ r # NULL /\ heap[p] # NULL /\ p # NULL /\ f # NULL /\ cur[t] = f
  <2>1. \A g \in Fields : payload[g] # NULL /\ payload[g] = payload[f] => g = f
    BY DEF Inv, OnePayload
  <2>2. p # NULL /\ r # NULL /\ f # NULL
    OBVIOUS
  <2>3. payload[f] = p /\ cur[t] = f
    BY DEF Owned
  <2>4. heap[p] # NULL
    BY <2>2, <2>3 DEF Inv, Typed, TypeOK
  <2> QED BY <2>1, <2>2, <2>3, <2>4
<1>5. \A u \in Threads :
         /\ pc[u] # "idle" => cur[u] \in Fields
         /\ mine[u] # NULL => mine[u] \in Payloads
         /\ pc[u] \in Working => mine[u] # NULL
         /\ mine[u] # NULL => heap[mine[u]] # NULL
         /\ mine[u] # NULL /\ pc[u] # "publish" => mine[u] = payload[cur[u]]
  BY DEF Inv, Typed, TypeOK, Found, OnePayload
<1>6. \A g \in Fields :
         /\ payload[g] \in Payloads \cup {NULL}
         /\ payload[g] # NULL => payload[g] \in Payloads /\ heap[payload[g]] # NULL
  BY DEF Inv, Typed, TypeOK
<1>7. \A u \in Threads : u # t /\ pc[u] \in Holding => mine[u] # p /\ cur[u] # f
  <2> SUFFICES ASSUME NEW u \in Threads, u # t, pc[u] \in Holding
               PROVE  mine[u] # p /\ cur[u] # f
    OBVIOUS
  <2>1. heap[mine[u]].mutex = u /\ mine[u] # NULL
    BY <1>5 DEF Inv, Locking, Working
  <2>2. mine[u] = payload[cur[u]]
    BY <1>5, <2>1 DEF Holding
  <2>3. heap[p].mutex # u
    BY DEF Owned
  <2> QED BY <1>4, <2>1, <2>2, <2>3
<1>8. Typed'
  <2>1. ASSUME NEW g \in Fields, payload[g] # NULL PROVE heap'[payload[g]] # NULL
    BY <1>6, <1>1, <1>4, <2>1
  <2>2. ASSUME NEW u \in Threads PROVE (pc'[u] = "idle") <=> (cur'[u] = NULL)
    <3>1. CASE u = t
      BY <1>1, <1>2, <1>4, <3>1
    <3>2. CASE u # t
      BY <1>1, <3>2 DEF Inv, Typed, TypeOK
    <3> QED BY <3>1, <3>2
  <2>3. /\ arena' \in [Fields -> Arenas \cup {NULL}]
        /\ payload' \in [Fields -> Payloads \cup {NULL}]
    BY <1>1 DEF Inv, Typed, TypeOK
  <2>4. TypeOK'
    BY <1>1, <1>3, <2>1, <2>2, <2>3 DEF TypeOK
  <2>5. \A g \in Fields : IsFiniteSet(DOMAIN map'[g])
    BY <1>1 DEF Inv, Typed
  <2> QED BY <1>3, <2>4, <2>5 DEF Typed
<1>9. OnePayload'
  <2>1. ASSUME NEW q \in Payloads, heap'[q] # NULL
        PROVE  \/ \E g \in Fields : payload[g] = q
               \/ \E u \in Threads : pc'[u] = "publish" /\ mine'[u] = q
               \/ \E g \in Fields : arena[g] # NULL
    <3>1. CASE q = p
      BY <1>4, <3>1
    <3>2. CASE q # p
      BY <1>1, <2>1, <3>2 DEF Inv, OnePayload
    <3> QED BY <3>1, <3>2
  <2>2. ASSUME NEW u \in Threads, mine'[u] # NULL
        PROVE  heap'[mine'[u]] # NULL /\ (pc'[u] # "publish" => mine'[u] = payload[cur'[u]])
    <3>1. CASE u = t
      BY <1>1, <1>2, <1>4, <2>2, <3>1
    <3>2. CASE u # t
      BY <1>1, <1>4, <1>5, <2>2, <3>2
    <3> QED BY <3>1, <3>2
  <2>3. \A g, h \in Fields : payload[g] # NULL /\ payload[g] = payload[h] => g = h
    BY DEF Inv, OnePayload
  <2> QED BY <1>1, <2>1, <2>2, <2>3 DEF OnePayload
<1>10. Found'
  <2> SUFFICES ASSUME NEW u \in Threads
               PROVE  /\ pc'[u] = "idle" => mine'[u] = NULL
                      /\ pc'[u] \in Working => mine'[u] # NULL
                      /\ pc'[u] = "sync_map" => payload[cur'[u]] # NULL
    BY <1>1 DEF Found
  <2>1. CASE u = t
    BY <1>1, <1>2, <1>4, <2>1 DEF Working, Holding
  <2>2. CASE u # t
    BY <1>1, <2>2 DEF Inv, Found
  <2> QED BY <2>1, <2>2
<1>11. Locking'
  <2> SUFFICES ASSUME NEW u \in Threads, pc'[u] \in Holding PROVE heap'[mine'[u]].mutex = u
    BY DEF Locking
  <2>1. CASE u = t
    BY <1>1, <1>2, <2>1 DEF Owned, Holding
  <2>2. CASE u # t
    BY <1>1, <1>5, <1>7, <2>2 DEF Inv, Locking, Working
  <2> QED BY <2>1, <2>2
<1>12. Publishing'
  <2> SUFFICES ASSUME NEW u \in Threads, pc'[u] = "publish"
               PROVE  /\ \A g \in Fields : payload[g] # mine'[u]
                      /\ \A v \in Threads : v # u => mine'[v] # mine'[u]
                      /\ heap'[mine'[u]].state = "MODIFIED_MAP"
    BY <1>1 DEF Publishing
  <2>1. u # t /\ pc[u] = "publish" /\ mine'[u] = mine[u]
    BY <1>1
  <2>2. /\ \A g \in Fields : payload[g] # mine[u]
        /\ \A v \in Threads : v # u => mine[v] # mine[u]
        /\ heap[mine[u]].state = "MODIFIED_MAP"
    BY <2>1 DEF Inv, Publishing
  <2>3. mine[u] # NULL /\ mine[u] # p /\ mine[u] \in Payloads
    BY <1>4, <1>5, <2>1, <2>2 DEF Working
  <2> QED BY <1>1, <1>2, <2>1, <2>2, <2>3 DEF Owned
<1>13. Steady'
  <2> DEFINE Now(g) == IF payload[g] = NULL THEN "MODIFIED_MAP" ELSE heap'[payload[g]].state
  <2> SUFFICES ASSUME NEW u \in Threads
               PROVE  /\ pc'[u] \in {"read_map", "measure_map", "read_default", "payload",
                                     "publish", "lock_rep", "unlock_map"} =>
                            Now(cur'[u]) # "MODIFIED_REPEATED"
                      /\ pc'[u] \in {"read_rep", "lock_map", "unlock_rep"} =>
                            Now(cur'[u]) # "MODIFIED_MAP"
                      /\ pc'[u] = "fill_map" => Now(cur'[u]) = "MODIFIED_REPEATED"
                      /\ pc'[u] = "fill_rep" => Now(cur'[u]) = "MODIFIED_MAP"
    BY <1>1 DEF Steady, State
  <2>1. CASE u = t
    BY <1>1, <1>2, <1>4, <2>1 DEF Owned
  <2>2. CASE u # t
    <3>1. CASE pc[u] \in Holding
      <4>1. cur[u] \in Fields /\ cur[u] # f
        BY <1>5, <1>7, <2>2, <3>1 DEF Holding
      <4>2. Now(cur[u]) = State(cur[u])
        BY <1>6, <1>1, <1>4, <4>1 DEF State
      <4> QED BY <1>1, <2>2, <4>2 DEF Inv, Steady
    <3>2. CASE pc[u] \notin Holding /\ pc[u] # "idle"
      <4>1. cur[u] \in Fields
        BY <1>5, <3>2
      <4>2. Now(cur[u]) \in {State(cur[u]), "CLEAN"}
        BY <1>6, <1>1, <1>4, <4>1 DEF State, Owned
      <4> QED BY <1>1, <2>2, <3>2, <4>2 DEF Inv, Steady, Holding
    <3>3. CASE pc[u] = "idle"
      BY <1>1, <2>2, <3>3
    <3> QED BY <3>1, <3>2, <3>3
  <2> QED BY <2>1, <2>2
<1>14. Copying'
  <2> SUFFICES ASSUME NEW u \in Threads
               PROVE  /\ pc'[u] = "fill_map" =>
                           Merged(map'[cur'[u]], MapOf(todo'[u])) = MapOf(heap'[mine'[u]].rep)
                      /\ pc'[u] = "fill_rep" =>
                           MapOf(heap'[mine'[u]].rep \o todo'[u]) = map'[cur'[u]]
                      /\ pc'[u] = "read_default" => map'[cur'[u]] = <<>>
    BY DEF Copying
  <2>1. CASE u = t
    BY <1>1, <1>2, <2>1 DEF Owned
  <2>2. CASE u # t
    <3>1. pc[u] \in Holding => heap'[mine[u]] = heap[mine[u]] /\ map'[cur[u]] = map[cur[u]]
      BY <1>1, <1>5, <1>7, <2>2 DEF Holding, Working
    <3>2. pc[u] = "read_default" => map'[cur[u]] = map[cur[u]]
      <4>1. pc[u] = "read_default" /\ cur[u] = f => heap[p].state # "MODIFIED_REPEATED"
        BY <1>4 DEF Inv, Steady, State
      <4> QED BY <1>1, <1>5, <4>1 DEF Owned
    <3>3. /\ pc[u] = "fill_map" =>
                Merged(map[cur[u]], MapOf(todo[u])) = MapOf(heap[mine[u]].rep)
          /\ pc[u] = "fill_rep" => MapOf(heap[mine[u]].rep \o todo[u]) = map[cur[u]]
          /\ pc[u] = "read_default" => map[cur[u]] = <<>>
      BY DEF Inv, Copying
    <3> QED BY <1>1, <2>2, <3>1, <3>2, <3>3 DEF Holding
  <2> QED BY <2>1, <2>2
<1>15. CleanAgrees'
  <2> SUFFICES ASSUME NEW g \in Fields, payload[g] # NULL, heap'[payload[g]].state = "CLEAN"
               PROVE  map'[g] = MapOf(heap'[payload[g]].rep)
    BY <1>1 DEF CleanAgrees, State
  <2>1. CASE g = f
    BY <1>1, <1>4, <2>1 DEF Owned
  <2>2. CASE g # f
    <3>1. heap'[payload[g]] = heap[payload[g]] /\ map'[g] = map[g]
      BY <1>6, <1>1, <1>4, <2>2
    <3> QED BY <3>1 DEF Inv, CleanAgrees, State
  <2> QED BY <2>1, <2>2
<1>16. Meaning' = Meaning
  <2> DEFINE now(g) == IF payload[g] # NULL /\ heap'[payload[g]].state = "MODIFIED_REPEATED"
                       THEN MapOf(heap'[payload[g]].rep) ELSE map'[g]
             was(g) == IF payload[g] # NULL /\ heap[payload[g]].state = "MODIFIED_REPEATED"
                       THEN MapOf(heap[payload[g]].rep) ELSE map[g]
  <2>1. now(f) = was(f)
    <3>1. now(f) = IF r.state = "MODIFIED_REPEATED" THEN MapOf(r.rep) ELSE m
      BY <1>1, <1>4
    <3>2. was(f) = IF heap[p].state = "MODIFIED_REPEATED" THEN MapOf(heap[p].rep) ELSE map[f]
      BY <1>4
    <3> HIDE DEF now, was
    <3> QED BY <3>1, <3>2 DEF Owned
  <2>2. ASSUME NEW g \in Fields, g # f PROVE now(g) = was(g)
    BY <1>6, <1>1, <1>4, <2>2
  <2>3. Meaning = [g \in Fields |-> was(g)] /\ Meaning' = [g \in Fields |-> now(g)]
    BY <1>1, MeaningIs
  <2> HIDE DEF now, was
  <2> QED BY <2>1, <2>2, <2>3
<1> QED BY <1>8, <1>9, <1>10, <1>11, <1>12, <1>13, <1>14, <1>15, <1>16 DEF Inv

(* A mutator, which has the fields that it changes to itself *)

Alone ==
    /\ map' \in [Fields -> Maps] /\ \A f \in Fields : IsFiniteSet(DOMAIN map'[f])
    /\ payload' \in [Fields -> Payloads \cup {NULL}]
    /\ heap' \in [Payloads -> PayloadType \cup {NULL}]
    /\ UNCHANGED <<arena, locals>>

(* What it leaves alone, and what becomes of the payloads *)
Kept ==
    /\ \A f \in Fields : ~Exclusive(f) =>
          /\ map'[f] = map[f] /\ payload'[f] = payload[f]
          /\ payload[f] # NULL => heap'[payload[f]] = heap[payload[f]]
    /\ \A p \in Payloads : heap[p] # NULL /\ (\A f \in Fields : payload[f] # p) =>
          heap'[p] = heap[p] /\ \A f \in Fields : payload'[f] # p
    /\ \A p \in Payloads : heap[p] = NULL /\ (\A f \in Fields : payload'[f] # p) =>
          heap'[p] = NULL
    /\ \A f \in Fields : payload[f] # NULL => \E g \in Fields : payload'[g] = payload[f]
    /\ \A f \in Fields : payload'[f] # NULL => heap'[payload'[f]] # NULL
    /\ \A f, g \in Fields : payload'[f] # NULL /\ payload'[f] = payload'[g] => f = g

(* A mutator that leaves the other fields and the secret payloads alone      *)
LEMMA MutateInv ==
    ASSUME Inv, Alone, Kept, CleanAgrees'
    PROVE  Inv'
<1> USE ConstantsAssumption, NullAssumption
<1>1. pc' = pc /\ cur' = cur /\ mine' = mine /\ todo' = todo /\ arena' = arena
  BY DEF Alone, locals
<1>2. \A u \in Threads :
         /\ pc[u] # "idle" => cur[u] \in Fields /\ cur[u] # NULL
         /\ mine[u] # NULL => mine[u] \in Payloads /\ pc[u] # "idle"
         /\ pc[u] \in Working => mine[u] # NULL
         /\ mine[u] # NULL => heap[mine[u]] # NULL
         /\ mine[u] # NULL /\ pc[u] # "publish" => mine[u] = payload[cur[u]]
         /\ pc[u] = "publish" => mine[u] # NULL /\ \A f \in Fields : payload[f] # mine[u]
  BY DEF Inv, Typed, TypeOK, Found, OnePayload, Publishing, Working
<1>3. \A u \in Threads : pc[u] # "idle" =>
          /\ map'[cur[u]] = map[cur[u]] /\ payload'[cur[u]] = payload[cur[u]]
          /\ payload[cur[u]] # NULL => heap'[payload[cur[u]]] = heap[payload[cur[u]]]
  <2> SUFFICES ASSUME NEW u \in Threads, pc[u] # "idle"
               PROVE  /\ map'[cur[u]] = map[cur[u]] /\ payload'[cur[u]] = payload[cur[u]]
                      /\ payload[cur[u]] # NULL =>
                            heap'[payload[cur[u]]] = heap[payload[cur[u]]]
    OBVIOUS
  <2>1. cur[u] \in Fields /\ ~Exclusive(cur[u])
    BY <1>2 DEF Exclusive
  <2> QED BY <2>1 DEF Kept
<1>4. \A u \in Threads : mine[u] # NULL => heap'[mine[u]] = heap[mine[u]]
  <2> SUFFICES ASSUME NEW u \in Threads, mine[u] # NULL PROVE heap'[mine[u]] = heap[mine[u]]
    OBVIOUS
  <2>1. CASE pc[u] = "publish"
    BY <1>2, <2>1 DEF Kept
  <2>2. CASE pc[u] # "publish"
    BY <1>2, <1>3, <2>2
  <2> QED BY <2>1, <2>2
<1>5. \A u \in Threads : pc[u] = "publish" => \A f \in Fields : payload'[f] # mine[u]
  BY <1>2 DEF Kept
<1>6. Typed'
  BY <1>1 DEF Inv, Typed, TypeOK, Alone, Kept
<1>7. OnePayload'
  <2>1. ASSUME NEW q \in Payloads, heap'[q] # NULL
        PROVE  \/ \E g \in Fields : payload'[g] = q
               \/ \E u \in Threads : pc[u] = "publish" /\ mine[u] = q
               \/ \E g \in Fields : arena[g] # NULL
    <3>1. CASE heap[q] = NULL
      BY <2>1, <3>1 DEF Kept
    <3>2. CASE \E g \in Fields : payload[g] = q
      <4>1. PICK g \in Fields : payload[g] = q
        BY <3>2
      <4>2. payload[g] # NULL
        BY <4>1
      <4> QED BY <4>1, <4>2 DEF Kept
    <3>3. CASE heap[q] # NULL /\ ~\E g \in Fields : payload[g] = q
      BY <3>3 DEF Inv, OnePayload
    <3> QED BY <3>1, <3>2, <3>3
  <2>2. ASSUME NEW u \in Threads, mine[u] # NULL
        PROVE  heap'[mine[u]] # NULL /\ (pc[u] # "publish" => mine[u] = payload'[cur[u]])
    BY <1>2, <1>3, <1>4, <2>2
  <2>3. \A f, g \in Fields : payload'[f] # NULL /\ payload'[f] = payload'[g] => f = g
    BY DEF Kept
  <2> QED BY <1>1, <2>1, <2>2, <2>3 DEF OnePayload
<1>8. Found'
  BY <1>1, <1>2, <1>3 DEF Inv, Found
<1>9. Locking'
  BY <1>1, <1>2, <1>4 DEF Inv, Locking, Working
<1>10. Publishing'
  BY <1>1, <1>2, <1>4, <1>5 DEF Inv, Publishing
<1>11. Steady'
  <2> DEFINE Now(g) == IF payload'[g] = NULL THEN "MODIFIED_MAP" ELSE heap'[payload'[g]].state
  <2>1. \A u \in Threads : pc[u] # "idle" => Now(cur[u]) = State(cur[u])
    BY <1>3 DEF State
  <2> HIDE DEF Now
  <2>2. ASSUME NEW u \in Threads
        PROVE  /\ pc[u] \in {"read_map", "measure_map", "read_default", "payload",
                             "publish", "lock_rep", "unlock_map"} =>
                     Now(cur[u]) # "MODIFIED_REPEATED"
               /\ pc[u] \in {"read_rep", "lock_map", "unlock_rep"} =>
                     Now(cur[u]) # "MODIFIED_MAP"
               /\ pc[u] = "fill_map" => Now(cur[u]) = "MODIFIED_REPEATED"
               /\ pc[u] = "fill_rep" => Now(cur[u]) = "MODIFIED_MAP"
    <3>1. CASE pc[u] = "idle"
      BY <3>1
    <3>2. CASE pc[u] # "idle"
      BY <2>1, <3>2 DEF Inv, Steady
    <3> QED BY <3>1, <3>2
  <2> QED BY <1>1, <2>2 DEF Steady, State, Now
<1>12. Copying'
  <2> SUFFICES ASSUME NEW u \in Threads
               PROVE  /\ pc[u] = "fill_map" =>
                           Merged(map'[cur[u]], MapOf(todo[u])) = MapOf(heap'[mine[u]].rep)
                      /\ pc[u] = "fill_rep" =>
                           MapOf(heap'[mine[u]].rep \o todo[u]) = map'[cur[u]]
                      /\ pc[u] = "read_default" => map'[cur[u]] = <<>>
    BY <1>1 DEF Copying
  <2> QED BY <1>2, <1>3, <1>4 DEF Inv, Copying, Working, Holding
<1> QED BY <1>6, <1>7, <1>8, <1>9, <1>10, <1>11, <1>12 DEF Inv

-----------------------------------------------------------------------------
(* Init, and every action *)

(* Fields begin with empty maps, without payloads and with no call under way *)
LEMMA InitInv ==
    ASSUME Init
    PROVE  Inv
<1> USE ConstantsAssumption
<1>1. Typed
  <2>1. map \in [Fields -> Maps] /\ \A f \in Fields : IsFiniteSet(DOMAIN map[f])
    BY EmptyMap DEF Init
  <2>2. <<>> \in Seq(EntryType)
    OBVIOUS
  <2> QED BY <2>1, <2>2 DEF Init, Typed, TypeOK, Stages
<1>2. OnePayload /\ Found /\ CleanAgrees
  BY DEF Init, OnePayload, Found, CleanAgrees, State, Working, Holding
<1>3. Locking /\ Publishing /\ Steady /\ Copying
  BY DEF Init, Locking, Publishing, Steady, Copying, Holding
<1> QED BY <1>1, <1>2, <1>3 DEF Inv

(* The actions that only read state_ and the pointer to the payload, and those *)
(* that begin and end a call                                                 *)
LEMMA LookingStep ==
    ASSUME Inv, NEW t \in Threads,
           \/ FieldSize(t) \/ GetMap(t) \/ SyncMapWithRepeatedField(t)
           \/ SyncRepeatedFieldWithMap(t) \/ ReturnDefault(t) \/ HavePayload(t)
           \/ SpaceUsed(t) \/ Return(t) \/ \E f \in Readable : Call(t, f)
    PROVE  Inv' /\ Meaning' = Meaning
<1> USE ConstantsAssumption, NullAssumption
<1> DEFINE f == cur[t]
           p == mine[t]
           q == payload[cur[t]]
<1>1. /\ pc[t] # "idle" => f \in Fields /\ q \in Payloads \cup {NULL} /\ f # NULL
      /\ f \in Fields \cup {NULL} /\ p \in Payloads \cup {NULL}
      /\ pc[t] # "publish" => (p # NULL => p = q)
      /\ pc[t] = "idle" => p = NULL /\ f = NULL
      /\ cur = [cur EXCEPT ![t] = f] /\ mine = [mine EXCEPT ![t] = p]
  BY DEF Inv, Typed, TypeOK, Found, OnePayload
<1>2. pc[t] \in {"payload"} => State(f) # "MODIFIED_REPEATED"
  BY DEF Inv, Steady
<1> HIDE DEF f, p, q
<1> USE DEF Looked, Working, Holding, Stages, Goto
<1>3. CASE FieldSize(t)
  <2> DEFINE to == IF State(f) # "MODIFIED_MAP" THEN "GetRepeatedField" ELSE "GetMap"
  <2>1. Look(t, to, f, p) /\ pc[t] = "FieldSize"
    BY <1>1, <1>3 DEF FieldSize, Look, f
  <2>2. Looked(to, f, p)
    BY <1>1, <2>1 DEF q, f
  <2> QED BY <1>1, <2>1, <2>2, LookStep
<1>4. CASE GetMap(t)
  <2> DEFINE to == IF q = NULL THEN "read_map" ELSE "sync_map"
  <2>1. Look(t, to, f, p) /\ pc[t] = "GetMap"
    BY <1>1, <1>4 DEF GetMap, Look, f, q
  <2>2. Looked(to, f, p)
    BY <1>1, <2>1 DEF q, f, State
  <2> QED BY <1>1, <2>1, <2>2, LookStep
<1>5. CASE SyncMapWithRepeatedField(t)
  <2> DEFINE to == IF State(f) = "MODIFIED_REPEATED" THEN "lock_map" ELSE "read_map"
  <2>1. Look(t, to, f, q) /\ pc[t] = "sync_map"
    BY <1>1, <1>5 DEF SyncMapWithRepeatedField, Look, f, q
  <2>2. q # NULL
    BY <2>1 DEF Inv, Found, q
  <2>3. Looked(to, f, q)
    BY <1>1, <2>1, <2>2 DEF q, f
  <2> QED BY <1>1, <2>1, <2>3, LookStep
<1>6. CASE SyncRepeatedFieldWithMap(t)
  <2> DEFINE to == IF State(f) = "MODIFIED_MAP" THEN "payload" ELSE "read_rep"
  <2>1. Look(t, to, f, q) /\ pc[t] = "GetRepeatedField"
    BY <1>1, <1>6 DEF SyncRepeatedFieldWithMap, Look, f, q
  <2>2. Looked(to, f, q)
    BY <1>1, <2>1 DEF q, f, State
  <2> QED BY <1>1, <2>1, <2>2, LookStep
<1>7. CASE ReturnDefault(t)
  <2>1. Look(t, "read_default", f, p) /\ pc[t] = "payload" /\ q = NULL /\ DOMAIN map[f] = {}
    BY <1>1, <1>7 DEF ReturnDefault, Look, f, q
  <2>2. map[f] = <<>>
    BY <1>1, <2>1, EmptyMap DEF Inv, Typed, TypeOK
  <2>3. Looked("read_default", f, p)
    BY <1>1, <1>2, <2>1, <2>2 DEF q, f
  <2> QED BY <1>1, <2>1, <2>3, LookStep
<1>8. CASE HavePayload(t)
  <2>1. Look(t, "lock_rep", f, q) /\ pc[t] = "payload" /\ q # NULL
    BY <1>1, <1>8 DEF HavePayload, Look, f, q
  <2>2. Looked("lock_rep", f, q)
    BY <1>1, <1>2, <2>1 DEF q, f
  <2> QED BY <1>1, <2>1, <2>2, LookStep
<1>9. CASE SpaceUsed(t)
  <2> DEFINE to == IF q = NULL THEN "measure_map" ELSE "lock_to_measure"
  <2>1. Look(t, to, f, q) /\ pc[t] = "SpaceUsed"
    BY <1>1, <1>9 DEF SpaceUsed, Look, f, q
  <2>2. Looked(to, f, q)
    BY <1>1, <2>1 DEF q, f, State
  <2> QED BY <1>1, <2>1, <2>2, LookStep
<1>10. CASE Return(t)
  <2>1. Look(t, "idle", NULL, NULL) /\ pc[t] # "publish"
    BY <1>10 DEF Return, Look, Leave
  <2>2. Looked("idle", NULL, NULL)
    OBVIOUS
  <2> QED BY <1>1, <2>1, <2>2, LookStep
<1>11. ASSUME NEW g \in Readable, Call(t, g) PROVE Inv' /\ Meaning' = Meaning
  <2>1. PICK to \in {"GetMap", "GetRepeatedField", "FieldSize", "SpaceUsed"} :
            Goto(t, "idle", to)
    BY <1>11 DEF Call
  <2>2. Look(t, to, g, NULL) /\ pc[t] = "idle"
    BY <1>1, <1>11, <2>1 DEF Call, Look
  <2>3. Looked(to, g, NULL) /\ g \in Fields
    BY <2>1
  <2> QED BY <2>1, <2>2, <2>3, LookStep
<1> QED BY <1>3, <1>4, <1>5, <1>6, <1>7, <1>8, <1>9, <1>10, <1>11

(* An entry goes from the front of what is left to the end of what is copied *)
LEMMA AppendHeadTail ==
    ASSUME NEW a \in Seq(EntryType), NEW b \in Seq(EntryType), b # <<>>
    PROVE  Append(a, Head(b)) \o Tail(b) = a \o b
<1> DEFINE l == Append(a, Head(b)) \o Tail(b)
           r == a \o b
<1>1. /\ Head(b) \in EntryType /\ Head(b) = b[1] /\ Tail(b) \in Seq(EntryType)
      /\ Len(b) \in Nat \ {0} /\ Len(a) \in Nat /\ Len(Tail(b)) = Len(b) - 1
      /\ \A i \in 1 .. Len(b) - 1 : Tail(b)[i] = b[i + 1]
  BY HeadTailProperties, LenProperties, EmptySeq
<1>2. /\ Append(a, Head(b)) \in Seq(EntryType) /\ Len(Append(a, Head(b))) = Len(a) + 1
      /\ \A i \in 1 .. Len(a) : Append(a, Head(b))[i] = a[i]
      /\ Append(a, Head(b))[Len(a) + 1] = b[1]
  BY <1>1, AppendProperties
<1>3. /\ l \in Seq(EntryType) /\ Len(l) = Len(a) + Len(b)
      /\ \A i \in 1 .. Len(a) + Len(b) : l[i] =
            IF i <= Len(a) + 1 THEN Append(a, Head(b))[i] ELSE Tail(b)[i - (Len(a) + 1)]
  BY <1>1, <1>2, ConcatProperties
<1>4. /\ r \in Seq(EntryType) /\ Len(r) = Len(a) + Len(b)
      /\ \A i \in 1 .. Len(a) + Len(b) : r[i] = IF i <= Len(a) THEN a[i] ELSE b[i - Len(a)]
  BY ConcatProperties
<1> HIDE DEF l, r
<1>5. ASSUME NEW i \in 1 .. Len(a) + Len(b) PROVE l[i] = r[i]
  <2>1. CASE i <= Len(a)
    BY <1>1, <1>2, <1>3, <1>4, <2>1
  <2>2. CASE i = Len(a) + 1
    BY <1>1, <1>2, <1>3, <1>4, <2>2
  <2>3. CASE i > Len(a) + 1
    <3>1. i - (Len(a) + 1) \in 1 .. Len(b) - 1 /\ i - (Len(a) + 1) + 1 = i - Len(a)
      BY <1>1, <2>3
    <3> QED BY <1>1, <1>3, <1>4, <2>3, <3>1
  <2> QED BY <1>1, <2>1, <2>2, <2>3
<1>6. l = r
  BY <1>3, <1>4, <1>5, SeqEqual
<1> QED BY <1>6 DEF l, r

(* The actions under mutex_: both syncs, entry by entry, and the measurement *)
LEMMA OwningStep ==
    ASSUME Inv, NEW t \in Threads,
           \/ LockToSyncMap(t) \/ FillMap(t) \/ LockToSyncRep(t) \/ FillRep(t)
           \/ SetClean(t) \/ Unlock(t) \/ LockToMeasure(t) \/ Measured(t)
    PROVE  Inv' /\ Meaning' = Meaning
<1> USE ConstantsAssumption, NullAssumption
<1> DEFINE f == cur[t]
           p == mine[t]
           o == heap[mine[t]]
           m == map[cur[t]]
           s == todo[t]
<1>1. pc[t] \in {"lock_map", "fill_map", "lock_rep", "fill_rep", "unlock_map", "unlock_rep",
                 "lock_to_measure", "measure_both"}
  BY DEF LockToSyncMap, FillMap, LockToSyncRep, FillRep, SetClean, Unlock, LockToMeasure,
         Measured, Goto
<1>2. pc[t] \in Working /\ pc[t] # "idle" /\ pc[t] # "publish"
  BY <1>1 DEF Working, Holding
<1>3. /\ f \in Fields /\ p \in Payloads /\ p = payload[f] /\ p # NULL /\ o # NULL
      /\ o \in PayloadType /\ m \in Maps /\ IsFiniteSet(DOMAIN m) /\ s \in Seq(EntryType)
      /\ State(f) = o.state
      /\ pc[t] \in Holding => o.mutex = t
  BY <1>2 DEF Inv, Typed, TypeOK, Found, OnePayload, Locking, State
<1>4. /\ o.rep \in Seq(EntryType) /\ o.mutex \in Threads \cup {NULL}
      /\ o.state \in {"MODIFIED_MAP", "MODIFIED_REPEATED", "CLEAN"}
  BY <1>3 DEF PayloadType, EntryType
<1>5. /\ o.state = "CLEAN" => m = MapOf(o.rep)
      /\ pc[t] \in {"lock_rep", "unlock_map"} => o.state # "MODIFIED_REPEATED"
      /\ pc[t] \in {"lock_map", "unlock_rep"} => o.state # "MODIFIED_MAP"
      /\ pc[t] = "fill_map" =>
            o.state = "MODIFIED_REPEATED" /\ Merged(m, MapOf(s)) = MapOf(o.rep)
      /\ pc[t] = "fill_rep" => o.state = "MODIFIED_MAP" /\ MapOf(o.rep \o s) = m
  BY <1>3 DEF Inv, Steady, Copying, CleanAgrees, State
<1>6. /\ heap = [heap EXCEPT ![p] = o] /\ map = [map EXCEPT ![f] = m]
      /\ todo = [todo EXCEPT ![t] = s]
  BY <1>3 DEF Inv, Typed, TypeOK
<1>7. /\ f = cur[t] /\ p = mine[t] /\ o = heap[p] /\ m = map[f] /\ s = todo[t]
  OBVIOUS
<1> HIDE DEF f, p, o, m, s
<1> DEFINE Taken == [o EXCEPT !.mutex = t]
<1>8. Taken \in PayloadType /\ Taken.mutex = t /\ Taken.state = o.state /\ Taken.rep = o.rep
  BY <1>3 DEF PayloadType
<1>9. CASE LockToSyncMap(t)
  <2>1. pc[t] = "lock_map" /\ o.mutex = NULL
    BY <1>7, <1>9 DEF LockToSyncMap, Acquires
  <2>2. CASE o.state = "MODIFIED_REPEATED"
    <3>1. Own(t, "fill_map", f, p, Taken, <<>>, o.rep)
      BY <1>6, <1>7, <1>9, <2>2 DEF LockToSyncMap, StillStale, Goto, Own, Locked
    <3>2. Merged(<<>>, MapOf(o.rep)) = MapOf(Taken.rep)
      BY <1>4, <1>8, MapOfType, MergedEmpty
    <3>3. Owned(t, "fill_map", f, p, Taken, <<>>, o.rep)
      BY <1>3, <1>7, <1>8, <2>1, <2>2, <3>2 DEF Owned
    <3>4. <<>> \in Maps /\ IsFiniteSet(DOMAIN <<>>)
      BY EmptyMap
    <3> QED BY <1>2, <1>3, <1>4, <1>8, <3>1, <3>3, <3>4, OwnStep DEF Stages
  <2>3. CASE o.state # "MODIFIED_REPEATED"
    <3>1. Own(t, "unlock_map", f, p, Taken, m, s)
      BY <1>6, <1>7, <1>9, <2>3 DEF LockToSyncMap, StillStale, Goto, Own, Locked
    <3>2. Owned(t, "unlock_map", f, p, Taken, m, s)
      BY <1>3, <1>5, <1>7, <1>8, <2>1, <2>3 DEF Owned
    <3> QED BY <1>2, <1>3, <1>4, <1>8, <3>1, <3>2, OwnStep DEF Stages
  <2> QED BY <2>2, <2>3
<1>10. CASE LockToSyncRep(t)
  <2>1. pc[t] = "lock_rep" /\ o.mutex = NULL
    BY <1>7, <1>10 DEF LockToSyncRep, Acquires
  <2>2. CASE o.state = "MODIFIED_MAP"
    <3> DEFINE r == [Taken EXCEPT !.rep = <<>>]
    <3>1. Own(t, "fill_rep", f, p, r, m, EntriesOf(m))
      BY <1>6, <1>7, <1>10, <2>2 DEF LockToSyncRep, StillStale, Goto, Own, Locked
    <3>2. r \in PayloadType /\ r.mutex = t /\ r.state = o.state /\ r.rep = <<>>
      <4>1. <<>> \in Seq([key : Keys, value : Values])
        OBVIOUS
      <4>2. Taken = [rep |-> o.rep, state |-> o.state, mutex |-> t]
        BY <1>3 DEF PayloadType
      <4> HIDE DEF Taken
      <4>3. r = [rep |-> <<>>, state |-> o.state, mutex |-> t]
        BY <4>2
      <4> QED BY <1>4, <4>1, <4>3 DEF PayloadType
    <3>3. EntriesOf(m) \in Seq(EntryType) /\ MapOf(EntriesOf(m)) = m
      BY <1>3, EntriesOfMap
    <3>4. <<>> \o EntriesOf(m) = EntriesOf(m)
      BY <3>3, ConcatEmptySeq
    <3> HIDE DEF r
    <3>5. Owned(t, "fill_rep", f, p, r, m, EntriesOf(m))
      BY <1>3, <1>7, <2>1, <2>2, <3>2, <3>3, <3>4 DEF Owned
    <3> QED BY <1>2, <1>3, <3>1, <3>2, <3>3, <3>5, OwnStep DEF Stages
  <2>3. CASE o.state # "MODIFIED_MAP"
    <3>1. Own(t, "unlock_rep", f, p, Taken, m, s)
      BY <1>6, <1>7, <1>10, <2>3 DEF LockToSyncRep, StillStale, Goto, Own, Locked
    <3>2. Owned(t, "unlock_rep", f, p, Taken, m, s)
      BY <1>3, <1>5, <1>7, <1>8, <2>1, <2>3 DEF Owned
    <3> QED BY <1>2, <1>3, <1>4, <1>8, <3>1, <3>2, OwnStep DEF Stages
  <2> QED BY <2>2, <2>3
<1>11. CASE FillMap(t)
  <2> DEFINE n == With(m, Head(s).key, Head(s).value)
  <2>1. pc[t] = "fill_map" /\ s # <<>> /\ Own(t, "fill_map", f, p, o, n, Tail(s))
    BY <1>6, <1>7, <1>11 DEF FillMap, Goto, Own
  <2>2. Head(s) \in EntryType /\ Tail(s) \in Seq(EntryType)
    BY <1>3, <2>1, HeadTailProperties
  <2>3. n \in Maps /\ IsFiniteSet(DOMAIN n)
    BY <1>3, <2>2, WithType DEF EntryType
  <2>4. Merged(n, MapOf(Tail(s))) = Merged(m, MapOf(s))
    BY <1>3, <2>1, MapOfTail
  <2> HIDE DEF n
  <2>5. Owned(t, "fill_map", f, p, o, n, Tail(s))
    BY <1>3, <1>5, <1>7, <2>1, <2>4 DEF Owned, Holding
  <2> QED BY <1>2, <1>3, <2>1, <2>2, <2>3, <2>5, OwnStep DEF Stages
<1>12. CASE FillRep(t)
  <2> DEFINE e == Head(s)
             r == [o EXCEPT !.rep = Append(o.rep, e)]
  <2>1. pc[t] = "fill_rep" /\ s # <<>> /\ Own(t, "fill_rep", f, p, r, m, Tail(s))
    BY <1>6, <1>7, <1>12 DEF FillRep, Goto, Own
  <2>2. e \in EntryType /\ Tail(s) \in Seq(EntryType) /\ Append(o.rep, e) \in Seq(EntryType)
    BY <1>3, <1>4, <2>1, HeadTailProperties, AppendProperties
  <2>3. r \in PayloadType /\ r.mutex = o.mutex /\ r.state = o.state /\ r.rep = Append(o.rep, e)
    BY <1>3, <2>2 DEF PayloadType, EntryType
  <2>4. Append(o.rep, e) \o Tail(s) = o.rep \o s
    BY <1>3, <1>4, <2>1, AppendHeadTail
  <2> HIDE DEF r, e
  <2>5. Owned(t, "fill_rep", f, p, r, m, Tail(s))
    BY <1>3, <1>5, <1>7, <2>1, <2>3, <2>4 DEF Owned, Holding
  <2> QED BY <1>2, <1>3, <2>1, <2>2, <2>3, <2>5, OwnStep DEF Stages
<1>13. CASE SetClean(t)
  <2> DEFINE r == [o EXCEPT !.state = "CLEAN"]
  <2>1. r \in PayloadType /\ r.mutex = o.mutex /\ r.state = "CLEAN" /\ r.rep = o.rep
    BY <1>3 DEF PayloadType
  <2>2. s = <<>> /\ pc[t] \in Holding
    BY <1>7, <1>13 DEF SetClean, Synced, Goto, Holding
  <2>3. m = MapOf(o.rep)
    <3>1. CASE pc[t] = "fill_map"
      BY <1>3, <1>5, <2>2, <3>1, MergedEmpty
    <3>2. CASE pc[t] = "fill_rep"
      BY <1>4, <1>5, <2>2, <3>2, ConcatEmptySeq
    <3> QED BY <1>13, <3>1, <3>2 DEF SetClean, Goto
  <2>4. PICK to \in {"unlock_map", "unlock_rep"} : Own(t, to, f, p, r, m, s)
    BY <1>6, <1>7, <1>13 DEF SetClean, Goto, Own
  <2> HIDE DEF r
  <2>5. Owned(t, to, f, p, r, m, s)
    BY <1>3, <1>7, <2>1, <2>2, <2>3, <2>4 DEF Owned
  <2> QED BY <1>2, <1>3, <2>1, <2>4, <2>5, OwnStep DEF Stages
<1> DEFINE r == [o EXCEPT !.mutex = NULL]
<1>14. r \in PayloadType /\ r.mutex = NULL /\ r.state = o.state /\ r.rep = o.rep
  BY <1>3 DEF PayloadType
<1>15. CASE Unlock(t)
  <2>1. PICK to \in {"read_map", "read_rep"} : Own(t, to, f, p, r, m, s) /\
          pc[t] = IF to = "read_map" THEN "unlock_map" ELSE "unlock_rep"
    BY <1>6, <1>7, <1>15 DEF Unlock, Goto, Own, Released
  <2> HIDE DEF r
  <2>2. Owned(t, to, f, p, r, m, s)
    BY <1>3, <1>5, <1>7, <1>14, <2>1 DEF Owned, Holding
  <2> QED BY <1>2, <1>3, <1>14, <2>1, <2>2, OwnStep DEF Stages
<1>16. CASE LockToMeasure(t)
  <2>1. pc[t] = "lock_to_measure" /\ o.mutex = NULL
    BY <1>7, <1>16 DEF LockToMeasure, Acquires
  <2>2. Own(t, "measure_both", f, p, Taken, m, s)
    BY <1>6, <1>7, <1>16 DEF LockToMeasure, Goto, Own, Locked
  <2>3. Owned(t, "measure_both", f, p, Taken, m, s)
    BY <1>3, <1>5, <1>7, <1>8, <2>1 DEF Owned
  <2> QED BY <1>2, <1>3, <1>8, <2>2, <2>3, OwnStep DEF Stages
<1>17. CASE Measured(t)
  <2>1. pc[t] = "measure_both" /\ Own(t, "idle", f, p, r, m, s)
    BY <1>6, <1>7, <1>17 DEF Measured, Goto, Own, Released
  <2> HIDE DEF r
  <2>2. Owned(t, "idle", f, p, r, m, s)
    BY <1>3, <1>5, <1>7, <1>14, <2>1 DEF Owned, Holding
  <2> QED BY <1>2, <1>3, <1>14, <2>1, <2>2, OwnStep DEF Stages
<1> QED BY <1>9, <1>10, <1>11, <1>12, <1>13, <1>15, <1>16, <1>17

(* An allocation returns an address that nothing has                         *)
LEMMA NewIsFree ==
    ASSUME Free # {}
    PROVE  NewAddress \in Payloads /\ heap[NewAddress] = NULL
BY DEF NewAddress, Free

(* A payload begins with the map as the valid side                           *)
LEMMA FreshType == FreshPayload \in PayloadType /\ FreshPayload.state = "MODIFIED_MAP"
<1>1. <<>> \in Seq([key : Keys, value : Values])
  OBVIOUS
<1> QED BY <1>1 DEF FreshPayload, PayloadType

(* A payload that is made and not yet published is the secret of one thread  *)
LEMMA MakePayloadStep ==
    ASSUME Inv, NEW t \in Threads, MakePayload(t)
    PROVE  Inv' /\ Meaning' = Meaning
<1> USE ConstantsAssumption, NullAssumption
<1> DEFINE n == NewAddress
           new == FreshPayload
<1>1. n \in Payloads /\ heap[n] = NULL /\ n # NULL
      /\ new \in PayloadType /\ new # NULL /\ new.state = "MODIFIED_MAP"
  BY NewIsFree, FreshType DEF MakePayload
<1>2. heap' = [heap EXCEPT ![n] = new] /\ mine' = [mine EXCEPT ![t] = n]
      /\ pc' = [pc EXCEPT ![t] = "publish"] /\ pc[t] = "payload"
      /\ arena' = arena /\ map' = map /\ payload' = payload /\ cur' = cur /\ todo' = todo
  BY DEF MakePayload, Goto
<1> HIDE DEF n, new
<1>3. /\ pc'[t] = "publish" /\ mine'[t] = n /\ heap'[n] = new
      /\ \A u \in Threads : u # t => pc'[u] = pc[u] /\ mine'[u] = mine[u]
      /\ \A q \in Payloads : q # n => heap'[q] = heap[q]
  BY <1>1, <1>2 DEF Inv, Typed, TypeOK
<1>4. /\ pc' \in [Threads -> Stages] /\ mine' \in [Threads -> Payloads \cup {NULL}]
      /\ heap' \in [Payloads -> PayloadType \cup {NULL}]
  BY <1>1, <1>2 DEF Inv, Typed, TypeOK, Stages
<1>5. pc[t] = "payload" /\ cur' = cur /\ payload' = payload /\ map' = map /\ todo' = todo
      /\ arena' = arena
  BY <1>2
<1>6. /\ \A f \in Fields : payload[f] # NULL =>
            payload[f] \in Payloads /\ payload[f] # n /\ heap'[payload[f]] = heap[payload[f]]
      /\ \A u \in Threads : mine[u] # NULL =>
            mine[u] \in Payloads /\ mine[u] # n /\ heap'[mine[u]] = heap[mine[u]]
  BY <1>1, <1>3 DEF Inv, Typed, TypeOK, OnePayload
<1>7. \A u \in Threads :
         /\ pc[u] # "idle" => cur[u] \in Fields /\ cur[u] # NULL
         /\ pc[u] \in Working => mine[u] # NULL
  BY DEF Inv, Typed, TypeOK, Found
<1>8. Typed'
  <2>1. \A u \in Threads : (pc'[u] = "idle") <=> (cur[u] = NULL)
    <3>1. ASSUME NEW u \in Threads PROVE (pc'[u] = "idle") <=> (cur[u] = NULL)
      <4>1. CASE u = t
        BY <1>3, <1>5, <1>7, <4>1
      <4>2. CASE u # t
        BY <1>3, <4>2 DEF Inv, Typed, TypeOK
      <4> QED BY <4>1, <4>2
    <3> QED BY <3>1
  <2>2. \A f \in Fields : payload[f] # NULL => heap'[payload[f]] # NULL
    BY <1>6 DEF Inv, Typed, TypeOK
  <2>3. TypeOK'
    BY <1>4, <1>5, <2>1, <2>2 DEF Inv, Typed, TypeOK
  <2> QED BY <1>4, <1>5, <2>3 DEF Inv, Typed
<1>9. OnePayload'
  <2>1. ASSUME NEW q \in Payloads, heap'[q] # NULL
        PROVE  \/ \E g \in Fields : payload[g] = q
               \/ \E u \in Threads : pc'[u] = "publish" /\ mine'[u] = q
               \/ \E g \in Fields : arena[g] # NULL
    <3>1. CASE q = n
      BY <1>3, <3>1
    <3>2. CASE q # n
      <4>1. heap[q] # NULL
        BY <1>3, <2>1, <3>2
      <4>2. ASSUME NEW u \in Threads, pc[u] = "publish" PROVE u # t
        BY <1>5, <4>2
      <4> QED BY <1>3, <4>1, <4>2 DEF Inv, OnePayload
    <3> QED BY <3>1, <3>2
  <2>2. ASSUME NEW u \in Threads, mine'[u] # NULL
        PROVE  heap'[mine'[u]] # NULL /\ (pc'[u] # "publish" => mine'[u] = payload[cur[u]])
    <3>1. CASE u = t
      BY <1>1, <1>3, <3>1
    <3>2. CASE u # t
      BY <1>3, <1>6, <2>2, <3>2 DEF Inv, OnePayload
    <3> QED BY <3>1, <3>2
  <2>3. \A f, g \in Fields : payload[f] # NULL /\ payload[f] = payload[g] => f = g
    BY DEF Inv, OnePayload
  <2> QED BY <1>5, <2>1, <2>2, <2>3 DEF OnePayload
<1>10. Found'
  <2> SUFFICES ASSUME NEW u \in Threads
               PROVE  /\ pc'[u] = "idle" => mine'[u] = NULL
                      /\ pc'[u] \in Working => mine'[u] # NULL
                      /\ pc'[u] = "sync_map" => payload[cur[u]] # NULL
    BY <1>5 DEF Found
  <2>1. CASE u = t
    BY <1>1, <1>3, <2>1
  <2>2. CASE u # t
    BY <1>3, <2>2 DEF Inv, Found
  <2> QED BY <2>1, <2>2
<1>11. Locking'
  <2> SUFFICES ASSUME NEW u \in Threads, pc'[u] \in Holding PROVE heap'[mine'[u]].mutex = u
    BY DEF Locking
  <2>1. u # t
    BY <1>3 DEF Holding
  <2> QED BY <1>3, <1>6, <1>7, <2>1 DEF Inv, Locking, Working
<1>12. Publishing'
  <2> SUFFICES ASSUME NEW u \in Threads, pc'[u] = "publish"
               PROVE  /\ \A g \in Fields : payload[g] # mine'[u]
                      /\ \A v \in Threads : v # u => mine'[v] # mine'[u]
                      /\ heap'[mine'[u]].state = "MODIFIED_MAP"
    BY <1>5 DEF Publishing
  <2>1. CASE u = t
    BY <1>1, <1>3, <1>6, <2>1
  <2>2. CASE u # t
    <3>1. pc[u] = "publish" /\ mine'[u] = mine[u]
      BY <1>3, <2>2
    <3>2. mine[u] # NULL
      BY <1>7, <3>1 DEF Working
    <3>3. /\ \A g \in Fields : payload[g] # mine[u]
          /\ \A v \in Threads : v # u => mine[v] # mine[u]
          /\ heap[mine[u]].state = "MODIFIED_MAP"
      BY <3>1 DEF Inv, Publishing
    <3> QED BY <1>3, <1>6, <3>1, <3>2, <3>3
  <2> QED BY <2>1, <2>2
<1>13. Steady'
  <2> DEFINE Now(g) == IF payload[g] = NULL THEN "MODIFIED_MAP" ELSE heap'[payload[g]].state
  <2>1. \A u \in Threads : pc[u] # "idle" => Now(cur[u]) = State(cur[u])
    BY <1>6, <1>7 DEF State
  <2> HIDE DEF Now
  <2>2. ASSUME NEW u \in Threads
        PROVE  /\ pc'[u] \in {"read_map", "measure_map", "read_default", "payload",
                              "publish", "lock_rep", "unlock_map"} =>
                     Now(cur[u]) # "MODIFIED_REPEATED"
               /\ pc'[u] \in {"read_rep", "lock_map", "unlock_rep"} =>
                     Now(cur[u]) # "MODIFIED_MAP"
               /\ pc'[u] = "fill_map" => Now(cur[u]) = "MODIFIED_REPEATED"
               /\ pc'[u] = "fill_rep" => Now(cur[u]) = "MODIFIED_MAP"
    <3>1. CASE u = t
      BY <1>3, <1>5, <2>1, <3>1 DEF Inv, Steady
    <3>2. CASE u # t /\ pc[u] # "idle"
      BY <1>3, <2>1, <3>2 DEF Inv, Steady
    <3>3. CASE u # t /\ pc[u] = "idle"
      BY <1>3, <3>3
    <3> QED BY <3>1, <3>2, <3>3
  <2> QED BY <1>5, <2>2 DEF Steady, State, Now
<1>14. Copying'
  <2> SUFFICES ASSUME NEW u \in Threads
               PROVE  /\ pc'[u] = "fill_map" =>
                           Merged(map[cur[u]], MapOf(todo[u])) = MapOf(heap'[mine'[u]].rep)
                      /\ pc'[u] = "fill_rep" =>
                           MapOf(heap'[mine'[u]].rep \o todo[u]) = map[cur[u]]
                      /\ pc'[u] = "read_default" => map[cur[u]] = <<>>
    BY <1>5 DEF Copying
  <2>1. CASE u = t
    BY <1>3, <2>1
  <2>2. CASE u # t
    BY <1>3, <1>6, <1>7, <2>2 DEF Inv, Copying, Working, Holding
  <2> QED BY <2>1, <2>2
<1>15. CleanAgrees'
  BY <1>5, <1>6 DEF Inv, CleanAgrees, State
<1>16. Meaning' = Meaning
  BY <1>5, <1>6, MeaningIs
<1> QED BY <1>8, <1>9, <1>10, <1>11, <1>12, <1>13, <1>14, <1>15, <1>16 DEF Inv

(* Whoever wins, the loser's payload is nobody's and the winner's state is   *)
(* what everybody assumed.                                                   *)
LEMMA PublishPayloadStep ==
    ASSUME Inv, NEW t \in Threads, PublishPayload(t)
    PROVE  Inv' /\ Meaning' = Meaning
<1> USE ConstantsAssumption, NullAssumption
<1> DEFINE f == cur[t]
           n == mine[t]
           w == IF payload[f] = NULL THEN n ELSE payload[f]
<1>1. /\ pc[t] = "publish" /\ pc' = [pc EXCEPT ![t] = "lock_rep"]
      /\ payload' = [payload EXCEPT ![f] = w] /\ mine' = [mine EXCEPT ![t] = w]
      /\ heap' = IF w # n /\ arena[f] = NULL THEN [heap EXCEPT ![n] = NULL] ELSE heap
      /\ arena' = arena /\ map' = map /\ cur' = cur /\ todo' = todo
  BY DEF PublishPayload, Goto, Discarded
<1>2. /\ f \in Fields /\ f # NULL /\ n \in Payloads /\ n # NULL /\ heap[n] # NULL
      /\ \A g \in Fields : payload[g] # n
      /\ \A u \in Threads : u # t => mine[u] # n
      /\ heap[n].state = "MODIFIED_MAP" /\ State(f) # "MODIFIED_REPEATED"
      /\ payload[f] # NULL => payload[f] \in Payloads /\ heap[payload[f]] # NULL
  BY <1>1 DEF Inv, Typed, TypeOK, Found, Working, OnePayload, Publishing, Steady
<1>3. f = cur[t] /\ n = mine[t]
  OBVIOUS
<1>4. w \in Payloads /\ w # NULL /\ heap[w] # NULL /\ (w = n \/ w = payload[f])
      /\ (payload[f] = NULL <=> w = n) /\ (payload[f] # NULL => w = payload[f])
  BY <1>2
<1> HIDE DEF f, n, w
<1>5. /\ pc'[t] = "lock_rep" /\ mine'[t] = w /\ payload'[f] = w
      /\ \A u \in Threads : u # t => pc'[u] = pc[u] /\ mine'[u] = mine[u]
      /\ \A g \in Fields : g # f => payload'[g] = payload[g]
      /\ \A q \in Payloads : q # n => heap'[q] = heap[q]
      /\ heap'[w] = heap[w]
      /\ heap'[n] # NULL => heap'[n] = heap[n] /\ (w # n => arena[f] # NULL)
  BY <1>1, <1>2, <1>3, <1>4 DEF Inv, Typed, TypeOK
<1>6. /\ pc' \in [Threads -> Stages] /\ mine' \in [Threads -> Payloads \cup {NULL}]
      /\ payload' \in [Fields -> Payloads \cup {NULL}]
      /\ heap' \in [Payloads -> PayloadType \cup {NULL}]
  <2>1. pc' \in [Threads -> Stages] /\ mine' \in [Threads -> Payloads \cup {NULL}]
        /\ payload' \in [Fields -> Payloads \cup {NULL}]
    BY <1>1, <1>4 DEF Inv, Typed, TypeOK, Stages
  <2>2. [heap EXCEPT ![n] = NULL] \in [Payloads -> PayloadType \cup {NULL}]
        /\ heap \in [Payloads -> PayloadType \cup {NULL}]
    BY DEF Inv, Typed, TypeOK
  <2> QED BY <1>1, <2>1, <2>2
<1>7. arena' = arena /\ map' = map /\ cur' = cur /\ todo' = todo /\ pc[t] = "publish"
      /\ cur[t] = f /\ mine[t] = n
  BY <1>1, <1>3
<1>8. /\ \A g \in Fields : payload[g] # NULL =>
            payload'[g] = payload[g] /\ heap'[payload[g]] = heap[payload[g]]
            /\ payload[g] \in Payloads /\ heap[payload[g]] # NULL
      /\ \A g \in Fields : payload[g] = NULL /\ g # f => payload'[g] = NULL
      /\ \A u \in Threads : u # t /\ mine[u] # NULL =>
            mine[u] \in Payloads /\ heap'[mine[u]] = heap[mine[u]] /\ heap[mine[u]] # NULL
  <2>1. \A g \in Fields : payload[g] # NULL => payload[g] \in Payloads /\ heap[payload[g]] # NULL
    BY DEF Inv, Typed, TypeOK
  <2>2. \A u \in Threads : mine[u] # NULL => mine[u] \in Payloads /\ heap[mine[u]] # NULL
    BY DEF Inv, Typed, TypeOK, OnePayload
  <2> QED BY <1>2, <1>4, <1>5, <2>1, <2>2
<1>9. \A u \in Threads :
         /\ pc[u] # "idle" => cur[u] \in Fields /\ cur[u] # NULL
         /\ pc[u] \in Working => mine[u] # NULL
         /\ mine[u] # NULL /\ pc[u] # "publish" =>
               mine[u] = payload[cur[u]] /\ pc[u] # "idle"
  BY DEF Inv, Typed, TypeOK, Found, OnePayload
<1>10. Typed'
  <2>1. ASSUME NEW u \in Threads PROVE (pc'[u] = "idle") <=> (cur[u] = NULL)
    <3>1. CASE u = t
      BY <1>2, <1>5, <1>7, <3>1
    <3>2. CASE u # t
      BY <1>5, <3>2 DEF Inv, Typed, TypeOK
    <3> QED BY <3>1, <3>2
  <2>2. ASSUME NEW g \in Fields, payload'[g] # NULL PROVE heap'[payload'[g]] # NULL
    BY <1>4, <1>5, <1>8, <2>2
  <2>3. TypeOK'
    BY <1>6, <1>7, <2>1, <2>2 DEF Inv, Typed, TypeOK
  <2> QED BY <1>6, <1>7, <2>3 DEF Inv, Typed
<1>11. OnePayload'
  <2>1. ASSUME NEW q \in Payloads, heap'[q] # NULL
        PROVE  \/ \E g \in Fields : payload'[g] = q
               \/ \E u \in Threads : pc'[u] = "publish" /\ mine'[u] = q
               \/ \E g \in Fields : arena[g] # NULL
    <3>1. CASE q = n
      BY <1>2, <1>5, <2>1, <3>1
    <3>2. CASE q # n
      <4>1. heap[q] # NULL
        BY <1>5, <2>1, <3>2
      <4>2. CASE \E g \in Fields : payload[g] = q
        BY <1>8, <4>2
      <4>3. ASSUME NEW u \in Threads, pc[u] = "publish", mine[u] = q
            PROVE  pc'[u] = "publish" /\ mine'[u] = q
        BY <1>5, <1>7, <3>2, <4>3
      <4> QED BY <4>1, <4>2, <4>3 DEF Inv, OnePayload
    <3> QED BY <3>1, <3>2
  <2>2. ASSUME NEW u \in Threads, mine'[u] # NULL
        PROVE  heap'[mine'[u]] # NULL /\ (pc'[u] # "publish" => mine'[u] = payload'[cur[u]])
    <3>1. CASE u = t
      BY <1>4, <1>5, <1>7, <3>1
    <3>2. CASE u # t
      <4>1. mine'[u] = mine[u] /\ pc'[u] = pc[u] /\ mine[u] # NULL
        BY <1>5, <2>2, <3>2
      <4>2. pc[u] # "publish" => payload'[cur[u]] = mine[u]
        BY <1>8, <1>9, <4>1
      <4> QED BY <1>8, <3>2, <4>1, <4>2
    <3> QED BY <3>1, <3>2
  <2>3. ASSUME NEW g \in Fields, NEW h \in Fields, payload'[g] # NULL, payload'[g] = payload'[h]
        PROVE  g = h
    <3>1. \A i, j \in Fields : payload[i] # NULL /\ payload[i] = payload[j] => i = j
      BY DEF Inv, OnePayload
    <3> QED BY <1>2, <1>4, <1>5, <2>3, <3>1
  <2> QED BY <1>7, <2>1, <2>2, <2>3 DEF OnePayload
<1>12. Found'
  <2> SUFFICES ASSUME NEW u \in Threads
               PROVE  /\ pc'[u] = "idle" => mine'[u] = NULL
                      /\ pc'[u] \in Working => mine'[u] # NULL
                      /\ pc'[u] = "sync_map" => payload'[cur[u]] # NULL
    BY <1>7 DEF Found
  <2>1. CASE u = t
    BY <1>4, <1>5, <2>1
  <2>2. CASE u # t
    <3>1. pc[u] = "sync_map" => cur[u] \in Fields /\ payload[cur[u]] # NULL
      BY <1>9 DEF Inv, Found
    <3> QED BY <1>5, <1>8, <2>2, <3>1 DEF Inv, Found
  <2> QED BY <2>1, <2>2
<1>13. Locking'
  <2> SUFFICES ASSUME NEW u \in Threads, pc'[u] \in Holding PROVE heap'[mine'[u]].mutex = u
    BY DEF Locking
  <2>1. u # t
    BY <1>5 DEF Holding
  <2> QED BY <1>5, <1>8, <1>9, <2>1 DEF Inv, Locking, Working
<1>14. Publishing'
  <2> SUFFICES ASSUME NEW u \in Threads, pc'[u] = "publish"
               PROVE  /\ \A g \in Fields : payload'[g] # mine'[u]
                      /\ \A v \in Threads : v # u => mine'[v] # mine'[u]
                      /\ heap'[mine'[u]].state = "MODIFIED_MAP"
    BY DEF Publishing
  <2>1. u # t /\ pc[u] = "publish" /\ mine'[u] = mine[u]
    BY <1>5
  <2>2. mine[u] # NULL
    BY <1>9, <2>1 DEF Working
  <2>3. /\ \A g \in Fields : payload[g] # mine[u]
        /\ \A v \in Threads : v # u => mine[v] # mine[u]
        /\ heap[mine[u]].state = "MODIFIED_MAP"
    BY <2>1 DEF Inv, Publishing
  <2>4. w # mine[u]
    BY <1>2, <1>4, <2>1, <2>3
  <2> QED BY <1>5, <1>8, <2>1, <2>2, <2>3, <2>4
<1> DEFINE Now(g) == IF payload'[g] = NULL THEN "MODIFIED_MAP" ELSE heap'[payload'[g]].state
<1>15. \A g \in Fields : Now(g) = State(g)
  <2>1. CASE payload[f] = NULL
    BY <1>2, <1>4, <1>5, <1>8, <2>1 DEF State
  <2>2. CASE payload[f] # NULL
    BY <1>2, <1>4, <1>5, <1>8, <2>2 DEF State
  <2> QED BY <2>1, <2>2
<1> HIDE DEF Now
<1>16. Steady'
  <2>1. ASSUME NEW u \in Threads
        PROVE  /\ pc'[u] \in {"read_map", "measure_map", "read_default", "payload",
                              "publish", "lock_rep", "unlock_map"} =>
                     Now(cur[u]) # "MODIFIED_REPEATED"
               /\ pc'[u] \in {"read_rep", "lock_map", "unlock_rep"} =>
                     Now(cur[u]) # "MODIFIED_MAP"
               /\ pc'[u] = "fill_map" => Now(cur[u]) = "MODIFIED_REPEATED"
               /\ pc'[u] = "fill_rep" => Now(cur[u]) = "MODIFIED_MAP"
    <3>1. CASE u = t
      BY <1>2, <1>5, <1>7, <1>15, <3>1
    <3>2. CASE u # t /\ pc[u] # "idle"
      BY <1>5, <1>9, <1>15, <3>2 DEF Inv, Steady
    <3>3. CASE u # t /\ pc[u] = "idle"
      BY <1>5, <3>3
    <3> QED BY <3>1, <3>2, <3>3
  <2> QED BY <1>7, <2>1 DEF Steady, State, Now
<1>17. Copying'
  <2> SUFFICES ASSUME NEW u \in Threads
               PROVE  /\ pc'[u] = "fill_map" =>
                           Merged(map[cur[u]], MapOf(todo[u])) = MapOf(heap'[mine'[u]].rep)
                      /\ pc'[u] = "fill_rep" =>
                           MapOf(heap'[mine'[u]].rep \o todo[u]) = map[cur[u]]
                      /\ pc'[u] = "read_default" => map[cur[u]] = <<>>
    BY <1>7 DEF Copying
  <2>1. CASE u = t
    BY <1>5, <2>1
  <2>2. CASE u # t
    BY <1>5, <1>8, <1>9, <2>2 DEF Inv, Copying, Working, Holding
  <2> QED BY <2>1, <2>2
<1>18. CleanAgrees'
  <2> SUFFICES ASSUME NEW g \in Fields, Now(g) = "CLEAN"
               PROVE  map[g] = MapOf(heap'[payload'[g]].rep)
    BY <1>7 DEF CleanAgrees, State, Now
  <2>1. payload[g] # NULL
    BY <1>15 DEF State
  <2> QED BY <1>8, <1>15, <2>1 DEF Inv, CleanAgrees
<1>19. Meaning' = Meaning
  <2> DEFINE now(g) == IF payload'[g] # NULL /\ heap'[payload'[g]].state = "MODIFIED_REPEATED"
                       THEN MapOf(heap'[payload'[g]].rep) ELSE map[g]
             was(g) == IF payload[g] # NULL /\ heap[payload[g]].state = "MODIFIED_REPEATED"
                       THEN MapOf(heap[payload[g]].rep) ELSE map[g]
  <2>1. ASSUME NEW g \in Fields PROVE now(g) = was(g)
    <3>1. CASE payload[g] # NULL
      BY <1>8, <3>1
    <3>2. CASE payload[g] = NULL
      BY <1>2, <1>4, <1>5, <1>8, <3>2
    <3> QED BY <3>1, <3>2
  <2>2. Meaning = [g \in Fields |-> was(g)] /\ Meaning' = [g \in Fields |-> now(g)]
    BY <1>7, MeaningIs
  <2> HIDE DEF now, was
  <2> QED BY <2>1, <2>2
<1> QED BY <1>10, <1>11, <1>12, <1>13, <1>14, <1>16, <1>17, <1>18, <1>19 DEF Inv

(* A mutator that keeps every field its payload *)
LEMMA RewriteInv ==
    ASSUME Inv, UNCHANGED <<arena, payload, locals>>,
           map' \in [Fields -> Maps], \A f \in Fields : IsFiniteSet(DOMAIN map'[f]),
           heap' \in [Payloads -> PayloadType \cup {NULL}],
           \A f \in Fields : map'[f] # map[f] => Exclusive(f),
           \A p \in Payloads : heap'[p] # heap[p] =>
               /\ heap[p] # NULL /\ heap'[p] # NULL
               /\ \E f \in Fields : Exclusive(f) /\ payload[f] = p,
           CleanAgrees'
    PROVE  Inv'
<1> USE ConstantsAssumption, NullAssumption
<1>1. Alone
  BY DEF Alone, Inv, Typed, TypeOK
<1>2. /\ \A f \in Fields : payload[f] # NULL => payload[f] \in Payloads /\ heap[payload[f]] # NULL
      /\ \A f, g \in Fields : payload[f] # NULL /\ payload[f] = payload[g] => f = g
  BY DEF Inv, Typed, TypeOK, OnePayload
<1>3. ASSUME NEW f \in Fields, ~Exclusive(f), payload[f] # NULL
      PROVE  heap'[payload[f]] = heap[payload[f]]
  <2> SUFFICES ASSUME heap'[payload[f]] # heap[payload[f]] PROVE FALSE
    OBVIOUS
  <2>1. PICK g \in Fields : Exclusive(g) /\ payload[g] = payload[f]
    BY <1>2, <1>3
  <2> QED BY <1>2, <1>3, <2>1
<1>4. ASSUME NEW f \in Fields, payload[f] # NULL PROVE heap'[payload[f]] # NULL
  BY <1>2, <1>4
<1>5. Kept
  BY <1>2, <1>3, <1>4 DEF Kept
<1> QED BY <1>1, <1>5, MutateInv

(* SyncMapWithRepeatedField leaves a map *)
LEMMA SyncedMapType ==
    ASSUME Inv, NEW f \in Fields
    PROVE  SyncedMap(f) \in Maps /\ IsFiniteSet(DOMAIN SyncedMap(f))
<1> USE ConstantsAssumption, NullAssumption
<1>1. CASE State(f) = "MODIFIED_REPEATED"
  <2>1. payload[f] # NULL
    BY <1>1 DEF State
  <2>2. heap[payload[f]] \in PayloadType
    BY <2>1 DEF Inv, Typed, TypeOK
  <2>3. heap[payload[f]].rep \in Seq(EntryType)
    BY <2>2 DEF PayloadType, EntryType
  <2> QED BY <1>1, <2>3, MapOfType DEF SyncedMap
<1>2. CASE State(f) # "MODIFIED_REPEATED"
  BY <1>2 DEF SyncedMap, Inv, Typed, TypeOK
<1> QED BY <1>1, <1>2

(* The heap that SetMapDirty leaves *)
LEMMA MapDirtyHeap ==
    ASSUME Inv, NEW f \in Fields
    PROVE  /\ MapDirty(f) \in [Payloads -> PayloadType \cup {NULL}]
           /\ \A p \in Payloads : p # payload[f] => MapDirty(f)[p] = heap[p]
           /\ payload[f] # NULL =>
                 /\ payload[f] \in Payloads /\ MapDirty(f)[payload[f]] \in PayloadType
                 /\ MapDirty(f)[payload[f]].state = "MODIFIED_MAP"
<1> USE ConstantsAssumption, NullAssumption
<1>1. CASE payload[f] = NULL
  BY <1>1 DEF MapDirty, Inv, Typed, TypeOK
<1>2. CASE payload[f] # NULL
  <2> DEFINE p == payload[f]
             r == [heap[p] EXCEPT !.state = "MODIFIED_MAP"]
  <2>1. p \in Payloads /\ heap[p] \in PayloadType /\ heap \in [Payloads -> PayloadType \cup {NULL}]
    BY <1>2 DEF Inv, Typed, TypeOK
  <2>2. r \in PayloadType /\ r.state = "MODIFIED_MAP"
    BY <2>1 DEF PayloadType
  <2>3. MapDirty(f) = [heap EXCEPT ![p] = r]
    BY <1>2 DEF MapDirty
  <2> HIDE DEF r, p
  <2>4. MapDirty(f)[p] = r
    BY <2>1, <2>3
  <2> QED BY <1>2, <2>1, <2>2, <2>3, <2>4 DEF p
<1> QED BY <1>1, <1>2

(* MutableMap and a change of the map *)
LEMMA DirtyStep ==
    ASSUME Inv, NEW f \in Fields, Exclusive(f), NEW m \in Maps, IsFiniteSet(DOMAIN m),
           map' = [map EXCEPT ![f] = m], heap' = MapDirty(f), UNCHANGED <<arena, payload, locals>>
    PROVE  Inv' /\ Meaning' = [Meaning EXCEPT ![f] = m]
<1> USE ConstantsAssumption, NullAssumption
<1>1. /\ map' \in [Fields -> Maps] /\ map'[f] = m
      /\ \A g \in Fields : g # f => map'[g] = map[g]
  BY DEF Inv, Typed, TypeOK
<1>2. \A g \in Fields : IsFiniteSet(DOMAIN map'[g])
  BY <1>1 DEF Inv, Typed
<1>3. /\ heap' \in [Payloads -> PayloadType \cup {NULL}]
      /\ \A p \in Payloads : p # payload[f] => heap'[p] = heap[p]
      /\ payload[f] # NULL => heap[payload[f]] # NULL /\ heap'[payload[f]] # NULL
                              /\ heap'[payload[f]].state = "MODIFIED_MAP"
  BY MapDirtyHeap DEF Inv, Typed, TypeOK
<1>4. /\ payload' = payload
      /\ \A g \in Fields : payload[g] # NULL => payload[g] \in Payloads
      /\ \A g \in Fields : payload[g] # NULL /\ payload[g] = payload[f] => g = f
  BY DEF Inv, Typed, TypeOK, OnePayload
<1>5. CleanAgrees'
  <2> SUFFICES ASSUME NEW g \in Fields, payload[g] # NULL, heap'[payload[g]].state = "CLEAN"
               PROVE  map'[g] = MapOf(heap'[payload[g]].rep)
    BY <1>4 DEF CleanAgrees, State
  <2>1. g # f
    BY <1>3
  <2>2. heap'[payload[g]] = heap[payload[g]] /\ map'[g] = map[g]
    BY <1>1, <1>3, <1>4, <2>1
  <2> QED BY <2>2 DEF Inv, CleanAgrees, State
<1>6. \A g \in Fields : map'[g] # map[g] => Exclusive(g)
  BY <1>1
<1>7. \A p \in Payloads : heap'[p] # heap[p] =>
          heap[p] # NULL /\ heap'[p] # NULL /\ \E g \in Fields : Exclusive(g) /\ payload[g] = p
  BY <1>3
<1>8. Meaning' = [Meaning EXCEPT ![f] = m]
  <2> DEFINE now(h) == IF payload'[h] # NULL /\ heap'[payload'[h]].state = "MODIFIED_REPEATED"
                       THEN MapOf(heap'[payload'[h]].rep) ELSE map'[h]
             was(h) == IF payload[h] # NULL /\ heap[payload[h]].state = "MODIFIED_REPEATED"
                       THEN MapOf(heap[payload[h]].rep) ELSE map[h]
  <2>1. Meaning = [h \in Fields |-> was(h)] /\ Meaning' = [h \in Fields |-> now(h)]
    BY MeaningIs
  <2>2. now(f) = m
    BY <1>1, <1>3, <1>4
  <2>3. ASSUME NEW h \in Fields, h # f PROVE now(h) = was(h)
    BY <1>1, <1>3, <1>4, <2>3
  <2> HIDE DEF now, was
  <2> QED BY <2>1, <2>2, <2>3
<1> QED BY <1>1, <1>2, <1>3, <1>5, <1>6, <1>7, <1>8, RewriteInv

(* MutableMap syncs the map before the key is put                            *)
LEMMA PutStep ==
    ASSUME Inv, NEW f \in Fields, NEW k \in Keys, NEW v \in Values, Put(f, k, v)
    PROVE  Inv' /\ Meaning' = [Meaning EXCEPT ![f] = With(SyncedMap(f), k, v)]
<1> DEFINE m == With(SyncedMap(f), k, v)
<1>1. m \in Maps /\ IsFiniteSet(DOMAIN m)
  BY SyncedMapType, WithType
<1>2. /\ Exclusive(f) /\ map' = [map EXCEPT ![f] = m] /\ heap' = MapDirty(f)
      /\ UNCHANGED <<arena, payload, locals>>
  BY DEF Put
<1> HIDE DEF m
<1>3. Inv' /\ Meaning' = [Meaning EXCEPT ![f] = m]
  BY <1>1, <1>2, DirtyStep
<1> QED BY <1>3 DEF m

(* ... and before a key is deleted                                           *)
LEMMA EraseStep ==
    ASSUME Inv, NEW f \in Fields, NEW k \in Keys, Erase(f, k)
    PROVE  Inv' /\ Meaning' = [Meaning EXCEPT ![f] = Without(SyncedMap(f), k)]
<1> DEFINE m == Without(SyncedMap(f), k)
<1>1. m \in Maps /\ IsFiniteSet(DOMAIN m)
  BY SyncedMapType, WithoutType
<1>2. /\ Exclusive(f) /\ map' = [map EXCEPT ![f] = m] /\ heap' = MapDirty(f)
      /\ UNCHANGED <<arena, payload, locals>>
  BY DEF Erase
<1> HIDE DEF m
<1>3. Inv' /\ Meaning' = [Meaning EXCEPT ![f] = m]
  BY <1>1, <1>2, DirtyStep
<1> QED BY <1>3 DEF m

(* Clear empties both sides and says that the map was modified               *)
LEMMA ClearStep ==
    ASSUME Inv, NEW f \in Fields, Clear(f)
    PROVE  Inv' /\ Meaning' = [Meaning EXCEPT ![f] = <<>>]
<1> USE ConstantsAssumption, NullAssumption
<1>1. CASE payload[f] = NULL
  <2>1. /\ Exclusive(f) /\ map' = [map EXCEPT ![f] = <<>>] /\ heap' = MapDirty(f)
        /\ UNCHANGED <<arena, payload, locals>>
    BY <1>1 DEF Clear, MapDirty
  <2>2. <<>> \in Maps /\ IsFiniteSet(DOMAIN <<>>)
    BY EmptyMap
  <2> QED BY <2>1, <2>2, DirtyStep
<1>2. CASE payload[f] # NULL
  <2> DEFINE p == payload[f]
             d == MapDirty(f)
             r == [d[p] EXCEPT !.rep = <<>>]
  <2>1. /\ Exclusive(f) /\ map' = [map EXCEPT ![f] = <<>>] /\ heap' = [d EXCEPT ![p] = r]
        /\ payload' = payload /\ UNCHANGED <<arena, payload, locals>>
    BY <1>2 DEF Clear
  <2>2. /\ d \in [Payloads -> PayloadType \cup {NULL}] /\ p \in Payloads /\ d[p] \in PayloadType
        /\ d[p].state = "MODIFIED_MAP" /\ \A q \in Payloads : q # p => d[q] = heap[q]
    BY <1>2, MapDirtyHeap
  <2>3. r \in PayloadType /\ r.state = "MODIFIED_MAP"
    <3>1. <<>> \in Seq([key : Keys, value : Values])
      OBVIOUS
    <3>2. d[p].mutex \in Threads \cup {NULL}
          /\ d[p] = [rep |-> d[p].rep, state |-> d[p].state, mutex |-> d[p].mutex]
      BY <2>2 DEF PayloadType
    <3> HIDE DEF d, p
    <3>3. r = [rep |-> <<>>, state |-> d[p].state, mutex |-> d[p].mutex]
      BY <3>2
    <3> HIDE DEF r
    <3> QED BY <2>2, <3>1, <3>2, <3>3 DEF PayloadType
  <2> HIDE DEF d, r
  <2>4. /\ heap' \in [Payloads -> PayloadType \cup {NULL}] /\ heap'[p] = r
        /\ \A q \in Payloads : q # p => heap'[q] = heap[q]
    BY <2>1, <2>2, <2>3
  <2>5. /\ map' \in [Fields -> Maps] /\ map'[f] = <<>>
        /\ \A g \in Fields : g # f => map'[g] = map[g]
    BY <2>1, EmptyMap DEF Inv, Typed, TypeOK
  <2>6. \A g \in Fields : IsFiniteSet(DOMAIN map'[g])
    BY <2>5, EmptyMap DEF Inv, Typed
  <2>7. /\ heap[p] # NULL /\ r # NULL
        /\ \A g \in Fields : payload[g] # NULL => payload[g] \in Payloads
        /\ \A g \in Fields : payload[g] # NULL /\ payload[g] = p => g = f
    BY <1>2, <2>3 DEF Inv, Typed, TypeOK, OnePayload
  <2>8. p = payload[f]
    OBVIOUS
  <2> HIDE DEF p
  <2>9. CleanAgrees'
    <3> SUFFICES ASSUME NEW g \in Fields, payload[g] # NULL, heap'[payload[g]].state = "CLEAN"
                 PROVE  map'[g] = MapOf(heap'[payload[g]].rep)
      BY <2>1 DEF CleanAgrees, State
    <3>1. g # f
      BY <2>3, <2>4, <2>8
    <3>2. heap'[payload[g]] = heap[payload[g]] /\ map'[g] = map[g]
      BY <2>4, <2>5, <2>7, <3>1
    <3> QED BY <3>2 DEF Inv, CleanAgrees, State
  <2>10. \A g \in Fields : map'[g] # map[g] => Exclusive(g)
    BY <2>1, <2>5
  <2>11. \A q \in Payloads : heap'[q] # heap[q] =>
            heap[q] # NULL /\ heap'[q] # NULL /\ \E g \in Fields : Exclusive(g) /\ payload[g] = q
    BY <2>1, <2>4, <2>7, <2>8
  <2>12. Meaning' = [Meaning EXCEPT ![f] = <<>>]
    <3> DEFINE now(h) == IF payload'[h] # NULL /\ heap'[payload'[h]].state = "MODIFIED_REPEATED"
                         THEN MapOf(heap'[payload'[h]].rep) ELSE map'[h]
               was(h) == IF payload[h] # NULL /\ heap[payload[h]].state = "MODIFIED_REPEATED"
                         THEN MapOf(heap[payload[h]].rep) ELSE map[h]
    <3>1. Meaning = [h \in Fields |-> was(h)] /\ Meaning' = [h \in Fields |-> now(h)]
      BY MeaningIs
    <3>2. now(f) = <<>>
      BY <2>1, <2>3, <2>4, <2>5, <2>8
    <3>3. ASSUME NEW h \in Fields, h # f PROVE now(h) = was(h)
      BY <2>1, <2>4, <2>5, <2>7, <3>3
    <3> HIDE DEF now, was
    <3> QED BY <3>1, <3>2, <3>3
  <2> QED BY <2>1, <2>4, <2>5, <2>6, <2>9, <2>10, <2>11, <2>12, RewriteInv
<1> QED BY <1>1, <1>2

(* The map that GetMap returned is the value of its field *)
LEMMA SourceOfMerge ==
    ASSUME Inv, NEW t \in Threads, pc[t] = "read_map"
    PROVE  cur[t] \in Fields /\ SyncedMap(cur[t]) = map[cur[t]]
<1>1. cur[t] \in Fields
  BY ConstantsAssumption DEF Inv, Typed, TypeOK
<1>2. State(cur[t]) # "MODIFIED_REPEATED"
  BY DEF Inv, Steady
<1> QED BY <1>1, <1>2 DEF SyncedMap

(* A merge changes its target, whoever looks at its source                   *)
LEMMA MergeFromStep ==
    ASSUME Inv, NEW t \in Threads, NEW f \in Fields, MergeFrom(t, f)
    PROVE  Inv' /\ Meaning' = [Meaning EXCEPT ![f] = Merged(SyncedMap(f), SyncedMap(cur[t]))]
<1> DEFINE n == map[cur[t]]
           m == Merged(SyncedMap(f), n)
<1>1. n = SyncedMap(cur[t]) /\ cur[t] \in Fields
  BY SourceOfMerge DEF MergeFrom
<1>2. m \in Maps /\ IsFiniteSet(DOMAIN m)
  BY <1>1, SyncedMapType, MergedType
<1>3. /\ Exclusive(f) /\ map' = [map EXCEPT ![f] = m] /\ heap' = MapDirty(f)
      /\ UNCHANGED <<arena, payload, locals>>
  BY DEF MergeFrom
<1> HIDE DEF m, n
<1>4. Inv' /\ Meaning' = [Meaning EXCEPT ![f] = m]
  BY <1>2, <1>3, DirtyStep
<1> QED BY <1>1, <1>4 DEF m

(* payload(): the field's own, or one that is nobody's *)
LEMMA PayloadOfType ==
    ASSUME Inv, NEW f \in Fields, HasPayload(f)
    PROVE  /\ PayloadOf(f) \in Payloads /\ PayloadOf(f) # NULL
           /\ payload[f] # NULL => PayloadOf(f) = payload[f] /\ heap[PayloadOf(f)] \in PayloadType
                                   /\ heap[PayloadOf(f)] # NULL
           /\ payload[f] = NULL => heap[PayloadOf(f)] = NULL
           /\ \A g \in Fields : g # f => payload[g] # PayloadOf(f)
<1> USE ConstantsAssumption, NullAssumption
<1>1. /\ \A h \in Fields : payload[h] # NULL =>
            payload[h] \in Payloads /\ heap[payload[h]] # NULL /\ heap[payload[h]] \in PayloadType
      /\ \A h, i \in Fields : payload[h] # NULL /\ payload[h] = payload[i] => h = i
  BY DEF Inv, Typed, TypeOK, OnePayload
<1>2. CASE payload[f] # NULL
  BY <1>1, <1>2 DEF PayloadOf
<1>3. CASE payload[f] = NULL
  <2>1. PayloadOf(f) = NewAddress /\ Free # {}
    BY <1>3 DEF PayloadOf, HasPayload
  <2> QED BY <1>1, <1>3, <2>1, NewIsFree
<1> QED BY <1>2, <1>3

(* MutableRepeatedField and an entry added *)
LEMMA AddEntryStep ==
    ASSUME Inv, NEW f \in Fields, NEW k \in Keys, NEW v \in Values, AddEntry(f, k, v)
    PROVE  Inv' /\ Meaning' = [Meaning EXCEPT ![f] = With(SyncedMap(f), k, v)]
<1> USE ConstantsAssumption, NullAssumption
<1> DEFINE p == PayloadOf(f)
           rep == IF State(f) = "MODIFIED_MAP" THEN EntriesOf(map[f]) ELSE heap[p].rep
           r == [rep |-> Append(rep, Entry(k, v)), state |-> "MODIFIED_REPEATED", mutex |-> NULL]
<1>1. /\ Exclusive(f) /\ HasPayload(f) /\ heap' = [heap EXCEPT ![p] = r]
      /\ payload' = [payload EXCEPT ![f] = p] /\ map' = map /\ UNCHANGED <<arena, map, locals>>
  BY DEF AddEntry
<1>2. /\ p \in Payloads /\ p # NULL
      /\ payload[f] # NULL => p = payload[f] /\ heap[p] \in PayloadType /\ heap[p] # NULL
      /\ payload[f] = NULL => heap[p] = NULL
      /\ \A g \in Fields : g # f => payload[g] # p
  BY <1>1, PayloadOfType
<1>3. rep \in Seq(EntryType)
  <2>1. CASE State(f) = "MODIFIED_MAP"
    BY <2>1, EntriesOfMap DEF Inv, Typed, TypeOK
  <2>2. CASE State(f) # "MODIFIED_MAP"
    BY <1>2, <2>2 DEF State, PayloadType, EntryType
  <2> QED BY <2>1, <2>2
<1>4. r \in PayloadType /\ r.state = "MODIFIED_REPEATED" /\ r # NULL
  <2>1. Entry(k, v) \in EntryType
    BY DEF Entry, EntryType
  <2> DEFINE a == Append(rep, Entry(k, v))
  <2>2. a \in Seq(EntryType)
    BY <1>3, <2>1, AppendProperties
  <2>3. r = [rep |-> a, state |-> "MODIFIED_REPEATED", mutex |-> NULL]
    OBVIOUS
  <2> HIDE DEF a, r
  <2> QED BY <2>2, <2>3 DEF PayloadType, EntryType
<1>5. MapOf(rep) = SyncedMap(f)
  <2>1. CASE State(f) = "MODIFIED_MAP"
    BY <2>1, EntriesOfMap DEF SyncedMap, Inv, Typed, TypeOK
  <2>2. CASE State(f) = "MODIFIED_REPEATED"
    BY <1>2, <2>2 DEF SyncedMap, State
  <2>3. CASE State(f) = "CLEAN"
    <3>1. payload[f] # NULL /\ p = payload[f]
      BY <1>2, <2>3 DEF State
    <3> QED BY <2>3, <3>1 DEF SyncedMap, Inv, CleanAgrees
  <2>4. State(f) \in {"MODIFIED_MAP", "MODIFIED_REPEATED", "CLEAN"}
    BY <1>2 DEF State, PayloadType
  <2> QED BY <2>1, <2>2, <2>3, <2>4
<1>6. MapOf(r.rep) = With(SyncedMap(f), k, v)
  <2>1. Entry(k, v) \in EntryType /\ Entry(k, v).key = k /\ Entry(k, v).value = v
    BY DEF Entry, EntryType
  <2>2. MapOf(Append(rep, Entry(k, v))) = With(MapOf(rep), k, v)
    BY <1>3, <2>1, MapOfAppend
  <2> QED BY <1>5, <2>2
<1> HIDE DEF p, r, rep
<1>7. /\ heap' \in [Payloads -> PayloadType \cup {NULL}] /\ heap'[p] = r
      /\ \A q \in Payloads : q # p => heap'[q] = heap[q]
      /\ payload' \in [Fields -> Payloads \cup {NULL}] /\ payload'[f] = p
      /\ \A g \in Fields : g # f => payload'[g] = payload[g]
      /\ map' = map
  BY <1>1, <1>2, <1>4 DEF Inv, Typed, TypeOK
<1>8. /\ \A h \in Fields : payload[h] # NULL =>
            payload[h] \in Payloads /\ heap[payload[h]] # NULL
      /\ \A h, i \in Fields : payload[h] # NULL /\ payload[h] = payload[i] => h = i
  BY DEF Inv, Typed, TypeOK, OnePayload
<1>9. Alone
  BY <1>1, <1>7 DEF Alone, Inv, Typed, TypeOK
<1>10. Kept
  <2>1. ASSUME NEW g \in Fields, ~Exclusive(g)
        PROVE  /\ payload'[g] = payload[g]
               /\ payload[g] # NULL => heap'[payload[g]] = heap[payload[g]]
    <3>1. g # f
      BY <1>1, <2>1
    <3> QED BY <1>2, <1>7, <1>8, <3>1
  <2>2. ASSUME NEW q \in Payloads, heap[q] # NULL, \A g \in Fields : payload[g] # q
        PROVE  heap'[q] = heap[q] /\ \A g \in Fields : payload'[g] # q
    <3>1. q # p
      BY <1>2, <2>2
    <3> QED BY <1>7, <2>2, <3>1
  <2>3. ASSUME NEW q \in Payloads, heap[q] = NULL, \A g \in Fields : payload'[g] # q
        PROVE  heap'[q] = NULL
    BY <1>7, <2>3
  <2>4. \A g \in Fields : payload[g] # NULL => \E h \in Fields : payload'[h] = payload[g]
    <3>1. \A g \in Fields : payload[g] # NULL => payload'[g] = payload[g]
      BY <1>2, <1>7
    <3> QED BY <3>1
  <2>5. ASSUME NEW g \in Fields, payload'[g] # NULL PROVE heap'[payload'[g]] # NULL
    BY <1>2, <1>4, <1>7, <1>8, <2>5
  <2>6. \A g, h \in Fields : payload'[g] # NULL /\ payload'[g] = payload'[h] => g = h
    BY <1>2, <1>7, <1>8
  <2> QED BY <1>7, <2>1, <2>2, <2>3, <2>4, <2>5, <2>6 DEF Kept
<1>11. CleanAgrees'
  <2> SUFFICES ASSUME NEW g \in Fields, payload'[g] # NULL, heap'[payload'[g]].state = "CLEAN"
               PROVE  map[g] = MapOf(heap'[payload'[g]].rep)
    BY <1>7 DEF CleanAgrees, State
  <2>1. g # f
    BY <1>4, <1>7
  <2>2. payload'[g] = payload[g] /\ heap'[payload[g]] = heap[payload[g]]
    BY <1>2, <1>7, <1>8, <2>1
  <2> QED BY <2>2 DEF Inv, CleanAgrees, State
<1>12. Meaning' = [Meaning EXCEPT ![f] = With(SyncedMap(f), k, v)]
  <2> DEFINE now(h) == IF payload'[h] # NULL /\ heap'[payload'[h]].state = "MODIFIED_REPEATED"
                       THEN MapOf(heap'[payload'[h]].rep) ELSE map'[h]
             was(h) == IF payload[h] # NULL /\ heap[payload[h]].state = "MODIFIED_REPEATED"
                       THEN MapOf(heap[payload[h]].rep) ELSE map[h]
  <2>1. Meaning = [h \in Fields |-> was(h)] /\ Meaning' = [h \in Fields |-> now(h)]
    BY MeaningIs
  <2>2. now(f) = With(SyncedMap(f), k, v)
    BY <1>2, <1>4, <1>7, <1>6
  <2>3. ASSUME NEW h \in Fields, h # f PROVE now(h) = was(h)
    BY <1>2, <1>7, <1>8, <2>3
  <2> HIDE DEF now, was
  <2> QED BY <2>1, <2>2, <2>3
<1> QED BY <1>9, <1>10, <1>11, <1>12, MutateInv

(* Swap, on one arena and across arenas *)
LEMMA SwapStep ==
    ASSUME Inv, NEW f \in Fields, NEW g \in Fields, Swap(f, g)
    PROVE  Inv' /\ Meaning' = [Meaning EXCEPT ![f] = Meaning[g], ![g] = Meaning[f]]
<1> USE ConstantsAssumption, NullAssumption
<1>1. /\ f # g /\ Exclusive(f) /\ Exclusive(g) /\ map' = [map EXCEPT ![f] = map[g], ![g] = map[f]]
      /\ UNCHANGED <<arena, locals>>
  BY DEF Swap, Transposed
<1>2. /\ map' \in [Fields -> Maps] /\ map'[f] = map[g] /\ map'[g] = map[f]
      /\ \A h \in Fields : h # f /\ h # g => map'[h] = map[h]
  BY <1>1 DEF Inv, Typed, TypeOK
<1>3. \A h \in Fields : IsFiniteSet(DOMAIN map'[h])
  <2>1. \A h \in Fields : IsFiniteSet(DOMAIN map[h])
    BY DEF Inv, Typed
  <2> QED BY <1>2, <2>1
<1>4. /\ \A h \in Fields : payload[h] # NULL =>
            payload[h] \in Payloads /\ heap[payload[h]] # NULL /\ heap[payload[h]] \in PayloadType
      /\ \A h, i \in Fields : payload[h] # NULL /\ payload[h] = payload[i] => h = i
      /\ payload \in [Fields -> Payloads \cup {NULL}]
      /\ heap \in [Payloads -> PayloadType \cup {NULL}]
  BY DEF Inv, Typed, TypeOK, OnePayload
<1>5. \A h \in Fields : payload[h] # NULL /\ heap[payload[h]].state = "CLEAN" =>
          map[h] = MapOf(heap[payload[h]].rep)
  BY DEF Inv, CleanAgrees, State
<1> DEFINE now(h) == IF payload'[h] # NULL /\ heap'[payload'[h]].state = "MODIFIED_REPEATED"
                     THEN MapOf(heap'[payload'[h]].rep) ELSE map'[h]
           was(h) == IF payload[h] # NULL /\ heap[payload[h]].state = "MODIFIED_REPEATED"
                     THEN MapOf(heap[payload[h]].rep) ELSE map[h]
<1>6. ASSUME now(f) = was(g), now(g) = was(f),
             \A h \in Fields : h # f /\ h # g => now(h) = was(h)
      PROVE  Meaning' = [Meaning EXCEPT ![f] = Meaning[g], ![g] = Meaning[f]]
  <2>1. Meaning = [h \in Fields |-> was(h)] /\ Meaning' = [h \in Fields |-> now(h)]
    BY MeaningIs
  <2> HIDE DEF now, was
  <2> QED BY <1>1, <1>6, <2>1
<1>7. CASE SwapPointers(f, g)
  <2>1. heap' = heap /\ payload' = [payload EXCEPT ![f] = payload[g], ![g] = payload[f]]
    BY <1>7 DEF SwapPointers, Transposed
  <2>2. /\ payload' \in [Fields -> Payloads \cup {NULL}]
        /\ payload'[f] = payload[g] /\ payload'[g] = payload[f]
        /\ \A h \in Fields : h # f /\ h # g => payload'[h] = payload[h]
    BY <1>1, <1>4, <2>1
  <2>3. Alone
    BY <1>1, <1>2, <1>3, <1>4, <2>1, <2>2 DEF Alone
  <2>4. Kept
    <3>1. \A h \in Fields : ~Exclusive(h) => map'[h] = map[h] /\ payload'[h] = payload[h]
      BY <1>1, <1>2, <2>2
    <3>2. \A h \in Fields : \E i \in Fields : payload'[i] = payload[h]
      BY <2>2
    <3>3. \A h \in Fields : \E i \in Fields : payload'[h] = payload[i]
      BY <2>2
    <3>4. ASSUME NEW h \in Fields, NEW i \in Fields, payload'[h] # NULL, payload'[h] = payload'[i]
          PROVE  h = i
      BY <1>4, <2>2, <3>4
    <3> QED BY ZenonT(30), <1>4, <2>1, <3>1, <3>2, <3>3, <3>4 DEF Kept
  <2>5. CleanAgrees'
    <3> SUFFICES ASSUME NEW h \in Fields, payload'[h] # NULL, heap[payload'[h]].state = "CLEAN"
                 PROVE  map'[h] = MapOf(heap[payload'[h]].rep)
      BY <2>1 DEF CleanAgrees, State
    <3>1. PICK i \in Fields : payload'[h] = payload[i] /\ map'[h] = map[i]
      BY <1>2, <2>2
    <3> QED BY <1>5, <3>1
  <2>6. /\ now(f) = was(g) /\ now(g) = was(f)
        /\ \A h \in Fields : h # f /\ h # g => now(h) = was(h)
    BY <1>2, <2>1, <2>2
  <2> QED BY <1>6, <2>3, <2>4, <2>5, <2>6, MutateInv
<1>8. CASE SwapPayloads(f, g) /\ payload[f] = NULL /\ payload[g] = NULL
  <2>1. payload' = payload /\ heap' = heap
    BY <1>8 DEF SwapPayloads
  <2>2. CleanAgrees'
    <3> SUFFICES ASSUME NEW h \in Fields, payload[h] # NULL, heap[payload[h]].state = "CLEAN"
                 PROVE  map'[h] = MapOf(heap[payload[h]].rep)
      BY <2>1 DEF CleanAgrees, State
    <3> QED BY <1>2, <1>5, <1>8
  <2>3. \A h \in Fields : map'[h] # map[h] => Exclusive(h)
    BY <1>1, <1>2
  <2>4. /\ now(f) = was(g) /\ now(g) = was(f)
        /\ \A h \in Fields : h # f /\ h # g => now(h) = was(h)
    BY <1>2, <1>8, <2>1
  <2> QED BY <1>1, <1>2, <1>3, <1>4, <1>6, <2>1, <2>2, <2>3, <2>4, RewriteInv
<1>9. CASE SwapPayloads(f, g) /\ ~(payload[f] = NULL /\ payload[g] = NULL)
  <2> DEFINE p == PayloadOf(f)
             q == PayloadOf(g)
             held(r) == IF heap[r] = NULL THEN FreshPayload ELSE heap[r]
  <2>1. /\ HasPayload(f) /\ HasPayload(g)
        /\ payload' = [payload EXCEPT ![f] = p, ![g] = q]
        /\ heap' = [heap EXCEPT ![p] = held(q), ![q] = held(p)]
    BY <1>9 DEF SwapPayloads
  <2>2. /\ p \in Payloads /\ p # NULL
        /\ payload[f] # NULL => p = payload[f] /\ heap[p] \in PayloadType /\ heap[p] # NULL
        /\ payload[f] = NULL => heap[p] = NULL
        /\ \A h \in Fields : h # f => payload[h] # p
    BY <2>1, PayloadOfType
  <2>3. /\ q \in Payloads /\ q # NULL
        /\ payload[g] # NULL => q = payload[g] /\ heap[q] \in PayloadType /\ heap[q] # NULL
        /\ payload[g] = NULL => heap[q] = NULL
        /\ \A h \in Fields : h # g => payload[h] # q
    BY <2>1, PayloadOfType
  <2>4. p # q
    BY <1>1, <1>9, <2>2, <2>3
  <2>5. /\ held(p) \in PayloadType /\ held(p) # NULL
        /\ held(q) \in PayloadType /\ held(q) # NULL
        /\ held(p).state = "CLEAN" => payload[f] # NULL /\ held(p) = heap[p]
        /\ held(q).state = "CLEAN" => payload[g] # NULL /\ held(q) = heap[q]
    BY <2>2, <2>3, FreshType
  <2>6. /\ payload[f] # NULL => held(p) = heap[payload[f]]
        /\ payload[f] = NULL => held(p).state = "MODIFIED_MAP"
        /\ payload[g] # NULL => held(q) = heap[payload[g]]
        /\ payload[g] = NULL => held(q).state = "MODIFIED_MAP"
    BY <2>2, <2>3, FreshType
  <2> HIDE DEF p, q, held
  <2>7. /\ heap' \in [Payloads -> PayloadType \cup {NULL}]
        /\ heap'[p] = held(q) /\ heap'[q] = held(p)
        /\ \A r \in Payloads : r # p /\ r # q => heap'[r] = heap[r]
    BY <1>4, <2>1, <2>2, <2>3, <2>4, <2>5
  <2>8. /\ payload' \in [Fields -> Payloads \cup {NULL}]
        /\ payload'[f] = p /\ payload'[g] = q
        /\ \A h \in Fields : h # f /\ h # g => payload'[h] = payload[h]
    BY <1>1, <1>4, <2>1, <2>2, <2>3
  <2>9. Alone
    BY <1>1, <1>2, <1>3, <2>7, <2>8 DEF Alone
  <2>10. Kept
    <3>1. ASSUME NEW h \in Fields, ~Exclusive(h)
          PROVE  /\ map'[h] = map[h] /\ payload'[h] = payload[h]
                 /\ payload[h] # NULL => heap'[payload[h]] = heap[payload[h]]
      <4>1. h # f /\ h # g
        BY <1>1, <3>1
      <4> QED BY <1>2, <1>4, <2>2, <2>3, <2>7, <2>8, <4>1
    <3>2. ASSUME NEW r \in Payloads, heap[r] # NULL, \A h \in Fields : payload[h] # r
          PROVE  heap'[r] = heap[r] /\ \A h \in Fields : payload'[h] # r
      <4>1. r # p /\ r # q
        BY <2>2, <2>3, <3>2
      <4> QED BY <2>7, <2>8, <3>2, <4>1
    <3>3. ASSUME NEW r \in Payloads, heap[r] = NULL, \A h \in Fields : payload'[h] # r
          PROVE  heap'[r] = NULL
      BY <2>7, <2>8, <3>3
    <3>4. \A h \in Fields : payload[h] # NULL => payload'[h] = payload[h]
      BY <2>2, <2>3, <2>8
    <3>5. ASSUME NEW h \in Fields, payload'[h] # NULL PROVE heap'[payload'[h]] # NULL
      BY <1>4, <2>2, <2>3, <2>5, <2>7, <2>8, <3>5
    <3>6. ASSUME NEW h \in Fields, NEW i \in Fields, payload'[h] # NULL, payload'[h] = payload'[i]
          PROVE  h = i
      BY <1>4, <2>2, <2>3, <2>4, <2>8, <3>6
    <3> QED BY <3>1, <3>2, <3>3, <3>4, <3>5, <3>6 DEF Kept
  <2>11. CleanAgrees'
    <3> SUFFICES ASSUME NEW h \in Fields, payload'[h] # NULL, heap'[payload'[h]].state = "CLEAN"
                 PROVE  map'[h] = MapOf(heap'[payload'[h]].rep)
      BY DEF CleanAgrees, State
    <3>1. CASE h = f
      BY <1>2, <1>5, <2>3, <2>5, <2>7, <2>8, <3>1
    <3>2. CASE h = g
      BY <1>2, <1>5, <2>2, <2>5, <2>7, <2>8, <3>2
    <3>3. CASE h # f /\ h # g
      <4>1. /\ payload'[h] = payload[h] /\ map'[h] = map[h]
            /\ payload[h] # p /\ payload[h] # q /\ heap'[payload[h]] = heap[payload[h]]
        BY <1>2, <1>4, <2>2, <2>3, <2>7, <2>8, <3>3
      <4> QED BY <1>5, <4>1
    <3> QED BY <3>1, <3>2, <3>3
  <2>12. now(f) = was(g)
    <3> DEFINE r == held(q)
    <3>1. now(f) = IF r.state = "MODIFIED_REPEATED" THEN MapOf(r.rep) ELSE map[g]
      BY <1>2, <2>2, <2>3, <2>7, <2>8
    <3>2. was(g) = IF r.state = "MODIFIED_REPEATED" THEN MapOf(r.rep) ELSE map[g]
      BY <2>6
    <3> HIDE DEF r, now, was
    <3> QED BY <3>1, <3>2
  <2>13. now(g) = was(f)
    <3> DEFINE r == held(p)
    <3>1. now(g) = IF r.state = "MODIFIED_REPEATED" THEN MapOf(r.rep) ELSE map[f]
      BY <1>2, <2>2, <2>3, <2>7, <2>8
    <3>2. was(f) = IF r.state = "MODIFIED_REPEATED" THEN MapOf(r.rep) ELSE map[f]
      BY <2>6
    <3> HIDE DEF r, now, was
    <3> QED BY <3>1, <3>2
  <2>14. ASSUME NEW h \in Fields, h # f, h # g PROVE now(h) = was(h)
    <3>1. /\ payload'[h] = payload[h] /\ map'[h] = map[h]
          /\ payload[h] # p /\ payload[h] # q
          /\ payload[h] # NULL => heap'[payload[h]] = heap[payload[h]]
      BY <1>2, <1>4, <2>2, <2>3, <2>7, <2>8, <2>14
    <3> QED BY <3>1
  <2> HIDE DEF now, was
  <2> QED BY <1>6, <2>9, <2>10, <2>11, <2>12, <2>13, <2>14, MutateInv
<1> QED BY <1>7, <1>8, <1>9 DEF Swap

(* A step of nobody                                                          *)
LEMMA StutterStep ==
    ASSUME Inv, UNCHANGED vars
    PROVE  Inv' /\ Meaning' = Meaning
<1>1. UNCHANGED <<arena, payload, locals, map, heap>>
  BY DEF vars, locals
<1>2. /\ map' \in [Fields -> Maps] /\ \A f \in Fields : IsFiniteSet(DOMAIN map'[f])
      /\ heap' \in [Payloads -> PayloadType \cup {NULL}]
  BY <1>1 DEF Inv, Typed, TypeOK
<1>3. CleanAgrees'
  BY <1>1 DEF Inv, CleanAgrees, State
<1>4. Meaning' = Meaning
  BY <1>1, MeaningIs
<1> QED BY <1>1, <1>2, <1>3, <1>4, RewriteInv

(* Every step of the program keeps the invariant                             *)
LEMMA NextInv ==
    ASSUME Inv, [Next]_vars
    PROVE  Inv'
<1>1. ASSUME NEW f \in Fields, Mutate(f) PROVE Inv'
  <2>1. CASE \E p \in Pairs : Put(f, p[1], p[2])
    <3>1. PICK p \in Pairs : Put(f, p[1], p[2])
      BY <2>1
    <3>2. p[1] \in Keys /\ p[2] \in Values
      BY ConstantsAssumption
    <3> QED BY <3>1, <3>2, PutStep
  <2>2. CASE \E p \in Pairs : AddEntry(f, p[1], p[2])
    <3>1. PICK p \in Pairs : AddEntry(f, p[1], p[2])
      BY <2>2
    <3>2. p[1] \in Keys /\ p[2] \in Values
      BY ConstantsAssumption
    <3> QED BY <3>1, <3>2, AddEntryStep
  <2>3. CASE \E k \in Keys : Erase(f, k)
    BY <2>3, EraseStep
  <2>4. CASE Clear(f)
    BY <2>4, ClearStep
  <2>5. ASSUME NEW g \in Fields, Swap(f, g) PROVE Inv'
    BY <2>5, SwapStep
  <2> QED BY <1>1, <2>1, <2>2, <2>3, <2>4, <2>5 DEF Mutate
<1>2. ASSUME NEW t \in Threads, Step(t) \/ \E f \in Readable : Call(t, f) PROVE Inv'
  BY <1>2, LookingStep, OwningStep, MakePayloadStep, PublishPayloadStep DEF Step
<1>3. ASSUME NEW t \in Threads, NEW f \in Fields, MergeFrom(t, f) PROVE Inv'
  BY <1>3, MergeFromStep
<1>4. CASE UNCHANGED vars
  BY <1>4, StutterStep
<1> QED BY <1>1, <1>2, <1>3, <1>4 DEF Next

(* Two threads that fill or read one representation cannot both be at it: the *)
(* lock tells the fillers apart, and state_ the fillers from the readers.    *)
LEMMA NoRaceFromInv ==
    ASSUME Inv
    PROVE  NoDataRace
<1> SUFFICES ASSUME NEW t \in Threads, NEW u \in Threads, t # u, cur[t] = cur[u]
             PROVE  /\ pc[t] = "fill_map" => ~ReadsMap(u) /\ pc[u] # "fill_map"
                    /\ pc[t] = "fill_rep" => ~ReadsRep(u) /\ pc[u] # "fill_rep"
  BY DEF NoDataRace
<1>1. \A v \in Threads : pc[v] \in Holding => mine[v] = payload[cur[v]] /\ heap[mine[v]].mutex = v
  BY DEF Inv, Found, OnePayload, Locking, Working, Holding
<1>2. ~(pc[t] \in Holding /\ pc[u] \in Holding)
  BY <1>1
<1> DEFINE s == State(cur[t])
<1>3. /\ pc[t] = "fill_map" => s = "MODIFIED_REPEATED"
      /\ pc[t] = "fill_rep" => s = "MODIFIED_MAP"
  BY DEF Inv, Steady
<1>4. State(cur[u]) = s
  OBVIOUS
<1>5. /\ pc[u] \in {"read_map", "measure_map"} => s # "MODIFIED_REPEATED"
      /\ pc[u] = "read_rep" => s # "MODIFIED_MAP"
  BY <1>4 DEF Inv, Steady
<1> HIDE DEF s
<1> DEFINE a == pc[t]
           b == pc[u]
<1>6. a = "fill_map" => b \notin {"read_map", "measure_map", "measure_both", "fill_rep", "fill_map"}
  BY <1>2, <1>3, <1>5 DEF Holding
<1>7. a = "fill_rep" => b \notin {"read_rep", "measure_both", "fill_map", "fill_rep"}
  BY <1>2, <1>3, <1>5 DEF Holding
<1> QED BY <1>6, <1>7 DEF ReadsMap, ReadsRep

-----------------------------------------------------------------------------
(* The refinement of MapValue *)

Reading == {"read_map", "read_rep", "read_default"}

(* What the callers of const accessors look at, as the refinement mapping    *)
(* has it, and as the invariant lets it be said                              *)
Shown ==
    [t \in Threads |->
        CASE pc[t] = "read_map" -> <<cur[t], map[cur[t]]>>
          [] pc[t] = "read_rep" -> <<cur[t], MapOf(heap[mine[t]].rep)>>
          [] pc[t] = "read_default" -> <<cur[t], <<>>>>
          [] OTHER -> NULL]

Showing ==
    [t \in Threads |-> IF pc[t] \in Reading THEN <<cur[t], Meaning[cur[t]]>> ELSE NULL]

(* A const accessor shows the value of its field *)
LEMMA ShownIsValue == Inv => Shown = Showing
<1> SUFFICES ASSUME Inv, NEW t \in Threads PROVE Shown[t] = Showing[t]
  BY DEF Shown, Showing
<1> USE ConstantsAssumption, NullAssumption
<1> DEFINE f == cur[t]
<1>1. pc[t] \in Reading => f \in Fields
  BY DEF Inv, Typed, TypeOK, Reading
<1>2. pc[t] \in Reading => Meaning[f] = SyncedMap(f)
  BY <1>1 DEF Meaning
<1>3. CASE pc[t] = "read_map"
  <2>1. SyncedMap(f) = map[f]
    BY <1>3 DEF SyncedMap, Inv, Steady
  <2> QED BY <1>2, <1>3, <2>1 DEF Shown, Showing, Reading
<1>4. CASE pc[t] = "read_rep"
  <2>1. /\ mine[t] = payload[f] /\ State(f) # "MODIFIED_MAP" /\ payload[f] # NULL
        /\ State(f) = heap[payload[f]].state
    BY <1>4 DEF Inv, Steady, Found, OnePayload, Working, State
  <2>2. heap[payload[f]] \in PayloadType
    BY <1>1, <1>4, <2>1 DEF Inv, Typed, TypeOK, Reading
  <2>3. State(f) \in {"MODIFIED_REPEATED", "CLEAN"}
    BY <2>1, <2>2 DEF PayloadType
  <2>4. SyncedMap(f) = MapOf(heap[mine[t]].rep)
    BY <1>1, <1>4, <2>1, <2>3 DEF SyncedMap, Inv, CleanAgrees, Reading
  <2> QED BY <1>2, <1>4, <2>4 DEF Shown, Showing, Reading
<1>5. CASE pc[t] = "read_default"
  <2>1. SyncedMap(f) = <<>>
    BY <1>5 DEF SyncedMap, Inv, Steady, Copying
  <2> QED BY <1>2, <1>5, <2>1 DEF Shown, Showing, Reading
<1> QED BY <1>3, <1>4, <1>5 DEF Shown, Showing, Reading

(* ... and it still does after a step                                        *)
LEMMA ShownThen == Inv' => (Shown = Showing)'
BY ShownIsValue, PTL

(* Fields that begin empty are empty maps that nobody looks at               *)
LEMMA InitImplements ==
    ASSUME Init
    PROVE  Value!Init
<1>1. Meaning = [f \in Fields |-> <<>>]
  BY DEF Init, Meaning, SyncedMap, State
<1>2. <<>> \in Maps
  BY EmptyMap
<1>3. Meaning \in [Fields -> Maps]
  BY <1>1, <1>2
<1>4. Shown = [t \in Threads |-> NULL]
  BY DEF Init, Shown
<1> QED BY <1>3, <1>4 DEF Value!Init, Value!Maps, Maps, Meaning, Shown

(* A step of a thread *)
LEMMA ThreadImplements ==
    ASSUME Inv, Inv', NEW t \in Threads, Meaning' = Meaning,
           \A u \in Threads : u # t => pc'[u] = pc[u] /\ cur'[u] = cur[u],
           ~(pc[t] \in Reading /\ pc'[t] \in Reading)
    PROVE  Value!Next \/ UNCHANGED Value!vars
<1> USE ConstantsAssumption, NullAssumption
<1>1. Shown = Showing /\ Shown' = Showing'
  BY ShownIsValue, ShownThen
<1> DEFINE v == Meaning
           sh == Shown
           sh1 == Shown'
<1>2. /\ v \in [Fields -> Maps]
      /\ cur[t] \in Fields \cup {NULL} /\ cur'[t] \in Fields \cup {NULL}
  BY SyncedMapType DEF Meaning, Inv, Typed, TypeOK
<1>3. /\ pc[t] \in Reading => cur[t] \in Fields /\ cur[t] # NULL
      /\ pc'[t] \in Reading => cur'[t] \in Fields /\ cur'[t] # NULL
  <2>1. (pc[t] # "idle" <=> cur[t] # NULL) /\ (pc'[t] # "idle" <=> cur'[t] # NULL)
    BY DEF Inv, Typed, TypeOK
  <2> QED BY <1>2, <2>1 DEF Reading
<1>4. /\ sh = [u \in Threads |-> IF pc[u] \in Reading THEN <<cur[u], v[cur[u]]>> ELSE NULL]
      /\ sh1 = [u \in Threads |-> IF pc'[u] \in Reading THEN <<cur'[u], v[cur'[u]]>> ELSE NULL]
  BY <1>1 DEF Showing
<1> HIDE DEF v, sh, sh1
<1>5. CASE pc[t] \in Reading
  <2>1. sh[t] # NULL /\ sh1 = [sh EXCEPT ![t] = NULL]
    BY <1>2, <1>3, <1>4, <1>5
  <2>2. Value!Hide(t)
    BY <2>1 DEF Value!Hide, Meaning, Shown, sh, sh1
  <2> QED BY <2>2 DEF Value!Next
<1>6. CASE pc'[t] \in Reading
  <2>1. PICK f \in Fields : f = cur'[t]
    BY <1>3, <1>6
  <2>2. sh[t] = NULL /\ sh1 = [sh EXCEPT ![t] = <<f, v[f]>>]
    BY <1>2, <1>3, <1>4, <1>6, <2>1
  <2>3. Value!Show(t, f)
    BY <2>2 DEF Value!Show, Meaning, Shown, sh, sh1, v
  <2> QED BY <2>3 DEF Value!Next
<1>7. CASE pc[t] \notin Reading /\ pc'[t] \notin Reading
  <2>1. sh1 = sh
    BY <1>4, <1>7
  <2> QED BY <2>1 DEF Value!vars, Meaning, Shown, sh, sh1
<1> QED BY <1>5, <1>6, <1>7

(* What a mutator changes nobody looks at *)
LEMMA NobodyLooks ==
    ASSUME Inv, Inv', UNCHANGED locals, NEW S \in SUBSET Fields, \A f \in S : Exclusive(f),
           \A g \in Fields \ S : Meaning'[g] = Meaning[g]
    PROVE  Shown' = Shown /\ \A f \in S : Value!Nobody(f)
<1> USE ConstantsAssumption, NullAssumption
<1>1. Shown = Showing /\ Shown' = Showing'
  BY ShownIsValue, ShownThen
<1>2. pc' = pc /\ cur' = cur
  BY DEF locals
<1>3. \A t \in Threads : pc[t] \in Reading => cur[t] \in Fields \ S
  BY DEF Inv, Typed, TypeOK, Reading, Exclusive
<1>4. Showing' = Showing
  <2>1. /\ Showing = [t \in Threads |-> IF pc[t] \in Reading THEN <<cur[t], Meaning[cur[t]]>>
                                        ELSE NULL]
        /\ Showing' = [t \in Threads |-> IF pc[t] \in Reading THEN <<cur[t], Meaning'[cur[t]]>>
                                         ELSE NULL]
    BY <1>2 DEF Showing
  <2> QED BY <1>3, <2>1
<1>5. ASSUME NEW f \in S, NEW t \in Threads, Shown[t] # NULL PROVE Shown[t][1] # f
  <2>1. pc[t] \in Reading /\ Shown[t] = <<cur[t], Meaning[cur[t]]>>
    BY <1>1, <1>5 DEF Showing
  <2> QED BY <1>3, <2>1
<1>6. \A f \in S : \A t \in Threads : Shown[t] # NULL => Shown[t][1] # f
  BY <1>5
<1>7. \A f \in S : Value!Nobody(f)
  BY <1>6 DEF Value!Nobody, Shown
<1> QED BY <1>1, <1>4, <1>7

(* A mutator that changes one field is the change of one value               *)
LEMMA BecomesImplements ==
    ASSUME Inv, Inv', UNCHANGED locals, NEW f \in Fields, Exclusive(f), NEW m,
           Meaning' = [Meaning EXCEPT ![f] = m]
    PROVE  Value!Becomes(f, m)
<1> DEFINE S == {f}
<1>1. /\ S \in SUBSET Fields /\ f \in S /\ \A g \in S : Exclusive(g)
      /\ \A g \in Fields \ S : Meaning'[g] = Meaning[g]
  BY DEF Meaning
<1> HIDE DEF S
<1>2. Shown' = Shown /\ Value!Nobody(f)
  BY <1>1, NobodyLooks
<1> QED BY <1>2 DEF Value!Becomes, Meaning, Shown

(* Each mutator is the operation of MapValue with its name, and an entry added *)
(* to the repeated field is a Put                                            *)
LEMMA MutateImplements ==
    ASSUME Inv, Inv', NEW f \in Fields, Mutate(f)
    PROVE  Value!Next
<1>1. \A h \in Fields : Meaning[h] = SyncedMap(h)
  BY DEF Meaning
<1>2. ASSUME NEW k \in Keys, NEW v \in Values, Put(f, k, v) \/ AddEntry(f, k, v)
      PROVE  Value!Next
  <2> DEFINE m == With(SyncedMap(f), k, v)
  <2>1. Meaning' = [Meaning EXCEPT ![f] = m]
    BY <1>2, PutStep, AddEntryStep
  <2>2. Exclusive(f) /\ UNCHANGED locals
    BY <1>2 DEF Put, AddEntry
  <2> HIDE DEF m
  <2>3. Value!Becomes(f, m)
    BY <2>1, <2>2, BecomesImplements
  <2>4. m = Value!With(Meaning[f], k, v)
    BY <1>1 DEF m, With, Value!With
  <2>5. Value!Put(f, k, v)
    BY <2>3, <2>4 DEF Value!Put, Meaning
  <2> QED BY <2>5 DEF Value!Next
<1>3. ASSUME NEW k \in Keys, Erase(f, k)
      PROVE  Value!Next
  <2> DEFINE m == Without(SyncedMap(f), k)
  <2>1. Meaning' = [Meaning EXCEPT ![f] = m]
    BY <1>3, EraseStep
  <2>2. Exclusive(f) /\ UNCHANGED locals
    BY <1>3 DEF Erase
  <2> HIDE DEF m
  <2>3. Value!Becomes(f, m)
    BY <2>1, <2>2, BecomesImplements
  <2>4. m = Value!Without(Meaning[f], k)
    BY <1>1 DEF m, Without, Value!Without
  <2>5. Value!Erase(f, k)
    BY <2>3, <2>4 DEF Value!Erase, Meaning
  <2> QED BY <2>5 DEF Value!Next
<1>4. ASSUME Clear(f)
      PROVE  Value!Next
  <2>1. Meaning' = [Meaning EXCEPT ![f] = <<>>]
    BY <1>4, ClearStep
  <2>2. Exclusive(f) /\ UNCHANGED locals
    BY <1>4 DEF Clear
  <2>3. Value!Becomes(f, <<>>)
    BY <2>1, <2>2, BecomesImplements
  <2>4. Value!Clear(f)
    BY <2>3 DEF Value!Clear
  <2> QED BY <2>4 DEF Value!Next
<1>5. ASSUME NEW g \in Fields, Swap(f, g)
      PROVE  Value!Next
  <2>1. Meaning' = [Meaning EXCEPT ![f] = Meaning[g], ![g] = Meaning[f]]
    BY <1>5, SwapStep
  <2>2. f # g /\ Exclusive(f) /\ Exclusive(g) /\ UNCHANGED locals
    BY <1>5 DEF Swap
  <2> DEFINE S == {f, g}
  <2>3. /\ S \in SUBSET Fields /\ f \in S /\ g \in S /\ \A h \in S : Exclusive(h)
        /\ \A h \in Fields \ S : Meaning'[h] = Meaning[h]
    BY <2>1, <2>2 DEF Meaning
  <2> HIDE DEF S
  <2>4. Shown' = Shown /\ Value!Nobody(f) /\ Value!Nobody(g)
    BY <2>2, <2>3, NobodyLooks
  <2>5. Value!Swap(f, g)
    BY <2>1, <2>4 DEF Value!Swap, Meaning, Shown
  <2> QED BY <2>5 DEF Value!Next
<1> QED BY <1>2, <1>3, <1>4, <1>5, ConstantsAssumption DEF Mutate

(* A merge is one of values: the source's is that of the map the caller has   *)
LEMMA MergeFromImplements ==
    ASSUME Inv, Inv', NEW t \in Threads, NEW f \in Fields, MergeFrom(t, f)
    PROVE  Value!Next
<1> DEFINE g == cur[t]
           m == Merged(SyncedMap(f), SyncedMap(g))
<1>1. g \in Fields /\ \A h \in Fields : Meaning[h] = SyncedMap(h)
  BY SourceOfMerge DEF MergeFrom, Meaning
<1>2. Meaning' = [Meaning EXCEPT ![f] = m]
  BY MergeFromStep
<1>3. Exclusive(f) /\ UNCHANGED locals
  BY DEF MergeFrom
<1> HIDE DEF m
<1>4. Value!Becomes(f, m)
  BY <1>2, <1>3, BecomesImplements
<1>5. m = [k \in DOMAIN Meaning[f] \cup DOMAIN Meaning[g] |->
              IF k \in DOMAIN Meaning[g] THEN Meaning[g][k] ELSE Meaning[f][k]]
  BY <1>1 DEF m, Merged
<1>6. Value!MergeFrom(f, g)
  BY <1>4, <1>5 DEF Value!MergeFrom, Meaning
<1> QED BY <1>1, <1>6 DEF Value!Next

(* Every step is one of MapValue or changes nothing there                    *)
LEMMA NextImplements ==
    ASSUME Inv, [Next]_vars
    PROVE  Value!Next \/ UNCHANGED Value!vars
<1>1. Inv'
  BY NextInv
<1>2. ASSUME NEW f \in Fields, Mutate(f) PROVE Value!Next
  BY <1>1, <1>2, MutateImplements
<1>3. ASSUME NEW t \in Threads, Step(t) \/ \E f \in Readable : Call(t, f)
      PROVE  Value!Next \/ UNCHANGED Value!vars
  <2>1. Meaning' = Meaning
    BY <1>3, LookingStep, OwningStep, MakePayloadStep, PublishPayloadStep DEF Step
  <2>2. PICK to : pc' = [pc EXCEPT ![t] = to] /\ ~(pc[t] \in Reading /\ to \in Reading)
    <3> USE DEF Goto, Reading
    <3>1. CASE \E f \in Readable : Call(t, f)
      BY <3>1 DEF Call
    <3>2. CASE FieldSize(t) \/ GetMap(t) \/ SyncMapWithRepeatedField(t) \/ SpaceUsed(t)
               \/ SyncRepeatedFieldWithMap(t) \/ ReturnDefault(t) \/ HavePayload(t)
      BY <3>2 DEF FieldSize, GetMap, SyncMapWithRepeatedField, SyncRepeatedFieldWithMap,
                  ReturnDefault, HavePayload, SpaceUsed
    <3>3. CASE MakePayload(t) \/ PublishPayload(t) \/ LockToSyncMap(t) \/ FillMap(t)
               \/ LockToSyncRep(t) \/ FillRep(t) \/ LockToMeasure(t) \/ Measured(t)
      BY <3>3 DEF MakePayload, PublishPayload, LockToSyncMap, FillMap, LockToSyncRep,
                  FillRep, LockToMeasure, Measured
    <3>4. CASE SetClean(t) \/ Unlock(t) \/ Return(t)
      BY <3>4 DEF SetClean, Unlock, Return
    <3> QED BY <1>3, <3>1, <3>2, <3>3, <3>4 DEF Step
  <2>3. cur' = cur \/ \E f : cur' = [cur EXCEPT ![t] = f]
    BY <1>3 DEF Step, Call, FieldSize, GetMap, SyncMapWithRepeatedField, SyncRepeatedFieldWithMap,
                ReturnDefault, HavePayload, MakePayload, PublishPayload, LockToSyncMap, FillMap,
                LockToSyncRep, FillRep, SetClean, Unlock, SpaceUsed, LockToMeasure, Measured,
                Return, Leave
  <2>4. \A u \in Threads : u # t => pc'[u] = pc[u] /\ cur'[u] = cur[u]
    BY <2>2, <2>3 DEF Inv, Typed, TypeOK
  <2>5. pc'[t] = to
    BY <2>2 DEF Inv, Typed
  <2> QED BY <1>1, <2>1, <2>2, <2>4, <2>5, ThreadImplements
<1>4. ASSUME NEW t \in Threads, NEW f \in Fields, MergeFrom(t, f) PROVE Value!Next
  BY <1>1, <1>4, MergeFromImplements
<1>5. CASE UNCHANGED vars
  BY <1>5 DEF vars, locals, Value!vars, SyncedMap, State
<1> QED BY <1>2, <1>3, <1>4, <1>5 DEF Next

-----------------------------------------------------------------------------
(* Inv is an inductive invariant of the fields and their const accessors     *)
THEOREM Inductive == Spec => []Inv
<1>1. Init => Inv
  BY InitInv
<1>2. Inv /\ [Next]_vars => Inv'
  BY NextInv
<1> QED BY <1>1, <1>2, PTL DEF Spec

(* Maps stay maps, and a field's pointer never outlives its payload          *)
THEOREM TypeCorrect == Spec => []TypeOK
<1>1. Inv => TypeOK
  BY DEF Inv, Typed
<1> QED BY <1>1, Inductive, PTL

(* Nobody reads a representation, with or without mutex_, while another      *)
(* thread syncs it, and no two threads sync one: for any number of threads   *)
(* and fields, and whatever is merged and swapped between the calls.         *)
THEOREM NeverRaces == Spec => []NoDataRace
<1>1. Inv => NoDataRace
  BY NoRaceFromInv
<1> QED BY <1>1, Inductive, PTL

(* Of several payloads made at once one is published and the others are      *)
(* thrown away, nobody works on those, and no two fields share one.          *)
THEOREM PublishedOnce == Spec => []OnePayload
<1>1. Inv => OnePayload
  BY DEF Inv
<1> QED BY <1>1, Inductive, PTL

(* When state_ says CLEAN, the map is the map of the repeated field          *)
THEOREM CleanMeansEqual == Spec => []CleanAgrees
<1>1. Inv => CleanAgrees
  BY DEF Inv
<1> QED BY <1>1, Inductive, PTL

(* The fields implement MapValue: const accessors show the value of their    *)
(* field for as long as the caller looks, and only mutators change it.       *)
THEOREM ImplementsValue == Spec => ImplementsMapValue
<1>1. Init => Value!Init
  BY InitImplements
<1>2. Inv /\ [Next]_vars => [Value!Next]_Value!vars
  BY NextImplements
<1> QED BY <1>1, <1>2, Inductive, PTL DEF Spec, ImplementsMapValue, Value!Spec
=============================================================================
