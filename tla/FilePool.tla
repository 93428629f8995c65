------------------------------ MODULE FilePool ------------------------------
(***************************************************************************)
(* What a DescriptorPool promises to those who ask it: a set of files that *)
(* only grows, by groups of files that are complete with their imports,    *)
(* and answers that name a file of the set which has what was asked for.   *)
(***************************************************************************)
EXTENDS Naturals, FiniteSets, SequencesExt

CONSTANTS Threads, Files, None, Questions, NoAnswer

VARIABLES db,      \* the files there are
          built,   \* the files of the pool
          answer   \* per thread its last question and the answer

vars == <<db, built, answer>>

Imports(f) == ToSet(db.proto[f].imports)

\* What a file may be asked for by.
Defines(f, q) ==
  LET p == db.proto[f] IN
  \/ q.op \in {"file", "build"} /\ q.key = f
  \/ q.op \in {"symbol", "container"} /\ q.key \in p.symbols \cup {p.package}
  \/ q.op = "extension" /\ \E i \in DOMAIN p.links : p.links[i].number = q.key

\* Imports are there and not in a circle, and no name has two files.
Whole(B) ==
  /\ \A f \in B : Imports(f) \subseteq B
  /\ \A S \in (SUBSET B) \ {{}} : \E f \in S : Imports(f) \cap S = {}
  /\ \A f, g \in B : f # g => db.proto[f].symbols \cap db.proto[g].symbols = {}

Init ==
  /\ built = {}
  /\ answer = [t \in Threads |-> NoAnswer]

Load ==
  /\ \E F \in (SUBSET (Files \ built)) \ {{}} :
       built' = built \cup F /\ Whole(built')
  /\ UNCHANGED <<db, answer>>

Ask(t) ==
  /\ answer' = [answer EXCEPT ![t] = NoAnswer]
  /\ UNCHANGED <<db, built>>

\* Nothing, or a file that defines what was asked for.
Reply(t, q) ==
  /\ answer[t] = NoAnswer
  /\ \E f \in {None} \cup {g \in built : Defines(g, q)} :
       answer' = [answer EXCEPT ![t] = [request |-> q, result |-> f]]
  /\ UNCHANGED <<db, built>>

Next ==
  \/ Load
  \/ \E t \in Threads : Ask(t) \/ \E q \in Questions : Reply(t, q)

Spec == Init /\ [][Next]_vars
=============================================================================
