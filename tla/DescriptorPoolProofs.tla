------------------------ MODULE DescriptorPoolProofs ------------------------
(***************************************************************************)
(* Proofs about DescriptorPool, for any files, names, databases, threads   *)
(* and numbers of calls: that the tables are whole between builds, that    *)
(* no validation is lost, that no file is built again after it failed, and *)
(* that the pool implements FilePool.                                      *)
(*                                                                         *)
(* The tables can be rolled back to each checkpoint, so the invariant      *)
(* speaks of the tables as they would be at every such cut, and not only   *)
(* as they are: a rollback then has nothing to prove, and what is added    *)
(* matters to the last cut alone.                                          *)
(***************************************************************************)
EXTENDS DescriptorPool, FiniteSetTheorems, TLAPS

Rank(S, i) == Cardinality({j \in S : j <= i})

(* The checkpoint of a builder that has passed its imports, and the files   *)
(* that its own first entry added: its file, unless that was there before   *)
Base(i) == checkpoints[Rank(Started, i)]
Own(i) == added[Base(i) + 1].files

(* What has been added behind a position of the list                        *)
AddedFiles(c)   == UNION {added[m].files : m \in c + 1 .. Len(added)}
AddedSymbols(c) == UNION {added[m].symbols : m \in c + 1 .. Len(added)}
AddedNumbers(c) == UNION {added[m].numbers : m \in c + 1 .. Len(added)}

(* The tables as a rollback to this position leaves them                    *)
FilesAt(c) == files \ AddedFiles(c)
SymbolsAt(c) == [s \in Symbols |-> IF s \in AddedSymbols(c) THEN None ELSE symbols[s]]
NumbersAt(c) == [n \in Numbers |-> IF n \in AddedNumbers(c) THEN None ELSE extensions[n]]

(* Where the tables may be cut, or are                                      *)
Cuts == ToSet(checkpoints) \cup {Len(added)}

-----------------------------------------------------------------------------
(* The inductive invariant                                                  *)

Keys == Files \cup Symbols \cup Numbers

FrameType ==
  [file : Files, cause : {"file", "symbol", "extension", "build"}, key : Keys,
   phase : {"imports", "links", "end"}, import : Nat, link : Nat, scope : Nat,
   asked : BOOLEAN, visible : SUBSET Files, errors : BOOLEAN]

EntryType == [files : SUBSET Files, numbers : SUBSET Numbers, symbols : SUBSET Symbols]

CallType ==
  [op : {"file", "build", "symbol", "container", "extension"}, key : Keys,
   deferred : SUBSET Files, result : Files \cup {None},
   at : {"fast", "lock", "search", "build", "found", "lost", "answer", "validate",
         "judge"}]

Typed ==
  /\ db \in Databases
  /\ files \subseteq Files
  /\ symbols \in [Symbols -> Files \cup {None}]
  /\ extensions \in [Numbers -> Files \cup {None}]
  /\ added \in Seq(EntryType) /\ checkpoints \in Seq(Nat)
  /\ pending \in Seq(Files)
  /\ badFiles \subseteq Files /\ badSymbols \subseteq Symbols
  /\ frames \in Seq(FrameType)
  /\ mutex \in Threads \cup {None}
  /\ calls \in [Threads -> Seq(CallType)]
  /\ left \in [Threads -> 0 .. MaxCalls]
  /\ answer = [t \in Threads |-> answer[t]]
  /\ rollbacks \in [Files -> Nat]

(* Where a builder stands in its file                                       *)
FrameFits(fr) ==
  LET p == ProtoOf(fr.file) IN
  /\ fr.cause = "file" => fr.key \in Files
  /\ fr.cause = "symbol" => fr.key \in Symbols
  /\ fr.phase = "imports" =>
       fr.import \in 1 .. Len(p.imports) + 1 /\ fr.link = 1 /\ fr.visible = {}
  /\ fr.link \in 1 .. Len(p.links) + 1
  /\ fr.link <= Len(p.links) => fr.scope \in 1 .. Len(p.links[fr.link].scopes)

FrameInv == \A i \in DOMAIN frames : FrameFits(frames[i])

(* The files of the builders are different, and the lists of pending files  *)
(* and of checkpoints are those of the builders in either phase.            *)
StackInv ==
  /\ \A j, k \in DOMAIN checkpoints : j < k => checkpoints[j] < checkpoints[k]
  /\ \A k \in DOMAIN checkpoints : checkpoints[k] < Len(added)
  /\ IF checkpoints = <<>> THEN added = <<>> ELSE checkpoints[1] = 0
  /\ Len(checkpoints) = Cardinality(Started)
  /\ \A i, j \in DOMAIN frames : i # j => frames[i].file # frames[j].file

PendingInv ==
  /\ db.backed =>
       /\ Len(pending) = Cardinality(Loading)
       /\ \A i \in Loading : pending[Rank(Loading, i)] = frames[i].file
       /\ \A i \in DOMAIN frames : frames[i].cause # "build"
  /\ ~db.backed =>
       /\ Len(frames) <= 1
       /\ \A i \in DOMAIN frames :
            /\ frames[i].cause = "build"
            /\ frames[i].phase = "imports" =>
                 frames[i].import = Len(ProtoOf(frames[i].file).imports) + 1

(* What a builder has put into the tables at its checkpoint                 *)
OwnInv ==
  \A i \in Started :
    /\ Own(i) \subseteq {frames[i].file}
    /\ frames[i].phase = "links" => Own(i) = {frames[i].file}
    /\ frames[i].phase = "end" => frames[i].errors

NamesPackage(Sy, s) == Sy[s] # None /\ ProtoOf(Sy[s]).package = s

(* In tables F, Sy, Nu all is there that file f refers to, the first n links *)
(* of it included.                                                          *)
WholeIn(F, Sy, Nu, f, n) ==
  LET p == ProtoOf(f) IN
  /\ ToSet(p.imports) \subseteq F
  /\ \A s \in p.symbols : Sy[s] = f
  /\ p.package # None => Sy[p.package] \in F /\ NamesPackage(Sy, p.package)
  /\ \A i \in 1 .. n :
       /\ \E s \in ToSet(p.links[i].scopes) : Sy[s] \in F /\ ~NamesPackage(Sy, s)
       /\ p.links[i].number # None => Nu[p.links[i].number] \in F

Accounted(F, Sy, Nu) ==
  /\ \A s \in Symbols : Sy[s] # None =>
       Sy[s] \in F /\ s \in ProtoOf(Sy[s]).symbols \cup {ProtoOf(Sy[s]).package}
  /\ \A n \in Numbers : Nu[n] # None =>
       Nu[n] \in F /\ \E i \in DOMAIN ProtoOf(Nu[n]).links :
                         ProtoOf(Nu[n]).links[i].number = n

NoCircle(F) ==
  \A S \in (SUBSET F) \ {{}} : \E f \in S : ToSet(ProtoOf(f).imports) \cap S = {}

(* Files that are being built, and those of them that are known to fail     *)
Under  == UNION {Own(i) : i \in Started}
Faulty == UNION {Own(i) : i \in {j \in Started : frames[j].errors}}

(* A builder's file and what it refers to so far is in the tables at every  *)
(* cut behind its checkpoint.                                               *)
BuilderIn(i, F, Sy, Nu, c) ==
  /\ Base(i) <= c => frames[i].visible \subseteq F
  /\ Base(i) < c =>
       /\ frames[i].file \in F
       /\ frames[i].errors \/ WholeIn(F, Sy, Nu, frames[i].file, frames[i].link - 1)

TablesOK(F, Sy, Nu, c) ==
  /\ Accounted(F, Sy, Nu)
  /\ \A f \in F \ Under : WholeIn(F, Sy, Nu, f, Len(ProtoOf(f).links))
  /\ \A i \in Started : BuilderIn(i, F, Sy, Nu, c)
  /\ NoCircle(F \ Faulty)

CutInv(c) == TablesOK(FilesAt(c), SymbolsAt(c), NumbersAt(c), c)

TablesInv == \A c \in Cuts : CutInv(c)

BuildInv == FrameInv /\ StackInv /\ PendingInv /\ OwnInv /\ TablesInv

Holds == {"search", "build", "found", "lost"}

RequestOf(call) == [op |-> call.op, key |-> call.key]

Truthful(call) ==
  \/ call.result = None
  \/ call.result \in Committed /\ Pool!Defines(call.result, RequestOf(call))

(* The calls of a thread: all but the last wait for the call that Validate  *)
(* makes, and the thread that holds mutex_ is in the middle of the last.    *)
CallInv(t, i) ==
  LET call == calls[t][i] IN
  /\ RequestOf(call) \in Requests /\ (i = 1 => RequestOf(call) \in Questions)
  /\ i < Len(calls[t]) => call.at = "judge"
  /\ call.at \in Holds => mutex = t
  /\ call.at = "build" <=> mutex = t /\ i = Len(calls[t]) /\ frames # <<>>
  /\ call.at \in {"fast", "lock", "search", "answer"} => call.deferred = {}
  /\ call.at \in {"answer", "validate", "judge"} => Truthful(call)
  /\ call.op = "build" => ~db.backed
  /\ call.at = "search" => Lookup(call) = None

CallsInv ==
  /\ mutex = None => frames = <<>>
  /\ \A t \in Threads :
       /\ \A i \in DOMAIN calls[t] : CallInv(t, i)
       /\ calls[t] # <<>> => answer[t] = NoAnswer
       /\ mutex = t => calls[t] # <<>> /\ Last(calls[t]).at \in Holds

Builder(t, i) == mutex = t /\ i = Len(calls[t])

(* Files that are to be validated are committed, or the call that holds     *)
(* mutex_ has them; and every file with features is one of those.           *)
DeferInv ==
  /\ \A t \in Threads : \A i \in DOMAIN calls[t] :
       calls[t][i].deferred \subseteq IF Builder(t, i) THEN files ELSE Committed
  /\ \A f \in Committed : ProtoOf(f).features # "none" => f \in Deferred \cup validated
  /\ \A f \in files \ (Under \cup Committed) : ProtoOf(f).features # "none" =>
       mutex # None /\ f \in Last(calls[mutex]).deferred

(* A file that has failed is not tried again by the call that is under way. *)
FailInv ==
  \A f \in Files :
    /\ rollbacks[f] <= 1
    /\ rollbacks[f] = 1 =>
         /\ \A i \in DOMAIN frames : frames[i].file # f
         /\ mutex # None => Last(calls[mutex]).at # "search" /\ (db.backed => f \in badFiles)

(* These three stand by themselves; DeferInv and FailInv rest on them.      *)
Core == Typed /\ BuildInv /\ CallsInv

-----------------------------------------------------------------------------
(* Positions in a set of positions                                          *)

LEMMA RankIsNat ==
    ASSUME NEW n \in Nat, NEW S, S \subseteq 1 .. n, NEW i
    PROVE  Rank(S, i) \in Nat /\ Rank(S, i) <= Cardinality(S) /\ Cardinality(S) \in Nat
<1>1. IsFiniteSet(1 .. n)
  BY FS_Interval
<1>2. IsFiniteSet(S)
  BY <1>1, FS_Subset
<1> DEFINE T == {j \in S : j <= i}
<1>3. T \subseteq S
  OBVIOUS
<1>4. IsFiniteSet(T) /\ Cardinality(T) <= Cardinality(S)
  BY <1>2, <1>3, FS_Subset
<1> QED
  BY <1>2, <1>4, FS_CardinalityType DEF Rank

LEMMA RankOfLast ==
    ASSUME NEW n \in Nat, NEW S, S \subseteq 1 .. n
    PROVE  Rank(S, n) = Cardinality(S)
<1>1. \A j \in S : j \in 1 .. n /\ j <= n
  OBVIOUS
<1>2. {j \in S : j <= n} = S
  BY <1>1
<1> QED
  BY <1>2 DEF Rank

LEMMA RankGrows ==
    ASSUME NEW n \in Nat, NEW S, S \subseteq 1 .. n, NEW i \in S, NEW j \in 0 .. n, j < i
    PROVE  Rank(S, j) < Rank(S, i) /\ Rank(S, i) \in 1 .. Cardinality(S)
<1> DEFINE T == {k \in S : k <= i}
           U == {k \in S : k <= j}
<1>1. IsFiniteSet(1 .. n)
  BY FS_Interval
<1>2. IsFiniteSet(S)
  BY <1>1, FS_Subset
<1>3. T \subseteq S /\ U \subseteq T
  <2>1. \A k \in S : k \in Int
    OBVIOUS
  <2>2. \A k \in S : k <= j => k <= i
    BY <2>1
  <2> QED
    BY <2>2
<1>4. IsFiniteSet(T) /\ IsFiniteSet(U)
  BY <1>2, <1>3, FS_Subset
<1>5. i \in T /\ i \notin U
  OBVIOUS
<1>6. Cardinality(U) <= Cardinality(T) /\ (U # T => Cardinality(U) < Cardinality(T))
  <2>1. U \in SUBSET T
    BY <1>3
  <2>2. Cardinality(U) <= Cardinality(T) /\ (Cardinality(T) = Cardinality(U) => T = U)
    BY <1>4, <2>1, FS_Subset
  <2>3. Cardinality(T) \in Nat /\ Cardinality(U) \in Nat
    BY <1>4, FS_CardinalityType
  <2> QED
    BY <2>2, <2>3
<1>7. Cardinality(U) < Cardinality(T)
  BY <1>5, <1>6
<1>8. Rank(S, j) = Cardinality(U) /\ Rank(S, i) = Cardinality(T)
  BY DEF Rank
<1>9. Rank(S, i) \in Nat /\ Rank(S, j) \in Nat /\ Rank(S, i) <= Cardinality(S)
      /\ Cardinality(S) \in Nat
  BY RankIsNat
<1> QED
  BY <1>7, <1>8, <1>9

LEMMA RankInRange ==
    ASSUME NEW n \in Nat, NEW S, S \subseteq 1 .. n, NEW i \in S
    PROVE  Rank(S, i) \in 1 .. Cardinality(S)
<1>1. 0 \in 0 .. n /\ 0 < i
  OBVIOUS
<1> QED
  BY <1>1, RankGrows

LEMMA RankSame ==
    ASSUME NEW S, NEW T, NEW i, \A j : j <= i => (j \in S <=> j \in T)
    PROVE  Rank(S, i) = Rank(T, i)
<1>1. {j \in S : j <= i} = {j \in T : j <= i}
  OBVIOUS
<1> QED
  BY <1>1 DEF Rank

(* One more position, behind all others                                     *)
LEMMA RankOfNew ==
    ASSUME NEW S, NEW T, NEW m \in Nat, NEW n \in Nat, n < m, \A j \in S : j \in 1 .. n, T = S \cup {m}
    PROVE  /\ Cardinality(T) = Cardinality(S) + 1
           /\ Rank(T, m) = Cardinality(S) + 1
           /\ \A i \in S : Rank(T, i) = Rank(S, i)
<1>1. IsFiniteSet(S) /\ m \notin S
  <2>1. IsFiniteSet(1 .. n)
    BY FS_Interval
  <2>2. m \notin S
    OBVIOUS
  <2> QED
    BY <2>1, <2>2, FS_Subset
<1>2. Cardinality(T) = Cardinality(S) + 1
  BY <1>1, FS_AddElement
<1>3. T \subseteq 1 .. m
  OBVIOUS
<1>4. Rank(T, m) = Cardinality(T)
  BY <1>3, RankOfLast
<1>5. ASSUME NEW i \in S PROVE Rank(T, i) = Rank(S, i)
  <2>1. {j \in T : j <= i} = {j \in S : j <= i}
    OBVIOUS
  <2> QED
    BY <2>1 DEF Rank
<1> QED
  BY <1>2, <1>4, <1>5


-----------------------------------------------------------------------------
(* The tables at a cut                                                      *)

LEMMA AtTheEnd ==
    ASSUME Typed
    PROVE  /\ FilesAt(Len(added)) = files
           /\ SymbolsAt(Len(added)) = symbols
           /\ NumbersAt(Len(added)) = extensions
<1>1. Len(added) + 1 .. Len(added) = {}
  BY DEF Typed
<1>2. /\ AddedFiles(Len(added)) = {} /\ AddedSymbols(Len(added)) = {}
      /\ AddedNumbers(Len(added)) = {}
  BY <1>1 DEF AddedFiles, AddedSymbols, AddedNumbers
<1>3. FilesAt(Len(added)) = files
  BY <1>2 DEF FilesAt
<1>4. SymbolsAt(Len(added)) = symbols
  BY <1>2 DEF SymbolsAt, Typed
<1>5. NumbersAt(Len(added)) = extensions
  BY <1>2 DEF NumbersAt, Typed
<1> QED
  BY <1>3, <1>4, <1>5

(* An entry is added to the tables and recorded                             *)
Adds(e) ==
  /\ e \in EntryType
  /\ added' = Append(added, e)
  /\ e.files \cap files = {} /\ files' = files \cup e.files
  /\ \A s \in Symbols : IF s \in e.symbols THEN symbols[s] = None
                        ELSE symbols'[s] = symbols[s]
  /\ \A n \in Numbers : IF n \in e.numbers THEN extensions[n] = None
                        ELSE extensions'[n] = extensions[n]

SameAt(c) ==
  /\ FilesAt(c)' = FilesAt(c)
  /\ SymbolsAt(c)' = SymbolsAt(c)
  /\ NumbersAt(c)' = NumbersAt(c)

(* What is added now matters to no earlier cut.                             *)
LEMMA AddsBehind ==
    ASSUME Typed, NEW e, Adds(e), NEW c \in 0 .. Len(added)
    PROVE  SameAt(c)
<1>1. added \in Seq(EntryType) /\ e \in EntryType /\ added' = Append(added, e)
  BY DEF Typed, Adds
<1>2. /\ Len(added') = Len(added) + 1 /\ added'[Len(added) + 1] = e
      /\ \A m \in 1 .. Len(added) : added'[m] = added[m]
  BY <1>1
<1>3. c + 1 .. Len(added') = (c + 1 .. Len(added)) \cup {Len(added) + 1}
  BY <1>1, <1>2
<1>4. \A m \in c + 1 .. Len(added) : m \in 1 .. Len(added)
  BY <1>1
<1>5. AddedFiles(c)' = AddedFiles(c) \cup e.files
  BY <1>2, <1>3, <1>4 DEF AddedFiles
<1>6. AddedSymbols(c)' = AddedSymbols(c) \cup e.symbols
  BY <1>2, <1>3, <1>4 DEF AddedSymbols
<1>7. AddedNumbers(c)' = AddedNumbers(c) \cup e.numbers
  BY <1>2, <1>3, <1>4 DEF AddedNumbers
<1>8. FilesAt(c)' = FilesAt(c)
  BY <1>5 DEF FilesAt, Adds
<1>9. SymbolsAt(c)' = SymbolsAt(c)
  <2>1. ASSUME NEW s \in Symbols
        PROVE  (IF s \in AddedSymbols(c)' THEN None ELSE symbols'[s])
                  = (IF s \in AddedSymbols(c) THEN None ELSE symbols[s])
    BY <1>6 DEF Adds
  <2> QED
    BY <2>1 DEF SymbolsAt
<1>10. NumbersAt(c)' = NumbersAt(c)
  <2>1. ASSUME NEW n \in Numbers
        PROVE  (IF n \in AddedNumbers(c)' THEN None ELSE extensions'[n])
                  = (IF n \in AddedNumbers(c) THEN None ELSE extensions[n])
    BY <1>7 DEF Adds
  <2> QED
    BY <2>1 DEF NumbersAt
<1> QED
  BY <1>8, <1>9, <1>10 DEF SameAt

RollsBackTo(c) ==
  /\ added' = SubSeq(added, 1, c)
  /\ files' = FilesAt(c) /\ symbols' = SymbolsAt(c) /\ extensions' = NumbersAt(c)

(* A rollback leaves the tables as they were at each earlier cut.           *)
LEMMA RollbackKeeps ==
    ASSUME Typed, NEW c \in 0 .. Len(added), RollsBackTo(c), NEW b \in 0 .. c
    PROVE  SameAt(b) /\ Len(added') = c
<1>1. added \in Seq(EntryType) /\ Len(added) \in Nat
  BY DEF Typed
<1>2. Len(added') = c /\ \A m \in 1 .. c : added'[m] = added[m]
  BY <1>1 DEF RollsBackTo
<1>3. b + 1 .. Len(added) = (b + 1 .. Len(added')) \cup (c + 1 .. Len(added))
  BY <1>1, <1>2
<1>4. \A m \in b + 1 .. Len(added') : m \in 1 .. c
  BY <1>2
<1>5. AddedFiles(b) = AddedFiles(b)' \cup AddedFiles(c)
  BY <1>2, <1>3, <1>4 DEF AddedFiles
<1>6. AddedSymbols(b) = AddedSymbols(b)' \cup AddedSymbols(c)
  BY <1>2, <1>3, <1>4 DEF AddedSymbols
<1>7. AddedNumbers(b) = AddedNumbers(b)' \cup AddedNumbers(c)
  BY <1>2, <1>3, <1>4 DEF AddedNumbers
<1>8. FilesAt(b)' = FilesAt(b)
  BY <1>5 DEF FilesAt, RollsBackTo
<1>9. SymbolsAt(b)' = SymbolsAt(b)
  <2>1. ASSUME NEW s \in Symbols
        PROVE  (IF s \in AddedSymbols(b)' THEN None ELSE symbols'[s])
                  = (IF s \in AddedSymbols(b) THEN None ELSE symbols[s])
    BY <1>6 DEF RollsBackTo, SymbolsAt
  <2> QED
    BY <2>1 DEF SymbolsAt
<1>10. NumbersAt(b)' = NumbersAt(b)
  <2>1. ASSUME NEW n \in Numbers
        PROVE  (IF n \in AddedNumbers(b)' THEN None ELSE extensions'[n])
                  = (IF n \in AddedNumbers(b) THEN None ELSE extensions[n])
    BY <1>7 DEF RollsBackTo, NumbersAt
  <2> QED
    BY <2>1 DEF NumbersAt
<1> QED
  BY <1>2, <1>8, <1>9, <1>10 DEF SameAt

LEMMA UndoneIsAdded ==
    ASSUME Typed, NEW c \in 0 .. Len(added), checkpoints # <<>>, c = Last(checkpoints)
    PROVE  /\ UndoneFiles = AddedFiles(c)
           /\ UndoneSymbols = AddedSymbols(c)
           /\ UndoneNumbers = AddedNumbers(c)
<1>1. added \in Seq(EntryType) /\ Len(added) \in Nat
  BY DEF Typed
<1>2. PICK u : u = Undone
  OBVIOUS
<1>3. u = SubSeq(added, c + 1, Len(added))
  BY <1>2 DEF Undone
<1>4. /\ DOMAIN u = 1 .. Len(added) - c
      /\ \A i \in 1 .. Len(added) - c : u[i] = added[c + i]
  BY <1>1, <1>3
<1>5. ToSet(u) = {added[m] : m \in c + 1 .. Len(added)}
  <2>1. ASSUME NEW i \in DOMAIN u PROVE \E m \in c + 1 .. Len(added) : u[i] = added[m]
    <3>1. c + i \in c + 1 .. Len(added) /\ u[i] = added[c + i]
      BY <1>1, <1>4
    <3> QED
      BY <3>1
  <2>2. ASSUME NEW m \in c + 1 .. Len(added) PROVE \E i \in DOMAIN u : u[i] = added[m]
    <3>1. m - c \in 1 .. Len(added) - c /\ c + (m - c) = m
      BY <1>1
    <3> QED
      BY <1>4, <3>1
  <2> QED
    BY <2>1, <2>2 DEF ToSet
<1>6. UndoneFiles = AddedFiles(c)
  BY <1>2, <1>5 DEF UndoneFiles, AddedFiles
<1>7. UndoneSymbols = AddedSymbols(c)
  BY <1>2, <1>5 DEF UndoneSymbols, AddedSymbols
<1>8. UndoneNumbers = AddedNumbers(c)
  BY <1>2, <1>5 DEF UndoneNumbers, AddedNumbers
<1> QED
  BY <1>6, <1>7, <1>8

(* What a file refers to is still there when more is.                       *)
LEMMA WholeStays ==
    ASSUME NEW F, NEW G, F \subseteq G, NEW Sy, NEW Ty, NEW Nu, NEW Mu, None \notin F,
           \A s \in Symbols : Sy[s] # None => Ty[s] = Sy[s],
           \A n \in Numbers : Nu[n] # None => Mu[n] = Nu[n],
           NEW f, ProtoOf(f) \in Proto, f # None,
           NEW n \in 0 .. Len(ProtoOf(f).links), WholeIn(F, Sy, Nu, f, n)
    PROVE  WholeIn(G, Ty, Mu, f, n)
<1> DEFINE p == ProtoOf(f)
<1>1. /\ p.symbols \subseteq Symbols /\ p.package \in Symbols \cup {None}
      /\ \A i \in DOMAIN p.links : p.links[i] \in Link
      /\ n \in Nat /\ Len(p.links) \in Nat /\ DOMAIN p.links = 1 .. Len(p.links)
  BY DEF Proto
<1>2. \A i \in 1 .. n : /\ \A s \in ToSet(p.links[i].scopes) : s \in Symbols
                        /\ p.links[i].number \in Numbers \cup {None}
  BY <1>1 DEF Link, ToSet
<1>3. ToSet(p.imports) \subseteq G
  BY DEF WholeIn
<1>4. \A s \in p.symbols : Ty[s] = f
  BY <1>1 DEF WholeIn
<1>5. p.package # None => Ty[p.package] \in G /\ NamesPackage(Ty, p.package)
  BY <1>1 DEF WholeIn, NamesPackage
<1>6. ASSUME NEW i \in 1 .. n
      PROVE  /\ \E s \in ToSet(p.links[i].scopes) : Ty[s] \in G /\ ~NamesPackage(Ty, s)
             /\ p.links[i].number # None => Mu[p.links[i].number] \in G
  <2>1. PICK s \in ToSet(p.links[i].scopes) : Sy[s] \in F /\ ~NamesPackage(Sy, s)
    BY DEF WholeIn
  <2>2. Ty[s] \in G /\ ~NamesPackage(Ty, s)
    BY <1>2, <2>1 DEF NamesPackage
  <2>3. p.links[i].number # None => Mu[p.links[i].number] \in G
    BY <1>2 DEF WholeIn
  <2> QED
    BY <2>1, <2>2, <2>3
<1> QED
  BY <1>3, <1>4, <1>5, <1>6 DEF WholeIn

-----------------------------------------------------------------------------
(* Builders and their checkpoints                                           *)

LEMMA Stages ==
    ASSUME Typed
    PROVE  /\ Len(frames) \in Nat /\ DOMAIN frames = 1 .. Len(frames)
           /\ Started \subseteq 1 .. Len(frames) /\ Loading \subseteq 1 .. Len(frames)
           /\ \A i \in DOMAIN frames :
                /\ frames[i] \in FrameType
                /\ i \in Loading <=> frames[i].phase = "imports"
                /\ i \in Started <=> frames[i].phase # "imports"
           /\ Len(added) \in Nat /\ DOMAIN added = 1 .. Len(added)
           /\ Len(checkpoints) \in Nat /\ DOMAIN checkpoints = 1 .. Len(checkpoints)
           /\ \A k \in DOMAIN checkpoints : checkpoints[k] \in Nat
           /\ None \notin Files
<1>1. frames \in Seq(FrameType) /\ added \in Seq(EntryType) /\ checkpoints \in Seq(Nat)
  BY DEF Typed
<1>2. Started \subseteq DOMAIN frames /\ Loading \subseteq DOMAIN frames
  BY DEF Started, Loading
<1>3. \A i \in DOMAIN frames : /\ i \in Loading <=> frames[i].phase = "imports"
                               /\ i \in Started <=> frames[i].phase # "imports"
  BY DEF Started, Loading
<1> QED
  BY <1>1, <1>2, <1>3, NamesAssumption

LEMMA BuilderPlace ==
    ASSUME Typed, StackInv, NEW i \in Started
    PROVE  /\ Rank(Started, i) \in DOMAIN checkpoints
           /\ Base(i) \in Nat /\ Base(i) < Len(added) /\ Base(i) \in Cuts
           /\ Base(i) + 1 \in DOMAIN added
<1>1. Rank(Started, i) \in 1 .. Cardinality(Started)
  BY Stages, RankInRange
<1>2. Rank(Started, i) \in DOMAIN checkpoints
  BY <1>1, Stages DEF StackInv
<1>3. Base(i) = checkpoints[Rank(Started, i)]
  BY DEF Base
<1>4. Base(i) \in Nat /\ Base(i) < Len(added)
  BY <1>2, <1>3, Stages DEF StackInv
<1>5. Base(i) \in Cuts
  BY <1>2, <1>3 DEF Cuts, ToSet
<1> QED
  BY <1>2, <1>4, <1>5, Stages

LEMMA BuilderOrder ==
    ASSUME Typed, StackInv, NEW i \in Started, NEW j \in Started, j < i
    PROVE  Base(j) < Base(i) /\ Rank(Started, j) < Rank(Started, i)
<1>1. Rank(Started, j) < Rank(Started, i)
  <2>1. j \in 0 .. Len(frames)
    BY Stages
  <2> QED
    BY <2>1, Stages, RankGrows
<1> QED
  BY <1>1, BuilderPlace DEF Base, StackInv

LEMMA CutBounds ==
    ASSUME Typed, StackInv, NEW c \in Cuts
    PROVE  c \in 0 .. Len(added) /\ c \in Nat
BY Stages DEF Cuts, ToSet, StackInv

(* The builder on top has the last checkpoint, if it has one.               *)
LEMMA TopCheckpoint ==
    ASSUME Typed, StackInv, NEW n \in Started, n = Len(frames)
    PROVE  /\ checkpoints # <<>> /\ Base(n) = Last(checkpoints)
           /\ Rank(Started, n) = Len(checkpoints)
           /\ \A c \in Cuts : c = Len(added) \/ c <= Base(n)
<1>1. Rank(Started, n) = Len(checkpoints)
  BY Stages, RankOfLast DEF StackInv
<1>2. Len(checkpoints) \in DOMAIN checkpoints
  BY <1>1, BuilderPlace
<1>3. checkpoints # <<>> /\ Base(n) = Last(checkpoints)
  BY <1>1, <1>2 DEF Base, Last
<1>4. ASSUME NEW c \in Cuts, c # Len(added) PROVE c <= Base(n)
  <2>1. PICK k \in DOMAIN checkpoints : c = checkpoints[k]
    BY <1>4 DEF Cuts, ToSet
  <2>2. k = Len(checkpoints) \/ k < Len(checkpoints)
    BY Stages
  <2>3. Base(n) = checkpoints[Len(checkpoints)]
    BY <1>1 DEF Base
  <2>4. c \in Nat /\ Base(n) \in Nat
    BY <2>1, Stages, BuilderPlace
  <2> QED
    BY <1>2, <2>1, <2>2, <2>3, <2>4 DEF StackInv
<1> QED
  BY <1>1, <1>3, <1>4

(* A cut is carried over a step, whatever its tables are, if no file of it  *)
(* leaves the builders and none becomes sound.                              *)
LEMMA CutCarries ==
    ASSUME NEW F, NEW Sy, NEW Nu, NEW c, TablesOK(F, Sy, Nu, c), db' = db,
           F \cap Under \subseteq Under', F \cap Faulty \subseteq Faulty',
           \A i \in Started' : BuilderIn(i, F, Sy, Nu, c)'
    PROVE  TablesOK(F, Sy, Nu, c)'
<1>1. \A f : ProtoOf(f)' = ProtoOf(f)
  BY DEF ProtoOf
<1>2. Accounted(F, Sy, Nu)'
  BY <1>1 DEF TablesOK, Accounted
<1>3. \A f \in F \ Under' : WholeIn(F, Sy, Nu, f, Len(ProtoOf(f).links))'
  BY <1>1 DEF TablesOK, WholeIn, NamesPackage
<1>4. NoCircle(F \ Faulty)'
  <2>1. F \ Faulty' \subseteq F \ Faulty
    OBVIOUS
  <2>2. NoCircle(F \ Faulty)
    BY DEF TablesOK
  <2> QED
    BY <1>1, <2>1, <2>2 DEF NoCircle
<1> QED
  BY <1>2, <1>3, <1>4 DEF TablesOK

(* A builder that goes on as it was, as far as the tables are concerned.    *)
Steady(i) ==
  /\ Base(i)' = Base(i)
  /\ frames'[i].file = frames[i].file /\ frames'[i].visible = frames[i].visible
  /\ frames'[i].errors = frames[i].errors /\ frames'[i].link = frames[i].link

LEMMA BuilderCarries ==
    ASSUME NEW F, NEW Sy, NEW Nu, NEW c, NEW i, db' = db, Steady(i),
           BuilderIn(i, F, Sy, Nu, c)
    PROVE  BuilderIn(i, F, Sy, Nu, c)'
<1>1. \A f : ProtoOf(f)' = ProtoOf(f)
  BY DEF ProtoOf
<1>2. Base(i)' = Base(i)
  BY DEF Steady
<1> QED
  BY <1>1, <1>2 DEF BuilderIn, Steady, WholeIn, NamesPackage

LEMMA CutByParts ==
    ASSUME NEW c, SameAt(c), CutInv(c),
           \A F, Sy, Nu : TablesOK(F, Sy, Nu, c) /\ F = FilesAt(c) /\ Sy = SymbolsAt(c)
                            => TablesOK(F, Sy, Nu, c)'
    PROVE  CutInv(c)'
<1>1. PICK F, Sy, Nu : F = FilesAt(c) /\ Sy = SymbolsAt(c) /\ Nu = NumbersAt(c)
  OBVIOUS
<1>2. TablesOK(F, Sy, Nu, c)
  BY <1>1 DEF CutInv
<1>3. TablesOK(F, Sy, Nu, c)'
  BY <1>1, <1>2
<1>4. F = FilesAt(c)' /\ Sy = SymbolsAt(c)' /\ Nu = NumbersAt(c)'
  BY <1>1 DEF SameAt
<1> QED
  BY <1>3, <1>4 DEF CutInv

-----------------------------------------------------------------------------
(* Steps that leave the tables alone                                        *)

SameBuilders ==
  /\ Started' = Started
  /\ \A i \in Started :
       /\ frames'[i].file = frames[i].file /\ frames'[i].phase = frames[i].phase
       /\ frames'[i].visible = frames[i].visible /\ frames'[i].errors = frames[i].errors
       /\ frames'[i].link = frames[i].link

LEMMA TablesStay ==
    ASSUME Typed, StackInv, OwnInv, TablesInv, UNCHANGED <<db, tables>>, SameBuilders
    PROVE  OwnInv' /\ TablesInv'
<1>1. UNCHANGED <<db, files, symbols, extensions, added, checkpoints>>
  BY DEF tables
<1>2. ASSUME NEW i \in Started PROVE Steady(i) /\ Own(i)' = Own(i)
  <2>1. Rank(Started, i)' = Rank(Started, i)
    BY DEF SameBuilders, Rank
  <2>2. Base(i)' = Base(i)
    BY <1>1, <2>1 DEF Base
  <2>3. Own(i)' = Own(i)
    BY <1>1, <2>2 DEF Own
  <2> QED
    BY <2>2, <2>3 DEF Steady, SameBuilders
<1>3. OwnInv'
  BY <1>2 DEF OwnInv, SameBuilders
<1>4. Under' = Under /\ Faulty' = Faulty
  BY <1>2 DEF Under, Faulty, SameBuilders
<1>5. Cuts' = Cuts
  BY <1>1 DEF Cuts
<1>6. ASSUME NEW c \in Cuts PROVE CutInv(c)'
  <2>1. SameAt(c)
    BY <1>1 DEF SameAt, FilesAt, SymbolsAt, NumbersAt, AddedFiles, AddedSymbols, AddedNumbers
  <2>2. CutInv(c)
    BY DEF TablesInv
  <2>3. ASSUME NEW F, NEW Sy, NEW Nu, TablesOK(F, Sy, Nu, c) PROVE TablesOK(F, Sy, Nu, c)'
    <3>1. ASSUME NEW i \in Started' PROVE BuilderIn(i, F, Sy, Nu, c)'
      <4>1. i \in Started
        BY DEF SameBuilders
      <4>2. BuilderIn(i, F, Sy, Nu, c)
        BY <2>3, <4>1 DEF TablesOK
      <4> QED
        BY <1>1, <1>2, <4>1, <4>2, BuilderCarries
    <3> QED
      BY <1>1, <1>4, <2>3, <3>1, CutCarries
  <2> QED
    BY <2>1, <2>2, <2>3, CutByParts
<1> QED
  BY <1>3, <1>5, <1>6 DEF TablesInv

(* A stack in which builders have gone on to another import or scope        *)
Turned(stack) ==
  /\ stack \in Seq(FrameType) /\ Len(stack) = Len(frames)
  /\ \A i \in DOMAIN frames :
       /\ stack[i].file = frames[i].file /\ stack[i].cause = frames[i].cause
       /\ stack[i].key = frames[i].key
       /\ stack[i].phase = frames[i].phase /\ stack[i].visible = frames[i].visible
       /\ stack[i].errors = frames[i].errors /\ stack[i].link = frames[i].link
       /\ ~db.backed => stack[i].import = frames[i].import
       /\ FrameFits(stack[i])

(* What a search may add to the files known as bad: a file that is being    *)
(* built, or that the database does not have                                *)
Refusable ==
  badFiles \cup (Files \ db.present) \cup IF db.backed THEN ToSet(pending) ELSE {}

(* A builder for f is put on top.                                           *)
Starts(stack, f, cause, key) ==
  /\ db.backed /\ f \in Files /\ f \notin badFiles /\ f \notin ToSet(pending)
  /\ f \notin files /\ cause # "build"
  /\ cause = "file" => key \in Files /\ key = f
  /\ cause = "symbol" => key \in Symbols
  /\ tried' = tried \cup {f}
  /\ frames' = Append(stack, NewFrame(f, cause, key))
  /\ pending' = Append(pending, f)

LEMMA TurnedStays ==
    ASSUME Typed, BuildInv, UNCHANGED <<db, tables>>, NEW stack, Turned(stack),
           frames' = stack, pending' = pending
    PROVE  BuildInv'
<1>1. UNCHANGED <<db, files, symbols, extensions, added, checkpoints>>
  BY DEF tables
<1>2. /\ frames' \in Seq(FrameType) /\ Len(frames') = Len(frames)
      /\ DOMAIN frames' = DOMAIN frames
      /\ \A i \in DOMAIN frames : stack[i] = frames'[i]
  BY Stages DEF Turned
<1>3. Started' = Started /\ Loading' = Loading
  BY <1>2 DEF Started, Loading, Turned
<1>4. SameBuilders
  BY <1>2, <1>3, Stages DEF SameBuilders, Turned
<1>5. OwnInv' /\ TablesInv'
  BY <1>4, TablesStay DEF BuildInv
<1>6. FrameInv'
  BY <1>1, <1>2 DEF FrameInv, Turned, FrameFits, ProtoOf
<1>7. StackInv'
  BY <1>1, <1>2, <1>3 DEF BuildInv, StackInv, Turned
<1>8. PendingInv'
  <2>1. \A i \in Loading : i \in DOMAIN frames
    BY Stages
  <2> QED
    BY <1>1, <1>2, <1>3, <2>1 DEF BuildInv, PendingInv, Turned, Rank, ProtoOf
<1> QED
  BY <1>5, <1>6, <1>7, <1>8 DEF BuildInv

(* The file of a builder is pending, or in the tables already.              *)
LEMMA FilesInHand ==
    ASSUME Typed, BuildInv, db.backed, NEW i \in DOMAIN frames
    PROVE  frames[i].file \in files \cup ToSet(pending)
<1>1. CASE i \in Loading
  <2>1. Rank(Loading, i) \in 1 .. Len(pending)
    BY <1>1, Stages, RankInRange DEF BuildInv, PendingInv
  <2>2. pending[Rank(Loading, i)] = frames[i].file
    BY <1>1 DEF BuildInv, PendingInv
  <2> QED
    BY <2>1, <2>2 DEF ToSet, Typed
<1>2. CASE i \notin Loading
  <2>1. i \in Started
    BY <1>2 DEF Started
  <2>2. Base(i) < Len(added)
    BY <2>1, BuilderPlace DEF BuildInv
  <2>3. CutInv(Len(added))
    BY DEF BuildInv, TablesInv, Cuts
  <2>4. BuilderIn(i, FilesAt(Len(added)), SymbolsAt(Len(added)), NumbersAt(Len(added)),
                  Len(added))
    BY <2>1, <2>3 DEF CutInv, TablesOK
  <2> QED
    BY <2>2, <2>4, AtTheEnd DEF BuilderIn
<1> QED
  BY <1>1, <1>2

LEMMA NewFrameFits ==
    ASSUME Typed, NEW f \in Files, NEW cause \in {"file", "symbol", "extension", "build"},
           NEW key \in Keys, cause = "file" => key \in Files,
           cause = "symbol" => key \in Symbols
    PROVE  NewFrame(f, cause, key) \in FrameType /\ FrameFits(NewFrame(f, cause, key))
<1> DEFINE p == ProtoOf(f)
           fr == NewFrame(f, cause, key)
<1>1. p \in Proto
  BY DatabaseAssumption DEF Typed, ProtoOf
<1>2. p.imports \in Seq(Files) /\ p.links \in Seq(Link)
  BY <1>1 DEF Proto
<1>3. Len(p.imports) \in Nat /\ Len(p.links) \in Nat
  BY <1>2
<1>4. /\ fr.file = f /\ fr.cause = cause /\ fr.key = key /\ fr.phase = "imports"
      /\ fr.import \in 1 .. Len(p.imports) + 1 /\ fr.link = 1 /\ fr.scope = 1
      /\ fr.visible = {}
      /\ fr \in FrameType
  BY <1>3 DEF NewFrame, FrameType
<1>5. ASSUME 1 <= Len(p.links) PROVE 1 \in 1 .. Len(p.links[1].scopes)
  <2>1. p.links[1] \in Link
    BY <1>2, <1>5
  <2>2. p.links[1].scopes \in Seq(Symbols) /\ p.links[1].scopes # <<>>
    BY <2>1 DEF Link
  <2> QED
    BY <2>2
<1>6. FrameFits(fr)
  BY <1>3, <1>4, <1>5 DEF FrameFits
<1> QED
  BY <1>4, <1>6

LEMMA StartsBuilds ==
    ASSUME Typed, BuildInv, UNCHANGED <<db, tables>>, NEW stack, Turned(stack),
           NEW f, NEW cause \in {"file", "symbol", "extension"}, NEW key \in Keys,
           Starts(stack, f, cause, key)
    PROVE  BuildInv'
<1>1. UNCHANGED <<db, files, symbols, extensions, added, checkpoints>> /\ db.backed
  BY DEF tables, Starts
<1> DEFINE n == Len(frames)
           fr == NewFrame(f, cause, key)
<1>2. /\ n \in Nat /\ stack \in Seq(FrameType) /\ Len(stack) = n /\ DOMAIN frames = 1 .. n
      /\ fr \in FrameType /\ FrameFits(fr) /\ fr.file = f /\ fr.phase = "imports"
      /\ fr.cause = cause
  BY Stages, NewFrameFits DEF Turned, Starts, NewFrame
<1>3. /\ frames' \in Seq(FrameType) /\ Len(frames') = n + 1 /\ DOMAIN frames' = 1 .. n + 1
      /\ frames'[n + 1] = fr
      /\ \A i \in 1 .. n : frames'[i] = stack[i]
  BY <1>2 DEF Starts
<1>4. /\ Started' = Started /\ Loading' = Loading \cup {n + 1}
      /\ \A i \in 1 .. n : frames'[i].phase = frames[i].phase
  <2>1. \A i \in 1 .. n : frames'[i].phase = frames[i].phase
    BY <1>2, <1>3 DEF Turned
  <2>2. Loading' = Loading \cup {n + 1}
    BY <1>2, <1>3, <2>1 DEF Loading
  <2>3. Started' = (1 .. n + 1) \ Loading'
    BY <1>3 DEF Started
  <2>4. (1 .. n + 1) = (1 .. n) \cup {n + 1}
    BY <1>2
  <2>5. Started = (1 .. n) \ Loading /\ n + 1 \notin Started
    BY <1>2, Stages DEF Started
  <2> QED
    BY <2>1, <2>2, <2>3, <2>4, <2>5
<1>5. SameBuilders
  BY <1>2, <1>3, <1>4, Stages DEF SameBuilders, Turned
<1>6. OwnInv' /\ TablesInv'
  BY <1>5, TablesStay DEF BuildInv
<1>7. FrameInv'
  <2>1. \A g : ProtoOf(g)' = ProtoOf(g)
    BY <1>1 DEF ProtoOf
  <2>2. ASSUME NEW i \in 1 .. n + 1 PROVE FrameFits(frames'[i])
    <3>1. CASE i \in 1 .. n
      BY <1>2, <1>3, <3>1 DEF Turned
    <3>2. CASE i = n + 1
      BY <1>2, <1>3, <3>2
    <3> QED
      BY <1>2, <3>1, <3>2
  <2> QED
    BY <1>3, <2>1, <2>2 DEF FrameInv, FrameFits
<1>8. StackInv'
  <2>1. \A i \in 1 .. n : frames'[i].file # f
    BY <1>1, <1>2, <1>3, FilesInHand DEF Starts, Turned
  <2>2. \A i, j \in DOMAIN frames' : i # j => frames'[i].file # frames'[j].file
    <3>1. \A i, j \in 1 .. n : i # j => frames'[i].file # frames'[j].file
      BY <1>2, <1>3 DEF BuildInv, StackInv, Turned
    <3>2. \A i \in 1 .. n + 1 : i \in 1 .. n \/ i = n + 1
      BY <1>2
    <3> QED
      BY <1>2, <1>3, <2>1, <3>1, <3>2
  <2> QED
    BY <1>1, <1>4, <2>2 DEF BuildInv, StackInv
<1>9. PendingInv'
  <2>1. pending \in Seq(Files) /\ Len(pending) = Cardinality(Loading) /\ Len(pending) \in Nat
    BY <1>1 DEF Typed, BuildInv, PendingInv
  <2>2. f \in Files /\ pending' = Append(pending, f)
    BY DEF Starts
  <2>3. /\ Len(pending') = Len(pending) + 1 /\ pending'[Len(pending) + 1] = f
        /\ \A k \in 1 .. Len(pending) : pending'[k] = pending[k]
    BY <2>1, <2>2
  <2>4. /\ Cardinality(Loading') = Cardinality(Loading) + 1
        /\ Rank(Loading', n + 1) = Cardinality(Loading) + 1
        /\ \A i \in Loading : Rank(Loading', i) = Rank(Loading, i)
    <3>1. PICK k, m, L : k = n /\ m = n + 1 /\ L = Loading
      OBVIOUS
    <3>2. k \in Nat /\ m \in Nat /\ k < m /\ Loading' = L \cup {m}
      BY <1>2, <1>4, <3>1
    <3>3. \A j \in L : j \in 1 .. k
      BY <1>2, <3>1, Stages
    <3>4. /\ Cardinality(Loading') = Cardinality(L) + 1
          /\ Rank(Loading', m) = Cardinality(L) + 1
          /\ \A i \in L : Rank(Loading', i) = Rank(L, i)
      BY ONLY <3>2, <3>3, RankOfNew
    <3> QED
      BY <3>1, <3>4
  <2>5. ASSUME NEW i \in Loading PROVE pending'[Rank(Loading', i)] = frames'[i].file
    <3>1. Rank(Loading, i) \in 1 .. Len(pending) /\ i \in 1 .. n
      BY <2>1, Stages, RankInRange
    <3>2. pending[Rank(Loading, i)] = frames[i].file
      BY <1>1 DEF BuildInv, PendingInv
    <3>3. frames'[i].file = frames[i].file
      BY <1>2, <1>3, <3>1 DEF Turned
    <3> QED
      BY <2>3, <2>4, <3>1, <3>2, <3>3
  <2>6. pending'[Rank(Loading', n + 1)] = frames'[n + 1].file
    BY <1>2, <1>3, <2>1, <2>3, <2>4
  <2>7. \A i \in 1 .. n + 1 : frames'[i].cause # "build"
    <3>1. \A i \in 1 .. n : frames'[i].cause # "build"
      BY <1>1, <1>2, <1>3 DEF BuildInv, PendingInv, Turned
    <3>2. frames'[n + 1].cause # "build"
      BY <1>2, <1>3
    <3>3. \A i \in 1 .. n + 1 : i \in 1 .. n \/ i = n + 1
      BY <1>2
    <3> QED
      BY <3>1, <3>2, <3>3
  <2>8. Rank(Loading, 0)' = Rank(Loading', 0)
    BY DEF Rank
  <2>9. \A i \in Loading' : pending'[Rank(Loading', i)] = frames'[i].file
    BY <1>4, <2>5, <2>6
  <2>10. /\ db'.backed /\ Len(pending') = Cardinality(Loading')
         /\ \A i \in DOMAIN frames' : frames'[i].cause # "build"
    BY <1>1, <1>3, <2>1, <2>3, <2>4, <2>7
  <2> QED
    BY <2>9, <2>10 DEF PendingInv, Rank
<1> QED
  BY <1>6, <1>7, <1>8, <1>9 DEF BuildInv

(* What TryFind does to the builders, and to what is known                  *)
LEMMA TryFindEffect ==
    ASSUME Typed, NEW stack, NEW cause \in {"file", "symbol", "extension"},
           NEW key \in Keys, cause = "file" => key \in Files \ files,
           cause = "symbol" => key \in Symbols, cause = "extension" => key \in Numbers,
           TryFind(stack, cause, key)
    PROVE  /\ badFiles \subseteq badFiles' /\ badFiles' \subseteq Files
           /\ badSymbols' \subseteq Symbols /\ badFiles' \subseteq Refusable
           /\ \/ frames' = stack /\ pending' = pending /\ tried' = tried
              \/ \E f \in Files : Starts(stack, f, cause, key) /\ badFiles' = badFiles
<1> DEFINE f == Candidate(cause, key)
<1>1. f \in Files \cup {None}
  BY DatabaseAssumption, NamesAssumption DEF Typed, Candidate
<1>2. f # None => f \notin files
  BY DEF Candidate
<1>3. badFiles \subseteq Files /\ badSymbols \subseteq Symbols /\ None \notin Files
  BY NamesAssumption DEF Typed
<1>4. CASE /\ ~db.backed \/ KnownBad(cause, key)
           /\ frames' = stack
           /\ UNCHANGED <<known, pending, tried>>
  BY <1>3, <1>4 DEF known, Refusable
<1>5. CASE /\ db.backed /\ ~KnownBad(cause, key)
           /\ f = None \/ f \in badFiles \/ f \in ToSet(pending)
           /\ frames' = stack
           /\ Remember(cause, key, {f} \ {None})
           /\ UNCHANGED <<pending, tried>>
  <2>1. /\ badFiles' = badFiles \cup ({f} \ {None}) \cup (IF cause = "file" THEN {key} ELSE {})
        /\ badSymbols' = badSymbols \cup (IF cause = "symbol" THEN {key} ELSE {})
    BY <1>5 DEF Remember
  <2>2. cause = "file" => f = IF key \in db.present THEN key ELSE None
    BY DEF Candidate
  <2>3. {f} \ {None} \subseteq Refusable
    BY <1>5 DEF Refusable
  <2>4. cause = "file" => key \in Refusable
    BY <1>3, <1>5, <2>2 DEF Refusable
  <2>5. badFiles' \subseteq Refusable
    BY <2>1, <2>3, <2>4 DEF Refusable
  <2> QED
    BY <1>1, <1>3, <1>5, <2>1, <2>5
<1>6. CASE /\ db.backed /\ ~KnownBad(cause, key)
           /\ f # None /\ f \notin badFiles /\ f \notin ToSet(pending)
           /\ frames' = Append(stack, NewFrame(f, cause, key))
           /\ pending' = Append(pending, f)
           /\ tried' = tried \cup {f}
           /\ UNCHANGED known
  <2>1. cause = "file" => key = f
    BY <1>6 DEF Candidate
  <2>2. Starts(stack, f, cause, key)
    BY <1>1, <1>2, <1>6, <2>1 DEF Starts
  <2> QED
    BY <1>1, <1>3, <1>6, <2>2 DEF known, Refusable
<1> QED
  BY <1>4, <1>5, <1>6 DEF TryFind

-----------------------------------------------------------------------------
(* A file enters the tables                                                 *)

LEMMA NoCircleGrows ==
    ASSUME NEW F, NoCircle(F), NEW f, f \notin ToSet(ProtoOf(f).imports),
           \A g \in F : f \notin ToSet(ProtoOf(g).imports)
    PROVE  NoCircle(F \cup {f})
<1> SUFFICES ASSUME NEW S \in (SUBSET (F \cup {f})) \ {{}}
             PROVE  \E g \in S : ToSet(ProtoOf(g).imports) \cap S = {}
  BY DEF NoCircle
<1>1. CASE S \ {f} = {}
  <2>1. f \in S
    <3>1. S # {}
      OBVIOUS
    <3> QED
      BY <1>1, <3>1
  <2>2. ToSet(ProtoOf(f).imports) \cap S = {}
    BY <1>1
  <2> QED
    BY <2>1, <2>2
<1>2. CASE S \ {f} # {}
  <2>1. S \ {f} \in (SUBSET F) \ {{}}
    BY <1>2
  <2>2. PICK g \in S \ {f} : ToSet(ProtoOf(g).imports) \cap (S \ {f}) = {}
    BY <2>1 DEF NoCircle
  <2>3. g \in F
    BY <2>1, <2>2
  <2> QED
    BY <2>2, <2>3
<1> QED
  BY <1>1, <1>2

(* A file that is in the tables and not known to fail has its imports there. *)
LEMMA ImportsAreThere ==
    ASSUME Typed, BuildInv, NEW g \in files \ Faulty
    PROVE  ToSet(ProtoOf(g).imports) \subseteq files
<1>1. TablesOK(files, symbols, extensions, Len(added))
  BY AtTheEnd DEF BuildInv, TablesInv, CutInv, Cuts
<1>2. CASE g \notin Under
  BY <1>1, <1>2 DEF TablesOK, WholeIn
<1>3. CASE g \in Under
  <2>1. PICK i \in Started : g \in Own(i)
    BY <1>3 DEF Under
  <2>2. g = frames[i].file
    BY <2>1 DEF BuildInv, OwnInv
  <2>3. ~frames[i].errors
    BY <2>1, Stages DEF Faulty, FrameType
  <2>4. BuilderIn(i, files, symbols, extensions, Len(added)) /\ Base(i) < Len(added)
    BY <1>1, BuilderPlace DEF TablesOK, BuildInv
  <2> QED
    BY <2>2, <2>3, <2>4 DEF BuilderIn, WholeIn
<1> QED
  BY <1>2, <1>3

LEMMA ClosureIsThere == ASSUME NEW S PROVE PublicClosure(S) \subseteq files
BY DEF PublicClosure

(* A builder leaves the first phase and gets a checkpoint; e is its entry.  *)
Enters(e, x) ==
  LET n == Len(frames)
      f == frames[n].file
      p == ProtoOf(f)
  IN  /\ n \in Loading /\ UNCHANGED db
      /\ frames' = [frames EXCEPT ![n] = x]
      /\ x \in FrameType /\ x.file = f /\ x.cause = frames[n].cause /\ x.key = frames[n].key
      /\ x.link = frames[n].link /\ x.scope = frames[n].scope
      /\ x.phase \in {"links", "end"} /\ x.visible \subseteq files
      /\ checkpoints' = Append(checkpoints, Len(added))
      /\ Adds(e) /\ e.files = {f} \ files /\ extensions' = extensions
      /\ \A s \in e.symbols : symbols'[s] = f /\ s \in p.symbols \cup {p.package}
      /\ x.phase = "links" => f \notin files
      /\ x.phase = "end" => x.errors
      /\ ~x.errors => /\ ToSet(p.imports) \subseteq files
                      /\ \A s \in p.symbols : s \in e.symbols
                      /\ p.package # None => NamesPackage(symbols', p.package)
      /\ pending' = IF db.backed THEN Front(pending) ELSE pending

LEMMA AddFileEnters ==
    ASSUME Typed, BuildInv, NEW t, AddFile(t)
    PROVE  \E e, x : Enters(e, x)
<1> DEFINE n == Len(frames)
           top == frames[n]
           f == top.file
           p == ProtoOf(f)
           imports == ToSet(p.imports)
           bail == BailsOut(f)
           package == {s \in {p.package} \ {None} : symbols[s] = None /\ f \notin files}
           fresh == {s \in p.symbols : symbols[s] = None /\ s \notin package /\ ~bail}
           clash == \/ fresh # p.symbols
                    \/ p.package # None /\ symbols[p.package] # None
                                        /\ ~IsPackage(p.package)
           e == [files |-> {f} \ files, numbers |-> {}, symbols |-> package \cup fresh]
           x == [top EXCEPT !.phase = IF bail THEN "end" ELSE "links",
                            !.visible = PublicClosure(imports \cap files),
                            !.errors = \/ bail \/ clash
                                       \/ ~(imports \subseteq files \cup {f})
                                       \/ Cardinality(imports) # Len(p.imports)]
<1>1. frames # <<>> /\ top.phase = "imports" /\ Last(frames) = top
  BY DEF AddFile, Builds, Last
<1>2. n \in DOMAIN frames /\ n \in Loading /\ top \in FrameType
  <2>1. n # 0
    BY <1>1, Stages DEF Typed
  <2> QED
    BY <1>1, <2>1, Stages
<1>3. f \in Files /\ p \in Proto
  BY <1>2, DatabaseAssumption DEF FrameType, Typed, ProtoOf
<1>4. p.symbols \subseteq Symbols /\ p.package \in Symbols \cup {None}
  BY <1>3 DEF Proto
<1>5. /\ UNCHANGED <<db, extensions>>
      /\ pending' = IF db.backed THEN Front(pending) ELSE pending
      /\ checkpoints' = Append(checkpoints, Len(added))
      /\ added' = Append(added, e)
      /\ files' = files \cup {f}
      /\ symbols' = [s \in Symbols |-> IF s \in package \cup fresh THEN f ELSE symbols[s]]
      /\ frames' = [frames EXCEPT ![n] = x]
  BY <1>1 DEF AddFile, ImportsLoaded, Replace
<1>6. e \in EntryType
  BY <1>3, <1>4 DEF EntryType
<1>7. \A s \in e.symbols : /\ s \in Symbols /\ symbols[s] = None /\ symbols'[s] = f
                           /\ s \in p.symbols \cup {p.package}
  BY <1>4, <1>5
<1>8. Adds(e)
  BY <1>5, <1>6, <1>7 DEF Adds
<1>9. /\ x \in FrameType /\ x.file = f /\ x.cause = top.cause /\ x.key = top.key
      /\ x.link = top.link /\ x.scope = top.scope /\ x.visible \subseteq files
      /\ x.phase = IF bail THEN "end" ELSE "links"
      /\ x.errors = (\/ bail \/ clash \/ ~(imports \subseteq files \cup {f})
                     \/ Cardinality(imports) # Len(p.imports))
  <2>1. PublicClosure(imports \cap files) \subseteq files /\ files \subseteq Files
    BY ClosureIsThere DEF Typed
  <2> QED
    BY <1>2, <2>1 DEF FrameType
<1>10. ASSUME ~x.errors
       PROVE  /\ imports \subseteq files
              /\ \A s \in p.symbols : s \in e.symbols
              /\ p.package # None => NamesPackage(symbols', p.package)
  <2>1. ~bail /\ ~clash /\ imports \subseteq files \cup {f}
    BY <1>9, <1>10
  <2>2. f \notin files /\ f \notin imports
    BY <2>1 DEF BailsOut
  <2>3. \A s \in p.symbols : s \in e.symbols
    BY <2>1
  <2>4. ASSUME p.package # None PROVE NamesPackage(symbols', p.package)
    <3>1. CASE symbols[p.package] = None
      <4>1. p.package \in package
        BY <2>2, <2>4, <3>1
      <4>2. symbols'[p.package] = f
        BY <1>4, <1>5, <2>4, <4>1
      <4> QED
        BY <1>3, <4>2, Stages DEF NamesPackage
    <3>2. CASE symbols[p.package] # None
      <4>1. IsPackage(p.package)
        BY <2>1, <2>4, <3>2
      <4>2. symbols'[p.package] = symbols[p.package]
        BY <1>4, <1>7, <1>8, <2>4, <3>2 DEF Adds
      <4> QED
        BY <4>1, <4>2 DEF NamesPackage, IsPackage
    <3> QED
      BY <3>1, <3>2
  <2> QED
    BY <2>1, <2>2, <2>3, <2>4
<1>11. Enters(e, x)
  <2>1. x.phase \in {"links", "end"} /\ (x.phase = "links" => f \notin files)
        /\ (x.phase = "end" => x.errors)
    <3>1. f \in files => bail
      BY DEF BailsOut
    <3>2. /\ x.phase = IF bail THEN "end" ELSE "links"
          /\ x.errors = (\/ bail \/ clash \/ ~(imports \subseteq files \cup {f})
                         \/ Cardinality(imports) # Len(p.imports))
      BY <1>9
    <3> HIDE DEF x, bail, clash, imports, f, p
    <3> QED
      BY <3>1, <3>2
  <2>2. e.files = {f} \ files
    OBVIOUS
  <2> HIDE DEF x, e
  <2> QED
    BY <1>2, <1>5, <1>7, <1>8, <1>9, <1>10, <2>1, <2>2 DEF Enters
<1> QED
  BY <1>11

(* The tables after an entry was added, the builders apart                  *)
LEMMA EntryKeeps ==
    ASSUME Typed, BuildInv, db' = db, Typed', NEW e, Adds(e),
           NEW g, g \in Files, NEW k \in 0 .. Len(ProtoOf(g).links),
           WholeIn(files, symbols, extensions, g, k)
    PROVE  WholeIn(files, symbols, extensions, g, k)'
<1>1. PICK G, Ty, Mu : G = files' /\ Ty = symbols' /\ Mu = extensions'
  OBVIOUS
<1>2. \A h : ProtoOf(h)' = ProtoOf(h)
  BY DEF ProtoOf
<1>3. ProtoOf(g) \in Proto /\ g # None /\ None \notin files
  BY DatabaseAssumption, NamesAssumption DEF Typed, ProtoOf
<1>4. /\ files \subseteq G
      /\ \A s \in Symbols : symbols[s] # None => Ty[s] = symbols[s]
      /\ \A n \in Numbers : extensions[n] # None => Mu[n] = extensions[n]
  BY <1>1 DEF Adds
<1>5. WholeIn(G, Ty, Mu, g, k)
  BY <1>3, <1>4, WholeStays
<1>6. WholeIn(G, Ty, Mu, g, k)'
  BY <1>2, <1>5 DEF WholeIn, NamesPackage
<1> QED
  BY <1>1, <1>6 DEF WholeIn, NamesPackage

LEMMA EntersStages ==
    ASSUME Typed, Typed', BuildInv, NEW e, NEW x, Enters(e, x), NEW n, n = Len(frames)
    PROVE  /\ n \in Loading /\ Len(frames') = n /\ frames'[n] = x
           /\ \A i \in 1 .. n : i # n => frames'[i] = frames[i]
           /\ Started \subseteq 1 .. n - 1 /\ Started' = Started \cup {n}
           /\ Loading' = Loading \ {n}
           /\ Len(added') = Len(added) + 1 /\ added'[Len(added) + 1] = e
           /\ \A m \in 1 .. Len(added) : added'[m] = added[m]
           /\ Len(checkpoints') = Len(checkpoints) + 1
           /\ checkpoints'[Len(checkpoints) + 1] = Len(added)
           /\ \A k \in 1 .. Len(checkpoints) : checkpoints'[k] = checkpoints[k]
<1>1. /\ n \in Nat /\ n \in Loading /\ n \in 1 .. n /\ DOMAIN frames = 1 .. n
      /\ frames' = [frames EXCEPT ![n] = x] /\ x.phase # "imports"
  BY Stages DEF Enters
<1>2. /\ Len(frames') = n /\ frames'[n] = x
      /\ \A i \in 1 .. n : i # n => frames'[i] = frames[i]
  BY <1>1 DEF Typed
<1>3. Loading' = Loading \ {n} /\ Started' = Started \cup {n}
  <2>1. DOMAIN frames' = 1 .. n
    BY <1>1
  <2>2. Loading' = {i \in 1 .. n : frames'[i].phase = "imports"}
    BY <2>1 DEF Loading
  <2>3. Loading = {i \in 1 .. n : frames[i].phase = "imports"}
    BY <1>1 DEF Loading
  <2>4. Loading' = Loading \ {n}
    BY <1>1, <1>2, <2>2, <2>3
  <2>5. Started' = (1 .. n) \ Loading' /\ Started = (1 .. n) \ Loading
    BY <1>1, <2>1 DEF Started
  <2> QED
    BY <1>1, <2>4, <2>5
<1>4. Started \subseteq 1 .. n - 1
  <2>1. \A i \in 1 .. n : i \in 1 .. n - 1 \/ i = n
    BY <1>1
  <2>2. n \notin Started
    BY <1>1 DEF Started
  <2> QED
    BY <2>1, <2>2, Stages
<1>5. /\ Len(added') = Len(added) + 1 /\ added'[Len(added) + 1] = e
      /\ \A m \in 1 .. Len(added) : added'[m] = added[m]
  BY DEF Enters, Adds, Typed
<1>6. /\ Len(checkpoints') = Len(checkpoints) + 1
      /\ checkpoints'[Len(checkpoints) + 1] = Len(added)
      /\ \A k \in 1 .. Len(checkpoints) : checkpoints'[k] = checkpoints[k]
  BY Stages DEF Enters, Typed
<1> QED
  BY <1>1, <1>2, <1>3, <1>4, <1>5, <1>6

LEMMA EntersBuilders ==
    ASSUME Typed, Typed', BuildInv, NEW e, NEW x, Enters(e, x), NEW n, n = Len(frames)
    PROVE  /\ Cardinality(Started)' = Cardinality(Started) + 1
           /\ Base(n)' = Len(added) /\ Own(n)' = e.files
           /\ \A i \in Started : Steady(i) /\ Own(i)' = Own(i)
           /\ Under' = Under \cup e.files
           /\ Faulty' = Faulty \cup IF x.errors THEN e.files ELSE {}
<1> USE EntersStages
<1>1. n \in Nat /\ n \in 1 .. n /\ n - 1 \in Nat /\ n - 1 < n
  BY Stages
<1>2. /\ Cardinality(Started') = Cardinality(Started) + 1
      /\ Rank(Started', n) = Cardinality(Started) + 1
      /\ \A i \in Started : Rank(Started', i) = Rank(Started, i)
  <2>1. PICK m \in Nat : m = n - 1
    BY <1>1
  <2>2. (\A j \in Started : j \in 1 .. m) /\ m < n /\ Started' = Started \cup {n}
    BY <1>1, <2>1
  <2> HIDE EntersStages
  <2>3. m \in Nat /\ n \in Nat
    BY <1>1, <2>1
  <2> QED
    BY ONLY SMTT(30), <2>2, <2>3, RankOfNew
<1>3. Base(n)' = Len(added)
  <2>1. Rank(Started, n)' = Rank(Started', n)
    BY DEF Rank
  <2>2. Len(checkpoints) = Cardinality(Started)
    BY DEF BuildInv, StackInv
  <2> QED
    BY <1>2, <2>1, <2>2 DEF Base, Rank
<1>4. Own(n)' = e.files
  BY <1>3 DEF Own
<1>5. ASSUME NEW i \in Started PROVE Steady(i) /\ Own(i)' = Own(i)
  <2>1. Rank(Started, i) \in 1 .. Len(checkpoints) /\ Base(i) + 1 \in 1 .. Len(added)
    BY BuilderPlace, Stages DEF BuildInv
  <2>2. Base(i)' = Base(i)
    <3>1. Base(i)' = checkpoints'[Rank(Started', i)]
      BY DEF Base, Rank
    <3> QED
      BY <1>2, <2>1, <3>1 DEF Base
  <2>3. Own(i)' = Own(i)
    BY <2>1, <2>2 DEF Own
  <2>4. i \in 1 .. n /\ i # n
    BY <1>1
  <2> QED
    BY <2>2, <2>3, <2>4 DEF Steady
<1>6. Under' = Under \cup e.files
  BY <1>4, <1>5 DEF Under
<1>7. Faulty' = Faulty \cup IF x.errors THEN e.files ELSE {}
  <2>1. \A i \in Started : frames'[i].errors = frames[i].errors
    BY <1>5 DEF Steady
  <2>2. n \notin Started /\ Started' = Started \cup {n} /\ frames'[n] = x
    BY <1>1
  <2>3. {j \in Started' : frames'[j].errors} = {j \in Started : frames[j].errors}
                                                \cup {j \in {n} : x.errors}
    BY <2>1, <2>2
  <2>4. Faulty' = UNION {Own(i)' : i \in {j \in Started' : frames'[j].errors}}
    BY DEF Faulty
  <2> HIDE EntersStages
  <2> QED
    BY <1>4, <1>5, <2>3, <2>4 DEF Faulty
<1>8. Cardinality(Started)' = Cardinality(Started')
  OBVIOUS
<1> QED
  BY <1>2, <1>3, <1>4, <1>5, <1>6, <1>7, <1>8

LEMMA AtTheNextEnd ==
    ASSUME Typed', NEW c, c = Len(added')
    PROVE  /\ FilesAt(c)' = files'
           /\ SymbolsAt(c)' = symbols'
           /\ NumbersAt(c)' = extensions'
<1>1. c + 1 .. Len(added') = {}
  BY DEF Typed
<1>2. /\ AddedFiles(c)' = {} /\ AddedSymbols(c)' = {}
      /\ AddedNumbers(c)' = {}
  BY <1>1 DEF AddedFiles, AddedSymbols, AddedNumbers
<1>3. FilesAt(c)' = files'
  BY <1>2 DEF FilesAt
<1>4. SymbolsAt(c)' = symbols'
  BY <1>2 DEF SymbolsAt, Typed
<1>5. NumbersAt(c)' = extensions'
  BY <1>2 DEF NumbersAt, Typed
<1> QED
  BY <1>3, <1>4, <1>5

LEMMA EntersCut ==
    ASSUME Typed, Typed', BuildInv, NEW e, NEW x, Enters(e, x),
           NEW c, c = Len(added')
    PROVE  CutInv(c)'
<1>0. PICK n, f, p, G, Ty, Mu :
        /\ n = Len(frames) /\ f = frames[n].file /\ p = ProtoOf(f)
        /\ G = files' /\ Ty = symbols' /\ Mu = extensions'
  OBVIOUS
<1>10. Len(added') = Len(added) + 1 /\ c = Len(added')
  BY EntersStages
<1>1. n \in Loading /\ n \in DOMAIN frames /\ f \in Files /\ Len(added) \in Nat
  BY <1>0, Stages DEF Enters, FrameType
<1>2. \A g : ProtoOf(g)' = ProtoOf(g)
  BY DEF ProtoOf, Enters
<1>3. TablesOK(files, symbols, extensions, Len(added))
  BY AtTheEnd DEF BuildInv, TablesInv, CutInv, Cuts
<1>4. /\ G = files \cup e.files /\ e.files = {f} \ files /\ Mu = extensions
      /\ \A s \in Symbols : IF s \in e.symbols THEN symbols[s] = None
                            ELSE Ty[s] = symbols[s]
      /\ \A s \in e.symbols : Ty[s] = f /\ s \in p.symbols \cup {p.package}
      /\ Adds(e) /\ db' = db
  BY <1>0 DEF Enters, Adds
<1>5. /\ Under' = Under \cup e.files
      /\ Faulty' = Faulty \cup IF x.errors THEN e.files ELSE {}
      /\ Started' = Started \cup {n} /\ Base(n)' = Len(added) /\ frames'[n] = x
      /\ \A i \in Started : Steady(i)
  BY <1>0, EntersBuilders, EntersStages
<1>6. Accounted(G, Ty, Mu)'
  <2>1. ASSUME NEW s \in Symbols, Ty[s] # None
        PROVE  /\ Ty[s] \in G
               /\ s \in ProtoOf(Ty[s]).symbols \cup {ProtoOf(Ty[s]).package}
    <3>1. CASE s \in e.symbols
      <4>1. Ty[s] = f /\ f \in G /\ s \in p.symbols \cup {p.package}
        BY <1>4, <3>1
      <4> QED
        BY <1>0, <4>1
    <3>2. CASE s \notin e.symbols
      <4>1. Ty[s] = symbols[s]
        BY <1>4, <3>2
      <4> QED
        BY <1>0, <1>3, <1>4, <2>1, <4>1 DEF TablesOK, Accounted
    <3> QED
      BY <3>1, <3>2
  <2> QED
    BY <1>0, <1>2, <1>3, <1>4, <2>1 DEF TablesOK, Accounted
<1>7. ASSUME NEW g \in G \ Under'
      PROVE  WholeIn(G, Ty, Mu, g, Len(ProtoOf(g).links))'
  <2>1. g \in files \ Under
    BY <1>4, <1>5
  <2>2. WholeIn(files, symbols, extensions, g, Len(ProtoOf(g).links))
    BY <1>3, <2>1 DEF TablesOK
  <2>3. g \in Files /\ ProtoOf(g) \in Proto
    BY <2>1, DatabaseAssumption DEF Typed, ProtoOf
  <2>4. Len(ProtoOf(g).links) \in 0 .. Len(ProtoOf(g).links)
    <3>1. Len(ProtoOf(g).links) \in Nat
      BY <2>3 DEF Proto
    <3> QED
      BY <3>1
  <2>5. PICK k : k = Len(ProtoOf(g).links)
    OBVIOUS
  <2>6. WholeIn(G, Ty, Mu, g, k)'
    BY <1>0, <1>4, <2>2, <2>3, <2>4, <2>5, EntryKeeps, SMTT(20) DEF WholeIn, NamesPackage
  <2>7. k = Len(ProtoOf(g)'.links)
    BY <1>2, <2>5
  <2> QED
    BY <2>6, <2>7 DEF WholeIn
<1>8. ASSUME NEW i \in Started'
      PROVE  BuilderIn(i, G, Ty, Mu, c)'
  <2>1. CASE i = n
    <3>1. x.visible \subseteq G /\ f \in G /\ x.file = f /\ x.link = 1
      <4>1. x.link = 1
        BY <1>0, <1>1, Stages DEF Enters, BuildInv, FrameInv, FrameFits
      <4>2. x.visible \subseteq G /\ f \in G /\ x.file = f
        BY <1>0, <1>4 DEF Enters
      <4> QED
        BY <4>1, <4>2
    <3>2. x.errors \/ WholeIn(G, Ty, Mu, f, 0)'
      <4>1. ASSUME ~x.errors
            PROVE  /\ ToSet(p.imports) \subseteq G
                   /\ \A s \in p.symbols : Ty[s] = f
                   /\ p.package # None => NamesPackage(Ty, p.package)
        BY <1>0, <1>4, <4>1 DEF Enters, NamesPackage
      <4>2. p \in Proto
        BY <1>0, <1>1, DatabaseAssumption DEF Typed, ProtoOf
      <4>3. ASSUME ~x.errors, p.package # None PROVE Ty[p.package] \in G
        <5>1. p.package \in Symbols /\ Ty[p.package] # None
          BY <4>1, <4>2, <4>3 DEF NamesPackage, Proto
        <5> QED
          BY <1>6, <5>1 DEF Accounted
      <4>4. \A j : j \notin 1 .. 0
        OBVIOUS
      <4> QED
        BY <1>0, <1>2, <4>1, <4>3, <4>4 DEF WholeIn, NamesPackage
    <3> QED
      BY <1>5, <1>10, <2>1, <3>1, <3>2 DEF BuilderIn
  <2>2. CASE i # n
    <3>1. i \in Started /\ i \in DOMAIN frames /\ Base(i) \in Nat /\ Base(i) < Len(added)
      BY <1>5, <2>2, Stages, BuilderPlace DEF BuildInv
    <3>2. Steady(i)
      BY <1>5, <3>1
    <3>3. BuilderIn(i, files, symbols, extensions, Len(added))
      BY <1>3, <3>1 DEF TablesOK
    <3>4. frames[i].visible \subseteq files /\ frames[i].file \in files
      BY <3>1, <3>3 DEF BuilderIn
    <3>5. PICK g, k : g = frames[i].file /\ k = frames[i].link - 1
      OBVIOUS
    <3>6. g \in Files /\ k \in 0 .. Len(ProtoOf(g).links)
      <4>1. g \in Files /\ ProtoOf(g) \in Proto
        BY <3>4, <3>5, DatabaseAssumption DEF Typed, ProtoOf
      <4>2. Len(ProtoOf(g).links) \in Nat
        BY <4>1 DEF Proto
      <4>3. frames[i].link \in 1 .. Len(ProtoOf(g).links) + 1
        BY <3>1, <3>5 DEF BuildInv, FrameInv, FrameFits
      <4> QED
        BY <3>5, <4>1, <4>2, <4>3
    <3>7. frames[i].errors \/ WholeIn(G, Ty, Mu, g, k)'
      <4>1. CASE ~frames[i].errors
        <5>1. WholeIn(files, symbols, extensions, g, k)
          BY <3>1, <3>3, <3>5, <4>1 DEF BuilderIn
        <5> QED
          BY <1>0, <1>4, <3>6, <5>1, EntryKeeps DEF WholeIn, NamesPackage
      <4> QED
        BY <4>1
    <3>8. /\ frames'[i].visible \subseteq G /\ frames'[i].file = g /\ g \in G
          /\ frames'[i].errors \/ WholeIn(G, Ty, Mu, g, k)'
          /\ frames'[i].link - 1 = k
      BY <1>4, <3>2, <3>4, <3>5, <3>7 DEF Steady
    <3> QED
      BY <3>8 DEF BuilderIn, WholeIn, NamesPackage
  <2> QED
    BY <2>1, <2>2
<1>9. NoCircle(G \ Faulty)'
  <2>1. NoCircle(files \ Faulty)
    BY <1>3 DEF TablesOK
  <2>2. CASE e.files = {} \/ x.errors
    <3>1. G \ Faulty' \subseteq files \ Faulty
      BY <1>4, <1>5, <2>2
    <3> QED
      BY <1>2, <2>1, <3>1 DEF NoCircle
  <2>3. CASE e.files # {} /\ ~x.errors
    <3>1. f \notin files /\ G \ Faulty' \subseteq (files \ Faulty) \cup {f}
      BY <1>4, <1>5, <2>3
    <3>2. f \notin ToSet(p.imports)
      BY <1>0, <2>3, <3>1 DEF Enters
    <3>3. \A g \in files \ Faulty : f \notin ToSet(ProtoOf(g).imports)
      BY <3>1, ImportsAreThere
    <3>4. NoCircle((files \ Faulty) \cup {f})
      BY <1>0, <2>1, <3>2, <3>3, NoCircleGrows
    <3> QED
      BY <1>2, <3>1, <3>4 DEF NoCircle
  <2> QED
    BY <2>2, <2>3
<1>11. FilesAt(c)' = G /\ SymbolsAt(c)' = Ty /\ NumbersAt(c)' = Mu
  BY <1>0, <1>10, AtTheNextEnd
<1>12. TablesOK(G, Ty, Mu, c)'
  BY <1>6, <1>7, <1>8, <1>9 DEF TablesOK
<1> QED
  BY <1>11, <1>12 DEF CutInv

LEMMA EntersBuilds ==
    ASSUME Typed, Typed', BuildInv, NEW e, NEW x, Enters(e, x)
    PROVE  BuildInv'
<1>1. PICK n, f : n = Len(frames) /\ f = frames[n].file
  OBVIOUS
<1>2. /\ n \in Loading /\ Len(frames') = n /\ frames'[n] = x
      /\ \A i \in 1 .. n : i # n => frames'[i] = frames[i]
      /\ Started \subseteq 1 .. n - 1 /\ Started' = Started \cup {n}
      /\ Loading' = Loading \ {n}
      /\ Len(added') = Len(added) + 1
      /\ Len(checkpoints') = Len(checkpoints) + 1
      /\ checkpoints'[Len(checkpoints) + 1] = Len(added)
      /\ \A k \in 1 .. Len(checkpoints) : checkpoints'[k] = checkpoints[k]
  BY <1>1, EntersStages
<1>3. /\ Cardinality(Started)' = Cardinality(Started) + 1
      /\ Base(n)' = Len(added) /\ Own(n)' = e.files
      /\ \A i \in Started : Steady(i) /\ Own(i)' = Own(i)
      /\ Under' = Under \cup e.files
      /\ Faulty' = Faulty \cup IF x.errors THEN e.files ELSE {}
  BY <1>1, EntersBuilders
<1>4. /\ n \in Nat /\ n \in 1 .. n /\ DOMAIN frames = 1 .. n /\ DOMAIN frames' = 1 .. n
      /\ Len(added) \in Nat /\ Len(checkpoints) \in Nat
      /\ DOMAIN checkpoints = 1 .. Len(checkpoints)
      /\ DOMAIN checkpoints' = 1 .. Len(checkpoints) + 1
      /\ \A k \in DOMAIN checkpoints : checkpoints[k] \in Nat
  <2>1. DOMAIN frames' = 1 .. Len(frames') /\ DOMAIN checkpoints' = 1 .. Len(checkpoints')
    BY DEF Typed
  <2> QED
    BY <1>1, <1>2, <2>1, Stages
<1>5. /\ x.file = f /\ x.cause = frames[n].cause /\ x.key = frames[n].key
      /\ x.link = frames[n].link /\ x.scope = frames[n].scope
      /\ x.phase \in {"links", "end"} /\ x.visible \subseteq files /\ db' = db
      /\ pending' = IF db.backed THEN Front(pending) ELSE pending
      /\ e.files = {f} \ files
      /\ x.phase = "links" => f \notin files
      /\ x.phase = "end" => x.errors
  BY <1>1 DEF Enters
<1>6. \A g : ProtoOf(g)' = ProtoOf(g)
  BY <1>5 DEF ProtoOf
<1>7. FrameInv'
  <2>1. ASSUME NEW i \in 1 .. n PROVE FrameFits(frames'[i])
    <3>1. FrameFits(frames[i])
      BY <1>4 DEF BuildInv, FrameInv
    <3>2. CASE i # n
      BY <1>2, <3>1, <3>2
    <3>3. CASE i = n
      BY <1>1, <1>2, <1>5, <3>1, <3>3 DEF FrameFits
    <3> QED
      BY <3>2, <3>3
  <2> QED
    BY <1>4, <1>6, <2>1 DEF FrameInv, FrameFits
<1>8. StackInv'
  <2>1. ASSUME NEW j \in DOMAIN checkpoints', NEW k \in DOMAIN checkpoints', j < k
        PROVE  checkpoints'[j] < checkpoints'[k]
    <3>1. j \in DOMAIN checkpoints /\ checkpoints[j] < Len(added)
      BY <1>4, <2>1 DEF BuildInv, StackInv
    <3>2. k \in DOMAIN checkpoints \/ k = Len(checkpoints) + 1
      BY <1>4
    <3> QED
      BY <1>2, <1>4, <2>1, <3>1, <3>2 DEF BuildInv, StackInv
  <2>2. ASSUME NEW k \in DOMAIN checkpoints' PROVE checkpoints'[k] < Len(added')
    <3>1. CASE k = Len(checkpoints) + 1
      BY <1>2, <1>4, <3>1
    <3>2. CASE k \in DOMAIN checkpoints
      BY <1>2, <1>4, <3>2 DEF BuildInv, StackInv
    <3> QED
      BY <1>4, <3>1, <3>2
  <2>3. checkpoints' # <<>> /\ checkpoints'[1] = 0
    <3>1. checkpoints' # <<>> /\ 1 \in 1 .. Len(checkpoints) + 1
      BY <1>2, <1>4
    <3>2. CASE checkpoints = <<>>
      <4>1. Len(checkpoints) = 0 /\ Len(added) = 0
        BY <3>2 DEF BuildInv, StackInv
      <4> QED
        BY <1>2, <3>1, <4>1
    <3>3. CASE checkpoints # <<>>
      <4>1. 1 \in 1 .. Len(checkpoints) /\ checkpoints[1] = 0
        BY <1>4, <3>3 DEF BuildInv, StackInv, Typed
      <4> QED
        BY <1>2, <3>1, <4>1
    <3> QED
      BY <3>1, <3>2, <3>3
  <2>4. Len(checkpoints') = Cardinality(Started)'
    BY <1>2, <1>3 DEF BuildInv, StackInv
  <2>5. \A i \in 1 .. n : frames'[i].file = frames[i].file
    BY <1>1, <1>2, <1>5
  <2>6. \A i, j \in DOMAIN frames' : i # j => frames'[i].file # frames'[j].file
    BY <1>4, <2>5 DEF BuildInv, StackInv
  <2> QED
    BY <2>1, <2>2, <2>3, <2>4, <2>6 DEF StackInv
<1>9. PendingInv'
  <2>1. CASE ~db.backed
    <3>1. ASSUME NEW i \in 1 .. n
          PROVE  /\ frames'[i].cause = "build"
                 /\ frames'[i].phase = "imports" =>
                      frames'[i].import = Len(ProtoOf(frames'[i].file).imports) + 1
      BY <1>2, <1>4, <1>5, <2>1 DEF BuildInv, PendingInv
    <3>2. Len(frames') <= 1
      BY <1>1, <1>2, <2>1 DEF BuildInv, PendingInv
    <3> QED
      BY <1>4, <1>5, <2>1, <3>1, <3>2 DEF PendingInv, ProtoOf
  <2>2. CASE db.backed
    <3>1. /\ pending \in Seq(Files) /\ Len(pending) = Cardinality(Loading)
          /\ \A i \in Loading : pending[Rank(Loading, i)] = frames[i].file
          /\ \A i \in DOMAIN frames : frames[i].cause # "build"
      BY <2>2 DEF Typed, BuildInv, PendingInv
    <3>2. Loading \ {n} \subseteq 1 .. n - 1 /\ (Loading \ {n}) \cup {n} = Loading
      <4>1. \A i \in 1 .. n : i \in 1 .. n - 1 \/ i = n
        BY <1>4
      <4>2. Loading \subseteq 1 .. n
        BY <1>4, Stages
      <4> QED
        BY <1>2, <4>1, <4>2
    <3>3. /\ Cardinality(Loading) = Cardinality(Loading') + 1
          /\ \A i \in Loading' : Rank(Loading, i) = Rank(Loading', i)
      <4>1. PICK L, m : L = Loading' /\ m = n - 1
        OBVIOUS
      <4>2. /\ m \in Nat /\ n \in Nat /\ m < n /\ Loading = L \cup {n}
            /\ \A j \in L : j \in 1 .. m
        BY <1>2, <1>4, <3>2, <4>1
      <4>3. /\ Cardinality(Loading) = Cardinality(L) + 1
            /\ Rank(Loading, n) = Cardinality(L) + 1
            /\ \A i \in L : Rank(Loading, i) = Rank(L, i)
        BY ONLY SMTT(30), <4>2, RankOfNew
      <4> QED
        BY <4>1, <4>3
    <3>4. Cardinality(Loading') \in Nat /\ \A i \in Loading' : Rank(Loading', i) \in 1 .. Cardinality(Loading')
      <4>1. Loading' \subseteq 1 .. n
        BY <1>2, <1>4, Stages
      <4>2. Cardinality(Loading') \in Nat
        BY <1>4, <4>1, RankIsNat
      <4> QED
        BY <1>4, <4>1, <4>2, RankInRange
    <3>5. /\ pending' = Front(pending) /\ Len(pending') = Len(pending) - 1
          /\ \A k \in 1 .. Len(pending) - 1 : pending'[k] = pending[k]
      BY <1>5, <2>2, <3>1, <3>3, <3>4 DEF Front
    <3>6. ASSUME NEW i \in Loading' PROVE pending'[Rank(Loading', i)] = frames'[i].file
      <4>1. i \in Loading /\ i \in 1 .. n /\ i # n
        BY <1>2, <1>4, Stages
      <4> QED
        <5>1. Rank(Loading', i) \in 1 .. Len(pending) - 1
          BY <3>1, <3>3, <3>4
        <5>2. pending'[Rank(Loading', i)] = pending[Rank(Loading', i)]
          BY <3>5, <5>1
        <5>3. pending[Rank(Loading', i)] = frames[i].file
          BY <3>1, <3>3, <4>1
        <5> QED
          BY <1>2, <4>1, <5>2, <5>3
    <3>7. \A i \in 1 .. n : frames'[i].cause # "build"
      <4>1. \A i \in 1 .. n : frames[i].cause # "build"
        BY <1>4, <3>1
      <4>2. \A i \in 1 .. n : frames'[i].cause = frames[i].cause
        BY <1>2, <1>5
      <4> QED
        BY <4>1, <4>2
    <3>8. db'.backed /\ Len(pending') = Cardinality(Loading')
      BY <1>5, <2>2, <3>1, <3>3, <3>4, <3>5
    <3> QED
      BY <1>4, <3>6, <3>7, <3>8 DEF PendingInv, Rank
  <2> QED
    BY <2>1, <2>2
<1>10. OwnInv'
  <2>1. ASSUME NEW i \in Started'
        PROVE  /\ Own(i)' \subseteq {frames'[i].file}
               /\ frames'[i].phase = "links" => Own(i)' = {frames'[i].file}
               /\ frames'[i].phase = "end" => frames'[i].errors
    <3>1. CASE i = n
      BY <1>2, <1>3, <1>5, <3>1
    <3>2. CASE i # n
      <4>1. i \in Started /\ i \in 1 .. n
        BY <1>2, <1>4, <3>2, Stages
      <4> QED
        BY <1>2, <1>3, <3>2, <4>1 DEF BuildInv, OwnInv
    <3> QED
      BY <3>1, <3>2
  <2> QED
    BY <2>1 DEF OwnInv
<1>11. TablesInv'
  <2>1. Cuts' = Cuts \cup {Len(added')}
    <3>1. ToSet(checkpoints') = ToSet(checkpoints) \cup {Len(added)}
      <4>1. \A k \in 1 .. Len(checkpoints) + 1 : k \in 1 .. Len(checkpoints) \/ k = Len(checkpoints) + 1
        BY <1>4
      <4>2. Len(checkpoints) + 1 \in 1 .. Len(checkpoints) + 1
            /\ \A k \in 1 .. Len(checkpoints) : k \in 1 .. Len(checkpoints) + 1
        BY <1>4
      <4> QED
        BY SMTT(30), <1>2, <1>4, <4>1, <4>2 DEF ToSet
    <3> QED
      BY <3>1 DEF Cuts
  <2>2. ASSUME NEW c \in Cuts PROVE CutInv(c)'
    <3>1. c \in 0 .. Len(added) /\ CutInv(c)
      BY CutBounds DEF BuildInv, TablesInv
    <3>2. SameAt(c)
      BY <3>1, AddsBehind DEF Enters
    <3>3. ASSUME NEW F, NEW Sy, NEW Nu, TablesOK(F, Sy, Nu, c), F = FilesAt(c)
          PROVE  TablesOK(F, Sy, Nu, c)'
      <4>1. ASSUME NEW i \in Started' PROVE BuilderIn(i, F, Sy, Nu, c)'
        <5>1. CASE i = n
          <6>1. Base(n)' = Len(added) /\ frames'[n] = x
            BY <1>2, <1>3
          <6>2. ASSUME Len(added) <= c PROVE x.visible \subseteq F
            <7>1. c = Len(added)
              BY <1>4, <3>1, <6>2
            <7> QED
              BY <1>5, <3>3, <7>1, AtTheEnd
          <6>3. ~(Len(added) < c)
            BY <1>4, <3>1
          <6> QED
            BY <5>1, <6>1, <6>2, <6>3 DEF BuilderIn
        <5>2. CASE i # n
          <6>1. i \in Started
            BY <1>2, <5>2
          <6> QED
            BY <1>3, <1>5, <3>3, <6>1, BuilderCarries DEF TablesOK
        <5> QED
          BY <5>1, <5>2
      <4>2. F \cap Under \subseteq Under' /\ F \cap Faulty \subseteq Faulty'
        BY <1>3
      <4> QED
        BY <1>5, <3>3, <4>1, <4>2, CutCarries
    <3> QED
      BY <3>1, <3>2, <3>3, CutByParts
  <2>3. PICK c : c = Len(added')
    OBVIOUS
  <2>4. CutInv(c)'
    BY <2>3, EntersCut
  <2> QED
    BY <2>1, <2>2, <2>3, <2>4 DEF TablesInv
<1> QED
  BY <1>7, <1>8, <1>9, <1>10, <1>11 DEF BuildInv

-----------------------------------------------------------------------------
(* A link of the builder on top is tried in a scope, and may be done with:  *)
(* it then has its type and its number, or the builder has errors.          *)

Links(x) ==
  LET n == Len(frames)
      f == frames[n].file
      l == ProtoOf(f).links[frames[n].link]
  IN  /\ n \in Started /\ frames[n].phase = "links"
      /\ frames[n].link \in 1 .. Len(ProtoOf(f).links)
      /\ UNCHANGED <<db, files, symbols, checkpoints, pending>>
      /\ frames' = [frames EXCEPT ![n] = x]
      /\ x \in FrameType /\ FrameFits(x)
      /\ x.file = f /\ x.cause = frames[n].cause /\ x.key = frames[n].key
      /\ x.phase = "links"
      /\ x.visible = frames[n].visible
      /\ x.link \in {frames[n].link, frames[n].link + 1}
      /\ frames[n].errors => x.errors
      /\ x.link # frames[n].link /\ ~x.errors =>
           /\ \E s \in ToSet(l.scopes) : symbols[s] \in files /\ ~NamesPackage(symbols, s)
           /\ l.number # None => extensions'[l.number] # None
      /\ \/ UNCHANGED <<added, extensions>>
         \/ /\ l.number \in Numbers /\ extensions'[l.number] = f
            /\ extensions' \in [Numbers -> Files \cup {None}]
            /\ Adds([files |-> {}, symbols |-> {}, numbers |-> {l.number}])

LEMMA CrossLinkFieldLinks ==
    ASSUME Typed, BuildInv, NEW t, CrossLinkField(t)
    PROVE  \E x : Links(x)
<1>1. PICK n, top, f, p, k : /\ n = Len(frames) /\ top = frames[n] /\ f = top.file
                             /\ p = ProtoOf(f) /\ k = top.link
  OBVIOUS
<1>2. frames # <<>> /\ top.phase = "links" /\ Last(frames) = top /\ k <= Len(p.links)
  BY <1>1 DEF CrossLinkField, Builds, Last
<1>3. n \in DOMAIN frames /\ n \in Started /\ top \in FrameType
  <2>1. n # 0
    BY <1>1, <1>2, Stages DEF Typed
  <2> QED
    BY <1>1, <1>2, <2>1, Stages
<1>4. f \in Files /\ p \in Proto
  BY <1>1, <1>3, DatabaseAssumption DEF FrameType, Typed, ProtoOf
<1>5. /\ p.links \in Seq(Link) /\ Len(p.links) \in Nat /\ DOMAIN p.links = 1 .. Len(p.links)
  BY <1>4 DEF Proto
<1>6. /\ k \in 1 .. Len(p.links) /\ FrameFits(top)
      /\ top.scope \in 1 .. Len(p.links[k].scopes)
  <2>1. FrameFits(top)
    BY <1>1, <1>3 DEF BuildInv, FrameInv
  <2>2. k \in 1 .. Len(p.links) + 1
    BY <1>1, <2>1 DEF FrameFits
  <2> QED
    BY <1>1, <1>2, <1>5, <2>1, <2>2 DEF FrameFits
<1>7. PICK l, s : l = p.links[k] /\ s = l.scopes[top.scope]
  OBVIOUS
<1>8. /\ l \in Link /\ l.scopes \in Seq(Symbols) /\ s \in ToSet(l.scopes)
      /\ l.number \in Numbers \cup {None} /\ Len(l.scopes) \in Nat
  <2>1. l \in Link
    BY <1>5, <1>6, <1>7
  <2>2. l.scopes \in Seq(Symbols) /\ l.number \in Numbers \cup {None}
    BY <2>1 DEF Link
  <2>3. Len(l.scopes) \in Nat /\ top.scope \in DOMAIN l.scopes
    BY <1>6, <1>7, <2>2
  <2> QED
    BY <1>7, <2>1, <2>2, <2>3 DEF ToSet
<1> DEFINE good == symbols[s] \in {f} \cup top.visible /\ ~IsPackage(s)
           last == top.scope = Len(l.scopes)
           new == {l.number} \ {None}
           next == [top EXCEPT !.asked = FALSE]
           x == IF good \/ last
                  THEN [next EXCEPT !.link = @ + 1, !.scope = 1, !.errors = @ \/ ~good]
                  ELSE [next EXCEPT !.scope = @ + 1]
           entry == [files |-> {}, symbols |-> {}, numbers |-> {l.number}]
<1>9. /\ UNCHANGED <<db, files, symbols, checkpoints, pending>>
      /\ frames' = [frames EXCEPT ![n] = x]
      /\ IF good /\ \E m \in new : extensions[m] = None
           THEN /\ extensions' = [m \in Numbers |-> IF m \in new THEN f ELSE extensions[m]]
                /\ added' = Append(added, [files |-> {}, symbols |-> {}, numbers |-> new])
           ELSE UNCHANGED <<extensions, added>>
  <2>1. UNCHANGED <<db, files, symbols, checkpoints, pending>>
    BY DEF CrossLinkField
  <2>2. frames' = [frames EXCEPT ![n] = x]
    BY <1>1, <1>2, <1>7 DEF CrossLinkField, Replace
  <2>3. IF good /\ \E m \in new : extensions[m] = None
          THEN /\ extensions' = [m \in Numbers |-> IF m \in new THEN f ELSE extensions[m]]
               /\ added' = Append(added, [files |-> {}, symbols |-> {}, numbers |-> new])
          ELSE UNCHANGED <<extensions, added>>
    <3>1. LET lt == Last(frames)
              lk == ProtoOf(lt.file).links[lt.link]
              sc == lk.scopes[lt.scope]
              gd == symbols[sc] \in {lt.file} \cup lt.visible /\ ~IsPackage(sc)
              nw == {lk.number} \ {None}
          IN  IF gd /\ \E m \in nw : extensions[m] = None
                THEN /\ extensions' = [m \in Numbers |-> IF m \in nw THEN lt.file
                                                         ELSE extensions[m]]
                     /\ added' = Append(added, [files |-> {}, symbols |-> {},
                                                numbers |-> nw])
                ELSE UNCHANGED <<extensions, added>>
      BY DEF CrossLinkField
    <3>2. /\ Last(frames).file = f /\ Last(frames).visible = top.visible
          /\ ProtoOf(Last(frames).file).links[Last(frames).link] = l
          /\ l.scopes[Last(frames).scope] = s
      BY <1>1, <1>2, <1>7
    <3> QED
      BY <3>1, <3>2
  <2> QED
    BY <2>1, <2>2, <2>3
<1>10. good => symbols[s] \in files
  <2>1. CutInv(Len(added)) /\ Base(n) < Len(added) /\ Base(n) \in Nat
    BY <1>3, BuilderPlace DEF BuildInv, TablesInv, Cuts
  <2>2. BuilderIn(n, files, symbols, extensions, Len(added))
    BY <1>3, <2>1, AtTheEnd DEF CutInv, TablesOK
  <2>3. top.visible \subseteq files /\ f \in files
    BY <1>1, <2>1, <2>2, Stages DEF BuilderIn
  <2> QED
    BY <2>3
<1>11. /\ x \in FrameType /\ x.file = f /\ x.cause = top.cause /\ x.key = top.key
       /\ x.phase = "links" /\ x.visible = top.visible /\ (top.errors => x.errors)
  <2>1. /\ top.link + 1 \in Nat /\ top.scope + 1 \in Nat /\ top.errors \in BOOLEAN
        /\ top.link \in Nat
    BY <1>3 DEF FrameType
  <2>2. CASE good \/ last
    <3>1. x = [next EXCEPT !.link = @ + 1, !.scope = 1, !.errors = @ \/ ~good]
      BY <2>2
    <3> QED
      BY <1>1, <1>2, <1>3, <2>1, <3>1 DEF FrameType
  <2>3. CASE ~(good \/ last)
    <3>1. x = [next EXCEPT !.scope = @ + 1]
      BY <2>3
    <3> QED
      BY <1>1, <1>2, <1>3, <2>1, <3>1 DEF FrameType
  <2> QED
    BY <2>2, <2>3
<1>12. /\ x.link \in {k, k + 1}
       /\ x.link # k => x.scope = 1 /\ (~x.errors => good)
       /\ x.link = k => x.scope \in 1 .. Len(l.scopes)
  <2>1. CASE good \/ last
    <3>1. x.link = k + 1 /\ x.scope = 1 /\ x.errors = (top.errors \/ ~good)
      BY <1>1, <1>3, <2>1 DEF FrameType
    <3>2. k + 1 # k
      BY <1>6
    <3> HIDE DEF x, good
    <3> QED
      BY <3>1, <3>2
  <2>2. CASE ~(good \/ last)
    <3>1. x.link = k /\ x.scope = top.scope + 1
      BY <1>1, <1>3, <2>2 DEF FrameType
    <3> QED
      BY <1>6, <1>7, <1>8, <2>2, <3>1
  <2> QED
    BY <2>1, <2>2
<1>13. FrameFits(x)
  <2>1. x.link \in 1 .. Len(p.links) + 1
    BY <1>5, <1>6, <1>12
  <2>2. ASSUME x.link <= Len(p.links)
        PROVE  x.scope \in 1 .. Len(p.links[x.link].scopes)
    <3>1. CASE x.link = k
      BY <1>7, <1>12, <3>1
    <3>2. CASE x.link # k
      <4>1. x.scope = 1 /\ p.links[x.link] \in Link
        BY <1>5, <1>12, <2>1, <2>2, <3>2
      <4>2. p.links[x.link].scopes \in Seq(Symbols) /\ p.links[x.link].scopes # <<>>
        BY <4>1 DEF Link
      <4> QED
        BY <4>1, <4>2
    <3> QED
      BY <3>1, <3>2
  <2> HIDE DEF x
  <2> QED
    BY <1>1, <1>6, <1>11, <2>1, <2>2 DEF FrameFits
<1>14. \/ UNCHANGED <<added, extensions>>
       \/ /\ l.number \in Numbers /\ extensions'[l.number] = f /\ Adds(entry)
          /\ extensions' \in [Numbers -> Files \cup {None}]
  <2>1. CASE good /\ \E m \in new : extensions[m] = None
    <3>1. new = {l.number} /\ l.number \in Numbers /\ extensions[l.number] = None
      BY <1>8, <2>1
    <3>2. /\ extensions' = [m \in Numbers |-> IF m \in new THEN f ELSE extensions[m]]
          /\ added' = Append(added, entry)
      BY <1>9, <2>1, <3>1
    <3>3. entry \in EntryType
      BY <3>1 DEF EntryType
    <3>4. Adds(entry)
      BY <1>9, <3>1, <3>2, <3>3 DEF Adds
    <3>5. extensions' \in [Numbers -> Files \cup {None}]
      BY <1>4, <3>2 DEF Typed
    <3> QED
      BY <3>1, <3>2, <3>4, <3>5
  <2>2. CASE ~(good /\ \E m \in new : extensions[m] = None)
    BY <1>9, <2>2
  <2> QED
    BY <2>1, <2>2
<1>15. good => (l.number # None => extensions'[l.number] # None)
  BY <1>4, <1>8, <1>9, Stages
<1>16. good => \E r \in ToSet(l.scopes) : symbols[r] \in files /\ ~NamesPackage(symbols, r)
  BY <1>8, <1>10 DEF IsPackage, NamesPackage
<1>17. Links(x)
  <2> HIDE DEF x, entry
  <2>1. x.link # k /\ ~x.errors =>
          /\ \E r \in ToSet(l.scopes) : symbols[r] \in files /\ ~NamesPackage(symbols, r)
          /\ l.number # None => extensions'[l.number] # None
    BY <1>12, <1>15, <1>16
  <2>2. /\ n \in Started /\ frames[n].phase = "links" /\ k \in 1 .. Len(p.links)
        /\ UNCHANGED <<db, files, symbols, checkpoints, pending>>
        /\ frames' = [frames EXCEPT ![n] = x]
    BY <1>1, <1>2, <1>3, <1>6, <1>9
  <2>3. /\ x \in FrameType /\ FrameFits(x) /\ x.file = f /\ x.cause = frames[n].cause
        /\ x.key = frames[n].key /\ x.phase = "links" /\ x.visible = frames[n].visible /\ x.link \in {k, k + 1}
        /\ frames[n].errors => x.errors
    BY <1>1, <1>11, <1>12, <1>13
  <2>4. \/ UNCHANGED <<added, extensions>>
        \/ /\ l.number \in Numbers /\ extensions'[l.number] = f
           /\ extensions' \in [Numbers -> Files \cup {None}]
           /\ Adds([files |-> {}, symbols |-> {}, numbers |-> {l.number}])
    BY <1>14 DEF entry
  <2> QED
    BY ONLY <1>1, <1>7, <2>1, <2>2, <2>3, <2>4 DEF Links
<1> QED
  BY <1>17

LEMMA LinksBuilders ==
    ASSUME Typed, Typed', BuildInv, NEW x, Links(x), NEW n, n = Len(frames)
    PROVE  /\ n \in Started /\ n \in 1 .. n /\ DOMAIN frames = 1 .. n /\ DOMAIN frames' = 1 .. n
           /\ frames'[n] = x /\ \A i \in 1 .. n : i # n => frames'[i] = frames[i]
           /\ Started' = Started /\ Loading' = Loading /\ Len(frames') = n
           /\ Len(added) <= Len(added') /\ Len(added') \in Nat
           /\ \A i \in Started : Base(i)' = Base(i) /\ Own(i)' = Own(i)
           /\ Under' = Under /\ Faulty \subseteq Faulty'
<1>1. /\ n \in Started /\ n \in Nat /\ n \in 1 .. n /\ DOMAIN frames = 1 .. n
      /\ frames' = [frames EXCEPT ![n] = x] /\ x.phase = "links" /\ frames[n].phase = "links"
      /\ checkpoints' = checkpoints /\ (frames[n].errors => x.errors)
  BY Stages DEF Links
<1>2. /\ Len(frames') = n /\ frames'[n] = x /\ DOMAIN frames' = 1 .. n
      /\ \A i \in 1 .. n : i # n => frames'[i] = frames[i]
  BY <1>1 DEF Typed
<1>3. Started' = Started /\ Loading' = Loading
  <2>1. \A i \in 1 .. n : frames'[i].phase = frames[i].phase
    BY <1>1, <1>2
  <2>2. Loading' = Loading
    BY <1>1, <1>2, <2>1 DEF Loading
  <2> QED
    BY <1>1, <1>2, <2>2 DEF Started
<1>4. /\ Len(added) <= Len(added') /\ Len(added') \in Nat
      /\ \A m \in 1 .. Len(added) : added'[m] = added[m]
  <2>1. added \in Seq(EntryType)
    BY DEF Typed
  <2>2. CASE UNCHANGED added
    BY <2>1, <2>2
  <2>3. CASE ~UNCHANGED added
    <3>1. PICK e : Adds(e)
      BY <2>3 DEF Links
    <3> QED
      BY <2>1, <3>1 DEF Adds
  <2> QED
    BY <2>2, <2>3
<1>5. ASSUME NEW i \in Started PROVE Base(i)' = Base(i) /\ Own(i)' = Own(i)
  <2>1. Base(i)' = Base(i)
    BY <1>1, <1>3 DEF Base, Rank
  <2>2. Base(i) + 1 \in 1 .. Len(added)
    BY BuilderPlace, Stages DEF BuildInv
  <2> QED
    BY <1>4, <2>1, <2>2 DEF Own
<1>6. Under' = Under
  BY <1>3, <1>5 DEF Under
<1>7. Faulty \subseteq Faulty'
  <2>1. ASSUME NEW i \in Started, frames[i].errors PROVE frames'[i].errors
    <3>1. i \in 1 .. n
      BY <1>1, Stages
    <3> QED
      BY <1>1, <1>2, <2>1, <3>1
  <2> QED
    BY <1>3, <1>5, <2>1 DEF Faulty
<1> QED
  BY <1>1, <1>2, <1>3, <1>4, <1>5, <1>6, <1>7

LEMMA LinksKeep ==
    ASSUME Typed, Typed', BuildInv, NEW x, Links(x),
           NEW g, g \in Files, NEW k \in 0 .. Len(ProtoOf(g).links),
           WholeIn(files, symbols, extensions, g, k),
           NEW Mu, Mu = extensions'
    PROVE  WholeIn(files, symbols, Mu, g, k)
<1>1. UNCHANGED <<db, files, symbols>>
  BY DEF Links
<1>2. CASE extensions' = extensions
  BY <1>2
<1>3. CASE extensions' # extensions
  <2>1. PICK e : Adds(e)
    BY <1>3 DEF Links
  <2>2. WholeIn(files, symbols, extensions, g, k)'
    BY <1>1, <2>1, EntryKeeps
  <2> QED
    BY <1>1, <2>2 DEF WholeIn, NamesPackage, ProtoOf
<1> QED
  BY <1>2, <1>3

LEMMA LinksCut ==
    ASSUME Typed, Typed', BuildInv, NEW x, Links(x), NEW c, c = Len(added')
    PROVE  CutInv(c)'
<1>0. PICK n, f, p, k, F, Sy, Nu, Mu :
        /\ n = Len(frames) /\ f = frames[n].file /\ p = ProtoOf(f) /\ k = frames[n].link
        /\ F = files /\ Sy = symbols /\ Nu = extensions /\ Mu = extensions'
  OBVIOUS
<1>1. /\ n \in Started /\ n \in 1 .. n /\ DOMAIN frames = 1 .. n
      /\ frames'[n] = x /\ \A i \in 1 .. n : i # n => frames'[i] = frames[i]
      /\ Started' = Started
      /\ Len(added) <= c /\ c \in Nat /\ Len(added) \in Nat
      /\ \A i \in Started : Base(i)' = Base(i)
      /\ Under' = Under /\ Faulty \subseteq Faulty'
  BY <1>0, LinksBuilders, Stages
<1>2. /\ UNCHANGED <<db, files, symbols>> /\ \A g : ProtoOf(g)' = ProtoOf(g)
      /\ k \in 1 .. Len(p.links)
      /\ x.file = f /\ x.visible = frames[n].visible /\ x.link \in {k, k + 1}
      /\ frames[n].errors => x.errors
      /\ x.link # k /\ ~x.errors =>
           /\ \E s \in ToSet(p.links[k].scopes) : Sy[s] \in F /\ ~NamesPackage(Sy, s)
           /\ p.links[k].number # None => Mu[p.links[k].number] # None
      /\ \/ Mu = Nu
         \/ /\ p.links[k].number \in Numbers /\ Mu[p.links[k].number] = f
            /\ \A m \in Numbers : m # p.links[k].number => Mu[m] = Nu[m]
  BY <1>0 DEF Links, ProtoOf, Adds
<1>3. TablesOK(F, Sy, Nu, Len(added))
  BY <1>0, AtTheEnd DEF BuildInv, TablesInv, CutInv, Cuts
<1>4. BuilderIn(n, F, Sy, Nu, Len(added)) /\ Base(n) < Len(added) /\ Base(n) \in Nat
  BY <1>1, <1>3, BuilderPlace DEF TablesOK, BuildInv
<1>5. f \in F /\ f \in Files /\ p \in Proto /\ x.visible \subseteq F
  <2>1. f \in F /\ x.visible \subseteq F
    <3>1. Base(n) <= Len(added)
      BY <1>1, <1>4
    <3>2. frames[n].file \in F /\ frames[n].visible \subseteq F
      BY <1>4, <3>1 DEF BuilderIn
    <3>3. x.visible = frames[n].visible
      BY <1>2
    <3> QED
      BY <1>0, <3>2, <3>3
  <2>2. f \in Files
    BY <1>0, <2>1 DEF Typed
  <2> QED
    BY <1>0, <2>1, <2>2, DatabaseAssumption DEF Typed, ProtoOf
<1>6. Accounted(F, Sy, Mu)
  <2>1. k \in DOMAIN p.links
    BY <1>2, <1>5 DEF Proto
  <2>2. Accounted(F, Sy, Nu)
    BY <1>3 DEF TablesOK
  <2>3. ASSUME NEW m \in Numbers, Mu[m] # None
        PROVE  Mu[m] \in F /\ \E i \in DOMAIN ProtoOf(Mu[m]).links :
                                 ProtoOf(Mu[m]).links[i].number = m
    <3>1. CASE Mu[m] = Nu[m]
      BY <2>2, <2>3, <3>1 DEF Accounted
    <3>2. CASE Mu[m] # Nu[m]
      <4>1. m = p.links[k].number /\ Mu[m] = f
        BY <1>2, <3>2
      <4> QED
        BY <1>0, <1>5, <2>1, <4>1
    <3> QED
      BY <3>1, <3>2
  <2> QED
    BY <2>2, <2>3 DEF Accounted
<1>7. ASSUME NEW g \in Files, NEW j \in 0 .. Len(ProtoOf(g).links),
             WholeIn(F, Sy, Nu, g, j)
      PROVE  WholeIn(F, Sy, Mu, g, j)
  BY <1>0, <1>7, LinksKeep
<1>8. ASSUME NEW g \in F \ Under PROVE WholeIn(F, Sy, Mu, g, Len(ProtoOf(g).links))
  <2>1. WholeIn(F, Sy, Nu, g, Len(ProtoOf(g).links))
    BY <1>3 DEF TablesOK
  <2>2. g \in Files /\ ProtoOf(g) \in Proto
    BY <1>0, DatabaseAssumption DEF Typed, ProtoOf
  <2>3. Len(ProtoOf(g).links) \in 0 .. Len(ProtoOf(g).links)
    <3>1. Len(ProtoOf(g).links) \in Nat
      BY <2>2 DEF Proto
    <3> QED
      BY <3>1
  <2> QED
    BY <1>7, <2>1, <2>2, <2>3
<1>9. ASSUME ~x.errors PROVE WholeIn(F, Sy, Mu, f, x.link - 1)
  <2>1. k - 1 \in 0 .. Len(ProtoOf(f).links)
    <3>1. Len(p.links) \in Nat
      BY <1>5 DEF Proto
    <3>2. k \in 1 .. Len(p.links)
      BY <1>2
    <3> QED
      BY <1>0, <3>1, <3>2
  <2>2. WholeIn(F, Sy, Mu, f, k - 1)
    BY <1>0, <1>1, <1>2, <1>4, <1>5, <1>7, <1>9, <2>1 DEF BuilderIn
  <2>3. CASE x.link # k
    <3>1. /\ \E s \in ToSet(p.links[k].scopes) : Sy[s] \in F /\ ~NamesPackage(Sy, s)
          /\ p.links[k].number # None => Mu[p.links[k].number] \in F
      <4>1. p.links[k].number \in Numbers \cup {None}
        <5>1. p.links \in Seq(Link) /\ Len(p.links) \in Nat
          BY <1>5 DEF Proto
        <5>2. p.links[k] \in Link
          BY <1>2, <5>1
        <5> QED
          BY <5>2 DEF Link
      <4> QED
        BY <1>2, <1>6, <1>9, <2>3, <4>1 DEF Accounted
    <3>2. x.link - 1 = k /\ \A i \in 1 .. k : i \in 1 .. k - 1 \/ i = k
      BY <1>2, <2>3
    <3> QED
      BY <1>0, <2>2, <3>1, <3>2 DEF WholeIn
  <2>4. CASE x.link = k
    BY <2>2, <2>4
  <2> QED
    BY <2>3, <2>4
<1>10. ASSUME NEW i \in Started'
       PROVE  BuilderIn(i, F, Sy, Mu, c)'
  <2>1. i \in Started /\ i \in 1 .. n /\ Base(i)' = Base(i) /\ Base(i) \in Nat
        /\ Base(i) < Len(added)
    BY <1>1, Stages, BuilderPlace DEF BuildInv
  <2>2. CASE i = n
    <3>1. /\ frames'[i] = x /\ x.visible \subseteq F /\ x.file = f /\ f \in F
          /\ x.errors \/ WholeIn(F, Sy, Mu, f, x.link - 1)
      BY <1>1, <1>2, <1>5, <1>9, <2>2
    <3> QED
      BY <1>2, <3>1 DEF BuilderIn, WholeIn, NamesPackage
  <2>3. CASE i # n
    <3>1. BuilderIn(i, F, Sy, Nu, Len(added))
      BY <1>3, <2>1 DEF TablesOK
    <3>2. PICK g, j : g = frames[i].file /\ j = frames[i].link - 1
      OBVIOUS
    <3>3. g \in F /\ frames[i].visible \subseteq F
          /\ (frames[i].errors \/ WholeIn(F, Sy, Nu, g, j))
      BY <2>1, <3>1, <3>2 DEF BuilderIn
    <3>4. g \in Files /\ j \in 0 .. Len(ProtoOf(g).links)
      <4>1. g \in Files /\ ProtoOf(g) \in Proto
        BY <1>0, <3>3, DatabaseAssumption DEF Typed, ProtoOf
      <4>2. Len(ProtoOf(g).links) \in Nat
        BY <4>1 DEF Proto
      <4>3. frames[i].link \in 1 .. Len(ProtoOf(g).links) + 1
        BY <1>1, <2>1, <3>2 DEF BuildInv, FrameInv, FrameFits
      <4> QED
        BY <3>2, <4>1, <4>2, <4>3
    <3>5. frames[i].errors \/ WholeIn(F, Sy, Mu, g, j)
      BY <1>7, <3>3, <3>4
    <3>6. frames'[i] = frames[i]
      BY <1>1, <2>1, <2>3
    <3>7. WholeIn(F, Sy, Mu, g, j) => WholeIn(F, Sy, Mu, g, j)'
      <4>1. \A h : ProtoOf(h)' = ProtoOf(h)
        BY <1>2
      <4> QED
        BY <4>1 DEF WholeIn, NamesPackage
    <3>8. /\ frames'[i].visible \subseteq F /\ frames'[i].file = g /\ g \in F
          /\ frames'[i].errors \/ WholeIn(F, Sy, Mu, g, j)'
          /\ frames'[i].link - 1 = j
      BY <3>2, <3>3, <3>5, <3>6, <3>7
    <3> QED
      BY <3>8 DEF BuilderIn, WholeIn, NamesPackage
  <2> QED
    BY <2>2, <2>3
<1>11. NoCircle(F \ Faulty)'
  <2>1. NoCircle(F \ Faulty) /\ F \ Faulty' \subseteq F \ Faulty
    BY <1>1, <1>3 DEF TablesOK
  <2> QED
    BY <1>2, <2>1 DEF NoCircle
<1>12. Accounted(F, Sy, Mu)'
  BY <1>2, <1>6 DEF Accounted
<1>13. ASSUME NEW g \in F \ Under'
       PROVE  WholeIn(F, Sy, Mu, g, Len(ProtoOf(g).links))'
  BY <1>1, <1>2, <1>8 DEF WholeIn, NamesPackage
<1>14. TablesOK(F, Sy, Mu, c)'
  BY <1>10, <1>11, <1>12, <1>13 DEF TablesOK
<1>15. FilesAt(c)' = F /\ SymbolsAt(c)' = Sy /\ NumbersAt(c)' = Mu
  BY <1>0, <1>2, AtTheNextEnd
<1> QED
  BY <1>14, <1>15 DEF CutInv

LEMMA LinksBuilds ==
    ASSUME Typed, Typed', BuildInv, NEW x, Links(x)
    PROVE  BuildInv'
<1>0. PICK n : n = Len(frames)
  OBVIOUS
<1>1. /\ n \in Started /\ n \in 1 .. n /\ DOMAIN frames = 1 .. n /\ DOMAIN frames' = 1 .. n
      /\ frames'[n] = x /\ \A i \in 1 .. n : i # n => frames'[i] = frames[i]
      /\ Started' = Started /\ Loading' = Loading /\ Len(frames') = n
      /\ Len(added) <= Len(added') /\ Len(added') \in Nat /\ Len(added) \in Nat
      /\ \A i \in Started : Base(i)' = Base(i) /\ Own(i)' = Own(i)
      /\ Under' = Under /\ Faulty \subseteq Faulty'
  BY <1>0, LinksBuilders, Stages
<1>2. /\ UNCHANGED <<db, checkpoints, pending>> /\ \A g : ProtoOf(g)' = ProtoOf(g)
      /\ x.file = frames[n].file /\ x.cause = frames[n].cause
      /\ x.phase = "links" /\ frames[n].phase = "links" /\ FrameFits(x)
      /\ x.visible = frames[n].visible
  BY <1>0 DEF Links, ProtoOf
<1>3. \A i \in 1 .. n : /\ frames'[i].file = frames[i].file
                        /\ frames'[i].cause = frames[i].cause
                        /\ frames'[i].phase = frames[i].phase
                        /\ frames'[i].visible = frames[i].visible
  BY <1>1, <1>2
<1>4. FrameInv'
  <2>1. ASSUME NEW i \in 1 .. n PROVE FrameFits(frames'[i])
    BY <1>1, <1>2 DEF BuildInv, FrameInv
  <2> QED
    BY <1>1, <1>2, <2>1 DEF FrameInv, FrameFits
<1>5. StackInv'
  <2>1. \A k \in DOMAIN checkpoints : checkpoints[k] < Len(added')
    BY <1>1, Stages DEF BuildInv, StackInv
  <2>2. checkpoints # <<>> /\ checkpoints[1] = 0
    BY <1>0, <1>1, TopCheckpoint DEF BuildInv, StackInv
  <2>3. \A i, j \in DOMAIN frames' : i # j => frames'[i].file # frames'[j].file
    BY <1>1, <1>3 DEF BuildInv, StackInv
  <2>4. /\ \A j, k \in DOMAIN checkpoints : j < k => checkpoints[j] < checkpoints[k]
        /\ Len(checkpoints) = Cardinality(Started)
    BY DEF BuildInv, StackInv
  <2> QED
    BY <1>1, <1>2, <2>1, <2>2, <2>3, <2>4 DEF StackInv
<1>6. PendingInv'
  <2>1. CASE db.backed
    <3>1. /\ Len(pending) = Cardinality(Loading)
          /\ \A i \in Loading : pending[Rank(Loading, i)] = frames[i].file
          /\ \A i \in 1 .. n : frames[i].cause # "build"
      BY <1>1, <2>1 DEF BuildInv, PendingInv
    <3>2. \A i \in Loading : i \in 1 .. n
      BY <1>1, Stages
    <3> QED
      BY <1>1, <1>2, <1>3, <2>1, <3>1, <3>2 DEF PendingInv, Rank
  <2>2. CASE ~db.backed
    <3>1. n <= 1 /\ \A i \in 1 .. n : frames[i].cause = "build"
      BY <1>0, <1>1, <2>2 DEF BuildInv, PendingInv
    <3>2. \A i \in 1 .. n : frames'[i].phase # "imports"
      BY <1>1, <1>2, <1>3, <3>1
    <3> QED
      BY <1>1, <1>2, <1>3, <2>2, <3>1, <3>2 DEF PendingInv
  <2> QED
    BY <2>1, <2>2
<1>7. OwnInv'
  <2>1. ASSUME NEW i \in Started
        PROVE  /\ Own(i)' \subseteq {frames'[i].file}
               /\ frames'[i].phase = "links" => Own(i)' = {frames'[i].file}
               /\ frames'[i].phase = "end" => frames'[i].errors
    <3>1. i \in 1 .. n
      BY <1>1, Stages
    <3>2. /\ Own(i) \subseteq {frames[i].file}
          /\ frames[i].phase = "links" => Own(i) = {frames[i].file}
          /\ frames[i].phase = "end" => frames[i].errors
      BY DEF BuildInv, OwnInv
    <3>3. frames'[i].phase = "end" => frames'[i] = frames[i]
      BY <1>1, <1>2, <3>1
    <3> QED
      BY <1>1, <1>3, <3>1, <3>2, <3>3
  <2> QED
    BY <1>1, <2>1 DEF OwnInv
<1>8. TablesInv'
  <2>1. Cuts' = ToSet(checkpoints) \cup {Len(added')}
    BY <1>2 DEF Cuts
  <2>2. ASSUME NEW c \in ToSet(checkpoints) PROVE CutInv(c)'
    <3>1. c \in Cuts /\ c \in 0 .. Len(added) /\ CutInv(c) /\ c # Len(added)
      <4>1. PICK k \in DOMAIN checkpoints : c = checkpoints[k]
        BY DEF ToSet
      <4>2. c < Len(added) /\ c \in Nat
        BY <4>1, Stages DEF BuildInv, StackInv
      <4>3. c \in Cuts
        BY DEF Cuts
      <4> QED
        BY <1>1, <4>2, <4>3 DEF BuildInv, TablesInv
    <3>2. c <= Base(n) /\ Base(n) \in Nat
      BY <1>0, <1>1, <3>1, TopCheckpoint, BuilderPlace DEF BuildInv
    <3>3. SameAt(c)
      <4>1. CASE UNCHANGED <<added, extensions>>
        BY <4>1 DEF Links, SameAt, FilesAt, SymbolsAt, NumbersAt, AddedFiles, AddedSymbols,
                    AddedNumbers
      <4>2. CASE ~UNCHANGED <<added, extensions>>
        <5>1. PICK e : Adds(e)
          BY <4>2 DEF Links
        <5> QED
          BY <3>1, <5>1, AddsBehind
      <4> QED
        BY <4>1, <4>2
    <3>4. ASSUME NEW F, NEW Sy, NEW Nu, TablesOK(F, Sy, Nu, c)
          PROVE  TablesOK(F, Sy, Nu, c)'
      <4>1. ASSUME NEW i \in Started' PROVE BuilderIn(i, F, Sy, Nu, c)'
        <5>1. i \in Started /\ i \in 1 .. n /\ BuilderIn(i, F, Sy, Nu, c)
          BY <1>1, <3>4, Stages DEF TablesOK
        <5>2. CASE i = n
          <6>1. Base(i)' = Base(i) /\ ~(Base(i) < c) /\ frames'[i].visible = frames[i].visible
            BY <1>1, <1>3, <3>1, <3>2, <5>1, <5>2
          <6> QED
            BY <5>1, <6>1 DEF BuilderIn
        <5>3. CASE i # n
          <6>1. Steady(i)
            BY <1>1, <5>1, <5>3 DEF Steady
          <6> QED
            BY <1>2, <5>1, <6>1, BuilderCarries
        <5> QED
          BY <5>2, <5>3
      <4> QED
        BY <1>1, <1>2, <3>4, <4>1, CutCarries
    <3> QED
      BY <3>1, <3>3, <3>4, CutByParts
  <2>3. PICK c : c = Len(added')
    OBVIOUS
  <2>4. CutInv(c)'
    BY <2>3, LinksCut
  <2> QED
    BY <2>1, <2>2, <2>3, <2>4 DEF TablesInv
<1> QED
  BY <1>4, <1>5, <1>6, <1>7, <1>8 DEF BuildInv

-----------------------------------------------------------------------------
(* The steps that ask the database                                          *)

Seeks(stack) ==
  /\ UNCHANGED <<db, tables>> /\ Turned(stack)
  /\ badFiles \subseteq badFiles' /\ badFiles' \subseteq Files /\ badSymbols' \subseteq Symbols
  /\ badFiles' \subseteq Refusable
  /\ \/ frames' = stack /\ pending' = pending /\ tried' = tried
     \/ \E f \in Files, cause \in {"file", "symbol", "extension"}, key \in Keys :
          Starts(stack, f, cause, key)

LEMMA SeeksBuilds ==
    ASSUME Typed, BuildInv, NEW stack, Seeks(stack)
    PROVE  BuildInv'
<1>1. CASE frames' = stack /\ pending' = pending
  BY <1>1, TurnedStays DEF Seeks
<1>2. CASE \E f \in Files, cause \in {"file", "symbol", "extension"}, key \in Keys :
             Starts(stack, f, cause, key)
  <2>1. PICK f \in Files, cause \in {"file", "symbol", "extension"}, key \in Keys :
          Starts(stack, f, cause, key)
    BY <1>2
  <2> QED
    BY <2>1, StartsBuilds DEF Seeks
<1> QED
  BY <1>1, <1>2 DEF Seeks

LEMMA SeeksTypes ==
    ASSUME Typed, NEW stack, Seeks(stack)
    PROVE  /\ frames' \in Seq(FrameType) /\ pending' \in Seq(Files)
           /\ Len(stack) = Len(frames)
<1>1. /\ stack \in Seq(FrameType) /\ pending \in Seq(Files) /\ Len(stack) = Len(frames)
  BY DEF Seeks, Turned, Typed
<1>2. CASE frames' = stack /\ pending' = pending
  BY <1>1, <1>2
<1>3. CASE \E f \in Files, cause \in {"file", "symbol", "extension"}, key \in Keys :
             Starts(stack, f, cause, key)
  <2>1. PICK f \in Files, cause \in {"file", "symbol", "extension"}, key \in Keys :
          Starts(stack, f, cause, key)
    BY <1>3
  <2>2. NewFrame(f, cause, key) \in FrameType
    BY <2>1, NewFrameFits DEF Starts
  <2> QED
    BY <1>1, <2>1, <2>2 DEF Starts
<1> QED
  BY <1>1, <1>2, <1>3 DEF Seeks

(* With the top builder turned, the rest of the stack is as it was.         *)
LEMMA TopTurns ==
    ASSUME Typed, FrameInv, NEW n, n = Len(frames), n # 0, NEW x \in FrameType,
           x.file = frames[n].file, x.cause = frames[n].cause, x.key = frames[n].key,
           x.phase = frames[n].phase, x.visible = frames[n].visible, x.errors = frames[n].errors,
           x.link = frames[n].link, ~db.backed => x.import = frames[n].import,
           FrameFits(x), NEW stack, stack = [frames EXCEPT ![n] = x]
    PROVE  Turned(stack)
<1>1. n \in Nat /\ DOMAIN frames = 1 .. n /\ n \in 1 .. n /\ frames \in Seq(FrameType)
  BY Stages DEF Typed
<1>2. stack \in Seq(FrameType) /\ Len(stack) = n
  BY <1>1
<1>3. \A i \in 1 .. n : stack[i] = IF i = n THEN x ELSE frames[i]
  BY <1>1
<1>4. ASSUME NEW i \in DOMAIN frames
      PROVE  /\ stack[i].file = frames[i].file /\ stack[i].cause = frames[i].cause
             /\ stack[i].key = frames[i].key
             /\ stack[i].phase = frames[i].phase /\ stack[i].visible = frames[i].visible
             /\ stack[i].errors = frames[i].errors /\ stack[i].link = frames[i].link
             /\ ~db.backed => stack[i].import = frames[i].import
             /\ FrameFits(stack[i])
  <2>1. CASE i = n
    BY <1>1, <1>3, <2>1
  <2>2. CASE i # n
    BY <1>1, <1>3, <2>2 DEF FrameInv
  <2> QED
    BY <2>1, <2>2
<1> QED
  BY <1>2, <1>4 DEF Turned

LEMMA TryFindSeeks ==
    ASSUME Typed, NEW stack, Turned(stack), UNCHANGED <<db, tables>>,
           NEW cause \in {"file", "symbol", "extension"},
           NEW key \in Keys, cause = "file" => key \in Files \ files,
           cause = "symbol" => key \in Symbols, cause = "extension" => key \in Numbers,
           TryFind(stack, cause, key)
    PROVE  Seeks(stack)
<1>1. /\ badFiles \subseteq badFiles' /\ badFiles' \subseteq Files
      /\ badSymbols' \subseteq Symbols /\ badFiles' \subseteq Refusable
      /\ \/ frames' = stack /\ pending' = pending /\ tried' = tried
         \/ \E f \in Files : Starts(stack, f, cause, key) /\ badFiles' = badFiles
  BY TryFindEffect
<1>2. \/ frames' = stack /\ pending' = pending /\ tried' = tried
      \/ \E f \in Files, c \in {"file", "symbol", "extension"}, k \in Keys :
           Starts(stack, f, c, k)
  BY <1>1
<1> QED
  BY <1>1, <1>2 DEF Seeks

LEMMA LoadImportSeeks ==
    ASSUME Typed, BuildInv, NEW t, LoadImport(t)
    PROVE  \E stack : Seeks(stack)
<1>1. PICK n, top, p, stack :
        /\ n = Len(frames) /\ top = frames[n] /\ p = ProtoOf(top.file)
        /\ stack = Replace(frames, NextImport(top))
  OBVIOUS
<1>2. frames # <<>> /\ Last(frames) = top /\ top.phase = "imports"
  BY <1>1 DEF LoadImport, Builds, Last
<1>3. /\ top.import <= Len(p.imports) /\ UNCHANGED <<db, tables>>
      /\ IF p.imports[top.import] \in files
           THEN frames' = stack /\ UNCHANGED <<known, pending, tried>>
           ELSE TryFind(stack, "file", p.imports[top.import])
  BY <1>1, <1>2 DEF LoadImport
<1>4. n # 0 /\ n \in DOMAIN frames /\ top \in FrameType /\ n \in Loading
  <2>1. n # 0
    BY <1>1, <1>2, Stages DEF Typed
  <2> QED
    BY <1>1, <1>2, <2>1, Stages
<1>5. FrameFits(top) /\ FrameInv
  BY <1>1, <1>4 DEF BuildInv, FrameInv
<1>6. p \in Proto
  BY <1>1, <1>4, DatabaseAssumption DEF FrameType, Typed, ProtoOf
<1>7. p.imports \in Seq(Files) /\ top.import \in 1 .. Len(p.imports)
  <2>1. p.imports \in Seq(Files)
    BY <1>6 DEF Proto
  <2>2. top.import \in 1 .. Len(p.imports) + 1 /\ Len(p.imports) \in Nat
    BY <1>1, <1>2, <1>5, <2>1 DEF FrameFits
  <2> QED
    BY <1>3, <2>1, <2>2
<1>8. db.backed
  <2>1. ASSUME ~db.backed PROVE FALSE
    <3>1. top.import = Len(p.imports) + 1
      BY <1>1, <1>2, <1>4, <2>1 DEF BuildInv, PendingInv
    <3> QED
      BY <1>7, <3>1
  <2> QED
    BY <2>1
<1>9. PICK x : x = NextImport(top)
  OBVIOUS
<1>10. /\ x \in FrameType /\ x.file = top.file /\ x.cause = top.cause /\ x.key = top.key
       /\ x.phase = top.phase /\ x.visible = top.visible /\ x.errors = top.errors
       /\ x.link = top.link /\ x.scope = top.scope /\ x.import = top.import + 1
  BY <1>4, <1>9 DEF NextImport, FrameType
<1>11. FrameFits(x)
  <2>1. x.import \in 1 .. Len(p.imports) + 1
    BY <1>7, <1>10
  <2> QED
    BY <1>1, <1>5, <1>10, <2>1 DEF FrameFits
<1>12. Turned(stack)
  <2>1. stack = [frames EXCEPT ![n] = x] /\ FrameInv
    BY <1>1, <1>5, <1>9 DEF Replace
  <2>2. /\ n = Len(frames) /\ n # 0 /\ x \in FrameType
        /\ x.file = frames[n].file /\ x.cause = frames[n].cause /\ x.key = frames[n].key
        /\ x.phase = frames[n].phase /\ x.visible = frames[n].visible /\ x.errors = frames[n].errors
        /\ x.link = frames[n].link
        /\ ~db.backed => x.import = frames[n].import
    BY <1>1, <1>4, <1>8, <1>10
  <2> QED
    BY ONLY Typed, <1>11, <2>1, <2>2, TopTurns
<1>13. CASE p.imports[top.import] \in files
  BY <1>3, <1>12, <1>13 DEF Seeks, Refusable, known, Typed
<1>14. CASE p.imports[top.import] \notin files
  <2>1. PICK g : g = p.imports[top.import]
    OBVIOUS
  <2>2. g \in Files \ files /\ g \in Keys /\ TryFind(stack, "file", g)
    BY <1>3, <1>7, <1>14, <2>1 DEF Keys
  <2> QED
    BY <1>3, <1>12, <2>2, TryFindSeeks
<1> QED
  BY <1>13, <1>14

LEMMA AskForTypeSeeks ==
    ASSUME Typed, BuildInv, NEW t, AskForType(t)
    PROVE  \E stack : Seeks(stack)
<1>1. PICK n, top, p, stack, x, s :
        /\ n = Len(frames) /\ top = frames[n] /\ p = ProtoOf(top.file)
        /\ x = [top EXCEPT !.asked = TRUE] /\ stack = Replace(frames, x)
        /\ s = p.links[top.link].scopes[top.scope]
  OBVIOUS
<1>2. frames # <<>> /\ Last(frames) = top /\ top.phase = "links"
  BY <1>1 DEF AskForType, Builds, Last
<1>3. /\ top.link <= Len(p.links) /\ UNCHANGED <<db, tables>>
      /\ TryFind(stack, "symbol", s)
  BY <1>1, <1>2 DEF AskForType
<1>4. n # 0 /\ n \in DOMAIN frames /\ top \in FrameType
  <2>1. n # 0
    BY <1>1, <1>2, Stages DEF Typed
  <2> QED
    BY <1>1, <2>1, Stages
<1>5. FrameFits(top) /\ FrameInv
  BY <1>1, <1>4 DEF BuildInv, FrameInv
<1>6. p \in Proto
  BY <1>1, <1>4, DatabaseAssumption DEF FrameType, Typed, ProtoOf
<1>7. s \in Symbols
  <2>1. p.links \in Seq(Link) /\ Len(p.links) \in Nat
    BY <1>6 DEF Proto
  <2>2. top.link \in 1 .. Len(p.links) /\ top.scope \in 1 .. Len(p.links[top.link].scopes)
    <3>1. top.link \in 1 .. Len(p.links) + 1
      BY <1>1, <1>5 DEF FrameFits
    <3>2. top.scope \in 1 .. Len(p.links[top.link].scopes)
      BY <1>1, <1>3, <1>5 DEF FrameFits
    <3> QED
      BY <1>3, <2>1, <3>1, <3>2
  <2>3. p.links[top.link].scopes \in Seq(Symbols)
    <3>1. p.links[top.link] \in Link
      BY <2>1, <2>2
    <3> QED
      BY <3>1 DEF Link
  <2>4. PICK ss, k : ss = p.links[top.link].scopes /\ k = top.scope
    OBVIOUS
  <2>5. ss \in Seq(Symbols) /\ k \in 1 .. Len(ss)
    BY <2>2, <2>3, <2>4
  <2>6. s = ss[k]
    BY <1>1, <2>4
  <2> QED
    BY <2>5, <2>6
<1>8. /\ x \in FrameType /\ x.file = top.file /\ x.cause = top.cause /\ x.key = top.key
      /\ x.phase = top.phase /\ x.visible = top.visible /\ x.errors = top.errors
      /\ x.link = top.link /\ x.scope = top.scope /\ x.import = top.import
  BY <1>1, <1>4 DEF FrameType
<1>9. FrameFits(x)
  BY <1>5, <1>8 DEF FrameFits
<1>10. Turned(stack)
  <2>1. stack = [frames EXCEPT ![n] = x]
    BY <1>1 DEF Replace
  <2> QED
    BY <1>1, <1>4, <1>5, <1>8, <1>9, <2>1, TopTurns
<1>11. s \in Keys
  BY <1>7 DEF Keys
<1> QED
  BY <1>3, <1>7, <1>10, <1>11, TryFindSeeks

(* A file is given to BuildFile of a pool that has no database.             *)
Begins(f) ==
  /\ ~db.backed /\ frames = <<>> /\ f \in Files \ files
  /\ frames' = <<NewFrame(f, "build", f)>> /\ tried' = tried \cup {f}
  /\ UNCHANGED <<db, tables, known, pending>>

LEMMA BeginsBuilds ==
    ASSUME Typed, BuildInv, NEW f, Begins(f)
    PROVE  BuildInv' /\ frames' \in Seq(FrameType)
<1>1. UNCHANGED <<db, files, symbols, extensions, added, checkpoints>>
  BY DEF Begins, tables
<1>2. PICK fr : fr = NewFrame(f, "build", f)
  OBVIOUS
<1>3. fr \in FrameType /\ FrameFits(fr)
  BY <1>2, NewFrameFits DEF Begins, Keys
<1>4. /\ fr.phase = "imports" /\ fr.cause = "build" /\ fr.file = f
      /\ fr.import = Len(ProtoOf(f).imports) + 1
  BY <1>2 DEF NewFrame, Begins
<1>5. /\ frames' = <<fr>> /\ Len(frames') = 1 /\ DOMAIN frames' = {1} /\ frames'[1] = fr
      /\ frames' \in Seq(FrameType)
  BY <1>2, <1>3 DEF Begins
<1>6. Started = {} /\ Started' = {}
  <2>1. DOMAIN frames = {}
    BY DEF Begins
  <2> QED
    BY <1>4, <1>5, <2>1 DEF Started, Loading
<1>7. OwnInv' /\ TablesInv'
  <2>1. SameBuilders
    BY <1>6 DEF SameBuilders
  <2> QED
    BY <2>1, TablesStay DEF BuildInv, Begins
<1>8. \A g : ProtoOf(g)' = ProtoOf(g)
  BY <1>1 DEF ProtoOf
<1>9. FrameInv'
  BY <1>3, <1>5, <1>8 DEF FrameInv, FrameFits
<1>10. StackInv'
  <2>1. \A i, j \in DOMAIN frames' : i # j => frames'[i].file # frames'[j].file
    BY <1>5
  <2>2. Cardinality(Started)' = Cardinality(Started)
    BY <1>6
  <2> QED
    BY <1>1, <2>1, <2>2 DEF BuildInv, StackInv
<1>11. PendingInv'
  <2>1. ~db'.backed /\ Len(frames') <= 1
    BY <1>1, <1>5 DEF Begins
  <2> QED
    BY <1>4, <1>5, <1>8, <2>1 DEF PendingInv
<1> QED
  BY <1>5, <1>7, <1>9, <1>10, <1>11 DEF BuildInv

(* The call of a thread that is at some point of it                         *)
LEMMA LastCall ==
    ASSUME Typed, CallsInv, NEW t \in Threads, calls[t] # <<>>
    PROVE  /\ Len(calls[t]) \in DOMAIN calls[t] /\ Len(calls[t]) \in Nat
           /\ DOMAIN calls[t] = 1 .. Len(calls[t])
           /\ Last(calls[t]) = calls[t][Len(calls[t])] /\ Last(calls[t]) \in CallType
           /\ CallInv(t, Len(calls[t]))
<1>1. calls[t] \in Seq(CallType)
  BY DEF Typed
<1>2. /\ Len(calls[t]) \in Nat /\ DOMAIN calls[t] = 1 .. Len(calls[t])
      /\ Len(calls[t]) \in DOMAIN calls[t] /\ calls[t][Len(calls[t])] \in CallType
  BY <1>1
<1> QED
  BY <1>2 DEF Last, CallsInv

LEMMA SearchFinds ==
    ASSUME Typed, BuildInv, CallsInv, NEW t \in Threads, Search(t)
    PROVE  /\ mutex = t /\ frames = <<>>
           /\ Seeks(<<>>) \/ \E f : Begins(f)
<1>1. PICK call : call = Last(calls[t])
  OBVIOUS
<1>2. calls[t] # <<>> /\ call.at = "search"
  BY <1>1 DEF Search, At
<1>3. /\ call \in CallType /\ CallInv(t, Len(calls[t])) /\ call = calls[t][Len(calls[t])]
  BY <1>1, <1>2, LastCall
<1>4. /\ mutex = t /\ frames = <<>> /\ Lookup(call) = None /\ RequestOf(call) \in Requests
      /\ call.op = "build" => ~db.backed
  BY <1>2, <1>3 DEF CallInv, Holds
<1>5. PICK cause : cause = IF call.op = "container" THEN "symbol" ELSE call.op
  OBVIOUS
<1>6. /\ UNCHANGED <<db, tables>>
      /\ IF cause = "build"
           THEN /\ frames' = <<NewFrame(call.key, "build", call.key)>>
                /\ tried' = tried \cup {call.key}
                /\ UNCHANGED <<known, pending>>
           ELSE TryFind(<<>>, cause, call.key)
  BY <1>1, <1>5 DEF Search
<1>7. /\ call.op \in {"file", "build"} => call.key \in Files
      /\ call.op \in {"symbol", "container"} => call.key \in Symbols
      /\ call.op = "extension" => call.key \in Numbers
      /\ call.op \in {"file", "build", "symbol", "container", "extension"}
  <2>1. call.op = RequestOf(call).op /\ call.key = RequestOf(call).key
    BY DEF RequestOf
  <2> QED
    BY <1>4, <2>1 DEF Requests
<1>8. call.op \in {"file", "build"} => call.key \in Files \ files
  <2>1. ASSUME call.op \in {"file", "build"}, call.key \in files PROVE FALSE
    <3>1. Lookup(call) = call.key
      BY <2>1 DEF Lookup
    <3> QED
      BY <1>4, <1>7, <2>1, <3>1, NamesAssumption
  <2> QED
    BY <1>7, <2>1
<1>9. CASE cause = "build"
  <2>1. call.op = "build"
    BY <1>5, <1>9
  <2>2. Begins(call.key)
    BY <1>4, <1>6, <1>8, <1>9, <2>1 DEF Begins
  <2> QED
    BY <1>4, <2>2
<1>10. CASE cause # "build"
  <2>1. cause \in {"file", "symbol", "extension"}
    BY <1>5, <1>7, <1>10
  <2>2. /\ call.key \in Keys /\ (cause = "file" => call.key \in Files \ files)
        /\ (cause = "symbol" => call.key \in Symbols)
        /\ (cause = "extension" => call.key \in Numbers)
    BY <1>5, <1>7, <1>8, <1>10 DEF Keys
  <2>3. Turned(<<>>)
    <3>1. DOMAIN frames = {} /\ Len(frames) = 0
      BY <1>4
    <3> QED
      BY <3>1 DEF Turned
  <2>4. TryFind(<<>>, cause, call.key)
    BY <1>6, <1>10
  <2>5. Seeks(<<>>)
    BY <1>6, <2>1, <2>2, <2>3, <2>4, TryFindSeeks
  <2> QED
    BY <1>4, <2>5
<1> QED
  BY <1>9, <1>10

-----------------------------------------------------------------------------
(* The builder on top ends: with the last checkpoint goes its claim on what *)
(* was added since, or that itself.                                         *)

Pops ==
  /\ Len(frames) \in Started
  /\ UNCHANGED <<db, pending>>
  /\ frames' = Front(frames) /\ checkpoints' = Front(checkpoints)

LEMMA FrontOf ==
    ASSUME NEW S, NEW s \in Seq(S), NEW n \in Nat \ {0}, Len(s) = n
    PROVE  /\ Front(s) \in Seq(S) /\ Len(Front(s)) = n - 1 /\ DOMAIN Front(s) = 1 .. n - 1
           /\ \A i \in 1 .. n - 1 : i \in 1 .. n /\ i # n /\ Front(s)[i] = s[i]
BY DEF Front

LEMMA PopStages ==
    ASSUME Typed, BuildInv, Pops, NEW n, n = Len(frames), NEW k, k = Len(checkpoints),
           NEW b, b = Base(n)
    PROVE  /\ n \in Started /\ n \in Nat /\ n \in 1 .. n /\ DOMAIN frames = 1 .. n
           /\ k \in Nat /\ k \in 1 .. k /\ DOMAIN checkpoints = 1 .. k
           /\ b \in Nat /\ b = checkpoints[k] /\ b < Len(added)
           /\ Len(frames') = n - 1 /\ DOMAIN frames' = 1 .. n - 1
           /\ \A i \in 1 .. n - 1 : i \in 1 .. n /\ i # n /\ frames'[i] = frames[i]
           /\ Started' = Started \ {n} /\ Loading' = Loading /\ n \notin Loading
           /\ Started \subseteq 1 .. n /\ Loading \subseteq 1 .. n
           /\ Len(checkpoints') = k - 1 /\ DOMAIN checkpoints' = 1 .. k - 1
           /\ \A j \in 1 .. k - 1 : checkpoints'[j] = checkpoints[j] /\ checkpoints[j] < b
<1>1. /\ n \in Started /\ n \in Nat /\ n \in 1 .. n /\ DOMAIN frames = 1 .. n
      /\ Started \subseteq 1 .. n /\ Loading \subseteq 1 .. n /\ n \notin Loading
  BY Stages DEF Pops, Started
<1>2. /\ k \in Nat /\ DOMAIN checkpoints = 1 .. k /\ checkpoints # <<>> /\ b = checkpoints[k]
  BY <1>1, Stages, TopCheckpoint DEF BuildInv, Last
<1>3. k \in 1 .. k /\ b \in Nat /\ b < Len(added)
  <2>1. k # 0
    BY <1>2 DEF Typed
  <2>2. k \in 1 .. k
    BY <1>2, <2>1
  <2> QED
    BY <1>2, <2>2, Stages DEF BuildInv, StackInv
<1>4. /\ Len(frames') = n - 1 /\ DOMAIN frames' = 1 .. n - 1
      /\ \A i \in 1 .. n - 1 : i \in 1 .. n /\ i # n /\ frames'[i] = frames[i]
  <2>1. frames \in Seq(FrameType) /\ n \in Nat \ {0} /\ frames' = Front(frames)
    BY <1>1 DEF Pops, Typed
  <2> QED
    BY <2>1, FrontOf
<1>5. /\ Len(checkpoints') = k - 1 /\ DOMAIN checkpoints' = 1 .. k - 1
      /\ \A j \in 1 .. k - 1 : j \in 1 .. k /\ j < k /\ checkpoints'[j] = checkpoints[j]
  <2>1. checkpoints \in Seq(Nat) /\ k \in Nat \ {0} /\ checkpoints' = Front(checkpoints)
    BY <1>2, <1>3 DEF Pops, Typed
  <2>2. \A j \in 1 .. k - 1 : j < k
    BY <2>1
  <2>3. PICK s : s = checkpoints
    OBVIOUS
  <2>4. s \in Seq(Nat) /\ Len(s) = k
    BY <2>1, <2>3
  <2>5. /\ Len(Front(s)) = k - 1 /\ DOMAIN Front(s) = 1 .. k - 1
        /\ \A j \in 1 .. k - 1 : j \in 1 .. k /\ j # k /\ Front(s)[j] = s[j]
    BY ONLY <2>1, <2>4, FrontOf
  <2> QED
    BY <2>1, <2>2, <2>3, <2>5
<1>6. \A j \in 1 .. k - 1 : checkpoints[j] < b
  BY <1>2, <1>3, <1>5 DEF BuildInv, StackInv
<1>7. Loading' = Loading
  <2>1. \A i \in 1 .. n : i \in 1 .. n - 1 \/ i = n
    BY <1>1
  <2>2. Loading' = {i \in 1 .. n - 1 : frames[i].phase = "imports"}
    BY <1>4 DEF Loading
  <2>3. Loading = {i \in 1 .. n : frames[i].phase = "imports"}
    BY <1>1 DEF Loading
  <2> QED
    BY <1>1, <1>4, <2>1, <2>2, <2>3
<1>8. Started' = Started \ {n}
  <2>1. Started = (1 .. n) \ Loading /\ Started' = (1 .. n - 1) \ Loading
    BY <1>1, <1>4, <1>7 DEF Started
  <2>2. (1 .. n - 1) = (1 .. n) \ {n}
    BY <1>1
  <2> QED
    BY <2>1, <2>2
<1> QED
  BY <1>1, <1>2, <1>3, <1>4, <1>5, <1>6, <1>7, <1>8

LEMMA PopBuilders ==
    ASSUME Typed, BuildInv, Pops, NEW n, n = Len(frames)
    PROVE  /\ Cardinality(Started) = Cardinality(Started') + 1
           /\ \A i \in Started' : i \in Started /\ i \in 1 .. n - 1 /\ Base(i) < Base(n)
                                  /\ Steady(i) /\ frames'[i] = frames[i]
<1>1. /\ n \in Started /\ n \in Nat /\ n \in 1 .. n
      /\ \A i \in 1 .. n - 1 : frames'[i] = frames[i]
      /\ Started' = Started \ {n} /\ Started \subseteq 1 .. n
  BY PopStages
<1>2. PICK k : k = Len(checkpoints)
  OBVIOUS
<1>3. /\ DOMAIN checkpoints = 1 .. k /\ k \in Nat
      /\ \A j \in 1 .. k - 1 : checkpoints'[j] = checkpoints[j]
      /\ Rank(Started, n) = k
  BY <1>1, <1>2, PopStages, TopCheckpoint DEF BuildInv
<1>4. /\ Cardinality(Started) = Cardinality(Started') + 1
      /\ \A i \in Started' : Rank(Started, i) = Rank(Started', i)
  <2>1. PICK S, m : S = Started' /\ m = n - 1
    OBVIOUS
  <2>2. m \in Nat /\ n \in Nat /\ m < n /\ \A j \in S : j \in 1 .. m
    <3>1. \A i \in 1 .. n : i \in 1 .. n - 1 \/ i = n
      BY <1>1
    <3> QED
      BY <1>1, <2>1, <3>1
  <2>3. Started = S \cup {n}
    BY <1>1, <2>1
  <2>4. /\ Cardinality(Started) = Cardinality(S) + 1
        /\ Rank(Started, n) = Cardinality(S) + 1
        /\ \A i \in S : Rank(Started, i) = Rank(S, i)
    BY ONLY SMTT(30), <2>2, <2>3, RankOfNew
  <2> QED
    BY <2>1, <2>4
<1>5. ASSUME NEW i \in Started'
      PROVE  i \in Started /\ i \in 1 .. n - 1 /\ Base(i) < Base(n) /\ Steady(i)
             /\ frames'[i] = frames[i]
  <2>1. i \in Started /\ i \in 1 .. n /\ i # n /\ i < n
    BY <1>1
  <2>2. Base(i) < Base(n) /\ Rank(Started, i) < Rank(Started, n)
        /\ Rank(Started, i) \in 1 .. k
    BY <1>1, <1>3, <2>1, BuilderOrder, BuilderPlace DEF BuildInv
  <2>3. Rank(Started, i) \in 1 .. k - 1
    BY <1>3, <2>2
  <2>4. Base(i)' = checkpoints'[Rank(Started', i)]
    BY DEF Base, Rank
  <2>5. Base(i)' = Base(i)
    BY <1>3, <1>4, <2>3, <2>4 DEF Base
  <2>6. i \in 1 .. n - 1 /\ frames'[i] = frames[i]
    BY <1>1, <2>1
  <2> QED
    BY <2>1, <2>2, <2>5, <2>6 DEF Steady
<1> QED
  BY <1>4, <1>5

(* What holds after it wherever the list of additions is cut                *)
LEMMA PopStacks ==
    ASSUME Typed, BuildInv, Pops, NEW b, b = Base(Len(frames)),
           IF Len(checkpoints) = 1 THEN added' = <<>>
           ELSE Len(added') \in Nat /\ b <= Len(added')
    PROVE  FrameInv' /\ StackInv' /\ PendingInv'
<1>1. PICK n, k : n = Len(frames) /\ k = Len(checkpoints)
  OBVIOUS
<1>2. /\ n \in Started /\ n \in Nat /\ n \in 1 .. n /\ DOMAIN frames = 1 .. n
      /\ k \in Nat /\ k \in 1 .. k /\ DOMAIN checkpoints = 1 .. k
      /\ b \in Nat /\ b = checkpoints[k] /\ b < Len(added)
      /\ Len(frames') = n - 1 /\ DOMAIN frames' = 1 .. n - 1
      /\ \A i \in 1 .. n - 1 : i \in 1 .. n /\ i # n /\ frames'[i] = frames[i]
      /\ Started' = Started \ {n} /\ Loading' = Loading /\ n \notin Loading
      /\ Loading \subseteq 1 .. n
      /\ Len(checkpoints') = k - 1 /\ DOMAIN checkpoints' = 1 .. k - 1
      /\ \A j \in 1 .. k - 1 : checkpoints'[j] = checkpoints[j] /\ checkpoints[j] < b
  <2>1. b = Base(n)
    BY <1>1
  <2> QED
    BY ONLY Typed, BuildInv, Pops, <1>1, <2>1, PopStages
<1>3. UNCHANGED <<db, pending>> /\ \A g : ProtoOf(g)' = ProtoOf(g)
  BY DEF Pops, ProtoOf
<1>4. FrameInv'
  <2>1. \A i \in 1 .. n - 1 : FrameFits(frames[i])
    BY <1>2 DEF BuildInv, FrameInv
  <2> QED
    BY <1>2, <1>3, <2>1 DEF FrameInv, FrameFits
<1>5. StackInv'
  <2>1. \A i, j \in 1 .. k - 1 : i < j => checkpoints'[i] < checkpoints'[j]
    <3>1. \A i \in 1 .. k - 1 : i \in 1 .. k
      BY <1>2
    <3> QED
      BY <1>2, <3>1 DEF BuildInv, StackInv
  <2>2. ASSUME NEW j \in 1 .. k - 1 PROVE checkpoints'[j] < Len(added')
    <3>1. k # 1 /\ j \in 1 .. k
      BY <1>2
    <3>2. checkpoints[j] \in Nat
      <4>1. \A i \in DOMAIN checkpoints : checkpoints[i] \in Nat
        BY Stages
      <4> QED
        BY <1>2, <3>1, <4>1
    <3>3. Len(added') \in Nat /\ b <= Len(added')
      BY <1>1, <3>1
    <3>4. checkpoints'[j] = checkpoints[j] /\ checkpoints[j] < b /\ b \in Nat
      BY <1>2
    <3> QED
      BY <3>2, <3>3, <3>4
  <2>3. IF checkpoints' = <<>> THEN added' = <<>> ELSE checkpoints'[1] = 0
    <3>1. CASE k = 1
      <4>1. checkpoints' = <<>>
        BY <1>2, <3>1 DEF Pops, Front, Typed
      <4> QED
        BY <1>1, <3>1, <4>1
    <3>2. CASE k # 1
      <4>1. 1 \in 1 .. k - 1 /\ checkpoints' # <<>>
        BY <1>2, <3>2
      <4>2. checkpoints[1] = 0
        BY <1>2, <3>2 DEF BuildInv, StackInv
      <4> QED
        BY <1>2, <4>1, <4>2
    <3> QED
      BY <3>1, <3>2
  <2>4. Len(checkpoints') = Cardinality(Started)'
    <3>1. Cardinality(Started) = Cardinality(Started') + 1 /\ k = Cardinality(Started)
      BY <1>1, PopBuilders DEF BuildInv, StackInv
    <3>2. Cardinality(Started') \in Nat
      <4>1. Started' \subseteq 1 .. n
        BY <1>2, Stages
      <4> QED
        BY <1>2, <4>1, RankIsNat
    <3> QED
      BY <1>2, <3>1, <3>2
  <2>5. \A i, j \in 1 .. n - 1 : i # j => frames'[i].file # frames'[j].file
    BY <1>2 DEF BuildInv, StackInv
  <2> QED
    BY <1>2, <2>1, <2>2, <2>3, <2>4, <2>5 DEF StackInv
<1>6. PendingInv'
  <2>1. \A i \in Loading : i \in 1 .. n - 1
    BY <1>2
  <2>2. CASE db.backed
    <3>1. /\ Len(pending) = Cardinality(Loading)
          /\ \A i \in Loading : pending[Rank(Loading, i)] = frames[i].file
          /\ \A i \in 1 .. n : frames[i].cause # "build"
      BY <1>2, <2>2 DEF BuildInv, PendingInv
    <3> QED
      BY <1>2, <1>3, <2>1, <2>2, <3>1 DEF PendingInv, Rank
  <2>3. CASE ~db.backed
    <3>1. /\ n <= 1
          /\ \A i \in 1 .. n :
               /\ frames[i].cause = "build"
               /\ frames[i].phase = "imports" =>
                    frames[i].import = Len(ProtoOf(frames[i].file).imports) + 1
      BY <1>1, <1>2, <2>3 DEF BuildInv, PendingInv
    <3>2. n - 1 <= 1 /\ \A i \in 1 .. n - 1 : FALSE
      BY <1>2, <3>1
    <3> QED
      BY <1>2, <1>3, <2>3, <3>2 DEF PendingInv
  <2> QED
    BY <2>2, <2>3
<1> QED
  BY <1>4, <1>5, <1>6

LEMMA PopOwn ==
    ASSUME Typed, BuildInv, Pops, NEW n, n = Len(frames),
           Started' = {} \/ \A m \in 1 .. Base(n) : added'[m] = added[m]
    PROVE  /\ \A i \in Started' : Own(i)' = Own(i)
           /\ OwnInv'
           /\ Under = Under' \cup Own(n)
           /\ Faulty = Faulty' \cup IF frames[n].errors THEN Own(n) ELSE {}
<1>1. /\ n \in Started /\ Started' = Started \ {n} /\ Base(n) \in Nat
  BY PopStages
<1>2. \A i \in Started' : i \in Started /\ i \in 1 .. n - 1 /\ Base(i) < Base(n)
                          /\ Steady(i) /\ frames'[i] = frames[i]
  BY PopBuilders
<1>3. ASSUME NEW i \in Started' PROVE Own(i)' = Own(i)
  <2>1. Base(i) \in Nat /\ Base(i) < Base(n) /\ Base(i)' = Base(i)
    BY <1>2, BuilderPlace DEF BuildInv, Steady
  <2>2. Base(i) + 1 \in 1 .. Base(n)
    BY <1>1, <2>1
  <2> QED
    BY <2>1, <2>2 DEF Own
<1>4. OwnInv'
  BY <1>2, <1>3 DEF BuildInv, OwnInv
<1>5. Under = Under' \cup Own(n)
  BY <1>1, <1>3 DEF Under
<1>6. Faulty = Faulty' \cup IF frames[n].errors THEN Own(n) ELSE {}
  <2>1. {j \in Started : frames[j].errors}
          = {j \in Started' : frames'[j].errors} \cup {j \in {n} : frames[n].errors}
    BY <1>1, <1>2
  <2>2. Faulty' = UNION {Own(i)' : i \in {j \in Started' : frames'[j].errors}}
    BY DEF Faulty
  <2>3. Faulty' = UNION {Own(i) : i \in {j \in Started' : frames'[j].errors}}
    BY <1>3, <2>2
  <2> QED
    BY <2>1, <2>3 DEF Faulty
<1> QED
  BY <1>3, <1>4, <1>5, <1>6

LEMMA PopCut ==
    ASSUME Typed, BuildInv, Pops, NEW n, n = Len(frames),
           Started' = {} \/ \A m \in 1 .. Base(n) : added'[m] = added[m],
           NEW c \in Cuts, c <= Base(n), SameAt(c)
    PROVE  CutInv(c)'
<1>1. n \in Started /\ Base(n) \in Nat /\ Base(n) < Len(added) /\ Len(added) \in Nat
  BY PopStages, Stages
<1>2. /\ Under = Under' \cup Own(n)
      /\ Faulty = Faulty' \cup IF frames[n].errors THEN Own(n) ELSE {}
  BY PopOwn
<1>3. Own(n) \subseteq AddedFiles(c)
  <2>1. c \in Nat
    BY CutBounds DEF BuildInv
  <2>2. Base(n) + 1 \in c + 1 .. Len(added)
    BY <1>1, <2>1
  <2> QED
    BY <2>2 DEF AddedFiles, Own
<1>4. ASSUME NEW F, NEW Sy, NEW Nu, TablesOK(F, Sy, Nu, c), F = FilesAt(c)
      PROVE  TablesOK(F, Sy, Nu, c)'
  <2>1. F \cap Own(n) = {}
    BY <1>3, <1>4 DEF FilesAt
  <2>2. F \cap Under \subseteq Under' /\ F \cap Faulty \subseteq Faulty'
    BY <1>2, <2>1
  <2>3. ASSUME NEW i \in Started' PROVE BuilderIn(i, F, Sy, Nu, c)'
    <3>1. i \in Started /\ Steady(i)
      BY PopBuilders
    <3> QED
      BY <1>4, <3>1, BuilderCarries DEF TablesOK, Pops
  <2> QED
    BY <1>4, <2>2, <2>3, CutCarries DEF Pops
<1>5. CutInv(c)
  BY DEF BuildInv, TablesInv
<1> QED
  BY <1>4, <1>5, CutByParts

Undoes == Pops /\ RollsBackTo(Base(Len(frames)))

LEMMA UndoesBuilds ==
    ASSUME Typed, BuildInv, Undoes
    PROVE  BuildInv'
<1>1. PICK n, b, k : n = Len(frames) /\ b = Base(n) /\ k = Len(checkpoints)
  OBVIOUS
<1>2. Pops /\ RollsBackTo(b)
  BY <1>1 DEF Undoes
<1>3. /\ n \in Started /\ b \in Nat /\ b < Len(added) /\ Len(added) \in Nat
      /\ k \in 1 .. k /\ k \in Nat /\ b = checkpoints[k]
      /\ DOMAIN checkpoints = 1 .. k /\ DOMAIN checkpoints' = 1 .. k - 1
      /\ \A j \in 1 .. k - 1 : checkpoints'[j] = checkpoints[j] /\ checkpoints[j] < b
  BY <1>1, <1>2, PopStages, Stages
<1>4. /\ b \in 0 .. Len(added) /\ Len(added') = b
      /\ \A m \in 1 .. b : added'[m] = added[m]
  BY <1>2, <1>3 DEF RollsBackTo, Typed
<1>5. IF k = 1 THEN added' = <<>> ELSE Len(added') \in Nat /\ b <= Len(added')
  <2>1. CASE k = 1
    <3>1. b = 0
      BY <1>3, <2>1 DEF BuildInv, StackInv
    <3> QED
      BY <1>2, <1>4, <2>1, <3>1 DEF RollsBackTo, Typed
  <2>2. CASE k # 1
    BY <1>3, <1>4, <2>2
  <2> QED
    BY <2>1, <2>2
<1>6. FrameInv' /\ StackInv' /\ PendingInv'
  BY <1>1, <1>2, <1>5, PopStacks
<1>7. OwnInv'
  BY <1>1, <1>2, <1>4, PopOwn
<1>8. TablesInv'
  <2>1. ASSUME NEW c \in Cuts' PROVE c \in Cuts /\ c <= b
    <3>1. CASE c = Len(added')
      <4>1. Base(n) \in Cuts
        BY <1>3, BuilderPlace DEF BuildInv
      <4>2. c = b /\ b <= b
        BY <1>3, <1>4, <3>1
      <4> QED
        BY <1>1, <4>1, <4>2
    <3>2. CASE c # Len(added')
      <4>1. PICK j \in DOMAIN checkpoints' : c = checkpoints'[j]
        BY <3>2 DEF Cuts, ToSet
      <4>2. j \in 1 .. k - 1 /\ j \in 1 .. k
        BY <1>3, <4>1
      <4>3. c = checkpoints[j] /\ c < b /\ c \in Nat
        <5>1. \A i \in DOMAIN checkpoints : checkpoints[i] \in Nat
          BY Stages
        <5> QED
          BY <1>3, <4>1, <4>2, <5>1
      <4>4. c \in Cuts
        BY <1>3, <4>2, <4>3 DEF Cuts, ToSet
      <4> QED
        BY <1>3, <4>3, <4>4
    <3> QED
      BY <3>1, <3>2
  <2>2. ASSUME NEW c \in Cuts' PROVE CutInv(c)'
    <3>1. c \in Cuts /\ c \in 0 .. b
      BY <1>3, <2>1, CutBounds DEF BuildInv
    <3>2. SameAt(c)
      BY <1>2, <1>4, <3>1, RollbackKeeps
    <3> QED
      BY <1>1, <1>2, <1>4, <2>1, <3>1, <3>2, PopCut
  <2> QED
    BY <2>2 DEF TablesInv
<1> QED
  BY <1>6, <1>7, <1>8 DEF BuildInv

Commits ==
  LET n == Len(frames) IN
  /\ Pops /\ UNCHANGED <<files, symbols, extensions>>
  /\ added' = IF Len(checkpoints) = 1 THEN <<>> ELSE added
  /\ ~frames[n].errors
  /\ frames[n].link = Len(ProtoOf(frames[n].file).links) + 1

LEMMA CommitsPrefix ==
    ASSUME Typed, BuildInv, Commits, NEW n, n = Len(frames)
    PROVE  /\ Started' = {} \/ added' = added
           /\ Started' = {} \/ \A m \in 1 .. Base(n) : added'[m] = added[m]
           /\ Len(checkpoints) = 1 => Started' = {}
<1>1. ASSUME Len(checkpoints) = 1 PROVE Started' = {}
  <2>1. Cardinality(Started) = Cardinality(Started') + 1 /\ Cardinality(Started) = 1
    BY <1>1, PopBuilders DEF Commits, BuildInv, StackInv
  <2>2. Started' \subseteq 1 .. n /\ n \in Nat
    BY PopStages DEF Commits
  <2>3. IsFiniteSet(Started') /\ Cardinality(Started') \in Nat
    <3>1. IsFiniteSet(1 .. n)
      BY <2>2, FS_Interval
    <3> QED
      BY <2>2, <3>1, FS_Subset, FS_CardinalityType
  <2> QED
    BY <2>1, <2>3, FS_EmptySet
<1>2. CASE Len(checkpoints) = 1
  BY <1>1, <1>2
<1>3. CASE Len(checkpoints) # 1
  BY <1>3 DEF Commits
<1> QED
  BY <1>1, <1>2, <1>3

(* The tables as they are: the file that is committed is whole now.         *)
LEMMA CommitsCut ==
    ASSUME Typed, Typed', BuildInv, Commits, NEW c, c = Len(added')
    PROVE  CutInv(c)'
<1>0. PICK n, f, F, Sy, Nu : /\ n = Len(frames) /\ f = frames[n].file
                             /\ F = files /\ Sy = symbols /\ Nu = extensions
  OBVIOUS
<1>1. /\ n \in Started /\ Base(n) \in Nat /\ Base(n) < Len(added) /\ n \in DOMAIN frames
  BY <1>0, PopStages DEF Commits
<1>2. /\ Pops /\ db' = db /\ UNCHANGED <<files, symbols, extensions>>
      /\ ~frames[n].errors /\ frames[n].link - 1 = Len(ProtoOf(f).links)
      /\ \A g : ProtoOf(g)' = ProtoOf(g)
  <2>1. ProtoOf(f) \in Proto
    BY <1>0, <1>1, Stages, DatabaseAssumption DEF Typed, ProtoOf, FrameType
  <2>2. Len(ProtoOf(f).links) \in Nat
    BY <2>1 DEF Proto
  <2>3. frames[n].link - 1 = Len(ProtoOf(f).links)
    BY <1>0, <2>2 DEF Commits
  <2> QED
    BY <1>0, <2>3 DEF Commits, Pops, ProtoOf
<1>3. TablesOK(F, Sy, Nu, Len(added))
  BY <1>0, AtTheEnd DEF BuildInv, TablesInv, CutInv, Cuts
<1>4. /\ Under = Under' \cup Own(n) /\ Faulty = Faulty' /\ Own(n) \subseteq {f}
  <2>1. /\ Under = Under' \cup Own(n)
        /\ Faulty = Faulty' \cup IF frames[n].errors THEN Own(n) ELSE {}
    BY <1>0, <1>2, CommitsPrefix, PopOwn
  <2> QED
    BY <1>0, <1>1, <1>2, <2>1 DEF BuildInv, OwnInv
<1>5. ASSUME NEW g \in F \ Under'
      PROVE  WholeIn(F, Sy, Nu, g, Len(ProtoOf(g).links))'
  <2>1. WholeIn(F, Sy, Nu, g, Len(ProtoOf(g).links))
    <3>1. CASE g \notin Under
      BY <1>3, <3>1 DEF TablesOK
    <3>2. CASE g \in Under
      <4>1. g = f
        BY <1>4, <3>2
      <4>2. BuilderIn(n, F, Sy, Nu, Len(added))
        BY <1>1, <1>3 DEF TablesOK
      <4> QED
        BY <1>0, <1>1, <1>2, <4>1, <4>2 DEF BuilderIn
    <3> QED
      BY <3>1, <3>2
  <2> QED
    BY <1>2, <2>1 DEF WholeIn, NamesPackage
<1>6. ASSUME NEW i \in Started' PROVE BuilderIn(i, F, Sy, Nu, c)'
  <2>1. i \in Started /\ Steady(i)
    BY <1>2, PopBuilders
  <2>2. c = Len(added)
    BY CommitsPrefix
  <2>3. BuilderIn(i, F, Sy, Nu, c)
    BY <1>3, <2>1, <2>2 DEF TablesOK
  <2> QED
    BY <1>2, <2>1, <2>3, BuilderCarries
<1>7. Accounted(F, Sy, Nu)' /\ NoCircle(F \ Faulty)'
  BY <1>2, <1>3, <1>4 DEF TablesOK, Accounted, NoCircle
<1>8. TablesOK(F, Sy, Nu, c)'
  BY <1>5, <1>6, <1>7 DEF TablesOK
<1>9. FilesAt(c)' = F /\ SymbolsAt(c)' = Sy /\ NumbersAt(c)' = Nu
  BY <1>0, <1>2, AtTheNextEnd
<1> QED
  BY <1>8, <1>9 DEF CutInv

LEMMA CommitsBuilds ==
    ASSUME Typed, Typed', BuildInv, Commits
    PROVE  BuildInv'
<1>1. PICK n, b, k : n = Len(frames) /\ b = Base(n) /\ k = Len(checkpoints)
  OBVIOUS
<1>2. Pops /\ added' = IF k = 1 THEN <<>> ELSE added
  BY <1>1 DEF Commits
<1>3. /\ n \in Started /\ b \in Nat /\ b < Len(added) /\ Len(added) \in Nat
      /\ k \in 1 .. k /\ k \in Nat /\ b = checkpoints[k]
      /\ DOMAIN checkpoints = 1 .. k /\ DOMAIN checkpoints' = 1 .. k - 1
      /\ \A j \in 1 .. k - 1 : checkpoints'[j] = checkpoints[j] /\ checkpoints[j] < b
  BY <1>1, <1>2, PopStages, Stages
<1>4. FrameInv' /\ StackInv' /\ PendingInv'
  <2>1. IF k = 1 THEN added' = <<>> ELSE Len(added') \in Nat /\ b <= Len(added')
    BY <1>2, <1>3
  <2> QED
    BY <1>1, <1>2, <2>1, PopStacks
<1>5. Started' = {} \/ \A m \in 1 .. Base(n) : added'[m] = added[m]
  BY <1>1, CommitsPrefix
<1>6. OwnInv'
  BY <1>1, <1>2, <1>5, PopOwn
<1>7. TablesInv'
  <2>1. ASSUME NEW c \in Cuts', c # Len(added') PROVE CutInv(c)'
    <3>1. PICK j \in DOMAIN checkpoints' : c = checkpoints'[j]
      BY <2>1 DEF Cuts, ToSet
    <3>2. j \in 1 .. k - 1 /\ j \in 1 .. k /\ k # 1
      BY <1>3, <3>1
    <3>3. c = checkpoints[j] /\ c < b /\ c \in Nat
      <4>1. \A i \in DOMAIN checkpoints : checkpoints[i] \in Nat
        BY Stages
      <4> QED
        BY <1>3, <3>1, <3>2, <4>1
    <3>4. c \in Cuts /\ c <= b
      BY <1>3, <3>2, <3>3 DEF Cuts, ToSet
    <3>5. SameAt(c)
      <4>1. UNCHANGED <<files, symbols, extensions, added>>
        BY <1>2, <3>2 DEF Commits
      <4> QED
        BY <4>1 DEF SameAt, FilesAt, SymbolsAt, NumbersAt, AddedFiles, AddedSymbols,
                    AddedNumbers
    <3> QED
      BY <1>1, <1>2, <1>5, <3>4, <3>5, PopCut
  <2>2. PICK c : c = Len(added')
    OBVIOUS
  <2>3. CutInv(c)'
    BY <2>2, CommitsCut
  <2> QED
    BY <2>1, <2>2, <2>3 DEF TablesInv
<1> QED
  BY <1>4, <1>6, <1>7 DEF BuildInv

LEMMA EndsOnTop ==
    ASSUME Typed, BuildInv, NEW t, Ends(t), NEW n, n = Len(frames)
    PROVE  /\ mutex = t /\ frames # <<>> /\ n # 0 /\ n \in DOMAIN frames /\ n \in Started
           /\ Last(frames) = frames[n] /\ frames[n] \in FrameType
           /\ Own(n) \subseteq {frames[n].file}
           /\ ~frames[n].errors =>
                /\ Own(n) = {frames[n].file}
                /\ frames[n].link = Len(ProtoOf(frames[n].file).links) + 1
<1>1. /\ mutex = t /\ frames # <<>> /\ Last(frames) = frames[n]
      /\ frames[n].phase \in {"links", "end"}
      /\ frames[n].phase = "links" => frames[n].link > Len(ProtoOf(frames[n].file).links)
  BY DEF Ends, Builds, Last
<1>2. n # 0 /\ n \in DOMAIN frames /\ n \in Started /\ frames[n] \in FrameType
  <2>1. n # 0
    BY <1>1, Stages DEF Typed
  <2>2. n \in DOMAIN frames
    BY <2>1, Stages
  <2> QED
    BY <1>1, <2>1, <2>2, Stages
<1>3. /\ Own(n) \subseteq {frames[n].file}
      /\ ~frames[n].errors => frames[n].phase = "links" /\ Own(n) = {frames[n].file}
  BY <1>1, <1>2 DEF BuildInv, OwnInv
<1>4. ASSUME ~frames[n].errors
      PROVE  frames[n].link = Len(ProtoOf(frames[n].file).links) + 1
  <2>1. frames[n].link \in 1 .. Len(ProtoOf(frames[n].file).links) + 1
    BY <1>2 DEF BuildInv, FrameInv, FrameFits
  <2>2. ProtoOf(frames[n].file) \in Proto
    BY <1>2, DatabaseAssumption DEF Typed, ProtoOf, FrameType
  <2>3. Len(ProtoOf(frames[n].file).links) \in Nat
    BY <2>2 DEF Proto
  <2> QED
    BY <1>1, <1>3, <1>4, <2>1, <2>3
<1> QED
  BY <1>1, <1>2, <1>3, <1>4

LEMMA SucceedCommits ==
    ASSUME Typed, BuildInv, NEW t, Succeed(t)
    PROVE  Commits
<1>1. PICK n : n = Len(frames)
  OBVIOUS
<1>2. /\ Ends(t) /\ ~Last(frames).errors /\ frames' = Front(frames)
      /\ checkpoints' = Front(checkpoints)
      /\ added' = IF Len(checkpoints) = 1 THEN <<>> ELSE added
      /\ UNCHANGED <<db, files, symbols, extensions, pending>>
  BY DEF Succeed, Return, ClearLastCheckpoint
<1>3. /\ n \in Started /\ Last(frames) = frames[n]
      /\ ~frames[n].errors => frames[n].link = Len(ProtoOf(frames[n].file).links) + 1
  BY <1>1, <1>2, EndsOnTop
<1> QED
  BY <1>1, <1>2, <1>3 DEF Commits, Pops

LEMMA FailUndoes ==
    ASSUME Typed, BuildInv, NEW t, Fail(t)
    PROVE  Undoes /\ UndoneFiles = AddedFiles(Base(Len(frames)))
<1>1. PICK n, b : n = Len(frames) /\ b = Base(n)
  OBVIOUS
<1>2. /\ Ends(t) /\ frames' = Front(frames) /\ RollbackToLastCheckpoint
      /\ UNCHANGED <<db, pending>>
  BY DEF Fail, Return
<1>3. n \in Started
  BY <1>1, <1>2, EndsOnTop
<1>4. Pops
  BY <1>1, <1>2, <1>3 DEF Pops, RollbackToLastCheckpoint
<1>5. /\ checkpoints # <<>> /\ b = Last(checkpoints) /\ b \in 0 .. Len(added)
  BY <1>1, <1>3, TopCheckpoint, BuilderPlace, CutBounds DEF BuildInv
<1>6. /\ UndoneFiles = AddedFiles(b) /\ UndoneSymbols = AddedSymbols(b)
      /\ UndoneNumbers = AddedNumbers(b)
  BY <1>5, UndoneIsAdded
<1>7. RollsBackTo(b)
  BY <1>2, <1>5, <1>6 DEF RollbackToLastCheckpoint, RollsBackTo, FilesAt, SymbolsAt,
                         NumbersAt
<1> QED
  BY <1>1, <1>4, <1>6, <1>7 DEF Undoes

-----------------------------------------------------------------------------
(* Types                                                                    *)

LEMMA OneReplaced ==
    ASSUME NEW S, NEW s \in Seq(S), NEW x \in S, NEW n \in 1 .. Len(s)
    PROVE  [s EXCEPT ![n] = x] \in Seq(S)
OBVIOUS

LEMMA TypedBySeeking ==
    ASSUME Typed, BuildInv, NEW t, LoadImport(t) \/ AskForType(t)
    PROVE  Typed'
<1>1. PICK stack : Seeks(stack)
  BY LoadImportSeeks, AskForTypeSeeks
<1>2. frames' \in Seq(FrameType) /\ pending' \in Seq(Files)
  BY <1>1, SeeksTypes
<1>3. UNCHANGED <<db, tables, mutex, calls, left, answer, validated, rollbacks>>
  BY DEF LoadImport, AskForType
<1>4. badFiles' \subseteq Files /\ badSymbols' \subseteq Symbols
  BY <1>1 DEF Seeks
<1> QED
  BY <1>2, <1>3, <1>4 DEF Typed, tables

LEMMA TypedByAdding ==
    ASSUME Typed, BuildInv, NEW t, AddFile(t)
    PROVE  Typed'
<1>1. PICK e, x : Enters(e, x)
  BY AddFileEnters
<1>2. /\ e \in EntryType /\ x \in FrameType /\ added' = Append(added, e)
      /\ checkpoints' = Append(checkpoints, Len(added))
      /\ frames' = [frames EXCEPT ![Len(frames)] = x]
      /\ pending' = IF db.backed THEN Front(pending) ELSE pending
      /\ files' = files \cup e.files /\ frames[Len(frames)].file \in Files
  BY <1>1, Stages DEF Enters, Adds, FrameType
<1>3. /\ added' \in Seq(EntryType) /\ checkpoints' \in Seq(Nat)
      /\ frames' \in Seq(FrameType)
  <2>1. /\ added \in Seq(EntryType) /\ checkpoints \in Seq(Nat) /\ frames \in Seq(FrameType)
        /\ Len(added) \in Nat
    BY DEF Typed
  <2>2. added' \in Seq(EntryType) /\ checkpoints' \in Seq(Nat)
    BY <1>2, <2>1
  <2>3. Len(frames) \in 1 .. Len(frames)
    BY <1>1, Stages DEF Enters
  <2> QED
    BY <1>2, <2>1, <2>2, <2>3, OneReplaced
<1>4. pending' \in Seq(Files)
  BY <1>2 DEF Typed, Front
<1>5. files' \subseteq Files
  BY <1>2 DEF Typed, EntryType
<1>6. symbols' \in [Symbols -> Files \cup {None}]
  <2>1. Last(frames) = frames[Len(frames)]
    BY DEF Last
  <2>2. \E S : symbols' = [s \in Symbols |-> IF s \in S THEN Last(frames).file
                                            ELSE symbols[s]]
    BY DEF AddFile
  <2>3. PICK S : symbols' = [s \in Symbols |-> IF s \in S THEN Last(frames).file
                                              ELSE symbols[s]]
    BY <2>2
  <2> QED
    BY <1>2, <2>1, <2>3 DEF Typed
<1>7. UNCHANGED <<db, extensions, known, mutex, calls, left, answer, validated, rollbacks>>
  BY DEF AddFile
<1> QED
  BY <1>3, <1>4, <1>5, <1>6, <1>7 DEF Typed, known

LEMMA TypedByLinking ==
    ASSUME Typed, BuildInv, NEW t, CrossLinkField(t)
    PROVE  Typed'
<1>1. PICK x : Links(x)
  BY CrossLinkFieldLinks
<1>2. PICK f, l : f = frames[Len(frames)].file /\ l = ProtoOf(f).links[frames[Len(frames)].link]
  OBVIOUS
<1>3. /\ x \in FrameType /\ frames' = [frames EXCEPT ![Len(frames)] = x]
      /\ f \in Files
      /\ \/ UNCHANGED <<added, extensions>>
         \/ /\ extensions' \in [Numbers -> Files \cup {None}]
            /\ Adds([files |-> {}, symbols |-> {}, numbers |-> {l.number}])
  BY <1>1, <1>2, Stages DEF Links, FrameType
<1>4. frames' \in Seq(FrameType)
  <2>1. frames \in Seq(FrameType)
    BY DEF Typed
  <2>2. Len(frames) \in 1 .. Len(frames)
    BY <1>1, Stages DEF Links
  <2> QED
    BY <1>3, <2>1, <2>2, OneReplaced
<1>5. extensions' \in [Numbers -> Files \cup {None}]
  BY <1>3 DEF Typed
<1>6. added' \in Seq(EntryType)
  <2>1. added \in Seq(EntryType)
    BY DEF Typed
  <2>2. ASSUME NEW e, Adds(e) PROVE added' \in Seq(EntryType)
    BY <2>1, <2>2 DEF Adds
  <2> QED
    BY <1>3, <2>1, <2>2
<1>7. UNCHANGED <<db, files, symbols, checkpoints, known, pending, mutex, calls, left,
                  answer, validated, rollbacks>>
  BY DEF CrossLinkField
<1> QED
  BY <1>4, <1>5, <1>6, <1>7 DEF Typed, known

(* The call at the end of calls[t] has become c, in some step of it.        *)
Becomes(t, c) ==
  /\ t \in Threads /\ calls[t] # <<>> /\ c \in CallType
  /\ calls' = [calls EXCEPT ![t] = Replace(@, c)]
  /\ RequestOf(c) = RequestOf(Last(calls[t]))

LEMMA BecomesPlain ==
    ASSUME Typed, NEW t, NEW c, Becomes(t, c), NEW call, call = Last(calls[t])
    PROVE  /\ calls' \in [Threads -> Seq(CallType)]
           /\ Len(calls'[t]) = Len(calls[t]) /\ Last(calls'[t]) = c /\ calls'[t] # <<>>
           /\ DOMAIN calls'[t] = DOMAIN calls[t] /\ calls'[t][Len(calls[t])] = c
           /\ \A i \in DOMAIN calls[t] : i # Len(calls[t]) => calls'[t][i] = calls[t][i]
           /\ \A u \in Threads : u # t => calls'[u] = calls[u]
           /\ call \in CallType /\ c.op = call.op /\ c.key = call.key
           /\ Len(calls[t]) \in DOMAIN calls[t] /\ Len(calls[t]) \in Nat
           /\ DOMAIN calls[t] = 1 .. Len(calls[t]) /\ call = calls[t][Len(calls[t])]
<1>1. c.op = call.op /\ c.key = call.key
  BY DEF Becomes, RequestOf
<1>2. /\ call \in CallType /\ Len(calls[t]) \in DOMAIN calls[t] /\ Len(calls[t]) \in Nat
      /\ DOMAIN calls[t] = 1 .. Len(calls[t]) /\ call = calls[t][Len(calls[t])]
  <2>1. calls[t] \in Seq(CallType) /\ calls[t] # <<>>
    BY DEF Typed, Becomes
  <2> QED
    BY <2>1 DEF Last
<1>3. PICK cs, s : cs = calls' /\ s = Replace(calls[t], c)
  OBVIOUS
<1>4. s = [calls[t] EXCEPT ![Len(calls[t])] = c] /\ c \in CallType /\ t \in Threads
      /\ calls[t] \in Seq(CallType)
  BY <1>3 DEF Replace, Becomes, Typed
<1>5. s \in Seq(CallType) /\ Len(s) = Len(calls[t]) /\ s[Len(s)] = c /\ s # <<>>
      /\ DOMAIN s = DOMAIN calls[t]
      /\ \A i \in DOMAIN calls[t] : i # Len(calls[t]) => s[i] = calls[t][i]
  BY <1>2, <1>4
<1>6. /\ cs \in [Threads -> Seq(CallType)] /\ cs[t] = s
      /\ \A u \in Threads : u # t => cs[u] = calls[u]
  BY <1>3, <1>4, <1>5 DEF Typed, Becomes
<1> QED
  BY <1>1, <1>2, <1>3, <1>5, <1>6 DEF Last

LEMMA GoesBecomes ==
    ASSUME Typed, NEW t \in Threads, calls[t] # <<>>,
           NEW at \in {"fast", "lock", "search", "build", "found", "lost", "answer",
                       "validate", "judge"},
           NEW result \in Files \cup {None}, Goes(t, at, result)
    PROVE  \E c : /\ Becomes(t, c) /\ c.at = at /\ c.result = result
                  /\ c.deferred = Last(calls[t]).deferred
<1>1. PICK call, c : call = Last(calls[t]) /\ c = [call EXCEPT !.at = at, !.result = result]
  OBVIOUS
<1>2. call \in CallType
  <2>1. calls[t] \in Seq(CallType)
    BY DEF Typed
  <2> QED
    BY <1>1, <2>1 DEF Last
<1>3. /\ c \in CallType /\ c.at = at /\ c.result = result /\ c.deferred = call.deferred
      /\ c.op = call.op /\ c.key = call.key
  <2>1. c = [call EXCEPT !.at = at, !.result = result]
    BY <1>1
  <2> QED
    BY ONLY <1>2, <2>1, at \in {"fast", "lock", "search", "build", "found", "lost", "answer",
                                "validate", "judge"}, result \in Files \cup {None} DEF CallType
<1>4. calls' = [calls EXCEPT ![t] = Replace(@, c)]
  BY <1>1 DEF Goes, Typed
<1>5. RequestOf(c) = RequestOf(call)
  BY <1>3 DEF RequestOf
<1> QED
  BY <1>1, <1>3, <1>4, <1>5 DEF Becomes

LEMMA ReturnBecomes ==
    ASSUME Typed, NEW t \in Threads, calls[t] # <<>>, NEW deferred, deferred \subseteq Files,
           Return(t, TRUE, deferred) \/ Return(t, FALSE, deferred)
    PROVE  \E c : /\ Becomes(t, c) /\ c.deferred = deferred
                  /\ c.at \in {"build", "found", "lost"}
                  /\ c.at = "build" <=> Len(frames) > 1
<1>1. PICK call, at, c :
        /\ call = Last(calls[t])
        /\ at = IF Len(frames) > 1 THEN "build"
                ELSE IF Return(t, TRUE, deferred) THEN "found" ELSE "lost"
        /\ c = [call EXCEPT !.at = at, !.deferred = deferred]
  OBVIOUS
<1>2. call \in CallType
  <2>1. calls[t] \in Seq(CallType)
    BY DEF Typed
  <2> QED
    BY <1>1, <2>1 DEF Last
<1>3. at \in {"build", "found", "lost"}
  BY <1>1
<1>4. /\ c \in CallType /\ c.at = at /\ c.deferred = deferred
      /\ c.op = call.op /\ c.key = call.key
  BY <1>1, <1>2, <1>3 DEF CallType
<1>5. calls' = [calls EXCEPT ![t] = Replace(@, c)]
  BY <1>1 DEF Return, Typed
<1>6. RequestOf(c) = RequestOf(call)
  BY <1>4 DEF RequestOf
<1>7. c.at = "build" <=> Len(frames) > 1
  BY <1>1, <1>4
<1> QED
  BY <1>1, <1>3, <1>4, <1>5, <1>6, <1>7 DEF Becomes

(* What either end of a builder does to the call: its file is handed over   *)
(* for validation, and after a failure taken back with all that goes.       *)
LEMMA EndingReturns ==
    ASSUME Typed, BuildInv, CallsInv, NEW t \in Threads, Succeed(t) \/ Fail(t),
           NEW n, n = Len(frames), NEW old, old = Last(calls[t]).deferred
    PROVE  /\ mutex = t /\ calls[t] # <<>> /\ Last(calls[t]).at = "build"
           /\ \E c : /\ Becomes(t, c)
                     /\ c.at \in {"build", "found", "lost"}
                     /\ c.at = "build" <=> frames' # <<>>
                     /\ c.deferred = (old \cup {g \in {frames[n].file} : HandsOver(g)})
                                      \ IF Fail(t) THEN UndoneFiles ELSE {}
<1>1. Ends(t) /\ mutex = t /\ frames # <<>> /\ Last(frames) = frames[n] /\ n \in Nat
      /\ frames[n].file \in Files /\ n # 0
  <2>1. Ends(t)
    BY DEF Succeed, Fail
  <2>2. frames[n] \in FrameType /\ n \in Nat
    BY <2>1, EndsOnTop, Stages
  <2> QED
    BY <2>1, <2>2, EndsOnTop DEF FrameType
<1>2. calls[t] # <<>>
  BY <1>1 DEF CallsInv
<1>3. Last(calls[t]) \in CallType /\ CallInv(t, Len(calls[t]))
      /\ Last(calls[t]) = calls[t][Len(calls[t])]
  BY <1>2, LastCall
<1>4. Last(calls[t]).at = "build" /\ old \subseteq Files
  BY <1>1, <1>3 DEF CallInv, CallType
<1>5. frames' # <<>> <=> n > 1
  <2>1. frames' = Front(frames) /\ frames \in Seq(FrameType)
    BY DEF Succeed, Fail, Return, Typed
  <2>2. Len(frames') = n - 1 /\ frames' \in Seq(FrameType)
    BY <1>1, <2>1 DEF Front
  <2>3. frames' # <<>> <=> Len(frames') # 0
    BY <2>2
  <2> QED
    BY <1>1, <2>2, <2>3
<1>6. PICK new : new = old \cup {g \in {frames[n].file} : HandsOver(g)}
  OBVIOUS
<1>7. new \subseteq Files /\ new \ UndoneFiles \subseteq Files
  BY <1>1, <1>4, <1>6
<1>8. CASE Succeed(t) /\ ~Fail(t)
  <2>1. Return(t, TRUE, new)
    BY <1>1, <1>6, <1>8 DEF Succeed
  <2>2. PICK c : /\ Becomes(t, c) /\ c.deferred = new
                 /\ c.at \in {"build", "found", "lost"}
                 /\ c.at = "build" <=> Len(frames) > 1
    BY <1>2, <1>7, <2>1, ReturnBecomes
  <2> QED
    BY <1>1, <1>2, <1>4, <1>5, <1>6, <1>8, <2>2
<1>9. CASE Fail(t)
  <2>1. Return(t, FALSE, new \ UndoneFiles)
    BY <1>1, <1>6, <1>9 DEF Fail, StillDeferred
  <2>2. PICK c : /\ Becomes(t, c) /\ c.deferred = new \ UndoneFiles
                 /\ c.at \in {"build", "found", "lost"}
                 /\ c.at = "build" <=> Len(frames) > 1
    BY <1>2, <1>7, <2>1, ReturnBecomes
  <2> QED
    BY <1>1, <1>2, <1>4, <1>5, <1>6, <1>9, <2>2
<1> QED
  BY <1>8, <1>9

-----------------------------------------------------------------------------
(* What is committed: the files there would be after a rollback of all      *)

LEMMA CommittedCut ==
    ASSUME Typed, BuildInv
    PROVE  /\ 0 \in Cuts /\ Committed = FilesAt(0) /\ Committed \subseteq files
           /\ \A f \in Under : f \notin Committed
           /\ frames = <<>> => Committed = files /\ added = <<>> /\ checkpoints = <<>>
                               /\ Under = {}
<1>1. Uncommitted = AddedFiles(0)
  <2>1. 0 + 1 .. Len(added) = DOMAIN added
    BY Stages
  <2> QED
    BY <2>1 DEF Uncommitted, AddedFiles, ToSet
<1>2. Committed = FilesAt(0) /\ Committed \subseteq files
  BY <1>1 DEF Committed, FilesAt
<1>3. 0 \in Cuts
  <2>1. CASE checkpoints = <<>>
    BY <2>1 DEF Cuts, BuildInv, StackInv
  <2>2. CASE checkpoints # <<>>
    <3>1. 1 \in DOMAIN checkpoints /\ checkpoints[1] = 0
      BY <2>2 DEF BuildInv, StackInv, Typed
    <3> QED
      BY <3>1 DEF Cuts, ToSet
  <2> QED
    BY <2>1, <2>2
<1>4. ASSUME NEW f \in Under PROVE f \notin Committed
  <2>1. PICK i \in Started : f \in Own(i)
    BY DEF Under
  <2>2. Base(i) + 1 \in DOMAIN added
    BY BuilderPlace DEF BuildInv
  <2>3. f \in Uncommitted
    BY <2>1, <2>2 DEF Own, Uncommitted, ToSet
  <2> QED
    BY <2>3 DEF Committed
<1>5. ASSUME frames = <<>>
      PROVE  Committed = files /\ added = <<>> /\ checkpoints = <<>> /\ Under = {}
  <2>1. DOMAIN frames = {}
    BY <1>5
  <2>2. Started = {}
    BY <2>1 DEF Started
  <2>3. Len(checkpoints) = 0
    BY <2>2, FS_EmptySet DEF BuildInv, StackInv
  <2>4. checkpoints = <<>> /\ added = <<>>
    BY <2>3 DEF Typed, BuildInv, StackInv
  <2>5. Uncommitted = {} /\ Under = {}
    BY <2>2, <2>4 DEF Uncommitted, ToSet, Under
  <2> QED
    BY <2>4, <2>5 DEF Committed
<1> QED
  BY <1>2, <1>3, <1>4, <1>5

LEMMA SameCommitted ==
    ASSUME Typed, BuildInv, Typed', BuildInv', SameAt(0)
    PROVE  Committed' = Committed
<1>1. Uncommitted = AddedFiles(0)
  <2>1. 0 + 1 .. Len(added) = DOMAIN added
    BY Stages
  <2> QED
    BY <2>1 DEF Uncommitted, AddedFiles, ToSet
<1>2. Uncommitted' = AddedFiles(0)'
  <2>1. 0 + 1 .. Len(added') = DOMAIN added'
    BY DEF Typed
  <2> QED
    BY <2>1 DEF Uncommitted, AddedFiles, ToSet
<1> QED
  BY <1>1, <1>2 DEF Committed, FilesAt, SameAt

(* Builders commit nothing before the last checkpoint goes.                 *)
LEMMA NothingCommitted ==
    ASSUME Typed, BuildInv, Typed', BuildInv', NEW t,
           \/ LoadImport(t) \/ AddFile(t) \/ AskForType(t) \/ CrossLinkField(t)
           \/ Fail(t) \/ (Commits /\ Len(checkpoints) # 1)
    PROVE  Committed' = Committed
<1>1. CASE LoadImport(t) \/ AskForType(t)
  BY <1>1 DEF LoadImport, AskForType, tables, Committed, Uncommitted
<1>2. CASE AddFile(t)
  <2>1. PICK e, x : Enters(e, x)
    BY <1>2, AddFileEnters
  <2>2. SameAt(0)
    BY <2>1, Stages, AddsBehind DEF Enters
  <2> QED
    BY <2>2, SameCommitted
<1>3. CASE CrossLinkField(t)
  <2>1. PICK x : Links(x)
    BY <1>3, CrossLinkFieldLinks
  <2>2. CASE UNCHANGED <<added, extensions>>
    BY <2>1, <2>2 DEF Links, Committed, Uncommitted
  <2>3. CASE ~UNCHANGED <<added, extensions>>
    <3>1. PICK e : Adds(e)
      BY <2>1, <2>3 DEF Links
    <3>2. SameAt(0)
      BY <3>1, Stages, AddsBehind
    <3> QED
      BY <3>2, SameCommitted
  <2> QED
    BY <2>2, <2>3
<1>4. CASE Fail(t)
  <2>1. PICK b : b = Base(Len(frames))
    OBVIOUS
  <2>2. RollsBackTo(b) /\ b \in 0 .. Len(added) /\ 0 \in 0 .. b
    BY <1>4, <2>1, FailUndoes, BuilderPlace, CutBounds DEF Undoes, Pops, BuildInv
  <2>3. SameAt(0)
    BY <2>2, RollbackKeeps
  <2> QED
    BY <2>3, SameCommitted
<1>5. CASE Commits /\ Len(checkpoints) # 1
  BY <1>5 DEF Commits, Committed, Uncommitted
<1> QED
  BY <1>1, <1>2, <1>3, <1>4, <1>5

LEMMA LastCommits ==
    ASSUME Typed, Commits, Len(checkpoints) = 1
    PROVE  Committed' = files /\ Committed \subseteq Committed' /\ Uncommitted' = {}
<1>1. added' = <<>> /\ files' = files
  BY DEF Commits
<1>2. Uncommitted' = {}
  BY <1>1 DEF Uncommitted, ToSet
<1> QED
  BY <1>1, <1>2 DEF Committed

-----------------------------------------------------------------------------
(* The calls                                                                *)

(* A call in the middle of the list, which waits for the one behind it      *)
LEMMA WaitingCall ==
    ASSUME NEW t, NEW i, CallInv(t, i), calls[t][i].at = "judge",
           calls'[t][i] = calls[t][i], db' = db, Committed \subseteq Committed',
           i < Len(calls'[t]) \/ (i = Len(calls'[t]) /\ mutex' # t)
    PROVE  CallInv(t, i)'
<1>1. PICK call : call = calls[t][i]
  OBVIOUS
<1>2. calls'[t][i] = call /\ call.at = "judge"
  BY <1>1
<1>3. Truthful(call)'
  <2>1. Truthful(call)
    BY <1>1 DEF CallInv
  <2> QED
    BY <2>1 DEF Truthful, Pool!Defines
<1>4. ~(mutex' = t /\ i = Len(calls'[t]))
  OBVIOUS
<1> QED
  BY <1>1, <1>2, <1>3, <1>4 DEF CallInv, Holds

(* A call that is not touched                                               *)
LEMMA QuietCall ==
    ASSUME Typed, CallsInv, NEW u \in Threads, NEW i \in DOMAIN calls[u],
           calls'[u] = calls[u], db' = db, Committed \subseteq Committed',
           mutex' = u <=> mutex = u,
           mutex = u => (frames' = <<>> <=> frames = <<>>),
           mutex = u /\ frames = <<>> => UNCHANGED <<files, symbols, extensions>>
    PROVE  CallInv(u, i)'
<1>1. PICK call : call = calls[u][i]
  OBVIOUS
<1>2. /\ calls'[u][i] = call /\ CallInv(u, i)
      /\ i <= Len(calls[u]) /\ i \in Nat /\ Len(calls[u]) \in Nat
  BY <1>1 DEF CallsInv, Typed
<1>3. Truthful(call) => Truthful(call)'
  BY DEF Truthful, Pool!Defines
<1>4. ASSUME call.at = "search" PROVE Lookup(call)' = None
  <2>1. mutex = u /\ i = Len(calls[u])
    BY <1>1, <1>2, <1>4 DEF CallInv, Holds
  <2>2. frames = <<>>
    BY <1>1, <1>2, <1>4, <2>1 DEF CallInv
  <2>3. UNCHANGED <<files, symbols, extensions>> /\ Lookup(call) = None
    BY <1>1, <1>2, <1>4, <2>1, <2>2 DEF CallInv
  <2> QED
    BY <2>3 DEF Lookup
<1>5. call.at = "build" <=> mutex' = u /\ i = Len(calls'[u]) /\ frames' # <<>>
  BY <1>1, <1>2 DEF CallInv
<1> QED
  BY <1>1, <1>2, <1>3, <1>4, <1>5 DEF CallInv

(* A step of a thread that holds mutex_, in which its calls stay            *)
LEMMA BuildingCalls ==
    ASSUME Typed, CallsInv, frames # <<>>, frames' # <<>>, UNCHANGED <<db, mutex, calls, answer>>,
           Committed \subseteq Committed'
    PROVE  CallsInv'
<1>1. ASSUME NEW u \in Threads, NEW i \in DOMAIN calls[u] PROVE CallInv(u, i)'
  BY QuietCall
<1> QED
  BY <1>1 DEF CallsInv

(* A step of the last call of thread t                                      *)
LEMMA BecomesCalls ==
    ASSUME Typed, CallsInv, NEW t, NEW c, Becomes(t, c), UNCHANGED <<db, answer>>,
           Committed \subseteq Committed',
           \A u \in Threads \ {t} :
             /\ mutex' = u <=> mutex = u
             /\ mutex = u => UNCHANGED <<frames, files, symbols, extensions>>,
           mutex' = None => frames' = <<>>,
           c.at \in Holds <=> mutex' = t,
           c.at = "build" <=> mutex' = t /\ frames' # <<>>,
           c.at \in {"fast", "lock", "search", "answer"} => c.deferred = {},
           c.at \in {"answer", "validate", "judge"} => Truthful(c)',
           c.at = "search" => Lookup(c)' = None
    PROVE  CallsInv'
<1>1. PICK call, n : call = Last(calls[t]) /\ n = Len(calls[t])
  OBVIOUS
<1>2. /\ Len(calls'[t]) = n /\ Last(calls'[t]) = c /\ calls'[t] # <<>>
      /\ DOMAIN calls'[t] = DOMAIN calls[t] /\ calls'[t][n] = c
      /\ \A i \in DOMAIN calls[t] : i # n => calls'[t][i] = calls[t][i]
      /\ \A u \in Threads : u # t => calls'[u] = calls[u]
      /\ call \in CallType /\ c.op = call.op /\ c.key = call.key
      /\ n \in DOMAIN calls[t] /\ n \in Nat
      /\ DOMAIN calls[t] = 1 .. n /\ call = calls[t][n]
  BY <1>1, BecomesPlain
<1>3. t \in Threads /\ RequestOf(c) = RequestOf(call) /\ CallInv(t, n)
  BY <1>1, <1>2 DEF Becomes, CallsInv
<1>4. CallInv(t, n)'
  <2>1. RequestOf(c) \in Requests /\ (n = 1 => RequestOf(c) \in Questions)
        /\ (c.op = "build" => ~db.backed)
    BY <1>2, <1>3 DEF CallInv
  <2>2. ~(n < n)
    BY <1>2
  <2> QED
    BY <1>2, <2>1, <2>2 DEF CallInv
<1>5. ASSUME NEW i \in DOMAIN calls[t], i # n PROVE CallInv(t, i)'
  <2>1. CallInv(t, i) /\ i < n /\ calls'[t][i] = calls[t][i]
    BY <1>2, <1>3, <1>5 DEF CallsInv
  <2>2. calls[t][i].at = "judge"
    BY <1>1, <2>1 DEF CallInv
  <2> QED
    BY <1>2, <2>1, <2>2, WaitingCall
<1>6. ASSUME NEW u \in Threads \ {t}, NEW i \in DOMAIN calls[u] PROVE CallInv(u, i)'
  <2>1. calls'[u] = calls[u]
    BY <1>2
  <2> QED
    BY <2>1, QuietCall
<1>7. ASSUME NEW u \in Threads
      PROVE  /\ \A i \in DOMAIN calls'[u] : CallInv(u, i)'
             /\ calls'[u] # <<>> => answer'[u] = NoAnswer
             /\ mutex' = u => calls'[u] # <<>> /\ Last(calls'[u]).at \in Holds
  <2>1. CASE u = t
    <3>1. answer[t] = NoAnswer
      BY <1>3 DEF CallsInv, Becomes
    <3> QED
      BY <1>2, <1>4, <1>5, <2>1, <3>1
  <2>2. CASE u # t
    BY <1>2, <1>6, <2>2 DEF CallsInv
  <2> QED
    BY <2>1, <2>2
<1>8. NoAnswer' = NoAnswer
  BY DEF NoAnswer
<1> QED
  BY <1>7, <1>8 DEF CallsInv

LEMMA TypedBySucceeding ==
    ASSUME Typed, BuildInv, CallsInv, NEW t \in Threads, Succeed(t)
    PROVE  Typed'
<1>1. Commits
  BY SucceedCommits
<1>2. /\ added \in Seq(EntryType) /\ checkpoints \in Seq(Nat) /\ frames \in Seq(FrameType)
  BY DEF Typed
<1>3. frames' \in Seq(FrameType) /\ checkpoints' \in Seq(Nat)
  BY <1>1, <1>2, SMTT(20) DEF Commits, Pops, Front
<1>4. added' \in Seq(EntryType)
  BY <1>1, <1>2 DEF Commits
<1>5. calls' \in [Threads -> Seq(CallType)]
  <2>1. PICK c : Becomes(t, c)
    BY EndingReturns
  <2> QED
    BY <2>1, BecomesPlain
<1>6. UNCHANGED <<db, files, symbols, extensions, known, pending, mutex, left, answer,
                  validated, rollbacks>>
  BY DEF Succeed
<1> QED
  BY <1>3, <1>4, <1>5, <1>6 DEF Typed, known

LEMMA FailRemembers ==
    ASSUME Typed, BuildInv, NEW t, Fail(t), NEW n, n = Len(frames)
    PROVE  /\ badFiles \subseteq badFiles' /\ badFiles' \subseteq Files
           /\ badSymbols' \subseteq Symbols
           /\ frames[n].cause # "build" => frames[n].file \in badFiles'
           /\ badFiles' \subseteq badFiles \cup {frames[n].file}
                                  \cup IF frames[n].cause = "file" THEN {frames[n].key} ELSE {}
           /\ frames[n].file \in Files
           /\ rollbacks' = [rollbacks EXCEPT ![frames[n].file] = @ + 1]
<1>1. /\ n \in DOMAIN frames /\ Last(frames) = frames[n] /\ frames[n] \in FrameType
  BY EndsOnTop DEF Fail
<1>2. PICK top, bad : top = frames[n] /\ bad = IF top.cause = "build" THEN {} ELSE {top.file}
  OBVIOUS
<1>3. /\ badFiles' = badFiles \cup bad \cup (IF top.cause = "file" THEN {top.key} ELSE {})
      /\ badSymbols' = badSymbols \cup (IF top.cause = "symbol" THEN {top.key} ELSE {})
      /\ rollbacks' = [rollbacks EXCEPT ![top.file] = @ + 1]
  BY <1>1, <1>2 DEF Fail, Remember
<1>4. /\ top.cause = "file" => top.key \in Files
      /\ top.cause = "symbol" => top.key \in Symbols
      /\ top.file \in Files
  BY <1>1, <1>2 DEF BuildInv, FrameInv, FrameFits, FrameType
<1>5. badFiles \subseteq Files /\ badSymbols \subseteq Symbols
  BY DEF Typed
<1> QED
  BY <1>2, <1>3, <1>4, <1>5

LEMMA TypedByFailing ==
    ASSUME Typed, BuildInv, CallsInv, NEW t \in Threads, Fail(t)
    PROVE  Typed'
<1>1. Undoes
  BY FailUndoes
<1>2. PICK b : b = Base(Len(frames))
  OBVIOUS
<1>3. /\ added \in Seq(EntryType) /\ checkpoints \in Seq(Nat) /\ frames \in Seq(FrameType)
      /\ b \in 0 .. Len(added)
  BY <1>1, <1>2, BuilderPlace, CutBounds DEF Typed, Undoes, Pops, BuildInv
<1>4. frames' \in Seq(FrameType) /\ checkpoints' \in Seq(Nat)
  BY <1>1, <1>3 DEF Undoes, Pops, Front
<1>5. added' \in Seq(EntryType)
  BY <1>1, <1>2, <1>3 DEF Undoes, RollsBackTo
<1>6. /\ files' \subseteq Files
      /\ symbols' \in [Symbols -> Files \cup {None}]
      /\ extensions' \in [Numbers -> Files \cup {None}]
  BY <1>1, <1>2 DEF Undoes, RollsBackTo, FilesAt, SymbolsAt, NumbersAt, Typed
<1>7. calls' \in [Threads -> Seq(CallType)]
  <2>1. PICK c : Becomes(t, c)
    BY EndingReturns
  <2> QED
    BY <2>1, BecomesPlain
<1>8. badFiles' \subseteq Files /\ badSymbols' \subseteq Symbols
      /\ rollbacks' \in [Files -> Nat]
  <2>1. PICK f \in Files : rollbacks' = [rollbacks EXCEPT ![f] = @ + 1]
    BY FailRemembers
  <2>2. badFiles' \subseteq Files /\ badSymbols' \subseteq Symbols
    BY FailRemembers
  <2> QED
    BY <2>1, <2>2 DEF Typed
<1>9. UNCHANGED <<db, pending, mutex, left, answer, validated>>
  BY DEF Fail
<1> QED
  BY <1>4, <1>5, <1>6, <1>7, <1>8, <1>9 DEF Typed

(* The builds of the invariant, over every step of a builder                *)
LEMMA BuildersStep ==
    ASSUME Typed, BuildInv, CallsInv, NEW t \in Threads,
           \/ LoadImport(t) \/ AddFile(t) \/ AskForType(t) \/ CrossLinkField(t)
           \/ Succeed(t) \/ Fail(t)
    PROVE  Typed' /\ BuildInv'
<1>1. CASE LoadImport(t) \/ AskForType(t)
  <2>1. PICK stack : Seeks(stack)
    BY <1>1, LoadImportSeeks, AskForTypeSeeks
  <2> QED
    BY <1>1, <2>1, SeeksBuilds, TypedBySeeking
<1>2. CASE AddFile(t)
  <2>1. PICK e, x : Enters(e, x)
    BY <1>2, AddFileEnters
  <2> QED
    BY <1>2, <2>1, EntersBuilds, TypedByAdding
<1>3. CASE CrossLinkField(t)
  <2>1. PICK x : Links(x)
    BY <1>3, CrossLinkFieldLinks
  <2> QED
    BY <1>3, <2>1, LinksBuilds, TypedByLinking
<1>4. CASE Succeed(t)
  BY <1>4, SucceedCommits, CommitsBuilds, TypedBySucceeding
<1>5. CASE Fail(t)
  BY <1>5, FailUndoes, UndoesBuilds, TypedByFailing
<1> QED
  BY <1>1, <1>2, <1>3, <1>4, <1>5

(* What the builders but the one that ends leave alone                      *)
LEMMA BuildersGoOn ==
    ASSUME Typed, BuildInv, NEW t,
           LoadImport(t) \/ AddFile(t) \/ AskForType(t) \/ CrossLinkField(t)
    PROVE  /\ mutex = t /\ frames # <<>> /\ frames' # <<>>
           /\ UNCHANGED <<db, mutex, calls, left, answer, validated, rollbacks>>
<1>1. /\ mutex = t /\ frames # <<>>
      /\ UNCHANGED <<db, mutex, calls, left, answer, validated, rollbacks>>
  BY DEF LoadImport, AddFile, AskForType, CrossLinkField, Builds
<1>2. Len(frames) # 0 /\ frames \in Seq(FrameType)
  BY <1>1 DEF Typed
<1>3. CASE LoadImport(t) \/ AskForType(t)
  <2>1. PICK stack : Seeks(stack)
    BY <1>3, LoadImportSeeks, AskForTypeSeeks
  <2>2. stack \in Seq(FrameType) /\ Len(stack) # 0
    BY <1>2, <2>1, SeeksTypes DEF Seeks, Turned
  <2>3. frames' = stack \/ \E fr : frames' = Append(stack, fr)
    BY <2>1 DEF Seeks, Starts
  <2> QED
    BY <1>1, <2>2, <2>3
<1>4. CASE AddFile(t) \/ CrossLinkField(t)
  <2>1. \E x : frames' = [frames EXCEPT ![Len(frames)] = x]
    BY <1>4, AddFileEnters, CrossLinkFieldLinks DEF Enters, Links
  <2> QED
    BY <1>1, <1>2, <2>1
<1> QED
  BY <1>1, <1>3, <1>4

LEMMA CommittedGrows ==
    ASSUME Typed, BuildInv, Typed', BuildInv', NEW t,
           \/ LoadImport(t) \/ AddFile(t) \/ AskForType(t) \/ CrossLinkField(t)
           \/ Succeed(t) \/ Fail(t)
    PROVE  Committed \subseteq Committed'
<1>1. CASE Succeed(t)
  <2>1. Commits
    BY <1>1, SucceedCommits
  <2> QED
    BY <2>1, NothingCommitted, LastCommits
<1>2. CASE ~Succeed(t)
  BY <1>2, NothingCommitted
<1> QED
  BY <1>1, <1>2

LEMMA BuildersCalls ==
    ASSUME Typed, BuildInv, CallsInv, Typed', BuildInv', NEW t \in Threads,
           \/ LoadImport(t) \/ AddFile(t) \/ AskForType(t) \/ CrossLinkField(t)
           \/ Succeed(t) \/ Fail(t)
    PROVE  CallsInv'
<1>1. Committed \subseteq Committed'
  BY CommittedGrows
<1>2. CASE LoadImport(t) \/ AddFile(t) \/ AskForType(t) \/ CrossLinkField(t)
  BY <1>1, <1>2, BuildersGoOn, BuildingCalls
<1>3. CASE Succeed(t) \/ Fail(t)
  <2>1. mutex = t /\ UNCHANGED <<db, mutex, answer>> /\ mutex' = t
    <3>1. UNCHANGED <<db, mutex, answer>>
      BY <1>3 DEF Succeed, Fail
    <3> QED
      BY <1>3, <3>1, EndingReturns
  <2>2. PICK c : /\ Becomes(t, c)
                 /\ c.at \in {"build", "found", "lost"}
                 /\ c.at = "build" <=> frames' # <<>>
    BY <1>3, EndingReturns
  <2>3. mutex' # None
    BY <2>1, NamesAssumption
  <2>4. c.at \in Holds
    BY <2>2 DEF Holds
  <2>5. ~(c.at \in {"fast", "lock", "search", "answer", "validate", "judge"})
    BY <2>2
  <2>6. \A u \in Threads \ {t} : /\ mutex' = u <=> mutex = u
                                 /\ mutex = u => UNCHANGED <<frames, files, symbols, extensions>>
    BY <2>1
  <2> QED
    BY <1>1, <2>1, <2>2, <2>3, <2>4, <2>5, <2>6, BecomesCalls
<1> QED
  BY <1>2, <1>3

-----------------------------------------------------------------------------
(* The steps of the public calls                                            *)

(* A step of a call that does not touch the tables or the builders          *)
LEMMA BuildStays ==
    ASSUME Typed, BuildInv, UNCHANGED <<db, tables, build>>
    PROVE  BuildInv' /\ Committed' = Committed
<1>1. UNCHANGED <<db, files, symbols, extensions, added, checkpoints, pending, frames>>
  BY DEF tables, build
<1>2. Started' = Started /\ Loading' = Loading
  BY <1>1 DEF Started, Loading
<1>3. SameBuilders
  BY <1>1, <1>2 DEF SameBuilders
<1>4. FrameInv' /\ StackInv' /\ PendingInv'
  BY <1>1, <1>2 DEF BuildInv, FrameInv, FrameFits, StackInv, PendingInv, ProtoOf
<1>5. Committed' = Committed
  BY <1>1 DEF Committed, Uncommitted
<1>6. OwnInv' /\ TablesInv'
  BY <1>1, <1>3, TablesStay DEF BuildInv
<1> QED
  BY <1>4, <1>5, <1>6 DEF BuildInv

LEMMA LookupFinds ==
    ASSUME Typed, BuildInv, NEW call \in CallType, RequestOf(call) \in Requests
    PROVE  /\ Lookup(call) \in Files \cup {None}
           /\ frames = <<>> /\ Lookup(call) # None =>
                Lookup(call) \in Committed /\ Pool!Defines(Lookup(call), RequestOf(call))
<1>1. PICK op, key : op = call.op /\ key = call.key
  OBVIOUS
<1>2. RequestOf(call).op = op /\ RequestOf(call).key = key
  BY <1>1 DEF RequestOf
<1>3. \/ op \in {"file", "build"} /\ key \in Files
      \/ op \in {"symbol", "container"} /\ key \in Symbols
      \/ op = "extension" /\ key \in Numbers
  BY <1>2 DEF Requests
<1>4. ASSUME frames = <<>>
      PROVE  Committed = files /\ Accounted(files, symbols, extensions)
  <2>1. TablesOK(files, symbols, extensions, Len(added))
    BY AtTheEnd DEF BuildInv, TablesInv, CutInv, Cuts
  <2> QED
    BY <1>4, <2>1, CommittedCut DEF TablesOK
<1>5. CASE op \in {"file", "build"} /\ key \in Files
  <2>1. Lookup(call) = IF key \in files THEN key ELSE None
    BY <1>1, <1>5 DEF Lookup
  <2> QED
    BY <1>2, <1>4, <1>5, <2>1 DEF Pool!Defines
<1>6. CASE op \in {"symbol", "container"} /\ key \in Symbols
  <2>1. Lookup(call) = symbols[key]
    BY <1>1, <1>6 DEF Lookup
  <2>2. ASSUME frames = <<>>, symbols[key] # None
        PROVE  symbols[key] \in Committed /\ Pool!Defines(symbols[key], RequestOf(call))
    BY <1>2, <1>4, <1>6, <2>2 DEF Accounted, Pool!Defines, ProtoOf
  <2> QED
    BY <1>6, <2>1, <2>2 DEF Typed
<1>7. CASE op = "extension" /\ key \in Numbers
  <2>1. Lookup(call) = extensions[key]
    BY <1>1, <1>7 DEF Lookup
  <2>2. ASSUME frames = <<>>, extensions[key] # None
        PROVE  extensions[key] \in Committed /\ Pool!Defines(extensions[key], RequestOf(call))
    BY <1>2, <1>4, <1>7, <2>2 DEF Accounted, Pool!Defines, ProtoOf
  <2> QED
    BY <1>7, <2>1, <2>2 DEF Typed
<1> QED
  BY <1>3, <1>5, <1>6, <1>7

(* A step of the last call that builds nothing                              *)
LEMMA CallGoesOn ==
    ASSUME Typed, BuildInv, CallsInv, NEW t, NEW c, Becomes(t, c),
           UNCHANGED <<db, tables, build, left, answer>>,
           badFiles' \subseteq badFiles, badSymbols' \subseteq badSymbols,
           rollbacks' \in [Files -> Nat], mutex' \in Threads \cup {None},
           \A u \in Threads \ {t} : mutex' = u <=> mutex = u,
           mutex' \in {t, None} => frames = <<>>,
           c.at # "build", c.at \in Holds <=> mutex' = t,
           c.at \in {"fast", "lock", "search", "answer"} => c.deferred = {},
           c.at \in {"answer", "validate", "judge"} => Truthful(c),
           c.at = "search" => Lookup(c) = None
    PROVE  Typed' /\ BuildInv' /\ CallsInv'
<1>1. BuildInv' /\ Committed' = Committed
  BY BuildStays
<1>2. UNCHANGED <<db, files, symbols, extensions, added, checkpoints, pending, frames>>
  BY DEF tables, build
<1>3. Typed'
  <2>1. calls' \in [Threads -> Seq(CallType)]
    BY BecomesPlain
  <2>2. badFiles' \subseteq Files /\ badSymbols' \subseteq Symbols
    BY DEF Typed
  <2> QED
    BY <1>2, <2>1, <2>2 DEF Typed
<1>4. Truthful(c)' <=> Truthful(c)
  BY <1>1 DEF Truthful, Pool!Defines
<1>5. Lookup(c)' = Lookup(c)
  BY <1>2 DEF Lookup
<1>6. c.at = "build" <=> mutex' = t /\ frames' # <<>>
  BY <1>2
<1>7. /\ \A u \in Threads \ {t} :
           /\ mutex' = u <=> mutex = u
           /\ mutex = u => UNCHANGED <<frames, files, symbols, extensions>>
      /\ mutex' = None => frames' = <<>>
      /\ Committed \subseteq Committed'
  BY <1>1, <1>2
<1>8. CallsInv'
  BY <1>4, <1>5, <1>6, <1>7, BecomesCalls
<1> QED
  BY <1>1, <1>3, <1>8

(* A call at a point where it does not hold mutex_, or does                 *)
LEMMA CallIsAt ==
    ASSUME Typed, CallsInv, NEW t \in Threads, NEW at, At(t, at), NEW call,
           call = Last(calls[t])
    PROVE  /\ calls[t] # <<>> /\ call \in CallType /\ call.at = at
           /\ CallInv(t, Len(calls[t])) /\ call = calls[t][Len(calls[t])]
           /\ Len(calls[t]) \in DOMAIN calls[t] /\ Len(calls[t]) \in Nat
           /\ RequestOf(call) \in Requests
           /\ mutex = t <=> at \in Holds
           /\ at \in Holds \ {"build"} => frames = <<>>
<1>1. calls[t] # <<>> /\ call.at = at
  BY DEF At
<1>2. /\ call \in CallType /\ call = calls[t][Len(calls[t])]
      /\ CallInv(t, Len(calls[t])) /\ Len(calls[t]) \in DOMAIN calls[t]
      /\ Len(calls[t]) \in Nat
  BY <1>1, LastCall
<1>3. mutex = t <=> at \in Holds
  BY <1>1, <1>2 DEF CallInv, CallsInv
<1> QED
  BY <1>1, <1>2, <1>3 DEF CallInv

LEMMA FastPathStep ==
    ASSUME Typed, BuildInv, CallsInv, NEW t \in Threads, FastPath(t)
    PROVE  Typed' /\ BuildInv' /\ CallsInv'
<1>1. PICK call : call = Last(calls[t])
  OBVIOUS
<1>2. /\ At(t, "fast") /\ mutex = None
      /\ \/ Lookup(call) # None /\ Goes(t, "answer", Lookup(call))
         \/ Goes(t, "lock", None)
      /\ UNCHANGED <<db, tables, known, build, mutex, left, answer, validated, rollbacks>>
  BY <1>1 DEF FastPath
<1>3. /\ calls[t] # <<>> /\ call \in CallType /\ CallInv(t, Len(calls[t]))
      /\ RequestOf(call) \in Requests /\ call = calls[t][Len(calls[t])] /\ call.at = "fast"
  BY <1>1, <1>2, CallIsAt
<1>4. call.deferred = {} /\ frames = <<>>
  BY <1>2, <1>3 DEF CallInv, CallsInv
<1>5. /\ Lookup(call) \in Files \cup {None}
      /\ Lookup(call) # None =>
           Lookup(call) \in Committed /\ Pool!Defines(Lookup(call), RequestOf(call))
  BY <1>3, <1>4, LookupFinds
<1>6. PICK c : /\ Becomes(t, c) /\ c.deferred = {} /\ c.at \in {"answer", "lock"}
               /\ c.result = None \/ (c.result # None /\ c.result = Lookup(call))
  <2>1. CASE Lookup(call) # None /\ Goes(t, "answer", Lookup(call))
    <3>1. "answer" \in {"fast", "lock", "search", "build", "found", "lost", "answer",
                   "validate", "judge"}
      OBVIOUS
    <3>2. PICK x, at : x = Lookup(call) /\ at = "answer" /\ x \in Files \cup {None} /\ Goes(t, at, x)
      BY <1>1, <1>3, <1>4, <1>5, <2>1
    <3>3. \E c : /\ Becomes(t, c) /\ c.at = at /\ c.result = x
                 /\ c.deferred = Last(calls[t]).deferred
      BY ONLY Typed, t \in Threads, <1>3, <3>1, <3>2, GoesBecomes
    <3> QED
      BY <1>1, <1>2, <1>4, <2>1, <3>2, <3>3
  <2>2. CASE Goes(t, "lock", None)
    <3>1. "lock" \in {"fast", "lock", "search", "build", "found", "lost", "answer",
                   "validate", "judge"}
      OBVIOUS
    <3>2. PICK x, at : x = None /\ at = "lock" /\ x \in Files \cup {None} /\ Goes(t, at, x)
      BY <1>1, <1>3, <1>4, <2>2
    <3>3. \E c : /\ Becomes(t, c) /\ c.at = at /\ c.result = x
                 /\ c.deferred = Last(calls[t]).deferred
      BY ONLY Typed, t \in Threads, <1>3, <3>1, <3>2, GoesBecomes
    <3> QED
      BY <1>1, <1>2, <1>4, <2>2, <3>2, <3>3
  <2> QED
    BY <1>2, <2>1, <2>2
<1>7. Truthful(c)
  <2>1. RequestOf(c) = RequestOf(call)
    BY <1>1, <1>6 DEF Becomes
  <2> QED
    BY <1>5, <1>6, <2>1 DEF Truthful
<1>8. /\ badFiles' \subseteq badFiles /\ badSymbols' \subseteq badSymbols
      /\ rollbacks' \in [Files -> Nat] /\ mutex' \in Threads \cup {None}
      /\ mutex' = mutex /\ mutex' # t
  BY <1>2, NamesAssumption DEF known, Typed
<1>9. c.at # "build" /\ c.at \notin Holds /\ c.at # "search"
  BY <1>6 DEF Holds
<1> QED
  BY <1>2, <1>4, <1>6, <1>7, <1>8, <1>9, CallGoesOn

LEMMA LockAndFindStep ==
    ASSUME Typed, BuildInv, CallsInv, NEW t \in Threads, LockAndFind(t)
    PROVE  Typed' /\ BuildInv' /\ CallsInv'
<1>1. PICK call : call = Last(calls[t])
  OBVIOUS
<1>2. /\ At(t, "lock") /\ mutex = None
      /\ IF Lookup(call) # None
           THEN Goes(t, "answer", Lookup(call)) /\ mutex' = mutex
           ELSE Goes(t, "search", None) /\ mutex' = t
      /\ badFiles' = {} /\ badSymbols' = {}
      /\ rollbacks' = [f \in Files |-> 0]
      /\ UNCHANGED <<db, tables, build, left, answer, validated>>
  BY <1>1 DEF LockAndFind, ForgetKnownBad
<1>3. /\ calls[t] # <<>> /\ call \in CallType /\ CallInv(t, Len(calls[t]))
      /\ RequestOf(call) \in Requests /\ call = calls[t][Len(calls[t])] /\ call.at = "lock"
  BY <1>1, <1>2, CallIsAt
<1>4. call.deferred = {} /\ frames = <<>>
  BY <1>2, <1>3 DEF CallInv, CallsInv
<1>5. /\ Lookup(call) \in Files \cup {None}
      /\ Lookup(call) # None =>
           Lookup(call) \in Committed /\ Pool!Defines(Lookup(call), RequestOf(call))
  BY <1>3, <1>4, LookupFinds
<1>6. PICK c : /\ Becomes(t, c) /\ c.deferred = {}
               /\ \/ c.at = "answer" /\ c.result = Lookup(call) /\ mutex' = mutex
                  \/ c.at = "search" /\ mutex' = t /\ Lookup(call) = None
  <2>1. CASE Lookup(call) # None
    <3>1. "answer" \in {"fast", "lock", "search", "build", "found", "lost", "answer",
                   "validate", "judge"}
      OBVIOUS
    <3>2. PICK x, at : x = Lookup(call) /\ at = "answer" /\ x \in Files \cup {None} /\ Goes(t, at, x)
      BY <1>1, <1>2, <1>3, <1>4, <1>5, <2>1
    <3>3. \E c : /\ Becomes(t, c) /\ c.at = at /\ c.result = x
                 /\ c.deferred = Last(calls[t]).deferred
      BY ONLY Typed, t \in Threads, <1>3, <3>1, <3>2, GoesBecomes
    <3> QED
      BY <1>1, <1>2, <1>4, <2>1, <3>2, <3>3
  <2>2. CASE Lookup(call) = None
    <3>1. "search" \in {"fast", "lock", "search", "build", "found", "lost", "answer",
                   "validate", "judge"}
      OBVIOUS
    <3>2. PICK x, at : x = None /\ at = "search" /\ x \in Files \cup {None} /\ Goes(t, at, x)
      BY <1>1, <1>2, <1>3, <1>4, <2>2
    <3>3. \E c : /\ Becomes(t, c) /\ c.at = at /\ c.result = x
                 /\ c.deferred = Last(calls[t]).deferred
      BY ONLY Typed, t \in Threads, <1>3, <3>1, <3>2, GoesBecomes
    <3> QED
      BY <1>1, <1>2, <1>4, <2>2, <3>2, <3>3
  <2> QED
    BY <2>1, <2>2
<1>7. RequestOf(c) = RequestOf(call) /\ Lookup(c) = Lookup(call)
  <2>1. RequestOf(c) = RequestOf(call)
    BY <1>1, <1>6 DEF Becomes
  <2>2. c.op = call.op /\ c.key = call.key
    BY <2>1 DEF RequestOf
  <2> QED
    BY <2>1, <2>2 DEF Lookup
<1>8. /\ badFiles' \subseteq badFiles /\ badSymbols' \subseteq badSymbols
      /\ rollbacks' \in [Files -> Nat] /\ mutex' \in Threads \cup {None}
      /\ \A u \in Threads \ {t} : mutex' = u <=> mutex = u
  BY <1>2, <1>6, NamesAssumption
<1>9. c.at = "answer" => Truthful(c)
  BY <1>5, <1>6, <1>7 DEF Truthful
<1>10. /\ c.at # "build" /\ c.at \in Holds <=> mutex' = t
       /\ c.at \notin {"validate", "judge"}
       /\ c.at = "search" => Lookup(c) = None
  BY <1>2, <1>6, <1>7, NamesAssumption DEF Holds
<1> QED
  BY <1>2, <1>4, <1>6, <1>8, <1>9, <1>10, CallGoesOn

LEMMA UnlockStep ==
    ASSUME Typed, BuildInv, CallsInv, NEW t \in Threads, Unlock(t)
    PROVE  /\ Typed' /\ BuildInv' /\ CallsInv'
           /\ mutex = t /\ frames = <<>>
           /\ \E c : Becomes(t, c) /\ c.deferred = Last(calls[t]).deferred
<1>1. PICK call, at : call = Last(calls[t]) /\ at = call.at
  OBVIOUS
<1>2. PICK to, x : to = (IF call.deferred = {} THEN "answer" ELSE "validate")
                   /\ x = IF call.at = "found" THEN Lookup(call) ELSE None
  OBVIOUS
<1>3. /\ At(t, at) /\ at \in {"found", "lost"} /\ Goes(t, to, x) /\ mutex' = None
      /\ UNCHANGED <<db, tables, known, build, left, answer, validated, rollbacks>>
  BY <1>1, <1>2 DEF Unlock, At
<1>4. /\ calls[t] # <<>> /\ call \in CallType /\ RequestOf(call) \in Requests
      /\ mutex = t /\ frames = <<>>
  <2>1. at \in Holds \ {"build"}
    BY <1>3 DEF Holds
  <2> QED
    BY <1>1, <1>3, <2>1, CallIsAt
<1>5. /\ x \in Files \cup {None}
      /\ x # None => x \in Committed /\ Pool!Defines(x, RequestOf(call))
  BY <1>2, <1>4, LookupFinds
<1>6. PICK c : Becomes(t, c) /\ c.at = to /\ c.result = x /\ c.deferred = call.deferred
  <2>1. to \in {"fast", "lock", "search", "build", "found", "lost", "answer",
                "validate", "judge"}
    BY <1>2
  <2>2. \E c : /\ Becomes(t, c) /\ c.at = to /\ c.result = x
               /\ c.deferred = Last(calls[t]).deferred
    BY ONLY Typed, t \in Threads, <1>3, <1>4, <1>5, <2>1, GoesBecomes
  <2> QED
    BY <1>1, <2>2
<1>7. Truthful(c)
  <2>1. RequestOf(c) = RequestOf(call)
    BY <1>1, <1>6 DEF Becomes
  <2> QED
    BY <1>5, <1>6, <2>1 DEF Truthful
<1>8. /\ badFiles' \subseteq badFiles /\ badSymbols' \subseteq badSymbols
      /\ rollbacks' \in [Files -> Nat] /\ mutex' \in Threads \cup {None}
      /\ mutex' # t /\ \A u \in Threads \ {t} : mutex' = u <=> mutex = u
  BY <1>3, <1>4, NamesAssumption DEF known, Typed
<1>9. /\ c.at # "build" /\ c.at \notin Holds /\ c.at # "search"
      /\ c.at \in {"fast", "lock", "search", "answer"} => c.deferred = {}
  BY <1>2, <1>6 DEF Holds
<1>10. Typed' /\ BuildInv' /\ CallsInv'
  BY <1>3, <1>4, <1>6, <1>7, <1>8, <1>9, CallGoesOn
<1> QED
  BY <1>1, <1>4, <1>6, <1>10

LEMMA JudgeStep ==
    ASSUME Typed, BuildInv, CallsInv, NEW t \in Threads, Judge(t)
    PROVE  /\ Typed' /\ BuildInv' /\ CallsInv' /\ mutex # t
           /\ \E c : Becomes(t, c) /\ c.deferred = {}
<1>1. PICK call, bad, c :
        /\ call = Last(calls[t])
        /\ bad = (\E f \in call.deferred : ProtoOf(f).features = "expired")
        /\ c = [call EXCEPT !.at = "answer", !.deferred = {},
                            !.result = IF bad THEN None ELSE @]
  OBVIOUS
<1>2. /\ At(t, "judge")
      /\ calls' = [calls EXCEPT ![t] = Replace(@,
              [call EXCEPT !.at = "answer", !.deferred = {},
                           !.result = IF bad THEN None ELSE @])]
      /\ UNCHANGED <<db, tables, known, build, mutex, left, answer, rollbacks>>
  BY <1>1 DEF Judge
<1>3. /\ calls[t] # <<>> /\ call \in CallType /\ CallInv(t, Len(calls[t]))
      /\ call.at = "judge" /\ call = calls[t][Len(calls[t])] /\ mutex # t
  <2>1. "judge" \notin Holds
    BY DEF Holds
  <2> QED
    BY <1>1, <1>2, <2>1, CallIsAt
<1>4. Truthful(call)
  BY <1>3 DEF CallInv
<1>5. /\ c \in CallType /\ c.at = "answer" /\ c.deferred = {}
      /\ c.result \in {None, call.result} /\ c.op = call.op /\ c.key = call.key
  BY <1>1, <1>3 DEF CallType
<1>6. RequestOf(c) = RequestOf(call)
  BY <1>5 DEF RequestOf
<1>7. Becomes(t, c)
  <2>1. calls' = [calls EXCEPT ![t] = Replace(@, c)]
    BY <1>1, <1>2
  <2> QED
    BY <1>1, <1>3, <1>5, <1>6, <2>1 DEF Becomes
<1>8. Truthful(c)
  BY <1>4, <1>5, <1>6 DEF Truthful
<1>9. /\ badFiles' \subseteq badFiles /\ badSymbols' \subseteq badSymbols
      /\ rollbacks' \in [Files -> Nat] /\ mutex' \in Threads \cup {None}
      /\ mutex' # t /\ \A u \in Threads \ {t} : mutex' = u <=> mutex = u
      /\ mutex' \in {t, None} => frames = <<>>
  BY <1>2, <1>3 DEF known, Typed, CallsInv
<1>10. c.at # "build" /\ c.at \notin Holds /\ c.at # "search"
  BY <1>5 DEF Holds
<1>11. Typed' /\ BuildInv' /\ CallsInv'
  BY <1>2, <1>5, <1>7, <1>8, <1>9, <1>10, CallGoesOn
<1> QED
  BY <1>3, <1>5, <1>7, <1>11

LEMMA SearchStep ==
    ASSUME Typed, BuildInv, CallsInv, NEW t \in Threads, Search(t)
    PROVE  /\ Typed' /\ BuildInv' /\ CallsInv'
           /\ Committed' = Committed
           /\ \E c : Becomes(t, c) /\ c.deferred = {} /\ c.at \in {"lost", "build"}
<1>1. PICK call, at : call = Last(calls[t]) /\ at = IF frames' = <<>> THEN "lost" ELSE "build"
  OBVIOUS
<1>2. /\ At(t, "search") /\ Goes(t, at, None)
      /\ UNCHANGED <<db, tables, mutex, left, answer, validated, rollbacks>>
  BY <1>1 DEF Search
<1>3. mutex = t /\ frames = <<>> /\ (Seeks(<<>>) \/ \E f : Begins(f))
  BY SearchFinds
<1>4. /\ BuildInv' /\ frames' \in Seq(FrameType) /\ pending' \in Seq(Files)
      /\ badFiles' \subseteq Files /\ badSymbols' \subseteq Symbols
  <2>1. CASE Seeks(<<>>)
    BY <2>1, SeeksBuilds, SeeksTypes DEF Seeks
  <2>2. CASE \E f : Begins(f)
    BY <2>2, BeginsBuilds DEF Begins, Typed, known
  <2> QED
    BY <1>3, <2>1, <2>2
<1>5. /\ calls[t] # <<>> /\ call \in CallType /\ CallInv(t, Len(calls[t]))
      /\ call.at = "search" /\ call = calls[t][Len(calls[t])]
  BY <1>1, <1>2, CallIsAt
<1>6. call.deferred = {}
  BY <1>5 DEF CallInv
<1>7. PICK c : Becomes(t, c) /\ c.at = at /\ c.deferred = {}
  <2>1. at \in {"fast", "lock", "search", "build", "found", "lost", "answer",
                "validate", "judge"}
    BY <1>1
  <2>2. \E c : /\ Becomes(t, c) /\ c.at = at /\ c.result = None
               /\ c.deferred = Last(calls[t]).deferred
    <3>1. None \in Files \cup {None}
      OBVIOUS
    <3>2. PICK x : x = None
      OBVIOUS
    <3>3. x \in Files \cup {None} /\ Goes(t, at, x)
      BY <1>2, <3>1, <3>2
    <3>4. \E c : /\ Becomes(t, c) /\ c.at = at /\ c.result = x
                 /\ c.deferred = Last(calls[t]).deferred
      BY ONLY Typed, t \in Threads, <1>5, <2>1, <3>3, GoesBecomes
    <3> QED
      BY <3>2, <3>4
  <2> QED
    BY <1>1, <1>6, <2>2
<1>8. UNCHANGED <<files, symbols, extensions, added, checkpoints>>
  BY <1>2 DEF tables
<1>9. Committed' = Committed
  BY <1>8 DEF Committed, Uncommitted
<1>10. Typed'
  <2>1. calls' \in [Threads -> Seq(CallType)]
    BY <1>7, BecomesPlain
  <2> QED
    BY <1>2, <1>4, <1>8, <2>1 DEF Typed
<1>11. CallsInv'
  <2>1. at \in Holds /\ (at = "build" <=> frames' # <<>>) /\ at \in {"lost", "build"}
    BY <1>1 DEF Holds
  <2>2. mutex' = t /\ mutex' # None
    BY <1>2, <1>3, NamesAssumption
  <2>3. \A u \in Threads \ {t} : /\ mutex' = u <=> mutex = u
                                 /\ mutex = u => UNCHANGED <<frames, files, symbols, extensions>>
    BY <1>2, <1>3
  <2>4. c.at \notin {"fast", "lock", "search", "answer", "validate", "judge"}
    BY <1>7, <2>1
  <2> QED
    BY <1>2, <1>7, <1>9, <2>1, <2>2, <2>3, <2>4, BecomesCalls
<1> QED
  BY <1>1, <1>4, <1>7, <1>9, <1>10, <1>11

LEMMA NewCallFits ==
    ASSUME Typed, NEW r \in Requests, r.op = "build" => ~db.backed
    PROVE  /\ NewCall(r) \in CallType /\ RequestOf(NewCall(r)) = r
           /\ NewCall(r).at \in {"fast", "lock"} /\ NewCall(r).deferred = {}
           /\ NewCall(r).op = "build" => ~db.backed
<1>1. PICK op, key : op = r.op /\ key = r.key
  OBVIOUS
<1>2. /\ op \in {"file", "build", "symbol", "container", "extension"}
      /\ key \in Keys /\ r = [op |-> op, key |-> key]
  BY <1>1 DEF Requests, Keys
<1>3. PICK at : at = IF db.backed /\ r.op \in {"symbol", "extension"} THEN "fast" ELSE "lock"
  OBVIOUS
<1>4. NewCall(r) = [op |-> op, key |-> key, deferred |-> {}, result |-> None, at |-> at]
  BY <1>1, <1>3 DEF NewCall
<1>5. at \in {"fast", "lock"}
  BY <1>3
<1>6. NewCall(r) \in CallType
  BY <1>2, <1>4, <1>5 DEF CallType
<1>7. /\ NewCall(r).op = op /\ NewCall(r).key = key /\ NewCall(r).at = at
      /\ NewCall(r).deferred = {}
  BY <1>4
<1>8. RequestOf(NewCall(r)) = r
  BY <1>2, <1>7 DEF RequestOf
<1> QED
  BY <1>1, <1>5, <1>6, <1>7, <1>8

(* Steps in which a thread that does not hold mutex_ makes a call or returns *)
LEMMA CallsOfOne ==
    ASSUME Typed, BuildInv, CallsInv, NEW t \in Threads, mutex # t,
           UNCHANGED <<db, tables, known, build, mutex, rollbacks>>,
           left' \in [Threads -> 0 .. MaxCalls], answer' = [u \in Threads |-> answer'[u]],
           NEW cs, cs \in Seq(CallType), calls' = [calls EXCEPT ![t] = cs],
           \A u \in Threads \ {t} : answer'[u] = answer[u],
           \A i \in DOMAIN cs : CallInv(t, i)',
           cs # <<>> => answer'[t] = NoAnswer
    PROVE  Typed' /\ BuildInv' /\ CallsInv' /\ Committed' = Committed
<1>1. BuildInv' /\ Committed' = Committed
  BY BuildStays
<1>2. /\ calls' \in [Threads -> Seq(CallType)] /\ calls'[t] = cs
      /\ \A u \in Threads \ {t} : calls'[u] = calls[u]
  BY DEF Typed
<1>3. UNCHANGED <<db, files, symbols, extensions, added, checkpoints, pending, frames, mutex,
                  badFiles, badSymbols, rollbacks>>
  BY DEF tables, build, known
<1>4. Typed'
  BY <1>2, <1>3 DEF Typed
<1>5. ASSUME NEW u \in Threads
      PROVE  /\ \A i \in DOMAIN calls'[u] : CallInv(u, i)'
             /\ calls'[u] # <<>> => answer'[u] = NoAnswer
             /\ mutex' = u => calls'[u] # <<>> /\ Last(calls'[u]).at \in Holds
  <2>1. CASE u = t
    BY <1>2, <1>3, <2>1
  <2>2. CASE u # t
    <3>1. calls'[u] = calls[u] /\ answer'[u] = answer[u]
      BY <1>2, <2>2
    <3>2. ASSUME NEW i \in DOMAIN calls[u] PROVE CallInv(u, i)'
      BY <1>1, <1>3, <3>1, QuietCall
    <3> QED
      BY <1>3, <3>1, <3>2 DEF CallsInv
  <2> QED
    BY <2>1, <2>2
<1>6. NoAnswer' = NoAnswer
  BY DEF NoAnswer
<1>7. CallsInv'
  BY <1>3, <1>5, <1>6 DEF CallsInv
<1> QED
  BY <1>1, <1>4, <1>7

LEMMA CallStep ==
    ASSUME Typed, BuildInv, CallsInv, NEW t \in Threads, NEW r \in Questions, Call(t, r)
    PROVE  /\ Typed' /\ BuildInv' /\ CallsInv' /\ Committed' = Committed /\ mutex # t
           /\ calls' = [calls EXCEPT ![t] = <<NewCall(r)>>] /\ NewCall(r).deferred = {}
<1>1. /\ calls[t] = <<>> /\ left[t] > 0
      /\ r.op = "build" => ~db.backed
      /\ calls' = [calls EXCEPT ![t] = <<NewCall(r)>>]
      /\ left' = [left EXCEPT ![t] = @ - 1]
      /\ answer' = [answer EXCEPT ![t] = NoAnswer]
      /\ UNCHANGED <<db, tables, known, build, mutex, validated, rollbacks>>
  BY DEF Call
<1>2. r \in Requests /\ mutex # t
  BY <1>1, NamesAssumption DEF CallsInv
<1>3. PICK c, cs : c = NewCall(r) /\ cs = <<c>>
  OBVIOUS
<1>4. /\ c \in CallType /\ RequestOf(c) = r /\ c.at \in {"fast", "lock"}
      /\ c.deferred = {} /\ (c.op = "build" => ~db.backed)
  BY <1>1, <1>2, <1>3, NewCallFits
<1>5. cs \in Seq(CallType) /\ DOMAIN cs = {1} /\ cs[1] = c /\ Len(cs) = 1
  BY <1>3, <1>4
<1>6. left' \in [Threads -> 0 .. MaxCalls] /\ answer' = [u \in Threads |-> answer'[u]]
      /\ answer'[t] = NoAnswer /\ \A u \in Threads \ {t} : answer'[u] = answer[u]
  <2>1. left \in [Threads -> 0 .. MaxCalls] /\ answer = [u \in Threads |-> answer[u]]
    BY DEF Typed
  <2>2. left[t] \in 0 .. MaxCalls /\ left[t] - 1 \in 0 .. MaxCalls
    BY <1>1, <2>1, NamesAssumption
  <2>3. left' \in [Threads -> 0 .. MaxCalls]
    BY <1>1, <2>1, <2>2
  <2> QED
    BY <1>1, <2>1, <2>3
<1>7. calls' = [calls EXCEPT ![t] = cs] /\ calls'[t] = cs
  BY <1>1, <1>3 DEF Typed
<1>8. CallInv(t, 1)'
  <2>1. /\ calls'[t][1] = c /\ Len(calls'[t]) = 1 /\ mutex' # t /\ db' = db
    BY <1>1, <1>2, <1>5, <1>7
  <2>2. c.at \notin Holds \cup {"build", "answer", "validate", "judge", "search"}
    BY <1>4 DEF Holds
  <2> QED
    BY <1>2, <1>4, <2>1, <2>2 DEF CallInv
<1>9. \A i \in DOMAIN cs : CallInv(t, i)'
  BY <1>5, <1>8
<1>10. Typed' /\ BuildInv' /\ CallsInv' /\ Committed' = Committed
  BY <1>1, <1>2, <1>5, <1>6, <1>7, <1>9, CallsOfOne
<1> QED
  BY <1>1, <1>2, <1>3, <1>4, <1>10

LEMMA ValidateStep ==
    ASSUME Typed, BuildInv, CallsInv, NEW t \in Threads, Validate(t)
    PROVE  /\ Typed' /\ BuildInv' /\ CallsInv' /\ Committed' = Committed /\ mutex # t
           /\ calls[t] # <<>>
           /\ \E cs \in Seq(CallType) :
                /\ calls' = [calls EXCEPT ![t] = cs] /\ Len(cs) = Len(calls[t]) + 1
                /\ \A i \in DOMAIN calls[t] : cs[i].deferred = calls[t][i].deferred
                /\ cs[Len(cs)].deferred = {}
<1>1. PICK call, q, c, d, s, n :
        /\ call = Last(calls[t]) /\ q = [op |-> "symbol", key |-> FeatureSet]
        /\ c = [call EXCEPT !.at = "judge"] /\ d = NewCall(q)
        /\ s = Replace(calls[t], c) /\ n = Len(calls[t])
  OBVIOUS
<1>2. PICK cs : cs = Append(s, d)
  OBVIOUS
<1>3. /\ At(t, "validate") /\ calls' = [calls EXCEPT ![t] = cs]
      /\ UNCHANGED <<db, tables, known, build, mutex, left, answer, validated, rollbacks>>
  <2>1. calls' = [calls EXCEPT ![t] =
             Append(Replace(@, [Last(@) EXCEPT !.at = "judge"]),
                    NewCall([op |-> "symbol", key |-> FeatureSet]))]
    BY DEF Validate
  <2>2. calls' = [calls EXCEPT ![t] = cs]
    BY <1>1, <1>2, <2>1 DEF Typed
  <2> QED
    BY <2>2 DEF Validate
<1>4. /\ calls[t] # <<>> /\ call \in CallType /\ CallInv(t, n) /\ call = calls[t][n]
      /\ n \in Nat /\ n \in DOMAIN calls[t] /\ mutex # t /\ calls[t] \in Seq(CallType)
      /\ call.at = "validate"
  <2>1. "validate" \notin Holds
    BY DEF Holds
  <2>2. calls[t] \in Seq(CallType)
    BY DEF Typed
  <2> QED
    BY <1>1, <1>3, <2>1, <2>2, CallIsAt
<1>5. q \in Requests /\ q.op # "build"
  BY <1>1, NamesAssumption DEF Requests
<1>6. /\ d \in CallType /\ RequestOf(d) = q /\ d.at \in {"fast", "lock"}
      /\ d.deferred = {} /\ (d.op = "build" => ~db.backed)
  BY <1>1, <1>5, NewCallFits
<1>7. /\ c \in CallType /\ c.at = "judge" /\ c.deferred = call.deferred
      /\ c.result = call.result /\ c.op = call.op /\ c.key = call.key
  BY <1>1, <1>4 DEF CallType
<1>8. /\ s \in Seq(CallType) /\ Len(s) = n /\ s[n] = c
      /\ \A i \in DOMAIN calls[t] : i # n => s[i] = calls[t][i]
  <2>1. PICK old : old = calls[t]
    OBVIOUS
  <2>2. s = [old EXCEPT ![n] = c] /\ n = Len(old)
    BY <1>1, <2>1 DEF Replace
  <2>3. old \in Seq(CallType) /\ n \in DOMAIN old /\ c \in CallType
    BY <1>4, <1>7, <2>1
  <2>4. /\ s \in Seq(CallType) /\ Len(s) = n /\ s[n] = c
        /\ \A i \in DOMAIN old : i # n => s[i] = old[i]
    BY ONLY <2>2, <2>3
  <2> QED
    BY <2>1, <2>4
<1>9. /\ cs \in Seq(CallType) /\ Len(cs) = n + 1 /\ cs[n + 1] = d /\ cs[n] = c
      /\ \A i \in DOMAIN calls[t] : i # n => cs[i] = calls[t][i]
      /\ DOMAIN cs = DOMAIN calls[t] \cup {n + 1}
      /\ \A i \in DOMAIN calls[t] : i \in Nat /\ i < n + 1 /\ (i # n => i < n)
  <2>1. DOMAIN calls[t] = 1 .. n
    BY <1>1, <1>4
  <2> QED
    BY <1>2, <1>4, <1>6, <1>8, <2>1
<1>10. calls'[t] = cs /\ Committed' = Committed /\ db' = db /\ mutex' # t
  BY <1>3, <1>4, BuildStays DEF Typed
<1>11. CallInv(t, n + 1)'
  <2>1. n + 1 # 1 /\ ~(n + 1 < n + 1)
    BY <1>4
  <2>2. d.at \notin Holds \cup {"build", "answer", "validate", "judge", "search"}
    BY <1>6 DEF Holds
  <2> QED
    BY <1>5, <1>6, <1>9, <1>10, <2>1, <2>2 DEF CallInv
<1>12. CallInv(t, n)'
  <2>1. Truthful(c)'
    <3>1. Truthful(call)
      BY <1>4 DEF CallInv
    <3>2. RequestOf(c) = RequestOf(call)
      BY <1>7 DEF RequestOf
    <3> QED
      BY <1>7, <1>10, <3>1, <3>2 DEF Truthful, Pool!Defines
  <2>2. RequestOf(c) \in Requests /\ (n = 1 => RequestOf(c) \in Questions)
        /\ (c.op = "build" => ~db.backed)
    <3>1. RequestOf(c) = RequestOf(call)
      BY <1>7 DEF RequestOf
    <3> QED
      BY <1>4, <1>7, <3>1 DEF CallInv
  <2>3. n # n + 1
    BY <1>4
  <2>4. c.at \notin Holds \cup {"build", "fast", "lock", "answer", "search"}
    BY <1>7 DEF Holds
  <2> QED
    BY <1>7, <1>9, <1>10, <2>1, <2>2, <2>3, <2>4 DEF CallInv
<1>13. ASSUME NEW i \in DOMAIN calls[t], i # n PROVE CallInv(t, i)'
  <2>1. CallInv(t, i) /\ i < n /\ i < n + 1
    BY <1>9, <1>13 DEF CallsInv
  <2>2. calls[t][i].at = "judge"
    BY <1>1, <2>1 DEF CallInv
  <2>3. calls'[t][i] = calls[t][i] /\ i < Len(calls'[t]) /\ Committed \subseteq Committed'
    BY <1>9, <1>10, <1>13, <2>1
  <2> QED
    BY <1>10, <2>1, <2>2, <2>3, WaitingCall
<1>14. \A i \in DOMAIN cs : CallInv(t, i)'
  BY <1>9, <1>11, <1>12, <1>13
<1>15. /\ left' \in [Threads -> 0 .. MaxCalls] /\ answer' = [u \in Threads |-> answer'[u]]
       /\ \A u \in Threads \ {t} : answer'[u] = answer[u]
       /\ answer'[t] = NoAnswer
  BY <1>3, <1>4 DEF Typed, CallsInv
<1>16. Typed' /\ BuildInv' /\ CallsInv'
  BY <1>3, <1>4, <1>9, <1>14, <1>15, CallsOfOne
<1>17. \A i \in DOMAIN calls[t] : cs[i].deferred = calls[t][i].deferred
  BY <1>4, <1>7, <1>9
<1> QED
  BY <1>1, <1>3, <1>4, <1>6, <1>9, <1>10, <1>16, <1>17

LEMMA AnswerStep ==
    ASSUME Typed, BuildInv, CallsInv, NEW t \in Threads, Answer(t)
    PROVE  /\ Typed' /\ BuildInv' /\ CallsInv' /\ Committed' = Committed /\ mutex # t
           /\ Len(calls[t]) \in DOMAIN calls[t] /\ calls[t][Len(calls[t])].deferred = {}
           /\ \E cs \in Seq(CallType) :
                /\ calls' = [calls EXCEPT ![t] = cs]
                /\ DOMAIN cs = DOMAIN calls[t] \ {Len(calls[t])}
                /\ \A i \in DOMAIN cs : cs[i] = calls[t][i]
<1>1. PICK call, cs, n : call = Last(calls[t]) /\ cs = Front(calls[t]) /\ n = Len(calls[t])
  OBVIOUS
<1>2. /\ At(t, "answer") /\ calls' = [calls EXCEPT ![t] = cs]
      /\ \E x : answer' = [answer EXCEPT ![t] = IF n > 1 THEN @ ELSE x]
      /\ UNCHANGED <<db, tables, known, build, mutex, left, validated, rollbacks>>
  <2>1. calls' = [calls EXCEPT ![t] = Front(@)]
    BY DEF Answer
  <2>2. calls' = [calls EXCEPT ![t] = cs]
    BY <1>1, <2>1 DEF Typed
  <2>3. PICK x : x = [request |-> [op |-> call.op, key |-> call.key], result |-> call.result]
    OBVIOUS
  <2>4. answer' = [answer EXCEPT ![t] = IF n > 1 THEN @ ELSE x]
    BY <1>1, <2>3 DEF Answer
  <2> QED
    BY <2>2, <2>4 DEF Answer
<1>3. /\ calls[t] # <<>> /\ call \in CallType /\ CallInv(t, n) /\ call = calls[t][n]
      /\ n \in Nat /\ n \in DOMAIN calls[t] /\ mutex # t /\ calls[t] \in Seq(CallType)
      /\ call.at = "answer"
  <2>1. "answer" \notin Holds
    BY DEF Holds
  <2>2. calls[t] \in Seq(CallType)
    BY DEF Typed
  <2> QED
    BY <1>1, <1>2, <2>1, <2>2, CallIsAt
<1>4. calls[t][n].deferred = {}
  BY <1>3 DEF CallInv
<1>5. /\ cs \in Seq(CallType) /\ Len(cs) = n - 1 /\ DOMAIN cs = DOMAIN calls[t] \ {n}
      /\ \A i \in DOMAIN cs : cs[i] = calls[t][i] /\ i < n /\ i \in DOMAIN calls[t]
                              /\ i \in Nat /\ i <= n - 1
  BY <1>1, <1>3 DEF Front
<1>6. calls'[t] = cs /\ Committed' = Committed /\ db' = db /\ mutex' # t
  BY <1>2, <1>3, BuildStays DEF Typed
<1>7. ASSUME NEW i \in DOMAIN cs PROVE CallInv(t, i)'
  <2>1. CallInv(t, i) /\ calls'[t][i] = calls[t][i] /\ i < n
    BY <1>5, <1>6 DEF CallsInv
  <2>2. calls[t][i].at = "judge"
    BY <1>1, <2>1 DEF CallInv
  <2>3. i < Len(calls'[t]) \/ (i = Len(calls'[t]) /\ mutex' # t)
    BY <1>3, <1>5, <1>6
  <2>4. Committed \subseteq Committed'
    BY <1>6
  <2> QED
    BY <1>6, <2>1, <2>2, <2>3, <2>4, WaitingCall
<1>8. /\ left' \in [Threads -> 0 .. MaxCalls] /\ answer' = [u \in Threads |-> answer'[u]]
      /\ \A u \in Threads \ {t} : answer'[u] = answer[u]
  BY <1>2 DEF Typed
<1>9. ASSUME cs # <<>> PROVE answer'[t] = NoAnswer
  <2>1. n > 1
    BY <1>3, <1>5, <1>9
  <2>2. answer'[t] = answer[t]
    BY <1>2, <2>1 DEF Typed
  <2> QED
    BY <1>3, <2>2 DEF CallsInv
<1>10. \A i \in DOMAIN cs : CallInv(t, i)'
  BY <1>7
<1>11. Typed' /\ BuildInv' /\ CallsInv'
  BY <1>2, <1>3, <1>5, <1>8, <1>9, <1>10, CallsOfOne
<1> QED
  BY <1>1, <1>2, <1>3, <1>4, <1>5, <1>6, <1>11

-----------------------------------------------------------------------------
(* The part of the invariant that stands by itself                          *)

LEMMA CoreInit ==
    ASSUME Init
    PROVE  Core
<1>1. /\ db \in Databases /\ files = {} /\ added = <<>> /\ checkpoints = <<>>
      /\ symbols = [s \in Symbols |-> None] /\ extensions = [n \in Numbers |-> None]
      /\ pending = <<>> /\ badFiles = {} /\ badSymbols = {} /\ frames = <<>>
      /\ mutex = None /\ calls = [t \in Threads |-> <<>>]
      /\ left = [t \in Threads |-> MaxCalls] /\ answer = [t \in Threads |-> NoAnswer]
      /\ rollbacks = [f \in Files |-> 0]
  BY DEF Init
<1>2. Typed
  <2>1. /\ added \in Seq(EntryType) /\ checkpoints \in Seq(Nat) /\ pending \in Seq(Files)
        /\ frames \in Seq(FrameType) /\ calls \in [Threads -> Seq(CallType)]
    BY <1>1
  <2>2. left \in [Threads -> 0 .. MaxCalls] /\ answer = [t \in Threads |-> answer[t]]
        /\ rollbacks \in [Files -> Nat]
    BY <1>1, NamesAssumption
  <2> QED
    BY <1>1, <2>1, <2>2 DEF Typed
<1>3. /\ DOMAIN frames = {} /\ DOMAIN checkpoints = {} /\ Len(added) = 0 /\ Len(pending) = 0
      /\ Len(frames) = 0 /\ Len(checkpoints) = 0
  BY <1>1
<1>4. Loading = {} /\ Started = {} /\ Cuts = {0}
  BY <1>3 DEF Loading, Started, Cuts, ToSet
<1>5. FrameInv /\ OwnInv
  BY <1>3, <1>4 DEF FrameInv, OwnInv
<1>6. StackInv /\ PendingInv
  BY <1>1, <1>3, <1>4, FS_EmptySet DEF StackInv, PendingInv
<1>7. ASSUME NEW c \in Cuts PROVE CutInv(c)
  <2>1. FilesAt(c) = {} /\ Faulty = {}
    BY <1>1, <1>4 DEF FilesAt, Faulty
  <2>2. /\ \A s \in Symbols : SymbolsAt(c)[s] = None
        /\ \A n \in Numbers : NumbersAt(c)[n] = None
    BY <1>1 DEF SymbolsAt, NumbersAt
  <2>3. Accounted(FilesAt(c), SymbolsAt(c), NumbersAt(c))
    BY <2>2 DEF Accounted
  <2>4. NoCircle(FilesAt(c) \ Faulty)
    BY <2>1 DEF NoCircle
  <2> QED
    BY <1>4, <2>1, <2>3, <2>4 DEF CutInv, TablesOK
<1>8. CallsInv
  <2>1. \A t \in Threads : calls[t] = <<>> /\ answer[t] = NoAnswer /\ mutex # t
    BY <1>1, NamesAssumption
  <2> QED
    BY <1>1, <2>1 DEF CallsInv
<1> QED
  BY <1>2, <1>5, <1>6, <1>7, <1>8 DEF Core, BuildInv, TablesInv

LEMMA CoreStep ==
    ASSUME Core, [Next]_vars
    PROVE  Core'
<1>1. Typed /\ BuildInv /\ CallsInv
  BY DEF Core
<1>2. CASE UNCHANGED vars
  <2>1. UNCHANGED <<db, tables, known, build, mutex, calls, left, answer, rollbacks>>
    BY <1>2 DEF vars
  <2>2. UNCHANGED <<db, files, symbols, extensions, added, checkpoints, pending, frames,
                    badFiles, badSymbols, mutex, calls, left, answer, rollbacks>>
    BY <2>1 DEF tables, known, build
  <2>3. BuildInv' /\ Committed' = Committed
    BY <1>1, <2>1, BuildStays
  <2>4. Typed'
    BY <1>1, <2>2 DEF Typed
  <2>5. NoAnswer' = NoAnswer
    BY DEF NoAnswer
  <2>6. ASSUME NEW t \in Threads, NEW i \in DOMAIN calls[t] PROVE CallInv(t, i)'
    BY <1>1, <2>2, <2>3, QuietCall
  <2>7. CallsInv'
    BY <1>1, <2>2, <2>5, <2>6 DEF CallsInv
  <2> QED
    BY <2>3, <2>4, <2>7 DEF Core
<1>3. ASSUME NEW t \in Threads, Step(t) PROVE Core'
  <2>1. CASE FastPath(t)
    BY <1>1, <2>1, FastPathStep DEF Core
  <2>2. CASE LockAndFind(t)
    BY <1>1, <2>2, LockAndFindStep DEF Core
  <2>3. CASE Search(t)
    BY <1>1, <2>3, SearchStep DEF Core
  <2>4. CASE Unlock(t)
    BY <1>1, <2>4, UnlockStep DEF Core
  <2>5. CASE Validate(t)
    BY <1>1, <2>5, ValidateStep DEF Core
  <2>6. CASE Judge(t)
    BY <1>1, <2>6, JudgeStep DEF Core
  <2>7. CASE Answer(t)
    BY <1>1, <2>7, AnswerStep DEF Core
  <2>8. CASE \/ LoadImport(t) \/ AddFile(t) \/ AskForType(t) \/ CrossLinkField(t)
             \/ Succeed(t) \/ Fail(t)
    <3>1. Typed' /\ BuildInv'
      BY <1>1, <2>8, BuildersStep
    <3>2. CallsInv'
      BY <1>1, <2>8, <3>1, BuildersCalls
    <3> QED
      BY <3>1, <3>2 DEF Core
  <2> QED
    BY <1>3, <2>1, <2>2, <2>3, <2>4, <2>5, <2>6, <2>7, <2>8 DEF Step
<1>4. ASSUME NEW t \in Threads, NEW r \in Questions, Call(t, r) PROVE Core'
  BY <1>1, <1>4, CallStep DEF Core
<1> QED
  BY <1>2, <1>3, <1>4 DEF Next

(* The core of the invariant holds: the tables could be cut at every         *)
(* checkpoint, the builders stand where the lists say, and the calls are at  *)
(* the points where they may hold mutex_.                                    *)
THEOREM CoreHolds == Spec => []Core
<1>1. Init => Core
  BY CoreInit
<1>2. Core /\ [Next]_vars => Core'
  BY CoreStep
<1> QED
  BY <1>1, <1>2, PTL DEF Spec

(* The types and the discipline of the stacks: whoever holds mutex_, each   *)
(* builder that loads imports has its file on the list of pending files at  *)
(* its place, each later one has a checkpoint, and none is left over when   *)
(* mutex_ is free.                                                          *)
THEOREM TypeCorrect == Spec => []TypeOK
<1>1. Core => TypeOK
  <2> SUFFICES ASSUME Core PROVE TypeOK
    OBVIOUS
  <2>1. Typed /\ BuildInv /\ CallsInv
    BY DEF Core
  <2>2. ASSUME NEW i \in DOMAIN frames PROVE FrameOK(i)
    <3>1. frames[i] \in FrameType /\ FrameFits(frames[i])
      BY <2>1, Stages DEF BuildInv, FrameInv
    <3>2. TablesOK(files, symbols, extensions, Len(added))
      BY <2>1, AtTheEnd DEF BuildInv, TablesInv, CutInv, Cuts
    <3>3. CASE i \in Loading
      <4>1. frames[i].visible = {}
        BY <3>1, <3>3 DEF FrameFits, Loading
      <4> QED
        BY <3>1, <3>3, <4>1 DEF FrameOK, FrameType, FrameFits, Loading
    <3>4. CASE i \in Started
      <4>1. Base(i) < Len(added) /\ BuilderIn(i, files, symbols, extensions, Len(added))
        BY <2>1, <3>2, <3>4, BuilderPlace DEF BuildInv, TablesOK
      <4>2. Base(i) <= Len(added)
        BY <2>1, <3>4, <4>1, BuilderPlace, Stages DEF BuildInv
      <4>3. frames[i].visible \subseteq files /\ frames[i].file \in files
        BY <4>1, <4>2 DEF BuilderIn
      <4>4. frames[i].phase # "imports"
        BY <2>1, <3>4, Stages
      <4> QED
        BY <3>1, <4>3, <4>4 DEF FrameOK, FrameType, FrameFits
    <3> QED
      BY <3>3, <3>4 DEF Started
  <2>3. \A i \in Loading : pending[Cardinality({j \in Loading : j <= i})] = pending[Rank(Loading, i)]
    BY DEF Rank
  <2>4. checkpoints = <<>> => added = <<>>
    BY <2>1 DEF BuildInv, StackInv
  <2> QED
    BY <2>1, <2>2, <2>3, <2>4 DEF TypeOK, Typed, BuildInv, StackInv, PendingInv, CallsInv
<1> QED
  BY <1>1, CoreHolds, PTL

(* What is in the tables as a rollback of everything would leave them       *)
LEMMA AtTheStart ==
    ASSUME Typed, BuildInv
    PROVE  /\ TablesOK(Committed, SymbolsAt(0), NumbersAt(0), 0)
           /\ Committed \cap Under = {} /\ Committed \subseteq Files
           /\ \A s \in Symbols : SymbolsAt(0)[s] # None => SymbolsAt(0)[s] = symbols[s]
           /\ \A n \in Numbers : NumbersAt(0)[n] # None => NumbersAt(0)[n] = extensions[n]
<1>1. 0 \in Cuts /\ Committed = FilesAt(0) /\ Committed \subseteq files
      /\ \A f \in Under : f \notin Committed
  BY CommittedCut
<1>2. CutInv(0)
  BY <1>1 DEF BuildInv, TablesInv
<1>3. Committed \cap Under = {} /\ Committed \subseteq Files
  BY <1>1 DEF Typed
<1> QED
  BY <1>1, <1>2, <1>3 DEF CutInv, SymbolsAt, NumbersAt

(* All traces of a file that failed are gone, and all of one that succeeded *)
(* are there: whoever looks finds files that are complete, with packages,   *)
(* symbols, imports, types and extension numbers.                           *)
THEOREM TablesAreWhole == Spec => []TablesWhole
<1>1. Core => TablesWhole
  <2> SUFFICES ASSUME Core PROVE TablesWhole
    OBVIOUS
  <2>1. Typed /\ BuildInv
    BY DEF Core
  <2>2. Accounted(files, symbols, extensions)
    BY <2>1, AtTheEnd DEF BuildInv, TablesInv, CutInv, Cuts, TablesOK
  <2>3. ASSUME NEW s \in Symbols, symbols[s] # None
        PROVE  /\ symbols[s] \in files
               /\ Pool!Defines(symbols[s], [op |-> "symbol", key |-> s])
    BY <2>2, <2>3 DEF Accounted, Pool!Defines, ProtoOf
  <2>4. ASSUME NEW n \in Numbers, extensions[n] # None
        PROVE  /\ extensions[n] \in files
               /\ Pool!Defines(extensions[n], [op |-> "extension", key |-> n])
    BY <2>2, <2>4 DEF Accounted, Pool!Defines, ProtoOf
  <2>5. ASSUME NEW f \in Committed, NEW p, p = ProtoOf(f)
        PROVE  /\ ToSet(p.imports) \subseteq Committed
               /\ \A s \in p.symbols : symbols[s] = f
               /\ p.package # None => symbols[p.package] \in Committed /\ IsPackage(p.package)
               /\ \A i \in DOMAIN p.links :
                    /\ \E s \in ToSet(p.links[i].scopes) :
                         symbols[s] \in Committed /\ ~IsPackage(s)
                    /\ p.links[i].number # None => extensions[p.links[i].number] \in Committed
    <3>1. PICK Sy, Nu : Sy = SymbolsAt(0) /\ Nu = NumbersAt(0)
      OBVIOUS
    <3>2. /\ TablesOK(Committed, Sy, Nu, 0)
          /\ Committed \cap Under = {} /\ Committed \subseteq Files
          /\ \A s \in Symbols : Sy[s] # None => Sy[s] = symbols[s]
          /\ \A n \in Numbers : Nu[n] # None => Nu[n] = extensions[n]
      BY <2>1, <3>1, AtTheStart
    <3>3. WholeIn(Committed, Sy, Nu, f, Len(p.links))
      BY <2>5, <3>2 DEF TablesOK
    <3>4. None \notin Committed /\ f # None /\ f \in Files
      BY <3>2, NamesAssumption
    <3>5. /\ p.symbols \subseteq Symbols /\ p.package \in Symbols \cup {None}
          /\ p.links \in Seq(Link)
      <4>1. p \in Proto
        BY <2>1, <2>5, <3>4, DatabaseAssumption DEF Typed, ProtoOf
      <4> QED
        BY <4>1 DEF Proto
    <3>6. \A s \in Symbols : Sy[s] # None => (NamesPackage(Sy, s) <=> IsPackage(s))
      BY <3>2 DEF NamesPackage, IsPackage
    <3>7. ToSet(p.imports) \subseteq Committed /\ \A s \in p.symbols : symbols[s] = f
      BY <2>5, <3>2, <3>3, <3>4, <3>5 DEF WholeIn
    <3>8. ASSUME p.package # None
          PROVE  symbols[p.package] \in Committed /\ IsPackage(p.package)
      <4>1. p.package \in Symbols /\ Sy[p.package] \in Committed /\ NamesPackage(Sy, p.package)
        BY <2>5, <3>3, <3>5, <3>8 DEF WholeIn
      <4> QED
        BY <3>2, <3>4, <3>6, <4>1
    <3>9. ASSUME NEW i \in DOMAIN p.links
          PROVE  /\ \E s \in ToSet(p.links[i].scopes) : symbols[s] \in Committed /\ ~IsPackage(s)
                 /\ p.links[i].number # None => extensions[p.links[i].number] \in Committed
      <4>1. PICK l : l = p.links[i]
        OBVIOUS
      <4>2. l \in Link /\ i \in 1 .. Len(p.links)
        BY <3>5, <4>1
      <4>3. /\ \E s \in ToSet(l.scopes) : Sy[s] \in Committed /\ ~NamesPackage(Sy, s)
            /\ l.number # None => Nu[l.number] \in Committed
        BY <2>5, <3>3, <4>1, <4>2 DEF WholeIn
      <4>4. ToSet(l.scopes) \subseteq Symbols /\ l.number \in Numbers \cup {None}
        <5>1. l.scopes \in Seq(Symbols) /\ l.number \in Numbers \cup {None}
          BY <4>2 DEF Link
        <5> QED
          BY <5>1 DEF ToSet
      <4>5. \E s \in ToSet(l.scopes) : symbols[s] \in Committed /\ ~IsPackage(s)
        BY <3>2, <3>4, <3>6, <4>3, <4>4
      <4>6. l.number # None => extensions[l.number] \in Committed
        BY <3>2, <3>4, <4>3, <4>4
      <4> QED
        BY <4>1, <4>5, <4>6
    <3> QED
      BY <3>7, <3>8, <3>9
  <2>6. ASSUME NEW s \in Symbols
        PROVE  symbols[s] # None =>
                 symbols[s] \in files /\ Pool!Defines(symbols[s], [op |-> "symbol", key |-> s])
    BY <2>3
  <2>7. ASSUME NEW n \in Numbers
        PROVE  extensions[n] # None =>
                 /\ extensions[n] \in files
                 /\ Pool!Defines(extensions[n], [op |-> "extension", key |-> n])
    BY <2>4
  <2> QED
    BY <2>5, <2>6, <2>7 DEF TablesWhole
<1> QED
  BY <1>1, CoreHolds, PTL

-----------------------------------------------------------------------------
(* The pool implements FilePool                                             *)

LEMMA CommittedIsWhole ==
    ASSUME Core
    PROVE  Pool!Whole(Committed) /\ Committed \subseteq Files
<1>1. PICK Sy, Nu, B : Sy = SymbolsAt(0) /\ Nu = NumbersAt(0) /\ B = Committed
  OBVIOUS
<1>2. TablesOK(B, Sy, Nu, 0) /\ B \cap Under = {} /\ B \subseteq Files
  BY <1>1, AtTheStart DEF Core
<1>3. \A f \in B : WholeIn(B, Sy, Nu, f, Len(ProtoOf(f).links))
  BY <1>2 DEF TablesOK
<1>4. Faulty \subseteq Under
  BY DEF Faulty, Under
<1>5. B \ Faulty = B
  BY <1>2, <1>4
<1>6. NoCircle(B)
  BY <1>2, <1>5 DEF TablesOK
<1>7. \A f : Pool!Imports(f) = ToSet(ProtoOf(f).imports)
  BY DEF Pool!Imports, Pool!ToSet, ToSet, ProtoOf
<1>8. /\ \A f \in B : Pool!Imports(f) \subseteq B
      /\ \A S \in (SUBSET B) \ {{}} : \E f \in S : Pool!Imports(f) \cap S = {}
  BY <1>3, <1>6, <1>7 DEF WholeIn, NoCircle
<1>9. \A f, g \in B : f # g => db.proto[f].symbols \cap db.proto[g].symbols = {}
  BY <1>3 DEF WholeIn, ProtoOf
<1>10. Pool!Whole(B)
  BY <1>8, <1>9 DEF Pool!Whole
<1> QED
  BY <1>1, <1>2, <1>10

WholePool == Pool!Whole(Committed) /\ Committed \subseteq Files

LEMMA PoolStep ==
    ASSUME Core, [Next]_vars, Core', WholePool'
    PROVE  [Pool!Next]_(Pool!vars)
<1>1. /\ Typed /\ BuildInv /\ CallsInv /\ Typed' /\ BuildInv' /\ CallsInv'
  BY DEF Core
<1>2. ASSUME Committed' = Committed, UNCHANGED <<db, answer>> PROVE UNCHANGED Pool!vars
  BY <1>2 DEF Pool!vars
<1>3. ASSUME NEW t \in Threads,
             \/ FastPath(t) \/ LockAndFind(t) \/ Search(t) \/ Unlock(t) \/ Validate(t)
             \/ Judge(t)
      PROVE  UNCHANGED Pool!vars
  BY <1>2, <1>3 DEF FastPath, LockAndFind, Search, Unlock, Validate, Judge, tables,
                    Committed, Uncommitted
<1>4. ASSUME NEW t \in Threads,
             LoadImport(t) \/ AddFile(t) \/ AskForType(t) \/ CrossLinkField(t) \/ Fail(t)
      PROVE  UNCHANGED Pool!vars
  <2>1. Committed' = Committed
    BY <1>1, <1>4, NothingCommitted
  <2> QED
    BY <1>2, <1>4, <2>1 DEF LoadImport, AddFile, AskForType, CrossLinkField, Fail
<1>5. ASSUME NEW t \in Threads, Succeed(t) PROVE [Pool!Next]_(Pool!vars)
  <2>1. Commits /\ UNCHANGED <<db, answer>>
    BY <1>1, <1>5, SucceedCommits DEF Succeed
  <2>2. Committed \subseteq Committed' /\ Committed' \subseteq Files
    BY <1>1, <1>5, CommittedGrows DEF WholePool
  <2>3. CASE Committed' = Committed
    BY <1>2, <2>1, <2>3
  <2>4. CASE Committed' # Committed
    <3>1. PICK F : F = Committed' \ Committed
      OBVIOUS
    <3>2. F \in (SUBSET (Files \ Committed)) \ {{}} /\ Committed' = Committed \cup F
      BY <2>2, <2>4, <3>1
    <3>3. Pool!Whole(Committed')
      BY <2>1 DEF WholePool, Pool!Whole, Pool!Imports
    <3>4. Pool!Load
      BY <2>1, <3>2, <3>3 DEF Pool!Load
    <3> QED
      BY <3>4 DEF Pool!Next
  <2> QED
    BY <2>3, <2>4
<1>6. ASSUME NEW t \in Threads, Answer(t) PROVE [Pool!Next]_(Pool!vars)
  <2>1. PICK call, n : call = Last(calls[t]) /\ n = Len(calls[t])
    OBVIOUS
  <2>2. Committed' = Committed /\ db' = db
    BY <1>6 DEF Answer, tables, Committed, Uncommitted
  <2>3. /\ At(t, "answer")
        /\ answer' = [answer EXCEPT ![t] =
             IF n > 1 THEN @
             ELSE [request |-> RequestOf(call), result |-> call.result]]
    BY <1>6, <2>1 DEF Answer, RequestOf
  <2>4. /\ calls[t] # <<>> /\ CallInv(t, n) /\ call = calls[t][n] /\ call.at = "answer"
        /\ n \in Nat /\ n \in DOMAIN calls[t]
    BY <1>1, <2>1, <2>3, CallIsAt
  <2>5. CASE n > 1
    <3>1. answer' = answer
      BY <1>1, <2>3, <2>5 DEF Typed
    <3> QED
      BY <1>2, <2>2, <3>1
  <2>6. CASE ~(n > 1)
    <3>1. n = 1
      <4>1. calls[t] \in Seq(CallType)
        BY <1>1 DEF Typed
      <4>2. n # 0
        BY <2>1, <2>4, <4>1
      <4> QED
        BY <2>4, <2>6, <4>2
    <3>2. PICK q, x : q = RequestOf(call) /\ x = call.result
      OBVIOUS
    <3>3. q \in Questions /\ (x = None \/ (x \in Committed /\ Pool!Defines(x, q)))
      BY <2>4, <3>1, <3>2 DEF CallInv, Truthful
    <3>4. x \in {None} \cup {g \in Committed : Pool!Defines(g, q)}
      BY <3>3
    <3>5. answer' = [answer EXCEPT ![t] = [request |-> q, result |-> x]]
      BY <2>3, <2>6, <3>2
    <3>6. answer[t] = NoAnswer
      BY <1>1, <2>4 DEF CallsInv
    <3>7. Pool!Reply(t, q)
      BY <2>2, <3>4, <3>5, <3>6 DEF Pool!Reply
    <3> QED
      BY <3>3, <3>7 DEF Pool!Next
  <2> QED
    BY <2>5, <2>6
<1>7. ASSUME NEW t \in Threads, NEW r \in Questions, Call(t, r)
      PROVE  [Pool!Next]_(Pool!vars)
  <2>1. Committed' = Committed /\ db' = db
    BY <1>7 DEF Call, tables, Committed, Uncommitted
  <2>2. answer' = [answer EXCEPT ![t] = NoAnswer]
    BY <1>7 DEF Call
  <2>3. Pool!Ask(t)
    BY <2>1, <2>2 DEF Pool!Ask
  <2> QED
    BY <2>3 DEF Pool!Next
<1>8. CASE UNCHANGED vars
  BY <1>2, <1>8 DEF vars, tables, Committed, Uncommitted
<1>9. ASSUME NEW t \in Threads, Step(t) PROVE [Pool!Next]_(Pool!vars)
  BY <1>3, <1>4, <1>5, <1>6, <1>9 DEF Step
<1> QED
  BY <1>7, <1>8, <1>9 DEF Next

(* Seen from outside, the pool is a set of whole files that grows only when *)
(* the last builder ends, and its answers are files of that set.            *)
THEOREM ImplementsPool == Spec => ImplementsFilePool
<1>1. Init => Pool!Init
  <2> SUFFICES ASSUME Init PROVE Pool!Init
    OBVIOUS
  <2>1. files = {} /\ answer = [t \in Threads |-> NoAnswer]
    BY DEF Init
  <2>2. Committed = {}
    BY <2>1 DEF Committed
  <2> QED
    BY <2>1, <2>2 DEF Pool!Init
<1>2. Core => WholePool
  BY CommittedIsWhole DEF WholePool
<1>3. Core /\ [Next]_vars /\ Core' /\ WholePool' => [Pool!Next]_(Pool!vars)
  BY PoolStep
<1>4. Spec => Pool!Spec
  BY <1>1, <1>2, <1>3, CoreHolds, PTL DEF Spec, Pool!Spec
<1> QED
  BY <1>4 DEF ImplementsFilePool

-----------------------------------------------------------------------------
(* No file is built again after it has failed                               *)

LEMMA SeeksFrames ==
    ASSUME Typed, BuildInv, NEW stack, Seeks(stack)
    PROVE  /\ Under' = Under
           /\ \A i \in DOMAIN frames' :
                \/ i \in DOMAIN frames /\ frames'[i].file = frames[i].file
                \/ db.backed /\ frames'[i].file \notin badFiles
<1>1. PICK n : n = Len(frames)
  OBVIOUS
<1>2. /\ n \in Nat /\ DOMAIN frames = 1 .. n /\ stack \in Seq(FrameType) /\ Len(stack) = n
      /\ \A i \in 1 .. n : stack[i].file = frames[i].file /\ stack[i].phase = frames[i].phase
      /\ UNCHANGED <<files, added, checkpoints>>
  BY <1>1, Stages DEF Seeks, Turned, tables
<1>3. /\ n + 1 \notin 1 .. n /\ 1 .. n + 1 = (1 .. n) \cup {n + 1}
      /\ Started \subseteq 1 .. n /\ Started = {i \in 1 .. n : frames[i].phase # "imports"}
  BY <1>2 DEF Started, Loading
<1>4. /\ Started' = Started
      /\ \A i \in DOMAIN frames' :
           \/ i \in DOMAIN frames /\ frames'[i].file = frames[i].file
           \/ db.backed /\ frames'[i].file \notin badFiles
  <2>1. CASE frames' = stack
    <3>1. DOMAIN frames' = 1 .. n
      BY <1>2, <2>1
    <3>2. Started' = {i \in 1 .. n : frames'[i].phase # "imports"}
      BY <3>1 DEF Started, Loading
    <3> QED
      BY <1>2, <1>3, <2>1, <3>1, <3>2
  <2>2. CASE \E f \in Files, cause \in {"file", "symbol", "extension"}, key \in Keys :
               Starts(stack, f, cause, key)
    <3>1. PICK f \in Files, cause \in {"file", "symbol", "extension"}, key \in Keys :
            Starts(stack, f, cause, key)
      BY <2>2
    <3>2. PICK fr : fr = NewFrame(f, cause, key)
      OBVIOUS
    <3>3. /\ fr.file = f /\ fr.phase = "imports" /\ frames' = Append(stack, fr)
          /\ db.backed /\ f \notin badFiles
      BY <3>1, <3>2 DEF NewFrame, Starts
    <3>4. /\ DOMAIN frames' = 1 .. n + 1 /\ frames'[n + 1] = fr
          /\ \A i \in 1 .. n : frames'[i] = stack[i]
      BY <1>2, <3>3
    <3>5. Started' = {i \in 1 .. n + 1 : frames'[i].phase # "imports"}
      BY <3>4 DEF Started, Loading
    <3>6. Started' = Started
      BY <1>2, <1>3, <3>3, <3>4, <3>5
    <3> QED
      BY <1>2, <1>3, <3>3, <3>4, <3>6
  <2> QED
    BY <2>1, <2>2 DEF Seeks
<1>5. \A i \in Started : Own(i)' = Own(i)
  BY <1>2, <1>4 DEF Own, Base, Rank
<1>6. Under' = Under
  BY <1>4, <1>5 DEF Under
<1> QED
  BY <1>4, <1>6

LEMMA FailStays ==
    ASSUME Typed, FailInv, UNCHANGED <<db, rollbacks>>, badFiles \subseteq badFiles',
           \A i \in DOMAIN frames' :
             \/ i \in DOMAIN frames /\ frames'[i].file = frames[i].file
             \/ db.backed /\ mutex # None /\ frames'[i].file \notin badFiles,
           mutex' # None => mutex' = mutex /\ Last(calls'[mutex']).at # "search"
    PROVE  FailInv'
<1> SUFFICES ASSUME NEW f \in Files, rollbacks[f] = 1
             PROVE  /\ \A i \in DOMAIN frames' : frames'[i].file # f
                    /\ mutex' # None => Last(calls'[mutex']).at # "search"
                                          /\ (db.backed => f \in badFiles')
  BY DEF FailInv
<1>1. /\ \A i \in DOMAIN frames : frames[i].file # f
      /\ mutex # None => (db.backed => f \in badFiles)
  BY DEF FailInv
<1> QED
  BY <1>1

LEMMA FailByBuilders ==
    ASSUME Core, Core', FailInv, NEW t \in Threads,
           \/ LoadImport(t) \/ AddFile(t) \/ AskForType(t) \/ CrossLinkField(t)
           \/ Succeed(t) \/ Fail(t)
    PROVE  FailInv'
<1>1. Typed /\ BuildInv /\ CallsInv /\ Typed'
  BY DEF Core
<1>2. /\ mutex = t /\ mutex' = t /\ db' = db /\ mutex # None
      /\ Last(calls'[t]).at # "search"
  <2>1. CASE LoadImport(t) \/ AddFile(t) \/ AskForType(t) \/ CrossLinkField(t)
    <3>1. mutex = t /\ frames # <<>> /\ UNCHANGED <<db, mutex, calls>>
      BY <1>1, <2>1, BuildersGoOn
    <3>2. calls[t] # <<>>
      BY <1>1, <3>1 DEF CallsInv
    <3>3. Last(calls[t]).at = "build"
      BY <1>1, <3>1, <3>2, LastCall DEF CallInv
    <3> QED
      BY <3>1, <3>3, NamesAssumption
  <2>2. CASE Succeed(t) \/ Fail(t)
    <3>1. PICK c : Becomes(t, c) /\ c.at \in {"build", "found", "lost"}
      BY <1>1, <2>2, EndingReturns
    <3>2. Last(calls'[t]) = c
      BY <1>1, <3>1, BecomesPlain
    <3>3. mutex = t
      BY <1>1, <2>2, EndingReturns
    <3> QED
      BY <2>2, <3>1, <3>2, <3>3, NamesAssumption DEF Succeed, Fail
  <2> QED
    BY <2>1, <2>2
<1>3. CASE LoadImport(t) \/ AskForType(t)
  <2>1. PICK stack : Seeks(stack)
    BY <1>1, <1>3, LoadImportSeeks, AskForTypeSeeks
  <2>2. \A i \in DOMAIN frames' : \/ i \in DOMAIN frames /\ frames'[i].file = frames[i].file
                                  \/ db.backed /\ frames'[i].file \notin badFiles
    BY <1>1, <2>1, SeeksFrames
  <2>3. badFiles \subseteq badFiles' /\ rollbacks' = rollbacks
    BY <1>3, <2>1 DEF Seeks, LoadImport, AskForType
  <2> QED
    BY <1>1, <1>2, <2>2, <2>3, FailStays
<1>4. CASE AddFile(t) \/ CrossLinkField(t)
  <2>1. PICK n : n = Len(frames)
    OBVIOUS
  <2>2. PICK x : frames' = [frames EXCEPT ![n] = x] /\ x.file = frames[n].file
    BY <1>1, <1>4, <2>1, AddFileEnters, CrossLinkFieldLinks DEF Enters, Links
  <2>3. \A i \in DOMAIN frames' : i \in DOMAIN frames /\ frames'[i].file = frames[i].file
    BY <2>2
  <2>4. badFiles' = badFiles /\ rollbacks' = rollbacks
    BY <1>4 DEF AddFile, CrossLinkField, known
  <2> QED
    BY <1>1, <1>2, <2>3, <2>4, FailStays
<1>5. ASSUME Pops PROVE \A i \in DOMAIN frames' : /\ i \in DOMAIN frames /\ i # Len(frames)
                                                  /\ frames'[i] = frames[i]
  BY <1>1, <1>5, PopStages
<1>6. CASE Succeed(t)
  <2>1. Pops
    BY <1>1, <1>6, SucceedCommits DEF Commits
  <2>2. badFiles' = badFiles /\ rollbacks' = rollbacks
    BY <1>6 DEF Succeed, known
  <2> QED
    BY <1>1, <1>2, <1>5, <2>1, <2>2, FailStays
<1>7. CASE Fail(t)
  <2>1. PICK n, f : n = Len(frames) /\ f = frames[n].file
    OBVIOUS
  <2>2. Pops /\ n \in DOMAIN frames
    <3>1. Ends(t)
      BY <1>7 DEF Fail
    <3> QED
      BY <1>1, <1>7, <2>1, <3>1, FailUndoes, EndsOnTop DEF Undoes
  <2>3. \A i \in DOMAIN frames' : i \in DOMAIN frames /\ i # n /\ frames'[i] = frames[i]
    BY <1>5, <2>1, <2>2
  <2>4. \A i \in DOMAIN frames' : frames'[i].file # f
    BY <1>1, <2>1, <2>2, <2>3 DEF BuildInv, StackInv
  <2>5. /\ badFiles \subseteq badFiles' /\ f \in Files
        /\ frames[n].cause # "build" => f \in badFiles'
        /\ rollbacks' = [rollbacks EXCEPT ![f] = @ + 1]
    BY <1>1, <1>7, <2>1, FailRemembers
  <2>6. db.backed => f \in badFiles'
    BY <1>1, <2>2, <2>5 DEF BuildInv, PendingInv
  <2>7. rollbacks[f] = 0 /\ rollbacks'[f] = 1
    <3>1. rollbacks[f] \in Nat /\ rollbacks[f] <= 1 /\ rollbacks[f] # 1
      BY <1>1, <2>1, <2>2, <2>5 DEF FailInv, Typed
    <3>2. rollbacks[f] = 0
      BY <3>1
    <3> QED
      BY <1>1, <2>5, <3>2 DEF Typed
  <2>8. ASSUME NEW g \in Files, g # f
        PROVE  /\ rollbacks'[g] = rollbacks[g] /\ rollbacks[g] <= 1
               /\ rollbacks[g] = 1 => /\ \A i \in DOMAIN frames' : frames'[i].file # g
                                      /\ db.backed => g \in badFiles'
    BY <1>1, <1>2, <2>3, <2>5, <2>8 DEF FailInv, Typed
  <2>9. ASSUME NEW g \in Files
        PROVE  /\ rollbacks'[g] <= 1
               /\ rollbacks'[g] = 1 => /\ \A i \in DOMAIN frames' : frames'[i].file # g
                                       /\ db.backed => g \in badFiles'
    <3>1. CASE g = f
      BY <2>4, <2>6, <2>7, <3>1
    <3>2. CASE g # f
      BY <2>8, <3>2
    <3> QED
      BY <3>1, <3>2
  <2> QED
    BY <1>2, <2>9 DEF FailInv
<1> QED
  BY <1>3, <1>4, <1>6, <1>7

LEMMA FailStep ==
    ASSUME Core, Core', FailInv, [Next]_vars
    PROVE  FailInv'
<1>1. Typed /\ BuildInv /\ CallsInv
  BY DEF Core
<1>2. ASSUME NEW t \in Threads, mutex' = mutex, mutex # t,
             UNCHANGED <<db, rollbacks, badFiles, frames>>,
             \A u \in Threads \ {t} : calls'[u] = calls[u]
      PROVE  FailInv'
  <2>1. mutex' # None => Last(calls'[mutex']) = Last(calls[mutex])
    BY <1>1, <1>2 DEF Typed
  <2> QED
    BY <1>2, <2>1 DEF FailInv
<1>3. ASSUME NEW t \in Threads, FastPath(t) \/ Validate(t) \/ Judge(t) \/ Answer(t)
      PROVE  FailInv'
  <2>1. mutex # t
    <3>1. CASE FastPath(t)
      BY <3>1, NamesAssumption DEF FastPath
    <3>2. CASE Validate(t)
      BY <1>1, <3>2, ValidateStep
    <3>3. CASE Judge(t)
      BY <1>1, <3>3, JudgeStep
    <3>4. CASE Answer(t)
      BY <1>1, <3>4, AnswerStep
    <3> QED
      BY <1>3, <3>1, <3>2, <3>3, <3>4
  <2>2. /\ mutex' = mutex /\ UNCHANGED <<db, rollbacks, badFiles, frames>>
        /\ \E cs : calls' = [calls EXCEPT ![t] = cs]
    BY <1>3 DEF FastPath, Goes, Validate, Judge, Answer, known, build
  <2>3. \A u \in Threads \ {t} : calls'[u] = calls[u]
    BY <1>1, <2>2 DEF Typed
  <2> QED
    BY <1>2, <2>1, <2>2, <2>3
<1>4. ASSUME NEW t \in Threads, LockAndFind(t) PROVE FailInv'
  <2>1. \A f \in Files : rollbacks'[f] = 0
    BY <1>4 DEF LockAndFind
  <2> QED
    BY <2>1 DEF FailInv
<1>5. ASSUME NEW t \in Threads, Search(t) PROVE FailInv'
  <2>1. Last(calls[t]).at = "search" /\ mutex = t /\ mutex # None /\ rollbacks' = rollbacks
    BY <1>1, <1>5, SearchFinds, NamesAssumption DEF Search, At
  <2>2. \A f \in Files : rollbacks[f] <= 1 /\ rollbacks[f] # 1
    BY <2>1 DEF FailInv
  <2> QED
    BY <2>1, <2>2 DEF FailInv
<1>6. ASSUME NEW t \in Threads, Unlock(t) PROVE FailInv'
  <2>1. mutex' = None /\ UNCHANGED <<rollbacks, frames>>
    BY <1>6 DEF Unlock, build
  <2> QED
    BY <2>1 DEF FailInv
<1>7. ASSUME NEW t \in Threads, NEW r \in Questions, Call(t, r) PROVE FailInv'
  <2>1. /\ mutex # t /\ mutex' = mutex /\ UNCHANGED <<db, rollbacks, badFiles, frames>>
        /\ calls' = [calls EXCEPT ![t] = <<NewCall(r)>>]
    BY <1>1, <1>7, CallStep DEF Call, known, build
  <2>2. \A u \in Threads \ {t} : calls'[u] = calls[u]
    BY <1>1, <2>1 DEF Typed
  <2> QED
    BY <1>2, <2>1, <2>2
<1>8. CASE UNCHANGED vars
  BY <1>8 DEF vars, known, build, FailInv
<1>9. ASSUME NEW t \in Threads, Step(t) PROVE FailInv'
  BY <1>3, <1>4, <1>5, <1>6, <1>9, FailByBuilders DEF Step
<1> QED
  BY <1>7, <1>8, <1>9 DEF Next

(* What is known as bad was begun in this call or is not in the database,   *)
(* since what is being built was begun in it.                               *)
FrameTried(fr, S) == fr.file \in S /\ (fr.cause = "file" => fr.key = fr.file)

TriedInv ==
  /\ badFiles \subseteq tried \cup (Files \ db.present)
  /\ db.backed => ToSet(pending) \subseteq tried
  /\ \A i \in DOMAIN frames : FrameTried(frames[i], tried)

(* A search begins what it adds, and refuses only what TriedInv allows.     *)
LEMMA SeeksTries ==
    ASSUME Typed, TriedInv, NEW stack, Seeks(stack)
    PROVE  TriedInv'
<1>1. /\ UNCHANGED db /\ stack \in Seq(FrameType) /\ pending \in Seq(Files)
      /\ badFiles' \subseteq Refusable
  BY DEF Seeks, Turned, Typed
<1>2. badFiles' \subseteq tried \cup (Files \ db.present)
  BY <1>1 DEF TriedInv, Refusable
<1>3. \A i \in DOMAIN stack : FrameTried(stack[i], tried)
  <2>1. \A i \in DOMAIN frames : /\ stack[i].file = frames[i].file
                                 /\ stack[i].cause = frames[i].cause
                                 /\ stack[i].key = frames[i].key
    BY DEF Seeks, Turned
  <2>2. DOMAIN stack = DOMAIN frames
    BY <1>1, Stages DEF Seeks, Turned
  <2> QED
    BY <2>1, <2>2 DEF TriedInv, FrameTried
<1>4. CASE frames' = stack /\ pending' = pending /\ tried' = tried
  BY <1>1, <1>2, <1>3, <1>4 DEF TriedInv, FrameTried
<1>5. CASE \E f \in Files, cause \in {"file", "symbol", "extension"}, key \in Keys :
             Starts(stack, f, cause, key)
  <2>1. PICK f \in Files, cause \in {"file", "symbol", "extension"}, key \in Keys :
          Starts(stack, f, cause, key)
    BY <1>5
  <2>2. PICK fr, S : fr = NewFrame(f, cause, key) /\ S = tried \cup {f}
    OBVIOUS
  <2>3. /\ fr.file = f /\ fr.cause = cause /\ fr.key = key /\ (cause = "file" => key = f)
        /\ frames' = Append(stack, fr) /\ pending' = Append(pending, f) /\ tried' = S
    BY <2>1, <2>2 DEF NewFrame, Starts
  <2>4. FrameTried(fr, S) /\ \A i \in DOMAIN stack : FrameTried(stack[i], S)
    BY <1>3, <2>2, <2>3 DEF FrameTried
  <2>5. \A i \in DOMAIN frames' : frames'[i] = fr \/ (i \in DOMAIN stack /\ frames'[i] = stack[i])
    BY <1>1, <2>3
  <2>6. ToSet(pending') \subseteq ToSet(pending) \cup {f}
    BY <1>1, <2>3 DEF ToSet
  <2>7. \A i \in DOMAIN frames' : FrameTried(frames'[i], S)
    BY <2>4, <2>5
  <2> QED
    BY <1>1, <1>2, <2>2, <2>3, <2>6, <2>7 DEF TriedInv, FrameTried
<1> QED
  BY <1>4, <1>5 DEF Seeks

(* A step that begins nothing, and keeps the builders it does not end       *)
LEMMA TriedStays ==
    ASSUME TriedInv, UNCHANGED <<db, tried>>,
           badFiles' \subseteq badFiles \cup tried, ToSet(pending') \subseteq ToSet(pending),
           \A i \in DOMAIN frames' :
             /\ i \in DOMAIN frames /\ frames'[i].file = frames[i].file
             /\ frames'[i].cause = frames[i].cause /\ frames'[i].key = frames[i].key
    PROVE  TriedInv'
<1>1. \A i \in DOMAIN frames' : FrameTried(frames'[i], tried)
  BY DEF TriedInv, FrameTried
<1> QED
  BY <1>1 DEF TriedInv, FrameTried

LEMMA TriedByBuilders ==
    ASSUME Core, TriedInv, NEW t \in Threads,
           \/ LoadImport(t) \/ AddFile(t) \/ AskForType(t) \/ CrossLinkField(t)
           \/ Succeed(t) \/ Fail(t)
    PROVE  TriedInv'
<1>1. Typed /\ BuildInv /\ CallsInv
  BY DEF Core
<1>2. CASE LoadImport(t) \/ AskForType(t)
  BY <1>1, <1>2, LoadImportSeeks, AskForTypeSeeks, SeeksTries
<1>3. CASE AddFile(t) \/ CrossLinkField(t)
  <2>1. PICK n : n = Len(frames)
    OBVIOUS
  <2>2. PICK x : /\ frames' = [frames EXCEPT ![n] = x] /\ x.file = frames[n].file
                 /\ x.cause = frames[n].cause /\ x.key = frames[n].key
    BY <1>1, <1>3, <2>1, AddFileEnters, CrossLinkFieldLinks DEF Enters, Links
  <2>3. pending' = Front(pending) \/ pending' = pending
    BY <1>3 DEF AddFile, CrossLinkField, ImportsLoaded
  <2>4. ToSet(pending') \subseteq ToSet(pending)
    <3>1. pending \in Seq(Files)
      BY <1>1 DEF Typed
    <3>2. PICK s, m : s = Front(pending) /\ m = Len(pending)
      OBVIOUS
    <3>3. m \in Nat /\ DOMAIN pending = 1 .. m
      BY <3>1, <3>2
    <3>4. ASSUME m # 0
          PROVE  \A i \in DOMAIN s : i \in DOMAIN pending /\ s[i] = pending[i]
      <4>1. m \in Nat \ {0}
        BY <3>3, <3>4
      <4>2. /\ DOMAIN Front(pending) = 1 .. m - 1
            /\ \A i \in 1 .. m - 1 : i \in 1 .. m /\ Front(pending)[i] = pending[i]
        BY ONLY <3>1, <3>2, <4>1, FrontOf
      <4> QED
        BY <3>2, <3>3, <4>2
    <3>5. m = 0 => DOMAIN s = {}
      BY <3>1, <3>2 DEF Front
    <3> QED
      BY <2>3, <3>2, <3>4, <3>5 DEF ToSet
  <2>5. UNCHANGED <<db, tried, badFiles>>
    BY <1>3 DEF AddFile, CrossLinkField, known
  <2> QED
    BY <2>2, <2>4, <2>5, TriedStays
<1>4. ASSUME Pops PROVE \A i \in DOMAIN frames' : i \in DOMAIN frames /\ frames'[i] = frames[i]
  BY <1>1, <1>4, PopStages
<1>5. CASE Succeed(t)
  <2>1. Pops /\ UNCHANGED <<db, tried, badFiles, pending>>
    BY <1>1, <1>5, SucceedCommits DEF Commits, Succeed, known
  <2> QED
    BY <1>4, <2>1, TriedStays
<1>6. CASE Fail(t)
  <2>1. PICK n : n = Len(frames)
    OBVIOUS
  <2>2. Pops /\ n \in DOMAIN frames /\ UNCHANGED <<db, tried, pending>>
    <3>1. Ends(t) /\ UNCHANGED <<db, tried, pending>>
      BY <1>6 DEF Fail
    <3> QED
      BY <1>1, <1>6, <2>1, <3>1, FailUndoes, EndsOnTop DEF Undoes
  <2>3. badFiles' \subseteq badFiles \cup {frames[n].file}
                             \cup IF frames[n].cause = "file" THEN {frames[n].key} ELSE {}
    BY <1>1, <1>6, <2>1, FailRemembers
  <2>4. frames[n].file \in tried /\ (frames[n].cause = "file" => frames[n].key \in tried)
    BY <2>2 DEF TriedInv, FrameTried
  <2>5. badFiles' \subseteq badFiles \cup tried
    BY <2>3, <2>4
  <2> QED
    BY <1>4, <2>2, <2>5, TriedStays
<1> QED
  BY <1>2, <1>3, <1>5, <1>6

LEMMA TriedStep ==
    ASSUME Core, TriedInv, [Next]_vars
    PROVE  TriedInv'
<1>1. Typed /\ BuildInv /\ CallsInv
  BY DEF Core
<1>2. ASSUME UNCHANGED <<db, known, build, tried>> PROVE TriedInv'
  BY <1>2 DEF known, build, TriedInv, FrameTried
<1>3. ASSUME NEW t \in Threads,
             FastPath(t) \/ Unlock(t) \/ Validate(t) \/ Judge(t) \/ Answer(t)
      PROVE  TriedInv'
  <2>1. UNCHANGED <<db, known, build, tried>>
    BY <1>3 DEF FastPath, Unlock, Validate, Judge, Answer
  <2> QED
    BY <1>2, <2>1
<1>4. ASSUME NEW t \in Threads, LockAndFind(t) PROVE TriedInv'
  <2>1. /\ mutex = None /\ badFiles' = {} /\ UNCHANGED <<db, pending, frames>>
    BY <1>4 DEF LockAndFind, ForgetKnownBad, build
  <2>2. frames = <<>>
    BY <1>1, <2>1 DEF CallsInv
  <2>3. DOMAIN frames = {} /\ Loading = {}
    BY <2>2 DEF Loading
  <2>4. db.backed => pending = <<>>
    <3>1. db.backed => Len(pending) = Cardinality({})
      BY <1>1, <2>3 DEF BuildInv, PendingInv
    <3>2. db.backed => Len(pending) = 0
      BY <3>1, FS_EmptySet
    <3> QED
      BY <1>1, <3>2 DEF Typed
  <2>5. db.backed => ToSet(pending) = {}
    BY <2>4 DEF ToSet
  <2> QED
    BY <2>1, <2>3, <2>5 DEF TriedInv
<1>5. ASSUME NEW t \in Threads, Search(t) PROVE TriedInv'
  <2>1. CASE Seeks(<<>>)
    BY <1>1, <2>1, SeeksTries
  <2>2. CASE \E f : Begins(f)
    <3>1. PICK f : Begins(f)
      BY <2>2
    <3>2. PICK fr, S : fr = NewFrame(f, "build", f) /\ S = tried \cup {f}
      OBVIOUS
    <3>3. /\ fr.file = f /\ fr.cause = "build" /\ frames' = <<fr>> /\ tried' = S
          /\ ~db.backed /\ UNCHANGED <<db, badFiles>>
      BY <3>1, <3>2 DEF Begins, NewFrame, known
    <3>4. \A i \in DOMAIN frames' : FrameTried(frames'[i], S)
      BY <3>2, <3>3 DEF FrameTried
    <3> QED
      BY <3>2, <3>3, <3>4 DEF TriedInv, FrameTried
  <2> QED
    BY <1>1, <1>5, <2>1, <2>2, SearchFinds
<1>6. ASSUME NEW t \in Threads, NEW r \in Questions, Call(t, r) PROVE TriedInv'
  <2>1. UNCHANGED <<db, known, build, tried>>
    BY <1>6 DEF Call
  <2> QED
    BY <1>2, <2>1
<1>7. CASE UNCHANGED vars
  BY <1>2, <1>7 DEF vars
<1>8. ASSUME NEW t \in Threads, Step(t) PROVE TriedInv'
  BY <1>3, <1>4, <1>5, <1>8, TriedByBuilders DEF Step
<1> QED
  BY <1>6, <1>7, <1>8 DEF Next

(* Errors are remembered for one public call: no file fails to build twice  *)
(* in it, whatever leads to the file, so that a call ends after as many     *)
(* failures as there are files; and no file is refused as bad that the call *)
(* has not begun to build itself or missed in the database.                 *)
THEOREM FailuresAreKnown == Spec => []FailuresKnown
<1>1. Init => FailInv
  <2> SUFFICES ASSUME Init, NEW f \in Files PROVE rollbacks[f] = 0
    BY DEF FailInv
  <2> QED
    BY DEF Init
<1>2. Core /\ Core' /\ FailInv /\ [Next]_vars => FailInv'
  BY FailStep
<1>3. Init => TriedInv
  BY DEF Init, TriedInv, ToSet
<1>4. Core /\ TriedInv /\ [Next]_vars => TriedInv'
  BY TriedStep
<1>5. FailInv /\ TriedInv => FailuresKnown
  BY DEF FailInv, TriedInv, FailuresKnown
<1> QED
  BY <1>1, <1>2, <1>3, <1>4, <1>5, CoreHolds, PTL DEF Spec

-----------------------------------------------------------------------------
(* Validation is deferred and not lost                                      *)

LEMMA GoesDefers ==
    ASSUME Typed, NEW t \in Threads, calls[t] # <<>>, NEW at, NEW x, Goes(t, at, x)
    PROVE  /\ \A u \in Threads \ {t} : calls'[u] = calls[u]
           /\ DOMAIN calls'[t] = DOMAIN calls[t]
           /\ \A i \in DOMAIN calls[t] : calls'[t][i].deferred = calls[t][i].deferred
<1>1. PICK old, n, call, c : /\ old = calls[t] /\ n = Len(old) /\ call = Last(old)
                             /\ c = [call EXCEPT !.at = at, !.result = x]
  OBVIOUS
<1>2. old \in Seq(CallType) /\ n \in Nat /\ DOMAIN old = 1 .. n /\ n # 0
  BY <1>1 DEF Typed
<1>3. call = old[n] /\ call \in CallType
  BY <1>1, <1>2 DEF Last
<1>4. c.deferred = call.deferred
  BY <1>1, <1>3 DEF CallType
<1>5. /\ \A u \in Threads \ {t} : calls'[u] = calls[u]
      /\ calls'[t] = [old EXCEPT ![n] = c]
  BY <1>1 DEF Goes, Typed, Replace
<1>6. /\ DOMAIN calls'[t] = DOMAIN old
      /\ \A i \in DOMAIN old : calls'[t][i] = IF i = n THEN c ELSE old[i]
  BY <1>2, <1>5
<1> QED
  BY <1>1, <1>3, <1>4, <1>5, <1>6

(* A step of a call that builds nothing: what it has to validate stays, or  *)
(* has been validated.                                                      *)
LEMMA DeferByCall ==
    ASSUME Typed, DeferInv, NEW t \in Threads, UNCHANGED <<db, files>>,
           Committed' = Committed, Committed \subseteq files, validated \subseteq validated',
           \A u \in Threads \ {t} : calls'[u] = calls[u] /\ (mutex' = u <=> mutex = u),
           \A i \in DOMAIN calls'[t] :
             \/ calls'[t][i].deferred = {}
             \/ i \in DOMAIN calls[t] /\ calls'[t][i].deferred = calls[t][i].deferred,
           \A i \in DOMAIN calls[t] :
             \/ calls[t][i].deferred \subseteq validated'
             \/ i \in DOMAIN calls'[t] /\ calls'[t][i].deferred = calls[t][i].deferred,
           Committed = files \/ (mutex # t /\ mutex' = mutex /\ Under' = Under)
    PROVE  DeferInv'
<1>1. ASSUME NEW u \in Threads, NEW i \in DOMAIN calls'[u]
      PROVE  calls'[u][i].deferred \subseteq IF Builder(u, i)' THEN files' ELSE Committed'
  <2>1. CASE u = t
    <3>1. CASE calls'[t][i].deferred = {}
      BY <2>1, <3>1
    <3>2. CASE i \in DOMAIN calls[t] /\ calls'[t][i].deferred = calls[t][i].deferred
      <4>1. calls[t][i].deferred \subseteq IF Builder(t, i) THEN files ELSE Committed
        BY <3>2 DEF DeferInv
      <4>2. calls[t][i].deferred \subseteq Committed
        BY <4>1 DEF Builder
      <4> QED
        BY <2>1, <3>2, <4>2
    <3> QED
      BY <1>1, <2>1, <3>1, <3>2
  <2>2. CASE u # t
    <3>1. calls'[u] = calls[u] /\ (mutex' = u <=> mutex = u)
      BY <2>2
    <3>2. calls[u][i].deferred \subseteq IF Builder(u, i) THEN files ELSE Committed
      BY <1>1, <3>1 DEF DeferInv
    <3>3. Builder(u, i)' <=> Builder(u, i)
      BY <3>1 DEF Builder
    <3> QED
      BY <3>1, <3>2, <3>3
  <2> QED
    BY <2>1, <2>2
<1>2. \A f : ProtoOf(f)' = ProtoOf(f)
  BY DEF ProtoOf
<1>3. Deferred \subseteq Deferred' \cup validated'
  <2> SUFFICES ASSUME NEW u \in Threads, NEW i \in DOMAIN calls[u],
                      NEW f \in calls[u][i].deferred, f \notin validated'
               PROVE  \E v \in Threads : \E j \in DOMAIN calls'[v] : f \in calls'[v][j].deferred
    BY DEF Deferred
  <2>1. i \in DOMAIN calls'[u] /\ f \in calls'[u][i].deferred
    <3>1. CASE u = t
      BY <3>1
    <3>2. CASE u # t
      BY <3>2
    <3> QED
      BY <3>1, <3>2
  <2> QED
    BY <2>1
<1>4. \A f \in Committed' : ProtoOf(f)'.features # "none" => f \in Deferred' \cup validated'
  BY <1>2, <1>3 DEF DeferInv
<1>5. \A f \in files' \ (Under' \cup Committed') : ProtoOf(f)'.features # "none" =>
        mutex' # None /\ f \in Last(calls'[mutex']).deferred
  <2>1. CASE Committed = files
    BY <2>1
  <2>2. CASE mutex # t /\ mutex' = mutex /\ Under' = Under
    <3> SUFFICES ASSUME NEW f \in files \ (Under \cup Committed), ProtoOf(f).features # "none"
                 PROVE  mutex' # None /\ f \in Last(calls'[mutex']).deferred
      BY <1>2, <2>2
    <3>1. mutex # None /\ f \in Last(calls[mutex]).deferred
      BY DEF DeferInv
    <3>2. mutex \in Threads \ {t}
      BY <2>2, <3>1 DEF Typed
    <3>3. calls'[mutex] = calls[mutex]
      BY <3>2
    <3> QED
      BY <2>2, <3>1, <3>3
  <2> QED
    BY <2>1, <2>2
<1> QED
  BY <1>1, <1>4, <1>5 DEF DeferInv

LEMMA DeferByCalls ==
    ASSUME Core, DeferInv, NEW t \in Threads,
           \/ FastPath(t) \/ LockAndFind(t) \/ Search(t) \/ Unlock(t)
           \/ Validate(t) \/ Judge(t) \/ Answer(t) \/ \E r \in Questions : Call(t, r)
    PROVE  DeferInv'
<1>1. Typed /\ BuildInv /\ CallsInv
  BY DEF Core
<1>2. /\ UNCHANGED <<db, tables>> /\ validated \subseteq validated'
      /\ UNCHANGED <<files, added, checkpoints>> /\ Committed' = Committed
      /\ Committed \subseteq files
  <2>1. UNCHANGED <<db, tables>> /\ validated \subseteq validated'
    BY DEF FastPath, LockAndFind, Search, Unlock, Validate, Judge, Answer, Call
  <2>2. UNCHANGED <<files, added, checkpoints>>
    BY <2>1 DEF tables
  <2> QED
    BY <1>1, <2>1, <2>2, CommittedCut DEF Committed, Uncommitted
<1>3. CASE FastPath(t) \/ LockAndFind(t) \/ Search(t) \/ Unlock(t)
  <2>1. /\ calls[t] # <<>> /\ frames = <<>>
        /\ \A u \in Threads \ {t} : mutex' = u <=> mutex = u
    <3>1. calls[t] # <<>>
      BY <1>3 DEF FastPath, LockAndFind, Search, Unlock, At
    <3>2. CASE FastPath(t) \/ LockAndFind(t)
      BY <1>1, <3>1, <3>2, NamesAssumption DEF FastPath, LockAndFind, CallsInv
    <3>3. CASE Search(t)
      <4>1. mutex' = mutex
        BY <3>3 DEF Search
      <4> QED
        BY <1>1, <3>1, <3>3, <4>1, SearchFinds
    <3>4. CASE Unlock(t)
      <4>1. mutex' = None
        BY <3>4 DEF Unlock
      <4>2. mutex = t /\ frames = <<>>
        BY <1>1, <3>4, UnlockStep
      <4> QED
        BY <3>1, <4>1, <4>2, NamesAssumption
    <3> QED
      BY <1>3, <3>2, <3>3, <3>4
  <2>2. \E at, x : Goes(t, at, x)
    BY <1>3 DEF FastPath, LockAndFind, Search, Unlock
  <2>3. /\ \A u \in Threads \ {t} : calls'[u] = calls[u]
        /\ DOMAIN calls'[t] = DOMAIN calls[t]
        /\ \A i \in DOMAIN calls[t] : calls'[t][i].deferred = calls[t][i].deferred
    BY <1>1, <2>1, <2>2, GoesDefers
  <2>4. Committed = files
    BY <1>1, <2>1, CommittedCut
  <2> QED
    BY <1>1, <1>2, <2>1, <2>3, <2>4, DeferByCall
<1>4. ASSUME mutex # t, UNCHANGED <<mutex, frames>>
      PROVE  Under' = Under /\ \A u \in Threads \ {t} : mutex' = u <=> mutex = u
  BY <1>2, <1>4 DEF Under, Own, Base, Rank, Started, Loading
<1>5. CASE Validate(t)
  <2>1. mutex # t /\ UNCHANGED <<mutex, frames>>
    BY <1>1, <1>5, ValidateStep DEF Validate, build
  <2>2. PICK cs \in Seq(CallType) :
          /\ calls' = [calls EXCEPT ![t] = cs] /\ Len(cs) = Len(calls[t]) + 1
          /\ \A i \in DOMAIN calls[t] : cs[i].deferred = calls[t][i].deferred
          /\ cs[Len(cs)].deferred = {}
    BY <1>1, <1>5, ValidateStep
  <2>3. /\ \A u \in Threads \ {t} : calls'[u] = calls[u]
        /\ calls'[t] = cs
    BY <1>1, <2>2 DEF Typed
  <2>4. /\ \A i \in DOMAIN calls[t] : i \in DOMAIN cs
        /\ \A i \in DOMAIN cs : i \in DOMAIN calls[t] \/ i = Len(cs)
    <3>1. calls[t] \in Seq(CallType)
      BY <1>1 DEF Typed
    <3> QED
      BY <2>2, <3>1
  <2> QED
    BY <1>1, <1>2, <1>4, <2>1, <2>2, <2>3, <2>4, DeferByCall
<1>6. CASE Judge(t)
  <2>1. mutex # t /\ UNCHANGED <<mutex, frames>>
    BY <1>1, <1>6, JudgeStep DEF Judge, build
  <2>2. PICK c : Becomes(t, c) /\ c.deferred = {}
    BY <1>1, <1>6, JudgeStep
  <2>3. /\ Len(calls[t]) \in DOMAIN calls[t] /\ calls'[t][Len(calls[t])] = c
        /\ DOMAIN calls'[t] = DOMAIN calls[t]
        /\ \A i \in DOMAIN calls[t] : i # Len(calls[t]) => calls'[t][i] = calls[t][i]
        /\ \A u \in Threads : u # t => calls'[u] = calls[u]
        /\ Last(calls[t]) = calls[t][Len(calls[t])]
    BY <1>1, <2>2, BecomesPlain
  <2>4. calls[t][Len(calls[t])].deferred \subseteq validated'
    BY <1>6, <2>3 DEF Judge
  <2> QED
    BY <1>1, <1>2, <1>4, <2>1, <2>2, <2>3, <2>4, DeferByCall
<1>7. CASE Answer(t)
  <2>1. mutex # t /\ UNCHANGED <<mutex, frames>>
    BY <1>1, <1>7, AnswerStep DEF Answer, build
  <2>2. Len(calls[t]) \in DOMAIN calls[t] /\ calls[t][Len(calls[t])].deferred = {}
    BY <1>1, <1>7, AnswerStep
  <2>3. PICK cs \in Seq(CallType) :
          /\ calls' = [calls EXCEPT ![t] = cs]
          /\ DOMAIN cs = DOMAIN calls[t] \ {Len(calls[t])}
          /\ \A i \in DOMAIN cs : cs[i] = calls[t][i]
    BY <1>1, <1>7, AnswerStep
  <2>4. /\ \A u \in Threads \ {t} : calls'[u] = calls[u]
        /\ calls'[t] = cs
    BY <1>1, <2>3 DEF Typed
  <2> QED
    BY <1>1, <1>2, <1>4, <2>1, <2>2, <2>3, <2>4, DeferByCall
<1>8. CASE \E r \in Questions : Call(t, r)
  <2>1. PICK r \in Questions : Call(t, r)
    BY <1>8
  <2>2. /\ mutex # t /\ UNCHANGED <<mutex, frames>>
        /\ calls' = [calls EXCEPT ![t] = <<NewCall(r)>>] /\ NewCall(r).deferred = {}
        /\ calls[t] = <<>>
    BY <1>1, <2>1, CallStep DEF Call, build
  <2>3. /\ \A u \in Threads \ {t} : calls'[u] = calls[u]
        /\ calls'[t] = <<NewCall(r)>>
    BY <1>1, <2>2 DEF Typed
  <2>4. \A i \in DOMAIN calls'[t] : calls'[t][i].deferred = {}
    BY <2>2, <2>3
  <2>5. DOMAIN calls[t] = {}
    BY <2>2
  <2> QED
    BY <1>1, <1>2, <1>4, <2>2, <2>3, <2>4, <2>5, DeferByCall
<1> QED
  BY <1>3, <1>5, <1>6, <1>7, <1>8

LEMMA DeferByBuilding ==
    ASSUME Core, Core', DeferInv, NEW t \in Threads,
           LoadImport(t) \/ AddFile(t) \/ AskForType(t) \/ CrossLinkField(t)
    PROVE  DeferInv'
<1>1. Typed /\ BuildInv /\ CallsInv /\ Typed' /\ BuildInv'
  BY DEF Core
<1>2. UNCHANGED <<db, mutex, calls, validated>>
  BY <1>1, BuildersGoOn
<1>3. Committed' = Committed
  BY <1>1, NothingCommitted
<1>4. files \subseteq files' /\ \A f \in files' : f \in Under' \/ (f \in files /\ f \notin Under)
  <2>1. CASE LoadImport(t) \/ AskForType(t)
    <3>1. PICK stack : Seeks(stack)
      BY <1>1, <2>1, LoadImportSeeks, AskForTypeSeeks
    <3>2. Under' = Under
      BY <1>1, <3>1, SeeksFrames
    <3>3. files' = files
      BY <3>1 DEF Seeks, tables
    <3> QED
      BY <3>2, <3>3
  <2>2. CASE AddFile(t)
    <3>1. PICK e, x : Enters(e, x)
      BY <1>1, <2>2, AddFileEnters
    <3>2. Under' = Under \cup e.files
      BY <1>1, <3>1, EntersBuilders
    <3>3. files' = files \cup e.files
      BY <3>1 DEF Enters, Adds
    <3> QED
      BY <3>2, <3>3
  <2>3. CASE CrossLinkField(t)
    <3>1. PICK x : Links(x)
      BY <1>1, <2>3, CrossLinkFieldLinks
    <3>2. Under' = Under
      BY <1>1, <3>1, LinksBuilders
    <3>3. files' = files
      BY <3>1 DEF Links
    <3> QED
      BY <3>2, <3>3
  <2> QED
    BY <2>1, <2>2, <2>3
<1>5. /\ \A u, i : Builder(u, i)' <=> Builder(u, i)
      /\ \A f : ProtoOf(f)' = ProtoOf(f)
      /\ Deferred' = Deferred
  BY <1>2 DEF Builder, ProtoOf, Deferred
<1>6. \A u \in Threads : \A i \in DOMAIN calls'[u] :
        calls'[u][i].deferred \subseteq IF Builder(u, i)' THEN files' ELSE Committed'
  <2> SUFFICES ASSUME NEW u \in Threads, NEW i \in DOMAIN calls[u]
               PROVE  calls[u][i].deferred \subseteq IF Builder(u, i) THEN files' ELSE Committed
    BY <1>2, <1>3, <1>5
  <2>1. calls[u][i].deferred \subseteq IF Builder(u, i) THEN files ELSE Committed
    BY DEF DeferInv
  <2> QED
    BY <1>4, <2>1
<1>7. \A f \in Committed' : ProtoOf(f)'.features # "none" => f \in Deferred' \cup validated'
  BY <1>2, <1>3, <1>5 DEF DeferInv
<1>8. \A f \in files' \ (Under' \cup Committed') : ProtoOf(f)'.features # "none" =>
        mutex' # None /\ f \in Last(calls'[mutex']).deferred
  BY <1>2, <1>3, <1>4, <1>5 DEF DeferInv
<1> QED
  BY <1>6, <1>7, <1>8 DEF DeferInv

LEMMA DeferByEnding ==
    ASSUME Core, Core', DeferInv, NEW t \in Threads, Succeed(t) \/ Fail(t)
    PROVE  DeferInv'
<1>1. Typed /\ BuildInv /\ CallsInv /\ Typed' /\ BuildInv'
  BY DEF Core
<1>2. PICK n, f, b, old, gone :
        /\ n = Len(frames) /\ f = frames[n].file /\ b = Base(n)
        /\ old = Last(calls[t]).deferred
        /\ gone = IF Fail(t) THEN AddedFiles(b) ELSE {}
  OBVIOUS
<1>3. Pops /\ Ends(t) /\ UNCHANGED <<db, mutex, validated>> /\ files' = files \ gone
  <2>1. Succeed(t) => ~Fail(t)
    BY DEF Succeed, Fail
  <2>2. CASE Succeed(t)
    BY <1>1, <1>2, <2>1, <2>2, SucceedCommits DEF Commits, Succeed
  <2>3. CASE Fail(t)
    BY <1>1, <1>2, <2>3, FailUndoes DEF Undoes, RollsBackTo, FilesAt, Fail
  <2> QED
    BY <2>2, <2>3
<1>4. /\ n \in Started /\ Own(n) \subseteq {f}
      /\ ~frames[n].errors => Own(n) = {f}
      /\ Last(frames) = frames[n] /\ mutex = t
  BY <1>1, <1>2, <1>3, EndsOnTop
<1>5. Under = Under' \cup Own(n) /\ (Succeed(t) => Under' = {} \/ Committed' = Committed)
  <2>1. CASE Succeed(t)
    <3>1. Commits
      BY <1>1, <2>1, SucceedCommits
    <3>2. /\ Started' = {} \/ \A m \in 1 .. Base(n) : added'[m] = added[m]
          /\ Len(checkpoints) = 1 => Started' = {}
      BY <1>1, <1>2, <3>1, CommitsPrefix
    <3>3. Len(checkpoints) # 1 => Committed' = Committed
      BY <1>1, <3>1, NothingCommitted
    <3>4. Started' = {} => Under' = {}
      BY DEF Under
    <3> QED
      BY <1>1, <1>2, <1>3, <3>2, <3>3, <3>4, PopOwn
  <2>2. CASE ~Succeed(t)
    <3>1. RollsBackTo(b)
      BY <1>1, <1>2, <2>2, FailUndoes DEF Undoes
    <3>2. b \in 0 .. Len(added)
      BY <1>1, <1>2, <1>4, BuilderPlace, CutBounds DEF BuildInv
    <3>3. \A m \in 1 .. b : added'[m] = added[m]
      <4>1. added \in Seq(EntryType) /\ added' = SubSeq(added, 1, b)
        BY <1>1, <3>1 DEF RollsBackTo, Typed
      <4> QED
        BY ONLY <3>2, <4>1
    <3> QED
      BY <1>1, <1>2, <1>3, <2>2, <3>3, PopOwn
  <2> QED
    BY <2>1, <2>2
<1>6. Own(n) \subseteq AddedFiles(b)
  <2>1. b \in Nat /\ b < Len(added) /\ Len(added) \in Nat
    BY <1>1, <1>2, <1>4, BuilderPlace, Stages DEF BuildInv
  <2>2. b + 1 \in b + 1 .. Len(added)
    BY <2>1
  <2> QED
    BY <1>2, <2>2 DEF Own, AddedFiles
<1>7. /\ Committed \subseteq Committed' /\ Committed' \subseteq files'
      /\ Fail(t) => Committed' = Committed
  BY <1>1, CommittedGrows, NothingCommitted DEF Committed
<1>8. ~frames[n].errors => f \in files
  <2>1. TablesOK(files, symbols, extensions, Len(added))
    BY <1>1, AtTheEnd DEF BuildInv, TablesInv, CutInv, Cuts
  <2>2. b < Len(added) /\ BuilderIn(n, files, symbols, extensions, Len(added))
    BY <1>1, <1>2, <1>4, <2>1, BuilderPlace DEF TablesOK, BuildInv
  <2> QED
    BY <1>2, <2>2 DEF BuilderIn
<1>9. PICK c : /\ Becomes(t, c)
               /\ c.deferred = (old \cup {g \in {f} : HandsOver(g)}) \ gone
  <2>1. PICK c : /\ Becomes(t, c)
                 /\ c.deferred = (old \cup {g \in {frames[n].file} : HandsOver(g)})
                                  \ IF Fail(t) THEN UndoneFiles ELSE {}
    BY <1>1, <1>2, EndingReturns
  <2>2. Fail(t) => UndoneFiles = AddedFiles(b)
    BY <1>1, <1>2, FailUndoes
  <2> QED
    BY <1>2, <2>1, <2>2
<1>10. PICK m : m = Len(calls[t])
  OBVIOUS
<1>11. /\ Len(calls'[t]) = m /\ Last(calls'[t]) = c /\ DOMAIN calls'[t] = DOMAIN calls[t]
       /\ calls'[t][m] = c /\ m \in DOMAIN calls[t] /\ Last(calls[t]) = calls[t][m]
       /\ \A i \in DOMAIN calls[t] : i # m => calls'[t][i] = calls[t][i]
       /\ \A u \in Threads : u # t => calls'[u] = calls[u]
  BY <1>1, <1>9, <1>10, BecomesPlain
<1>12. old \subseteq files
  <2>1. calls[t][m].deferred \subseteq IF Builder(t, m) THEN files ELSE Committed
    BY <1>11 DEF DeferInv
  <2> QED
    BY <1>2, <1>4, <1>10, <1>11, <2>1 DEF Builder
<1>13. c.deferred \subseteq files'
  BY <1>3, <1>4, <1>8, <1>9, <1>12 DEF HandsOver
<1>14. ASSUME NEW g \in files' \ (Under' \cup Committed), ProtoOf(g).features # "none"
       PROVE  g \in c.deferred
  <2>1. g \in files /\ g \notin gone
    BY <1>3, <1>14
  <2>2. CASE g \in Under
    <3>1. g \in Own(n) /\ g = f
      BY <1>4, <1>5, <1>14, <2>2
    <3>2. ~Fail(t)
      BY <1>2, <1>6, <2>1, <3>1
    <3>3. HandsOver(f)
      BY <1>2, <1>4, <1>14, <3>1, <3>2 DEF Succeed, HandsOver
    <3> QED
      BY <1>9, <2>1, <3>1, <3>3
  <2>3. CASE g \notin Under
    BY <1>2, <1>4, <1>9, <1>14, <2>1, <2>3 DEF DeferInv
  <2> QED
    BY <2>2, <2>3
<1>15. \A g : ProtoOf(g)' = ProtoOf(g)
  BY <1>3 DEF ProtoOf
<1>16. ASSUME NEW u \in Threads, NEW i \in DOMAIN calls'[u]
       PROVE  calls'[u][i].deferred \subseteq IF Builder(u, i)' THEN files' ELSE Committed'
  <2>1. CASE u = t /\ i = m
    <3>1. Builder(u, i)'
      BY <1>3, <1>4, <1>11, <2>1 DEF Builder
    <3> QED
      BY <1>11, <1>13, <2>1, <3>1
  <2>2. CASE ~(u = t /\ i = m)
    <3>1. i \in DOMAIN calls[u] /\ calls'[u][i] = calls[u][i] /\ ~Builder(u, i)
      BY <1>4, <1>10, <1>11, <1>16, <2>2 DEF Builder
    <3>2. calls[u][i].deferred \subseteq IF Builder(u, i) THEN files ELSE Committed
      BY <3>1 DEF DeferInv
    <3> QED
      BY <1>7, <3>1, <3>2
  <2> QED
    BY <2>1, <2>2
<1>17. ASSUME NEW g \in Committed', ProtoOf(g).features # "none"
       PROVE  g \in Deferred' \cup validated'
  <2>1. c.deferred \subseteq Deferred'
    BY <1>11 DEF Deferred
  <2>2. g \in files' /\ g \notin gone
    BY <1>3, <1>7
  <2>3. CASE g \in Committed
    <3>1. g \in Deferred \cup validated
      BY <1>17, <2>3 DEF DeferInv
    <3>2. ASSUME g \in Deferred PROVE g \in Deferred'
      <4>0. PICK u \in Threads : \E i \in DOMAIN calls[u] : g \in calls[u][i].deferred
        BY <3>2 DEF Deferred
      <4>1. PICK i \in DOMAIN calls[u] : g \in calls[u][i].deferred
        BY <4>0
      <4>2. CASE u = t /\ i = m
        BY <1>2, <1>9, <1>11, <2>1, <2>2, <4>1, <4>2
      <4>3. CASE ~(u = t /\ i = m)
        <5>1. i \in DOMAIN calls'[u] /\ calls'[u][i] = calls[u][i]
          BY <1>11, <4>3
        <5> QED
          BY <4>1, <5>1 DEF Deferred
      <4> QED
        BY <4>2, <4>3
    <3> QED
      BY <1>3, <3>1, <3>2
  <2>4. CASE g \notin Committed
    <3>1. Under' = {}
      BY <1>5, <1>7, <2>4
    <3> QED
      BY <1>14, <1>17, <2>1, <2>2, <2>4, <3>1
  <2> QED
    BY <2>3, <2>4
<1>18. ASSUME NEW g \in files' \ (Under' \cup Committed'), ProtoOf(g).features # "none"
       PROVE  mutex' # None /\ g \in Last(calls'[mutex']).deferred
  <2>1. g \in c.deferred
    BY <1>7, <1>14, <1>18
  <2>2. mutex' = t /\ t # None
    BY <1>3, <1>4, NamesAssumption
  <2> QED
    BY <1>11, <2>1, <2>2
<1> QED
  BY <1>15, <1>16, <1>17, <1>18 DEF DeferInv

(* Validation is deferred, and never lost or done for a file that is gone: a *)
(* call only refers to files in the tables, and a committed file that uses  *)
(* features has been checked or is in the care of the call that loaded it.  *)
THEOREM NoValidationLost == Spec => []ValidationKept
<1>1. Init => DeferInv
  <2> SUFFICES ASSUME Init PROVE DeferInv
    OBVIOUS
  <2>1. files = {} /\ \A t \in Threads : calls[t] = <<>>
    BY DEF Init
  <2>2. Committed = {} /\ \A t \in Threads : DOMAIN calls[t] = {}
    BY <2>1 DEF Committed
  <2> QED
    BY <2>1, <2>2 DEF DeferInv
<1>2. Core /\ Core' /\ DeferInv /\ [Next]_vars => DeferInv'
  <2> SUFFICES ASSUME Core, Core', DeferInv, [Next]_vars PROVE DeferInv'
    OBVIOUS
  <2>1. CASE UNCHANGED vars
    <3>1. UNCHANGED <<db, files, added, checkpoints, frames, mutex, calls, validated>>
      BY <2>1 DEF vars, tables, build
    <3>2. Committed' = Committed /\ Deferred' = Deferred /\ Under' = Under
      BY <3>1 DEF Committed, Uncommitted, Deferred, Under, Own, Base, Rank, Started, Loading
    <3> QED
      BY <3>1, <3>2 DEF DeferInv, Builder, ProtoOf
  <2>2. ASSUME NEW t \in Threads, Step(t) PROVE DeferInv'
    BY <2>2, DeferByCalls, DeferByBuilding, DeferByEnding DEF Step
  <2>3. ASSUME NEW t \in Threads, NEW r \in Questions, Call(t, r) PROVE DeferInv'
    BY <2>3, DeferByCalls
  <2> QED
    BY <2>1, <2>2, <2>3 DEF Next
<1>3. Core /\ DeferInv => ValidationKept
  <2> SUFFICES ASSUME Core, DeferInv PROVE ValidationKept
    OBVIOUS
  <2>1. Committed \subseteq files
    BY CommittedCut DEF Core
  <2>2. ASSUME NEW t \in Threads, NEW i \in DOMAIN calls[t]
        PROVE  calls[t][i].deferred \subseteq files
    <3>1. calls[t][i].deferred \subseteq IF Builder(t, i) THEN files ELSE Committed
      BY DEF DeferInv
    <3> QED
      BY <2>1, <3>1
  <2>3. Deferred \subseteq files
    BY <2>2 DEF Deferred
  <2> QED
    BY <2>3 DEF ValidationKept, DeferInv
<1> QED
  BY <1>1, <1>2, <1>3, CoreHolds, PTL DEF Spec
=============================================================================
