--------------------------- MODULE DescriptorPool ---------------------------
(***************************************************************************)
(* DescriptorPool of descriptor.cc: the tables of files, symbols and       *)
(* extensions, filled on demand from a fallback database under mutex_, or  *)
(* by BuildFile in a pool that has no database.                            *)
(*                                                                         *)
(* Building a file may build others: its imports, before the tables are    *)
(* checkpointed, and, while its names are linked, the files in which the   *)
(* database says a name is defined.  "frames" is the stack of the builders *)
(* (DescriptorBuilder::BuildFile) under way; only the thread that holds    *)
(* mutex_ has any.  A file that fails is rolled back to its checkpoint and *)
(* remembered as bad until the next public call.  Feature lifetimes are    *)
(* checked after mutex_ has been released, by a call of the pool itself.   *)
(*                                                                         *)
(* Names are members of Symbols, packages included.  A link of a file is   *)
(* the type name of a field: the scopes in which it is looked up, from the *)
(* innermost out, and the number it extends a message with, or None.       *)
(***************************************************************************)
EXTENDS Naturals, FiniteSets, SequencesExt

CONSTANTS Threads,     \* the threads that share the pool
          Files,       \* file names
          Symbols,     \* fully qualified names of packages and messages
          Numbers,     \* extension numbers of one message of an underlay
          None,        \* no file, no name, no number, no thread
          FeatureSet,  \* the name google.protobuf.FeatureSet
          Enclosing,   \* the proper prefixes of a name
          Databases,   \* the databases a pool may be created with
          Questions,   \* the calls the threads make
          MaxCalls     \* bound on the calls of a thread

Requests ==
  [op : {"file", "build"}, key : Files] \cup
  [op : {"symbol", "container"}, key : Symbols] \cup
  [op : {"extension"}, key : Numbers]

Link == [scopes : Seq(Symbols) \ {<<>>}, number : Numbers \cup {None}]

\* fault: an error of the file itself, found before or after its features
\* are handed over for validation.
Proto ==
  [package  : Symbols \cup {None}, imports : Seq(Files), public : SUBSET Files,
   symbols  : SUBSET Symbols, links : Seq(Link),
   fault    : {"none", "options", "visibility"},
   features : {"none", "valid", "expired"}]

ASSUME NamesAssumption ==
  /\ None \notin Threads \cup Files \cup Symbols \cup Numbers
  /\ FeatureSet \in Symbols
  /\ Enclosing \in [Symbols -> SUBSET Symbols]
  /\ Questions \subseteq Requests
  /\ MaxCalls \in Nat
  /\ IsFiniteSet(Files)

\* proto: the files; byName, bySymbol, byNumber: what the three lookups of
\* the database return, which for symbols may be a false positive.
ASSUME DatabaseAssumption ==
  \A d \in Databases :
    /\ d.backed \in BOOLEAN
    /\ DOMAIN d.proto = Files /\ \A f \in Files : d.proto[f] \in Proto
    /\ d.present \subseteq Files
    /\ d.bySymbol \in [Symbols -> Files \cup {None}]
    /\ d.byNumber \in [Numbers -> Files \cup {None}]

VARIABLES
  db,          \* the database (or the files given to BuildFile); constant
  files,       \* files_by_name_
  symbols,     \* symbols_by_name_: the file of each symbol, or None
  extensions,  \* extensions_: the file of each number, or None
  added,       \* the three ..._after_checkpoint_ lists, an entry per insertion
  checkpoints, \* checkpoints_: lengths of added
  pending,     \* pending_files_
  badFiles,    \* known_bad_files_
  badSymbols,  \* known_bad_symbols_
  frames,      \* the builders on the stack of the thread that holds mutex_
  mutex,       \* mutex_
  calls,       \* per thread its public calls, the last one called by Validate
  left,        \* per thread the calls it may still make
  answer,      \* per thread its last question and the file of the answer
  validated,   \* history: files whose feature lifetimes were checked
  tried,       \* history: files that were begun in this call
  rollbacks    \* history: per file, how often it failed in this call

tables == <<files, symbols, extensions, added, checkpoints>>
known  == <<badFiles, badSymbols>>
build  == <<pending, frames>>
vars   == <<db, tables, known, build, mutex, calls, left, answer,
            validated, tried, rollbacks>>

NoAnswer == [request |-> None, result |-> None]

ProtoOf(f) == db.proto[f]
Replace(s, x) == [s EXCEPT ![Len(s)] = x]

Init ==
  /\ db \in Databases
  /\ files = {} /\ added = <<>> /\ checkpoints = <<>>
  /\ symbols = [s \in Symbols |-> None]
  /\ extensions = [n \in Numbers |-> None]
  /\ pending = <<>> /\ badFiles = {} /\ badSymbols = {} /\ frames = <<>>
  /\ mutex = None
  /\ calls = [t \in Threads |-> <<>>]
  /\ left = [t \in Threads |-> MaxCalls]
  /\ answer = [t \in Threads |-> NoAnswer]
  /\ validated = {} /\ tried = {}
  /\ rollbacks = [f \in Files |-> 0]

IsPackage(s) == symbols[s] # None /\ ProtoOf(symbols[s]).package = s

\* Tables::FindFile, FindSymbol and FindExtension.
Lookup(r) ==
  CASE r.op \in {"file", "build"}       -> IF r.key \in files THEN r.key ELSE None
    [] r.op \in {"symbol", "container"} -> symbols[r.key]
    [] r.op = "extension"               -> extensions[r.key]

IsSubSymbolOfBuiltType(s) ==
  \E p \in Enclosing[s] : symbols[p] # None /\ ~IsPackage(p)

-----------------------------------------------------------------------------
(* Building a file from the database *)

NewFrame(f, cause, key) ==
  [file |-> f, cause |-> cause, key |-> key, phase |-> "imports",
   import |-> IF db.backed THEN 1 ELSE Len(ProtoOf(f).imports) + 1,
   link |-> 1, scope |-> 1, asked |-> FALSE, visible |-> {}, errors |-> FALSE]

\* A file found by a symbol is not remembered itself.
Remember_NamesOnly(cause, key, bad) ==
  /\ badFiles' = badFiles \cup (IF cause = "file" THEN {key} ELSE {})
  /\ badSymbols' = badSymbols \cup (IF cause = "symbol" THEN {key} ELSE {})

\* What a failed attempt is remembered by; the number of an extension is not.
Remember(cause, key, bad) ==
  /\ badFiles' = badFiles \cup bad \cup (IF cause = "file" THEN {key} ELSE {})
  /\ badSymbols' = badSymbols \cup (IF cause = "symbol" THEN {key} ELSE {})

\* What the database has for the name, unless the pool need not ask or has
\* that file already.
Candidate(cause, key) ==
  LET f == CASE cause = "file"      -> IF key \in db.present THEN key ELSE None
             [] cause = "symbol"    -> IF IsSubSymbolOfBuiltType(key) THEN None
                                       ELSE db.bySymbol[key]
             [] cause = "extension" -> db.byNumber[key]
  IN  IF cause # "file" /\ f \in files THEN None ELSE f

KnownBad(cause, key) ==
  \/ cause = "file" /\ key \in badFiles
  \/ cause = "symbol" /\ key \in badSymbols

\* TryFindFile-, TryFindSymbol- and TryFindExtensionInFallbackDatabase up to
\* the loop over the imports in BuildFile: either a builder starts on top of
\* stack, or the attempt has failed.
TryFind(stack, cause, key) ==
  LET f == Candidate(cause, key) IN
  \/ /\ ~db.backed \/ KnownBad(cause, key)
     /\ frames' = stack
     /\ UNCHANGED <<known, pending, tried>>
  \/ /\ db.backed /\ ~KnownBad(cause, key)
     /\ f = None \/ f \in badFiles \/ f \in ToSet(pending)
     /\ frames' = stack
     /\ Remember(cause, key, {f} \ {None})
     /\ UNCHANGED <<pending, tried>>
  \/ /\ db.backed /\ ~KnownBad(cause, key)
     /\ f # None /\ f \notin badFiles /\ f \notin ToSet(pending)
     /\ frames' = Append(stack, NewFrame(f, cause, key))
     /\ pending' = Append(pending, f)
     /\ tried' = tried \cup {f}
     /\ UNCHANGED known

Builds(t, phase) ==
  mutex = t /\ frames # <<>> /\ Last(frames).phase = phase

\* An import that cannot be loaded is tried again.
NextImport_OnceLoaded(top) ==
  IF ProtoOf(top.file).imports[top.import] \in files THEN [top EXCEPT !.import = @ + 1]
  ELSE top

NextImport(top) == [top EXCEPT !.import = @ + 1]

\* One turn of the loop over the imports, before the checkpoint.
LoadImport(t) ==
  /\ Builds(t, "imports")
  /\ LET top     == Last(frames)
         imports == ProtoOf(top.file).imports
         rest    == Replace(frames, NextImport(top))
     IN  /\ top.import <= Len(imports)
         /\ IF imports[top.import] \in files
              THEN frames' = rest /\ UNCHANGED <<known, pending, tried>>
              ELSE TryFind(rest, "file", imports[top.import])
  /\ UNCHANGED <<db, tables, mutex, calls, left, answer, validated, rollbacks>>

\* RecordPublicDependencies: the files whose symbols a file may use.  An import
\* that was not found is null in the descriptor.
PublicClosure(S) ==
  LET closed(T) == \A f \in T : ProtoOf(f).public \cap files \subseteq T
  IN  {g \in files : \A T \in SUBSET files : S \subseteq T /\ closed(T) => g \in T}

\* The file is left on the list of pending files.
ImportsLoaded_StaysPending == pending' = pending

ImportsLoaded == pending' = IF db.backed THEN Front(pending) ELSE pending

\* A file that imports itself goes on.
BailsOut_IfKnown(f) == f \in files

\* The file is there already, or finds itself among its dependencies.
BailsOut(f) == f \in files \cup ToSet(ProtoOf(f).imports)

\* The checkpoint, and BuildFileImpl up to the linking: the file, its package
\* and its symbols enter the tables.
AddFile(t) ==
  /\ Builds(t, "imports")
  /\ LET top      == Last(frames)
         f        == top.file
         p        == ProtoOf(f)
         imports  == ToSet(p.imports)
         bail     == BailsOut(f)
         package  == {s \in {p.package} \ {None} : symbols[s] = None /\ f \notin files}
         fresh    == {s \in p.symbols : symbols[s] = None /\ s \notin package /\ ~bail}
         clash    == \/ fresh # p.symbols
                     \/ p.package # None /\ symbols[p.package] # None
                                         /\ ~IsPackage(p.package)
     IN  /\ top.import > Len(p.imports)
         /\ ImportsLoaded
         /\ checkpoints' = Append(checkpoints, Len(added))
         /\ added' = Append(added, [files |-> {f} \ files, numbers |-> {},
                                    symbols |-> package \cup fresh])
         /\ files' = files \cup {f}
         /\ symbols' = [s \in Symbols |-> IF s \in package \cup fresh THEN f
                                          ELSE symbols[s]]
         /\ frames' = Replace(frames,
              [top EXCEPT !.phase = IF bail THEN "end" ELSE "links",
                          !.visible = PublicClosure(imports \cap files),
                          !.errors = \/ bail \/ clash
                                     \/ ~(imports \subseteq files \cup {f})
                                     \/ Cardinality(imports) # Len(p.imports)])
  /\ UNCHANGED <<db, extensions, known, mutex, calls, left, answer, validated, tried,
                 rollbacks>>

\* FindSymbol for one scope of a type name that is not in the tables yet: the
\* database is asked, and another builder may start.
AskForType(t) ==
  /\ Builds(t, "links")
  /\ LET top == Last(frames)
         p   == ProtoOf(top.file)
     IN  /\ top.link <= Len(p.links) /\ ~top.asked
         /\ LET s == p.links[top.link].scopes[top.scope] IN
              /\ symbols[s] = None
              /\ TryFind(Replace(frames, [top EXCEPT !.asked = TRUE]), "symbol", s)
  /\ UNCHANGED <<db, tables, mutex, calls, left, answer, validated, rollbacks>>

\* The rest of FindSymbol and CrossLinkField: a type counts if it is defined
\* in this file or in one it imports; else the next scope is tried.
CrossLinkField(t) ==
  /\ Builds(t, "links")
  /\ LET top == Last(frames)
         p   == ProtoOf(top.file)
     IN  /\ top.link <= Len(p.links)
         /\ LET l    == p.links[top.link]
                s    == l.scopes[top.scope]
                good == symbols[s] \in {top.file} \cup top.visible /\ ~IsPackage(s)
                last == top.scope = Len(l.scopes)
                new  == {l.number} \ {None}
                next == [top EXCEPT !.asked = FALSE]
            IN  /\ symbols[s] # None \/ top.asked
                /\ frames' = Replace(frames,
                     IF good \/ last
                       THEN [next EXCEPT !.link = @ + 1, !.scope = 1,
                                         !.errors = @ \/ ~good]
                       ELSE [next EXCEPT !.scope = @ + 1])
                /\ IF good /\ \E n \in new : extensions[n] = None
                     THEN /\ extensions' = [n \in Numbers |-> IF n \in new THEN top.file
                                                              ELSE extensions[n]]
                          /\ added' = Append(added, [files |-> {}, symbols |-> {},
                                                     numbers |-> new])
                     ELSE UNCHANGED <<extensions, added>>
  /\ UNCHANGED <<db, files, symbols, checkpoints, known, pending, mutex, calls,
                 left, answer, validated, tried, rollbacks>>

Ends(t) ==
  \/ Builds(t, "end")
  \/ Builds(t, "links") /\ Last(frames).link > Len(ProtoOf(Last(frames).file).links)

HandsOver(f) ==
  /\ ~Last(frames).errors /\ ProtoOf(f).fault # "options"
  /\ ProtoOf(f).features # "none"

\* The builder returns to what started it; back in the public call, that call
\* knows whether the attempt succeeded, and what it has to validate.
Return(t, ok, deferred) ==
  LET call == Last(calls[t])
      at   == IF Len(frames) > 1 THEN "build" ELSE IF ok THEN "found" ELSE "lost"
  IN  /\ frames' = Front(frames)
      /\ calls' = [calls EXCEPT ![t] =
                     Replace(@, [call EXCEPT !.at = at, !.deferred = deferred])]

ClearLastCheckpoint ==
  /\ checkpoints' = Front(checkpoints)
  /\ added' = IF Len(checkpoints) = 1 THEN <<>> ELSE added

\* The end of BuildFileImpl and BuildFile for a file without errors.
Succeed(t) ==
  /\ Ends(t)
  /\ LET f == Last(frames).file IN
       /\ ~Last(frames).errors /\ ProtoOf(f).fault = "none"
       /\ Return(t, TRUE, Last(calls[t]).deferred
                            \cup {g \in {f} : HandsOver(g)})
  /\ ClearLastCheckpoint
  /\ UNCHANGED <<db, files, symbols, extensions, known, pending, mutex, left,
                 answer, validated, tried, rollbacks>>

\* Off by one: what was added first is kept.
Undone_SkipsFirst == SubSeq(added, Last(checkpoints) + 2, Len(added))

Undone == SubSeq(added, Last(checkpoints) + 1, Len(added))
UndoneFiles   == UNION {e.files : e \in ToSet(Undone)}
UndoneSymbols == UNION {e.symbols : e \in ToSet(Undone)}
UndoneNumbers == UNION {e.numbers : e \in ToSet(Undone)}

RollbackToLastCheckpoint ==
  /\ files' = files \ UndoneFiles
  /\ symbols' = [s \in Symbols |-> IF s \in UndoneSymbols THEN None ELSE symbols[s]]
  /\ extensions' = [n \in Numbers |-> IF n \in UndoneNumbers THEN None
                                      ELSE extensions[n]]
  /\ added' = SubSeq(added, 1, Last(checkpoints))
  /\ checkpoints' = Front(checkpoints)

\* RollbackFile is not called.
StillDeferred_All(deferred) == deferred

\* DeferredValidation::RollbackFile for every file that goes.
StillDeferred(deferred) == deferred \ UndoneFiles

\* The same for a file with errors, which is remembered as bad by name and by
\* what was looked for; BuildFile in a pool without a database remembers nothing.
Fail(t) ==
  /\ Ends(t)
  /\ LET top == Last(frames)
         f   == top.file
     IN  /\ top.errors \/ ProtoOf(f).fault # "none"
         /\ Return(t, FALSE, StillDeferred(Last(calls[t]).deferred
                               \cup {g \in {f} : HandsOver(g)}))
         /\ Remember(top.cause, top.key, IF top.cause = "build" THEN {} ELSE {f})
         /\ rollbacks' = [rollbacks EXCEPT ![f] = @ + 1]
  /\ RollbackToLastCheckpoint
  /\ UNCHANGED <<db, pending, mutex, left, answer, validated, tried>>

-----------------------------------------------------------------------------
(* The public calls *)

NewCall(r) ==
  [op |-> r.op, key |-> r.key, deferred |-> {}, result |-> None,
   at |-> IF db.backed /\ r.op \in {"symbol", "extension"} THEN "fast" ELSE "lock"]

At(t, at) == calls[t] # <<>> /\ Last(calls[t]).at = at

Goes(t, at, result) ==
  calls' = [calls EXCEPT ![t] = Replace(@, [Last(@) EXCEPT !.at = at,
                                                            !.result = result])]

\* A pool without a database has no mutex_ and is used by one thread at a time.
Call(t, r) ==
  /\ calls[t] = <<>> /\ left[t] > 0
  /\ IF db.backed THEN r.op # "build" ELSE \A u \in Threads : calls[u] = <<>>
  /\ calls' = [calls EXCEPT ![t] = <<NewCall(r)>>]
  /\ left' = [left EXCEPT ![t] = @ - 1]
  /\ answer' = [answer EXCEPT ![t] = NoAnswer]
  /\ UNCHANGED <<db, tables, known, build, mutex, validated, tried, rollbacks>>

\* The lookup under the reader lock with which FindByNameHelper and
\* FindExtensionByNumber begin.
FastPath(t) ==
  /\ At(t, "fast") /\ mutex = None
  /\ LET call == Last(calls[t])
         hit  == /\ call.op = "symbol" => badSymbols = {} /\ badFiles = {}
                 /\ Lookup(call) # None
     IN  IF hit THEN Goes(t, "answer", Lookup(call)) ELSE Goes(t, "lock", None)
  /\ UNCHANGED <<db, tables, known, build, mutex, left, answer, validated, tried,
                 rollbacks>>

\* The files that failed for an earlier call are still refused.
ForgetKnownBad_Symbols == badFiles' = badFiles /\ badSymbols' = {}

\* "this is cleared at the beginning of each public API call"
ForgetKnownBad == badFiles' = {} /\ badSymbols' = {}

\* The lookup under mutex_; what is in the tables is returned at once.
LockAndFind(t) ==
  /\ At(t, "lock") /\ mutex = None
  /\ LET call == Last(calls[t]) IN
       IF Lookup(call) # None
         THEN Goes(t, "answer", Lookup(call)) /\ UNCHANGED mutex
         ELSE Goes(t, "search", None) /\ mutex' = t
  /\ ForgetKnownBad
  /\ tried' = {}
  /\ rollbacks' = [f \in Files |-> 0]
  /\ UNCHANGED <<db, tables, build, left, answer, validated>>

\* The fallback database is asked, or the file given to BuildFile is built.
Search(t) ==
  /\ At(t, "search")
  /\ LET call  == Last(calls[t])
         cause == IF call.op = "container" THEN "symbol" ELSE call.op
     IN  IF cause = "build"
           THEN /\ frames' = <<NewFrame(call.key, "build", call.key)>>
                /\ tried' = tried \cup {call.key}
                /\ UNCHANGED <<known, pending>>
           ELSE TryFind(<<>>, cause, call.key)
  /\ Goes(t, IF frames' = <<>> THEN "lost" ELSE "build", None)
  /\ UNCHANGED <<db, tables, mutex, left, answer, validated, rollbacks>>

\* The attempt has ended: its result is looked up, mutex_ is released.
Unlock(t) ==
  /\ At(t, "found") \/ At(t, "lost")
  /\ mutex' = None
  /\ LET call == Last(calls[t]) IN
       Goes(t, IF call.deferred = {} THEN "answer" ELSE "validate",
               IF call.at = "found" THEN Lookup(call) ELSE None)
  /\ UNCHANGED <<db, tables, known, build, left, answer, validated, tried, rollbacks>>

\* DeferredValidation::Validate looks up FeatureSet in the same pool.
Validate(t) ==
  /\ At(t, "validate")
  /\ calls' = [calls EXCEPT ![t] =
       Append(Replace(@, [Last(@) EXCEPT !.at = "judge"]),
              NewCall([op |-> "symbol", key |-> FeatureSet]))]
  /\ UNCHANGED <<db, tables, known, build, mutex, left, answer, validated, tried,
                 rollbacks>>

\* The rest of it: one expired feature, and the call returns nothing.
Judge(t) ==
  /\ At(t, "judge")
  /\ LET call == Last(calls[t])
         bad  == \E f \in call.deferred : ProtoOf(f).features = "expired"
     IN  /\ validated' = validated \cup call.deferred
         /\ calls' = [calls EXCEPT ![t] = Replace(@,
              [call EXCEPT !.at = "answer", !.deferred = {},
                           !.result = IF bad THEN None ELSE @])]
  /\ UNCHANGED <<db, tables, known, build, mutex, left, answer, tried, rollbacks>>

Answer(t) ==
  /\ At(t, "answer")
  /\ calls' = [calls EXCEPT ![t] = Front(@)]
  /\ LET call == Last(calls[t]) IN
       answer' = [answer EXCEPT ![t] =
         IF Len(calls[t]) > 1 THEN @
         ELSE [request |-> [op |-> call.op, key |-> call.key], result |-> call.result]]
  /\ UNCHANGED <<db, tables, known, build, mutex, left, validated, tried, rollbacks>>

Step(t) ==
  \/ FastPath(t) \/ LockAndFind(t) \/ Search(t) \/ Unlock(t)
  \/ Validate(t) \/ Judge(t) \/ Answer(t)
  \/ LoadImport(t) \/ AddFile(t) \/ AskForType(t) \/ CrossLinkField(t)
  \/ Succeed(t) \/ Fail(t)

Next == \E t \in Threads : Step(t) \/ \E r \in Questions : Call(t, r)

Fairness == \A t \in Threads : WF_vars(Step(t))

Spec == Init /\ [][Next]_vars /\ Fairness

-----------------------------------------------------------------------------
(* Properties *)

\* What BuildFile may still roll back, and what it no longer can.
Uncommitted == UNION {e.files : e \in ToSet(added)}
Committed   == files \ Uncommitted

\* Seen from outside the pool is a set of whole files that only grows.
Pool == INSTANCE FilePool WITH built <- Committed
ImplementsFilePool == Pool!Spec

FrameOK(i) ==
  LET fr == frames[i] IN
  /\ fr.file \in Files /\ fr.errors \in BOOLEAN /\ fr.visible \subseteq files
  /\ fr.phase \in {"imports", "links", "end"}
  /\ fr.phase = "imports" => fr.import \in 1 .. Len(ProtoOf(fr.file).imports) + 1
  /\ fr.phase = "links" =>
       /\ fr.link \in 1 .. Len(ProtoOf(fr.file).links) + 1
       /\ fr.file \in files

\* The builders that load their imports, and those that have passed them.
Loading == {i \in DOMAIN frames : frames[i].phase = "imports"}
Started == DOMAIN frames \ Loading

\* Types, and the discipline of the stacks: a builder that loads its imports is
\* on the list of pending files, one that has passed them has a checkpoint and
\* is in the tables, and neither is left over when mutex_ is free.
TypeOK ==
  /\ files \subseteq Files /\ badFiles \subseteq Files /\ badSymbols \subseteq Symbols
  /\ symbols \in [Symbols -> Files \cup {None}]
  /\ extensions \in [Numbers -> Files \cup {None}]
  /\ mutex \in Threads \cup {None} /\ (mutex = None => frames = <<>>)
  /\ \A i \in DOMAIN frames : FrameOK(i)
  /\ db.backed =>
       /\ Len(pending) = Cardinality(Loading)
       /\ \A i \in Loading : pending[Cardinality({j \in Loading : j <= i})] = frames[i].file
  /\ Len(checkpoints) = Cardinality(Started)
  /\ checkpoints = <<>> => added = <<>>
  /\ \A t \in Threads : left[t] \in 0 .. MaxCalls

\* All traces of a file that failed are gone, and all of one that succeeded are
\* there: a symbol or number in the tables belongs to a file in the tables; a
\* committed file has its package, its symbols and its imports there, and each
\* of its links leads to a type of a committed file.
TablesWhole ==
  /\ \A s \in Symbols : symbols[s] # None =>
       symbols[s] \in files /\ Pool!Defines(symbols[s], [op |-> "symbol", key |-> s])
  /\ \A n \in Numbers : extensions[n] # None =>
       extensions[n] \in files /\ Pool!Defines(extensions[n], [op |-> "extension", key |-> n])
  /\ \A f \in Committed :
       LET p == ProtoOf(f) IN
       /\ ToSet(p.imports) \subseteq Committed
       /\ \A s \in p.symbols : symbols[s] = f
       /\ p.package # None => symbols[p.package] \in Committed /\ IsPackage(p.package)
       /\ \A i \in DOMAIN p.links :
            /\ \E s \in ToSet(p.links[i].scopes) :
                 symbols[s] \in Committed /\ ~IsPackage(s)
            /\ p.links[i].number # None => extensions[p.links[i].number] \in Committed

\* The files whose features some call under way still has to check.
Deferred == UNION {UNION {calls[t][i].deferred : i \in DOMAIN calls[t]} : t \in Threads}

\* Validation is deferred, and never lost or done for a file that is gone: a
\* call only refers to files in the tables (their memory is freed with a
\* rollback), and a committed file that uses features has been checked or is
\* in the care of the call that loaded it.
ValidationKept ==
  /\ Deferred \subseteq files
  /\ \A f \in Committed : ProtoOf(f).features # "none" => f \in Deferred \cup validated

\* Errors are remembered for one public call: no file fails to build twice in
\* it, whatever leads to the file, so that a call ends after as many failures
\* as files; and what it refuses as bad it has itself begun to build, or not
\* found in the database: nothing that only failed for an earlier call.
FailuresKnown ==
  /\ \A f \in Files : rollbacks[f] <= 1
  /\ badFiles \subseteq tried \cup (Files \ db.present)

\* No trace is left of what failed: when FindFileByName has returned nothing,
\* the file is not in the pool, and searching for it again fails.
NoTraceOfFailure ==
  \A t \in Threads :
    (answer[t] # NoAnswer /\ answer[t].request.op = "file" /\ answer[t].result = None)
      => answer[t].request.key \notin files

\* Building terminates, imports in a circle and types found in files under
\* construction included, and every public call returns.
CallsReturn == \A t \in Threads : calls[t] # <<>> ~> calls[t] = <<>>
=============================================================================
