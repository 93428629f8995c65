# Verification of protobuf-java

TLA+ specifications of the concurrent and stateful core of this repository, TLC configurations that
check them on small instances, and TLAPS proofs of what matters most for every size.

The repository holds two code bases: the C++ Protocol Buffers tree (`src/src/google/protobuf`), which is the
reference, and a port of its compiler to Java (`protobuf-java-compiler`) with two Maven plugins. What is
concurrent or keeps state over many calls is nearly all in the C++ part: memory (arenas), the lazily
synchronised map fields, the descriptor pool, the message factories, the streams, and the process that talks
to plugins. The Java part is a sequential compiler, but for its own version of that process.

Contents: [parts](#1-the-system) · [plan](#2-plan) · [modules](#3-modules-and-the-code) ·
[runs](#4-runs) · [fairness](#5-fairness) · [proofs](#6-proofs) · [findings](#7-findings) ·
[limits](#8-what-is-not-shown)

## 1. The system

Each entry: state; operations; how it interacts; what is hard; what makes it correct. `PROJECT.json` lists
the same parts with their sources and status, and the hazards at their lines.

**ThreadSafeArena** (`arena.cc`, `thread_safe_arena.h`). State: `tag_and_id_`, the list of chunks from
`head_` with atomic slots, `first_owner_`, `mutex_`; per thread a `ThreadCache`; the global `lifecycle_id_`.
Operations: construct, any allocation (which looks up or registers the caller's SerialArena), `Reset`,
destroy. Every message with an arena calls it. Hard: registration races without a lock; caches of
other threads are never invalidated, only outdated by ids. Correct: each thread has one SerialArena per
arena and life, nobody else uses it, none is lost or freed twice.

**SerialArena** (`serial_arena.h`, `arena_cleanup.h`, `string_block.h`). State: blocks with `ptr_` and
`limit_`, cleanup chunks, string blocks, cached free arrays, two counters. Operations: allocate objects,
arrays, strings and objects with destructors, return arrays, account, reset. Called by one thread, except for
`SpaceUsed` and `SpaceAllocated`. Hard: arithmetic of alignment, headers and rounding, lists that grow
geometrically, unsigned corrections. Correct: no byte handed out twice, each destructor run once and in
order, counters exact; for the racing reader, bounded.

**MapFieldBase** (`map_field.cc`). State: the hash map, a tagged pointer to a prototype or a payload, in it
the repeated field, `state_` and a mutex. Operations: const accessors of both forms, `SpaceUsed`, mutators,
swap and merge. Called by reflection, parsing and generated code. Hard: const calls rewrite a representation.
Correct: nobody uses what another rewrites; every accessor shows the field's value.

**Subprocess and plugins** (`subprocess.cc`, `plugin.cc`; `Subprocess.java`, `Plugin.java`). State: a child,
two pipes, the signal handler, positions in request and response. Operations: `Start`, `Communicate`; on the
other side `PluginMain`. Called by CommandLineInterface. Hard: two processes that block on each other,
children that die at any point. Correct: the call returns, cleans up, and true means a complete response.

**DescriptorPool** (`descriptor.cc`, with `feature_resolver.cc`, `symbol_checker.cc`). State: tables of symbols,
files and extensions, checkpoints, pending files, bad names, a mutex, and in each lazily linked field a
`once_flag`. Operations: `BuildFile`, the `Find` family, lazy loading from a **DescriptorDatabase**.
A reader lock suffices for what is in the tables. Hard: nested builds with rollback; validation after the mutex is released; lazy
links that call back. Correct: a file is in the pool with all it defines, or not at all.

**DynamicMessageFactory, GeneratedMessageFactory** (`dynamic_message.cc`, `message.cc`). State: tables of
prototypes under locks. Operations: `GetPrototype`, registration. They call each other and the pool. Hard:
recursion through recursive types, double-checked lookup. Correct: one prototype per type, complete when
another thread sees it.

**EpsCopyInputStream, CodedInputStream and the zero-copy streams** (`parse_context.cc`, `io/`). State: buffers, limits,
a patch buffer. Operations: next, back up, push and pop limits, read. Hard: values across buffers, limits
relative to moving ends. Correct: the bytes read do not depend on how the stream is cut.

**RepeatedField, RepeatedPtrField, ExtensionSet, Map** (`repeated_field.h`, `repeated_ptr_field.*`,
`extension_set.*`, `map.h`). State: containers with small and large forms, cleared objects kept for reuse,
memory from arenas. Hard: changes of form in the middle of an operation, elements that are arguments
too, ownership across arenas. Correct: each behaves as the sequence or function it stands for.

**Reflection, presence bits, strings on arenas, UnknownFieldSet, weak messages**: sequential accessors with
offsets and tags from generated tables.

**Text, JSON, differencer, field masks, time**: pure functions on whole messages.

**Compiler front end**, C++ and Java: Tokenizer and Parser (text to descriptors), Importer (recursion over
imports, with a cache and the set of files being loaded in Java, through the pool in C++),
CommandLineInterface (flags, plugins, output), ZipWriter, SCC (Tarjan's algorithm with a memo), features,
editions, retention. Hard: early returns in the recursion of Importer, completeness of SCC. Correct: an import
cycle is reported and leaves nothing behind; components are the classes of mutual reachability.

**Generators** for Java (both), C++, C#, Kotlin, Objective-C, PHP, Python, Ruby, Rust: print text,
no state. **Runtime compiler** (Java): generates, compiles and loads. **Maven plugins**: configuration and
file I/O.

## 2. Plan

Order by how much depends on the part and how little a test can reach it.

| # | modules | question | state |
|---|---|---|---|
| 1 | SerialRegistry, ThreadSafeArena, ThreadSafeArenaProofs, ThreadSafeArenaListProofs | one SerialArena per thread and life? | done, proved |
| 2 | ArenaLayout, SerialArena, SerialArenaProofs | memory, destructors, accounting | done; memory proved |
| 3 | ArenaSpaceUsed, ArenaSpaceUsedProofs | what a racing reader is told | done, proved |
| 4 | MapValue, MapFieldSync, MapFieldSyncProofs | lazy synchronisation, merge, swap | done, proved |
| 5 | Subprocess, SubprocessProofs | plugins and filters, C++ | done, safety proved |
| 6 | FilePool, DescriptorPool, DescriptorPoolProofs | rollback, nested builds, late validation | done for pools that build eagerly, proved |
| 7 | ByteStream, EpsCopyInputStream, EpsCopyInputStreamProofs | any chunking reads the same message | done, proved |
| 8 | MessageFactories | one prototype per type, above 6 | |
| 9 | RepeatedPtrField, ExtensionSet | a sequence, a function, with reuse and changes of form | |

The Java parts that keep state are left out after all: Importer is the recursion of 6 without threads and
checkpoints, Subprocess that of 5 without its deadlock, and SCC is a textbook algorithm.

Compositions: SerialArena and ArenaSpaceUsed share ArenaLayout, and four modules relate a component to its
promise; 8 calls 6, and 9 relies on what 2 promises of ReturnArrayMemory. Abstract specifications: SerialRegistry,
MapValue, FilePool, ByteStream, then the sequence. Bounds: two to four threads, two arenas, imports among up to
five files, streams of eight bytes in all chunkings.

The theorems of the modules that are done are in section 6. Modules to be proved about keep recursion in functions or folds, never in RECURSIVE operators.

## 3. Modules and the code

Every definition that stands for code has its lines in the `map` of `PROJECT.json`. Operators named
`X_Something` before an operator `X` are faulty variants of it: with any one in the place of `X` the property
named for it in `mutants` fails.

**ThreadSafeArena.** An action is one access to memory that other threads may access, with the local
computation after it: `LoadHead`, `FetchAdd`, `ChunkFull`, `StoreId`, `StoreArena`, `Lock`, `Grow` are the
lines of `AddSerialArena` and `insert`; `GetSerialArenaFast` and the three `Fallback` actions are the four ways to
find a SerialArena. The list of chunks is a sequence with the head last, so that the local `head` is an
index. `Construct`, `Reset`, `Destroy` require that nobody is in the arena, the contract of arena.h.
Addresses are reused: a freed SerialArena may be allocated again at its place, an arena may be constructed where
another was, and a thread may take over the `ThreadCache` of one that ended (`ThreadExit`). The 64-bit id is a
pair of batch and index.

**SerialRegistry** is the promise of it: a function from arenas and threads to SerialArenas that only
`Acquire` extends and only `Reset` and `Destroy` forget. `Registry` in ThreadSafeArena is the mapping: an entry counts
from the store that fills its slot.

**ArenaLayout** has the sizes of blocks and string blocks as functions of the last one.

**SerialArena** keeps memory by address (block and offset); blocks come at any address and of any surplus that
`AllocateAtLeast` may give, within small sets. Objects, arrays, strings and cleanups are separate actions, each
with the fallback the code takes when its block, chunk or string block is full. Ghosts remember what clients hold,
what was registered and what was handed out; `done` is what the last `Reset` or `Destroy` did.

**ArenaSpaceUsed** is the same counters shared with a reader. Each atomic is the history of its values. A load
returns any value not older than the reader's view of it; a release store carries the owner's view, an acquire
load takes it over. The owner's stores take effect one at a time, in program order. The ghost `closed` has for each
block that is no longer the head the bytes used up to it. The ghost `memory` has what the heap has provided; `Obtain` says
that it stays below half of the address space, without which no sum modulo 2^64 could be told from a larger one.

**MapFieldSync.** One action per shared access of a const call, a step per entry copied while one
representation is rewritten from the other; mutators are atomic, for no other thread may use the message then.
`MergeFrom(t, f)` writes f, which its thread must have for itself, but only reads the other field: it goes through
`GetMap` there like any const call, beside other readers of that field, and is the step that follows.
After a call has returned, its caller goes on looking at the result without a lock (`read map`, `read rep`).
Each of the two fields is in a message on the heap or on an arena; `Swap` exchanges maps and payloads within an
arena, and across arenas the payloads go by copies, so that none outlives its arena.
**MapValue** is the promise: the values of the fields and what each thread is shown.

**DescriptorPool.** The recursion of building is a stack, `frames`, of one record per `DescriptorBuilder`, with the
control state in it: imports are loaded before the tables are checkpointed, the names of the file are linked after, and
a link may build yet another file. Frames belong to the thread that holds `mutex_`; a builder is cut into an action
per import, per link, and for what it does in between, so that errors may strike at each. `Fail` and
`RollbackToLastCheckpoint` undo what the three lists say was added since the checkpoint; `Unlock` and `Validate` are separate
steps, with the other threads in between, and `Validate` calls the pool again. A descriptor is reduced to what
the pool decides by: its imports, its names, the names it refers to with the scopes they are looked up in, an error of its own
(found before or after validation is deferred) and whether its features are valid.
**FilePool** is the promise: a set of files that only grows by sets complete with their imports, without circles or
names defined twice, and answers that name a file of the pool with what was asked for.

**EpsCopyInputStream.** Bytes are named by their position in the stream; the patch buffer holds such names, and memory of
the stream is addressed by them, so that what a read would see is there to compare. `NextBuffer` has the three ways on; a chunk of
any size may come. `Done` and `Flip` are `DoneWithCheck` and a turn of the loop of `DoneFallback`; reads that span buffers
take an action for each buffer. The parser is the client that the protocol allows: it asks `Done`, then reads a tag with
its value (`Token`), opens a message (`Message`), or a field of some length (`Field`). `Finish` is what the four entry points
of message_lite.cc do after the loop. The ghosts `goal` and `ends` say where the input is and where its messages end.
**ByteStream** is the promise: it has positions and ends and no buffers; it succeeds only at the right place, and fails only if
lengths do not fit.

**Subprocess.** Parent and child take turns at the level of system calls. Pipes hold `Capacity` units and the
set of processes that hold each end, both ends open in both processes after fork. A `write` to a blocking
descriptor moves a unit at a time and returns when all is written or the last reader has gone; `select` says only
that something can be moved. The child is a plugin built on `PluginMain`, which reads to the end of its input
before it writes, or a filter with any order of reads and writes; both may fail or crash at any moment.

## 4. Runs

| run | instance | distinct states | shows |
|---|---|---|---|
| arena_race | 1 arena, 4 threads, chunks of 2 and 3 | 130 961 | inserts on the fast path, on a full chunk and under the mutex: no overwriting, double entry, gap or runaway size; every call returns |
| arena_life | 2 arenas, 2 threads, ids in batches of 2, 2 batches | 24 800 (symmetric) | caches across reset, destruction and rebuilding; none lost; the arena implements SerialRegistry |
| serial | 2 blocks, 4 pieces, 5 cleanups, 5 strings, all kinds of first block | 306 606 | no byte handed out twice; cached arrays are large enough; exact accounting; destructors once and in order; everything freed |
| serial_sentry | the same, no block | finding | `SpaceUsed` of an arena without a block |
| spaceused_race | 4 blocks, 5 allocations, 3 string blocks | 953 485 | the result without strings is bounded on both sides; exact when synchronised |
| spaceused_overestimate | 2 blocks, 4 allocations | finding | the documented bound fails with strings |
| mapfield | 2 threads, 2 fields, an arena, 2 keys, 2 values, lists up to 2 | 378 126 | no data race, one payload, on its own arena; the fields implement MapValue through merges and swaps; calls return |
| subprocess_plugin | pipes of 2, requests to 5, responses to 4, requests to filters to 2 | 16 648 | the call returns, cleans up, and is right when it says true |
| subprocess_filter | the same, requests to filters to 5 | finding | the mutual wait |
| pool | 2 threads, a call each, 266 databases of up to 5 files | 354 912 | tables are whole between builds; no validation lost; no file built twice after it failed, or refused untried; the pool implements FilePool; calls return |
| pool_trace | 1 thread, 2 calls, a file with expired features | finding | a search that fails leaves the file behind |
| epscopy | streams to 8 bytes, slop of 3, varints to 2, two nested limits | 6 311 905 | bytes, limits and BackUp stay aligned in every chunking; the parse implements ByteStream |

`ChunkListSound` says in one what the list of chunks must be: full behind the head, filled without holes when nobody is at it, and
with a size that stays near the capacity. `CountersExact` is both counters of a SerialArena at once.

Why these bounds are enough to be interesting. *arena_race*: with four threads, one of which owns the first
SerialArena, three compete for two slots, so that one fails on the fast path while others still store; the second
chunk has room again, so that the retry under the mutex is seen, and it can fail too. *arena_life*: four ids in
two batches let a thread use up a batch and draw from a second, and two arenas let a cache be outdated by the other
arena, by a reset by either thread and by a rebuild. Few of its inserts meet: that a race neither overwrites nor doubles an entry
is seen in *arena_race*, and that none is lost over resets as well is what the theorem on `NoSerialLost` proves. The growth
constants are those of the code in form (`4x`, a limit in bytes), small in value. *serial*: the constants of a 64-bit build are divided by four where they bound a
list, so that a third chunk and a third string block are reached; sizes 8 and 48 lie on both sides of what is
left in a block; the user's blocks of 0, 16, 44 and 64 bytes are absent, too small for a policy, odd and good; the arrays
of 24 bytes are not powers of two. *spaceused*: the reader may see `head_`, `ptr_` and `space_used_` of three
different blocks; the sum is modulo `Word`, which is far above any sum that did not wrap. *mapfield*: two
threads race for one payload while the mutators of both fields come in between; a key with two values lets a later entry override an
earlier one; const accessors use one field only, because what they do to a field does not depend on another: their calls begin while
the other is as made, and it may be merged into while they go on; one thread that is alone merges whatever the fields hold
(`CallsStart`). The other mutators come when no thread is inside a call of either field (`MCNext`). *pool*: the databases are all graphs of imports among three files that are interesting (circles, missing files, each
order), with a link that finds a file not imported; two files that build each other by name, with every combination of
errors and features; and single cases: public imports, a name with two files, a file that imports itself, an index that
misleads. A call starts while `mutex_` is free (`CallsStartFreely`), as it commutes with the steps of its owner otherwise.
*epscopy*: the real slop is 16, the real varint 10, a header at most 10; the model keeps their order, with a header of 1 (2 was run
as well). Eight bytes are two chunks that are used in place, with a patch between them, or up to eight small ones; a cord
of seven exceeds what is copied, and limits lie in front of, at and behind every boundary, the end of the stream included. *subprocess*: requests and
responses longer than a pipe, and both shorter; a request of five units is partly in the pipe, partly unwritten and
partly read at once.

Deadlock is checked in the runs of MapFieldSync, ThreadSafeArena and SerialArena. In Subprocess, DescriptorPool and
EpsCopyInputStream everything stops when the calls have returned, and in ArenaSpaceUsed when the allocations are used up, so it
is switched off there; that the calls of Subprocess and DescriptorPool return is a property instead.

## 5. Fairness

*arena_race*: weak fairness of each thread's steps inside a call, that is, the scheduler runs it. Nothing is assumed of
`mutex_` beyond that: a thread that registered does not come for it again before the arena is reset, which waits for
those inside. *mapfield*: the same for each reader; `AllReturn` speaks of runs in which calls stop coming.
*pool*: weak fairness of each thread inside a call; the number of calls is bounded, so that `mutex_` stays free in the
end for a thread that waits for it, and weak fairness is enough.
*subprocess_plugin*: weak fairness of protoc and of what the child does as long as it has something to do. Failures, crashes,
early exits and interrupted selects are not fair: they may happen or not.

## 6. Proofs

**ThreadSafeArenaProofs**, for any sets of threads, arenas and SerialArenas, any number of batches and any growth
constants that satisfy `ConstantsAssumption` (addresses of different things are different, and a chunk that
grows by `GrowthFactor` holds one more entry at least). `TypeOK`, `CacheCoherent`, `SerialExclusive` and
`OneEntryEach` are not inductive: that a cache hit is right needs that ids are never issued twice, and that a slot
has one writer needs to know how far each insert has come. The invariant `IInv` adds

- `ControlInv`, `LockInv`: where each call stands, and that under the mutex the local head is the head, as only
  the holder adds a chunk;
- `IdInv`: every id in use was issued by a batch, and is below what its thread will issue next; live arenas differ in ids;
- `SlotInv`, `OneSlotInv`, `UnlistedInv`: a slot is empty, has an id whose thread is about to store the arena, or both, of the
  right owner; a thread has one slot, none of them filled while it inserts;
- `ClaimInv`: an index that `fetch_add` gave out is empty and nobody else's;
- `NewSerialInv`, `UseInv`: what a thread inserts or uses is its own in this life.

There is a lemma per action, with a step for each conjunct it can disturb. The write-back of the size after a
failed insert is the interesting one: it may lower the size, but never below an index given out, because those are below
the capacity.

**SubprocessProofs**, for pipes and messages of any size. `IInv` says who holds which end of which pipe as a function
of the two control states, what went through the pipes, that what `select` found readable stays so (only the parent
reads), that SIGPIPE is ignored while the pipes are used, and that a plugin that has seen the end of its input was sent
all of the request. From it follow the six safety properties of the run, for `NoMutualWait` with the assumption that
requests to filters fit in a pipe; run subprocess_filter shows that it is needed.

**ThreadSafeArenaListProofs** goes on from `IInv` to the list as a whole: `NoSerialLost`, `ChunkListSound`, `EntriesStable`
and the refinement of SerialRegistry. `ListInv` adds

- `LostInv`: a SerialArena that exists is in a slot of its arena, or in the hands of the thread that inserts it;
- `HoleInv`: an empty slot below the size has a thread about to fill it;
- `RoomInv`: behind the head every chunk is full, and so is the one that a thread has found full before it comes to the mutex;
- `SizeInv`: the size of a chunk exceeds its capacity by at most the number of threads between their failed `fetch_add` and their
  write-back. Only finitely many threads are in calls, as calls begin one by one, so that this number exists.

Most actions are one of few effects on the list (`Quiet`, `Writes`, `Sizes`, `Extends`, `Renews`), and the lemmas are about those.
For the refinement each step leaves every entry as it is (`Same`), adds the entry of one thread (`Acquires`), or renews
an arena; `StrangerInv` says that a thread which inserts is not registered yet.

**MapFieldSyncProofs**, for any fields, arenas, threads, keys and values, and lists of any length: `TypeOK`, `NoDataRace`,
`OnePayload`, `CleanAgrees` and the refinement of MapValue. `Inv` says what each control state has seen: a
thread that holds a mutex holds that of the payload it works on (`Holding`, `Locking`); the payload it found is the one
that is published (`Found`, `Publishing`); a state that it has seen to be settled stays so while const calls run
(`Steady`), because only the transition out of the other state is left to them; and what has been copied so far is the part of the source up
to the entry it stands at (`Copying`). Three lemmas carry nearly all of the proof, one per kind of step: of a
thread that looks, of one that works under the mutex, and of a mutator, during which nobody else is in a const call.
That the map is the one which the list stands for needs the last entry of each key, hence that a set of positions in a list
has a greatest one; this is where well-foundedness of the naturals (`WFMin`) takes the place of induction.

**EpsCopyInputStreamProofs**, for streams, chunks, slop, varints and nesting of any size: `Aligned`, and the refinement of
ByteStream. Pointers, limits and the bytes of the two buffers are all measured from one point, the position of `buffer_end_` in the stream
(`Base`); `IInv` says where each kind of next chunk puts it, that the bytes in front of the parser are those of the stream
as far as it was taken (`BufferInv`), what may still be asked of the stream (`OverallInv`), that limits are where the ends of the messages are
(`ChainInv`), and what each control state knows (`ControlInv`). A step reads on within the buffer, goes on in the next one, or crosses
from one to the other. `Aligned` has the hypothesis that no tag ends a bounded parse: it is false otherwise (section 7), and
the run makes the same choice. The refinement needs no such hypothesis. It needs to know, once the loop has ended, that an end
other than that of the input is an error (`Malformed`).

**ArenaSpaceUsedProofs**, for any sizes of blocks, strings and allocations: `TypeOK`, `CountsFullBlocks`, `BoundedWithoutStrings`
and `ExactWhenQuiet`. The owner's call is a list of stores that take effect one at a time, so what the call owes is said of
the values that the atomics will have once these are made (`Final`); `Accounts` says of them that

    (space_used_ + used in the head + used in the active string block) % Word = bytes handed out

and that all memory lies in half of the address space. What a reader may see is said of every entry of every history
(`Stores`), and what it may still see of the others is said of the view that came with an entry of `head_` (`Views`, `Knows`): a
`ptr_` of that block or a later one, a `space_used_` that has all blocks before it. `Reading` is the same for the reader in
the middle of its call; `QuietReading` adds up exactly when the owner was idle. The owner's calls have one
lemma for what they extend and one for what they leave (`Grows`), the stores one for the entry they append (`Appends`), the
loads one for the view (`LooksOn`). The provers know nothing of `%` with a modulus that is not a numeral; what the
proof needs of it is derived at the beginning of the module.

**DescriptorPoolProofs**, for any files, names, databases, threads and numbers of calls: `TypeOK`, `TablesWhole`, `ValidationKept`,
`FailuresKnown` and the refinement of FilePool. Between builds the tables are whole, but while builders are nested they are not, and each
builder may still be rolled back with all that was built inside it. So the invariant speaks of the tables as they would be at every
*cut*: at each checkpoint, and at the end of the three lists (`CutInv`, over `FilesAt`, `SymbolsAt`, `NumbersAt`). A rollback then moves
to a cut that is known to be good, and an addition matters to the last cut only, since an entry names only what was not
there before. At a cut, every file that no builder claims is whole, one that a builder claims is whole as far as the
builder has linked it (`BuilderIn`), and the files not known to fail are free of circles. Around that stand

- `StackInv`, `PendingInv`: checkpoints rise, and belong to the builders that have passed their imports (`Rank` says which to
  which); the others are the pending files, in the same order; no file has two builders;
- `OwnInv`: what the first entry behind a checkpoint added is the file of its builder, or nothing if it ends in errors;
- `CallsInv`: one thread holds `mutex_`, in its innermost call, and all calls around it wait in `Validate`; a result that has been
  found stays committed.

They are inductive together (`Core`). `DeferInv` and `FailInv` rest on them: a file with features goes from its builder to the call
that holds `mutex_` and from there into `validated`, and a file that failed is among the bad files until the call is over. `TriedInv`
is the other half of `FailuresKnown`: every file that is being built or pending was begun in this call, and what a search refuses as a
circle is one of those, so that nothing gets among the bad files untried but what the database does not have. For the
refinement a step commits nothing unless it clears the last checkpoint, and then adds all of the tables at once, of which the cut at the
end says that they are whole. The steps of the builders have few effects (`Turned`, `Starts`, `Enters`, `Links`, `Commits`, `Undoes`), and the lemmas
are about those. Of the databases it is assumed that they have finitely many files, and of each link that it has a scope to be looked up in;
their indexes may name any file.

**SerialArenaProofs**, for any sizes and layout constants: `TypeOK`, `NoOverlap` and `CachedFits`. That pieces do not overlap is
inductive only together with the knowledge that

- ptr_ and limit_ belong to the head block, and an allocation takes its bytes from above ptr_ or from a new block
  (`MemInv`, `Extends`; `AllocateNewBlock` makes room for the padding of an over-aligned object too);
- no piece is used in two ways, or is on two lists or twice on one (`OnceInv`): otherwise the same memory could be handed out
  a second time without ever overlapping *another* piece;
- a free piece is on the list of its size, rounded down (`CacheInv`). The request looks in the list of its own size, rounded up.
  `TakeFits` says that the two meet: if n - 1 has one bit less than s, then n <= s;
- the first block is still the one that holds the policy, and has room behind its header (`PolicyInv`), which is what
  `Reset` goes back to; of clients' pieces only the policy is in it then (`OwnedInv`);
- a chunk of cleanups has a node at least (`CleanupInv`), and a string block a whole number of strings (`StringsInv`), after
  doubling and rounding.

A step leaves the space as it is (`SameSpace`) or extends it by one piece (`PieceIsAdded`); the free lists take a piece
(`PieceIsPushed`, `PieceBecomesArray`) or give one, of which the client gets the part it asked for (`PieceIsTaken`).

Assumed is what the modules state as ASSUME, which every run evaluates for its constants: that different things have
different addresses and that NULL is none of them; that sizes are natural numbers, a string block has room for a string, and
`min_size()` is not above `max_size()`, a multiple of 8; that a cleanup chunk has room for a node, and its largest size is not below its
first; that requests are for at least one byte, rounded up to 8, and for arrays at least 16, as the code asserts; and that the
first block of a SerialArena lies within the address space, in ArenaSpaceUsed within half of it.

Model-checked only are liveness (`CallsReturn`, `AllReturn`, `CommunicateReturns`), because fairness needs ENABLED, which the prover
does not have; and `CountersExact`, `DestroysOnce` and `FreesEverything` of SerialArena, which are about sums and concatenations over
lists of any length and need induction over them.

## 7. Findings

*serial_sentry, arena.cc:350.* `SerialArena::SpaceUsed` returns when the head is the sentry without adding `space_used_`.
Strings need no arena block: they come in string blocks from the heap, and each exhausted one is added to `space_used_`. An arena
that holds only strings thus reports those of its last string block, though arena.h:347 promises the total.
With any arena block the sum is exact, which is part of `CountersExact` of serial.

*spaceused_overestimate, arena.cc:285.* arena.h:353 bounds what a concurrent `SpaceUsed` may overestimate by the current
block size. With strings it may wrap below zero: the reader loads a new `string_block_unused_` with an old block, or the
correction of `space_used_` for an emplaced string block without the bump that it corrects. Without strings the bound holds
(`BoundedWithoutStrings`), and so does the one from below that keeps `ThreadSafeArena::SpaceUsed` (arena.cc:915) from
wrapping when it subtracts the size of the SerialArena (`CountsFullBlocks`).

*subprocess_filter, subprocess.cc:403.* subprocess.h:53 says of `Communicate` that "All this is done carefully to avoid
deadlocks". After `select` it writes all that remains to a blocking descriptor. A child that answers while it reads, and is
sent more than a pipe holds, blocks in its write while protoc blocks in its own. Plugins built on `PluginMain` are safe:
they have read everything before they write.

*pool_trace, descriptor.cc:2557.* The lifetimes of features are validated after `mutex_` is released. When that fails the
search returns nothing, but the file was committed before and stays; the same search made again, or by another thread in
between, returns it. descriptor_unittest.cc:13994 and :14002 say of failed searches that all traces are removed and that
searching again fails. The file of that test has an error that is rolled back, so that `NoTraceOfFailure` reads it more generally
than the test does: as what a search that returns nothing promises, whatever made it fail.

Four remarks without a run.

The order of searches matters to a pool with a database. Let a import b and d, d import b, b import c, and c have a field
whose type is D of d, which c does not import. The first `FindFileByName("a")` loads b and c for it, then finds D by name while b
is being built; d imports b, which is refused as recursive, and d is remembered as bad (descriptor.cc:5097), so that a fails for
"import d not found". The second call has forgotten that, finds b in the tables, and succeeds.

A bounded parse (message_lite.cc:269) calls `BackUp` also when a zero tag or an end-group tag has ended it before its
bound. It does not look for such a tag in the slop bytes, as `TrackCorrectEnding` would have it do, so that the next chunk
may be loaded already, or asked for in vain, and then more is given back than the last chunk has, against
zero_copy_stream.h:138. The parse fails anyway; only who goes on reading the stream could tell. `TagModes` leaves this
case out of epscopy; with it, `Aligned` is violated.

 map_field.h:412 says of CLEAN that the data in map and repeated field are the same; after a
synchronisation from a repeated field with two entries of one key it keeps both (map_field.cc:423-430), and `CleanAgrees` says what
does hold: the map is the one the list stands for. And when a request cannot be serialized (subprocess.cc:372) SIGPIPE stays ignored
and the child is neither sent an end of input nor reaped; `CleansUp` exempts this path by name.

## 8. What is not shown

- Parts with status not_modelled in `PROJECT.json`, for the reasons given there: next in the plan (section 2), sequential containers, pure data or
  text, or I/O of other programs.
- ThreadSafeArena: memory orders. Each access is atomic and sequentially consistent in the model; a walk that
  sees the size but not yet the slots is in it, a reordering of the stores of id and arena is not. Arena sampling,
  the block of the allocation policy and the surplus of `AllocateAtLeast` for chunks are left out.
- SerialArena: only the first one of an arena, used by one thread; destructors that allocate from the arena they
  are destroyed with; allocation failure, which aborts.
- MapFieldSync: the map iterators; memory orders, as above. A data race is stated as the overlap of a
  rewrite with a use.
- DescriptorPool: underlays, pools that build lazily (`lazily_build_dependencies_` and the links by `call_once`), placeholders for
  unknown, weak and option dependencies, `FindAllExtensions`, the interpretation of options, and names nested more deeply.
- EpsCopyInputStream: aliasing, the contents of values, MicroString and UTF-8 checks. A string that takes the place of a message
  (`AppendUntilEnd`) may be appended bytes that are not of the stream when the stream ends inside it; the parse then fails.
  Streams and bounds within 16 of 2^31, where `limit_` of a bounded parse that starts in the patch buffer would
  exceed INT_MAX (parse_context.h:380).
- Subprocess: the Windows implementation; failures of `pipe`, `fork` and `select`, which abort; `EINTR` of a write.
- Liveness for all sizes, and what recursive definitions compute for all inputs, which the prover cannot do.
