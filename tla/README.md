# A verification of htools

TLA+ models of [htools](../src/README): the C libraries and tools `hutils`, `htest`,
`hwt` and `hgmake`. The models are translated from the code, checked with TLC on small
instances, and for nine components proved with TLAPS for all instances. `PROJECT.json` lists the
runs, the code lines every definition stands for, the seeded faults each property was
shown to detect, the hazards and the findings.

1. [The system](#1-the-system)
2. [What is modelled](#2-what-is-modelled)
3. [Runs, bounds, fairness](#3-runs-bounds-fairness)
4. [Proofs](#4-proofs)
5. [Disagreements found](#5-disagreements-found)
6. [What is not modelled](#6-what-is-not-modelled)
7. [Plan](#7-plan)

## 1. The system

htools is a set of C libraries and programs. Nearly all state is in structs owned by
the caller; the concurrent parts are the processes of the test runner, the threads a
program makes with `hutils/thread.h`, and the network behind `hutils/udp.h`.

| Component | State | Operations | What is hard | What makes it correct |
|---|---|---|---|---|
| `hutils/vector.h` | `ofs size capacity data` | push, pop, insert, erase, at, reserve, resize, clean | the gap in front and the slack behind move with every call | it is a deque; gap and slack stay below a chunk; no own assertion fails |
| `hutils/pool.h` | pages, one free list, counts per page | alloc, free, init, shutdown | a page goes when its last object does, and its nodes are in a shared list | every node has one owner; a page lives exactly as long as its objects |
| `hutils/hashtable.h` | `mask num array` | insert, find, erase, shutdown | displacement, backward shift and rehash around the end of the table | it is a dictionary; every walk ends |
| `hutils/udp.c` | sockets, the pipe of a server, `g_is_setup` | create, free, send, receive, `server_write` | threads between `poll()` and the read; a lossy network; failing set-up | documented results; no call blocks; a write wakes the server; no leak |
| `hutils/thread.c` | mutex, condition variable, thread | lock, unlock, wait, signal, broadcast, start, join | wake-ups; return values that differ between functions | mutual exclusion, no lost wake-up |
| `hutils/lexer.c` | a ring of 256 characters, position, a callback | token_get, peek, extract, skip | refill across the end of the ring, the literal as long as the ring | tokens of the text, nothing lost |
| `hutils/config.c` | trees of sections and configs with access flags | load, get, set, write | files amiss at any token; numbers spelled in many ways; text larger than the ring | exactly the files of the format load; what is written loads as the same |
| `hutils/tree.h` | root and links of nodes the client owns | insert, remove, find, next, min, max | rebalancing cases that only some shapes reach | red-black: balanced, ordered; splay: ordered; every search finds what is there |
| `hutils/quadtree.h`, `tailqsort.h`, `bitpack.c`, `bitmask.c`, `utf8.c`, `string.c`, `getopt.c` | none or the caller's | pure functions | boundaries, widths | equal to a reference definition |
| `htest` | suite and test loops, counters, forked processes, stdio buffers | run suites, HTRY trials, HTRY_SIGNAL, signal handlers, suppression of output | crashes, copied buffers, exit statuses | counts and report tell the truth; no test stops another |
| `hwt` | a tree of widgets with slots of their parents, per-type callbacks | create, assign, free, set_child, events, layout | callbacks that change the tree, ownership of slots | a tree; every widget freed once |
| `hgmake` | `hconf_conf.c`: modules, branches, environments; `common.c`: merged flags | scan for guards, try a branch, resolve variables, write files | builds that fail in different ways; order of flags | the first branch that builds is chosen; needed order is kept |
| `hvlgdb` | an editor script | | | |

Interactions: `config.c` reads through `lexer.c` with a callback; all libraries are tested
with `htest`, which is linked with `hutils`; `hwt` calls a renderer and its widgets' callbacks;
`hconf_conf` runs compilers, `hconf_merge` and `hconf_conf` share `common.c`; `udp.c` and
`thread.c` are used by threads of one program on shared objects.

## 2. What is modelled

**`Vector`** (`hutils/vector.h`). The struct is a record; every function and macro of the header is
an operator from record to record that makes the `memmove` and `realloc` calls of the code in
their order, and every action is one call by a client. A slot that nobody has written holds
`Junk`. `fault` tells how the program ended: `"bounds"` when the client gave a bad index,
`"assert"` when one of the library's own `ASSERT`s failed. `Deque` is the abstract
specification, a sequence with operations at both ends and in the middle; `Vector` implements
it under the mapping `Contents`. Both carry `call`, the name and arguments of the last call, so that a step of
`Vector` must be the step of `Deque` with that name, index and element, and abort exactly when that one does. Properties: `NoAssertFails`, `GapAndSlackBounded`, `IsDeque`.
What clients are assumed to do: `reserve(n)` asks for no fewer slots than the gap and no more than a
chunk behind the contents (fewer makes `size` wrap around, more trips the invariant of the code),
`resize(n)` likewise, and, in the passing run, `pop_front` is called only without a gap (see 5).
`resize` never makes a vector longer: it allocates.

**`Pool`** (`hutils/pool.h`). A page is named by the address `malloc` gave it, so that an address
returns with the stale fields of the page that was there. Allocation is three actions, for the three ways the code
takes. `live` are the nodes the client holds. `Shutdown` leaves the free list as it is, like
the code, and `Start` is the `init()` that must follow. Properties: every node handed out has
exactly one owner (a client or one entry in the free list), counts are the numbers of live objects, and only the
last page has nodes never handed out.

**`HashTable`** (`hutils/hashtable.h`). `insert_()` is a loop; `InsertStep` is its body and
`Insert_` a recursive function that takes it as many times as there are slots (a walk that has not ended then is an endless
loop, `fault = "hang"`). `find_()` and `erase()` look for the first slot that ends their
loop. The hash of an empty slot is never read and is left out. The hash function is a constant.
`Dictionary` is the abstract specification: a set of objects with distinct keys, the last call with the object or
key it was given, and its result. Both modules set `call` in every action, so that a lookup must return the object of the key it was
asked for, and `NULL` only when that key is absent; taking an equal hash for an equal key is a seeded fault. Properties: `WalksEnd`, the Robin Hood order, `IsDictionary`. `num`
is not counted down by `erase`, as in the code, so that a client that inserts and erases for ever
makes the table grow for ever; `MaxSize` cuts that off. Tables have fewer than 2^29 slots (`SizeAssumption`): from there on `9 * mask` wraps around
in 32 bits. `find` on a table that never had an insertion dereferences
NULL and is not called.

**`HTest`** (`htest/src/htest.c`, `htest.h`, the POSIX build). The loops of `main()`, the fork for every
test, `HTRY_*`, `HTRY_SIGNAL` with its second fork, the handlers, and the standard output: `io.procs` is
the stack of processes (each waits for the next), each with its copy of the stdio buffer and of
the descriptor; `io.output` is what has arrived at the real stdout. Every combination of `-r`,
`-v` and stdout being a terminal (line-buffered) or a file (fully buffered) is an initial state. A test does
up to `MaxSteps` things (trials that hold or fail, HTRY_SIGNAL, output of its own), then
returns, crashes in one of the five signals with a handler, or is killed by another. `truth`
records what it did and is not read by the model. Suites are also called in the runner to count tests, where a fixture may crash:
the one way a run may end early in `EveryTestRuns` (see 5).

**`Udp`** (`hutils/src/udp.c`, the `poll()` build). Threads in `receive_datagram()`: before `poll()`, between it and
the read, and outside. `EventWait` is evaluated when `poll()` returns, the read is a later step; `poll()` may also fail at
any time (`PollFails`). Two histories are not read by the model: `failed` in a result is the system call that failed, and `emptied` says whether another
thread has emptied the pipe between a thread's `poll()` and its read. With them `ResultsDocumented` can say of any number of threads at a server
when a call must return 0 and which two errors do not (see 5). The
network is external: it loses (no action), duplicates, and puts a datagram anywhere in the
queue. The pipe is a count of bytes; writes larger than the room fail. The descriptor of the pipe is
not 0 (with 0, code at udp.c:136 and :148 disagree and an entry is read that was never set).

**`Thread`** (`hutils/src/thread.c`, the pthreads build). The library has no program of its own; the model drives it with the
one of `testthread.c`: the main thread holds the mutex while it starts workers, waits on the condition variable
until they have counted to `N`, and joins them. Each pthreads call is a step. The mutex, the condition variable (with spurious
wake-ups) and the heap (which reuses addresses) are external. Creation of a thread or of its attributes may fail.
A started thread may run before `pthread_create` has returned to its caller. `MutualExclusion`, `NoLostUpdate`,
`StartersAccounted` (the block that `thread_start` allocates and `run` frees) and `Finishes`.

**`Hwt`** (`hwt/src/hwt.c` and the built-in widgets). `slot` are the pointers that hold widgets, `parent` the pointers back;
`hwt_widget_assign` and `hwt_widget_free` change both. An event is a walk: `stack` are the calls of `respond()` under way, one step per slot.
The client runs between events and inside the callbacks of buttons, where it may do anything, free the button and the root
included, and send further events. A widget whose memory can no longer be reached is `"lost"` (see 5). The client is assumed to pass
pointers to widgets that live, to assign no widget below itself and to free hwt outside callbacks.

**`Layout`** (`grid.c`, `button.c`, `panel.c`): a resize event, with minimum sizes going up and rectangles down.

**`Hconf`** (`hgmake/hconf_conf.c`). The header is a sequence of lines, the scan goes over it, and a guard or the end of file tries the branch
before it: generate, compile, link, run. A command passes, fails with a line of output, or (with `Silent`) fails without.
`truth` records the outcomes and is not read. `FirstPassingChosen` is the promise of the README of hgmake, `OnlyChosenFlags` that
flags of failed and skipped branches go nowhere. **`Merge`** (`hgmake/common.c`, `tailqsort.h`) is the merging of flags in detail, the sort included.

**`Lexer`** (`hutils/src/lexer.c`), **`Config`** (`config.c`, on tokens), **`Bits`** (`bitpack.c`, `bitmask.c`, words as sequences of 32 booleans),
**`Utf8`** (`utf8.c`), **`Quadtree`** (`quadtree.h`), **`RedBlack`** and **`Splay`** (`tree.h`), **`Strings`** (`string.c`, `getopt.c`) and
**`UdpCreate`** (creation and freeing in `udp.c`, any call of the system failing) are sequential: every function is an operator from what it
is given to what it returns and leaves behind. **`Bench`** is what they are run on: an initial state is a call with an input, its only step computes
the output. **`Algorithms`** puts all of them there with finite sets of inputs; `Utf8`, `Bits` and `UdpCreate` also have a specification of their own (`TextSpec`,
`BitSpec`, `CreationSpec`), with any input, that the proofs are about. A property compares that with a reference definition written without the code's method (the longest token that starts here
instead of a ring; the words that stay instead of a sort). Search trees take call after call instead, in all orders.

`MCHashTable`, `MCHTest`, `MCHwt` and `MCUdp` only give constants their values for TLC and say what is symmetric.

## 3. Runs, bounds, fairness

| Run | Shows | Bounds and why they are enough |
|---|---|---|
| `vector` | the properties of `Vector` and that it implements `Deque` | chunk 3 and five elements: gaps of 0, 1 and 2, growing and shrinking by more than a chunk, and front and back halves of two elements; the theorems remove the bounds |
| `vector_pop_front` | violation: see 5 | chunk 2, four elements |
| `pool` | all properties of `Pool` | three pages of three nodes: a first, a middle and a last page, any of which goes and comes back; a page with none, some and all of its nodes in use |
| `hashtable` | all properties of `HashTable` and that it implements `Dictionary` | tables of 4 and 8 slots, five keys with two equal hashes, three with one home slot, runs across the end of the table; two objects per key for duplicates |
| `htest` | all properties of `HTest` | suites of 2, 0 and 1 tests, two things per test: a failing trial followed by a good one, HTRY_SIGNAL after output, crashes and kills in every place |
| `htest_killed` | violation: see 5 | the same |
| `thread` | all properties of `Thread` | two workers, so that they race each other and the main thread; three counts, so that one of them gets the mutex twice; two addresses, so that a block is reused |
| `hwt` | all properties of `Hwt` | three widgets of any kind, interchangeable: a root, a child and a sibling or a grandchild; events from callbacks of callbacks |
| `hconf` | both properties of `Hconf`, commands that fail say so | every file of up to five lines: two modules, two branches each and a flag; all outcomes |
| `hconf_silent` | violation: see 5 | every file of up to three lines; the counterexample is a single branch that does not compile |
| `algorithms` | one property per sequential part | see below |
| `udp` | `ResultsDocumented` and the temporal properties of `Udp` | two threads on the server, which race for its pipe and its socket, and one on a client; two datagrams per queue, so that they overtake each other; datagrams and writes that are empty and too long for the buffer |

Inputs of `algorithms`. Lexer: texts of four pieces (numbers, literals, comments, white space, whole and cut off) through a ring of 8
characters instead of 256, so that it wraps several times. Config: up to three lines, right, with one token amiss, or cut off; then a client sets a double, an integer, a string or nothing, and the collection is written and loaded. Strings (also those spelled like numbers) must come back with type, text and numbers; numbers as numbers within what `%f` rounds, with the integer part of the new double as their integer. Merge: four words in one file or two in two; of equal `CPPFLAGS` any one may stay (see 5), in the order of the list.
Bits: three values in three or eight bytes, which start and end anywhere in a byte and do not always fit; masks of one word and of two. UTF-8: every lead and up to three bytes behind it, from both sides of
every boundary the masks know, and texts concatenated. Quadtree: all answers of two traversals on a path of three levels. Red-black trees: nine keys, every tree that insertions and removals
reach (all cases of rebalancing on both sides); splay trees: six keys. Layout: grids of up to two by two with grids in them, in windows that are large and too small.
Getopt: four words. Creation of sockets: every set of failing calls and up to three addresses.

Deadlock is checked except where the system stops: `vector` (a bad index aborts), `thread` (the program ends), `hconf` (the tool exits),
`algorithms` (the call has returned) and `hwt` (hwt is freed, or a wrong assignment aborts).

Fairness. `HTest`: `WF_vars(Next)`; exactly one process can run at any time and the
system schedules it. That every test ends by itself is part of the model (`MaxSteps`): the runner
has no timeout. `Udp`: weak fairness of the two steps of a thread that is inside a receive:
it is scheduled and its timeout is finite. Nothing makes anybody call receive, send or write;
`WriteWakes` and `DatagramsAreTaken` are implications whose left side says that somebody keeps receiving
and that `poll()` does not fail for ever (`PollRecovers`).
`DatagramsAreTaken` also needs the writers to stop, because the pipe goes first. `Thread`: every thread that can take a step is scheduled (`WF` of the steps of the main thread, of each worker and of its pthreads calls), and a thread that waits
for the mutex gets it in the end (`SF` of `Lock`), as schedulers give it that do not starve; nothing makes a wake-up happen, so that `Finishes` depends on the
signals of the code. The other modules have safety properties only.

Each property of a passing run has a seeded fault in the module (`Seeded...`), a
plausible bug of the mapped code, for which TLC finds it violated.

## 4. Proofs

**`VectorProofs!VectorSafe`**: `Spec => [](TypeOK /\ NoAssertFails /\ GapAndSlackBounded)` for every `Chunk > 0`,
every set of elements and every bound. `NoAssertFails` is not inductive: whether the next `memmove` is in range depends on how gap,
contents and slack lie. `IInv` therefore says that the vector is a well-typed record with `ofs < Chunk`,
`ofs + size <= capacity <= ofs + size + Chunk` and no failed assertion. There is a lemma for every function: from
such a vector, it makes no failing assertion and returns such a vector. `erase` is the one that
needs the strict bound on `ofs`: it steps it first and closes the gap when it has become a chunk.
`StepKeepsIInv` puts the lemmas together, one case per action.

**`VectorProofs!VectorImplementsDeque`**: `Spec => IsDeque` under `Gapless`, that `pop_front` is
only called without a gap. Lemmas of the form "the contents shown after this call are the contents before with this
element inserted, removed or replaced" follow every element through the moves; they rest on
`IInv` and on facts about `InsertAt` and `RemoveAt`. Initial states map to initial states, and each
action to the one of `Deque` that `call` names, with the same arguments, an aborted call to an aborted one.

**`ThreadProofs!Exclusion`** and **`ThreadProofs!Starters`**: `Spec => []MutualExclusion` and `Spec => []StartersAccounted` for every finite set of workers, every `N` and every
heap. `MutualExclusion` says that the holder is the one thread at a step that needs the mutex, waiters that come back included; that is inductive
with types. `StartersAccounted` is not: that the block a new thread reads is the one made for it needs to know who owns every block in use. `StarterInv` says
that a block is in use exactly while it is passed on, is that of one worker, and that the worker being started has no thread yet.
`IInv` is types, `StarterInv` and `MutualExclusion`; `StartSteps`, `MutexSteps` and `ProgramSteps` show that each action keeps it.

**`HwtProofs!Agreement`, `WalkIsSafe`, `CalledOnce`**: `Spec => []SlotsAgree`, `[]NothingReadAfterFree` and `[]OneCallbackPerEvent` for every set of widgets and every depth
of events. For the tree, `SlotsOfKind` must be added: a widget uses no more slots than its kind has, so that destroying it reaches all that hangs on
it (`BelowClosed`, `OwnSlots`), and nothing that stays hangs on what went. For the walk, `NotCalledYet`: an event that is still passed on has called nothing, and once it
has called back it is only unwound. The proof goes by `TreeSteps` and `WalkSteps`, with a lemma for each kind of step.

**`ThreadProofs!NothingLost`**: `Spec => []NoLostUpdate` from mutual exclusion. `CountInv` adds that a worker between the load and the store of
`++g_messenger` has seen the present value; no other worker is at such a step, because both would hold the mutex.

**`PoolProofs!PoolTypes`, `OneOwner`, `CountsAreTrue`, `NoRoomMissed`**: the four invariants of `Pool` for every finite set of addresses and every number of nodes in a page.
Together they are inductive once one says that no page is in the list twice, and that nobody holds a node before `init()`. The one hard step is the free of a page's last object: the code takes
all nodes of the page out of the free list in a loop. `Without` is that loop as a recursive function; that it keeps the order of the others and drops all of the page's is
proved by induction over the length of the list (`SetInduction`, from the order of the naturals being well-founded).

**`HashTableProofs!SlotsKeepTheirShape`, `WalksAlwaysEnd`, `RobinHoodOrder`, `HashTableImplementsDictionary`**: the invariants of `HashTable` and `Spec => IsDictionary`,
for every hash function, every set of keys and copies, and all sizes below 2^29. None of the three invariants is inductive. `IInv` adds to them that the table is whole (`IsTable`: every
object under the hash of its key, no two with one key) and says the order of the table by `Ordered`. The argument has five parts.
*Places*: `Place(n, h, m)` is the m-th slot from home; lemmas on `%` relate it to `Dib`, so that a walk around the end of the table needs no case of its own.
*The walk of `insert_()`*: `OnWalk` is its loop invariant, with one object in hand: the table without that object is whole and in order, what is in hand may be put here, the slots ahead are untouched,
and until something was displaced nothing has changed and no object passed has the key; afterwards the new object has its slot, its key is new, and the key of the object in hand is nowhere in the table. `InsertStep` keeps it or ends the walk (`WalkStep`), and as an empty slot is ahead,
it ends in one round (`InsertEnds`). That the order finds a duplicate before anything is displaced, the assertion in the code, is `KeyIsNew`, from `WayToKey`: in an ordered table no slot between home and an object is
empty or holds one nearer its own home.
*Growing*: the new size is above the number of slots, so that moving all objects over meets no full table (`MoveKeeps`, `RehashMovesAll`), and `LoadCheck` shows that `9 * mask / 10` leaves two slots free, for small tables too.
*Erasing*: `IsShift` says what the loop does by offset from the erased slot. The objects that move come nearer home by one, all of them, and the first that stays behind was at home or there is none,
so that the order holds (`ShiftKeepsOrder`) and one object is gone (`ShiftKeepsObjects`).
*Refinement*: `find_()` stops at the object with the key or at an empty slot, and by `WayToKey` at the object when there is one (`FindFinds`). Each call is the one of `Dictionary` with its name and its key or object.
What the recursive functions of the walk and of the rehash compute is found by induction over the naturals (`SetInduction`).

**`HutilsProofs!ResultsAreDocumented`**: `Spec => []ResultsDocumented` for any sockets, threads, sizes of buffers and any network. `PipeInv` is the strengthening: what `poll()` said of the
pipe is still true at the read unless another thread of the server has emptied it, since writers only add bytes; and nobody empties it when the server has one thread. So a failing read of the pipe, the result
that is not as documented, needs two threads.

**`HutilsProofs!CreationsHoldNothing`**: `CreationSpec => []FailuresHoldNothing` for lists of addresses of any length, any outcome for each and any set of failing calls. The loop over the
addresses is a recursive function; `TriedResult` finds its value by induction: the descriptor of the first address that works is open, and no other. From there the three creations are
followed step by step; every set of descriptors and of memory that is closed or freed is shown to be what was held at that point.

**`HutilsProofs!TextsAlwaysUtf8`**: `TextSpec => []TextsAreUtf8` for all sequences of bytes. `Spells` says by their digits which bytes are the encoding of a code; `SpellsEncode` and `EncodeSpells` relate it
to the reference `Encode`. `GetGives` and `GetSpelled` are the two directions of `get_code()`: what it takes spells its code, and it takes whatever spells one. The loops jump by the length of a code, so that their
values are found by induction from the end of the text (`DownInduction`): `MadeOne` for arbitrary bytes (the copy spells some codes, as many as were counted, in as many bytes as were allocated) and
`RemadeOne` for bytes that spell codes (they are copied as they are and read back as these codes). Uniqueness of the encoding is what makes the second work, and with the flattening of encodings being a
homomorphism (`SpelledGlue`) it gives the claim for texts that were concatenated.

**`HutilsProofs!BitsAlwaysComeBack`**: `BitSpec => []BitsComeBack` for lists of words, strings and floats of any length and widths, buffers of any size and dirt, and masks of any size. The invariant of the packing loop
is `Clean`: in the byte that was begun, the bits from the cursor on are zero, so that or-ing puts there what is packed; `PackByteGrows` shows that one turn keeps it, appends its bits (`WordStored`) and leaves
all bits before the cursor alone (`SameBefore`), and `PackUint32Grows` that the turns make up the word. Unpacking reads what lies at the cursor (`UnpackUint32Reads`). On words rest strings, which are read up to their zero
(`UnpackStringReads`), and floats: halving a number as often as it has bits and summing them up again gives it back (`ValueOfBits`), and the three parts of a float do not overlap (`FloatParts`). So a value that was stored
stays while others are packed behind it (`StoredStays`), and the list is found again in its order (`FindNext`). A mask is followed operation by operation (`MaskNext`). Each recursive function is first shown to satisfy its
own equation (the lemmas named `...Def`). Buffers are smaller than a `size_t` can count bits, as `BitPacker.bit_i` needs.

**`HconfProofs!FirstIsChosen`, `ChosenFlagsOnly`**: for headers of any length, commands that fail do so with a line of output (`Silent = FALSE`, the assumption in the
statements: without it `FirstPassingChosen` is false, see 5). The properties speak of the end; `IInv` says what is true of the guards read so far. `Settled` and `Pending` are the
two states of a module's guards, failed up to one that passes, or failed up to the one that is to be tried; `BranchesInv`, `OrderInv` and `PassedInv` tie the
list of modules to the guards they came from, `LastInv` says when the last module has no branch (so that no variable is added to none), and `BucketInv` follows the flags, which go
through the buckets of all modules and into every file that is written for a try.

**`HTestProofs!HTestTypes`, `TruthTold`, `ReportReadable`, `FailuresSaid`**: the four safety properties of `HTest` for all suites, options and lengths of tests. `IInv` has three parts.
`CInv` is about the loops and the counters: a test has an outcome exactly when it stands before the loops' place, `test_num` is the number of tests of the suites begun, `test_pass_num` that of
the outcomes that count as passed without the test under way; it gives `VerdictsTrue` alone. `ProcsInv` is about the processes: how many there are for each `pc`, which have their stdout suppressed, and
that only the one that runs has anything in its buffer, because `fork()` comes after `fflush()`. So what is written and the buffer of the one that runs are one text, `Stream`, which printing extends by a line and which
`_exit()`, or a flush while stdout is suppressed, cuts back to what is written. `StreamInv` says of this text that each line of the report is there once and below its header, that every line is true (`Known`), and that
every failed test but the one under way has its line in what will be kept. Each action has a lemma (`...Io`) that says how it changes processes and text; `StreamStep` does the rest.

| Invariant of a passing run | Proved in |
|---|---|
| `Vector`: `TypeOK`, `NoAssertFails`, `GapAndSlackBounded`; `IsDeque` for `Gapless` | `VectorProofs` |
| `Pool`: all four | `PoolProofs` |
| `Thread`: `MutualExclusion`, `StartersAccounted`, `NoLostUpdate` | `ThreadProofs` |
| `Hwt`: all three | `HwtProofs` |
| `Udp`: `ResultsDocumented` | `HutilsProofs` |
| `Hconf`: both, for `Silent = FALSE` | `HconfProofs` |
| `HTest`: all four | `HTestProofs` |
| `HashTable`: `TypeOK`, `WalksEnd`, `RobinHood`; `IsDictionary` | `HashTableProofs` |
| `Algorithms`: `FailuresHoldNothing`, `TextsAreUtf8`, `BitsComeBack` | `HutilsProofs` |
| `Algorithms`: the other seven | model-checked only |

The other assumptions are those in the modules: `Chunk` is a positive number, `Zero` an element, `Junk` none; addresses of pages are finitely many and a page has at least one node;
the main thread is no worker, there are finitely many workers and at least one address, and `Null` is none of these and no slot; buffers are not empty and every client has a socket;
the suites are a sequence of numbers of tests; hashes are naturals, there is a copy of each object, `Null` is neither an object nor an entry, and tables have fewer than 2^29 slots.

Only model-checked: the other sequential parts, most of which are written with `RECURSIVE` operators, so that the
provers cannot be used on them. Not provable with TLAPS as installed: liveness (`EveryTestRuns`, `ReceiveReturns`, `WriteWakes`, `DatagramsAreTaken`, `Finishes`).

## 5. Disagreements found

- `vector.h:214`: `pop_front` moves the elements to slot 0 but leaves `ofs`. After a call that leaves a gap in
  front the client sees other elements (run `vector_pop_front`). `testvector.c` pops only when the gap happens to be closed.
- `htest.c:272`: `WEXITSTATUS` of a child that a signal without a handler killed is 0, so the test
  counts as passed (run `htest_killed`).
- `htest.c:122`, `htest.c:268`: `htest_output_restore_()` does not flush, and `_exit()` drops what is buffered: tested output
  appears where it should be suppressed, and with stdout in a file lines of children are lost.
- `htest.c:241`: suites are called in the runner to count their tests; a fixture that crashes there ends the run, though the README says that
  every suite is protected by forking (the exception in `EveryTestRuns`).
- `udp.c:243`, `udp.c:246`: two errors do not return 0 as documented (the exceptions in `ResultsDocumented`). A `poll()` that fails looks like a timeout. The result of
  `read()` is not looked at: with two threads on a server one may get `SIZE_MAX` bytes as success.
- `hconf_conf.c:168`: a command that fails without printing a line counts as success, so that a branch that does not compile
  is chosen and the tool succeeds, even when it is the only one (run `hconf_silent`).
- `hconf_conf.c:200`, `:288`: the README describes guards `HCONF_MODULE(M, B)` and programs that are not executed by default; the code knows
  `HCONF_mM_bB` only and executes by default.
- `common.c:328`: of equal `CPPFLAGS` the last stays, in the example of the comment above the first (`OneOfEqualFlagsStays` accepts both). `common.c:318`: values of one name
  that do not sort next to each other, as in `-Da -Da0 -Da=1`, all stay (`Torn`).
- `thread.c:278`: lock and unlock return 0 for success with pthreads and 1 on Windows. `thread.c:326`: when `pthread_create` fails the attributes are not destroyed
  (`StartersAccounted` excuses these and no others).
- `hwt.c:163`: a widget freed through its slot is leaked (`"lost"` in `Hwt`). `label.c:77`: a label has no minimum size and the caller reads what was not written (no labels in `Layout`).
- `lexer.c:186`: a literal as long as the ring is cut and a character is lost (`Fits` in `TokensAreLongest`). `config.c:285`: a number with an exponent, `1e3`, loads with the integer 1, and with 1000 after it was written. `config.c:428`: the memory reader never advances; `config.c:365`:
  a literal that starts with a bracket opens a section.
- `bitpack.c:54`: `0.0f` with fewer than 8 exponent bits comes back as 2 (`InRange`). `quadtree.h:93`: indices are wrong from the third level on.
  `getopt.c:54`: an unknown option is returned for ever.
- `udp.c:584`, `udp.c:292`: two failures leak what was created (`Lost` in `UdpCreate`).

Noted while reading, without a line in the repository that says otherwise: `pool.h:122` leaves the free list dangling, `hashtable.h`
never counts `num` down.

## 6. What is not modelled

`hutils/queue.h` is a vendored BSD header (lists are sequences in the models of their users); floating-point mathematics
(`vector2` to `4`, `matrix4`, `math`, `aabb3`) and the random numbers are out of reach of both tools; `err.c`, `time.c`, `file.c`, `fs.c`, `dir.c` are formatting and
thin wrappers of the system; `hvlgdb` and the make snippets are scripts. Windows variants are left out
everywhere. Allocation failure ends the program in the `memory.h` macros and is not modelled. Within the components:

- `HTest`: option parsing, colours, a failing `fork()`.
- `Udp`: `select()`, strings of addresses, the counter of `udp_setup`.
- `Thread`: creation of mutexes and condition variables, a lock or wait that fails.
- `Hwt`, `Layout`: drawing, types of the client, sizes that do not divide evenly.
- `Lexer`: bytes 0xfe and 0xff, literals as long as the ring. `Config`: access flags, opening files.
- `Hconf`, `Merge`: comments of C, options, escaped blanks, files that cannot be read.
- `Bits`: copies of a mask. `Strings`: formatted, bounded and case-insensitive variants.

## 7. Plan

Done: every subsystem with control of its own has a module and proofs of its safety properties; two refinements are proved, the vector's of a sequence and the hash table's of a dictionary.
What would add most now:

1. The other sequential parts, after their `RECURSIVE` operators are written as recursive functions, like those of `UdpCreate`, `Utf8` and `Bits`: the sort of `Merge`, the search trees
   (`RedBlack`, `Splay`), whose order after a rotation is a property of one step, and `Layout`, whose sizes add up level by level.
