# Verification of Spreads.Native

Spreads.Native gives .NET code three things of native code: the mimalloc
allocator (`Mem`), a cached number of the current core (`Cpu`) and compression
(`Compression`). A Rust library exports C functions; .NET classes declare them
with P/Invoke. The codecs and mimalloc itself are git submodules that the
repository does not contain: here they are external, modelled from how the
repository calls and declares them.

This directory holds TLA+ modules translated from that code, TLC
configurations and proofs checked by TLAPS. Run them from here:

    tlc -config CoreIdCache.cfg MCCoreIdCache
    tlapm CoreIdCache_proofs.tla

## Inventory

| part | state | operations | what is hard | what makes it correct |
|---|---|---|---|---|
| Core id cache: `Cpu.cs` | a thread-static int that packs an id (upper bits) and a countdown (lower 16) | `GetCurrentCoreId`, `RefreshCurrentCoreId`, `FlushCurrentCpuId` | threads migrate at any instruction; the decrement borrows from the id; more processors than `CoreCount`; the P/Invoke fails | every answer is an index below `CoreCount`; an answer is stale at most `RefreshRate` times; a thread that stops migrating gets its processor's index |
| Processor number: `spreads-pal/src/cpu.rs` | none | `spreads_pal_get_cpu_number`, one body per platform | groups of 64 processors on Windows, failing `sched_getcpu` | a number, or -1 |
| Rust global allocator: `mem_allocation.rs:29-75` | mimalloc's blocks | `alloc`, `alloc_zeroed`, `dealloc`, `realloc` | two native entry points chosen by size and alignment; a failed or moving `realloc` | nothing leaked, lost or used after a free; blocks aligned as asked |
| Options: `Mem.Option` and `Mem.Option*` | mimalloc's option table | eight functions | two enumerations numbered apart; int against C long; defaults against sets | a member sets the option of its name; what is set is read back, and what is enabled is never reported as disabled |
| Memory and heaps: the other functions of `Mem.cs`, `mem_allocation.rs:77-883` | blocks, heaps, each thread's default heap | allocation, reallocation, heap life cycle | a heap should allocate on its own thread only, which nothing checks; blocks freed on other threads; `Realloc` keeps and `Reallocf` frees a block on failure | a block belongs to one owner until freed once |
| Callbacks: the delegates of `Mem.cs:19-29` | registered native function pointers | `RegisterOutput`, `RegisterError`, `RegisterDeferredFree`, `StatsPrintOut` | signature, calling convention and lifetime of a delegate called later from any thread | what native code calls has the type it expects; only what was registered is called later, so that a caller knows what it must keep |
| Compression: `Compression.cs`, `compression.rs` | none | ten codec functions, shuffle and unshuffle | a failure is a length of 0 or less | what was compressed by a function is what the decompress function of that name gives back; no call leaves the caller's memory |
| Allocation tests: `MemTests.cs` | a blocking collection, an `AutoResetEvent` | two threads hand blocks over one by one | each thread waits for the other; allocation may fail | one block in flight, each freed once, and the test ends |
| Benchmark helper: `Spreads.Native.Tests/Benchmark.cs` | a pooled `Stopwatch`, a dictionary of lists of results | `Run`, `Stat.Dispose`, `Dump` | tests on several threads; lists are not thread safe; `Dump` while others finish | a result is the time of its own run; `Dump` prints what it clears |
| Generated bindings, build scripts, packaging, CI, benchmark programs | none at run time | | | not modelled |

Interactions: `Cpu` calls the processor number through P/Invoke and never
keeps native state; `Mem` and the Rust global allocator share one mimalloc and
meet only in it; options act on all of it; the callbacks are called by it; the
tests' clients call `Mem` and measure with `Benchmark`.

The hazards of each part, with their lines, are listed in `PROJECT.json`.

## Modules

| module | models | checked by | proved in |
|---|---|---|---|
| `CoreIdPromise` | what the core id cache promises, without counter or bits | `coreid` (refinement) | |
| `CoreIdCache` | `Cpu.cs` and `cpu.rs` | `coreid`, `coreid_flush` | `CoreIdCache_proofs` |
| `GlobalAllocator` | `SpreadsMalloc` | `allocator`, `allocator_aligned` | `GlobalAllocator_proofs` |
| `MemBlocks` | what `Mem` promises about blocks, without heaps or wrappers | `heap`, `allocator` (refinements), `handoff` (its actions are called) | |
| `MemHeap` | the memory and heap functions of `Mem` and their wrappers | `heap` | `MemHeap_proofs` |
| `MemHandoff` | a test with a producer and a consumer of blocks, over `MemBlocks` | `handoff` | `MemHandoff_proofs` |
| `MemOptions` | the option functions and both enumerations | `options`, `options_named` | `MemOptions_proofs` |
| `MemCallbacks` | the delegates of `Mem` | `callbacks`, `callbacks_error` | `MemCallbacks_proofs` |
| `Compression` | `Compression.cs` and `compression.rs` with their callers | `compression` | `Compression_proofs` |
| `Benchmark` | the tests' `Benchmark` class | `benchmark` | `Benchmark_proofs` |

Each `MC...` module gives the small instances. A definition whose comment
says "Mutant" is preceded by a broken form of it: with the broken form in its
place, the property it is listed with in `PROJECT.json` fails.

### CoreIdCache

`cache[t]` is `_currentProcessorIdCache`, kept as the integer it is: a hit and
a miss both decrement it, `Pack` and `Flushed` are the code's masks written
with `%` and `\div`. `running[t]` is the processor the scheduler has put a
thread on; `Migrate` may happen between any two steps. A miss takes three
steps, as in the code: the decrement has been written (`GetMiss`), the
operating system is asked (`Ask`), the result is normalised and stored
(`Store`). `CallThrows` and Linux's -1 give the failures.

`CoreIdPromise` says what a caller may rely on: a thread answers with the index
its own last look gave, at most `MaxStale` times before it looks again; a flush
leaves at most one of these. `KeepsPromise` is the refinement, with `Left` the
countdown, `Remembered` the id in the cache (a call in progress has borrowed 1
from the integer; adding it back gives the value before the call).

`CatchesUp` is the liveness of the cache, `CatchesUpSoon` what of it needs no
fairness: `CallsLeft` bounds the steps a thread's calls are away from having
forgotten the processor it came from, every such step lowers it, and nothing a
caller or another thread does raises it while the scheduler leaves the thread
where it is. The worst case is a thread moved between `Ask` and `Store`: it
stores a full countdown of the old processor's id, and needs `RefreshRate` + 4
steps.

### GlobalAllocator

`live` is mimalloc's view of a block, `owned` Rust's. The two tests of
`layout.align()` and `layout.size()`, the macOS refusal and the three outcomes
of a reallocation (failed, in place, moved) are kept. An address is abstracted
to the largest power of two it is a multiple of, contents to one tag. mimalloc
is assumed to do what the code at line 34 relies on: a plain block of a size
that holds an alignment up to `MIN_ALIGN` has that alignment; nothing more.
(Present versions of mimalloc align every block to 8 at least, so on 64-bit
targets, where `MIN_ALIGN` is 16, the finding below bites for alignment 16.)
Sizes are whole: a size does not wrap around.

`ImplementsBlocks` maps the two views to `MemBlocks`, the specification of
blocks that `Mem`'s callers rely on, with Rust as the one owner: the owner from
`owned`, the shape from `live`, so that a call that changed only one side, or
two blocks, would be no step of it. `Zero` is the tag of zeros nobody has
written to; a write of zeros is one of `Values`.

### MemHeap

The caller's view and the allocator's are kept apart. `held[t]` is what thread
`t` holds and `want[p]` what its holder was promised, both from the arguments
of the call and from what the comments of `Mem.cs` say of a NULL; `blocks[p]`
is the allocator's block. The operators named `Native...` are what the wrappers
of `mem_allocation.rs` pass on: the heap, the bytes of a counted function,
whether to zero, whether a failing reallocation frees. They are where a
forwarding mistake would be, and where the mutants are. The functions are not
listed one by one: an `AllocFunctions` or `ReallocFunctions` record has a flag
for each part of a name (`Heap`, `z` or `c`, `n` or `c`, `Aligned`, `f`), which
gives exactly the functions the two files have (`MallocSmall` and `Strdup` are
`Malloc`, `AlignedAt` is `Aligned` of another byte).

A reallocation fails, stays in place or moves, as mimalloc likes; a block that
moves changes to the heap that was passed, or to the thread's default one, a
block that stays does not, and `KnownHeap` says that a caller can always tell.
A thread's own name stands for its backing heap. `ThreadDone` is the end of a
thread: its heaps are deleted and its blocks stay for whoever holds them.
`ContainsBlock` is what `HeapContainsBlock` answers.

The rules callers keep are in the module's head; nothing in `Mem` or the
wrappers enforces them. `mimalloc_wrapper.h:177` has one more: heaps "can only
allocate from the same thread that created it". `MimallocAllocFreePerf` breaks it
(`MemTests.cs:246` creates the heap, a task's thread allocates from it at
`:273`), so the model's callers may too: `UsableHeaps` has the heaps of every
thread. What is assumed is that calls on one heap do not overlap, as in that
test, where every task is waited for; what overlapping calls do is a data race
inside mimalloc, whose calls are single steps here. `p = Mem.Realloc(p, ...)`
(`MemTests.cs:85`) breaks the first rule: it forgets a block if it fails.

That a default heap is the thread's own is what mimalloc does when a heap goes
(`DefaultWithout`, external); the proofs need it as a lemma, but it says nothing
of this repository and is no property of a run.

### MemBlocks and MemHandoff

`MemBlocks` has an owner and a shape (size, alignment, zeroing) for every
address. In `MemHeap` the owner is the thread that holds the pointer and the
shape the allocator's block, and `ImplementsBlocks` says that every step of
`MemHeap` takes, reshapes, moves, passes on or gives back blocks of the thread
that called and no other's. Deleting a heap and ending a thread change nothing
that `MemBlocks` sees.

`MemHandoff` is `CouldAllocFreeFromDifferentThreads` (`MemTests.cs:33-62`), one
action per statement that another thread can see. It does not repeat what
blocks are: its steps are conjoined with `Take`, `Pass` and `GiveBack` of an
instance of `MemBlocks`, so that what it relies on is what `MemHeap` is shown to
implement. The collection, the event, `Start` and `Join` are .NET's, a step
each. `MallocAligned` may return NULL, which is handed over and freed like a
block. The stopwatch and the output of the test are left out.

The tests disagree about what it does. It frees blocks of 2 MB and a byte on a
thread that did not allocate them, and runs in continuous integration;
`CouldFreeOnDifferentThread` (`MemTests.cs:64-79`, marked `Explicit`) does the
same with one block of that size, and says of it `// fails > 2MB` (`:69`) and
`// fails` (`:76`). If that is still so, it is a defect of the mimalloc version
of the time: here, as in the comments of `Mem.Free`, a block may be freed on any
thread, whatever its size.

`Ends` is split in two that need no fairness: `NeverStuck` (one of the three
threads can always go on, until the main thread has joined both) and
`EveryStepCounts` (every statement lowers `StepsLeft`, the number of statements
still to run: 6 for each block and 6 more). `MainCanGo`, `T1CanGo` and `T2CanGo`
write out what the actions' guards ask.

### MemCallbacks

`registered[s]` is the function pointer mimalloc keeps in a slot, `kept` the
delegates managed code still refers to, `passed[t]` the one that is lent to
`StatsPrintOut` until it returns, `given` a record of what `Register` functions
were ever given. A native call is two steps, `Load` of the pointer and `Invoke`,
so that a registration by another thread or a collection may fall between them.

Nothing in `Mem` or the wrappers keeps a registered delegate alive. The lambdas of
the tests (`MemTests.cs:67`, `257`, `370`) capture nothing and are kept by the
compiler in static fields: these are `Static`. Every other delegate may be
dropped at any time (`Drop`) and collected (`Collect`), and then native code does
call it: the model has that, and `OnlyGivenDangle` says how far it goes. A
caller must keep for good whatever it gives to a `Register` function (being
replaced is not enough, since a thread may have read the old function), and
need not keep what it passes to `StatsPrintOut`.

Delegate and function types are compared by name. The native deferred free
function takes a one-byte `bool`, which `DeferredFreeFun` (`Mem.cs:20`) reads as
four bytes; that is left out.

### Compression

A buffer's contents are the layers put on one after the other (the data, then
each compression or shuffle) with the bytes each left. `contents` is what the
native functions wrote, `expected` what the names of the functions called and
their results let the caller expect, `length` the int it keeps. What a codec
may do when the bytes are not exactly those of a compressed text, when the
output does not fit, or for no reason, is left open: it fails with 0 or less,
having written nothing or anything, or it writes bytes nothing is known of.
`outside` collects the lengths of calls that were told to touch more than a
buffer has; `StaysInside` says that they were all negative, that is, results of
failed calls passed on without a look (`CompressionTests.cs:131`).

### MemOptions

A member of `Mem.Option` reaches the native option with its number. Ints and C
longs have parametric widths; the upper half of the register an int arrives in
is undefined, so `Widened` has every long with that lower half: an option set to
0 may hold a long that is not 0. A native `bool` is one byte where .NET reads four
(`Mem.cs:288`), of which the other three are undefined: `BoolRead` lets a false be
read as either. `ReadsBack` says what holds all the same: the int that was sent
is read back, and an option set to anything but 0 is reported as enabled. An
option set to 0 may be reported as enabled, too. `sent` and `chosen` record
what .NET code believes. mimalloc's table is external: a set always
takes, a default only where there was no set, and no environment variable
interferes; every option starts at 0 (`mimalloc_wrapper.h:296`). `Agreeing` are
the members whose numbers are still those of their names; `NamedOptionHolds`
says that these work as named whatever the others do.

### Benchmark

A "thread" is one activity that runs, disposes and dumps in turn; two nested
runs of one thread are two activities. `Interlocked.Exchange` and the
dictionary's operations are single steps; `List.Add` is two, a read of the
size and a write of item and size, so an update can be lost. The enumeration in
`Dump` visits each case in a step of its own and clears also what was added
since (`Benchmark.cs:119`). It throws on an empty list, and may on one another
thread is adding to (`BeingChanged`: whether an enumerator notices depends on
the runtime). A result may be lost without being printed, and of
two concurrent results of one case one may overwrite the other. Nothing in the
repository promises otherwise, so no property does. A `Stopwatch` remembers
which run restarted it last instead of a time. `_headerIsPrinted`, the table and
the console are left out, and each `Stat` is disposed once, as the `using`
statements of all callers do.

## Runs

| run | bounds | shows |
|---|---|---|
| `coreid` | 2 threads, 3 processors (numbers 0, 3, 7) with `CoreCount` 3, `RefreshRate` 3, failing calls | type invariant, `AnswersAreIndices`, `KeepsPromise`, `CatchesUpSoon`, `CatchesUp` |
| `coreid_flush` | 1 thread, 2 processors in two groups (numbers 3 and 129), 130 processors, 128 cores, rate 100 | `FlushEmptiesCache` is violated |
| `allocator` | 2 blocks, sizes 1, 3, 4, alignments 2 to 16, `MIN_ALIGN` 4, macOS limit 8 | type invariant, `OwnedIsLive`, `UnderalignedOnlyByShrink`, `MacosNeverHuge`, `ImplementsBlocks` |
| `allocator_aligned` | the same with size 9 and alignment 1, not macOS | `AlwaysAligned` is violated |
| `heap` | 2 threads, 2 heaps, 2 blocks, sizes 1 and 2, count 2, alignments 1 and 2, `SizeMax` 3 | type invariant, `OneOwner`, `HeldIsLive`, `AsPromised`, `KnownHeap`, `ImplementsBlocks` |
| `handoff` | 100 blocks (the test's own count), 3 addresses | type invariant, `OneInFlight`, `FreesOwned`, `CleanEnd`, `NeverStuck`, `EveryStepCounts`, `Ends` |
| `options` | 3 members, ints of 3 bits, longs of 5 | type invariant, `ReadsBack`, `NamedOptionHolds` |
| `options_named` | the same | `SetsNamedOption` is violated |
| `callbacks` | 2 threads, 3 delegates (2 of them `OutputFun`, one of these in a static field) | type invariant, `OnlyGivenDangle`, `OnlyErrorMismatches` |
| `callbacks_error` | the same | `CallsMatch` is violated |
| `compression` | 2 buffers of 2 and 3 bytes, 2 codecs, 2 item sizes, failures 0 and -1, sizes of 16 values, 3 layers (`MaxLayers`) | type invariant, `AsExpected`, `StaysInside` |
| `benchmark` | 2 threads, 2 cases, 2 runs each (`MaxRuns`) | type invariant, `WatchExclusive`, `MeasuresOwnRun`, `EmptyListIsBeingFilled` |

Why the bounds are enough. Threads share nothing in `CoreIdCache` (that they
do not is what the mutant of `Cell` tests), so two show all there is; the
numbers lie below, at and above `CoreCount`, and a rate of 3 has odd and even
countdowns of 0 to 3. The constants of the code (32 bits, a rate of 100) are
covered by the proofs, which hold for all of them. Two blocks are what one
reallocation can touch; sizes and alignments lie on both sides of each test. In
`MemHeap` a product of 2 and 2 is just above the largest size, a step touches at
most two threads, two blocks and two heaps, and threads, heaps and blocks are
each interchangeable (the properties name none, and the only liveness is
elsewhere). `MemHandoff` needs one address and has two to spare, so that a
second block in flight would find one. The 3-bit ints include the least, the
greatest, a negative and 0, and each arrives with four upper halves. Of callbacks, one registered and one lent to
`StatsPrintOut` need two delegates of one type; one that is kept and one that is
dropped tell `Static` from the rest. Two codecs are two neighbours
among wrappers of the same form; 3 layers are a shuffle of data that is then
compressed. In `Benchmark` two threads race for one pool and one list, and a
second run reuses a stopwatch.

Fairness. `CatchesUp` needs weak fairness of a thread's `GetCurrentCoreId`: a
caller that goes on calling, and whose calls return (they block on nothing).
Migrations and flushes have none, so the scheduler may leave a thread where it
is for ever and a caller may flush at every turn. `Ends` needs weak fairness of
each of the three threads of the test: a thread that can go on is scheduled at
some time. No other specification states fairness.

Deadlock is checked in all runs but `benchmark`, where the threads have nothing
left to do after `MaxRuns` runs and a last dump, `handoff`, where they end
(`Ends` says that they never stop before), and `callbacks`, where the call of a
collected delegate ends the process.

## Findings

- `FlushCurrentCpuId` (`Cpu.cs:98`) keeps bit 0 of the countdown: with an odd
  countdown left, one more call answers from the cache it was asked to flush.
- `SpreadsMalloc::realloc` (`mem_allocation.rs:69`) tests the size the block
  has, not `new_size`. Shrinking a block below its alignment goes to
  `mi_realloc`, which owes a block of that size no such alignment.
  `UnderalignedOnlyByShrink` shows, and is proved to show, that this is the
  only way.
- `Mem.Option` (`Mem.cs:44` on) numbers ten members differently from
  `mi_option_t`; `PageReset`, which `MemTests.cs:251` sets and `:259` asserts, is
  `segment_cache` to mimalloc. The test passes because set and get make the
  same mistake (`ReadsBack`). `NamedOptionHolds` shows that the members before
  `SegmentCache` are not affected.
- `RegisterError` (`Mem.cs:284`) takes an `OutputFun`, whose first argument is a
  string, where mimalloc calls a function of an int: the error code
  (`mimalloc_wrapper.h:141`). `ErrorFun` (`Mem.cs:26`), which would fit, is not
  used. `OnlyErrorMismatches` shows that every other callback has the type of its
  name.

## Proofs

`CoreIdCache_proofs`: the inductive invariant is `TypeOK /\ Borrowed /\
Remembers`. `TypeOK` and the checked `AnswersAreIndices` are not inductive: a
miss leaves a cache value that is no packed id until `Store` overwrites it, so
`Borrowed` says what such a value is (one less than one whose countdown is 0),
and `Remembers` that what was stored is an index and that a thread that has
never been answered has a cache of 0. Lemmas about `%` and `\div` split a cache
value into its fields and say what the decrement, `Pack` and `Flushed` do to
them. `PromiseKept` is the refinement proof: the initial states map to initial
states, and each action to the promise's action of the same name or to a
stutter (a miss's first step changes nothing a caller can see).
`CatchesUpInTime` proves `CatchesUpSoon` from the same invariant, with one lemma
for each step of a call: a hit and a miss come one nearer by what the decrement
does, `Ask` on the thread's processor yields an id of it, and `Store` of another
processor's id has been counted with a full countdown. Assumptions:
thread ids and processor numbers are natural numbers, `MaxCores` is at most
2^15 and `RefreshRate` below 2^16, as in the code.

`GlobalAllocator_proofs`: the conjunction of `TypeOK`, `OwnedIsLive`,
`UnderalignedOnlyByShrink` and `MacosNeverHuge` is inductive, with one lemma
per action. `MacosNeverHuge` rests on `MIN_ALIGN <= MacMax`: it is why
`realloc` need not repeat the test of `alloc`. `BlocksImplemented` is the
refinement proof: an allocation maps to `Take`, a write and a reallocation in
place to `Reshape`, one that moves to `Move`, `dealloc` to `GiveBack`, every
failure to a stutter; `OwnedIsLive` makes an address that is free for mimalloc
free for Rust.

`MemHeap_proofs`: the checked invariants together with `DefaultIsOwn` and
`BackingIsOwn` (a thread's default and backing heaps are its own) are inductive;
none of them is alone. The lemma `Forwarded` says that the block
mimalloc is asked for is the block the caller is promised. `HeapDestroy` is
where they meet: that its caller lets go of exactly the blocks that are freed
is `KnownHeap`, that nobody else holds one is the caller's rule. Reallocations
are split into failed, in place and moved; `Free` and a failed `Reallocf` share
a lemma, so do `Expand` and a reallocation in place, and so do `HeapDelete` and
`ThreadDone`. Nothing is assumed about sizes but that they are natural numbers.
`BlocksImplemented` maps each action
to one of `MemBlocks` or to a stutter; `OneOwner` makes the mapped owner the one
thread that holds a pointer, `HeldIsLive` makes what is free for the allocator
free for everybody.

`MemHandoff_proofs`: `OneInFlight` and `FreesOwned` follow from where the two
threads are. `Progress` says where each can be, `OneTurn` that while `t1` waits
exactly one of three holds (its pointer is in the collection, `t2` has it, or
the signal is set) and that none does otherwise, and `OwnerHasTurn` that a block
is owned by the thread whose turn it is. Proved for any count, any addresses.
`NoDeadlock` follows from the same three: whoever has the turn can go on. For
`EndComesNearer` each statement of a round takes `RoundDone` one further, which
`OneTurn` makes a total order of six statements; the wait that ends the round
trades them for one more of `i`. Together they say that every schedule reaches
the end after at most 6 * `Count` + 6 statements unless it stops running a
thread that can go on: the rest of `Ends` is the scheduler's fairness.

`MemCallbacks_proofs`: `OnlyGivenDangle` needs that what is registered was given,
that what a thread is calling was given or is lent by it, and that what is kept
or lent is not collected. `OnlyErrorMismatches` needs the same of types.

`Compression_proofs`: the three properties are inductive together. A caller's
expectation determines the contents, so a call whose result it can build on was
given the whole of the source (`ExpectedIsWhole`); what a codec makes of
anything else is `Unknown` to both. `StaysInside` rests on one assumption: a
failure that is taken for a length is, as an unsigned 64-bit number, larger than
any buffer.

`MemOptions_proofs`: `TypeOK` and the beliefs of .NET code, stated of the native
table, are inductive; two lemmas carry it: different members reach different
native options, and an int that is widened and truncated again is the same
int, so that the long is 0 only if the int is. A member whose number agrees
reaches the option of its name, so `AgreeingOptionsHold` is what the invariant
says of it. Assumed: ints have an even
span of at least 4, and longs an even span that is no smaller (the 32 and 64 bits
of Windows and Unix).

`Benchmark_proofs`: `WatchExclusive` and `MeasuresOwnRun` hold for any finite
number of threads and cases and any bound on runs. The strengthening says
where a thread holds a stopwatch (from taking it to giving it back) and that a
stopwatch a run is measuring with is ticking and was restarted by that run;
that the exchange leaves nothing in the pool is the heart of it. For
`EmptyListIsBeingFilled` a second invariant says that a thread has a list from
`GetOrAdd` to the end of `Add`. That `new` finds an unused stopwatch, and an
unused list, is counting: fewer are in use than there are. So is the bound in
`TypeOK`: `Counted` says that no list is longer than the number of finished runs
and that no `Add` in progress writes more than one place beyond that. A size
that was read long ago was no larger then, and the run that writes it is itself
one that has not finished; so it holds although no lock orders the `Add`s.

Only model-checked: `CatchesUp` and `Ends`, because liveness under fairness is
out of the prover's reach; of each, the part that needs no fairness is proved
(`CatchesUpSoon`; `NeverStuck` and `EveryStepCounts`). Every other property of a
run that passes is proved. Proofs say nothing of the properties that are
violated.

## Not modelled

- `Collect`, `StatsReset`, `StatsPrint` and the other statistics change nothing a
  caller can see; `UsableSize` and `HeapVisitBlocks` only report mimalloc's own
  layout, which is external; reserving huge pages is a request to the operating
  system. The content of blocks is left out of `MemHeap` but for zeroing.
- `BlockVisitFun` is lent for one call as the function of `StatsPrintOut` is. The
  argument pointers of callbacks are passed through. The delegates' calling
  convention (`Mem.cs:19`) differs from the native one only on 32-bit Windows,
  for which there is no package.
- The width of the `bool` a native deferred free function is called with
  (`Mem.cs:20`), of `BlockVisitFun`'s result (`:29`) and of the other functions that
  return one. That of `OptionIsEnabled` (`:288`) is modelled.
- `Pal` of the tests is a benchmark's copy of `Cpu` with other ways to ask for
  the processor number. The other tests are sequential or data parallel clients
  of `Mem`, whose calls are those of `MemHeap`'s threads.
- The bindings are generated by bindgen; what they declare is used where it
  matters (option numbers, callback types, codec signatures) and has no
  behaviour. Most of the lines no definition stands for are theirs. Build
  scripts, packaging, CI and the BenchmarkDotNet drivers have no run-time state.
- mimalloc and Blosc themselves are submodules the repository does not hold.

## Plan

1. Done: every module above with its runs; proofs of all safety properties, of
   the action properties and of the three refinements.
2. Left to prove: nothing that the prover can state of the properties above.
3. Left to model: nothing that has a state of its own.
