# A TLA+ model of the power-of-2 allocator

`p2malloc.c` is a thread-safe allocator in about 330 lines of C: eight free lists
of power-of-2 blocks carved out of 4096-byte pages, and pages straight from the OS
for what is larger. Its lists are those of `ps_list.h`, and its tests run on the
Unity framework that the repository carries under `unity/`. This directory models
all three in TLA+, checks the models with TLC and proves part of what is checked
with TLAPS.

## 1. The system

| component | state | operations | talks to |
|---|---|---|---|
| size arithmetic (`p2malloc.h`, `p2malloc.c:79-107, 148-164`) | none | `P2_HEADER_SIZE`, `get_freelist_idx`, `page_align`, the tests against overflow | everybody |
| free lists (`p2malloc.c:109-134, 166-194`) | one list and one mutex for each of 8 block sizes | `freelists_init`, carving a page, taking the first block, `p2orderedinsert` | the mutexes, `ps_list.h` |
| intrusive list (`ps_list.h`) | `next` and `previous` inside the free blocks, on the bytes of their headers | `ps_list_ll_init`, `_add`, `_rem`, `_empty` | the memory of free blocks |
| lazy initialisation (`p2malloc.c:122, 136-146`) | `init_state`, atomic: 0, 1, 2 | `ensure_init`: compare-and-swap, initialise, announce; or spin | free lists |
| public functions (`p2malloc.c:200-310`) | the header in front of every block in use | `p2malloc`, `p2free`, `p2calloc`, `p2realloc` | all of the above, the OS |
| counters (`p2malloc.c:123-124, 312-313`) | `allocated`, `totmem`, atomic `size_t` | atomic add and subtract; `p2allocated`, `p2totmem` read them | public functions |
| OS backend (`p2malloc.c:30-61`) | the pages mapped | `os_alloc`, `os_free` | the kernel |
| reset (`p2malloc.c:315-328`) | - | `p2reset`: empties lists and counters, keeps mutexes, abandons pages | lists, counters |
| payloads (`p2malloc.c:265-267, 280-309`) | the bytes behind a header | the `memset` of `p2calloc`, the `memcpy` of `p2realloc`, the word `p2free` zeroes | clients |
| Unity runner (`unity.c:520-593, 2239-2360`, `unity_internals.h:641-643, 877-935`) | `struct UNITY_STORAGE_T Unity`: counters, two verdict flags, details, `jmp_buf` | `UnityBegin`, `RUN_TEST`, `UnityConcludeTest`, `UnityEnd`; fail, ignore, message out of a test | tests, by `setjmp` and `longjmp`; the output |
| Unity printing (`unity.c:85-517`) | - | numbers by style, masks, characters, strings, floats | assertions, the output |
| Unity assertions (`unity.c:641-1243, 1477-1987`, macros in `unity_internals.h:983-1217`) | one static union for a value compared with an array | comparisons of numbers, bits, arrays, strings, memory, floats | runner, printing |

What is hard about it:

* **first use** - any number of threads can be in `ensure_init` at once;
* **per-list locks and lock-free counters** - lists change under a mutex, the counters
  change outside it, and a popped block belongs to nobody's data structure until its
  header is written;
* **two layers, one header** - `alloc_size = 0` is the only thing that sends `p2free`
  to a list, and the list is found again from `size`, which `p2realloc` changes in place;
* **failure** - the OS may refuse a page while a lock is held or in the middle of a
  `p2realloc`;
* **wrapping arithmetic** - every sum is a `size_t` sum;
* **list order** - insertion assumes an ascending list, carving makes a descending one;
* **shared bytes** - a free block's `next` and `previous` lie on the header it has while
  it is in use, and the list head is told from a node by its address only;
* **reset** - forgets everything while callers may still hold pointers;
* **verdicts by `longjmp`** - a failing assertion leaves `setUp`, test or `tearDown` by
  the frame set up last, and the flags, the details and a half-written line stay behind;
* **edges of types** - assertions compare and print numbers of every width through
  one 64-bit type, floats through differences that can be infinite or NaN.

What makes each component correct: the bucket is the least that fits; lists and
initialisation are touched by one thread at a time; no byte belongs to two owners
and none is lost; a block a client holds stays its own, with room for the request,
until the client gives it up; the counters say what the heap contains; nothing waits
forever for a thread that has failed. Of Unity: each test counts once, by the first
thing it said, in the counters, in the output and in the exit status; an assertion
passes exactly when the relation it is named for holds; what is printed tells the
value.

The hazards, each at its line and with the properties that would notice it, are
listed in `PROJECT.json`.

## 2. The modules

| module | what it is |
|---|---|
| `SizeClasses` | the arithmetic, with `SIZE_MAX`, `sizeof(size_t)` and the alignment of `max_align_t` as constants, and the reference definitions it is compared with |
| `Freelist` | a free list as the sequence of its nodes' addresses: what carving and `p2orderedinsert` do to it |
| `P2Malloc` | the threads: one action per step of `ensure_init`, `p2malloc`, `p2free`, `p2calloc`, `p2realloc` |
| `Heap` | what a client may rely on: disjoint, aligned pieces of memory |
| `PsList` | `ps_list.h` on memory words: each function and macro as an operator from memory to memory |
| `PsListUse` | one thread that uses the list in any order, `ps_list_foreach_del` loops included |
| `P2Links` | `P2Malloc` with the words that headers and list nodes share: each of its actions with what it writes |
| `P2Lifecycle` | `P2Malloc` with `p2reset` |
| `P2Payload` | `P2Lifecycle` with chosen words of the payloads, written by clients and by the allocator |
| `UnityRunner` | a suite of tests that may do anything, in one thread |
| `UnityPrint`, `UnityPrintFloat` | what is printed for integers, characters, strings and floats |
| `UnityAsserts`, `UnityFloats` | whether an assertion passes, which element fails and what is shown |
| `MCSizeClasses`, `MCP2Malloc`, `MCP2Links`, `MCP2Lifecycle`, `MCP2Payload` | instances for TLC |
| `MCUnityPrint`, `MCUnityNumbers`, `MCUnityStrings`, `MCUnityFloats`, `MCUnityPrintFloat` | inputs that TLC changes step by step, and what is demanded of each |
| `MCUnity` | those five together, one kind of input at a time |
| `FreelistProofs` | lemmas about lists |
| `P2MallocProofs` | theorems about the arithmetic, about initialisation and about locking; the invariant of the heap, that every action keeps it, and what follows from it; that every block is large enough for its request, and that `P2Malloc` implements `Heap` |
| `P2LinksProofs` | that the pointers in the free blocks form the free lists and headers stay whole |
| `P2LifecycleProofs` | that `p2reset` keeps the heap's invariant, that no byte is lost, and that the counters are right |
| `P2PayloadProofs` | that what is in the blocks stays there |
| `PsListProofs` | that the pointers of `PsListUse` form its lists, for any number of objects and lists |
| `UnityRunnerProofs` | that the runner counts, prints and tears down each test as it should |
| `UnityValuesProofs` | that the assertions on integers, floats, strings and memory are exact for all inputs, and that what is printed of integers, strings and floats tells them |

### How `P2Malloc` corresponds to the code

A thread is at a label (`pc`), with the arguments and locals of its call in `call`.
A step of the model ends where another thread can see or change what comes next: at
an atomic operation, a lock, an unlock, a call to the OS. Plain reads and writes of a
block that only the thread can reach are part of the step beside them. The labels:

    idle -> ensure_init -> (freelists_init -> init_ready | init_spin)
         -> os_alloc -> add_allocated -> add_totmem                        large
         -> lock -> check -> (carve ->) pop -> write_header                slab
         -> zero_payload (p2calloc) | copy_payload (p2realloc) -> done -> idle
    free -> free_totmem -> free_unmap                                      large
         -> free_lock -> free_insert                                       slab
    realloc_sub -> realloc_add                                             in place

Variables are the C globals (`init_state`, `freelists`, `allocated`, `totmem`), the
owner of each mutex (`lock`), the pages the OS has mapped (`mapped`), the headers of
the blocks in use (`hdr`) and the pointers that clients hold (`live`). Addresses are
numbers and pages are 4096 bytes, as in the code: nothing is scaled down. A block is
named by its first byte; the pointer the client sees is `P2_HEADER_SIZE` above it.

A header leaves `hdr` in the step that reads it for the last time (`FreeLarge`,
`FreeSlab`): from there on its bytes are the list's or the OS's. The OS may place a
mapping anywhere and may refuse any request. Clients are as C demands: they free or
reallocate only a pointer they hold, once, and get the old pointer back when
`p2realloc` fails. The scan of `p2orderedinsert` is given by where it stops
(`ScanStopsAt`), which is a relation that one position satisfies.

### The layers over `P2Malloc`

`P2Links`, `P2Lifecycle` and `P2Payload` add variables and take `P2Malloc`'s actions as
they are. `P2Links` gives each action that touches a header or a list its writes, in
the order of the assignments of `ps_list.h`; the sequences of `P2Malloc` are then what the
pointers should amount to, so `RingsAreFreelists` says that the pointer-level lists
implement the sequences. The array `freelists` may lie below or above the heap.
`p2reset` is one action, taken while no call is running, because `p2malloc.h` allows it
only then; clients keep any subset of their pointers over it. In `P2Payload` a client
writes a value all over a block it holds and remembers that (`promise`); the model
follows the words at a few offsets of each block.

### Unity

`UnityRunner` has one thread; `pc` is where it is (`setUp`, `func`, `tearDown`, behind
one of the two `TEST_PROTECT`s, between tests), and `AbortFrame` where a `longjmp` goes.
`setUp`, test and `tearDown` do any series of what a test can do: return, assert, fail,
ignore, `TEST_PASS`, message, set details. A line of output is a sequence of records of
verdict, test and details. `said` and `outcomes` record what each test said first,
which the flags never show.

The other modules are functions of their inputs: an assertion is an operator whose
value says whether it passes, the number of the element that fails and what is shown
of it. The macros that cast and call it are part of it (`EQUAL`, `COMPARE`, `WITHIN`, `EACH_EQUAL`).
A text is the sequence of its character codes. The model is the build the Makefile makes:
64-bit `UNITY_INT`, no doubles, no colours.

## 3. What TLC checks

| run | instance | shows |
|---|---|---|
| `size_classes` | all 65536 sizes of a 16-bit `size_t` | `BucketIsLeast`, `PagesAreEnough`, `CallocGuardIsExact` against the reference definitions |
| `threads` | 2 threads, 2 pages, both places of the array `freelists`, resizing in place | `TypeOK`, `MutualExclusion`, `InitExclusive`, `NoOverlap`; `HeadersIntact` on pointers; `ImplementsHeap`: the detailed model refines `Heap` |
| `edges` | 1 thread, 3 pages of 4 blocks, both places of the array, sizes at the boundaries | `HeldBlocksFit`, `FreeFindsBucket`, `ListsInRuns`, `RingsAreFreelists` for every order of allocation and release |
| `lifecycle` | 2 threads, 2 pages, a reset | `CountersSinceReset`, `EveryByteAccounted` |
| `payload` | 2 threads, 3 pages, a reset, `p2calloc` on used blocks, moves between slab and large | `PromisesKept`, `TripwiresIntact` |
| `liveness` | 2 threads, 2 pages, weak fairness | `SpinningEnds`, `LocksReleased`, `AloneCallsReturn` |
| `list_use` | 3 objects, 2 lists, 1 loop | `RingsAreLists`, `LoopVisitsAll` |
| `unity_runner` | suites of up to 3 tests, 2 messages | `FirstVerdictCounts`, `OutputTellsVerdicts`, `DetailsAreOwn`, `TearDownOnce`, `EveryTestConcludes` |
| `unity_values` | every 16-bit number, strings of up to 2 characters | `NumbersReadBack`, `TextTellsString` |
| | mantissas to 1020, 17 exponents | `FloatsReadBack`, `TextsAreShort` |
| | 2 arrays of 2 numbers of each kind, at the edges of its type | `ScalarsAreExact`, `ArraysAreScalars`, `DifferenceShows` |
| | 2 arrays of up to 3 characters, with and without a 0 | `StringsCompareExactly`, `NoReadBeyond`, `MemoryIsExact` |
| | 2 arrays of 2 floats, all kinds of delta | `FloatsAreExact`, `ArraysAreFloats`, `TraitsRespectEquality` |
| `carve_order` | 1 thread, 1 page | violated: `ListsAscend` |
| `wrapped_size` | 1 thread, 1 page | violated: `OversizeHasNoBucket` |
| `totmem_drift` | 1 thread, 2 pages, a reset | violated: `TotmemOnlyAfterReset` |

The runs of `MCP2Links` and of the layers above it check `P2Malloc` too: all its steps
are in them, and its properties mean the same there. `EveryByteAccounted` and
`CountersSinceReset` say of the states before the first reset that nothing leaks and that
the counters are exact.

**Bounds.** Requests of 2000 bytes fall in bucket 6 (two blocks a page), 4000 in
bucket 7 (one), 1000 in bucket 5 (four), 5000 needs two pages of its own. Two or three
pages are enough for a list to be empty, refilled, shared and refilled again beside a
large block, and for the OS to run out; the OS can also refuse at any other time. Two
threads are enough for every pair of steps to meet; the locking is proved for any
number. `SIZE_MAX` is 65535, the least C allows, which keeps the whole range within
TLC's integers and the sizes near the wrap within reach. The `edges` run passes 0,
`P2_SLAB_MAX`, `P2_SLAB_MAX + 1`, the last size the overflow guard admits (whose
page-aligned sum is 0), the first it refuses, and to `p2realloc` `SIZE_MAX` (which no
block of these sizes can take in place; one of bucket 0 can, and `HeldBlocksFit` fails
there with `OversizeHasNoBucket`, the subject of `wrapped_size`);
`p2calloc` gets products on both sides of the wrap. Its three pages of 1000-byte
blocks let one thread do all orders of 12 blocks and stop the scan of
`p2orderedinsert` at every place; the list is only ever changed under its lock, so
more threads give no other order. The array of list heads is below the heap or above
it. `p2free(NULL)` changes nothing and is not an action.

Three objects are enough for a list to have a first, a middle and a last one, two lists
for an object to change over. `payload` follows the first word of every page's payload
and one near the end of the page: both blocks of a move have those of the first page,
only the larger one has a second page; its clients call
`p2calloc`, `p2realloc` of a block and `p2realloc(NULL, n)`, which is `p2malloc(n)`, and
one request is large and one is not, so blocks move between the paths both ways. In
`lifecycle` and `payload` one reset comes at any moment between calls, with any subset of
the blocks given up. A second reset is not tried: `CountersSinceReset` speaks of the
last one only, and what a reset leaves does not depend on how often there was one.

Three tests with up to two messages let a verdict be told from its predecessor's and
its successor's. For Unity's numbers a byte has `BYTE = 2` bits instead of 8: the code only
ever multiplies the number of bytes by the bits of one, so types keep their proportions
(1, 2, 4 and 8 bytes are 2, 4, 8 and 16 bits) and TLC can try every number of the
widest; characters keep their 8 bits. The proofs hold for 8 bits as well. Floats are integers between `-MAX` and `MAX`, with
infinities and NaN, and a relative precision of 1/4 for 1/100000; sums beyond `MAX` are infinite.
For printing, a float is an exact decimal and 7 digits become 2, 1e10 becomes 1e3: the
loops, the three ranges of the scaling, the carry and the layout are those of the code,
and each border is crossed on both sides.

**Fairness.** `FairSpec` is weak fairness of every thread's steps: the OS scheduler
runs a thread that can run. Calls by clients are not fair: a thread may stop
calling. A step that waits for a mutex is only weakly fair, because neither
`pthread_mutex_t` nor `SRWLOCK` promises a waiting thread its turn; so no
property says that a call returns while other threads keep taking the lock. What is
said is that a lock that is held is released, that the spin in `ensure_init` ends, and
that a thread that runs while the others are outside calls returns.

`UnityRunner` assumes that `setUp`, the tests and `tearDown` return or abort in the end (weak
fairness of `Leaves`) and that the thread goes on where it is in the runner. That a next
test is started, or the suite ended, is not assumed.

### What the code does otherwise than its documents say

* `carve_order`: `p2malloc.c:167` and `README.md:24` of the repository say the lists
  are in ascending address order. Carving (`p2malloc.c:228-232`) adds each block at the
  head, so a fresh list descends, and nodes inserted later leave the descents where
  they are. What is true is `ListsInRuns`: two nodes are out of order only inside an
  unbroken rest of a carved page.
* `wrapped_size`: `p2malloc.c:150` says `get_freelist_idx` answers -1 when size and
  header exceed a page. Its sum wraps for the 16 largest sizes. `p2malloc` refuses
  those before it asks, `p2realloc` does not (`p2malloc.c:298`), so a block of bucket 0
  is "grown" in place to `SIZE_MAX` bytes.
* `totmem_drift`: `p2malloc.h:35` says that `p2totmem()` reflects only allocations after the
  last reset. A large block from before it takes its bytes off the new count when it is
  freed, which wraps below 0. What is true is `CountersSinceReset`: the counters are
  the wrapped difference to the last reset.

A remark that no run is about: a float exactly between two integers is rounded to the
even one (`unity.c:448-451`) by the fraction alone when the integer part already has
all the digits, so 1000001.5 is printed as 1000001. `FloatsReadBack` allows either.

## 4. What is proved

`P2MallocProofs`, its first part from `PlatformAssumption` only (any `SIZE_MAX` from 65535
up, 4- or 8-byte `size_t`, 8- or 16-byte alignment):

* `BucketTheorem`, `PageTheorem`, `CallocTheorem`: what the run `size_classes` checks
  for 16 bits, for every width, at every size and with any element counts. The proof of the first goes over the eight buckets;
  the second separates sums that wrap from those that do not; the third writes
  `SIZE_MAX` as quotient times size plus a rest.

Its second part, for any set of threads, any heap and any client, from
`ClientAssumption` (only `NoThread \notin Threads` is used):

* `MutualExclusionTheorem`, `InitExclusiveTheorem`. Neither property is inductive. The
  invariant `ControlInv` adds that a thread in a critical section holds the lock of the
  bucket in its locals (`HoldsLock`), and that before `init_state` is 2 nobody is past
  `ensure_init` and no client holds a pointer (`NothingYet`): without the second,
  `freelists_init` could reset a lock that is held. One lemma per action; most follow
  from `PlainStep` (no lock changes) or `UnlockStep`. Nothing is assumed of the heap, so
  the invariant says of `call` only that it has its fields.

`FreelistProofs`, about any list: taking the first node, inserting one where the scan
stops (`InsertNodes`) and carving a page (`CarvedPageBlocks`) give lists without
repetition and with exactly the expected nodes, and leave nodes out of order only inside
the rest of a carved page (`TailKeepsRuns`, `InsertKeepsRuns`, `CarvedIsRun`). These
stand for induction over the list: each says what a sequence of any length holds, from
its definition by index.

Its third part, for any set of threads, any number of pages, any platform of
`PlatformAssumption` and any client of `ClientAssumption`:

* `HeapTheorem`: `HeapInv` is an invariant. `NoOverlap` alone is not inductive: a thread
  that frees a block could hold a pointer that some other thread frees too, a header
  could lie about where its block came from, and a thread with a block in hand could
  have it on a list as well. `HeapInv` has one part against each:
  - `TypeOK`;
  - `LocalsInv`: what the locals of a call mean at each label (at `carve` the list is
    empty and `blk` a page, at `pop` the list is not empty, `idx` is the bucket of
    `size`, and so on). That the list stays empty or full while the thread moves on is
    where the mutex comes in: `ControlInv` says that no other thread is in the section;
  - `HeadersInv`: a header that says large has whole pages at a page address, any other
    has a size with a bucket;
  - `OwnersInv`: each pointer a client holds and each pointer a call answers for has a
    header, and no two of them are the same;
  - `ChunksInv`: the chunks are apart, and each lies in the heap and in mapped pages.

  Each action moves at most one chunk, or takes one from the OS, or gives one to it;
  `ChunkMoves`, `ChunkFromOS` and `ChunkToOS` say that this keeps `ChunksInv`.
  `QuietStep` covers the actions that move none. `CarvePage` is the one that cuts a
  chunk into many: the blocks of a carved page are apart because they are a block
  length apart, and stay within the page.
* `NoOverlapTheorem`, `TypeOKTheorem`, `FreeFindsBucketTheorem` follow from it.
* `ListsInRunsTheorem`: what is true instead of "ascending" (section 3). Only three
  actions change a list. Carving makes one run; taking the first node leaves the rest of
  each run; inserting puts the node in front of the first larger one, and a run that it
  would split has no room for it, because `ChunksInv` keeps the chunk inserted off the
  nodes there and the nodes of a run are one block length apart (`NothingInARun`).

Its last part is under the further hypothesis `ReallocsFit`: no client asks `p2realloc`
for one of the `P2_HEADER_SIZE` largest sizes. It is a hypothesis of the three theorems,
not an assumption of the module `P2Malloc`, because the code does not enforce it:
`wrapped_size` (section 3) is the counterexample to all three without it.

* `HeldBlocksFitTheorem`, `OversizeTheorem`: from `SizesInv`, which adds to `HeapInv` that
  no size in a header or in the locals of a call is one of those that wrap. The requests
  that reach a header from `p2malloc` and `p2calloc` are bounded by the guard of `p2malloc`,
  those from `p2realloc` by the hypothesis.
* `ImplementsHeapTheorem`: the initial state is one of `Heap`, and every step is one of
  `Heap` or leaves what `Heap` sees as it is. Lemmas say what each action does to the
  pieces that clients hold (most: nothing; a successful return adds one, disjoint from the
  others by `ChunksInv`; a free or a move takes one away).

`P2LinksProofs`, for any set of threads, any pages, and any place of the array of list heads
that is off the heap's pages (`ArrayAssumption`):

* `LinksTheorem`: `LinkInv` is an invariant. `RingsAreFreelists` and `HeadersIntact` are not
  inductive, alone or together: a write to a node is harmless to the other lists and to the
  headers only if that node is on no other list and has no header, which is what `ChunksInv`
  says, and if no head lies in a block (`HeadsApart`). `LinkInv` stands beside `HeapInv` and
  `ControlInv`, and adds that every word is a number (`Readable`), that the rings are there
  from the moment the heads are linked, before `init_state` says so (`AllLinked`), and that the
  locals of a slab call have `alloc_size` 0 (`Unsized`), which is what marks the header.
* `AddAt`, `RemAt`, `InitAt` say what the assignments of `ps_list.h` leave in each word, and
  `RingAfterAdd`, `RingAfterFirst` what that makes of a ring of any length. They do for
  addresses of blocks what `PsListProofs` does for objects.
* Two loops need an induction. `CarveLinked`: the loop over a new page leaves the ring of
  `CarvedPage`; after `k` rounds it is that of the first `k` blocks (`BlockLinked` is a round).
  `ScanFromStop`: the scan of `p2orderedinsert`, followed through `previous`, stops where the
  relation `ScanStopsAt` of `Freelist` says, so `OrderedInsertRing` relates the pointer-level
  insertion to the one on sequences; the scan ends because no list has more nodes than the
  heap has bytes (`ListIsShort`). Both are inductions over an interval (`IntervalInduction`):
  a least counterexample among finite sets (`MinimalSubset`), which needs no operator as a
  parameter. For this, the loop and the cursor are recursive functions.
* `LinkAfter`: a step that writes to a set of places keeps `LinkInv` if that set meets no
  other list and no header. One lemma per action that writes.
* `RingsAreFreelistsTheorem`, `HeadersIntactTheorem` follow.

`P2LifecycleProofs`, for any pages, any number of resets and any set of threads (for the
counters: any finite one, as a program has):

* `ResetHeapTheorem`, `ResetNoOverlapTheorem`: `p2reset` keeps `ControlInv` and `HeapInv`. It
  takes the chunks on the lists away and the others are as they were; it may come only
  when no call is running, so no thread has a block of a list in hand.
* Sums over sets. `MapThenSumSet` is a `CHOOSE` of a function that recurs over sets;
  `SumIsTotal` shows that it is `Total(w, S)`, the number of the cells `<<x, i>>` with `x` in `S` and
  `i` in `1 .. w[x]`, for which the library's facts about cardinalities give what a step
  needs (`TotalUnion`, `TotalRemove`, `TotalSame`). The induction over finite sets in it is one over
  a set, not an operator: a least counterexample among the subsets (`WFMin`).
* `EveryByteAccountedTheorem`. That the sum of the chunks is that of the pages is not
  inductive: it would stay true if a block were lost and another counted twice. `AccountInv`
  says it byte by byte, beside `HeapInv` and `ControlInv`: each byte is mapped exactly if a
  list, a block in use or a thread's hand has it, or it was on a list at a reset, and
  what was on a list at a reset has no other owner. A step of a thread gives a byte an owner
  or takes it from the last one only together with its page (`Kept`, one lemma per
  action). `AccountTotal` counts the bytes.
* `CountersSinceResetTheorem`. `CountersInv` is the property with `Total` for the sums. An
  atomic add or subtract wraps by itself, so each step has to agree with it only modulo
  `SIZE_MAX + 1` (`WrapSame`, `WrapAdd`): it changes the counter by what it changes the sum
  by (`AllocatedStep`), for `totmem` together with what the thread has in hand and has not
  counted yet (`TotmemStep`). `CountMore` and `CountLess` need that a block in hand has no
  header and that no other thread answers for a block that is being resized, which
  `HeapInv` says. `ReallocsFit` is not needed: a size that wraps counts as what it is.

`P2PayloadProofs`, for any set of threads, any pages, any number of resets, any grain
(`PayloadAssumption`) and any words followed:

* `PayTheorem`, under `ReallocsFit`: `PayInv` is an invariant. `PromisesKept` and
  `TripwiresIntact` say nothing of where a promise lies, so they are not inductive. `PayInv`
  has `SizesInv` (and with it `HeapInv`) and adds:
  - `GrainsInv`: every block begins at a multiple of the grain, so a word followed is in
    a block or outside it as a whole;
  - `AnsweredInv`: a call that has a block for its client has recorded the client's
    size in its header, so that what is promised is inside the block;
  - `PromisesHeld`: a promise is about a block in use, for no more than its size;
  - unused pages are blank, because the first words of the blocks that are carved out
    of a page are zero only if the page was.

  What an action writes lies in a chunk of the thread that takes it (`HolderWrites`), and
  no word lies in two chunks (`OneCover`, from `ChunksInv`), so all other promises and
  tripwires stand (`WordsAfter`). Without `ReallocsFit` a block of `wrapped_size` would
  promise words outside itself.
* `PromisesKeptTheorem`, `TripwiresIntactTheorem` follow.

`PsListProofs`, for any objects, any list heads and any offset of the links in an object:

* `UseTheorem`: `UseInv` is an invariant. It says that no object is twice on a list or on
  two (`ListedOnce`), that every word of a list head or object is what the sequences
  say (`Links`), and of a loop that `iter` and the saved `tmp` are where the next visits
  are due (`LoopAt`). `RingsAreLists` and `LoopVisitsAll` are not inductive by themselves: adding
  an object touches two neighbours, and only if they are on no other ring are the other
  rings untouched.
* `RingAfterAdd`, `RingAfterRem`: `ps_list_ll_add` and `ps_list_ll_rem` turn the ring of a
  sequence into that of the sequence with one member more or less, for any length, from
  the words that the assignments leave (`AddWords`, `RemWords`). `RingElsewhere` says that
  a ring is untouched by writes to none of its stops.
* `RingsAreListsTheorem`, `LoopVisitsAllTheorem` follow. For the second, the body may remove
  the object it visits or put it on another list; `tmp` was read before.

`UnityRunnerProofs`, for suites of any number of tests with any number of messages:

* `RunTheorem`: `RunInv` is an invariant. It has a part for the flow (`FlowInv`: which
  frames are set up and how often `tearDown` ran, at each `pc`), for the flags (`FlagsInv`:
  the two flags of the current test against what it has said first), for the counters
  (`CountsInv`: sums of the concluded tests, as cardinalities), for the details
  (`DetailsInv`: those that are set are the current test's, or will be cleared before a
  test can fail) and for the output (`LinesInv`: the lines so far against the verdicts, with
  the half-written line of the current test).
* `TearDownOnceTheorem`, `FirstVerdictCountsTheorem`, `OutputTellsVerdictsTheorem`,
  `DetailsAreOwnTheorem` follow from it.

`UnityValuesProofs`, for any `BYTE` of 2, 4, 6 or 8 bits (8 are what the code has), any
`MAX` and `PRECISION` with room for the relative difference (`TestedAssumption`), and any
characters; for the strings printed, any characters of eight bits but the backslash
(`CodesAssumption`), which is shown as itself and begins the escapes of others; for the
floats printed, 2 to 7 digits, any first power of ten up to 10 (`FloatPrintAssumption`), and
any mantissas and powers that the scaling brings into range in no more turns than `Turns`
has (`FloatRangeAssumption`):

* `ValuesTheorem`: `ValuesTyped` is an invariant: what is tried are floats, arrays of natural
  numbers, numbers of their kind, strings of characters and floats to print. The other
  theorems say that a property holds of whatever is of its type, which is far more than
  what the run tries, and with `ValuesTheorem` that it holds wherever the run goes.
* `ScalarsAreExactTheorem`. Two numbers of a type of `b` bytes are less than `Width(b)` apart,
  and a cast to `b` bytes takes away multiples of it, so the casts of the macros change none
  (`CastSame`) and the unsigned difference of `WITHIN` is the distance (`ApartIsDistance`),
  also where a signed one overflows. What is needed of the widths is that each is the
  square of the one of half the bytes (`WidthSquared`): the prover computes no `2^64`.
* `ArraysAreScalarsTheorem`. `BytesOfDigits`: what `UnityNumToPtr` has written digit by digit, `Bytes`
  reads back, one byte after the other (`DigitOnTop`), for a type has no more than eight.
  Loading tells numbers apart, although 64-bit unsigned ones become signed (`LoadedNumbers`),
  and two assertions that fail for the same elements name the same one (`SameFirst`).
* `FloatsAreExactTheorem`, `ArraysAreFloatsTheorem`, `TraitsRespectEqualityTheorem`: by cases on
  which of the floats are infinite or NaN. An assertion on an array has `FirstOf` what its
  elements show (`FirstOfShown`), so two agree when they show something for the same ones.
* `StringsCompareExactlyTheorem`, `NoReadBeyondTheorem`: the loop of a comparison stops at the
  first place where the texts differ or both end (`LoopStops`), so what it sees before is
  the same in both (`LoopCompares`), and it stops no later than the shorter text
  (`LoopStaysInText`). No induction is needed: the loop is given by where it ends, and a
  least place exists (`MinOfNaturals`).
* `MemoryIsExactTheorem`: the byte-by-byte loop over elements finds the first bad byte of
  any; its element is the quotient by the length.
* `NumbersReadBackTheorem`, for numbers of up to 64 bits. `PlaceValue`: the last `n` digits
  of a number, read from left to right, are worth the number modulo `radix^n`; an
  induction over an interval, as for `BytesOfDigits`, since to divide twice is to divide by
  the product (`DividedTwice`). `DecimalDigits`: the loop that looks for the first divisor
  stops, and at the number of digits the number has, because a number of 8 bytes has at
  most 20 (`TwentyDigits`); `Nibbles`: two hexadecimal digits are one byte at any `BYTE`.
* `DifferenceShowsTheorem`: numbers that are read back differently are shown differently
  (`NumbersTold`), in a single assertion, and for the element of an array that an
  assertion names. For bits, the mask is worked out: its lowest bits, as many as an `int`
  has, are set (`LowBits`), and numbers that differ below them differ in one (`BitsTold`).
* `TextTellsStringTheorem`, for strings of any length. What is shown of a character tells
  which one it is, whatever comes behind it (`CharacterTold`); the digits of an escape are
  always two, so no text begins like another. A text grows character by character
  (`FlattenGrows`, `GrowthKeeps`), so at the first character in which two strings differ, or
  that only one of them has, their texts part (`TextTold`).
* `FloatsReadBackTheorem`, `TextsAreShortTheorem`, for `SigDigits` 7 and `Big` 10 as in the code
  too, where the range covers every float: written exactly, one has up to 112 digits and
  a power of ten from -149 to 0, and each of 7 + 149 and 112 is below the 170 of the
  assumption. The argument follows the code:
  - a number has the digits that the two powers of ten around it say (`DigitsOfIs`,
    `DigitsOfOnly`), and a loop stops where its condition first fails (`LoopIs`), so each of
    the three ranges of the scaling brings the number between `min_scaled` and `max_scaled`
    (`ScaledUp`, `ScaledDown`, `ScaledInside`);
  - the rounding is within a half of it (`RoundedIs`), so `n` and `exponent` are the float
    within half a unit, and `n` has `SigDigits` digits, after the carry too (`SignificantIs`);
  - the zeros that are cut are all there are (`TrimmedIs`), so the layout loses nothing
    (`LayoutIs`): digits, a point if any are behind it, an exponent if there is one;
  - a text of these parts is read part by part (`TextIs`, `ReadIs`), each part by
    `PlaceValue`; what is read is `n` times the power of ten (`PrintedFloat`), and so is
    near the float in any common unit (`NearIsWithin`).

  Powers of ten are one recursive function (`TenTo`), of which the proofs know that it is
  multiplied by 10 from one exponent to the next (`TenToIs`, `TenToAdds`, `TenToGrows`).

Each of these inductive invariants was model-checked on the run of its module before it
was proved (the part of `AccountInv` that speaks of single bytes on a sample of them).

Only model-checked are the liveness properties (`SpinningEnds`, `LocksReleased`,
`AloneCallsReturn`, `EveryTestConcludes`), because fairness and `ENABLED` are outside what
TLAPS proves. Every safety property that a passing run checks is stated by a theorem.

## 5. What is not modelled

* the Windows backend (same interface as the POSIX one) and the macros that rename
  `malloc`: no behaviour of their own;
* the demo program and the unit tests: fixed single-threaded sequences of calls, each a
  path of the models; build and CI: no run-time behaviour;
* what the Makefile's flags leave out of Unity: doubles (the float code once more),
  `UnityPrintF`, the stack of details, the command line, execution times, coloured and
  IDE output. `unity.h` itself only renames macros;
* rounding of floats in single precision: comparisons and printing are exact, but for
  the overflow to infinity. `UNITY_FLOAT_INVALID_TRAIT`, and float arrays that are `NULL` or
  the same array, which pass or fail unseen;
* wording: the texts around the values shown;
* payload words that no offset of an instance names, and alignment of what clients store;
* weak memory: the atomics of the code are sequentially consistent and blocks change
  hands through mutexes, so steps are taken to happen in one order;
* threads that die inside a call: the code has no recovery from that.

## 6. Plan

1. done: `SizeClasses`, `Freelist`, `P2Malloc`, `Heap` and their runs; arithmetic,
   locking and the heap's ownership (`HeapInv`) proved.
2. done: the pointer-level lists (`PsList`, `PsListUse`, `P2Links`), `p2reset` (`P2Lifecycle`), payloads
   (`P2Payload`).
3. done: Unity's runner, printing and assertions.
4. done: proofs on `HeapInv` (`ListsInRuns`, `HeldBlocksFit`, the refinement of `Heap`), about
   the list and about the runner.
5. done: proofs about payloads: that `p2reset` keeps `HeapInv`, then `TripwiresIntact` and
   `PromisesKept`.
6. done: proofs about sums (`EveryByteAccounted`, `CountersSinceReset`).
7. done: proofs that the pointers in the blocks form the free lists (`RingsAreFreelists`,
   `HeadersIntact`).
8. done: proofs about single floats and numbers, strings and memory (`FloatsAreExact`,
   `ScalarsAreExact`, `StringsCompareExactly`, `MemoryIsExact`).
9. done: a proof about arrays of numbers in memory (`ArraysAreScalars`).
10. done: proofs about what is printed of numbers and strings (`NumbersReadBack`,
    `DifferenceShows`, `TextTellsString`) and of floats (`FloatsReadBack`, `TextsAreShort`).
