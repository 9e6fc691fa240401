---------------------------- MODULE P2PayloadProofs ----------------------------
(***************************************************************************)
(* What is in the blocks stays there: what clients wrote, what p2calloc and *)
(* p2realloc promise, and the tripwires of p2free, for any number of       *)
(* threads, pages and resets, any grain and any words followed.            *)
(***************************************************************************)
EXTENDS P2Payload, P2LifecycleProofs

\* Where a thread has a block of a list in hand.
HandLabels == {"write_header", "free_lock", "free_insert"}

\* The blocks that are on a list, or on their way to or from one.
FreeBlocks ==
  (UNION {Range(freelists[i]) : i \in Freelists})
    \cup {call[t].blk : t \in {u \in Threads : pc[u] \in HandLabels}}

\* The pages that the OS has not given out or that nobody has written to yet.
Carving     == {call[t].blk : t \in {u \in Threads : pc[u] = "carve"}}
UnusedPages == (HeapPages \ mapped) \cup Carving

Requests ==
  {0} \cup MallocSizes \cup ReallocSizes \cup {Wrap(a[1] * a[2]) : a \in CallocArgs}

\* Every block lies at a multiple of Grain.
GrainsInv ==
  /\ \A b \in DOMAIN hdr \cup FreeBlocks : b % Grain = 0
  /\ \A t \in Threads : call[t].size \in Requests

\* Where a call has a new block for its client, whose header records the size
\* that the client asked for.
NewLabels == {"add_totmem", "zero_payload", "copy_payload"}

AnsweredInv ==
  \A t \in Threads :
    /\ pc[t] = "add_totmem" => hdr[call[t].blk].size = call[t].size
    /\ pc[t] \in {"zero_payload", "copy_payload"} =>
         call[t].ret # NULL /\ hdr[HdrOf(call[t].ret)].size = call[t].size

InPage(page, a) == page <= a /\ a < page + PAGE_BYTES
Blank(page)     == \A a \in Followed : InPage(page, a) => word[a] = 0

PromisesTyped ==
  promise \in [{PtrOf(b) : b \in {c \in BlockAddrs : c % Grain = 0}} ->
                 [value : Values \cup {0}, n : Nat]]

\* A promise is about a block in use and no more than its request.
PromisesHeld ==
  /\ PromisesTyped
  /\ \A ptr \in DOMAIN promise :
       promise[ptr].n # 0 => /\ HdrOf(ptr) \in DOMAIN hdr
                             /\ promise[ptr].n <= hdr[HdrOf(ptr)].size

WordsInv ==
  /\ PromisesHeld
  /\ PromisesKept
  /\ \A page \in UnusedPages : Blank(page)
  /\ \A b \in FreeBlocks : word[PtrOf(b)] = 0

BlocksInv == ControlInv /\ HeapInv /\ SizesInv /\ GrainsInv /\ AnsweredInv

PayInv == BlocksInv /\ WordsInv

--------------------------------------------------------------------------------
(***************************************************************************)
(* Grains.                                                                 *)
(***************************************************************************)
LEMMA GrainLengths == Grain \in BlockLengths
  BY PayloadAssumption, FreelistNumbers, BlockSizes DEF PayloadAssumption, BlockLengths

LEMMA PagesAreGrains == \A page \in HeapPages : page % Grain = 0
<1> SUFFICES ASSUME NEW page \in HeapPages PROVE page % Grain = 0
  OBVIOUS
<1>1. page \in Nat /\ page % 4096 = 0
  BY HeapNumbers
<1> QED
  BY <1>1, GrainLengths DEF BlockLengths

\* The blocks of a page carved into blocks that are no smaller than a grain.
LEMMA CarvedGrains ==
  ASSUME NEW page \in Nat, page % 4096 = 0, NEW bytes \in BlockLengths, bytes >= Grain,
         NEW b \in Range(CarvedPage(page, 4096, bytes))
  PROVE  b % Grain = 0
<1> DEFINE n == 4096 \div bytes
<1>1. n \in Int /\ Grain \in BlockLengths
  BY GrainLengths DEF BlockLengths
<1> HIDE DEF n
<1> DEFINE list == CarvedPage(page, 4096, bytes)
<1>2. list = [k \in 1..n |-> page + 4096 - k * bytes]
  BY DEF CarvedPage, n
<1> HIDE DEF list
<1>3. PICK k \in 1..n : b = page + 4096 - k * bytes
  <2>1. PICK k \in DOMAIN list : b = list[k]
    BY DEF Range, list
  <2> QED
    BY <1>2, <2>1
<1>4. k \in Int
  BY <1>1, <1>3
<1> QED
  BY <1>1, <1>3, <1>4 DEF BlockLengths

\* A followed word lies in one grain, and so in one page.
LEMMA WordInGrain ==
  ASSUME NEW a \in Followed
  PROVE  /\ a \in Nat /\ a >= 4096 /\ a < HeapEnd
         /\ (a % Grain) + SIZEOF_SIZE_T <= Grain
<1>1. a \in Nat /\ a >= 4096 /\ a < HeapEnd
  BY HeapNumbers DEF Followed
<1>2. PICK o \in Offsets : a % Grain = PtrOf(o)
  BY DEF Followed
<1>3. o \in Nat /\ o % 32 = 0 /\ o < Grain
  BY PayloadAssumption, BlockSizes DEF PayloadAssumption
<1>4. P2_HEADER_SIZE + SIZEOF_SIZE_T <= 32 /\ P2_HEADER_SIZE \in Nat /\ SIZEOF_SIZE_T \in Nat
  <2>1. SIZEOF_SIZE_T \in {4, 8}
    BY PlatformAssumption DEF PlatformAssumption
  <2> QED
    BY <2>1, HeaderSize
<1>5. o + 32 <= Grain
  BY <1>3, GrainLengths DEF BlockLengths
<1> QED
  BY <1>1, <1>2, <1>3, <1>4, <1>5, GrainLengths DEF PtrOf, BlockLengths

LEMMA WordInPage ==
  ASSUME NEW a \in Followed, NEW page \in HeapPages, InPage(page, a)
  PROVE  a + SIZEOF_SIZE_T <= page + 4096
<1>1. page \in Nat /\ page % 4096 = 0
  BY HeapNumbers
<1>2. a \in Nat /\ (a % Grain) + SIZEOF_SIZE_T <= Grain
  BY WordInGrain
<1>3. SIZEOF_SIZE_T \in {4, 8}
  BY PlatformAssumption DEF PlatformAssumption
<1>4. page <= a /\ a < page + 4096
  BY DEF InPage, PAGE_BYTES
<1> QED
  BY <1>1, <1>2, <1>3, <1>4, GrainLengths DEF BlockLengths

\* The first word of a block is followed.
LEMMA FirstWord ==
  ASSUME NEW b \in BlockAddrs, b % Grain = 0
  PROVE  /\ PtrOf(b) \in Followed
         /\ b <= PtrOf(b) /\ PtrOf(b) + SIZEOF_SIZE_T <= b + 32
         /\ SIZEOF_SIZE_T > 0
<1>1. b \in Nat /\ b >= 4096 /\ b < HeapEnd /\ b % 32 = 0
  BY AddressRange
<1>2. HeapEnd \in Nat /\ HeapEnd % 32 = 0
  <2>1. NPages \in Nat
    BY ClientAssumption DEF ClientAssumption
  <2>2. HeapEnd = 4096 * (NPages + 1)
    BY DEF HeapEnd, PAGE_BYTES
  <2> QED
    BY <2>1, <2>2
<1>3. P2_HEADER_SIZE \in {8, 16} /\ SIZEOF_SIZE_T \in {4, 8}
  BY HeaderSize, PlatformAssumption DEF PlatformAssumption
<1>4. (b + P2_HEADER_SIZE) % Grain = P2_HEADER_SIZE
  BY <1>1, <1>3, GrainLengths DEF BlockLengths
<1>5. b + 32 <= HeapEnd
  BY <1>1, <1>2
<1>6. b + P2_HEADER_SIZE \in 4096..(HeapEnd - 1)
  BY <1>1, <1>2, <1>3, <1>5
<1>7. 0 \in Offsets /\ PtrOf(0) = P2_HEADER_SIZE
  BY <1>3, PayloadAssumption DEF PayloadAssumption, PtrOf
<1>8. PtrOf(b) \in Followed
  BY <1>4, <1>6, <1>7 DEF PtrOf, Followed, PAGE_BYTES
<1> QED
  BY <1>1, <1>3, <1>8 DEF PtrOf

\* memcpy between two blocks takes followed words to followed words.
LEMMA ShiftedWord ==
  ASSUME NEW x \in Nat, x % Grain = 0, NEW y \in Nat, y % Grain = 0, NEW a \in Nat
  PROVE  (a + x - y) % Grain = a % Grain
  BY GrainLengths DEF BlockLengths

--------------------------------------------------------------------------------
(***************************************************************************)
(* What a step does to free blocks, to unused pages and to headers.        *)
(***************************************************************************)

\* Where a step takes a thread: four actions put a block or a page in its hand,
\* three give it a new block with a header.
Target(t, l, c) ==
  /\ StepTo(t, l, c)
  /\ c.size = call[t].size \/ c.size \in Requests
  /\ l = "carve" => ClaimPage(t)
  /\ l \in HandLabels => TakeFirst(t) \/ FreeLock(t) \/ FreeSlab(t)
  /\ l \in NewLabels => LargeAddAllocated(t) \/ LargeAddTotmem(t) \/ WriteHeader(t)

LEMMA EnterTargets ==
  ASSUME HeapInv, NEW t \in Threads, NEW c, EnterMalloc(t, c), c.size \in Requests
  PROVE  \E l, d : Target(t, l, d)
<1>1. PICK l \in {"done", "ensure_init"} : StepTo(t, l, c)
  BY DEF EnterMalloc, Goto, StepTo
<1> QED
  BY <1>1 DEF Target, HandLabels, NewLabels

LEMMA CallTargets ==
  ASSUME HeapInv, NEW t \in Threads, Call(t)
  PROVE  \E l, c : Target(t, l, c)
<1>1. ASSUME NEW size \in MallocSizes, p2malloc(t, size) PROVE \E l, c : Target(t, l, c)
  <2>1. NewCall("malloc", NULL, size).size \in Requests
    BY DEF NewCall, Requests
  <2> QED
    BY <1>1, <2>1, EnterTargets DEF p2malloc
<1>2. ASSUME NEW args \in CallocArgs, p2calloc(t, args[1], args[2])
      PROVE  \E l, c : Target(t, l, c)
  <2> DEFINE product == Wrap(args[1] * args[2])
  <2>1. product \in Requests
    BY DEF Requests
  <2>2. \/ StepTo(t, "done", NewCall("calloc", NULL, 0))
        \/ EnterMalloc(t, NewCall("calloc", NULL, product))
    BY <1>2 DEF p2calloc, StepTo, Goto
  <2> HIDE DEF product
  <2>3. /\ NewCall("calloc", NULL, product).size \in Requests
        /\ NewCall("calloc", NULL, 0).size \in Requests
    BY <2>1 DEF NewCall, Requests
  <2>4. ASSUME StepTo(t, "done", NewCall("calloc", NULL, 0)) PROVE \E l, c : Target(t, l, c)
    BY <2>3, <2>4 DEF Target, HandLabels, NewLabels
  <2> QED
    BY <2>2, <2>3, <2>4, EnterTargets
<1>3. ASSUME NEW ptr \in live, p2free(t, ptr) PROVE \E l, c : Target(t, l, c)
  <2> DEFINE c == [NewCall("free", ptr, 0) EXCEPT !.blk = HdrOf(ptr)]
  <2>1. StepTo(t, "free", c) /\ c.size \in Requests
    BY <1>3 DEF p2free, StepTo, Goto, NewCall, Requests
  <2> HIDE DEF c
  <2> QED
    BY <2>1 DEF Target, HandLabels, NewLabels
<1>4. ASSUME NEW ptr \in live \cup {NULL}, NEW size \in ReallocSizes, p2realloc(t, ptr, size)
      PROVE  \E l, c : Target(t, l, c)
  <2> DEFINE c == NewCall("realloc", ptr, size)
             f == [c EXCEPT !.blk = HdrOf(ptr)]
             r == [c EXCEPT !.ret = ptr]
  <2>1. EnterMalloc(t, c) \/ StepTo(t, "free", f) \/ StepTo(t, "realloc_sub", r)
    BY <1>4 DEF p2realloc, StepTo, Goto
  <2>2. c.size \in Requests /\ f.size \in Requests /\ r.size \in Requests
    BY DEF NewCall, Requests
  <2> HIDE DEF c, f, r
  <2> QED
    BY <2>1, <2>2, EnterTargets DEF Target, HandLabels, NewLabels
<1> QED
  BY <1>1, <1>2, <1>3, <1>4 DEF Call

LEMMA StepTargets ==
  ASSUME HeapInv, NEW t \in Threads, Step(t)
  PROVE  \E l, c : Target(t, l, c)
<1> DEFINE c == call[t]
<1>0. c \in Calls
  BY DEF HeapInv, TypeOK
<1>1. \A x, d : \/ d = [c EXCEPT !.idx = x] \/ d = [c EXCEPT !.blk = x]
                \/ d = [c EXCEPT !.alloc_size = x] \/ d = [c EXCEPT !.ret = x]
                => d.size = c.size
  BY <1>0, IdxSet, BlkSet, AllocSizeSet, RetSet
<1> DEFINE Plain == Labels \ (HandLabels \cup NewLabels \cup {"carve"})
<1>2. ASSUME NEW l \in Plain, NEW d, StepTo(t, l, d), d.size = c.size
      PROVE  \E k, e : Target(t, k, e)
  BY <1>2 DEF Target
<1>3. ASSUME NEW l \in Plain, Goto(t, l), call' = call PROVE \E k, e : Target(t, k, e)
  BY <1>2, <1>3, SameCall DEF HeapInv
<1>4. ASSUME Resume(t, NULL) PROVE \E k, e : Target(t, k, e)
  <2> DEFINE d == [c EXCEPT !.ret = NULL]
  <2>1. "done" \in Plain
    BY DEF Labels, HandLabels, NewLabels
  <2>2. StepTo(t, "done", d) /\ d.size = c.size
    BY <1>1, <1>4 DEF Resume, AfterMalloc, Goto, StepTo
  <2> HIDE DEF d
  <2> QED
    BY <1>2, <2>1, <2>2
<1>5. CASE \/ CompareAndSwap(t) \/ freelists_init(t) \/ SlabLock(t) \/ ListHasBlock(t)
           \/ CarvePage(t) \/ SubTotmem(t) \/ Unmap(t)
           \/ FreeInsert(t) \/ ZeroPayload(t) \/ ResizeSub(t) \/ ResizeAdd(t)
  <2>1. PICK l \in Plain : Goto(t, l) /\ call' = call
    BY <1>5 DEF CompareAndSwap, freelists_init, SlabLock, Acquire, ListHasBlock, CarvePage,
       SubTotmem, Unmap, FreeInsert, ZeroPayload, ResizeSub, ResizeAdd,
       Move, Labels, HandLabels, NewLabels
  <2> QED
    BY <1>3, <2>1
<1>6. CASE Spin(t)
  <2>1. pc[t] \in Plain /\ Goto(t, pc[t]) /\ call' = call
    BY <1>6 DEF Spin, vars, Goto, Labels, HandLabels, NewLabels, HeapInv, TypeOK
  <2> QED
    BY <1>3, <2>1
<1>7. CASE InitReady(t) \/ SpinEnds(t)
  <2> DEFINE d == [c EXCEPT !.idx = get_freelist_idx(c.size)]
  <2>1. \/ Goto(t, "os_alloc") /\ call' = call
        \/ StepTo(t, "lock", d)
    BY <1>7 DEF InitReady, SpinEnds, Dispatch, Goto, StepTo
  <2>2. d.size = c.size /\ "os_alloc" \in Plain /\ "lock" \in Plain
    BY <1>1 DEF Labels, HandLabels, NewLabels
  <2> HIDE DEF d
  <2> QED
    BY <1>2, <1>3, <2>1, <2>2
<1>8. CASE LargeAllocFails(t) \/ ClaimPageFails(t)
  BY <1>4, <1>8 DEF LargeAllocFails, ClaimPageFails
<1>9. CASE LargeAlloc(t)
  <2> DEFINE n == page_align(Wrap(P2_HEADER_SIZE + c.size))
  <2>1. PICK page : call' = [call EXCEPT ![t].blk = page, ![t].alloc_size = n]
    BY <1>9 DEF LargeAlloc
  <2> HIDE DEF n
  <2> DEFINE d == [c EXCEPT !.blk = page, !.alloc_size = n]
  <2>2. StepTo(t, "add_allocated", d)
    BY <1>9, <2>1 DEF LargeAlloc, Move, Goto, StepTo, HeapInv, TypeOK
  <2>3. d.size = c.size /\ "add_allocated" \in Plain
    BY <1>0 DEF Calls, Labels, HandLabels, NewLabels
  <2> HIDE DEF d
  <2> QED
    BY <1>2, <2>2, <2>3
<1>10. CASE ClaimPage(t) \/ TakeFirst(t)
  <2>1. PICK b : \E l \in {"carve", "write_header"} :
                   /\ StepTo(t, l, [c EXCEPT !.blk = b])
                   /\ l = "carve" => ClaimPage(t)
                   /\ l = "write_header" => TakeFirst(t)
    BY <1>10 DEF ClaimPage, TakeFirst, Move, Goto, StepTo
  <2> DEFINE d == [c EXCEPT !.blk = b]
  <2>2. d.size = c.size
    BY <1>1
  <2>3. PICK l \in {"carve", "write_header"} : /\ StepTo(t, l, d)
                                               /\ l = "carve" => ClaimPage(t)
                                               /\ l = "write_header" => TakeFirst(t)
    BY <2>1
  <2> HIDE DEF d
  <2> QED
    BY <2>2, <2>3 DEF Target, HandLabels, NewLabels
<1>11. CASE FreeLarge(t) \/ CopyPayload(t)
  <2>1. \E x : \E l \in Plain : \/ StepTo(t, l, [c EXCEPT !.alloc_size = x])
                                \/ StepTo(t, l, [c EXCEPT !.blk = x])
    BY <1>11 DEF FreeLarge, CopyPayload, Move, Goto, StepTo, Labels, HandLabels, NewLabels
  <2>2. \E d : \E l \in Plain : StepTo(t, l, d) /\ d.size = c.size
    BY <1>1, <2>1
  <2> QED
    BY <1>2, <2>2
<1>12. CASE FreeSlab(t)
  <2> DEFINE d == [c EXCEPT !.idx = get_freelist_idx(hdr[call[t].blk].size)]
  <2>1. \E l : StepTo(t, l, d) /\ l \in {"free_lock", "aborted"}
    BY <1>12 DEF FreeSlab, Goto, StepTo
  <2>2. d.size = c.size
    BY <1>1
  <2> HIDE DEF d
  <2> QED
    BY <1>12, <2>1, <2>2 DEF Target, HandLabels, NewLabels
<1>13. CASE FreeLock(t)
  <2>1. StepTo(t, "free_insert", c)
    BY <1>13, SameCall DEF FreeLock, Acquire, Move, HeapInv
  <2> QED
    BY <1>13, <2>1 DEF Target, HandLabels, NewLabels
<1>14. CASE Return(t)
  <2>1. StepTo(t, "idle", NoCall) /\ NoCall.size \in Requests
    BY <1>14 DEF Return, Move, Goto, StepTo, NoCall, NewCall, Requests
  <2> QED
    BY <2>1 DEF Target, HandLabels, NewLabels
<1>15. CASE LargeAddAllocated(t)
  <2>1. StepTo(t, "add_totmem", c)
    BY <1>15, SameCall DEF LargeAddAllocated, Move, HeapInv
  <2> QED
    BY <1>15, <2>1 DEF Target, HandLabels
<1>16. CASE LargeAddTotmem(t) \/ WriteHeader(t)
  <2>1. PICK ptr : Resume(t, ptr)
    BY <1>16 DEF LargeAddTotmem, WriteHeader
  <2> DEFINE d == [c EXCEPT !.ret = ptr]
             l == AfterMalloc(c, ptr)
  <2>2. StepTo(t, l, d) /\ d.size = c.size
    BY <1>1, <2>1 DEF Resume, Goto, StepTo
  <2>3. l \notin HandLabels \cup {"carve"}
    BY DEF AfterMalloc, HandLabels
  <2> HIDE DEF d, l
  <2> QED
    BY <1>16, <2>2, <2>3 DEF Target
<1> QED
  BY <1>5, <1>6, <1>7, <1>8, <1>9, <1>10, <1>11, <1>12, <1>13, <1>14, <1>15, <1>16 DEF Step

LEMMA FreeBlocksAfter ==
  ASSUME HeapInv, NEW t \in Threads, NEW l, NEW c, StepTo(t, l, c), NEW new,
         l \in HandLabels => c.blk \in FreeBlocks \cup new,
         \A i \in Freelists : Range(freelists'[i]) \subseteq FreeBlocks \cup new
  PROVE  FreeBlocks' \subseteq FreeBlocks \cup new
<1> SUFFICES ASSUME NEW b \in FreeBlocks' PROVE b \in FreeBlocks \cup new
  OBVIOUS
<1>1. CASE b \in UNION {Range(freelists'[i]) : i \in Freelists}
  BY <1>1
<1>2. CASE b \in {call'[u].blk : u \in {v \in Threads : pc'[v] \in HandLabels}}
  <2>1. PICK u \in Threads : pc'[u] \in HandLabels /\ b = call'[u].blk
    BY <1>2
  <2>2. CASE u = t
    BY <2>1, <2>2, AfterStep DEF HeapInv
  <2>3. CASE u # t
    BY <2>1, <2>3, AfterStep DEF HeapInv, FreeBlocks
  <2> QED
    BY <2>2, <2>3
<1> QED
  BY <1>1, <1>2 DEF FreeBlocks

\* A free block was free before, or its page has been carved or it has been freed.
LEMMA FreeBlocksStep ==
  ASSUME HeapInv, NEW t \in Threads, Call(t) \/ Step(t)
  PROVE  \/ FreeBlocks' \subseteq FreeBlocks
         \/ /\ CarvePage(t)
            /\ FreeBlocks' \subseteq
                 FreeBlocks \cup Range(CarvedPage(call[t].blk, 4096, pow2(call[t].idx)))
         \/ FreeSlab(t) /\ FreeBlocks' \subseteq FreeBlocks \cup {call[t].blk}
<1> DEFINE i == call[t].idx
           b == call[t].blk
           carved == CarvedPage(b, 4096, pow2(i))
<1>1. PICK l, c : Target(t, l, c)
  BY CallTargets, StepTargets
<1>0. StepTo(t, l, c)
  BY <1>1 DEF Target
<1>2. \A j \in Freelists : Range(freelists[j]) \subseteq FreeBlocks
  BY DEF FreeBlocks
<1>3. freelists \in [Freelists -> Seq(BlockAddrs)]
  BY DEF HeapInv, TypeOK
<1>4. pc[t] \in HandLabels => b \in FreeBlocks
  BY DEF FreeBlocks
<1>5. CASE freelists_init(t)
  <2>1. l \notin HandLabels
    BY <1>1, <1>5, AfterStep DEF Target, freelists_init, Move, Goto, HandLabels, HeapInv, TypeOK
  <2>2. \A j \in Freelists : freelists'[j] = <<>>
    BY <1>5 DEF freelists_init
  <2>3. Range(<<>>) = {}
    BY DEF Range
  <2>4. \A j \in Freelists : Range(freelists'[j]) \subseteq FreeBlocks \cup {}
    BY <2>2, <2>3
  <2>8. FreeBlocks' \subseteq FreeBlocks \cup {}
    BY <1>0, <2>1, <2>4, FreeBlocksAfter
  <2> QED
    BY <2>8
<1>6. CASE CarvePage(t)
  <2>1. l \notin HandLabels
    BY <1>1, <1>6, AfterStep DEF Target, CarvePage, Move, Goto, HandLabels, HeapInv, TypeOK
  <2>2. i \in Freelists /\ freelists[i] = <<>> /\ b \in HeapPages
    BY <1>6 DEF CarvePage, Move, HeapInv, LocalsInv, LocalsAt, SlabWay
  <2>3. freelists' = [freelists EXCEPT ![i] = carved \o @]
    BY <1>6 DEF CarvePage, PAGE_BYTES
  <2>4. carved \in Seq(Int)
    <3>1. pow2(i) \in BlockLengths
      BY <2>2, BlockSizes, FreelistNumbers DEF BlockLengths
    <3>2. b \in Nat
      BY <2>2, HeapNumbers
    <3>3. BlocksOfPage(carved, b, pow2(i))
      BY <3>1, <3>2, CarvedPageBlocks
    <3> HIDE DEF carved
    <3> QED
      BY <3>3 DEF BlocksOfPage
  <2> HIDE DEF carved
  <2>5. carved \o <<>> = carved
    BY <2>4
  <2>6. \A j \in Freelists : freelists'[j] = IF j = i THEN carved ELSE freelists[j]
    BY <1>3, <2>2, <2>3, <2>5
  <2>7. \A j \in Freelists : Range(freelists'[j]) \subseteq FreeBlocks \cup Range(carved)
    BY <1>2, <2>6
  <2>8. FreeBlocks' \subseteq FreeBlocks \cup Range(carved)
    BY <1>0, <2>1, <2>7, FreeBlocksAfter
  <2> QED
    BY <1>6, <2>8 DEF carved
<1>7. CASE TakeFirst(t)
  <2>1. i \in Freelists /\ freelists[i] # <<>>
    BY <1>7 DEF TakeFirst, Move, HeapInv, LocalsInv, LocalsAt, SlabWay
  <2>2. /\ Head(freelists[i]) \in Range(freelists[i])
        /\ Range(Tail(freelists[i])) = Range(freelists[i]) \ {Head(freelists[i])}
    <3>1. freelists[i] \in Seq(BlockAddrs) /\ IsInjective(freelists[i])
      BY <2>1 DEF HeapInv, TypeOK, ChunksInv
    <3> QED
      BY <2>1, <3>1, TailNodes
  <2>3. \A j \in Freelists : freelists'[j] = IF j = i THEN Tail(freelists[i]) ELSE freelists[j]
    BY <1>3, <1>7, <2>1 DEF TakeFirst
  <2>4. c.blk = Head(freelists[i])
    <3>1. call'[t].blk = Head(freelists[i])
      BY <1>7 DEF TakeFirst, HeapInv, TypeOK, Calls
    <3> QED
      BY <1>1, <3>1, AfterStep DEF Target, HeapInv
  <2>5. \A j \in Freelists : Range(freelists'[j]) \subseteq FreeBlocks \cup {}
    BY <1>2, <2>1, <2>2, <2>3
  <2>6. c.blk \in FreeBlocks \cup {}
    BY <1>2, <2>1, <2>2, <2>4
  <2>8. FreeBlocks' \subseteq FreeBlocks \cup {}
    BY <1>0, <2>5, <2>6, FreeBlocksAfter
  <2> QED
    BY <2>8
<1>8. CASE FreeInsert(t)
  <2>1. i \in Freelists /\ b \in BlockAddrs /\ pc[t] \in HandLabels
    BY <1>8 DEF FreeInsert, Move, HeapInv, LocalsInv, LocalsAt, HandLabels
  <2>2. PICK k \in 0..Len(freelists[i]) :
          freelists' = [freelists EXCEPT ![i] = OrderedInsert(@, b, k)]
    BY <1>8 DEF FreeInsert
  <2> DEFINE new == OrderedInsert(freelists[i], b, k)
  <2>3. Range(new) = Range(freelists[i]) \cup {b}
    <3>1. freelists[i] \in Seq(BlockAddrs) /\ IsInjective(freelists[i])
      BY <2>1 DEF HeapInv, TypeOK, ChunksInv
    <3>2. b \notin Range(freelists[i])
      <4>1. InHand(t) = pow2(i)
        BY <1>8 DEF FreeInsert, Move, InHand
      <4>2. pow2(i) # 0
        BY <2>1, BlockSizes, FreelistNumbers
      <4>3. InHand(t) # 0
        BY <4>1, <4>2
      <4> QED
        BY <2>1, <4>3, InHandAlone DEF HeapInv
    <3> QED
      BY <2>1, <3>1, <3>2, InsertNodes
  <2> HIDE DEF new
  <2>4. \A j \in Freelists : freelists'[j] = IF j = i THEN new ELSE freelists[j]
    BY <1>3, <2>1, <2>2 DEF new
  <2>5. \A j \in Freelists : Range(freelists'[j]) \subseteq FreeBlocks \cup {}
    BY <1>2, <1>4, <2>1, <2>3, <2>4
  <2>6. l \notin HandLabels
    BY <1>1, <1>8, AfterStep DEF Target, FreeInsert, Move, Goto, HandLabels, HeapInv, TypeOK
  <2>8. FreeBlocks' \subseteq FreeBlocks \cup {}
    BY <1>0, <2>5, <2>6, FreeBlocksAfter
  <2> QED
    BY <2>8
<1>9. CASE UNCHANGED freelists
  <2>1. \A j \in Freelists : Range(freelists'[j]) \subseteq FreeBlocks
    BY <1>2, <1>9
  <2>2. CASE FreeSlab(t)
    <3>1. c.blk = b
      <4>1. call'[t].blk = b
        BY <2>2 DEF FreeSlab, HeapInv, TypeOK, Calls
      <4> QED
        BY <1>1, <4>1, AfterStep DEF Target, HeapInv
    <3>2. FreeBlocks' \subseteq FreeBlocks \cup {b}
      BY <1>0, <2>1, <3>1, FreeBlocksAfter
    <3> QED
      BY <2>2, <3>2
  <2>3. CASE FreeLock(t)
    <3>1. c.blk = b /\ pc[t] \in HandLabels
      BY <1>1, <2>3, AfterStep DEF Target, FreeLock, Acquire, Move, HandLabels, HeapInv
    <3>2. c.blk \in FreeBlocks \cup {}
      BY <1>4, <3>1
    <3>4. FreeBlocks' \subseteq FreeBlocks \cup {}
      BY <1>0, <2>1, <3>2, FreeBlocksAfter
    <3> QED
      BY <3>4
  <2>4. CASE TakeFirst(t)
    BY <1>7, <2>4
  <2>5. CASE ~(FreeSlab(t) \/ FreeLock(t) \/ TakeFirst(t))
    <3>1. l \notin HandLabels
      BY <1>1, <2>5 DEF Target
    <3>2. \A j \in Freelists : Range(freelists'[j]) \subseteq FreeBlocks \cup {}
      BY <2>1
    <3>4. FreeBlocks' \subseteq FreeBlocks \cup {}
      BY <1>0, <3>1, <3>2, FreeBlocksAfter
    <3> QED
      BY <3>4
  <2> QED
    BY <2>2, <2>3, <2>4, <2>5
<1> QED
  BY <1>5, <1>6, <1>7, <1>8, <1>9, ListsKept

\* Only these actions map or unmap pages, or touch a header.
LEMMA PagesKept ==
  ASSUME NEW t \in Threads, Call(t) \/ Step(t)
  PROVE  /\ UNCHANGED mapped \/ LargeAlloc(t) \/ ClaimPage(t) \/ Unmap(t)
         /\ \/ UNCHANGED hdr \/ LargeAddAllocated(t) \/ WriteHeader(t)
            \/ FreeLarge(t) \/ FreeSlab(t) \/ ResizeAdd(t)
<1>1. CASE Call(t)
  BY <1>1 DEF Call, p2malloc, p2calloc, p2free, p2realloc, shared
<1>2. CASE CompareAndSwap(t) \/ freelists_init(t) \/ InitReady(t) \/ Spin(t) \/ SpinEnds(t)
  BY <1>2 DEF CompareAndSwap, freelists_init, InitReady, Spin, SpinEnds, shared, vars
<1>3. CASE LargeAlloc(t) \/ LargeAllocFails(t) \/ LargeAddAllocated(t) \/ LargeAddTotmem(t)
  BY <1>3 DEF LargeAlloc, LargeAllocFails, LargeAddAllocated, LargeAddTotmem, shared
<1>4. CASE SlabLock(t) \/ ListHasBlock(t) \/ ClaimPage(t) \/ ClaimPageFails(t) \/ FreeLock(t)
  BY <1>4 DEF SlabLock, FreeLock, Acquire, ListHasBlock, ClaimPage, ClaimPageFails, shared
<1>5. CASE CarvePage(t) \/ TakeFirst(t) \/ WriteHeader(t) \/ FreeInsert(t)
  BY <1>5 DEF CarvePage, TakeFirst, WriteHeader, FreeInsert
<1>6. CASE FreeLarge(t) \/ SubTotmem(t) \/ Unmap(t) \/ FreeSlab(t)
  BY <1>6 DEF FreeLarge, SubTotmem, Unmap, FreeSlab
<1>7. CASE ZeroPayload(t) \/ CopyPayload(t) \/ ResizeSub(t) \/ ResizeAdd(t) \/ Return(t)
  BY <1>7 DEF ZeroPayload, CopyPayload, ResizeSub, ResizeAdd, Return, shared
<1> QED
  BY <1>1, <1>2, <1>3, <1>4, <1>5, <1>6, <1>7 DEF Step

\* A page becomes unused by being unmapped only.
LEMMA UnusedPagesStep ==
  ASSUME HeapInv, NEW t \in Threads, Call(t) \/ Step(t)
  PROVE  \/ UnusedPages' \subseteq UnusedPages
         \/ /\ Unmap(t)
            /\ UnusedPages' \subseteq
                 UnusedPages \cup PagesOf(call[t].blk, call[t].alloc_size)
<1>1. PICK l, c : Target(t, l, c)
  BY CallTargets, StepTargets
<1>2. \A u \in Threads \ {t} : pc'[u] = pc[u] /\ call'[u] = call[u]
  BY <1>1, AfterStep DEF Target, HeapInv
<1>3. pc'[t] = l /\ call'[t] = c
  BY <1>1, AfterStep DEF Target, HeapInv
<1>4. CASE ClaimPage(t)
  <2>1. PICK page \in Room(PAGE_BYTES) :
          mapped' = mapped \cup {page} /\ call' = [call EXCEPT ![t].blk = page]
    BY <1>4 DEF ClaimPage
  <2>2. page \in HeapPages \ mapped
    <3>1. page \in HeapPages /\ PagesOf(page, PAGE_BYTES) \cap mapped = {}
      BY <2>1 DEF Room
    <3>2. page \in PagesOf(page, PAGE_BYTES)
      BY <3>1, HeapNumbers DEF PagesOf
    <3> QED
      BY <3>1, <3>2
  <2>3. call'[t].blk = page
    BY <2>1 DEF HeapInv, TypeOK, Calls
  <2> QED
    BY <1>2, <2>1, <2>2, <2>3 DEF UnusedPages, Carving
<1>5. CASE ~ClaimPage(t)
  <2>1. Carving' \subseteq Carving
    BY <1>1, <1>2, <1>3, <1>5 DEF Target, Carving
  <2>2. UNCHANGED mapped \/ LargeAlloc(t) \/ Unmap(t)
    BY <1>5, PagesKept
  <2>3. CASE UNCHANGED mapped \/ LargeAlloc(t)
    <3>1. mapped \subseteq mapped'
      BY <2>3 DEF LargeAlloc
    <3> QED
      BY <2>1, <3>1 DEF UnusedPages
  <2>4. CASE Unmap(t)
    <3>1. mapped' = mapped \ PagesOf(call[t].blk, call[t].alloc_size)
      BY <2>4 DEF Unmap
    <3> QED
      BY <2>1, <2>4, <3>1 DEF UnusedPages
  <2> QED
    BY <2>2, <2>3, <2>4
<1> QED
  BY <1>4, <1>5

\* Headers stay what they are, or t adds one for a block that it has in hand.
HeadersGrow(t) ==
  /\ \A b \in DOMAIN hdr : b \in DOMAIN hdr' /\ hdr'[b] = hdr[b]
  /\ DOMAIN hdr' \subseteq DOMAIN hdr \cup FreeBlocks \cup HeapPages

LEMMA HeadersStep ==
  ASSUME HeapInv, NEW t \in Threads, Call(t) \/ Step(t)
  PROVE  HeadersGrow(t) \/ FreeLarge(t) \/ FreeSlab(t) \/ ResizeAdd(t)
<1>1. CASE LargeAddAllocated(t) \/ WriteHeader(t)
  <2>1. /\ pc[t] \in {"add_allocated", "write_header"}
        /\ \E h : hdr' = WithHeader(call[t].blk, h)
    BY <1>1 DEF LargeAddAllocated, WriteHeader, Move
  <2>2. InHand(t) # 0
    <3>1. CASE pc[t] = "add_allocated"
      <4>1. WholePages(call[t].blk, call[t].alloc_size)
        BY <3>1 DEF HeapInv, LocalsInv, LocalsAt
      <4> QED
        BY <3>1, <4>1 DEF InHand, WholePages
    <3>2. CASE pc[t] = "write_header"
      <4>1. call[t].idx \in Freelists
        BY <3>2 DEF HeapInv, LocalsInv, LocalsAt, SlabWay
      <4> QED
        BY <3>2, <4>1, BlockSizes, FreelistNumbers DEF InHand
    <3> QED
      BY <2>1, <3>1, <3>2
  <2>3. call[t].blk \notin DOMAIN hdr
    BY <2>2, InHandAlone DEF HeapInv
  <2>4. call[t].blk \in FreeBlocks \cup HeapPages
    BY <2>1 DEF FreeBlocks, HandLabels, HeapInv, LocalsInv, LocalsAt
  <2> QED
    BY <2>1, <2>3, <2>4 DEF WithHeader, HeadersGrow
<1>2. CASE UNCHANGED hdr
  BY <1>2 DEF HeadersGrow
<1> QED
  BY <1>1, <1>2, PagesKept

--------------------------------------------------------------------------------
(***************************************************************************)
(* Every block lies at a multiple of Grain.                                *)
(***************************************************************************)
LEMMA CarvedBlocksLie ==
  ASSUME HeapInv, SizesInv, GrainsInv, NEW t \in Threads, CarvePage(t),
         NEW b \in Range(CarvedPage(call[t].blk, 4096, pow2(call[t].idx)))
  PROVE  /\ call[t].blk \in Carving /\ call[t].blk \in HeapPages
         /\ b \in BlockAddrs /\ b % Grain = 0
         /\ call[t].blk <= b /\ b + 32 <= call[t].blk + 4096
<1> DEFINE i == call[t].idx
           page == call[t].blk
           bytes == pow2(i)
           list == CarvedPage(page, 4096, bytes)
<1>1. pc[t] = "carve"
  BY DEF CarvePage, Move
<1>2. /\ i \in Freelists /\ i = get_freelist_idx(call[t].size)
      /\ page \in HeapPages
  BY <1>1 DEF HeapInv, LocalsInv, LocalsAt, SlabWay
<1>3. Admitted(call[t].size) /\ call[t].size \in Requests
  BY <1>1 DEF SizesInv, SizeAt, Asking, SlabWay, GrainsInv
<1>4. call[t].size # 0
  BY <1>3 DEF Admitted
<1>5. bytes >= Grain
  BY <1>2, <1>3, <1>4, PayloadAssumption DEF PayloadAssumption, Requests, Freelists
<1>6. /\ bytes \in BlockLengths
      /\ page \in Nat /\ page % 4096 = 0 /\ page >= 4096 /\ page + 4096 <= HeapEnd
  BY <1>2, BlockSizes, FreelistNumbers, HeapNumbers DEF BlockLengths
<1>7. b % Grain = 0
  BY <1>5, <1>6, CarvedGrains
<1>8. bytes \in Nat /\ bytes >= 32
  BY <1>6 DEF BlockLengths
<1>9. b \in Nat /\ (page % 32 = 0 => b % 32 = 0) /\ page <= b /\ b + bytes <= page + 4096
  <2>1. BlocksOfPage(list, page, bytes) /\ b \in Range(list)
    BY <1>6, CarvedPageBlocks
  <2> QED
    BY <2>1 DEF BlocksOfPage
<1> HIDE DEF list, bytes
<1>10. b % 32 = 0 /\ b >= 4096 /\ b < HeapEnd /\ b + 32 <= page + 4096
  BY <1>6, <1>8, <1>9, HeapNumbers
<1>11. b \in BlockAddrs
  BY <1>9, <1>10, HeapNumbers, BlockSizes DEF BlockAddrs
<1> QED
  BY <1>1, <1>2, <1>7, <1>9, <1>10, <1>11 DEF Carving

LEMMA GrainsStep ==
  ASSUME HeapInv, SizesInv, GrainsInv, NEW t \in Threads, Call(t) \/ Step(t)
  PROVE  GrainsInv'
<1>1. PICK l, c : Target(t, l, c)
  BY CallTargets, StepTargets
<1>2. ASSUME NEW u \in Threads PROVE call'[u].size \in Requests
  BY <1>1, AfterStep DEF Target, HeapInv, GrainsInv
<1>3. \A b \in DOMAIN hdr' : b % Grain = 0
  <2>1. DOMAIN hdr' \subseteq DOMAIN hdr \cup FreeBlocks \cup HeapPages
    BY HeadersStep DEF HeadersGrow, FreeLarge, FreeSlab, WithoutHeader, ResizeAdd
  <2> QED
    BY <2>1, PagesAreGrains DEF GrainsInv
<1>4. \A b \in FreeBlocks' : b % Grain = 0
  <2>1. CASE FreeBlocks' \subseteq FreeBlocks
    BY <2>1 DEF GrainsInv
  <2>2. CASE FreeSlab(t) /\ FreeBlocks' \subseteq FreeBlocks \cup {call[t].blk}
    <3>1. call[t].blk \in DOMAIN hdr
      BY <2>2 DEF FreeSlab, HeapInv, OwnersInv, CallBlocks, GivenBlock
    <3> QED
      BY <2>2, <3>1 DEF GrainsInv
  <2>3. CASE /\ CarvePage(t)
             /\ FreeBlocks' \subseteq
                  FreeBlocks \cup Range(CarvedPage(call[t].blk, 4096, pow2(call[t].idx)))
    <3>1. \A b \in Range(CarvedPage(call[t].blk, 4096, pow2(call[t].idx))) : b % Grain = 0
      BY <2>3, CarvedBlocksLie
    <3> QED
      BY <2>3, <3>1 DEF GrainsInv
  <2> QED
    BY <2>1, <2>2, <2>3, FreeBlocksStep
<1> QED
  BY <1>2, <1>3, <1>4 DEF GrainsInv

\* The header of a block that another call answers for stays what it is.
LEMMA OthersHeadersStay ==
  ASSUME HeapInv, NEW t \in Threads, Call(t) \/ Step(t), NEW u \in Threads \ {t},
         NEW b \in CallBlocks(u)
  PROVE  hdr'[b] = hdr[b]
<1>1. b \in DOMAIN hdr /\ b \notin CallBlocks(t)
  BY DEF HeapInv, OwnersInv
<1>2. CASE HeadersGrow(t)
  BY <1>1, <1>2 DEF HeadersGrow
<1>3. CASE FreeLarge(t) \/ FreeSlab(t)
  <2>1. hdr' = WithoutHeader(call[t].blk) /\ pc[t] = "free"
    BY <1>3 DEF FreeLarge, FreeSlab, Move
  <2>2. call[t].blk # b
    BY <1>1, <2>1 DEF CallBlocks, GivenBlock
  <2> QED
    BY <1>1, <2>1, <2>2 DEF WithoutHeader
<1>4. CASE ResizeAdd(t)
  <2>1. hdr' = [hdr EXCEPT ![HdrOf(call[t].ptr)].size = call[t].size] /\ pc[t] = "realloc_add"
    BY <1>4 DEF ResizeAdd, Move
  <2>2. call[t].ret = call[t].ptr /\ call[t].ptr # NULL
    BY <2>1 DEF HeapInv, LocalsInv, LocalsAt
  <2>3. HdrOf(call[t].ptr) # b
    BY <1>1, <2>2 DEF CallBlocks, NewBlock
  <2> QED
    BY <2>1, <2>3
<1> QED
  BY <1>2, <1>3, <1>4, HeadersStep

LEMMA AnsweredStep ==
  ASSUME HeapInv, AnsweredInv, NEW t \in Threads, Call(t) \/ Step(t)
  PROVE  AnsweredInv'
<1> SUFFICES ASSUME NEW u \in Threads
             PROVE  /\ pc'[u] = "add_totmem" => hdr'[call'[u].blk].size = call'[u].size
                    /\ pc'[u] \in {"zero_payload", "copy_payload"} =>
                         /\ call'[u].ret # NULL
                         /\ hdr'[HdrOf(call'[u].ret)].size = call'[u].size
  BY DEF AnsweredInv
<1>1. PICK l, c : Target(t, l, c)
  BY CallTargets, StepTargets
<1>2. CASE u # t
  <2>1. pc'[u] = pc[u] /\ call'[u] = call[u]
    BY <1>1, <1>2, AfterStep DEF Target, HeapInv
  <2>2. pc[u] = "add_totmem" /\ call[u].ret = NULL => call[u].blk \in CallBlocks(u)
    BY DEF CallBlocks, NewBlock
  <2>3. call[u].ret # NULL => HdrOf(call[u].ret) \in CallBlocks(u)
    BY DEF CallBlocks, NewBlock
  <2>4. pc[u] = "add_totmem" => call[u].ret = NULL
    BY DEF HeapInv, LocalsInv, LocalsAt, Asking
  <2> QED
    BY <1>2, <2>1, <2>2, <2>3, <2>4, OthersHeadersStay DEF AnsweredInv
<1>3. CASE u = t /\ LargeAddAllocated(t)
  <2>1. /\ pc'[t] = "add_totmem" /\ call' = call
        /\ hdr' = WithHeader(call[t].blk, [size |-> call[t].size,
                                          alloc_size |-> call[t].alloc_size])
    BY <1>3 DEF LargeAddAllocated, Move, Goto, HeapInv, TypeOK
  <2> QED
    BY <1>3, <2>1 DEF WithHeader
<1>4. CASE u = t /\ LargeAddTotmem(t)
  <2>1. pc[t] = "add_totmem" /\ Resume(t, PtrOf(call[t].blk)) /\ hdr' = hdr
    BY <1>4 DEF LargeAddTotmem
  <2>2. call[t].blk \in BlockAddrs /\ hdr[call[t].blk].size = call[t].size
    BY <2>1 DEF HeapInv, LocalsInv, LocalsAt, AnsweredInv
  <2>3. /\ call'[t].ret = PtrOf(call[t].blk) /\ call'[t].size = call[t].size
        /\ pc'[t] # "add_totmem"
    BY <2>1 DEF Resume, AfterMalloc, Goto, HeapInv, TypeOK, Calls
  <2> QED
    BY <1>4, <2>1, <2>2, <2>3, PointerOfBlock
<1>5. CASE u = t /\ WriteHeader(t)
  <2>1. /\ pc[t] = "write_header" /\ Resume(t, PtrOf(call[t].blk))
        /\ hdr' = WithHeader(call[t].blk, [size |-> call[t].size, alloc_size |-> 0])
    BY <1>5 DEF WriteHeader
  <2>2. call[t].blk \in BlockAddrs
    BY <2>1 DEF HeapInv, LocalsInv, LocalsAt
  <2>3. /\ call'[t].ret = PtrOf(call[t].blk) /\ call'[t].size = call[t].size
        /\ pc'[t] # "add_totmem"
    BY <2>1 DEF Resume, AfterMalloc, Goto, HeapInv, TypeOK, Calls
  <2>4. hdr'[call[t].blk].size = call[t].size
    BY <2>1 DEF WithHeader
  <2> QED
    BY <1>5, <2>2, <2>3, <2>4, PointerOfBlock
<1>6. CASE u = t /\ ~(LargeAddAllocated(t) \/ LargeAddTotmem(t) \/ WriteHeader(t))
  BY <1>1, <1>6, AfterStep DEF Target, NewLabels, HeapInv
<1> QED
  BY <1>2, <1>3, <1>4, <1>5, <1>6

LEMMA ResetBlocks ==
  ASSUME BlocksInv, Reset
  PROVE  BlocksInv' /\ FreeBlocks' = {} /\ UnusedPages' = UnusedPages /\ hdr' = hdr
<1>1. UNCHANGED <<mapped, hdr, pc, call>> /\ \A t \in Threads : pc[t] = "idle"
  BY DEF Reset, p2reset
<1>2. ControlInv' /\ HeapInv'
  BY ResetControl, ResetHeap DEF BlocksInv
<1>3. SizesInv'
  BY <1>1 DEF BlocksInv, SizesInv
<1>4. FreeBlocks' = {}
  BY <1>1, ResetLists DEF FreeBlocks, HandLabels
<1>5. GrainsInv'
  BY <1>1, <1>4 DEF BlocksInv, GrainsInv
<1>6. UnusedPages' = UnusedPages
  BY <1>1 DEF UnusedPages, Carving
<1>7. AnsweredInv'
  BY <1>1 DEF BlocksInv, AnsweredInv
<1> QED
  BY <1>1, <1>2, <1>3, <1>4, <1>5, <1>6, <1>7 DEF BlocksInv

LEMMA BlocksStep ==
  ASSUME ReallocsFit, BlocksInv, NEW t \in Threads, Call(t) \/ Step(t)
  PROVE  BlocksInv'
<1>1. ControlInv'
  BY ControlCall, ControlStep DEF BlocksInv
<1>2. HeapInv'
  BY HeapCall, HeapStep DEF BlocksInv
<1>3. SizesInv'
  BY SizesCall, SizesStep DEF BlocksInv
<1>4. GrainsInv'
  BY GrainsStep DEF BlocksInv
<1>5. AnsweredInv'
  BY AnsweredStep DEF BlocksInv
<1> QED
  BY <1>1, <1>2, <1>3, <1>4, <1>5 DEF BlocksInv

LEMMA BlocksStutter ==
  ASSUME BlocksInv, UNCHANGED lifeVars
  PROVE  BlocksInv' /\ FreeBlocks' = FreeBlocks /\ UnusedPages' = UnusedPages /\ hdr' = hdr
<1>1. UNCHANGED vars
  BY DEF lifeVars
<1>2. UNCHANGED <<freelists, mapped, hdr, pc, call>>
  BY <1>1 DEF vars
<1>3. ControlInv' /\ HeapInv'
  BY <1>1, ControlStutter, HeapStutter DEF BlocksInv
<1>4. SizesInv'
  BY <1>2 DEF BlocksInv, SizesInv
<1>5. FreeBlocks' = FreeBlocks /\ UnusedPages' = UnusedPages
  BY <1>2 DEF FreeBlocks, UnusedPages, Carving
<1>6. GrainsInv'
  BY <1>2, <1>5 DEF BlocksInv, GrainsInv
<1>7. AnsweredInv'
  BY <1>2 DEF BlocksInv, AnsweredInv
<1> QED
  BY <1>2, <1>3, <1>4, <1>5, <1>6, <1>7 DEF BlocksInv

LEMMA BlocksInit == PayInit => BlocksInv
<1> SUFFICES ASSUME PayInit PROVE BlocksInv
  OBVIOUS
<1>1. Init
  BY DEF PayInit, LifeInit
<1>2. ControlInv /\ HeapInv /\ SizesInv
  BY <1>1, ControlInit, HeapInit, SizesInit
<1>3. FreeBlocks = {} /\ DOMAIN hdr = {}
  <2>1. DOMAIN <<>> = {}
    OBVIOUS
  <2>2. \A i \in Freelists : Range(freelists[i]) = {}
    BY <1>1, <2>1, Zenon DEF Init, Range
  <2> QED
    BY <1>1, <2>1, <2>2 DEF Init, FreeBlocks, HandLabels
<1>4. \A t \in Threads : call[t].size = 0
  BY <1>1 DEF Init, NoCall, NewCall
<1>5. AnsweredInv
  BY <1>1 DEF Init, AnsweredInv
<1> QED
  BY <1>2, <1>3, <1>4, <1>5 DEF BlocksInv, GrainsInv, Requests

--------------------------------------------------------------------------------
(***************************************************************************)
(* Whose block a word lies in.                                             *)
(***************************************************************************)
Covers(c, a) == c.base <= a /\ a < c.base + c.bytes

UsedBlock(b) == Chunk("header", NoThread, b, BlockBytes(hdr[b]))

\* The chunk of a free block or of a page that is being carved.
IdleChunk(c) ==
  \/ c.kind = "list"
  \/ c.kind = "thread" /\ pc[c.of] \in HandLabels \cup {"carve"}

\* No word lies in two chunks.
LEMMA OneCover ==
  ASSUME HeapInv, NEW c \in Chunks, NEW d \in Chunks, NEW a \in Nat, Covers(c, a), Covers(d, a)
  PROVE  c = d
<1>1. c = d \/ Disjoint(c, d)
  BY DEF HeapInv, ChunksInv, Apart
<1>2. /\ c.base \in Nat /\ c.bytes \in Nat
      /\ d.base \in Nat /\ d.bytes \in Nat
  BY AddressRange DEF HeapInv, ChunksInv, Placed
<1> QED
  BY <1>1, <1>2 DEF Disjoint, Covers

\* A word in a chunk is in no unmapped page.
LEMMA CoveredIsMapped ==
  ASSUME HeapInv, NEW c \in Chunks, NEW a \in Nat, Covers(c, a),
         NEW page \in HeapPages, InPage(page, a)
  PROVE  page \in mapped
<1>1. Spanned(c) \subseteq mapped /\ c.base \in Nat /\ c.bytes \in Nat
  BY AddressRange DEF HeapInv, ChunksInv, Placed
<1>2. page \in Nat /\ PAGE_BYTES = 4096
  BY HeapNumbers
<1>3. page < c.base + c.bytes /\ c.base < page + PAGE_BYTES
  BY <1>1, <1>2 DEF Covers, InPage
<1> QED
  BY <1>1, <1>3 DEF Spanned

LEMMA UsedWords ==
  ASSUME HeapInv, SizesInv, NEW b \in DOMAIN hdr
  PROVE  /\ UsedBlock(b) \in Chunks /\ ~IdleChunk(UsedBlock(b)) /\ UsedBlock(b).base = b
         /\ \A n \in Nat : n <= hdr[b].size =>
              \A a \in Within(PtrOf(b), n) : Covers(UsedBlock(b), a)
<1>1. UsedBlock(b) \in Chunks /\ ~IdleChunk(UsedBlock(b))
  BY DEF UsedBlock, Chunks, UsedChunks, IdleChunk, Chunk
<1>2. UsedBlock(b).base = b /\ UsedBlock(b).bytes = BlockBytes(hdr[b])
  BY DEF UsedBlock, Chunk
<1>3. hdr[b].size + P2_HEADER_SIZE <= BlockBytes(hdr[b])
  BY DEF SizesInv, Holds
<1>4. /\ b \in Nat /\ hdr[b].size \in Nat /\ BlockBytes(hdr[b]) \in Nat
      /\ P2_HEADER_SIZE \in Nat /\ SIZEOF_SIZE_T \in {4, 8}
  <2>1. b \in BlockAddrs /\ hdr[b] \in Headers
    BY DEF HeapInv, TypeOK
  <2>2. hdr[b].size \in Nat
    BY <2>1 DEF Headers, SizeT
  <2>3. BlockBytes(hdr[b]) \in Nat
    BY <1>1, <1>2 DEF HeapInv, ChunksInv, Placed
  <2> QED
    BY <2>1, <2>2, <2>3, AddressRange, HeaderSize, PlatformAssumption DEF PlatformAssumption
<1>5. ASSUME NEW n \in Nat, n <= hdr[b].size, NEW a \in Within(PtrOf(b), n)
      PROVE  Covers(UsedBlock(b), a)
  <2>1. a \in Nat
    BY WordInGrain DEF Within
  <2>2. b + P2_HEADER_SIZE <= a /\ a + SIZEOF_SIZE_T <= b + P2_HEADER_SIZE + n
    BY DEF Within, PtrOf
  <2>3. b <= a /\ a < b + BlockBytes(hdr[b])
    BY <1>3, <1>4, <1>5, <2>1, <2>2
  <2> QED
    BY <1>2, <2>3 DEF Covers
<1> QED
  BY <1>1, <1>2, <1>5

\* The first word of a free block is followed and lies in an idle chunk.
LEMMA FreeWord ==
  ASSUME HeapInv, GrainsInv, NEW b \in FreeBlocks
  PROVE  /\ PtrOf(b) \in Followed
         /\ \E d \in Chunks : IdleChunk(d) /\ Covers(d, PtrOf(b))
<1>1. \A i \in Freelists : pow2(i) \in Nat /\ pow2(i) >= 32
  BY BlockSizes, FreelistNumbers
<1>2. ASSUME NEW d \in Chunks, IdleChunk(d), d.base = b, d.bytes \in Nat, d.bytes >= 32,
             b \in BlockAddrs
      PROVE  /\ PtrOf(b) \in Followed
             /\ \E e \in Chunks : IdleChunk(e) /\ Covers(e, PtrOf(b))
  <2>1. b % Grain = 0
    BY DEF GrainsInv
  <2>2. /\ PtrOf(b) \in Followed
        /\ b <= PtrOf(b) /\ PtrOf(b) + SIZEOF_SIZE_T <= b + 32 /\ SIZEOF_SIZE_T > 0
    BY <1>2, <2>1, FirstWord
  <2>3. PtrOf(b) \in Nat /\ b \in Nat /\ SIZEOF_SIZE_T \in {4, 8}
    BY <1>2, <2>2, WordInGrain, AddressRange, PlatformAssumption DEF PlatformAssumption
  <2>4. Covers(d, PtrOf(b))
    BY <1>2, <2>2, <2>3 DEF Covers
  <2> QED
    BY <1>2, <2>2, <2>4
<1>3. ASSUME NEW i \in Freelists, b \in Range(freelists[i])
      PROVE  /\ PtrOf(b) \in Followed
             /\ \E e \in Chunks : IdleChunk(e) /\ Covers(e, PtrOf(b))
  <2> DEFINE d == Chunk("list", i, b, pow2(i))
  <2>1. d \in Chunks /\ IdleChunk(d)
    BY <1>3 DEF Chunks, FreeChunks, IdleChunk, Chunk
  <2>2. d.base = b /\ d.bytes = pow2(i)
    BY DEF Chunk
  <2> HIDE DEF d
  <2>3. b \in BlockAddrs
    BY <2>1, <2>2 DEF HeapInv, ChunksInv, Placed
  <2> QED
    BY <1>1, <1>2, <2>1, <2>2, <2>3
<1>4. ASSUME NEW t \in Threads, pc[t] \in HandLabels, b = call[t].blk
      PROVE  /\ PtrOf(b) \in Followed
             /\ \E e \in Chunks : IdleChunk(e) /\ Covers(e, PtrOf(b))
  <2> DEFINE d == Chunk("thread", t, b, InHand(t))
  <2>1. InHand(t) = pow2(call[t].idx) /\ call[t].idx \in Freelists
    BY <1>4 DEF InHand, HandLabels, HeapInv, LocalsInv, LocalsAt, SlabWay
  <2>2. d \in Chunks
    BY <1>1, <1>4, <2>1 DEF Chunks, HandChunks
  <2>3. IdleChunk(d) /\ d.base = b /\ d.bytes = pow2(call[t].idx)
    BY <1>4, <2>1 DEF IdleChunk, Chunk
  <2> HIDE DEF d
  <2>4. b \in BlockAddrs
    BY <2>2, <2>3 DEF HeapInv, ChunksInv, Placed
  <2> QED
    BY <1>1, <1>2, <2>1, <2>2, <2>3, <2>4
<1> QED
  BY <1>3, <1>4 DEF FreeBlocks

\* An unused page has words of idle chunks only.
LEMMA UnusedWord ==
  ASSUME HeapInv, NEW page \in UnusedPages, NEW a \in Followed, InPage(page, a),
         NEW c \in Chunks, Covers(c, a)
  PROVE  IdleChunk(c)
<1>1. a \in Nat
  BY WordInGrain
<1>2. CASE page \in HeapPages \ mapped
  BY <1>1, <1>2, CoveredIsMapped
<1>3. CASE page \in Carving
  <2>1. PICK t \in Threads : pc[t] = "carve" /\ page = call[t].blk
    BY <1>3 DEF Carving
  <2> DEFINE d == Chunk("thread", t, page, PAGE_BYTES)
  <2>2. InHand(t) = PAGE_BYTES /\ PAGE_BYTES # 0
    BY <2>1, HeapNumbers DEF InHand
  <2>3. d \in Chunks
    BY <2>1, <2>2 DEF Chunks, HandChunks
  <2>4. IdleChunk(d) /\ Covers(d, a)
    BY <2>1 DEF IdleChunk, Chunk, Covers, InPage
  <2> HIDE DEF d
  <2>5. c = d
    BY <1>1, <2>3, <2>4, OneCover
  <2> QED
    BY <2>4, <2>5
<1> QED
  BY <1>2, <1>3 DEF UnusedPages

--------------------------------------------------------------------------------
(***************************************************************************)
(* WordsInv, step by step: what is written lies in a block of the writer.  *)
(***************************************************************************)
Touches(c) == \A a \in Followed : word'[a] = word[a] \/ Covers(c, a)

LEMMA WordsAfter ==
  ASSUME BlocksInv, WordsInv, PromisesTyped',
         \A a \in Followed :
           word'[a] = word[a] \/ \E c \in Chunks : ~IdleChunk(c) /\ Covers(c, a),
         \A ptr \in DOMAIN promise :
           promise'[ptr].n # 0 => /\ HdrOf(ptr) \in DOMAIN hdr'
                                  /\ promise'[ptr].n <= hdr'[HdrOf(ptr)].size,
         \A ptr \in DOMAIN promise :
           \/ \A a \in Within(ptr, promise'[ptr].n) : word'[a] = promise'[ptr].value
           \/ /\ promise'[ptr] = promise[ptr]
              /\ \A a \in Within(ptr, promise[ptr].n) : word'[a] = word[a],
         \A b \in FreeBlocks' : b \in FreeBlocks \/ word'[PtrOf(b)] = 0,
         \A page \in UnusedPages' : page \in UnusedPages \/ Blank(page)'
  PROVE  WordsInv'
<1>1. DOMAIN promise' = DOMAIN promise
  BY DEF WordsInv, PromisesHeld, PromisesTyped
<1>2. PromisesHeld'
  BY <1>1 DEF PromisesHeld, PromisesTyped
<1>3. PromisesKept'
  <2> SUFFICES ASSUME NEW ptr \in DOMAIN promise, NEW a \in Within(ptr, promise'[ptr].n)
               PROVE  word'[a] = promise'[ptr].value
    BY <1>1 DEF PromisesKept, Within
  <2> QED
    BY DEF WordsInv, PromisesKept
<1>4. ASSUME NEW b \in FreeBlocks' PROVE word'[PtrOf(b)] = 0
  <2>1. CASE b \in FreeBlocks
    <3>1. PtrOf(b) \in Followed /\ word[PtrOf(b)] = 0
      BY <2>1, FreeWord DEF BlocksInv, WordsInv
    <3>2. PICK d \in Chunks : IdleChunk(d) /\ Covers(d, PtrOf(b))
      BY <2>1, FreeWord DEF BlocksInv
    <3>3. PtrOf(b) \in Nat
      BY <3>1, WordInGrain
    <3>4. \A c \in Chunks : Covers(c, PtrOf(b)) => IdleChunk(c)
      BY <3>2, <3>3, OneCover DEF BlocksInv
    <3> QED
      BY <3>1, <3>4
  <2> QED
    BY <2>1
<1>5. ASSUME NEW page \in UnusedPages' PROVE Blank(page)'
  <2>1. CASE page \in UnusedPages
    <3> SUFFICES ASSUME NEW a \in Followed, InPage(page, a) PROVE word'[a] = 0
      BY DEF Blank, InPage
    <3>1. word[a] = 0
      BY <2>1 DEF WordsInv, Blank
    <3>2. \A c \in Chunks : Covers(c, a) => IdleChunk(c)
      BY <2>1, UnusedWord DEF BlocksInv
    <3> QED
      BY <3>1, <3>2
  <2> QED
    BY <2>1
<1> QED
  BY <1>2, <1>3, <1>4, <1>5 DEF WordsInv

\* Nobody writes on what is promised of another block.
LEMMA PromiseApart ==
  ASSUME BlocksInv, WordsInv, NEW c \in Chunks, Touches(c),
         NEW ptr \in DOMAIN promise, c # UsedBlock(HdrOf(ptr)),
         NEW a \in Within(ptr, promise[ptr].n)
  PROVE  word'[a] = word[a]
<1>1. ptr \in Pointers /\ promise[ptr].n \in Nat
  BY DEF WordsInv, PromisesHeld, PromisesTyped, Pointers
<1>2. PtrOf(HdrOf(ptr)) = ptr
  BY <1>1, PointerOfBlock
<1>3. a \in Followed /\ a \in Nat
  BY WordInGrain DEF Within
<1>4. promise[ptr].n # 0
  <2>1. ptr \in Nat /\ SIZEOF_SIZE_T \in {4, 8}
    BY <1>1, AddressRange, HeaderSize, PlatformAssumption
       DEF Pointers, PtrOf, PlatformAssumption
  <2> QED
    BY <1>1, <1>3, <2>1 DEF Within
<1>5. HdrOf(ptr) \in DOMAIN hdr /\ promise[ptr].n <= hdr[HdrOf(ptr)].size
  BY <1>4 DEF WordsInv, PromisesHeld
<1>6. Covers(UsedBlock(HdrOf(ptr)), a) /\ UsedBlock(HdrOf(ptr)) \in Chunks
  BY <1>1, <1>2, <1>5, UsedWords DEF BlocksInv
<1>7. ~Covers(c, a)
  BY <1>3, <1>6, OneCover DEF BlocksInv
<1> QED
  BY <1>3, <1>7 DEF Touches

\* The promises are about blocks.
LEMMA PromisedBlock ==
  ASSUME PromisesTyped, NEW ptr \in DOMAIN promise
  PROVE  /\ ptr \in Pointers /\ ptr \in Nat
         /\ HdrOf(ptr) \in BlockAddrs /\ PtrOf(HdrOf(ptr)) = ptr
         /\ promise[ptr] \in [value : Values \cup {0}, n : Nat]
<1>1. ptr \in Pointers
  BY DEF PromisesTyped, Pointers
<1>2. HdrOf(ptr) \in BlockAddrs /\ PtrOf(HdrOf(ptr)) = ptr
  BY <1>1, PointerOfBlock
<1>3. ptr \in Nat
  BY <1>2, AddressRange, HeaderSize DEF PtrOf
<1> QED
  BY <1>1, <1>2, <1>3 DEF PromisesTyped

LEMMA BlockPromised ==
  ASSUME BlocksInv, PromisesTyped, NEW ptr \in Pointers, HdrOf(ptr) \in DOMAIN hdr
  PROVE  ptr \in DOMAIN promise
<1>1. HdrOf(ptr) \in BlockAddrs /\ PtrOf(HdrOf(ptr)) = ptr
  BY PointerOfBlock
<1>2. HdrOf(ptr) % Grain = 0
  BY DEF BlocksInv, GrainsInv
<1> QED
  BY <1>1, <1>2 DEF PromisesTyped

\* Writing within the request of a block touches that block only.
LEMMA WithinTouches ==
  ASSUME BlocksInv, NEW b \in DOMAIN hdr, NEW n \in Nat, n <= hdr[b].size,
         \A a \in Followed : a \in Within(PtrOf(b), n) \/ word'[a] = word[a]
  PROVE  Touches(UsedBlock(b))
  BY UsedWords DEF BlocksInv, Touches

\* The request of a block in use ends where the heap does, or before.
LEMMA RequestInHeap ==
  ASSUME BlocksInv, NEW b \in DOMAIN hdr
  PROVE  /\ b \in BlockAddrs /\ hdr[b].size \in Nat
         /\ PtrOf(b) \in Nat /\ PtrOf(b) >= 4096
         /\ PtrOf(b) + hdr[b].size <= HeapEnd
<1>1. b \in BlockAddrs /\ hdr[b].size \in Nat
  BY DEF BlocksInv, HeapInv, TypeOK, Headers, SizeT
<1>2. UsedBlock(b) \in Chunks
  BY UsedWords DEF BlocksInv
<1>3. b + BlockBytes(hdr[b]) <= HeapEnd /\ BlockBytes(hdr[b]) \in Nat
  BY <1>2 DEF BlocksInv, HeapInv, ChunksInv, Placed, UsedBlock, Chunk
<1>4. hdr[b].size + P2_HEADER_SIZE <= BlockBytes(hdr[b])
  BY DEF BlocksInv, SizesInv, Holds
<1>5. b \in Nat /\ b >= 4096 /\ P2_HEADER_SIZE \in Nat /\ HeapEnd \in Nat
  BY <1>1, AddressRange, HeaderSize, HeapNumbers
<1> QED
  BY <1>1, <1>3, <1>4, <1>5 DEF PtrOf

\* The holder of a block writes into it, or what it counts on is cut down.
LEMMA HolderWrites ==
  ASSUME BlocksInv, WordsInv, NEW p \in Pointers, HdrOf(p) \in DOMAIN hdr,
         NEW q \in [value : Values \cup {0}, n : Nat],
         promise' = [promise EXCEPT ![p] = q],
         Touches(UsedBlock(HdrOf(p))),
         q.n <= hdr'[HdrOf(p)].size,
         \A a \in Within(p, q.n) : word'[a] = q.value,
         \A b \in DOMAIN hdr : b \in DOMAIN hdr' /\ (b # HdrOf(p) => hdr'[b] = hdr[b]),
         FreeBlocks' \subseteq FreeBlocks, UnusedPages' \subseteq UnusedPages
  PROVE  WordsInv'
<1> DEFINE b == HdrOf(p)
<1>1. PromisesTyped
  BY DEF WordsInv, PromisesHeld
<1>2. p \in DOMAIN promise
  BY <1>1, BlockPromised
<1>3. PromisesTyped'
  BY <1>1 DEF PromisesTyped
<1>4. \A ptr \in DOMAIN promise : promise'[ptr] = IF ptr = p THEN q ELSE promise[ptr]
  BY <1>1 DEF PromisesTyped
<1>5. UsedBlock(b) \in Chunks /\ ~IdleChunk(UsedBlock(b)) /\ UsedBlock(b).base = b
  BY UsedWords DEF BlocksInv
<1>6. \A a \in Followed :
        word'[a] = word[a] \/ \E c \in Chunks : ~IdleChunk(c) /\ Covers(c, a)
  BY <1>5 DEF Touches
<1>7. ASSUME NEW ptr \in DOMAIN promise, ptr # p PROVE HdrOf(ptr) # b
  <2>1. PtrOf(HdrOf(ptr)) = ptr
    BY <1>1, PromisedBlock
  <2>2. PtrOf(b) = p
    BY PointerOfBlock
  <2> QED
    BY <1>7, <2>1, <2>2
<1>8. ASSUME NEW ptr \in DOMAIN promise, promise'[ptr].n # 0
      PROVE  HdrOf(ptr) \in DOMAIN hdr' /\ promise'[ptr].n <= hdr'[HdrOf(ptr)].size
  BY <1>4, <1>7, <1>8 DEF WordsInv, PromisesHeld
<1>9. ASSUME NEW ptr \in DOMAIN promise
      PROVE  \/ \A a \in Within(ptr, promise'[ptr].n) : word'[a] = promise'[ptr].value
             \/ /\ promise'[ptr] = promise[ptr]
                /\ \A a \in Within(ptr, promise[ptr].n) : word'[a] = word[a]
  <2>1. CASE ptr = p
    BY <1>4, <2>1
  <2>2. CASE ptr # p
    <3>1. UsedBlock(b) # UsedBlock(HdrOf(ptr))
      BY <1>7, <2>2 DEF UsedBlock, Chunk
    <3>2. \A a \in Within(ptr, promise[ptr].n) : word'[a] = word[a]
      BY <1>5, <3>1, PromiseApart
    <3> QED
      BY <1>4, <2>2, <3>2
  <2> QED
    BY <2>1, <2>2
<1>10. \A d \in FreeBlocks' : d \in FreeBlocks \/ word'[PtrOf(d)] = 0
  OBVIOUS
<1>11. \A page \in UnusedPages' : page \in UnusedPages \/ Blank(page)'
  OBVIOUS
<1> QED
  BY <1>3, <1>6, <1>8, <1>9, <1>10, <1>11, WordsAfter

LEMMA FillWords ==
  ASSUME BlocksInv, WordsInv, NEW ptr \in live, NEW value \in Values, Fill(ptr, value)
  PROVE  WordsInv'
<1> DEFINE b == HdrOf(ptr)
           n == hdr[b].size
           q == [value |-> value, n |-> n]
<1>1. ptr \in Pointers /\ b \in DOMAIN hdr
  BY DEF BlocksInv, HeapInv, TypeOK, OwnersInv, HeldBlocks
<1>2. PtrOf(b) = ptr
  BY <1>1, PointerOfBlock
<1>3. n \in Nat
  BY <1>1, RequestInHeap
<1>4. UNCHANGED lifeVars /\ word' = Set(ptr, value, n) /\ promise' = [promise EXCEPT ![ptr] = q]
  BY DEF Fill
<1>5. FreeBlocks' = FreeBlocks /\ UnusedPages' = UnusedPages /\ hdr' = hdr
  BY <1>4, BlocksStutter
<1>6. /\ \A a \in Followed : a \in Within(ptr, n) \/ word'[a] = word[a]
      /\ \A a \in Within(ptr, n) : word'[a] = value
  BY <1>4 DEF Set, Within
<1>7. Touches(UsedBlock(b))
  BY <1>1, <1>2, <1>3, <1>6, WithinTouches
<1>8. q \in [value : Values \cup {0}, n : Nat] /\ q.n = n /\ q.value = value
  BY <1>3
<1> HIDE DEF b, n, q
<1>9. /\ HdrOf(ptr) \in DOMAIN hdr /\ q.n <= hdr'[HdrOf(ptr)].size
      /\ Touches(UsedBlock(HdrOf(ptr)))
  BY <1>1, <1>3, <1>5, <1>7, <1>8 DEF b, n
<1>10. \A a \in Within(ptr, q.n) : word'[a] = q.value
  BY <1>6, <1>8
<1> QED
  BY <1>1, <1>4, <1>5, <1>8, <1>9, <1>10, HolderWrites

\* Most steps neither free a block nor take a page out of use.
LEMMA QuietBlocks ==
  ASSUME HeapInv, NEW t \in Threads, Call(t) \/ Step(t), pc[t] \notin {"carve", "free"}
  PROVE  FreeBlocks' \subseteq FreeBlocks
<1>1. ~CarvePage(t) /\ ~FreeSlab(t)
  BY DEF CarvePage, FreeSlab, Move
<1> QED
  BY <1>1, FreeBlocksStep

LEMMA QuietPages ==
  ASSUME HeapInv, NEW t \in Threads, Call(t) \/ Step(t), pc[t] # "free_unmap"
  PROVE  UnusedPages' \subseteq UnusedPages
  BY UnusedPagesStep DEF Unmap, Move

LEMMA CallocZeroesWords ==
  ASSUME BlocksInv, WordsInv, NEW t \in Threads, CallocZeroes(t)
  PROVE  WordsInv'
<1> DEFINE p == call[t].ret
           b == HdrOf(p)
           n == call[t].size
           q == [value |-> 0, n |-> n]
<1>1. /\ ZeroPayload(t) /\ pc[t] = "zero_payload" /\ hdr' = hdr
      /\ word' = Set(p, 0, n) /\ promise' = [promise EXCEPT ![p] = q]
  BY DEF CallocZeroes, ZeroPayload, Move, shared
<1>2. p # NULL /\ hdr[b].size = n
  BY <1>1 DEF BlocksInv, AnsweredInv
<1>3. p \in Pointers
  BY <1>2 DEF BlocksInv, HeapInv, TypeOK, Calls
<1>4. b \in DOMAIN hdr
  BY <1>2 DEF BlocksInv, HeapInv, OwnersInv, CallBlocks, NewBlock
<1>5. PtrOf(b) = p
  BY <1>3, PointerOfBlock
<1>6. n \in Nat
  BY <1>2, <1>4, RequestInHeap
<1>7. FreeBlocks' \subseteq FreeBlocks /\ UnusedPages' \subseteq UnusedPages
  BY <1>1, QuietBlocks, QuietPages DEF BlocksInv, Step
<1>8. /\ \A a \in Followed : a \in Within(p, n) \/ word'[a] = word[a]
      /\ \A a \in Within(p, n) : word'[a] = 0
  BY <1>1 DEF Set, Within
<1>9. Touches(UsedBlock(b))
  BY <1>2, <1>4, <1>5, <1>6, <1>8, WithinTouches
<1>10. q \in [value : Values \cup {0}, n : Nat] /\ q.n = n /\ q.value = 0
  BY <1>6
<1> HIDE DEF p, b, n, q
<1>11. /\ HdrOf(p) \in DOMAIN hdr /\ q.n <= hdr'[HdrOf(p)].size
       /\ Touches(UsedBlock(HdrOf(p)))
  BY <1>1, <1>2, <1>4, <1>6, <1>9, <1>10 DEF b
<1>12. \A a \in Within(p, q.n) : word'[a] = q.value
  BY <1>8, <1>10
<1> QED
  BY <1>1, <1>3, <1>7, <1>10, <1>11, <1>12, HolderWrites

LEMMA LeastOf ==
  ASSUME NEW m \in Nat, NEW n \in Nat
  PROVE  /\ Least(m, n) \in Nat /\ Least(m, n) <= m /\ Least(m, n) <= n
         /\ \A k \in Nat : k <= m => Least(k, n) <= Least(m, n)
  BY DEF Least

LEMMA ReallocStaysWords ==
  ASSUME BlocksInv, WordsInv, NEW t \in Threads, ReallocStays(t)
  PROVE  WordsInv'
<1> DEFINE p == call[t].ptr
           b == HdrOf(p)
           n == call[t].size
           q == [promise[p] EXCEPT !.n = Least(@, n)]
<1>1. /\ ResizeAdd(t) /\ pc[t] = "realloc_add"
      /\ hdr' = [hdr EXCEPT ![b].size = n]
      /\ word' = word /\ promise' = [promise EXCEPT ![p].n = Least(@, n)]
  BY DEF ReallocStays, ResizeAdd, Move
<1>2. p # NULL /\ call[t].ret = p
  BY <1>1 DEF BlocksInv, HeapInv, LocalsInv, LocalsAt
<1>3. p \in Pointers /\ n \in Nat
  BY <1>2 DEF BlocksInv, HeapInv, TypeOK, Calls, SizeT
<1>4. b \in DOMAIN hdr
  BY <1>2 DEF BlocksInv, HeapInv, OwnersInv, CallBlocks, NewBlock
<1>5. PtrOf(b) = p
  BY <1>3, PointerOfBlock
<1>6. PromisesTyped
  BY DEF WordsInv, PromisesHeld
<1>7. p \in DOMAIN promise
  BY <1>3, <1>4, <1>6, BlockPromised
<1>8. promise[p] \in [value : Values \cup {0}, n : Nat]
  BY <1>6, <1>7 DEF PromisesTyped
<1>9. /\ q.n = Least(promise[p].n, n) /\ q.value = promise[p].value
      /\ q.n \in Nat /\ q.n <= promise[p].n /\ q.n <= n
  BY <1>3, <1>8, LeastOf
<1>10. q \in [value : Values \cup {0}, n : Nat]
  BY <1>8, <1>9
<1>11. promise' = [promise EXCEPT ![p] = q]
  BY <1>1, <1>6, <1>7 DEF PromisesTyped
<1>12. FreeBlocks' \subseteq FreeBlocks /\ UnusedPages' \subseteq UnusedPages
  BY <1>1, QuietBlocks, QuietPages DEF BlocksInv, Step
<1>13. Touches(UsedBlock(b))
  BY <1>1 DEF Touches
<1>14. /\ \A c \in DOMAIN hdr : c \in DOMAIN hdr' /\ (c # b => hdr'[c] = hdr[c])
       /\ hdr'[b].size = n
  <2>1. hdr[b] \in Headers
    BY <1>4 DEF BlocksInv, HeapInv, TypeOK
  <2>2. hdr'[b] = [hdr[b] EXCEPT !.size = n]
    BY <1>1, <1>4
  <2> QED
    BY <1>1, <2>1, <2>2 DEF Headers
<1>15. \A a \in Within(p, q.n) : word'[a] = q.value
  <2> SUFFICES ASSUME NEW a \in Within(p, q.n) PROVE word'[a] = q.value
    OBVIOUS
  <2>1. a \in Nat /\ p \in Nat /\ SIZEOF_SIZE_T \in {4, 8}
    BY <1>6, <1>7, PromisedBlock, WordInGrain, PlatformAssumption DEF Within, PlatformAssumption
  <2>2. a \in Within(p, promise[p].n)
    BY <1>8, <1>9, <2>1 DEF Within
  <2> QED
    BY <1>1, <1>7, <1>9, <2>2 DEF WordsInv, PromisesKept
<1> HIDE DEF n, q
<1>16. HdrOf(p) \in DOMAIN hdr /\ q.n <= hdr'[HdrOf(p)].size /\ Touches(UsedBlock(HdrOf(p)))
  BY <1>4, <1>9, <1>13, <1>14
<1> QED
  BY <1>3, <1>10, <1>11, <1>12, <1>14, <1>15, <1>16, HolderWrites

\* The bytes that both sizes have come along.
LEMMA ReallocCopiesWords ==
  ASSUME BlocksInv, WordsInv, NEW t \in Threads, ReallocCopies(t)
  PROVE  WordsInv'
<1> DEFINE old == call[t].ptr
           p   == call[t].ret
           n   == call[t].size
           m   == Least(hdr[HdrOf(old)].size, n)
           q   == [promise[old] EXCEPT !.n = Least(@, n)]
<1>1. /\ CopyPayload(t) /\ pc[t] = "copy_payload" /\ hdr' = hdr
      /\ word' = Copy(p, old, m) /\ promise' = [promise EXCEPT ![p] = q]
  BY DEF ReallocCopies, CopyPayload, Move, shared, CopiedBytes
<1>2. p # NULL /\ hdr[HdrOf(p)].size = n /\ old # NULL /\ call[t].op = "realloc"
  BY <1>1 DEF BlocksInv, AnsweredInv, HeapInv, LocalsInv, LocalsAt
<1>3. p \in Pointers /\ old \in Pointers
  BY <1>2 DEF BlocksInv, HeapInv, TypeOK, Calls
<1>4. HdrOf(p) \in DOMAIN hdr /\ HdrOf(old) \in DOMAIN hdr
  BY <1>1, <1>2 DEF BlocksInv, HeapInv, OwnersInv, CallBlocks, NewBlock, GivenBlock
<1>5. PtrOf(HdrOf(p)) = p /\ PtrOf(HdrOf(old)) = old
  BY <1>3, PointerOfBlock
<1>6. /\ n \in Nat /\ hdr[HdrOf(old)].size \in Nat
      /\ p \in Nat /\ old \in Nat /\ old >= 4096 /\ old + hdr[HdrOf(old)].size <= HeapEnd
  BY <1>2, <1>4, <1>5, RequestInHeap
<1>7. m \in Nat /\ m <= n /\ m <= hdr[HdrOf(old)].size
  BY <1>6 DEF Least
<1>8. PromisesTyped
  BY DEF WordsInv, PromisesHeld
<1>9. old \in DOMAIN promise
  BY <1>3, <1>4, <1>8, BlockPromised
<1>10. promise[old] \in [value : Values \cup {0}, n : Nat]
  BY <1>8, <1>9 DEF PromisesTyped
<1>11. promise[old].n <= hdr[HdrOf(old)].size
  BY <1>6, <1>9 DEF WordsInv, PromisesHeld
<1>12. /\ q.n = Least(promise[old].n, n) /\ q.value = promise[old].value
       /\ q.n \in Nat /\ q.n <= promise[old].n /\ q.n <= n /\ q.n <= m
  BY <1>6, <1>10, <1>11, LeastOf
<1>13. q \in [value : Values \cup {0}, n : Nat]
  BY <1>10, <1>12
<1>14. FreeBlocks' \subseteq FreeBlocks /\ UnusedPages' \subseteq UnusedPages
  BY <1>1, QuietBlocks, QuietPages DEF BlocksInv, Step
<1>15. /\ \A a \in Followed : a \in Within(p, m) \/ word'[a] = word[a]
       /\ \A a \in Within(p, m) : word'[a] = word[old + (a - p)]
  BY <1>1 DEF Copy, Within
<1> HIDE DEF m, n, q
<1>16. Touches(UsedBlock(HdrOf(p)))
  BY <1>2, <1>4, <1>5, <1>6, <1>7, <1>15, WithinTouches
<1>17. ASSUME NEW a \in Within(p, q.n) PROVE word'[a] = q.value
  <2> DEFINE from == old + (a - p)
  <2>1. SIZEOF_SIZE_T \in {4, 8} /\ HeapEnd \in Nat
    BY PlatformAssumption, HeapNumbers DEF PlatformAssumption
  <2>2. a \in Followed /\ p <= a /\ a + SIZEOF_SIZE_T <= p + q.n
    BY DEF Within
  <2>3. a \in Nat
    BY <2>2, WordInGrain
  <2>4. a \in Within(p, m)
    BY <1>6, <1>7, <1>12, <2>1, <2>2, <2>3 DEF Within
  <2>5. from \in Nat /\ old <= from /\ from + SIZEOF_SIZE_T <= old + promise[old].n
    BY <1>6, <1>10, <1>12, <2>1, <2>2, <2>3
  <2>6. 4096 <= from /\ from < HeapEnd
    BY <1>6, <1>10, <1>11, <2>1, <2>5
  <2>7. from % Grain = a % Grain
    <3>1. /\ HdrOf(p) \in Nat /\ HdrOf(p) % Grain = 0
          /\ HdrOf(old) \in Nat /\ HdrOf(old) % Grain = 0
      BY <1>4, RequestInHeap, AddressRange DEF BlocksInv, GrainsInv
    <3>2. P2_HEADER_SIZE \in Nat
      BY HeaderSize
    <3>3. from = a + HdrOf(old) - HdrOf(p)
      BY <1>6, <2>3, <3>2 DEF HdrOf
    <3> QED
      BY <2>3, <3>1, <3>3, ShiftedWord
  <2>8. from \in Followed
    BY <2>1, <2>2, <2>5, <2>6, <2>7 DEF Followed, PAGE_BYTES
  <2>9. from \in Within(old, promise[old].n)
    BY <2>5, <2>8 DEF Within
  <2> QED
    BY <1>9, <1>12, <1>15, <2>4, <2>9 DEF WordsInv, PromisesKept
<1>18. HdrOf(p) \in DOMAIN hdr /\ q.n <= hdr'[HdrOf(p)].size
  BY <1>1, <1>2, <1>4, <1>12
<1>19. \A b \in DOMAIN hdr : b \in DOMAIN hdr' /\ (b # HdrOf(p) => hdr'[b] = hdr[b])
  BY <1>1
<1>20. promise' = [promise EXCEPT ![p] = q]
  BY <1>1
<1> QED
  BY <1>3, <1>13, <1>14, <1>16, <1>17, <1>18, <1>19, <1>20, HolderWrites

\* Nobody writes into blocks that somebody counts on; those of ptrs are given up.
LEMMA OthersWrite ==
  ASSUME BlocksInv, WordsInv, NEW ptrs, Forget(ptrs),
         \A a \in Followed :
           word'[a] = word[a] \/ \E c \in Chunks : ~IdleChunk(c) /\ Covers(c, a),
         \A ptr \in DOMAIN promise \ ptrs :
           \A a \in Within(ptr, promise[ptr].n) : word'[a] = word[a],
         \A b \in DOMAIN hdr : PtrOf(b) \in ptrs \/ (b \in DOMAIN hdr' /\ hdr'[b] = hdr[b]),
         \A b \in FreeBlocks' : b \in FreeBlocks \/ word'[PtrOf(b)] = 0,
         \A page \in UnusedPages' : page \in UnusedPages \/ Blank(page)'
  PROVE  WordsInv'
<1>1. PromisesTyped
  BY DEF WordsInv, PromisesHeld
<1>2. \A ptr \in DOMAIN promise :
        promise'[ptr] = IF ptr \in ptrs THEN Nothing ELSE promise[ptr]
  BY DEF Forget
<1>3. Nothing \in [value : Values \cup {0}, n : Nat] /\ Nothing.n = 0
  BY DEF Nothing
<1>4. PromisesTyped'
  BY <1>1, <1>3 DEF PromisesTyped, Forget
<1>5. ASSUME NEW ptr \in DOMAIN promise, promise'[ptr].n # 0
      PROVE  HdrOf(ptr) \in DOMAIN hdr' /\ promise'[ptr].n <= hdr'[HdrOf(ptr)].size
  <2>1. ptr \notin ptrs /\ promise'[ptr] = promise[ptr]
    BY <1>2, <1>3, <1>5
  <2>2. HdrOf(ptr) \in DOMAIN hdr /\ promise[ptr].n <= hdr[HdrOf(ptr)].size
    BY <1>5, <2>1 DEF WordsInv, PromisesHeld
  <2>3. PtrOf(HdrOf(ptr)) = ptr
    BY <1>1, PromisedBlock
  <2> QED
    BY <2>1, <2>2, <2>3
<1>6. ASSUME NEW ptr \in DOMAIN promise
      PROVE  \/ \A a \in Within(ptr, promise'[ptr].n) : word'[a] = promise'[ptr].value
             \/ /\ promise'[ptr] = promise[ptr]
                /\ \A a \in Within(ptr, promise[ptr].n) : word'[a] = word[a]
  <2>1. CASE ptr \in ptrs
    <3>1. promise'[ptr].n = 0 /\ ptr \in Nat /\ SIZEOF_SIZE_T \in {4, 8}
      BY <1>1, <1>2, <1>3, <2>1, PromisedBlock, PlatformAssumption DEF PlatformAssumption
    <3>2. \A a \in Followed : a \in Nat
      BY WordInGrain
    <3>3. Within(ptr, promise'[ptr].n) = {}
      BY <3>1, <3>2 DEF Within
    <3> QED
      BY <3>3
  <2>2. CASE ptr \notin ptrs
    BY <1>2, <2>2
  <2> QED
    BY <2>1, <2>2
<1> QED
  BY <1>4, <1>5, <1>6, WordsAfter

LEMMA FreeLargeForgetsWords ==
  ASSUME BlocksInv, WordsInv, NEW t \in Threads, FreeLargeForgets(t)
  PROVE  WordsInv'
<1> DEFINE b == call[t].blk
<1>1. /\ FreeLarge(t) /\ hdr' = WithoutHeader(b)
      /\ Forget({PtrOf(b)}) /\ word' = word
  BY DEF FreeLargeForgets, FreeLarge
<1>2. FreeBlocks' \subseteq FreeBlocks
  <2>1. ~CarvePage(t) /\ ~FreeSlab(t)
    BY <1>1 DEF FreeLarge, CarvePage, FreeSlab, Move
  <2> QED
    BY <1>1, <2>1, FreeBlocksStep DEF BlocksInv, Step
<1>3. UnusedPages' \subseteq UnusedPages
  BY <1>1, QuietPages DEF BlocksInv, Step, FreeLarge, Move
<1>4. \A c \in DOMAIN hdr : PtrOf(c) \in {PtrOf(b)} \/ (c \in DOMAIN hdr' /\ hdr'[c] = hdr[c])
  BY <1>1 DEF WithoutHeader
<1> HIDE DEF b
<1> QED
  BY <1>1, <1>2, <1>3, <1>4, OthersWrite

\* p2free writes its tripwire into the block that it frees.
LEMMA FreeZeroesWords ==
  ASSUME BlocksInv, WordsInv, NEW t \in Threads, FreeZeroes(t)
  PROVE  WordsInv'
<1> DEFINE b == call[t].blk
           p == PtrOf(b)
           n == SIZEOF_SIZE_T
<1>1. /\ FreeSlab(t) /\ pc[t] = "free" /\ hdr' = WithoutHeader(b)
      /\ Forget({p}) /\ word' = Set(p, 0, n)
  BY DEF FreeZeroes, FreeSlab
<1>2. b \in DOMAIN hdr
  BY <1>1 DEF BlocksInv, HeapInv, OwnersInv, CallBlocks, GivenBlock
<1>3. b \in BlockAddrs /\ b % Grain = 0
  BY <1>2, RequestInHeap DEF BlocksInv, GrainsInv
<1>4. /\ p \in Followed /\ b <= p /\ p + n <= b + 32
      /\ n \in {4, 8} /\ b \in Nat /\ p \in Nat
  BY <1>3, FirstWord, AddressRange, WordInGrain, PlatformAssumption DEF PlatformAssumption
<1>5. UsedBlock(b) \in Chunks /\ ~IdleChunk(UsedBlock(b))
  BY <1>2, UsedWords DEF BlocksInv
<1>6. UsedBlock(b).base = b /\ UsedBlock(b).bytes >= 32 /\ UsedBlock(b).bytes \in Nat
  <2>1. UsedBlock(b).base = b /\ UsedBlock(b).bytes = BlockBytes(hdr[b])
    BY DEF UsedBlock, Chunk
  <2>2. ~IS_LARGE(hdr[b])
    BY <1>1 DEF FreeSlab
  <2>3. get_freelist_idx(hdr[b].size) \in Freelists
    BY <1>2, <2>2 DEF BlocksInv, HeapInv, HeadersInv, HeaderTrue
  <2> QED
    BY <2>1, <2>2, <2>3, BlockSizes, FreelistNumbers DEF BlockBytes
<1>7. /\ \A a \in Followed : a \in Within(p, n) \/ word'[a] = word[a]
      /\ \A a \in Within(p, n) : word'[a] = 0
  BY <1>1 DEF Set, Within
<1>8. word'[p] = 0
  <2>1. p \in Within(p, n)
    BY <1>4 DEF Within
  <2> QED
    BY <1>7, <2>1
<1> HIDE DEF n, p
<1>9. Touches(UsedBlock(b))
  <2> SUFFICES ASSUME NEW a \in Followed, a \in Within(p, n) PROVE Covers(UsedBlock(b), a)
    BY <1>7 DEF Touches
  <2>1. a \in Nat /\ p <= a /\ a + n <= p + n
    BY WordInGrain DEF Within, n
  <2>2. b <= a /\ a < b + UsedBlock(b).bytes
    BY <1>4, <1>6, <2>1
  <2> QED
    BY <1>6, <2>2 DEF Covers
<1>10. ASSUME NEW ptr \in DOMAIN promise \ {p}, NEW a \in Within(ptr, promise[ptr].n)
       PROVE  word'[a] = word[a]
  <2>1. PtrOf(HdrOf(ptr)) = ptr
    BY PromisedBlock DEF WordsInv, PromisesHeld
  <2>2. HdrOf(ptr) # b
    BY <2>1 DEF p
  <2>3. UsedBlock(b) # UsedBlock(HdrOf(ptr))
    BY <2>2 DEF UsedBlock, Chunk
  <2> QED
    BY <1>5, <1>9, <2>3, PromiseApart
<1>11. \A a \in Followed :
         word'[a] = word[a] \/ \E c \in Chunks : ~IdleChunk(c) /\ Covers(c, a)
  BY <1>5, <1>9 DEF Touches
<1>12. FreeBlocks' \subseteq FreeBlocks \cup {b}
  <2>1. ~CarvePage(t)
    BY <1>1 DEF CarvePage, Move
  <2> QED
    BY <1>1, <2>1, FreeBlocksStep DEF BlocksInv, Step
<1>13. \A c \in FreeBlocks' : c \in FreeBlocks \/ word'[PtrOf(c)] = 0
  BY <1>8, <1>12 DEF p
<1>14. UnusedPages' \subseteq UnusedPages
  BY <1>1, QuietPages DEF BlocksInv, Step
<1>15. \A c \in DOMAIN hdr : PtrOf(c) \in {p} \/ (c \in DOMAIN hdr' /\ hdr'[c] = hdr[c])
  BY <1>1 DEF WithoutHeader, p
<1> HIDE DEF b
<1> QED
  BY <1>1, <1>10, <1>11, <1>13, <1>14, <1>15, OthersWrite

LEMMA NothingForgotten ==
  ASSUME WordsInv, promise' = promise
  PROVE  Forget({})
  BY DEF WordsInv, PromisesHeld, PromisesTyped, Forget

\* The pages that go back to the OS are the thread's own.
LEMMA UnmapForgetsWords ==
  ASSUME BlocksInv, WordsInv, NEW t \in Threads, UnmapForgets(t)
  PROVE  WordsInv'
<1> DEFINE b == call[t].blk
           n == call[t].alloc_size
           c == Chunk("thread", t, b, n)
<1>1. /\ Unmap(t) /\ pc[t] = "free_unmap" /\ hdr' = hdr
      /\ promise' = promise /\ word' = Set(b, 0, n)
  BY DEF UnmapForgets, Unmap, Move
<1>2. b \in HeapPages /\ WholePages(b, n) /\ n \in Nat
  BY <1>1 DEF BlocksInv, HeapInv, LocalsInv, LocalsAt, TypeOK, Calls, SizeT
<1>3. /\ b \in Nat /\ b % 4096 = 0 /\ n % 4096 = 0 /\ n > 0
      /\ PAGE_BYTES = 4096 /\ SIZEOF_SIZE_T \in {4, 8}
  BY <1>2, HeapNumbers, PlatformAssumption DEF WholePages, PlatformAssumption
<1>4. c \in Chunks
  <2>1. InHand(t) = n
    BY <1>1 DEF InHand
  <2> QED
    BY <1>3, <2>1 DEF Chunks, HandChunks
<1>5. ~IdleChunk(c) /\ c.base = b /\ c.bytes = n /\ c.kind = "thread"
  BY <1>1 DEF IdleChunk, Chunk, HandLabels
<1>6. /\ \A a \in Followed : a \in Within(b, n) \/ word'[a] = word[a]
      /\ \A a \in Within(b, n) : word'[a] = 0
  BY <1>1 DEF Set, Within
<1>7. UnusedPages' \subseteq UnusedPages \cup PagesOf(b, n)
  BY <1>1, UnusedPagesStep DEF BlocksInv, Step
<1>8. FreeBlocks' \subseteq FreeBlocks
  BY <1>1, QuietBlocks DEF BlocksInv, Step
<1> HIDE DEF b, n, c
<1>9. Touches(c)
  <2> SUFFICES ASSUME NEW a \in Followed, a \in Within(b, n) PROVE Covers(c, a)
    BY <1>6 DEF Touches
  <2>1. a \in Nat /\ b <= a /\ a + SIZEOF_SIZE_T <= b + n
    BY WordInGrain DEF Within
  <2>2. a < b + n
    BY <1>2, <1>3, <2>1
  <2> QED
    BY <1>5, <2>1, <2>2 DEF Covers
<1>10. ASSUME NEW ptr \in DOMAIN promise \ {}, NEW a \in Within(ptr, promise[ptr].n)
       PROVE  word'[a] = word[a]
  <2>1. c # UsedBlock(HdrOf(ptr))
    BY <1>5 DEF UsedBlock, Chunk
  <2> QED
    BY <1>4, <1>9, <2>1, PromiseApart
<1>11. \A a \in Followed :
         word'[a] = word[a] \/ \E d \in Chunks : ~IdleChunk(d) /\ Covers(d, a)
  BY <1>4, <1>5, <1>9 DEF Touches
<1>12. ASSUME NEW page \in PagesOf(b, n) PROVE Blank(page)'
  <2> SUFFICES ASSUME NEW a \in Followed, InPage(page, a) PROVE a \in Within(b, n)
    BY <1>6 DEF Blank, InPage
  <2>1. page \in HeapPages /\ b <= page /\ page < b + n
    BY DEF PagesOf
  <2>2. page \in Nat /\ page % 4096 = 0
    BY <2>1, HeapNumbers
  <2>3. a \in Nat /\ page <= a /\ a + SIZEOF_SIZE_T <= page + 4096
    BY <2>1, WordInGrain, WordInPage DEF InPage
  <2>4. page + 4096 <= b + n
    BY <1>2, <1>3, <2>1, <2>2
  <2>5. b <= a /\ a + SIZEOF_SIZE_T <= b + n
    BY <1>2, <1>3, <2>1, <2>2, <2>3, <2>4
  <2> QED
    BY <2>5 DEF Within
<1>13. \A page \in UnusedPages' : page \in UnusedPages \/ Blank(page)'
  BY <1>7, <1>12
<1>14. \A d \in DOMAIN hdr : PtrOf(d) \in {} \/ (d \in DOMAIN hdr' /\ hdr'[d] = hdr[d])
  BY <1>1
<1>15. Forget({})
  BY <1>1, NothingForgotten
<1> QED
  BY <1>8, <1>10, <1>11, <1>13, <1>14, <1>15, OthersWrite

\* Steps that write no followed word: a page that is carved held zeroes.
LEMMA PlainWords ==
  ASSUME BlocksInv, WordsInv, NEW t \in Threads, Call(t) \/ Step(t),
         pc[t] \notin TouchingLabels, UNCHANGED <<word, promise>>
  PROVE  WordsInv'
<1>1. pc[t] \notin {"free", "free_unmap", "realloc_add"}
  BY DEF TouchingLabels
<1>2. HeadersGrow(t)
  <2>1. ~FreeLarge(t) /\ ~FreeSlab(t) /\ ~ResizeAdd(t)
    BY <1>1 DEF FreeLarge, FreeSlab, ResizeAdd, Move
  <2> QED
    BY <2>1, HeadersStep DEF BlocksInv
<1>3. UnusedPages' \subseteq UnusedPages
  BY <1>1, QuietPages DEF BlocksInv
<1>4. ASSUME NEW b \in FreeBlocks', b \notin FreeBlocks PROVE word'[PtrOf(b)] = 0
  <2>1. ~FreeSlab(t)
    BY <1>1 DEF FreeSlab
  <2>2. /\ CarvePage(t)
        /\ b \in Range(CarvedPage(call[t].blk, 4096, pow2(call[t].idx)))
    BY <1>4, <2>1, FreeBlocksStep DEF BlocksInv
  <2> DEFINE page == call[t].blk
  <2>3. /\ page \in Carving /\ page \in HeapPages
        /\ b \in BlockAddrs /\ b % Grain = 0 /\ page <= b /\ b + 32 <= page + 4096
    BY <2>2, CarvedBlocksLie DEF BlocksInv
  <2>4. PtrOf(b) \in Followed /\ b <= PtrOf(b) /\ PtrOf(b) + SIZEOF_SIZE_T <= b + 32
    BY <2>3, FirstWord
  <2>5. InPage(page, PtrOf(b))
    <3>1. /\ page \in Nat /\ b \in Nat /\ PtrOf(b) \in Nat
          /\ SIZEOF_SIZE_T \in {4, 8} /\ PAGE_BYTES = 4096
      BY <2>3, <2>4, HeapNumbers, AddressRange, WordInGrain, PlatformAssumption
         DEF PlatformAssumption
    <3> QED
      BY <2>3, <2>4, <3>1 DEF InPage
  <2> QED
    BY <2>3, <2>4, <2>5 DEF WordsInv, UnusedPages, Blank
<1>5. Forget({})
  BY NothingForgotten
<1>6. \A b \in DOMAIN hdr : PtrOf(b) \in {} \/ (b \in DOMAIN hdr' /\ hdr'[b] = hdr[b])
  BY <1>2 DEF HeadersGrow
<1> QED
  BY <1>3, <1>4, <1>5, <1>6, OthersWrite

LEMMA ResetWords ==
  ASSUME BlocksInv, WordsInv, Reset, Forget(live \ live'), UNCHANGED word
  PROVE  WordsInv'
<1>1. FreeBlocks' = {} /\ UnusedPages' = UnusedPages /\ hdr' = hdr
  BY ResetBlocks
<1> QED
  BY <1>1, OthersWrite

LEMMA WordsStutter ==
  ASSUME BlocksInv, WordsInv, UNCHANGED payVars
  PROVE  WordsInv'
<1>1. UNCHANGED lifeVars /\ word' = word /\ promise' = promise
  BY DEF payVars
<1>2. FreeBlocks' = FreeBlocks /\ UnusedPages' = UnusedPages /\ hdr' = hdr
  BY <1>1, BlocksStutter
<1>3. Forget({})
  BY <1>1, NothingForgotten
<1> QED
  BY <1>1, <1>2, <1>3, OthersWrite

LEMMA WordsInit == PayInit => WordsInv
<1> SUFFICES ASSUME PayInit PROVE WordsInv
  OBVIOUS
<1>1. /\ word = [a \in Followed |-> 0]
      /\ promise = [ptr \in {PtrOf(b) : b \in {c \in BlockAddrs : c % Grain = 0}} |-> Nothing]
  BY DEF PayInit
<1>2. Nothing \in [value : Values \cup {0}, n : Nat] /\ Nothing.n = 0 /\ Nothing.value = 0
  BY DEF Nothing
<1>3. PromisesHeld
  BY <1>1, <1>2 DEF PromisesHeld, PromisesTyped
<1>4. PromisesKept
  BY <1>1, <1>2 DEF PromisesKept, Within
<1>5. \A page \in UnusedPages : Blank(page)
  BY <1>1 DEF Blank
<1>6. FreeBlocks = {}
  <2>1. DOMAIN <<>> = {}
    OBVIOUS
  <2>2. \A i \in Freelists : Range(freelists[i]) = {}
    BY <2>1, Zenon DEF PayInit, LifeInit, Init, Range
  <2> QED
    BY <2>2 DEF PayInit, LifeInit, Init, FreeBlocks, HandLabels
<1> QED
  BY <1>3, <1>4, <1>5, <1>6 DEF WordsInv

--------------------------------------------------------------------------------
(***************************************************************************)
(* The theorems.                                                           *)
(***************************************************************************)
LEMMA PayStepKeeps ==
  ASSUME ReallocsFit, PayInv, [PayNext]_payVars
  PROVE  PayInv'
<1>1. BlocksInv /\ WordsInv
  BY DEF PayInv
<1>2. ASSUME NEW ptr \in live, NEW value \in Values, Fill(ptr, value) PROVE PayInv'
  <2>1. BlocksInv'
    BY <1>1, <1>2, BlocksStutter DEF Fill
  <2> QED
    BY <1>1, <1>2, <2>1, FillWords DEF PayInv
<1>3. CASE Reset /\ Forget(live \ live') /\ UNCHANGED word
  BY <1>1, <1>3, ResetBlocks, ResetWords DEF PayInv
<1>4. ASSUME NEW t \in Threads, PayStep(t) PROVE PayInv'
  <2>1. Call(t) \/ Step(t)
    BY <1>4 DEF PayStep, CallocZeroes, ReallocCopies, ReallocStays, FreeZeroes,
       FreeLargeForgets, UnmapForgets, Step
  <2>2. BlocksInv'
    BY <1>1, <2>1, BlocksStep
  <2>3. WordsInv'
    BY <1>1, <1>4, CallocZeroesWords, ReallocCopiesWords, ReallocStaysWords, FreeZeroesWords,
       FreeLargeForgetsWords, UnmapForgetsWords, PlainWords DEF PayStep
  <2> QED
    BY <2>2, <2>3 DEF PayInv
<1>5. CASE UNCHANGED payVars
  <2>1. UNCHANGED lifeVars
    BY <1>5 DEF payVars
  <2> QED
    BY <1>1, <1>5, <2>1, BlocksStutter, WordsStutter DEF PayInv
<1> QED
  BY <1>2, <1>3, <1>4, <1>5 DEF PayNext

\* Words stay where the calls of all threads and p2reset leave them, for clients
\* that pass no size to p2realloc that wraps (p2malloc.c:200-328).
THEOREM PayTheorem ==
  ASSUME ReallocsFit
  PROVE  PaySpec => []PayInv
<1>1. PayInit => PayInv
  BY BlocksInit, WordsInit DEF PayInv
<1>2. PayInv /\ [PayNext]_payVars => PayInv'
  BY PayStepKeeps
<1> QED
  BY <1>1, <1>2, PTL DEF PaySpec

\* What a client wrote into a block, p2calloc's zeroes and the bytes that
\* p2realloc carries over stay until the holder writes or gives the block up,
\* whatever the other threads do (p2malloc.c:280-309).
THEOREM PromisesKeptTheorem ==
  ASSUME ReallocsFit
  PROVE  PaySpec => []PromisesKept
<1>1. PayInv => PromisesKept
  BY DEF PayInv, WordsInv
<1> QED
  BY <1>1, PayTheorem, PTL

\* Nobody writes into the tripwire of a free block: its first payload word is 0
\* until it is given out again (p2malloc.c:265-267).
THEOREM TripwiresIntactTheorem ==
  ASSUME ReallocsFit
  PROVE  PaySpec => []TripwiresIntact
<1>1. PayInv => TripwiresIntact
  BY DEF PayInv, WordsInv, FreeBlocks, HandLabels, TripwiresIntact
<1> QED
  BY <1>1, PayTheorem, PTL
================================================================================
