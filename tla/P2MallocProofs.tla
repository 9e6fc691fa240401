---------------------------- MODULE P2MallocProofs -----------------------------
(***************************************************************************)
(* The arithmetic of SizeClasses for every platform; initialisation and    *)
(* locking of P2Malloc, for any number of threads, any heap and any client; *)
(* its heap, where every byte has one owner and every variable its type:   *)
(* the invariant HeapInv, that every step keeps it, and what follows from  *)
(* it; and, of clients that pass p2realloc no size that wraps, that        *)
(* P2Malloc implements Heap.                                               *)
(***************************************************************************)
EXTENDS P2Malloc, MCSizeClasses, FreelistProofs, FunctionTheorems,
        FiniteSetTheorems, WellFoundedInduction

--------------------------------------------------------------------------------
(***************************************************************************)
(* Sizes.                                                                  *)
(***************************************************************************)
\* The header is 8 or 16 bytes, so it keeps the alignment of a block.
LEMMA HeaderSize ==
  /\ P2_HEADER_SIZE \in {8, 16}
  /\ P2_HEADER_SIZE % ALIGNOF_MAX_ALIGN_T = 0
<1>1. CASE SIZEOF_SIZE_T = 4 /\ ALIGNOF_MAX_ALIGN_T = 8
  BY <1>1 DEF P2_HEADER_SIZE, RoundUp
<1>2. CASE SIZEOF_SIZE_T = 4 /\ ALIGNOF_MAX_ALIGN_T = 16
  BY <1>2 DEF P2_HEADER_SIZE, RoundUp
<1>3. CASE SIZEOF_SIZE_T = 8 /\ ALIGNOF_MAX_ALIGN_T = 8
  BY <1>3 DEF P2_HEADER_SIZE, RoundUp
<1>4. CASE SIZEOF_SIZE_T = 8 /\ ALIGNOF_MAX_ALIGN_T = 16
  BY <1>4 DEF P2_HEADER_SIZE, RoundUp
<1> QED
  BY <1>1, <1>2, <1>3, <1>4, PlatformAssumption DEF PlatformAssumption

\* The block sizes, bucket by bucket.
LEMMA BlockSizes ==
  /\ pow2(0) = 32   /\ pow2(1) = 64   /\ pow2(2) = 128  /\ pow2(3) = 256
  /\ pow2(4) = 512  /\ pow2(5) = 1024 /\ pow2(6) = 2048 /\ pow2(7) = 4096
  BY DEF pow2

LEMMA FreelistNumbers == Freelists = {0, 1, 2, 3, 4, 5, 6, 7}
  BY DEF Freelists, NUM_FREELISTS

\* size_t arithmetic stays in size_t and does nothing to what fits.
LEMMA WrapType ==
  /\ \A n \in Int : Wrap(n) \in SizeT
  /\ \A n \in SizeT : Wrap(n) = n
  BY PlatformAssumption DEF Wrap, SizeT, PlatformAssumption

\* The range of get_freelist_idx, also for the sizes whose sum wraps.
LEMMA IdxType ==
  ASSUME NEW size
  PROVE  get_freelist_idx(size) \in Freelists \cup {-1}
  BY FreelistNumbers DEF get_freelist_idx

\* The blocks of the bucket hold the sum, those of the bucket below do not.
LEMMA IdxBounds ==
  ASSUME NEW size \in Int
  PROVE  LET swh == Wrap(size + P2_HEADER_SIZE)
             idx == get_freelist_idx(size)
         IN  /\ idx = -1 => swh > 4096
             /\ idx \in Freelists => swh <= pow2(idx)
             /\ \A i \in Freelists : i < idx => pow2(i) < swh
<1> DEFINE swh == Wrap(size + P2_HEADER_SIZE)
<1>1. swh \in Int
  BY HeaderSize, WrapType DEF SizeT
<1> QED
  BY <1>1, FreelistNumbers, BlockSizes DEF get_freelist_idx

--------------------------------------------------------------------------------
\* For every platform and every size p2malloc admits, the bucket is the least
\* whose blocks hold the request and its header, and there is none exactly when
\* the request needs the large path (p2malloc.c:148-164).
LEMMA EveryBucketIsLeast == \A size \in SizeT : LeastFit(size)
<1> SUFFICES ASSUME NEW size \in SizeT, Admitted(size)
             PROVE  LET fits == {i \in Freelists : size + P2_HEADER_SIZE <= pow2(i)}
                        idx  == get_freelist_idx(size)
                    IN  IF fits = {} THEN idx = -1
                        ELSE idx \in fits /\ \A i \in fits : idx <= i
  BY DEF LeastFit
<1>1. Wrap(size + P2_HEADER_SIZE) = size + P2_HEADER_SIZE
  BY HeaderSize, WrapType, PlatformAssumption DEF SizeT, Admitted, PlatformAssumption
<1>2. size \in Int /\ P2_HEADER_SIZE \in Int
  BY HeaderSize DEF SizeT
<1> QED
  BY <1>1, <1>2, IdxType, IdxBounds, FreelistNumbers, BlockSizes

\* For every platform and every admitted size, page_align gives whole pages that
\* hold request and header with less than a page to spare, or 0 when the sum
\* wrapped (p2malloc.c:89-93, 210).
LEMMA EveryPageIsEnough == \A size \in SizeT : PagesHoldRequest(size)
<1> SUFFICES ASSUME NEW size \in SizeT, Admitted(size)
             PROVE  PagesHoldRequest(size)
  BY DEF PagesHoldRequest
<1> DEFINE need == P2_HEADER_SIZE + size
           m    == Wrap(need + 4095)
<1>1. need \in 1..SIZE_MAX /\ SIZE_MAX \in Nat /\ SIZE_MAX >= 65535
  BY HeaderSize, PlatformAssumption DEF Admitted, PlatformAssumption
<1>2. page_align(need) = m - (m % 4096)
  BY DEF page_align
<1>3. CASE need + 4095 <= SIZE_MAX
  <2>1. m = need + 4095
    BY <1>1, <1>3, WrapType DEF SizeT
  <2> HIDE DEF need, m
  <2>2. /\ (m - (m % 4096)) % 4096 = 0
        /\ need <= m - (m % 4096)
        /\ m - (m % 4096) < need + 4096
    BY <1>1, <2>1
  <2> QED
    BY <1>2, <1>3, <2>2 DEF PagesHoldRequest, PAGE_BYTES, need
<1>4. CASE ~(need + 4095 <= SIZE_MAX)
  <2> HIDE DEF need
  <2>1. m = need + 4095 - (SIZE_MAX + 1)
    BY <1>1, <1>4 DEF Wrap
  <2> HIDE DEF m
  <2>2. m \in 0..4094
    BY <1>1, <1>4, <2>1
  <2>3. m - (m % 4096) = 0
    BY <2>2
  <2> QED
    BY <1>2, <1>4, <2>3 DEF PagesHoldRequest, PAGE_BYTES, need
<1> QED
  BY <1>3, <1>4

\* For every platform, p2calloc's division refuses exactly the products that do
\* not fit in a size_t (p2malloc.c:283).
LEMMA EveryGuardIsExact == \A nmemb, size \in SizeT : CallocGuardExact(nmemb, size)
<1> SUFFICES ASSUME NEW nmemb \in SizeT, NEW size \in SizeT, nmemb # 0, size # 0
             PROVE  nmemb > SIZE_MAX \div size <=> nmemb * size > SIZE_MAX
  BY DEF CallocGuardExact, CallocOverflows
<1> DEFINE q == SIZE_MAX \div size
<1>1. SIZE_MAX \in Nat /\ nmemb \in Nat /\ size \in Nat \ {0}
  BY PlatformAssumption DEF SizeT, PlatformAssumption
<1>2. q \in Nat /\ q * size <= SIZE_MAX /\ SIZE_MAX < q * size + size
  BY <1>1
<1> HIDE DEF q
<1>3. CASE nmemb > q
  <2>1. nmemb * size = (q + 1) * size + (nmemb - (q + 1)) * size
    BY <1>1, <1>2
  <2>2. (nmemb - (q + 1)) * size >= 0
    BY <1>1, <1>2, <1>3
  <2>3. (q + 1) * size = q * size + size
    BY <1>1, <1>2
  <2> QED
    BY <1>1, <1>2, <1>3, <2>1, <2>2, <2>3 DEF q
<1>4. CASE nmemb <= q
  <2>1. q * size = nmemb * size + (q - nmemb) * size
    BY <1>1, <1>2
  <2>2. (q - nmemb) * size >= 0
    BY <1>1, <1>2, <1>4
  <2> QED
    BY <1>1, <1>2, <1>4, <2>1, <2>2 DEF q
<1> QED
  BY <1>1, <1>2, <1>3, <1>4

\* The sweep tries nothing but sizes.
LEMMA SweepsSizes == Sweep => [](swept \in SizeT)
<1>1. SweepInit => swept \in SizeT
  BY PlatformAssumption DEF SweepInit, SizeT, PlatformAssumption
<1>2. swept \in SizeT /\ [SweepNext]_swept => (swept \in SizeT)'
  BY PlatformAssumption DEF SweepNext, SizeT, PlatformAssumption
<1> QED
  BY <1>1, <1>2, PTL DEF Sweep

\* At every size the least block that fits, on every platform (p2malloc.c:148-164).
THEOREM BucketTheorem ==
  /\ \A size \in SizeT : LeastFit(size)
  /\ Sweep => []BucketIsLeast
<1>1. swept \in SizeT => BucketIsLeast
  BY EveryBucketIsLeast DEF BucketIsLeast
<1>2. Sweep => []BucketIsLeast
  BY <1>1, SweepsSizes, PTL
<1> QED
  BY <1>2, EveryBucketIsLeast

\* For every size enough pages and none to spare, or 0 (p2malloc.c:90-93, 210-212).
THEOREM PageTheorem ==
  /\ \A size \in SizeT : PagesHoldRequest(size)
  /\ Sweep => []PagesAreEnough
<1>1. swept \in SizeT => PagesAreEnough
  BY EveryPageIsEnough DEF PagesAreEnough
<1>2. Sweep => []PagesAreEnough
  BY <1>1, SweepsSizes, PTL
<1> QED
  BY <1>2, EveryPageIsEnough

\* The guard of p2calloc is exact for every count and every size (p2malloc.c:283).
THEOREM CallocTheorem ==
  /\ \A nmemb, size \in SizeT : CallocGuardExact(nmemb, size)
  /\ Sweep => []CallocGuardIsExact
<1>1. swept \in SizeT => CallocGuardIsExact
  BY EveryGuardIsExact, CountsAssumption DEF CallocGuardIsExact, CountsAssumption
<1>2. Sweep => []CallocGuardIsExact
  BY <1>1, SweepsSizes, PTL
<1> QED
  BY <1>2, EveryGuardIsExact

--------------------------------------------------------------------------------
(***************************************************************************)
(* Initialisation and locks.                                               *)
(***************************************************************************)
\* The locals of the calls are records with the fields of NoCall.
CallsHaveFields ==
  call = [t \in Threads |->
           [op |-> call[t].op, ptr |-> call[t].ptr, size |-> call[t].size,
            idx |-> call[t].idx, blk |-> call[t].blk,
            alloc_size |-> call[t].alloc_size, ret |-> call[t].ret]]

ControlTypeOK ==
  /\ init_state \in {0, 1, 2}
  /\ lock \in [Freelists -> Threads \cup {NoThread}]
  /\ pc \in [Threads -> Labels]
  /\ CallsHaveFields

\* Where a thread can be before the lists are ready; it has nothing in hand.
EarlyLabels ==
  {"idle", "ensure_init", "freelists_init", "init_ready", "init_spin", "done"}

NothingYet ==
  init_state # 2 =>
    /\ mapped = {}
    /\ hdr = <<>>
    /\ live = {}
    /\ \A i \in Freelists : lock[i] = NoThread
    /\ \A t \in Threads : /\ pc[t] \in EarlyLabels
                          /\ call[t].ptr = NULL
                          /\ call[t].ret = NULL

Initing(t) == pc[t] \in {"freelists_init", "init_ready"}

OneInits ==
  \A t, u \in Threads :
    Initing(t) => init_state = 1 /\ (Initing(u) => u = t)

\* A thread in a critical section holds the lock of its bucket.
Section == {"check", "carve", "pop", "free_insert"}

HoldsLock ==
  \A t \in Threads :
    /\ pc[t] \in Section \cup {"lock", "free_lock"} => call[t].idx \in Freelists
    /\ pc[t] \in Section => lock[call[t].idx] = t

ControlInv == ControlTypeOK /\ NothingYet /\ OneInits /\ HoldsLock

--------------------------------------------------------------------------------
LEMMA ControlInit == Init => ControlInv
<1> SUFFICES ASSUME Init PROVE ControlInv
  OBVIOUS
<1>1. ControlTypeOK
  BY DEF Init, ControlTypeOK, CallsHaveFields, NoCall, NewCall, Labels
<1>2. NothingYet
  BY DEF Init, NothingYet, EarlyLabels, NoCall, NewCall
<1>3. OneInits /\ HoldsLock
  BY DEF Init, OneInits, Initing, HoldsLock, Section
<1> QED
  BY <1>1, <1>2, <1>3 DEF ControlInv


LEMMA FieldsKept ==
  ASSUME CallsHaveFields, NEW t \in Threads, NEW x, NEW y
  PROVE  /\ call' = [call EXCEPT ![t].idx = x] => CallsHaveFields'
         /\ call' = [call EXCEPT ![t].ret = x] => CallsHaveFields'
         /\ call' = [call EXCEPT ![t].blk = x] => CallsHaveFields'
         /\ call' = [call EXCEPT ![t].alloc_size = x] => CallsHaveFields'
         /\ call' = [call EXCEPT ![t].blk = x, ![t].alloc_size = y] => CallsHaveFields'
         /\ call' = call => CallsHaveFields'
         /\ call' = [call EXCEPT ![t] = NoCall] => CallsHaveFields'
<1>1. call' = [call EXCEPT ![t].idx = x] => CallsHaveFields'
  BY DEF CallsHaveFields
<1>2. call' = [call EXCEPT ![t].ret = x] => CallsHaveFields'
  BY DEF CallsHaveFields
<1>3. call' = [call EXCEPT ![t].blk = x] => CallsHaveFields'
  BY DEF CallsHaveFields
<1>4. call' = [call EXCEPT ![t].alloc_size = x] => CallsHaveFields'
  BY DEF CallsHaveFields
<1>5. call' = [call EXCEPT ![t].blk = x, ![t].alloc_size = y] => CallsHaveFields'
  BY DEF CallsHaveFields
<1>6. call' = call => CallsHaveFields'
  BY DEF CallsHaveFields
<1>7. call' = [call EXCEPT ![t] = NoCall] => CallsHaveFields'
  BY DEF CallsHaveFields, NoCall, NewCall
<1> QED
  BY <1>1, <1>2, <1>3, <1>4, <1>5, <1>6, <1>7

LEMMA PlainStep ==
  ASSUME ControlInv, NEW t \in Threads, NEW l \in Labels \ {"freelists_init", "init_ready"},
         pc[t] \notin EarlyLabels,
         pc' = [pc EXCEPT ![t] = l],
         UNCHANGED <<init_state, lock>>,
         CallsHaveFields',
         \A u \in Threads \ {t} : call'[u] = call[u],
         l \in Section => pc[t] \in Section /\ call'[t].idx = call[t].idx,
         l \in {"lock", "free_lock"} => call'[t].idx \in Freelists
  PROVE  ControlInv'
<1> USE DEF ControlInv
<1>1. init_state = 2
  BY DEF NothingYet
<1>2. ControlTypeOK'
  BY DEF ControlTypeOK
<1>3. NothingYet'
  BY <1>1 DEF NothingYet
<1>4. \A u \in Threads : pc'[u] = IF u = t THEN l ELSE pc[u]
  BY DEF ControlTypeOK
<1>5. OneInits'
  BY <1>4 DEF OneInits, Initing
<1>6. HoldsLock'
  BY <1>4 DEF HoldsLock, Section
<1> QED
  BY <1>2, <1>3, <1>5, <1>6

LEMMA UnlockStep ==
  ASSUME ControlInv, NEW t \in Threads, NEW l \in Labels \ {"freelists_init", "init_ready", "lock", "free_lock"},
         l \notin Section,
         pc[t] \in Section,
         pc' = [pc EXCEPT ![t] = l],
         init_state' = init_state,
         Unlock(t),
         CallsHaveFields',
         \A u \in Threads \ {t} : call'[u] = call[u]
  PROVE  ControlInv'
<1> USE DEF ControlInv
<1>1. init_state = 2
  BY DEF NothingYet, EarlyLabels, Section
<1>2. ControlTypeOK'
  BY DEF ControlTypeOK, Unlock
<1>3. NothingYet'
  BY <1>1 DEF NothingYet
<1>4. \A u \in Threads : pc'[u] = IF u = t THEN l ELSE pc[u]
  BY DEF ControlTypeOK
<1>5. OneInits'
  BY <1>4 DEF OneInits, Initing
<1>6. HoldsLock'
  BY <1>4 DEF HoldsLock, Section, Unlock, ControlTypeOK
<1> QED
  BY <1>2, <1>3, <1>5, <1>6

LEMMA LargeAllocControl ==
  ASSUME ControlInv, NEW t \in Threads, LargeAlloc(t)
  PROVE  ControlInv'
<1> DEFINE alloc_size == page_align(Wrap(P2_HEADER_SIZE + call[t].size))
<1>1. PICK page : call' = [call EXCEPT ![t].blk = page, ![t].alloc_size = alloc_size]
  BY DEF LargeAlloc
<1> HIDE DEF alloc_size
<1> QED
  BY <1>1, PlainStep, FieldsKept
     DEF LargeAlloc, Move, Goto, Labels, EarlyLabels, Section, ControlInv, ControlTypeOK,
         CallsHaveFields

LEMMA LargeAddAllocatedControl ==
  ASSUME ControlInv, NEW t \in Threads, LargeAddAllocated(t)
  PROVE  ControlInv'
  BY PlainStep, FieldsKept
     DEF LargeAddAllocated, Move, Goto, Labels, EarlyLabels, Section, ControlInv, ControlTypeOK,
         CallsHaveFields, shared

LEMMA SubTotmemControl ==
  ASSUME ControlInv, NEW t \in Threads, SubTotmem(t)
  PROVE  ControlInv'
  BY PlainStep, FieldsKept
     DEF SubTotmem, Move, Goto, Labels, EarlyLabels, Section, ControlInv, ControlTypeOK,
         CallsHaveFields, shared

LEMMA UnmapControl ==
  ASSUME ControlInv, NEW t \in Threads, Unmap(t)
  PROVE  ControlInv'
  BY PlainStep, FieldsKept
     DEF Unmap, Move, Goto, Labels, EarlyLabels, Section, ControlInv, ControlTypeOK,
         CallsHaveFields, shared

LEMMA ListHasBlockControl ==
  ASSUME ControlInv, NEW t \in Threads, ListHasBlock(t)
  PROVE  ControlInv'
  BY PlainStep, FieldsKept
     DEF ListHasBlock, Move, Goto, Labels, EarlyLabels, Section, ControlInv, ControlTypeOK,
         CallsHaveFields, shared

LEMMA ClaimPageControl ==
  ASSUME ControlInv, NEW t \in Threads, ClaimPage(t)
  PROVE  ControlInv'
  BY PlainStep, FieldsKept
     DEF ClaimPage, Move, Goto, Labels, EarlyLabels, Section, ControlInv, ControlTypeOK,
         CallsHaveFields, shared

LEMMA CarvePageControl ==
  ASSUME ControlInv, NEW t \in Threads, CarvePage(t)
  PROVE  ControlInv'
  BY PlainStep, FieldsKept
     DEF CarvePage, Move, Goto, Labels, EarlyLabels, Section, ControlInv, ControlTypeOK,
         CallsHaveFields, shared

LEMMA FreeLargeControl ==
  ASSUME ControlInv, NEW t \in Threads, FreeLarge(t)
  PROVE  ControlInv'
  BY PlainStep, FieldsKept
     DEF FreeLarge, Move, Goto, Labels, EarlyLabels, Section, ControlInv, ControlTypeOK,
         CallsHaveFields, shared

LEMMA ZeroPayloadControl ==
  ASSUME ControlInv, NEW t \in Threads, ZeroPayload(t)
  PROVE  ControlInv'
  BY PlainStep, FieldsKept
     DEF ZeroPayload, Move, Goto, Labels, EarlyLabels, Section, ControlInv, ControlTypeOK,
         CallsHaveFields, shared

LEMMA CopyPayloadControl ==
  ASSUME ControlInv, NEW t \in Threads, CopyPayload(t)
  PROVE  ControlInv'
  BY PlainStep, FieldsKept
     DEF CopyPayload, Move, Goto, Labels, EarlyLabels, Section, ControlInv, ControlTypeOK,
         CallsHaveFields, shared

LEMMA ResizeSubControl ==
  ASSUME ControlInv, NEW t \in Threads, ResizeSub(t)
  PROVE  ControlInv'
  BY PlainStep, FieldsKept
     DEF ResizeSub, Move, Goto, Labels, EarlyLabels, Section, ControlInv, ControlTypeOK,
         CallsHaveFields, shared

LEMMA ResizeAddControl ==
  ASSUME ControlInv, NEW t \in Threads, ResizeAdd(t)
  PROVE  ControlInv'
  BY PlainStep, FieldsKept
     DEF ResizeAdd, Move, Goto, Labels, EarlyLabels, Section, ControlInv, ControlTypeOK,
         CallsHaveFields, shared

LEMMA LargeAllocFailsControl ==
  ASSUME ControlInv, NEW t \in Threads, LargeAllocFails(t)
  PROVE  ControlInv'
  BY PlainStep, FieldsKept
     DEF LargeAllocFails, Move, Goto, Labels, EarlyLabels, Section, ControlInv, ControlTypeOK,
         CallsHaveFields, Resume, AfterMalloc, shared

LEMMA LargeAddTotmemControl ==
  ASSUME ControlInv, NEW t \in Threads, LargeAddTotmem(t)
  PROVE  ControlInv'
  BY PlainStep, FieldsKept
     DEF LargeAddTotmem, Move, Goto, Labels, EarlyLabels, Section, ControlInv, ControlTypeOK,
         CallsHaveFields, Resume, AfterMalloc, shared

LEMMA WriteHeaderControl ==
  ASSUME ControlInv, NEW t \in Threads, WriteHeader(t)
  PROVE  ControlInv'
  BY PlainStep, FieldsKept
     DEF WriteHeader, Move, Goto, Labels, EarlyLabels, Section, ControlInv, ControlTypeOK,
         CallsHaveFields, Resume, AfterMalloc, shared

LEMMA FreeSlabControl ==
  ASSUME ControlInv, NEW t \in Threads, FreeSlab(t)
  PROVE  ControlInv'
<1> DEFINE idx == get_freelist_idx(hdr[call[t].blk].size)
           l   == IF idx \in Freelists THEN "free_lock" ELSE "aborted"
<1>1. /\ call' = [call EXCEPT ![t].idx = idx]
      /\ pc[t] = "free"
      /\ pc' = [pc EXCEPT ![t] = l]
      /\ UNCHANGED <<init_state, lock>>
  BY DEF FreeSlab, Goto
<1>2. l = "free_lock" => call'[t].idx \in Freelists
  BY <1>1 DEF ControlInv, ControlTypeOK, CallsHaveFields
<1>3. CallsHaveFields' /\ \A u \in Threads \ {t} : call'[u] = call[u]
  BY <1>1, FieldsKept DEF ControlInv, ControlTypeOK, CallsHaveFields
<1>4. l \in {"free_lock", "aborted"}
  OBVIOUS
<1> HIDE DEF l, idx
<1> QED
  BY <1>1, <1>2, <1>3, <1>4, PlainStep DEF Labels, EarlyLabels, Section

LEMMA TakeFirstControl ==
  ASSUME ControlInv, NEW t \in Threads, TakeFirst(t)
  PROVE  ControlInv'
  BY UnlockStep, FieldsKept
     DEF TakeFirst, Move, Goto, Labels, Section, ControlInv, ControlTypeOK, CallsHaveFields

LEMMA FreeInsertControl ==
  ASSUME ControlInv, NEW t \in Threads, FreeInsert(t)
  PROVE  ControlInv'
  BY UnlockStep, FieldsKept
     DEF FreeInsert, Move, Goto, Labels, Section, ControlInv, ControlTypeOK, CallsHaveFields

LEMMA ClaimPageFailsControl ==
  ASSUME ControlInv, NEW t \in Threads, ClaimPageFails(t)
  PROVE  ControlInv'
  BY UnlockStep, FieldsKept
     DEF ClaimPageFails, Move, Goto, Labels, Section, ControlInv, ControlTypeOK, CallsHaveFields, Resume, AfterMalloc

--------------------------------------------------------------------------------
\* Taking a free lock.
LEMMA AcquireControl ==
  ASSUME ControlInv, NEW t \in Threads,
         NEW from \in {"lock", "free_lock"}, NEW to \in Section, Acquire(t, from, to)
  PROVE  ControlInv'
<1> USE DEF ControlInv, Acquire, Move, Goto
<1>1. init_state = 2 /\ init_state' = 2
  BY DEF NothingYet, EarlyLabels
<1>2. ControlTypeOK'
  BY DEF ControlTypeOK, Section, Labels, CallsHaveFields
<1>3. NothingYet'
  BY <1>1 DEF NothingYet
<1>4. /\ \A u \in Threads : pc'[u] = IF u = t THEN to ELSE pc[u]
      /\ call' = call
  BY DEF ControlTypeOK
<1>5. OneInits'
  BY <1>1, <1>4 DEF OneInits, Initing, Section
<1>6. HoldsLock'
  BY <1>4, ClientAssumption DEF HoldsLock, Section, ControlTypeOK, ClientAssumption
<1> QED
  BY <1>2, <1>3, <1>5, <1>6

--------------------------------------------------------------------------------
\* The steps of ensure_init.
LEMMA CompareAndSwapControl ==
  ASSUME ControlInv, NEW t \in Threads, CompareAndSwap(t)
  PROVE  ControlInv'
<1> USE DEF ControlInv, CompareAndSwap, Goto
<1>1. ControlTypeOK'
  BY DEF ControlTypeOK, Labels, CallsHaveFields
<1>2. NothingYet'
  BY DEF NothingYet, EarlyLabels, ControlTypeOK
<1>3. OneInits'
  BY DEF OneInits, Initing, ControlTypeOK
<1>4. HoldsLock'
  BY DEF HoldsLock, Section, ControlTypeOK
<1> QED
  BY <1>1, <1>2, <1>3, <1>4

LEMMA freelists_initControl ==
  ASSUME ControlInv, NEW t \in Threads, freelists_init(t)
  PROVE  ControlInv'
<1> USE DEF ControlInv, freelists_init, Move, Goto
<1>1. init_state = 1 /\ init_state' = 1
  BY DEF OneInits, Initing
<1>2. ControlTypeOK'
  BY DEF ControlTypeOK, Labels, CallsHaveFields
<1>3. NothingYet'
  BY <1>1 DEF NothingYet, EarlyLabels, ControlTypeOK
<1>4. OneInits'
  BY <1>1 DEF OneInits, Initing, ControlTypeOK
<1>5. HoldsLock'
  <2>1. \A u \in Threads : pc'[u] \in EarlyLabels
    BY <1>1, <1>3 DEF NothingYet
  <2> QED
    BY <2>1 DEF HoldsLock, Section, EarlyLabels
<1> QED
  BY <1>2, <1>3, <1>4, <1>5

\* What Dispatch does to a thread's label and bucket.
LEMMA DispatchControl ==
  ASSUME ControlTypeOK, NEW t \in Threads, Dispatch(t)
  PROVE  /\ CallsHaveFields'
         /\ \A u \in Threads \ {t} : call'[u] = call[u]
         /\ \E l \in {"os_alloc", "lock"} :
              /\ pc' = [pc EXCEPT ![t] = l]
              /\ l = "lock" => call'[t].idx \in Freelists
<1> DEFINE idx == get_freelist_idx(call[t].size)
<1>1. idx \in Freelists \cup {-1}
  BY IdxType
<1>2. CASE idx = -1
  BY <1>2, FieldsKept DEF Dispatch, Goto, ControlTypeOK
<1>3. CASE idx # -1
  <2>1. call' = [call EXCEPT ![t].idx = idx] /\ pc' = [pc EXCEPT ![t] = "lock"]
    BY <1>3 DEF Dispatch, Goto
  <2> HIDE DEF idx
  <2>2. CallsHaveFields'
    BY <2>1, FieldsKept DEF ControlTypeOK
  <2>3. call'[t].idx = idx
    BY <2>1 DEF ControlTypeOK, CallsHaveFields
  <2> QED
    BY <1>1, <1>3, <2>1, <2>2, <2>3 DEF ControlTypeOK, CallsHaveFields
<1> QED
  BY <1>2, <1>3

LEMMA InitReadyControl ==
  ASSUME ControlInv, NEW t \in Threads, InitReady(t)
  PROVE  ControlInv'
<1> USE DEF ControlInv
<1>1. init_state = 1 /\ init_state' = 2 /\ pc[t] = "init_ready" /\ lock' = lock
  BY DEF InitReady, OneInits, Initing
<1>2. PICK l \in {"os_alloc", "lock"} :
        /\ pc' = [pc EXCEPT ![t] = l]
        /\ l = "lock" => call'[t].idx \in Freelists
  BY DispatchControl DEF InitReady
<1>3. CallsHaveFields' /\ \A u \in Threads \ {t} : call'[u] = call[u]
  BY DispatchControl DEF InitReady
<1>4. ControlTypeOK'
  BY <1>1, <1>2, <1>3 DEF ControlTypeOK, Labels
<1>5. NothingYet'
  BY <1>1 DEF NothingYet
<1>6. OneInits'
  BY <1>1, <1>2 DEF OneInits, Initing, ControlTypeOK
<1>7. HoldsLock'
  BY <1>1, <1>2, <1>3 DEF HoldsLock, Section, ControlTypeOK
<1> QED
  BY <1>4, <1>5, <1>6, <1>7

LEMMA SpinEndsControl ==
  ASSUME ControlInv, NEW t \in Threads, SpinEnds(t)
  PROVE  ControlInv'
<1> USE DEF ControlInv
<1>1. init_state = 2 /\ init_state' = 2 /\ pc[t] = "init_spin" /\ lock' = lock
  BY DEF SpinEnds, shared
<1>2. PICK l \in {"os_alloc", "lock"} :
        /\ pc' = [pc EXCEPT ![t] = l]
        /\ l = "lock" => call'[t].idx \in Freelists
  BY DispatchControl DEF SpinEnds
<1>3. CallsHaveFields' /\ \A u \in Threads \ {t} : call'[u] = call[u]
  BY DispatchControl DEF SpinEnds
<1>4. ControlTypeOK'
  BY <1>1, <1>2, <1>3 DEF ControlTypeOK, Labels
<1>5. NothingYet'
  BY <1>1 DEF NothingYet
<1>6. OneInits'
  BY <1>1, <1>2 DEF OneInits, Initing, ControlTypeOK
<1>7. HoldsLock'
  BY <1>1, <1>2, <1>3 DEF HoldsLock, Section, ControlTypeOK
<1> QED
  BY <1>4, <1>5, <1>6, <1>7

--------------------------------------------------------------------------------
\* The calls of the clients and the return to them.
IsCall(c) ==
  c = [op |-> c.op, ptr |-> c.ptr, size |-> c.size, idx |-> c.idx, blk |-> c.blk,
       alloc_size |-> c.alloc_size, ret |-> c.ret]

LEMMA NewCallIsCall ==
  ASSUME NEW op, NEW ptr, NEW size, NEW c, c = NewCall(op, ptr, size)
  PROVE  IsCall(c) /\ c.ptr = ptr /\ c.ret = NULL
  BY DEF IsCall, NewCall

LEMMA IsCallSet ==
  ASSUME NEW c, IsCall(c), NEW x
  PROVE  /\ IsCall([c EXCEPT !.blk = x])
         /\ IsCall([c EXCEPT !.ret = x])
<1>1. IsCall([c EXCEPT !.blk = x])
  BY DEF IsCall
<1>2. IsCall([c EXCEPT !.ret = x])
  BY DEF IsCall
<1> QED
  BY <1>1, <1>2

LEMMA CallStep ==
  ASSUME ControlInv, NEW t \in Threads, pc[t] = "idle",
         NEW l \in {"done", "ensure_init", "free", "realloc_sub"},
         NEW c, IsCall(c),
         pc' = [pc EXCEPT ![t] = l],
         call' = [call EXCEPT ![t] = c],
         live' \subseteq live,
         UNCHANGED <<init_state, lock, mapped, hdr>>,
         init_state # 2 => l \in {"done", "ensure_init"} /\ c.ptr = NULL /\ c.ret = NULL
  PROVE  ControlInv'
<1> USE DEF ControlInv
<1>1. CallsHaveFields'
  BY DEF ControlTypeOK, CallsHaveFields, IsCall
<1>2. ControlTypeOK'
  BY <1>1 DEF ControlTypeOK, Labels
<1>3. NothingYet'
  BY DEF NothingYet, EarlyLabels, ControlTypeOK, CallsHaveFields
<1>4. OneInits'
  BY DEF OneInits, Initing, ControlTypeOK
<1>5. HoldsLock'
  BY DEF HoldsLock, Section, ControlTypeOK, CallsHaveFields
<1> QED
  BY <1>2, <1>3, <1>4, <1>5

\* The first lines of p2malloc leave the thread at ensure_init or on its way out.
LEMMA EnterControl ==
  ASSUME ControlInv, NEW t \in Threads, pc[t] = "idle",
         NEW c, IsCall(c), c.ptr = NULL \/ init_state = 2, c.ret = NULL,
         EnterMalloc(t, c), live' \subseteq live,
         UNCHANGED <<init_state, lock, mapped, hdr>>
  PROVE  ControlInv'
<1>1. call' = [call EXCEPT ![t] = c]
  BY DEF EnterMalloc
<1>2. PICK l \in {"done", "ensure_init"} : pc' = [pc EXCEPT ![t] = l]
  BY DEF EnterMalloc, Goto
<1> QED
  BY <1>1, <1>2, CallStep

LEMMA p2mallocControl ==
  ASSUME ControlInv, NEW t \in Threads, NEW size, p2malloc(t, size)
  PROVE  ControlInv'
<1> DEFINE c == NewCall("malloc", NULL, size)
<1>1. IsCall(c) /\ c.ptr = NULL /\ c.ret = NULL
  BY NewCallIsCall
<1>2. EnterMalloc(t, c) /\ pc[t] = "idle" /\ UNCHANGED shared
  BY DEF p2malloc
<1> HIDE DEF c
<1> QED
  BY <1>1, <1>2, EnterControl DEF shared

LEMMA p2callocControl ==
  ASSUME ControlInv, NEW t \in Threads, NEW nmemb, NEW size, p2calloc(t, nmemb, size)
  PROVE  ControlInv'
<1>1. pc[t] = "idle" /\ UNCHANGED shared
  BY DEF p2calloc
<1>2. CASE nmemb = 0 \/ size = 0 \/ CallocOverflows(nmemb, size)
  <2> DEFINE c == NewCall("calloc", NULL, 0)
  <2>1. IsCall(c) /\ c.ptr = NULL /\ c.ret = NULL
    BY NewCallIsCall
  <2>2. call' = [call EXCEPT ![t] = c] /\ pc' = [pc EXCEPT ![t] = "done"]
    BY <1>2 DEF p2calloc, Goto
  <2> HIDE DEF c
  <2> QED
    BY <1>1, <2>1, <2>2, CallStep DEF shared
<1>3. CASE ~(nmemb = 0 \/ size = 0 \/ CallocOverflows(nmemb, size))
  <2> DEFINE c == NewCall("calloc", NULL, Wrap(nmemb * size))
  <2>1. IsCall(c) /\ c.ptr = NULL /\ c.ret = NULL
    BY NewCallIsCall
  <2>2. EnterMalloc(t, c)
    BY <1>3 DEF p2calloc
  <2> HIDE DEF c
  <2> QED
    BY <1>1, <2>1, <2>2, EnterControl DEF shared
<1> QED
  BY <1>2, <1>3

LEMMA p2freeControl ==
  ASSUME ControlInv, NEW t \in Threads, NEW ptr, p2free(t, ptr)
  PROVE  ControlInv'
<1> DEFINE n == NewCall("free", ptr, 0)
           c == [n EXCEPT !.blk = HdrOf(ptr)]
<1>1. init_state = 2
  BY DEF p2free, ControlInv, NothingYet
<1>2. IsCall(c)
  <2>1. IsCall(n)
    BY NewCallIsCall
  <2> HIDE DEF n
  <2> QED
    BY <2>1, IsCallSet
<1>3. /\ pc[t] = "idle" /\ pc' = [pc EXCEPT ![t] = "free"]
      /\ call' = [call EXCEPT ![t] = c]
      /\ live' \subseteq live
      /\ UNCHANGED <<init_state, lock, mapped, hdr>>
  BY DEF p2free, Goto
<1> HIDE DEF c
<1> QED
  BY <1>1, <1>2, <1>3, CallStep

LEMMA p2reallocControl ==
  ASSUME ControlInv, NEW t \in Threads, NEW ptr, NEW size, p2realloc(t, ptr, size)
  PROVE  ControlInv'
<1> DEFINE c == NewCall("realloc", ptr, size)
           f == [c EXCEPT !.blk = HdrOf(ptr)]
           r == [c EXCEPT !.ret = ptr]
<1>1. /\ ptr = NULL \/ init_state = 2
      /\ pc[t] = "idle"
      /\ live' \subseteq live
      /\ UNCHANGED <<init_state, lock, mapped, hdr>>
  BY DEF p2realloc, ControlInv, NothingYet
<1>2. IsCall(c) /\ c.ptr = ptr /\ c.ret = NULL /\ IsCall(f) /\ IsCall(r)
  <2>1. IsCall(c) /\ c.ptr = ptr /\ c.ret = NULL
    BY NewCallIsCall
  <2> HIDE DEF c
  <2> QED
    BY <2>1, IsCallSet
<1>3. \/ EnterMalloc(t, c)
      \/ /\ ptr # NULL
         /\ call' = [call EXCEPT ![t] = f] /\ pc' = [pc EXCEPT ![t] = "free"]
      \/ /\ ptr # NULL
         /\ call' = [call EXCEPT ![t] = r] /\ pc' = [pc EXCEPT ![t] = "realloc_sub"]
  BY DEF p2realloc, Goto
<1> HIDE DEF c, f, r
<1> QED
  BY <1>1, <1>2, <1>3, EnterControl, CallStep

LEMMA ReturnControl ==
  ASSUME ControlInv, NEW t \in Threads, Return(t)
  PROVE  ControlInv'
<1> USE DEF ControlInv, Return, Move, Goto
<1>1. CallsHaveFields'
  BY FieldsKept DEF ControlTypeOK
<1>2. ControlTypeOK'
  BY <1>1 DEF ControlTypeOK, Labels
<1>3. NothingYet'
  BY DEF NothingYet, EarlyLabels, ControlTypeOK, CallsHaveFields, NoCall, NewCall, HandedBack
<1>4. OneInits'
  BY DEF OneInits, Initing, ControlTypeOK
<1>5. HoldsLock'
  BY DEF HoldsLock, Section, ControlTypeOK, CallsHaveFields
<1> QED
  BY <1>2, <1>3, <1>4, <1>5
--------------------------------------------------------------------------------
LEMMA ControlCall ==
  ASSUME ControlInv, NEW t \in Threads, Call(t)
  PROVE  ControlInv'
  BY p2mallocControl, p2callocControl, p2freeControl, p2reallocControl DEF Call

LEMMA ControlLocks ==
  ASSUME ControlInv, NEW t \in Threads, SlabLock(t) \/ FreeLock(t)
  PROVE  ControlInv'
  BY AcquireControl DEF SlabLock, FreeLock, Section

LEMMA ControlStutter ==
  ASSUME ControlInv, UNCHANGED vars
  PROVE  ControlInv'
<1> USE DEF ControlInv, vars
<1>1. ControlTypeOK' /\ NothingYet'
  BY DEF ControlTypeOK, CallsHaveFields, NothingYet
<1>2. OneInits' /\ HoldsLock'
  BY DEF OneInits, Initing, HoldsLock
<1> QED
  BY <1>1, <1>2

LEMMA ControlStep ==
  ASSUME ControlInv, NEW t \in Threads, Step(t)
  PROVE  ControlInv'
<1>1. CASE CompareAndSwap(t) \/ freelists_init(t) \/ InitReady(t) \/ SpinEnds(t)
  BY <1>1, CompareAndSwapControl, freelists_initControl, InitReadyControl, SpinEndsControl
<1>2. CASE Spin(t)
  BY <1>2, ControlStutter DEF Spin
<1>3. CASE LargeAlloc(t) \/ LargeAllocFails(t) \/ LargeAddAllocated(t) \/ LargeAddTotmem(t)
  BY <1>3, LargeAllocControl, LargeAllocFailsControl, LargeAddAllocatedControl,
     LargeAddTotmemControl
<1>4. CASE SlabLock(t) \/ FreeLock(t)
  BY <1>4, ControlLocks
<1>5. CASE ListHasBlock(t) \/ ClaimPage(t) \/ ClaimPageFails(t) \/ CarvePage(t)
           \/ TakeFirst(t) \/ WriteHeader(t)
  BY <1>5, ListHasBlockControl, ClaimPageControl, ClaimPageFailsControl,
     CarvePageControl, TakeFirstControl, WriteHeaderControl
<1>6. CASE FreeLarge(t) \/ SubTotmem(t) \/ Unmap(t) \/ FreeSlab(t) \/ FreeInsert(t)
  BY <1>6, FreeLargeControl, SubTotmemControl, UnmapControl, FreeSlabControl,
     FreeInsertControl
<1>7. CASE ZeroPayload(t) \/ CopyPayload(t) \/ ResizeSub(t) \/ ResizeAdd(t) \/ Return(t)
  BY <1>7, ZeroPayloadControl, CopyPayloadControl, ResizeSubControl, ResizeAddControl,
     ReturnControl
<1> QED
  BY <1>1, <1>2, <1>3, <1>4, <1>5, <1>6, <1>7 DEF Step

THEOREM ControlTheorem == Spec => []ControlInv
<1>1. Init => ControlInv
  BY ControlInit
<1>2. ControlInv /\ [Next]_vars => ControlInv'
  BY ControlCall, ControlStep, ControlStutter DEF Next
<1> QED
  BY <1>1, <1>2, PTL DEF Spec

--------------------------------------------------------------------------------
\* No two threads are inside the critical section of the same free list, for any
\* number of threads and whatever the sizes and the OS (p2malloc.c:222-238,
\* 275-277).
THEOREM MutualExclusionTheorem == Spec => []MutualExclusion
<1>1. ControlInv => MutualExclusion
  BY DEF ControlInv, HoldsLock, MutualExclusion, InSection, Section
<1> QED
  BY <1>1, ControlTheorem, PTL

\* Exactly one thread initialises the lists and nobody uses them before it is
\* done, for any number of threads that make their first call at the same time
\* (p2malloc.c:136-146).
THEOREM InitExclusiveTheorem == Spec => []InitExclusive
<1>1. ControlInv => InitExclusive
  BY DEF ControlInv, NothingYet, OneInits, Initing, EarlyLabels, InitExclusive
<1> QED
  BY <1>1, ControlTheorem, PTL

--------------------------------------------------------------------------------
(***************************************************************************)
(* The heap.                                                               *)
(***************************************************************************)
WholePages(b, n) == b % PAGE_BYTES = 0 /\ n % PAGE_BYTES = 0 /\ n > 0

\* The labels of p2malloc: on the way to a block of a bucket, and all of them.
SlabWay == {"lock", "check", "carve", "pop", "write_header"}
Asking  == SlabWay \cup {"ensure_init", "freelists_init", "init_ready", "init_spin",
                         "os_alloc", "add_allocated", "add_totmem"}

\* The labels of p2free.
FreeWay == {"free", "free_totmem", "free_unmap", "free_lock", "free_insert"}

\* What the locals c of a call mean at label l, with these lists and headers.
LocalsAt(l, c, lists, h) ==
  /\ l # "aborted"
  /\ l = "idle" => c = NoCall
  /\ l \in Asking => c.ret = NULL
  /\ l \in SlabWay => c.idx = get_freelist_idx(c.size)
  /\ l \in SlabWay \cup {"free_lock", "free_insert"} => c.idx \in Freelists
  /\ l = "carve" => c.blk \in HeapPages /\ lists[c.idx] = <<>>
  /\ l = "pop" => lists[c.idx] # <<>>
  /\ l \in {"write_header", "free_lock", "free_insert"} => c.blk \in BlockAddrs
  /\ l \in {"add_allocated", "free_totmem", "free_unmap"} =>
       c.blk \in HeapPages /\ WholePages(c.blk, c.alloc_size)
  /\ l = "add_totmem" => c.blk \in BlockAddrs
  /\ l = "zero_payload" => c.op = "calloc"
  /\ l = "copy_payload" => c.op = "realloc" /\ c.ptr # NULL /\ c.ret # NULL
  /\ l \in FreeWay /\ c.op = "realloc" => c.size = 0 \/ c.ret # NULL
  /\ l \in {"realloc_sub", "realloc_add"} =>
       /\ c.ptr # NULL /\ c.ret = c.ptr
       /\ StaysInPlace(h[HdrOf(c.ptr)], c.size)

LocalsInv == \A t \in Threads : LocalsAt(pc[t], call[t], freelists, hdr)

\* A header says truly where its block came from.
HeaderTrue(b, h) ==
  IF IS_LARGE(h) THEN b \in HeapPages /\ WholePages(b, h.alloc_size)
  ELSE get_freelist_idx(h.size) \in Freelists

HeadersInv == \A b \in DOMAIN hdr : HeaderTrue(b, hdr[b])

\* The blocks with a header that a call at label l with locals c answers for: the
\* one it was given and may yet free, and the one it is about to return.
GivenBlock(l, c) ==
  IF l = "free" THEN {c.blk}
  ELSE IF /\ c.op = "realloc" /\ c.ptr # NULL
          /\ \/ l \in Asking \cup {"copy_payload"}
             \/ l = "done" /\ c.ret = NULL /\ c.size # 0
  THEN {HdrOf(c.ptr)}
  ELSE {}

NewBlock(l, c) ==
  IF c.ret # NULL THEN {HdrOf(c.ret)}
  ELSE IF l = "add_totmem" THEN {c.blk}
  ELSE {}

CallBlocks(t) == GivenBlock(pc[t], call[t]) \cup NewBlock(pc[t], call[t])
HeldBlocks    == {HdrOf(ptr) : ptr \in live}

\* Every block with a header that somebody may use belongs to one client or call.
OwnersInv ==
  /\ HeldBlocks \subseteq DOMAIN hdr
  /\ \A t \in Threads : /\ CallBlocks(t) \subseteq DOMAIN hdr
                        /\ CallBlocks(t) \cap HeldBlocks = {}
                        /\ GivenBlock(pc[t], call[t]) \cap NewBlock(pc[t], call[t]) = {}
  /\ \A t, u \in Threads : t # u => CallBlocks(t) \cap CallBlocks(u) = {}

\* The chunks are apart, and each lies in the heap and in mapped pages.
Apart(S)  == \A c, d \in S : c = d \/ Disjoint(c, d)
Placed(c) == /\ c.base \in BlockAddrs
             /\ c.bytes \in Nat \ {0}
             /\ c.base + c.bytes <= HeapEnd
             /\ Spanned(c) \subseteq mapped

ChunksInv ==
  /\ \A i \in Freelists : IsInjective(freelists[i])
  /\ Apart(Chunks)
  /\ \A c \in Chunks : Placed(c)

HeapInv == TypeOK /\ LocalsInv /\ HeadersInv /\ OwnersInv /\ ChunksInv

--------------------------------------------------------------------------------
(***************************************************************************)
(* Sets, and sets of chunks.                                               *)
(***************************************************************************)
\* Of any sets of finite sets one has no other of them inside it.
LEMMA MinimalSubset ==
  ASSUME NEW S, IsFiniteSet(S), NEW Sets, Sets \subseteq SUBSET S, Sets # {}
  PROVE  \E T \in Sets : \A U \in Sets : ~ (U \subseteq T /\ U # T)
<1>1. IsWellFoundedOn(StrictSubsetOrdering(S), FiniteSubsetsOf(S))
  BY FS_StrictSubsetOrderingWellFounded, Zenon
<1>2. FiniteSubsetsOf(S) = SUBSET S
  BY FS_FiniteSubsetsOfFinite, Zenon
<1>3. IsWellFoundedOn(StrictSubsetOrdering(S), SUBSET S)
  BY <1>1, <1>2, Zenon
<1>4. PICK T \in Sets : \A U \in Sets : ~ (<<U, T>> \in StrictSubsetOrdering(S))
  BY <1>3, WFMin
<1> QED
  BY <1>4 DEF StrictSubsetOrdering

Extent(c) == c.base \in Int /\ c.bytes \in Nat \ {0}

\* A chunk may change hands or be cut up where it lies.
LEMMA ApartReplace ==
  ASSUME NEW S, NEW c \in S, NEW D, NEW R, R \subseteq (S \ {c}) \cup D,
         \A x \in S \cup D : Extent(x),
         Apart(S), Apart(D),
         \A d \in D : c.base <= d.base /\ d.base + d.bytes <= c.base + c.bytes
  PROVE  Apart(R)
<1> SUFFICES ASSUME NEW x \in R, NEW y \in R, x # y PROVE Disjoint(x, y)
  BY DEF Apart
<1>1. /\ x \in S \ {c} \/ x \in D
      /\ y \in S \ {c} \/ y \in D
  OBVIOUS
<1>2. CASE x \in S \ {c} /\ y \in S \ {c}
  BY <1>2 DEF Apart
<1>3. CASE x \in D /\ y \in D
  BY <1>3 DEF Apart
<1>4. CASE x \in S \ {c} /\ y \in D
  <2>1. Disjoint(x, c)
    BY <1>4 DEF Apart
  <2> QED
    BY <1>4, <2>1 DEF Disjoint, Extent
<1>5. CASE x \in D /\ y \in S \ {c}
  <2>1. Disjoint(c, y)
    BY <1>5 DEF Apart
  <2> QED
    BY <1>5, <2>1 DEF Disjoint, Extent
<1> QED
  BY <1>1, <1>2, <1>3, <1>4, <1>5

LEMMA ApartAdd ==
  ASSUME NEW S, NEW c, NEW R, R \subseteq S \cup {c}, Apart(S),
         \A d \in S : Disjoint(c, d)
  PROVE  Apart(R)
  BY DEF Apart, Disjoint

LEMMA HeapNumbers ==
  /\ PAGE_BYTES = 4096
  /\ HeapEnd \in Nat
  /\ \A page \in HeapPages : page \in Nat /\ page % 4096 = 0 /\ page >= 4096
                            /\ page + 4096 <= HeapEnd
<1>1. NPages \in Nat
  BY ClientAssumption DEF ClientAssumption
<1>2. HeapEnd = 4096 * (NPages + 1)
  BY DEF HeapEnd, PAGE_BYTES
<1>3. ASSUME NEW page \in HeapPages
      PROVE  page \in Nat /\ page % 4096 = 0 /\ page >= 4096 /\ page + 4096 <= HeapEnd
  <2>1. PICK k \in 1..NPages : page = 4096 * k
    BY DEF HeapPages, PAGE_BYTES
  <2> QED
    BY <1>1, <1>2, <2>1
<1> QED
  BY <1>1, <1>2, <1>3 DEF PAGE_BYTES

\* Every byte of the heap lies in a page.
LEMMA PageOfByte ==
  ASSUME NEW x \in Nat, x >= 4096, x < HeapEnd
  PROVE  \E page \in HeapPages : page <= x /\ x < page + 4096
<1> DEFINE k == x \div 4096
<1>1. NPages \in Nat
  BY ClientAssumption DEF ClientAssumption
<1>2. x < 4096 * (NPages + 1)
  BY DEF HeapEnd, PAGE_BYTES
<1>3. k \in 1..NPages /\ 4096 * k <= x /\ x < 4096 * k + 4096
  BY <1>1, <1>2
<1>4. 4096 * k \in HeapPages
  BY <1>3 DEF HeapPages, PAGE_BYTES
<1> HIDE DEF k
<1> QED
  BY <1>3, <1>4

LEMMA AddressRange ==
  ASSUME NEW b \in BlockAddrs
  PROVE  b \in Nat /\ b >= 4096 /\ b < HeapEnd /\ b % 32 = 0
  BY HeapNumbers, BlockSizes DEF BlockAddrs

\* Fresh pages are apart from every chunk that lies in mapped pages.
LEMMA FreshPages ==
  ASSUME NEW c, Placed(c), NEW n \in Nat, NEW page \in Room(n),
         NEW d, d.base = page, d.bytes = n
  PROVE  Disjoint(d, c)
<1> SUFFICES ASSUME ~Disjoint(d, c) PROVE FALSE
  OBVIOUS
<1>1. /\ page \in HeapPages /\ page + n <= HeapEnd /\ n > 0
      /\ PagesOf(page, n) \cap mapped = {}
  BY DEF Room
<1>2. page \in Nat /\ page >= 4096 /\ page % 4096 = 0 /\ HeapEnd \in Nat
  BY <1>1, HeapNumbers
<1>3. c.base \in Nat /\ c.base >= 4096 /\ c.base < HeapEnd /\ c.bytes \in Nat \ {0}
  BY AddressRange DEF Placed
<1>4. page < c.base + c.bytes /\ c.base < page + n
  BY <1>2, <1>3 DEF Disjoint
<1> DEFINE x == IF c.base < page THEN page ELSE c.base
<1>5. /\ x \in Nat /\ x >= 4096 /\ x < HeapEnd
      /\ page <= x /\ x < page + n /\ c.base <= x /\ x < c.base + c.bytes
  BY <1>1, <1>2, <1>3, <1>4
<1> HIDE DEF x
<1>6. PICK p \in HeapPages : p <= x /\ x < p + 4096
  BY <1>5, PageOfByte
<1>7. p \in Nat /\ p % 4096 = 0
  BY HeapNumbers
<1>8. page <= p /\ p < page + n
  BY <1>2, <1>5, <1>6, <1>7
<1>9. p \in PagesOf(page, n)
  BY <1>8 DEF PagesOf
<1>10. p \in Spanned(c)
  BY <1>3, <1>5, <1>6, <1>7, HeapNumbers DEF Spanned
<1> QED
  BY <1>1, <1>9, <1>10 DEF Placed

\* A chunk that is apart from whole pages touches none of them.
LEMMA PagesApart ==
  ASSUME NEW c, Extent(c), NEW page \in HeapPages, NEW n, WholePages(page, n), n \in Nat,
         NEW d, d.base = page, d.bytes = n, Disjoint(c, d)
  PROVE  Spanned(c) \cap PagesOf(page, n) = {}
<1> SUFFICES ASSUME NEW p \in Spanned(c), p \in PagesOf(page, n) PROVE FALSE
  OBVIOUS
<1>1. p \in Nat /\ p % 4096 = 0 /\ page \in Nat /\ page % 4096 = 0 /\ n % 4096 = 0
  BY HeapNumbers DEF Spanned, WholePages
<1>2. page <= p /\ p < page + n /\ p < c.base + c.bytes /\ c.base < p + 4096
  BY HeapNumbers DEF Spanned, PagesOf
<1>3. p + 4096 <= page + n
  BY <1>1, <1>2
<1> QED
  BY <1>1, <1>2, <1>3 DEF Disjoint, Extent

--------------------------------------------------------------------------------
(***************************************************************************)
(* ChunksInv, step by step.                                                *)
(***************************************************************************)

\* What a step of thread t leaves in hand: the others what they had, t what its
\* new label says.
LEMMA HandsAfter ==
  ASSUME ControlTypeOK, NEW t \in Threads, NEW l, pc' = [pc EXCEPT ![t] = l],
         \A u \in Threads \ {t} : call'[u] = call[u],
         NEW x \in HandChunks'
  PROVE  \/ x \in HandChunks /\ x.of # t
         \/ (InHand(t) # 0)' /\ x = Chunk("thread", t, call'[t].blk, InHand(t)')
<1>1. PICK u \in Threads : (InHand(u) # 0)' /\ x = Chunk("thread", u, call'[u].blk, InHand(u)')
  BY DEF HandChunks
<1>2. CASE u = t
  BY <1>1, <1>2
<1>3. CASE u # t
  <2>1. pc'[u] = pc[u] /\ call'[u] = call[u]
    BY <1>3 DEF ControlTypeOK
  <2>2. InHand(u)' = InHand(u)
    BY <2>1 DEF InHand
  <2>3. x = Chunk("thread", u, call[u].blk, InHand(u)) /\ InHand(u) # 0
    BY <1>1, <2>1, <2>2
  <2> QED
    BY <1>3, <2>3 DEF HandChunks, Chunk
<1> QED
  BY <1>2, <1>3

\* A chunk that changes hands or is cut up where it lies.
LEMMA ChunkMoves ==
  ASSUME ChunksInv, NEW c \in Chunks, NEW D, Chunks' \subseteq (Chunks \ {c}) \cup D,
         Apart(D), mapped' = mapped,
         \A d \in D : /\ d.base \in BlockAddrs /\ d.bytes \in Nat \ {0}
                     /\ c.base <= d.base /\ d.base + d.bytes <= c.base + c.bytes,
         \A i \in Freelists : IsInjective(freelists'[i])
  PROVE  ChunksInv'
<1>1. \A x \in Chunks \cup D : Extent(x) /\ x.base \in BlockAddrs
  BY AddressRange DEF ChunksInv, Placed, Extent
<1>2. Apart(Chunks')
  BY <1>1, ApartReplace DEF ChunksInv
<1>3. ASSUME NEW d \in D PROVE Spanned(d) \subseteq Spanned(c)
  BY <1>1, HeapNumbers DEF Spanned, Extent
<1>4. ASSUME NEW d \in D PROVE d.base + d.bytes <= HeapEnd
  <2>1. c.base + c.bytes <= HeapEnd
    BY DEF ChunksInv, Placed
  <2> QED
    BY <1>1, <2>1, HeapNumbers DEF Extent
<1>5. ASSUME NEW x \in Chunks' PROVE Placed(x)'
  <2>1. CASE x \in D
    <3>1. Spanned(x) \subseteq mapped
      BY <1>3, <2>1 DEF ChunksInv, Placed
    <3> QED
      BY <1>4, <2>1, <3>1 DEF Placed, Spanned
  <2>2. CASE x \in Chunks
    BY <2>2 DEF ChunksInv, Placed, Spanned
  <2> QED
    BY <2>1, <2>2
<1> QED
  BY <1>2, <1>5 DEF ChunksInv, Apart

\* Nothing changes hands.
LEMMA ChunksStay ==
  ASSUME ChunksInv, Chunks' \subseteq Chunks, mapped \subseteq mapped',
         \A i \in Freelists : IsInjective(freelists'[i])
  PROVE  ChunksInv'
  BY DEF ChunksInv, Apart, Placed, Spanned

\* Fresh pages join.
LEMMA ChunkJoins ==
  ASSUME ChunksInv, NEW n \in Nat, NEW page \in Room(n), page \in BlockAddrs,
         NEW d, d.base = page, d.bytes = n,
         Chunks' \subseteq Chunks \cup {d},
         mapped' = mapped \cup PagesOf(page, n),
         freelists' = freelists
  PROVE  ChunksInv'
<1>1. \A c \in Chunks : Disjoint(d, c)
  BY FreshPages DEF ChunksInv
<1>2. Apart(Chunks')
  BY <1>1, ApartAdd DEF ChunksInv
<1>3. n > 0 /\ page \in HeapPages /\ page + n <= HeapEnd
  BY DEF Room
<1>4. Spanned(d) \subseteq PagesOf(page, n)
  BY <1>3, HeapNumbers DEF Spanned, PagesOf
<1>5. ASSUME NEW c \in Chunks' PROVE Placed(c)'
  <2>1. CASE c = d
    BY <1>3, <1>4, <2>1 DEF Placed, Spanned
  <2>2. CASE c \in Chunks
    BY <2>2 DEF ChunksInv, Placed, Spanned
  <2> QED
    BY <2>1, <2>2
<1> QED
  BY <1>2, <1>5 DEF ChunksInv, Apart

LEMMA TakeFirstChunks ==
  ASSUME HeapInv, ControlInv, NEW t \in Threads, TakeFirst(t)
  PROVE  ChunksInv'
<1> DEFINE i == call[t].idx
           b == Head(freelists[i])
           c == Chunk("list", i, b, pow2(i))
           d == Chunk("thread", t, b, pow2(i))
<1>1. /\ pc[t] = "pop" /\ pc' = [pc EXCEPT ![t] = "write_header"]
      /\ call' = [call EXCEPT ![t].blk = b]
      /\ freelists' = [freelists EXCEPT ![i] = Tail(@)]
      /\ mapped' = mapped /\ hdr' = hdr
  BY DEF TakeFirst, Move, Goto
<1>2. i \in Freelists /\ freelists[i] # <<>> /\ freelists \in [Freelists -> Seq(BlockAddrs)]
  BY <1>1 DEF HeapInv, LocalsInv, LocalsAt, SlabWay, TypeOK
<1>3. /\ b \in Range(freelists[i]) /\ b \in BlockAddrs
      /\ Range(freelists'[i]) = Range(freelists[i]) \ {b}
      /\ \A j \in Freelists : IsInjective(freelists'[j])
      /\ \A j \in Freelists \ {i} : freelists'[j] = freelists[j]
  <2> DEFINE l == Tail(freelists[i])
  <2>1. \A j \in Freelists : IsInjective(freelists[j])
    BY DEF HeapInv, ChunksInv
  <2>2. freelists[i] \in Seq(BlockAddrs)
    BY <1>2
  <2>3. /\ b \in Range(freelists[i]) /\ b \in BlockAddrs
        /\ Range(l) = Range(freelists[i]) \ {b}
        /\ IsInjective(l)
    BY <1>2, <2>1, <2>2, TailNodes
  <2>4. freelists'[i] = l
    BY <1>1, <1>2
  <2> HIDE DEF l
  <2>5. \A j \in Freelists \ {i} : freelists'[j] = freelists[j]
    BY <1>1, <1>2
  <2>6. \A j \in Freelists : IsInjective(freelists'[j])
    <3> SUFFICES ASSUME NEW j \in Freelists PROVE IsInjective(freelists'[j])
      OBVIOUS
    <3>1. CASE j = i
      BY <2>3, <2>4, <3>1
    <3>2. CASE j # i
      BY <2>1, <2>5, <3>2
    <3> QED
      BY <3>1, <3>2
  <2>7. Range(freelists'[i]) = Range(freelists[i]) \ {b}
    BY ONLY <2>3, <2>4
  <2> QED
    BY ONLY <2>3, <2>5, <2>6, <2>7
<1>4. pow2(i) \in Nat \ {0}
  <2>1. i \in Freelists
    BY <1>2
  <2> HIDE DEF i
  <2> QED
    BY ONLY <2>1, BlockSizes, FreelistNumbers
<1>5. /\ call'[t].idx = i /\ call'[t].blk = b
      /\ \A u \in Threads \ {t} : call'[u] = call[u]
      /\ pc'[t] = "write_header"
  BY <1>1 DEF ControlInv, ControlTypeOK, CallsHaveFields
<1>6. c \in Chunks
  BY <1>2, <1>3 DEF Chunks, FreeChunks
<1>7. ASSUME NEW x \in Chunks' PROVE x \in (Chunks \ {c}) \cup {d}
  <2>1. CASE x \in FreeChunks'
    <3>1. PICK j \in Freelists : \E a \in Range(freelists'[j]) : x = Chunk("list", j, a, pow2(j))
      BY <2>1 DEF FreeChunks
    <3>2. PICK a \in Range(freelists'[j]) : x = Chunk("list", j, a, pow2(j))
      BY <3>1
    <3>3. a \in Range(freelists[j]) /\ (j = i => a # b)
      BY <1>3, <3>2
    <3>4. x \in FreeChunks
      BY <3>2, <3>3 DEF FreeChunks
    <3> QED
      BY <3>2, <3>3, <3>4 DEF Chunks, Chunk
  <2>2. CASE x \in UsedChunks'
    BY <1>1, <2>2 DEF Chunks, UsedChunks, Chunk
  <2>3. CASE x \in HandChunks'
    <3>1. \/ x \in HandChunks /\ x.of # t
          \/ x = Chunk("thread", t, call'[t].blk, InHand(t)')
      BY <1>1, <1>5, <2>3, HandsAfter DEF ControlInv
    <3>2. InHand(t)' = pow2(i)
      BY <1>5 DEF InHand
    <3> QED
      BY <1>5, <3>1, <3>2 DEF Chunks, HandChunks, Chunk
  <2> QED
    BY <2>1, <2>2, <2>3 DEF Chunks
<1>8. Apart({d})
  BY DEF Apart
<1>9. \A e \in {d} : /\ e.base \in BlockAddrs /\ e.bytes \in Nat \ {0}
                    /\ c.base <= e.base /\ e.base + e.bytes <= c.base + c.bytes
  BY <1>3, <1>4, AddressRange DEF Chunk
<1> HIDE DEF c, d
<1> QED
  BY <1>1, <1>3, <1>6, <1>7, <1>8, <1>9, ChunkMoves DEF HeapInv

\* A step that leaves lists, headers and hands as they are.
LEMMA ChunksQuiet ==
  ASSUME ChunksInv, ControlTypeOK, NEW t \in Threads, NEW l, pc' = [pc EXCEPT ![t] = l],
         \A u \in Threads \ {t} : call'[u] = call[u],
         InHand(t)' = InHand(t), InHand(t) # 0 => call'[t].blk = call[t].blk,
         freelists' = freelists, hdr' = hdr, mapped \subseteq mapped'
  PROVE  ChunksInv'
<1>1. FreeChunks' = FreeChunks /\ UsedChunks' = UsedChunks
  BY DEF FreeChunks, UsedChunks
<1>2. ASSUME NEW x \in HandChunks' PROVE x \in HandChunks
  <2>1. \/ x \in HandChunks
        \/ InHand(t) # 0 /\ x = Chunk("thread", t, call[t].blk, InHand(t))
    BY <1>2, HandsAfter
  <2> QED
    BY <2>1 DEF HandChunks
<1>3. Chunks' \subseteq Chunks
  BY <1>1, <1>2 DEF Chunks
<1> QED
  BY <1>3, ChunksStay DEF ChunksInv

\* The block in hand gets its header.
LEMMA ChunkGetsHeader ==
  ASSUME ChunksInv, ControlTypeOK, NEW t \in Threads, NEW l, pc' = [pc EXCEPT ![t] = l],
         \A u \in Threads \ {t} : call'[u] = call[u],
         InHand(t) # 0, InHand(t)' = 0,
         NEW h, BlockBytes(h) = InHand(t), hdr' = WithHeader(call[t].blk, h),
         UNCHANGED <<freelists, mapped>>
  PROVE  ChunksInv'
<1> DEFINE b == call[t].blk
           c == Chunk("thread", t, b, InHand(t))
           d == Chunk("header", NoThread, b, InHand(t))
<1>1. c \in Chunks
  BY DEF Chunks, HandChunks
<1>2. c.base \in BlockAddrs /\ c.bytes \in Nat \ {0} /\ c.base = b /\ c.bytes = InHand(t)
  BY <1>1 DEF ChunksInv, Placed, Chunk
<1>3. ASSUME NEW x \in Chunks' PROVE x \in (Chunks \ {c}) \cup {d}
  <2>1. CASE x \in FreeChunks'
    BY <2>1 DEF Chunks, FreeChunks, Chunk
  <2>2. CASE x \in UsedChunks'
    <3>1. PICK a \in DOMAIN hdr' : x = Chunk("header", NoThread, a, BlockBytes(hdr'[a]))
      BY <2>2 DEF UsedChunks, BlockBytes, IS_LARGE
    <3>2. CASE a = b
      <4>1. hdr'[a] = h
        BY <3>1, <3>2 DEF WithHeader
      <4> QED
        BY <3>1, <3>2, <4>1
    <3>3. CASE a # b
      <4>1. a \in DOMAIN hdr /\ hdr'[a] = hdr[a]
        BY <3>1, <3>3 DEF WithHeader
      <4> QED
        BY <3>1, <4>1 DEF Chunks, UsedChunks, Chunk
    <3> QED
      BY <3>2, <3>3
  <2>3. CASE x \in HandChunks'
    <3>1. x \in HandChunks /\ x.of # t
      BY <2>3, HandsAfter
    <3> QED
      BY <3>1 DEF Chunks, Chunk
  <2> QED
    BY <2>1, <2>2, <2>3 DEF Chunks
<1>4. Apart({d})
  BY DEF Apart
<1>5. \A e \in {d} : /\ e.base \in BlockAddrs /\ e.bytes \in Nat \ {0}
                    /\ c.base <= e.base /\ e.base + e.bytes <= c.base + c.bytes
  BY <1>2, AddressRange DEF Chunk
<1> HIDE DEF c, d
<1> QED
  BY <1>1, <1>3, <1>4, <1>5, ChunkMoves DEF ChunksInv

\* A block gives up its header and is in hand.
LEMMA ChunkLosesHeader ==
  ASSUME ChunksInv, ControlTypeOK, NEW t \in Threads, NEW l, pc' = [pc EXCEPT ![t] = l],
         \A u \in Threads \ {t} : call'[u] = call[u],
         NEW b \in DOMAIN hdr, InHand(t)' = BlockBytes(hdr[b]), call'[t].blk = b,
         hdr' = WithoutHeader(b),
         UNCHANGED <<freelists, mapped>>
  PROVE  ChunksInv'
<1> DEFINE c == Chunk("header", NoThread, b, BlockBytes(hdr[b]))
           d == Chunk("thread", t, b, BlockBytes(hdr[b]))
<1>1. c \in Chunks
  BY DEF Chunks, UsedChunks
<1>2. c.base \in BlockAddrs /\ c.bytes \in Nat \ {0} /\ c.base = b /\ c.bytes = BlockBytes(hdr[b])
  BY <1>1 DEF ChunksInv, Placed, Chunk
<1>3. ASSUME NEW x \in Chunks' PROVE x \in (Chunks \ {c}) \cup {d}
  <2>1. CASE x \in FreeChunks'
    BY <2>1 DEF Chunks, FreeChunks, Chunk
  <2>2. CASE x \in UsedChunks'
    <3>1. PICK a \in DOMAIN hdr' : x = Chunk("header", NoThread, a, BlockBytes(hdr'[a]))
      BY <2>2 DEF UsedChunks, BlockBytes, IS_LARGE
    <3>2. a \in DOMAIN hdr /\ a # b /\ hdr'[a] = hdr[a]
      BY <3>1 DEF WithoutHeader
    <3> QED
      BY <3>1, <3>2 DEF Chunks, UsedChunks, Chunk
  <2>3. CASE x \in HandChunks'
    <3>1. (x \in HandChunks /\ x.of # t) \/ x = d
      BY <2>3, HandsAfter
    <3> QED
      BY <3>1 DEF Chunks, HandChunks, Chunk
  <2> QED
    BY <2>1, <2>2, <2>3 DEF Chunks
<1>4. Apart({d})
  BY DEF Apart
<1>5. \A e \in {d} : /\ e.base \in BlockAddrs /\ e.bytes \in Nat \ {0}
                    /\ c.base <= e.base /\ e.base + e.bytes <= c.base + c.bytes
  BY <1>2, AddressRange DEF Chunk
<1> HIDE DEF c, d
<1> QED
  BY <1>1, <1>3, <1>4, <1>5, ChunkMoves DEF ChunksInv

\* Lists and headers stay, only t's hand changes.
LEMMA HandTakes ==
  ASSUME ControlTypeOK, NEW t \in Threads, NEW l, pc' = [pc EXCEPT ![t] = l],
         \A u \in Threads \ {t} : call'[u] = call[u],
         UNCHANGED <<freelists, hdr>>
  PROVE  Chunks' \subseteq Chunks \cup {Chunk("thread", t, call'[t].blk, InHand(t)')}
<1>1. FreeChunks' = FreeChunks /\ UsedChunks' = UsedChunks
  BY DEF FreeChunks, UsedChunks
<1>2. ASSUME NEW x \in HandChunks'
      PROVE  x \in HandChunks \/ x = Chunk("thread", t, call'[t].blk, InHand(t)')
  BY <1>2, HandsAfter
<1> QED
  BY <1>1, <1>2 DEF Chunks

\* Pages fresh from the OS come into hand.
LEMMA ChunkFromOS ==
  ASSUME ChunksInv, ControlTypeOK, NEW t \in Threads, NEW l, pc' = [pc EXCEPT ![t] = l],
         \A u \in Threads \ {t} : call'[u] = call[u],
         NEW n \in Nat, NEW page \in Room(n),
         InHand(t)' = n, call'[t].blk = page,
         mapped' = mapped \cup PagesOf(page, n),
         UNCHANGED <<freelists, hdr>>
  PROVE  ChunksInv'
<1> DEFINE d == Chunk("thread", t, page, n)
<1>1. page \in HeapPages
  BY DEF Room
<1>2. page \in BlockAddrs
  BY <1>1, HeapNumbers, BlockSizes DEF BlockAddrs
<1>3. Chunks' \subseteq Chunks \cup {d}
  BY HandTakes
<1>4. d.base = page /\ d.bytes = n
  BY DEF Chunk
<1> HIDE DEF d
<1> QED
  BY <1>2, <1>3, <1>4, ChunkJoins

\* Pages in hand go back to the OS.
LEMMA ChunkToOS ==
  ASSUME ChunksInv, ControlTypeOK, NEW t \in Threads, NEW l, pc' = [pc EXCEPT ![t] = l],
         \A u \in Threads \ {t} : call'[u] = call[u],
         InHand(t) # 0, InHand(t)' = 0,
         call[t].blk \in HeapPages, WholePages(call[t].blk, InHand(t)),
         mapped' = mapped \ PagesOf(call[t].blk, InHand(t)),
         UNCHANGED <<freelists, hdr>>
  PROVE  ChunksInv'
<1> DEFINE d == Chunk("thread", t, call[t].blk, InHand(t))
<1>1. d \in Chunks
  BY DEF Chunks, HandChunks
<1>2. d.base = call[t].blk /\ d.bytes = InHand(t) /\ InHand(t) \in Nat
  BY <1>1 DEF ChunksInv, Placed, Chunk
<1>3. ASSUME NEW x \in Chunks' PROVE x \in Chunks /\ x # d
  <2>1. CASE x \in FreeChunks'
    BY <2>1 DEF Chunks, FreeChunks, Chunk
  <2>2. CASE x \in UsedChunks'
    BY <2>2 DEF Chunks, UsedChunks, Chunk
  <2>3. CASE x \in HandChunks'
    <3>1. x \in HandChunks /\ x.of # t
      BY <2>3, HandsAfter
    <3> QED
      BY <3>1 DEF Chunks, Chunk
  <2> QED
    BY <2>1, <2>2, <2>3 DEF Chunks
<1> HIDE DEF d
<1>4. ASSUME NEW x \in Chunks' PROVE Placed(x)'
  <2>1. Placed(x) /\ Disjoint(x, d) /\ Extent(x)
    BY <1>1, <1>3, AddressRange DEF ChunksInv, Apart, Placed, Extent
  <2>2. Spanned(x) \cap PagesOf(call[t].blk, InHand(t)) = {}
    BY <1>2, <2>1, PagesApart
  <2> QED
    BY <2>1, <2>2 DEF Placed, Spanned
<1>5. Apart(Chunks')
  BY <1>3 DEF ChunksInv, Apart
<1> QED
  BY <1>4, <1>5 DEF ChunksInv, Apart

--------------------------------------------------------------------------------
(***************************************************************************)
(* One thread's step.                                                      *)
(***************************************************************************)
\* Thread t goes to label l with locals c.
StepTo(t, l, c) ==
  /\ pc' = [pc EXCEPT ![t] = l]
  /\ call' = [call EXCEPT ![t] = c]

LEMMA AfterStep ==
  ASSUME TypeOK, NEW t \in Threads, NEW l, NEW c, StepTo(t, l, c)
  PROVE  /\ pc'[t] = l /\ call'[t] = c
         /\ \A u \in Threads \ {t} : pc'[u] = pc[u] /\ call'[u] = call[u]
  BY DEF TypeOK, StepTo

\* The locals after an assignment to some of them.
LEMMA IdxSet ==
  ASSUME NEW c \in Calls, NEW x, NEW d, d = [c EXCEPT !.idx = x]
  PROVE  /\ d.op = c.op /\ d.ptr = c.ptr /\ d.size = c.size /\ d.idx = x
         /\ d.blk = c.blk /\ d.alloc_size = c.alloc_size /\ d.ret = c.ret
         /\ x \in Freelists \cup {-1} => d \in Calls
  BY DEF Calls

LEMMA BlkSet ==
  ASSUME NEW c \in Calls, NEW x, NEW d, d = [c EXCEPT !.blk = x]
  PROVE  /\ d.op = c.op /\ d.ptr = c.ptr /\ d.size = c.size /\ d.idx = c.idx
         /\ d.blk = x /\ d.alloc_size = c.alloc_size /\ d.ret = c.ret
         /\ x \in BlockAddrs \cup {NULL} => d \in Calls
  BY DEF Calls

LEMMA AllocSizeSet ==
  ASSUME NEW c \in Calls, NEW x, NEW d, d = [c EXCEPT !.alloc_size = x]
  PROVE  /\ d.op = c.op /\ d.ptr = c.ptr /\ d.size = c.size /\ d.idx = c.idx
         /\ d.blk = c.blk /\ d.alloc_size = x /\ d.ret = c.ret
         /\ x \in SizeT => d \in Calls
  BY DEF Calls

LEMMA RetSet ==
  ASSUME NEW c \in Calls, NEW x, NEW d, d = [c EXCEPT !.ret = x]
  PROVE  /\ d.op = c.op /\ d.ptr = c.ptr /\ d.size = c.size /\ d.idx = c.idx
         /\ d.blk = c.blk /\ d.alloc_size = c.alloc_size /\ d.ret = x
         /\ x \in Pointers \cup {NULL} => d \in Calls
  BY DEF Calls

\* TypeOK but for pc and call.
SharedTypeOK ==
  /\ init_state \in 0..2
  /\ freelists \in [Freelists -> Seq(BlockAddrs)]
  /\ lock \in [Freelists -> Threads \cup {NoThread}]
  /\ allocated \in SizeT
  /\ totmem \in SizeT
  /\ mapped \subseteq HeapPages
  /\ DOMAIN hdr \subseteq BlockAddrs
  /\ \A b \in DOMAIN hdr : hdr[b] \in Headers
  /\ live \subseteq Pointers

LEMMA TypeAfter ==
  ASSUME TypeOK, NEW t \in Threads, NEW l \in Labels, NEW c \in Calls, StepTo(t, l, c),
         SharedTypeOK'
  PROVE  TypeOK'
  BY DEF TypeOK, SharedTypeOK, StepTo

\* The locals of the others mean what they meant: the step changes no list under
\* another thread's lock and no header of a block that another call answers for.
LEMMA LocalsAfter ==
  ASSUME HeapInv, NEW t \in Threads, NEW l, NEW c, StepTo(t, l, c),
         LocalsAt(l, c, freelists', hdr'),
         \A u \in Threads \ {t} :
           pc[u] \in {"carve", "pop"} => freelists'[call[u].idx] = freelists[call[u].idx],
         \A u \in Threads \ {t} : \A b \in CallBlocks(u) : hdr'[b] = hdr[b]
  PROVE  LocalsInv'
<1> SUFFICES ASSUME NEW u \in Threads PROVE LocalsAt(pc'[u], call'[u], freelists', hdr')
  BY DEF LocalsInv
<1>1. CASE u = t
  BY <1>1, AfterStep DEF HeapInv
<1>2. CASE u # t
  <2>1. pc'[u] = pc[u] /\ call'[u] = call[u]
    BY <1>2, AfterStep DEF HeapInv
  <2>2. LocalsAt(pc[u], call[u], freelists, hdr)
    BY DEF HeapInv, LocalsInv
  <2>3. pc[u] \in {"carve", "pop"} => freelists'[call[u].idx] = freelists[call[u].idx]
    BY <1>2
  <2>4. pc[u] \in {"realloc_sub", "realloc_add"} =>
          hdr'[HdrOf(call[u].ptr)] = hdr[HdrOf(call[u].ptr)]
    <3> SUFFICES ASSUME pc[u] \in {"realloc_sub", "realloc_add"}
                 PROVE  HdrOf(call[u].ptr) \in CallBlocks(u)
      BY <1>2
    <3> QED
      BY <2>2 DEF LocalsAt, CallBlocks, NewBlock
  <2> QED
    BY <2>1, <2>2, <2>3, <2>4 DEF LocalsAt
<1> QED
  BY <1>1, <1>2

\* Blocks pass between the call of t and the clients; new ones had no header.
LEMMA OwnersAfter ==
  ASSUME TypeOK, OwnersInv, NEW t \in Threads, NEW l, NEW c, StepTo(t, l, c),
         GivenBlock(l, c) \cup NewBlock(l, c) \subseteq DOMAIN hdr',
         GivenBlock(l, c) \cap NewBlock(l, c) = {},
         \A b \in GivenBlock(l, c) \cup NewBlock(l, c) :
           b \notin HeldBlocks' /\ (b \in CallBlocks(t) \/ b \in HeldBlocks \/ b \notin DOMAIN hdr),
         HeldBlocks' \subseteq HeldBlocks \cup CallBlocks(t),
         HeldBlocks' \subseteq DOMAIN hdr',
         DOMAIN hdr \ DOMAIN hdr' \subseteq CallBlocks(t)
  PROVE  OwnersInv'
<1> DEFINE mine == GivenBlock(l, c) \cup NewBlock(l, c)
<1>1. /\ CallBlocks(t)' = mine
      /\ \A u \in Threads \ {t} :
           /\ CallBlocks(u)' = CallBlocks(u)
           /\ pc'[u] = pc[u] /\ call'[u] = call[u]
      /\ pc'[t] = l /\ call'[t] = c
  BY AfterStep DEF CallBlocks
<1> HIDE DEF mine
<1>2. \A u \in Threads \ {t} : CallBlocks(u) \cap mine = {}
  BY DEF OwnersInv, mine
<1>3. \A u \in Threads \ {t} : /\ CallBlocks(u) \subseteq DOMAIN hdr'
                               /\ CallBlocks(u) \cap HeldBlocks' = {}
  BY DEF OwnersInv
<1>4. /\ mine \subseteq DOMAIN hdr' /\ mine \cap HeldBlocks' = {}
      /\ HeldBlocks' \subseteq DOMAIN hdr'
  BY DEF mine
<1>5. ASSUME NEW u \in Threads
      PROVE  /\ CallBlocks(u)' \subseteq DOMAIN hdr'
             /\ CallBlocks(u)' \cap HeldBlocks' = {}
             /\ GivenBlock(pc'[u], call'[u]) \cap NewBlock(pc'[u], call'[u]) = {}
  BY <1>1, <1>3, <1>4 DEF OwnersInv
<1>6. ASSUME NEW u \in Threads, NEW v \in Threads, u # v
      PROVE  CallBlocks(u)' \cap CallBlocks(v)' = {}
  <2>1. CASE u = t
    BY <1>1, <1>2, <1>6, <2>1
  <2>2. CASE v = t
    BY <1>1, <1>2, <1>6, <2>2
  <2>3. CASE u # t /\ v # t
    BY <1>1, <1>6, <2>3 DEF OwnersInv
  <2> QED
    BY <2>1, <2>2, <2>3
<1> QED
  BY <1>4, <1>5, <1>6 DEF OwnersInv

--------------------------------------------------------------------------------
(***************************************************************************)
(* The steps that leave lists, headers and pages alone.                    *)
(***************************************************************************)
HandAt(l, c) ==
  IF l = "carve" THEN PAGE_BYTES
  ELSE IF l \in {"write_header", "free_lock", "free_insert"} THEN pow2(c.idx)
  ELSE IF l \in {"add_allocated", "free_totmem", "free_unmap"} THEN c.alloc_size
  ELSE 0

LEMMA HandAfter ==
  ASSUME TypeOK, NEW t \in Threads, NEW l, NEW c, StepTo(t, l, c)
  PROVE  InHand(t) = HandAt(pc[t], call[t]) /\ InHand(t)' = HandAt(l, c)
  BY AfterStep DEF InHand, HandAt

\* A step keeps the headers and lets t answer for no more blocks than before.
LEMMA QuietStep ==
  ASSUME HeapInv, ControlInv, NEW t \in Threads, NEW l \in Labels, NEW c \in Calls,
         StepTo(t, l, c),
         init_state' \in 0..2, lock' \in [Freelists -> Threads \cup {NoThread}],
         allocated' \in SizeT, totmem' \in SizeT,
         UNCHANGED <<freelists, mapped, hdr, live>>,
         LocalsAt(l, c, freelists, hdr),
         HandAt(l, c) = HandAt(pc[t], call[t]), HandAt(l, c) # 0 => c.blk = call[t].blk,
         GivenBlock(l, c) \cup NewBlock(l, c) \subseteq CallBlocks(t),
         GivenBlock(l, c) \cap NewBlock(l, c) = {}
  PROVE  HeapInv'
<1>1. TypeOK'
  <2>1. SharedTypeOK'
    BY DEF HeapInv, TypeOK, SharedTypeOK
  <2> QED
    BY <2>1, TypeAfter DEF HeapInv
<1>2. LocalsInv'
  BY LocalsAfter
<1>3. HeadersInv'
  BY DEF HeapInv, HeadersInv
<1>4. OwnersInv'
  <2>1. HeldBlocks' = HeldBlocks
    BY DEF HeldBlocks
  <2> QED
    BY <2>1, OwnersAfter DEF HeapInv, OwnersInv
<1>5. ChunksInv'
  <2>1. InHand(t)' = InHand(t) /\ (InHand(t) # 0 => call'[t].blk = call[t].blk)
    BY HandAfter, AfterStep DEF HeapInv
  <2>2. \A u \in Threads \ {t} : call'[u] = call[u]
    BY AfterStep DEF HeapInv
  <2> QED
    BY <2>1, <2>2, ChunksQuiet DEF HeapInv, ControlInv, StepTo
<1> QED
  BY <1>1, <1>2, <1>3, <1>4, <1>5 DEF HeapInv

LEMMA SameCall ==
  ASSUME TypeOK, NEW t \in Threads, NEW l, Goto(t, l), call' = call
  PROVE  StepTo(t, l, call[t]) /\ call[t] \in Calls
  BY DEF TypeOK, StepTo, Goto

LEMMA SlabLockHeap ==
  ASSUME HeapInv, ControlInv, NEW t \in Threads, SlabLock(t)
  PROVE  HeapInv'
<1> DEFINE c == call[t]
<1>1. /\ pc[t] = "lock"
      /\ StepTo(t, "check", c) /\ c \in Calls
      /\ lock' = [lock EXCEPT ![c.idx] = t]
      /\ UNCHANGED <<init_state, freelists, allocated, totmem, mapped, hdr, live>>
  BY SameCall DEF SlabLock, Acquire, Move, HeapInv
<1>2. LocalsAt("lock", c, freelists, hdr)
  BY <1>1 DEF HeapInv, LocalsInv
<1>3. LocalsAt("check", c, freelists, hdr)
  BY <1>2 DEF LocalsAt, Asking, SlabWay, FreeWay
<1>4. /\ GivenBlock("check", c) = GivenBlock("lock", c)
      /\ NewBlock("check", c) = NewBlock("lock", c)
  BY DEF GivenBlock, NewBlock, Asking, SlabWay
<1>5. HandAt("check", c) = 0 /\ HandAt("lock", c) = 0
  BY DEF HandAt
<1>6. GivenBlock("lock", c) \cap NewBlock("lock", c) = {}
  BY <1>1 DEF HeapInv, OwnersInv
<1>7. lock' \in [Freelists -> Threads \cup {NoThread}]
  BY <1>1 DEF HeapInv, TypeOK
<1> QED
  BY <1>1, <1>3, <1>4, <1>5, <1>6, <1>7, QuietStep DEF HeapInv, TypeOK, CallBlocks, Labels

LEMMA FreeLockHeap ==
  ASSUME HeapInv, ControlInv, NEW t \in Threads, FreeLock(t)
  PROVE  HeapInv'
<1> DEFINE c == call[t]
<1>1. /\ pc[t] = "free_lock"
      /\ StepTo(t, "free_insert", c) /\ c \in Calls
      /\ lock' = [lock EXCEPT ![c.idx] = t]
      /\ UNCHANGED <<init_state, freelists, allocated, totmem, mapped, hdr, live>>
  BY SameCall DEF FreeLock, Acquire, Move, HeapInv, shared
<1>2. LocalsAt("free_lock", c, freelists, hdr)
  BY <1>1 DEF HeapInv, LocalsInv
<1>3. LocalsAt("free_insert", c, freelists, hdr)
  BY <1>1, <1>2 DEF LocalsAt, Asking, SlabWay, FreeWay
<1>4. /\ GivenBlock("free_insert", c) = GivenBlock("free_lock", c)
      /\ NewBlock("free_insert", c) = NewBlock("free_lock", c)
  BY <1>2 DEF LocalsAt, GivenBlock, NewBlock, Asking, SlabWay, FreeWay
<1>5. HandAt("free_insert", c) = HandAt("free_lock", c)
  BY DEF HandAt
<1>6. GivenBlock("free_lock", c) \cap NewBlock("free_lock", c) = {}
  BY <1>1 DEF HeapInv, OwnersInv
<1>7. lock' \in [Freelists -> Threads \cup {NoThread}]
  BY <1>1 DEF HeapInv, TypeOK
<1> QED
  BY <1>1, <1>3, <1>4, <1>5, <1>6, <1>7, QuietStep DEF HeapInv, TypeOK, CallBlocks, Labels

LEMMA ListHasBlockHeap ==
  ASSUME HeapInv, ControlInv, NEW t \in Threads, ListHasBlock(t)
  PROVE  HeapInv'
<1> DEFINE c == call[t]
<1>1. /\ pc[t] = "check"
      /\ StepTo(t, "pop", c) /\ c \in Calls
      /\ freelists[c.idx] # <<>>
      /\ UNCHANGED <<init_state, freelists, lock, allocated, totmem, mapped, hdr, live>>
  BY SameCall DEF ListHasBlock, Move, HeapInv, shared
<1>2. LocalsAt("check", c, freelists, hdr)
  BY <1>1 DEF HeapInv, LocalsInv
<1>3. LocalsAt("pop", c, freelists, hdr)
  BY <1>1, <1>2 DEF LocalsAt, Asking, SlabWay, FreeWay
<1>4. /\ GivenBlock("pop", c) = GivenBlock("check", c)
      /\ NewBlock("pop", c) = NewBlock("check", c)
  BY <1>2 DEF LocalsAt, GivenBlock, NewBlock, Asking, SlabWay, FreeWay
<1>5. HandAt("pop", c) = HandAt("check", c)
  BY DEF HandAt
<1>6. GivenBlock("check", c) \cap NewBlock("check", c) = {}
  BY <1>1 DEF HeapInv, OwnersInv
<1> QED
  BY <1>1, <1>3, <1>4, <1>5, <1>6, QuietStep DEF HeapInv, TypeOK, CallBlocks, Labels

LEMMA ZeroPayloadHeap ==
  ASSUME HeapInv, ControlInv, NEW t \in Threads, ZeroPayload(t)
  PROVE  HeapInv'
<1> DEFINE c == call[t]
<1>1. /\ pc[t] = "zero_payload"
      /\ StepTo(t, "done", c) /\ c \in Calls
      /\ UNCHANGED <<init_state, freelists, lock, allocated, totmem, mapped, hdr, live>>
  BY SameCall DEF ZeroPayload, Move, HeapInv, shared
<1>2. LocalsAt("zero_payload", c, freelists, hdr)
  BY <1>1 DEF HeapInv, LocalsInv
<1>3. LocalsAt("done", c, freelists, hdr)
  BY <1>1, <1>2 DEF LocalsAt, Asking, SlabWay, FreeWay
<1>4. /\ GivenBlock("done", c) = GivenBlock("zero_payload", c)
      /\ NewBlock("done", c) = NewBlock("zero_payload", c)
  BY <1>2 DEF LocalsAt, GivenBlock, NewBlock, Asking, SlabWay, FreeWay
<1>5. HandAt("done", c) = HandAt("zero_payload", c)
  BY DEF HandAt
<1>6. GivenBlock("zero_payload", c) \cap NewBlock("zero_payload", c) = {}
  BY <1>1 DEF HeapInv, OwnersInv
<1> QED
  BY <1>1, <1>3, <1>4, <1>5, <1>6, QuietStep DEF HeapInv, TypeOK, CallBlocks, Labels

LEMMA SubTotmemHeap ==
  ASSUME HeapInv, ControlInv, NEW t \in Threads, SubTotmem(t)
  PROVE  HeapInv'
<1> DEFINE c == call[t]
<1>1. /\ pc[t] = "free_totmem"
      /\ StepTo(t, "free_unmap", c) /\ c \in Calls
      /\ totmem' = Wrap(totmem - c.alloc_size)
      /\ UNCHANGED <<init_state, freelists, lock, allocated, mapped, hdr, live>>
  BY SameCall DEF SubTotmem, Move, HeapInv, shared
<1>2. LocalsAt("free_totmem", c, freelists, hdr)
  BY <1>1 DEF HeapInv, LocalsInv
<1>3. LocalsAt("free_unmap", c, freelists, hdr)
  BY <1>1, <1>2 DEF LocalsAt, Asking, SlabWay, FreeWay
<1>4. /\ GivenBlock("free_unmap", c) = GivenBlock("free_totmem", c)
      /\ NewBlock("free_unmap", c) = NewBlock("free_totmem", c)
  BY <1>2 DEF LocalsAt, GivenBlock, NewBlock, Asking, SlabWay, FreeWay
<1>5. HandAt("free_unmap", c) = HandAt("free_totmem", c)
  BY DEF HandAt
<1>6. GivenBlock("free_totmem", c) \cap NewBlock("free_totmem", c) = {}
  BY <1>1 DEF HeapInv, OwnersInv
<1>7. totmem' \in SizeT
  BY <1>1, WrapType DEF HeapInv, TypeOK, SizeT, Calls
<1> QED
  BY <1>1, <1>3, <1>4, <1>5, <1>6, <1>7, QuietStep DEF HeapInv, TypeOK, CallBlocks, Labels

LEMMA ResizeSubHeap ==
  ASSUME HeapInv, ControlInv, NEW t \in Threads, ResizeSub(t)
  PROVE  HeapInv'
<1> DEFINE c == call[t]
<1>1. /\ pc[t] = "realloc_sub"
      /\ StepTo(t, "realloc_add", c) /\ c \in Calls
      /\ allocated' = Wrap(allocated - hdr[HdrOf(c.ptr)].size)
      /\ UNCHANGED <<init_state, freelists, lock, totmem, mapped, hdr, live>>
  BY SameCall DEF ResizeSub, Move, HeapInv, shared
<1>2. LocalsAt("realloc_sub", c, freelists, hdr)
  BY <1>1 DEF HeapInv, LocalsInv
<1>3. LocalsAt("realloc_add", c, freelists, hdr)
  BY <1>1, <1>2 DEF LocalsAt, Asking, SlabWay, FreeWay
<1>4. /\ GivenBlock("realloc_add", c) = GivenBlock("realloc_sub", c)
      /\ NewBlock("realloc_add", c) = NewBlock("realloc_sub", c)
  BY <1>2 DEF LocalsAt, GivenBlock, NewBlock, Asking, SlabWay, FreeWay
<1>5. HandAt("realloc_add", c) = HandAt("realloc_sub", c)
  BY DEF HandAt
<1>6. GivenBlock("realloc_sub", c) \cap NewBlock("realloc_sub", c) = {}
  BY <1>1 DEF HeapInv, OwnersInv
<1>7. allocated' \in SizeT
  <2>1. HdrOf(c.ptr) \in DOMAIN hdr
    BY <1>1, <1>2 DEF LocalsAt, HeapInv, OwnersInv, CallBlocks, NewBlock
  <2>2. hdr[HdrOf(c.ptr)].size \in Int /\ allocated \in Int
    BY <2>1 DEF HeapInv, TypeOK, Headers, SizeT
  <2> QED
    BY <1>1, <2>2, WrapType
<1> QED
  BY <1>1, <1>3, <1>4, <1>5, <1>6, <1>7, QuietStep DEF HeapInv, TypeOK, CallBlocks, Labels

LEMMA CompareAndSwapHeap ==
  ASSUME HeapInv, ControlInv, NEW t \in Threads, CompareAndSwap(t)
  PROVE  HeapInv'
<1> DEFINE c == call[t]
<1>1. PICK l \in {"freelists_init", "init_spin"} : StepTo(t, l, c)
  BY SameCall DEF CompareAndSwap, HeapInv
<1>2. /\ pc[t] = "ensure_init" /\ c \in Calls /\ init_state' \in 0..2
      /\ UNCHANGED <<freelists, lock, allocated, totmem, mapped, hdr, live>>
  BY DEF CompareAndSwap, HeapInv, TypeOK
<1>3. LocalsAt("ensure_init", c, freelists, hdr)
  BY <1>2 DEF HeapInv, LocalsInv
<1>4. LocalsAt(l, c, freelists, hdr)
  BY <1>3 DEF LocalsAt, Asking, SlabWay, FreeWay
<1>5. /\ GivenBlock(l, c) = GivenBlock("ensure_init", c)
      /\ NewBlock(l, c) = NewBlock("ensure_init", c)
  BY DEF GivenBlock, NewBlock, Asking, SlabWay
<1>6. HandAt(l, c) = 0 /\ HandAt("ensure_init", c) = 0
  BY DEF HandAt
<1>7. GivenBlock("ensure_init", c) \cap NewBlock("ensure_init", c) = {}
  BY <1>2 DEF HeapInv, OwnersInv
<1> QED
  BY <1>1, <1>2, <1>4, <1>5, <1>6, <1>7, QuietStep DEF HeapInv, TypeOK, CallBlocks, Labels

\* Past ensure_init.
LEMMA DispatchHeap ==
  ASSUME HeapInv, ControlInv, NEW t \in Threads, NEW from \in {"init_ready", "init_spin"},
         pc[t] = from, Dispatch(t), init_state' \in 0..2,
         UNCHANGED <<freelists, lock, allocated, totmem, mapped, hdr, live>>
  PROVE  HeapInv'
<1> DEFINE idx == get_freelist_idx(call[t].size)
           d   == [call[t] EXCEPT !.idx = idx]
<1>1. idx \in Freelists \cup {-1} /\ call[t] \in Calls
  BY IdxType DEF HeapInv, TypeOK
<1>2. LocalsAt(from, call[t], freelists, hdr)
  BY DEF HeapInv, LocalsInv
<1>3. GivenBlock(from, call[t]) \cap NewBlock(from, call[t]) = {}
  BY DEF HeapInv, OwnersInv
<1>4. CASE idx = -1
  <2>1. StepTo(t, "os_alloc", call[t])
    BY <1>4, SameCall DEF Dispatch, HeapInv
  <2>2. LocalsAt("os_alloc", call[t], freelists, hdr)
    BY <1>2 DEF LocalsAt, Asking, SlabWay, FreeWay
  <2>3. /\ GivenBlock("os_alloc", call[t]) = GivenBlock(from, call[t])
        /\ NewBlock("os_alloc", call[t]) = NewBlock(from, call[t])
    BY DEF GivenBlock, NewBlock, Asking, SlabWay
  <2>4. HandAt("os_alloc", call[t]) = 0 /\ HandAt(from, call[t]) = 0
    BY DEF HandAt
  <2> QED
    BY <1>1, <1>3, <2>1, <2>2, <2>3, <2>4, QuietStep DEF HeapInv, TypeOK, CallBlocks, Labels
<1>5. CASE idx # -1
  <2>1. StepTo(t, "lock", d)
    BY <1>5 DEF Dispatch, StepTo, Goto
  <2> HIDE DEF idx
  <2>2. /\ d.op = call[t].op /\ d.ptr = call[t].ptr /\ d.size = call[t].size
        /\ d.ret = call[t].ret /\ d.idx = idx /\ d \in Calls
    BY <1>1, IdxSet
  <2> HIDE DEF d
  <2>3. LocalsAt("lock", d, freelists, hdr)
    BY <1>1, <1>2, <1>5, <2>2 DEF LocalsAt, Asking, SlabWay, FreeWay, idx
  <2>4. /\ GivenBlock("lock", d) = GivenBlock(from, call[t])
        /\ NewBlock("lock", d) = NewBlock(from, call[t])
    BY <2>2 DEF GivenBlock, NewBlock, Asking, SlabWay
  <2>5. HandAt("lock", d) = 0 /\ HandAt(from, call[t]) = 0
    BY DEF HandAt
  <2> QED
    BY <1>3, <2>1, <2>2, <2>3, <2>4, <2>5, QuietStep DEF HeapInv, TypeOK, CallBlocks, Labels
<1> QED
  BY <1>4, <1>5

LEMMA InitReadyHeap ==
  ASSUME HeapInv, ControlInv, NEW t \in Threads, InitReady(t)
  PROVE  HeapInv'
  BY DispatchHeap DEF InitReady

LEMMA SpinEndsHeap ==
  ASSUME HeapInv, ControlInv, NEW t \in Threads, SpinEnds(t)
  PROVE  HeapInv'
  BY DispatchHeap DEF SpinEnds, HeapInv, TypeOK, shared

\* p2malloc gives up: p2realloc keeps its block.
LEMMA FailHeap ==
  ASSUME HeapInv, ControlInv, NEW t \in Threads, NEW from \in {"os_alloc", "check"},
         pc[t] = from, Resume(t, NULL), lock' \in [Freelists -> Threads \cup {NoThread}],
         UNCHANGED <<init_state, freelists, allocated, totmem, mapped, hdr, live>>
  PROVE  HeapInv'
<1> DEFINE d == [call[t] EXCEPT !.ret = NULL]
<1>1. call[t] \in Calls
  BY DEF HeapInv, TypeOK
<1>2. LocalsAt(from, call[t], freelists, hdr)
  BY DEF HeapInv, LocalsInv
<1>3. GivenBlock(from, call[t]) \cap NewBlock(from, call[t]) = {}
  BY DEF HeapInv, OwnersInv
<1>4. StepTo(t, "done", d)
  BY DEF Resume, AfterMalloc, Goto, StepTo
<1>5. /\ d.op = call[t].op /\ d.ptr = call[t].ptr /\ d.size = call[t].size
      /\ d.ret = NULL /\ d \in Calls
  BY <1>1, RetSet
<1> HIDE DEF d
<1>6. LocalsAt("done", d, freelists, hdr)
  BY DEF LocalsAt, Asking, SlabWay, FreeWay
<1>7. /\ GivenBlock("done", d) \subseteq GivenBlock(from, call[t])
      /\ NewBlock("done", d) = {}
  BY <1>5 DEF GivenBlock, NewBlock, Asking, SlabWay
<1>8. HandAt("done", d) = 0 /\ HandAt(from, call[t]) = 0
  BY DEF HandAt
<1> QED
  BY <1>4, <1>5, <1>6, <1>7, <1>8, QuietStep DEF HeapInv, TypeOK, CallBlocks, Labels

LEMMA LargeAllocFailsHeap ==
  ASSUME HeapInv, ControlInv, NEW t \in Threads, LargeAllocFails(t)
  PROVE  HeapInv'
  BY FailHeap DEF LargeAllocFails, HeapInv, TypeOK, shared

LEMMA ClaimPageFailsHeap ==
  ASSUME HeapInv, ControlInv, NEW t \in Threads, ClaimPageFails(t)
  PROVE  HeapInv'
  BY FailHeap DEF ClaimPageFails, HeapInv, TypeOK, Unlock

--------------------------------------------------------------------------------
(***************************************************************************)
(* Pointers pass between clients and calls.                                *)
(***************************************************************************)
LEMMA PointerOfBlock ==
  /\ \A b \in BlockAddrs : /\ HdrOf(PtrOf(b)) = b /\ PtrOf(b) \in Pointers
                           /\ PtrOf(b) # NULL
  /\ \A ptr \in Pointers : /\ HdrOf(ptr) \in BlockAddrs /\ PtrOf(HdrOf(ptr)) = ptr
                           /\ ptr # NULL
<1>1. P2_HEADER_SIZE \in Nat
  BY HeaderSize
<1>2. \A b \in BlockAddrs : b \in Nat /\ b >= 4096
  BY AddressRange
<1> QED
  BY <1>1, <1>2 DEF HdrOf, PtrOf, Pointers, NULL

LEMMA LargeAddTotmemHeap ==
  ASSUME HeapInv, ControlInv, NEW t \in Threads, LargeAddTotmem(t)
  PROVE  HeapInv'
<1> DEFINE c == call[t]
           p == PtrOf(c.blk)
           d == [c EXCEPT !.ret = p]
           l == AfterMalloc(c, p)
<1>1. /\ pc[t] = "add_totmem" /\ c \in Calls
      /\ totmem' = Wrap(totmem + c.alloc_size)
      /\ UNCHANGED <<init_state, freelists, lock, allocated, mapped, hdr, live>>
  BY DEF LargeAddTotmem, HeapInv, TypeOK
<1>2. StepTo(t, l, d)
  BY DEF LargeAddTotmem, Resume, Goto, StepTo
<1>3. LocalsAt("add_totmem", c, freelists, hdr) /\ c.ret = NULL
  BY <1>1 DEF HeapInv, LocalsInv, LocalsAt, Asking
<1>4. c.blk \in BlockAddrs /\ p \in Pointers /\ p # NULL /\ HdrOf(p) = c.blk
  BY <1>3, PointerOfBlock DEF LocalsAt
<1>5. /\ d.op = c.op /\ d.ptr = c.ptr /\ d.size = c.size /\ d.ret = p /\ d \in Calls
  BY <1>1, <1>4, RetSet
<1>6. /\ l \in {"zero_payload", "copy_payload", "done"}
      /\ l = "zero_payload" => c.op = "calloc"
      /\ l = "copy_payload" => c.op = "realloc" /\ c.ptr # NULL
      /\ l = "done" => ~(c.op = "realloc" /\ c.ptr # NULL)
  BY <1>4 DEF AfterMalloc
<1> HIDE DEF d, l, p
<1>7. LocalsAt(l, d, freelists, hdr)
  BY <1>4, <1>5, <1>6 DEF LocalsAt, Asking, SlabWay, FreeWay
<1>8. /\ GivenBlock(l, d) \subseteq GivenBlock("add_totmem", c)
      /\ NewBlock(l, d) = NewBlock("add_totmem", c)
  BY <1>3, <1>4, <1>5, <1>6 DEF GivenBlock, NewBlock, Asking, SlabWay
<1>9. HandAt(l, d) = 0 /\ HandAt("add_totmem", c) = 0
  BY <1>6 DEF HandAt
<1>10. GivenBlock("add_totmem", c) \cap NewBlock("add_totmem", c) = {}
  BY <1>1 DEF HeapInv, OwnersInv
<1>11. totmem' \in SizeT
  BY <1>1, WrapType DEF HeapInv, TypeOK, SizeT, Calls
<1> QED
  BY <1>1, <1>2, <1>5, <1>6, <1>7, <1>8, <1>9, <1>10, <1>11, QuietStep
     DEF HeapInv, TypeOK, CallBlocks, Labels

LEMMA CopyPayloadHeap ==
  ASSUME HeapInv, ControlInv, NEW t \in Threads, CopyPayload(t)
  PROVE  HeapInv'
<1> DEFINE c == call[t]
           d == [c EXCEPT !.blk = HdrOf(c.ptr)]
<1>1. /\ pc[t] = "copy_payload" /\ c \in Calls
      /\ StepTo(t, "free", d)
      /\ UNCHANGED <<init_state, freelists, lock, allocated, totmem, mapped, hdr, live>>
  BY DEF CopyPayload, Move, Goto, StepTo, HeapInv, TypeOK, shared
<1>2. LocalsAt("copy_payload", c, freelists, hdr)
  BY <1>1 DEF HeapInv, LocalsInv
<1>3. HdrOf(c.ptr) \in BlockAddrs
  BY <1>1, <1>2, PointerOfBlock DEF LocalsAt, Calls
<1>4. /\ d.op = c.op /\ d.ptr = c.ptr /\ d.size = c.size /\ d.ret = c.ret
      /\ d.blk = HdrOf(c.ptr) /\ d \in Calls
  BY <1>1, <1>3, BlkSet
<1> HIDE DEF d
<1>5. LocalsAt("free", d, freelists, hdr)
  BY <1>2, <1>4 DEF LocalsAt, Asking, SlabWay, FreeWay
<1>6. /\ GivenBlock("free", d) = GivenBlock("copy_payload", c)
      /\ NewBlock("free", d) = NewBlock("copy_payload", c)
  BY <1>2, <1>4 DEF LocalsAt, GivenBlock, NewBlock
<1>7. HandAt("free", d) = 0 /\ HandAt("copy_payload", c) = 0
  BY DEF HandAt
<1>8. GivenBlock("copy_payload", c) \cap NewBlock("copy_payload", c) = {}
  BY <1>1 DEF HeapInv, OwnersInv
<1> QED
  BY <1>1, <1>4, <1>5, <1>6, <1>7, <1>8, QuietStep DEF HeapInv, TypeOK, CallBlocks, Labels

\* A client passes ptr, or NULL, to a call.
LEMMA EnterStep ==
  ASSUME HeapInv, ControlInv, NEW t \in Threads, pc[t] = "idle",
         NEW l \in Labels, NEW c \in Calls, StepTo(t, l, c),
         NEW ptr \in live \cup {NULL}, live' = live \ {ptr},
         UNCHANGED <<init_state, freelists, lock, allocated, totmem, mapped, hdr>>,
         LocalsAt(l, c, freelists, hdr), HandAt(l, c) = 0,
         \A b \in GivenBlock(l, c) \cup NewBlock(l, c) : ptr # NULL /\ b = HdrOf(ptr),
         GivenBlock(l, c) \cap NewBlock(l, c) = {}
  PROVE  HeapInv'
<1>1. TypeOK'
  <2>1. SharedTypeOK'
    BY DEF HeapInv, TypeOK, SharedTypeOK
  <2> QED
    BY <2>1, TypeAfter DEF HeapInv
<1>2. LocalsInv'
  BY LocalsAfter
<1>3. HeadersInv'
  BY DEF HeapInv, HeadersInv
<1>4. OwnersInv'
  <2>1. HeldBlocks' \subseteq HeldBlocks
    BY DEF HeldBlocks
  <2>2. ASSUME ptr # NULL PROVE HdrOf(ptr) \in HeldBlocks /\ HdrOf(ptr) \notin HeldBlocks'
    <3>1. \A q \in live : PtrOf(HdrOf(q)) = q
      BY PointerOfBlock DEF HeapInv, TypeOK
    <3> QED
      BY <2>2, <3>1 DEF HeldBlocks
  <2> QED
    BY <2>1, <2>2, OwnersAfter DEF HeapInv, OwnersInv
<1>5. ChunksInv'
  <2>1. InHand(t)' = 0 /\ InHand(t) = 0
    BY HandAfter DEF HeapInv, HandAt
  <2>2. \A u \in Threads \ {t} : call'[u] = call[u]
    BY AfterStep DEF HeapInv
  <2> QED
    BY <2>1, <2>2, ChunksQuiet DEF HeapInv, ControlInv, StepTo
<1> QED
  BY <1>1, <1>2, <1>3, <1>4, <1>5 DEF HeapInv

LEMMA NewCallFields ==
  ASSUME NEW op \in {"malloc", "calloc", "free", "realloc"},
         NEW ptr \in Pointers \cup {NULL}, NEW size \in SizeT, NEW c, c = NewCall(op, ptr, size)
  PROVE  /\ c.op = op /\ c.ptr = ptr /\ c.size = size /\ c.ret = NULL
         /\ c \in Calls
  BY FreelistNumbers, PlatformAssumption
     DEF NewCall, Calls, NULL, SizeT, PlatformAssumption

\* The first lines of p2malloc.
LEMMA EnterHeap ==
  ASSUME HeapInv, ControlInv, NEW t \in Threads, pc[t] = "idle",
         NEW op \in {"malloc", "calloc", "realloc"}, NEW ptr \in live \cup {NULL},
         ptr # NULL => op = "realloc", NEW size \in SizeT,
         EnterMalloc(t, NewCall(op, ptr, size)), live' = live \ {ptr},
         UNCHANGED <<init_state, freelists, lock, allocated, totmem, mapped, hdr>>
  PROVE  HeapInv'
<1> DEFINE c == NewCall(op, ptr, size)
<1>1. PICK l \in {"done", "ensure_init"} : StepTo(t, l, c)
  BY DEF EnterMalloc, StepTo, Goto
<1>2. c.op = op /\ c.ptr = ptr /\ c.size = size /\ c.ret = NULL /\ c \in Calls
  <2>1. ptr \in Pointers \cup {NULL}
    BY DEF HeapInv, TypeOK
  <2> QED
    BY <2>1, NewCallFields
<1> HIDE DEF c
<1>3. LocalsAt(l, c, freelists, hdr)
  BY <1>2 DEF LocalsAt, Asking, SlabWay, FreeWay
<1>4. /\ NewBlock(l, c) = {} /\ HandAt(l, c) = 0
      /\ \A b \in GivenBlock(l, c) : ptr # NULL /\ b = HdrOf(ptr)
  BY <1>2 DEF GivenBlock, NewBlock, HandAt
<1> QED
  BY <1>1, <1>2, <1>3, <1>4, EnterStep DEF Labels

LEMMA p2mallocHeap ==
  ASSUME HeapInv, ControlInv, NEW t \in Threads, NEW size \in SizeT, p2malloc(t, size)
  PROVE  HeapInv'
<1>1. NULL \notin live
  BY PointerOfBlock DEF HeapInv, TypeOK
<1> QED
  BY <1>1, EnterHeap DEF p2malloc, shared

LEMMA p2callocHeap ==
  ASSUME HeapInv, ControlInv, NEW t \in Threads, NEW nmemb \in SizeT, NEW size \in SizeT,
         p2calloc(t, nmemb, size)
  PROVE  HeapInv'
<1>1. /\ pc[t] = "idle" /\ NULL \in live \cup {NULL} /\ live' = live \ {NULL}
      /\ UNCHANGED <<init_state, freelists, lock, allocated, totmem, mapped, hdr>>
  <2>1. NULL \notin live
    BY PointerOfBlock DEF HeapInv, TypeOK
  <2> QED
    BY <2>1 DEF p2calloc, shared
<1>2. CASE nmemb = 0 \/ size = 0 \/ CallocOverflows(nmemb, size)
  <2> DEFINE c == NewCall("calloc", NULL, 0)
  <2>1. StepTo(t, "done", c)
    BY <1>2 DEF p2calloc, StepTo, Goto
  <2>2. 0 \in SizeT
    BY PlatformAssumption DEF SizeT, PlatformAssumption
  <2>3. c.op = "calloc" /\ c.ptr = NULL /\ c.ret = NULL /\ c \in Calls
    BY <2>2, NewCallFields
  <2> HIDE DEF c
  <2>4. LocalsAt("done", c, freelists, hdr)
    BY DEF LocalsAt, Asking, SlabWay, FreeWay
  <2>5. GivenBlock("done", c) = {} /\ NewBlock("done", c) = {} /\ HandAt("done", c) = 0
    BY <2>3 DEF GivenBlock, NewBlock, HandAt
  <2> QED
    BY <1>1, <2>1, <2>3, <2>4, <2>5, EnterStep DEF Labels
<1>3. CASE ~(nmemb = 0 \/ size = 0 \/ CallocOverflows(nmemb, size))
  <2>1. EnterMalloc(t, NewCall("calloc", NULL, Wrap(nmemb * size)))
    BY <1>3 DEF p2calloc
  <2>2. Wrap(nmemb * size) \in SizeT
    <3>1. nmemb * size \in Int
      BY PlatformAssumption DEF SizeT, PlatformAssumption
    <3> QED
      BY <3>1, WrapType
  <2> QED
    BY <1>1, <2>1, <2>2, EnterHeap
<1> QED
  BY <1>2, <1>3

LEMMA p2freeHeap ==
  ASSUME HeapInv, ControlInv, NEW t \in Threads, NEW ptr \in live, p2free(t, ptr)
  PROVE  HeapInv'
<1> DEFINE c == NewCall("free", ptr, 0)
           d == [c EXCEPT !.blk = HdrOf(ptr)]
<1>1. ptr \in Pointers /\ HdrOf(ptr) \in BlockAddrs /\ ptr # NULL /\ 0 \in SizeT
  BY PointerOfBlock, PlatformAssumption DEF HeapInv, TypeOK, SizeT, PlatformAssumption
<1>2. /\ pc[t] = "idle" /\ live' = live \ {ptr}
      /\ StepTo(t, "free", d)
      /\ UNCHANGED <<init_state, freelists, lock, allocated, totmem, mapped, hdr>>
  BY DEF p2free, StepTo, Goto
<1>3. c.op = "free" /\ c.ret = NULL /\ c \in Calls
  BY <1>1, NewCallFields
<1> HIDE DEF c
<1>4. d.op = "free" /\ d.ret = NULL /\ d.blk = HdrOf(ptr) /\ d \in Calls
  BY <1>1, <1>3, BlkSet
<1> HIDE DEF d
<1>5. LocalsAt("free", d, freelists, hdr)
  BY <1>4 DEF LocalsAt, Asking, SlabWay, FreeWay
<1>6. GivenBlock("free", d) = {HdrOf(ptr)} /\ NewBlock("free", d) = {} /\ HandAt("free", d) = 0
  BY <1>4 DEF GivenBlock, NewBlock, HandAt
<1> QED
  BY <1>1, <1>2, <1>4, <1>5, <1>6, EnterStep DEF Labels

LEMMA p2reallocHeap ==
  ASSUME HeapInv, ControlInv, NEW t \in Threads, NEW ptr \in live \cup {NULL},
         NEW size \in SizeT, p2realloc(t, ptr, size)
  PROVE  HeapInv'
<1> DEFINE c == NewCall("realloc", ptr, size)
           f == [c EXCEPT !.blk = HdrOf(ptr)]
           r == [c EXCEPT !.ret = ptr]
<1>1. /\ pc[t] = "idle" /\ live' = live \ {ptr}
      /\ UNCHANGED <<init_state, freelists, lock, allocated, totmem, mapped, hdr>>
  BY DEF p2realloc
<1>2. ptr \in Pointers \cup {NULL}
  BY DEF HeapInv, TypeOK
<1>3. c.op = "realloc" /\ c.ptr = ptr /\ c.size = size /\ c.ret = NULL /\ c \in Calls
  BY <1>2, NewCallFields
<1>4. \/ EnterMalloc(t, c)
      \/ ptr # NULL /\ size = 0 /\ StepTo(t, "free", f)
      \/ ptr # NULL /\ StaysInPlace(hdr[HdrOf(ptr)], size) /\ StepTo(t, "realloc_sub", r)
  BY DEF p2realloc, StepTo, Goto
<1>5. CASE EnterMalloc(t, c)
  BY <1>1, <1>5, EnterHeap
<1> HIDE DEF c
<1>6. CASE ptr # NULL /\ size = 0 /\ StepTo(t, "free", f)
  <2>1. HdrOf(ptr) \in BlockAddrs
    BY <1>2, <1>6, PointerOfBlock
  <2>2. f.op = "realloc" /\ f.size = 0 /\ f.ret = NULL /\ f.blk = HdrOf(ptr) /\ f \in Calls
    BY <1>3, <1>6, <2>1, BlkSet
  <2> HIDE DEF f
  <2>3. LocalsAt("free", f, freelists, hdr)
    BY <2>2 DEF LocalsAt, Asking, SlabWay, FreeWay
  <2>4. /\ GivenBlock("free", f) = {HdrOf(ptr)} /\ NewBlock("free", f) = {}
        /\ HandAt("free", f) = 0
    BY <2>2 DEF GivenBlock, NewBlock, HandAt
  <2> QED
    BY <1>1, <1>6, <2>2, <2>3, <2>4, EnterStep DEF Labels
<1>7. CASE ptr # NULL /\ StaysInPlace(hdr[HdrOf(ptr)], size) /\ StepTo(t, "realloc_sub", r)
  <2>1. /\ r.op = "realloc" /\ r.ptr = ptr /\ r.size = size /\ r.ret = ptr /\ r \in Calls
    BY <1>2, <1>3, RetSet
  <2> HIDE DEF r
  <2>2. LocalsAt("realloc_sub", r, freelists, hdr)
    BY <1>7, <2>1 DEF LocalsAt, Asking, SlabWay, FreeWay
  <2>3. /\ GivenBlock("realloc_sub", r) = {} /\ NewBlock("realloc_sub", r) = {HdrOf(ptr)}
        /\ HandAt("realloc_sub", r) = 0
    BY <1>7, <2>1 DEF GivenBlock, NewBlock, HandAt, Asking, SlabWay
  <2> QED
    BY <1>1, <1>7, <2>1, <2>2, <2>3, EnterStep DEF Labels
<1> QED
  BY <1>4, <1>5, <1>6, <1>7

LEMMA ReturnHeap ==
  ASSUME HeapInv, ControlInv, NEW t \in Threads, Return(t)
  PROVE  HeapInv'
<1> DEFINE c    == call[t]
           back == HandedBack(c)
<1>1. /\ pc[t] = "done" /\ c \in Calls
      /\ StepTo(t, "idle", NoCall)
      /\ live' = live \cup back
      /\ UNCHANGED <<init_state, freelists, lock, allocated, totmem, mapped, hdr>>
  BY DEF Return, Move, Goto, StepTo, HeapInv, TypeOK
<1>2. NoCall.op = "none" /\ NoCall.ret = NULL /\ NoCall \in Calls
  BY FreelistNumbers, PlatformAssumption
     DEF NoCall, NewCall, Calls, NULL, SizeT, PlatformAssumption
<1>3. back \subseteq Pointers
  BY <1>1 DEF HandedBack, Calls
<1>4. \A ptr \in back : HdrOf(ptr) \in CallBlocks(t)
  BY <1>1 DEF HandedBack, CallBlocks, GivenBlock, NewBlock
<1> HIDE DEF back
<1>5. TypeOK'
  <2>1. SharedTypeOK'
    BY <1>1, <1>3 DEF HeapInv, TypeOK, SharedTypeOK
  <2> QED
    BY <1>1, <1>2, <2>1, TypeAfter DEF HeapInv, Labels
<1>6. LocalsInv'
  <2>1. LocalsAt("idle", NoCall, freelists', hdr')
    BY DEF LocalsAt, Asking, SlabWay, FreeWay
  <2> QED
    BY <1>1, <2>1, LocalsAfter
<1>7. HeadersInv'
  BY <1>1 DEF HeapInv, HeadersInv
<1>8. OwnersInv'
  <2>1. GivenBlock("idle", NoCall) = {} /\ NewBlock("idle", NoCall) = {}
    BY <1>2 DEF GivenBlock, NewBlock
  <2>2. HeldBlocks' \subseteq HeldBlocks \cup CallBlocks(t)
    BY <1>1, <1>4 DEF HeldBlocks
  <2>3. HeldBlocks' \subseteq DOMAIN hdr'
    BY <1>1, <2>2 DEF HeapInv, OwnersInv
  <2> QED
    BY <1>1, <2>1, <2>2, <2>3, OwnersAfter DEF HeapInv
<1>9. ChunksInv'
  <2>1. InHand(t)' = 0 /\ InHand(t) = 0
    BY <1>1, HandAfter DEF HeapInv, HandAt
  <2>2. \A u \in Threads \ {t} : call'[u] = call[u]
    BY <1>1, AfterStep DEF HeapInv
  <2> QED
    BY <1>1, <2>1, <2>2, ChunksQuiet DEF HeapInv, ControlInv, StepTo
<1> QED
  BY <1>5, <1>6, <1>7, <1>8, <1>9 DEF HeapInv

\* The lists are emptied before anybody has seen them.
LEMMA freelists_initHeap ==
  ASSUME HeapInv, ControlInv, NEW t \in Threads, freelists_init(t)
  PROVE  HeapInv'
<1> DEFINE c == call[t]
<1>1. /\ pc[t] = "freelists_init" /\ StepTo(t, "init_ready", c) /\ c \in Calls
      /\ freelists' = [i \in Freelists |-> <<>>]
      /\ lock' = [i \in Freelists |-> NoThread]
      /\ UNCHANGED <<init_state, allocated, totmem, mapped, hdr, live>>
  BY SameCall DEF freelists_init, Move, HeapInv
<1>2. \A u \in Threads : pc[u] \in EarlyLabels
  BY <1>1 DEF ControlInv, OneInits, Initing, NothingYet
<1>3. TypeOK'
  <2>1. SharedTypeOK'
    BY <1>1 DEF HeapInv, TypeOK, SharedTypeOK
  <2> QED
    BY <1>1, <2>1, TypeAfter DEF HeapInv, Labels
<1>4. LocalsAt("freelists_init", c, freelists, hdr)
  BY <1>1 DEF HeapInv, LocalsInv
<1>5. LocalsInv'
  <2>1. LocalsAt("init_ready", c, freelists', hdr')
    BY <1>4 DEF LocalsAt, Asking, SlabWay, FreeWay
  <2> QED
    BY <1>1, <1>2, <2>1, LocalsAfter DEF EarlyLabels
<1>6. HeadersInv'
  BY <1>1 DEF HeapInv, HeadersInv
<1>7. OwnersInv'
  <2>1. /\ GivenBlock("init_ready", c) = GivenBlock("freelists_init", c)
        /\ NewBlock("init_ready", c) = NewBlock("freelists_init", c)
    BY DEF GivenBlock, NewBlock, Asking, SlabWay
  <2>2. HeldBlocks' = HeldBlocks
    BY <1>1 DEF HeldBlocks
  <2>3. /\ GivenBlock("freelists_init", c) \cap NewBlock("freelists_init", c) = {}
        /\ CallBlocks(t) = GivenBlock("freelists_init", c) \cup NewBlock("freelists_init", c)
    BY <1>1 DEF HeapInv, OwnersInv, CallBlocks
  <2> QED
    BY <1>1, <2>1, <2>2, <2>3, OwnersAfter DEF HeapInv, OwnersInv
<1>8. ChunksInv'
  <2>1. FreeChunks' = {} /\ UsedChunks' = UsedChunks
    BY <1>1 DEF FreeChunks, UsedChunks, Range
  <2>2. HandChunks' \subseteq HandChunks
    <3>1. InHand(t)' = 0
      BY <1>1, HandAfter DEF HeapInv, HandAt
    <3>2. \A u \in Threads \ {t} : call'[u] = call[u]
      BY <1>1, AfterStep DEF HeapInv
    <3> QED
      BY <1>1, <3>1, <3>2, HandsAfter DEF ControlInv, StepTo
  <2>3. \A i \in Freelists : IsInjective(freelists'[i])
    BY <1>1 DEF IsInjective
  <2> QED
    BY <1>1, <2>1, <2>2, <2>3, ChunksStay DEF HeapInv, Chunks
<1> QED
  BY <1>3, <1>5, <1>6, <1>7, <1>8 DEF HeapInv

--------------------------------------------------------------------------------
(***************************************************************************)
(* Pages and blocks come and go.                                           *)
(***************************************************************************)

\* What a thread has in hand is on no list and has no header.
LEMMA InHandAlone ==
  ASSUME ChunksInv, NEW t \in Threads, InHand(t) # 0
  PROVE  /\ call[t].blk \in BlockAddrs
         /\ InHand(t) \in Nat \ {0}
         /\ call[t].blk \notin DOMAIN hdr
         /\ \A i \in Freelists : call[t].blk \notin Range(freelists[i])
<1> DEFINE c == Chunk("thread", t, call[t].blk, InHand(t))
<1>1. c \in Chunks
  BY DEF Chunks, HandChunks
<1>2. c.base = call[t].blk /\ c.bytes = InHand(t) /\ c.kind = "thread"
  BY DEF Chunk
<1>3. call[t].blk \in BlockAddrs /\ InHand(t) \in Nat \ {0}
  BY <1>1, <1>2 DEF ChunksInv, Placed
<1>4. ASSUME NEW d \in Chunks, d.base = call[t].blk PROVE d = c
  <2>1. d = c \/ Disjoint(d, c)
    BY <1>1 DEF ChunksInv, Apart
  <2>2. d.bytes \in Nat \ {0} /\ d.base \in Nat /\ c.bytes \in Nat \ {0}
    BY <1>2, <1>3, AddressRange, <1>4 DEF ChunksInv, Placed
  <2> HIDE DEF c
  <2> QED
    BY <1>2, <1>4, <2>1, <2>2 DEF Disjoint
<1>5. call[t].blk \notin DOMAIN hdr
  <2> SUFFICES ASSUME call[t].blk \in DOMAIN hdr PROVE FALSE
    OBVIOUS
  <2> DEFINE d == Chunk("header", NoThread, call[t].blk, BlockBytes(hdr[call[t].blk]))
  <2>1. d \in Chunks
    BY DEF Chunks, UsedChunks
  <2>2. d.base = call[t].blk /\ d.kind = "header"
    BY DEF Chunk
  <2> HIDE DEF c, d
  <2> QED
    BY <1>2, <1>4, <2>1, <2>2
<1>6. ASSUME NEW i \in Freelists, call[t].blk \in Range(freelists[i]) PROVE FALSE
  <2> DEFINE d == Chunk("list", i, call[t].blk, pow2(i))
  <2>1. d \in Chunks
    BY <1>6 DEF Chunks, FreeChunks
  <2>2. d.base = call[t].blk /\ d.kind = "list"
    BY DEF Chunk
  <2> HIDE DEF c, d
  <2> QED
    BY <1>2, <1>4, <2>1, <2>2
<1> QED
  BY <1>3, <1>5, <1>6

\* A list whose lock t holds is no other thread's business.
LEMMA OthersLists ==
  ASSUME ControlInv, NEW t \in Threads, pc[t] \in Section, NEW u \in Threads \ {t},
         pc[u] \in {"carve", "pop"}
  PROVE  call[u].idx \in Freelists /\ call[u].idx # call[t].idx
  BY DEF ControlInv, HoldsLock, Section

\* A block that t answers for, and a block without a header, is no other call's.
LEMMA OthersHeaders ==
  ASSUME OwnersInv, NEW t \in Threads, NEW b, b \in CallBlocks(t) \/ b \notin DOMAIN hdr,
         NEW u \in Threads \ {t}
  PROVE  b \notin CallBlocks(u) /\ CallBlocks(u) \subseteq DOMAIN hdr
  BY DEF OwnersInv

LEMMA LargeBytes ==
  ASSUME NEW size
  PROVE  LET n == page_align(Wrap(P2_HEADER_SIZE + size))
         IN  size \in SizeT => n \in SizeT /\ n \in Nat /\ n % PAGE_BYTES = 0
<1> SUFFICES ASSUME size \in SizeT
             PROVE  LET n == page_align(Wrap(P2_HEADER_SIZE + size))
                    IN  n \in SizeT /\ n \in Nat /\ n % PAGE_BYTES = 0
  OBVIOUS
<1> DEFINE w == Wrap(P2_HEADER_SIZE + size)
           m == Wrap(w + 4095)
<1>1. w \in SizeT
  BY WrapType, HeaderSize DEF SizeT
<1> HIDE DEF w
<1>2. m \in SizeT
  BY <1>1, WrapType DEF SizeT
<1> HIDE DEF m
<1>3. m - (m % 4096) \in SizeT /\ m - (m % 4096) \in Nat /\ (m - (m % 4096)) % 4096 = 0
  BY <1>2, PlatformAssumption DEF SizeT, PlatformAssumption
<1> QED
  BY <1>3 DEF page_align, w, m, PAGE_BYTES

LEMMA PageIsBlock == \A page \in HeapPages : page \in BlockAddrs
  BY HeapNumbers, BlockSizes DEF BlockAddrs

LEMMA LargeAllocHeap ==
  ASSUME HeapInv, ControlInv, NEW t \in Threads, LargeAlloc(t)
  PROVE  HeapInv'
<1> DEFINE c == call[t]
           n == page_align(Wrap(P2_HEADER_SIZE + c.size))
<1>1. PICK page \in Room(n) :
        /\ mapped' = mapped \cup PagesOf(page, n)
        /\ call' = [call EXCEPT ![t].blk = page, ![t].alloc_size = n]
  BY DEF LargeAlloc
<1>2. /\ pc[t] = "os_alloc" /\ pc' = [pc EXCEPT ![t] = "add_allocated"] /\ c \in Calls
      /\ UNCHANGED <<init_state, freelists, lock, allocated, totmem, hdr, live>>
  BY DEF LargeAlloc, Move, Goto, HeapInv, TypeOK
<1>3. n \in SizeT /\ n \in Nat /\ n % PAGE_BYTES = 0
  BY <1>2, LargeBytes DEF Calls
<1> HIDE DEF n
<1>4. /\ page \in HeapPages /\ page \in BlockAddrs /\ WholePages(page, n) /\ n > 0
      /\ PagesOf(page, n) \subseteq HeapPages
  BY <1>1, <1>3, HeapNumbers, PageIsBlock DEF Room, WholePages, PagesOf
<1> DEFINE d == [c EXCEPT !.blk = page, !.alloc_size = n]
<1>5. StepTo(t, "add_allocated", d)
  BY <1>1, <1>2 DEF StepTo, HeapInv, TypeOK
<1>6. /\ d.op = c.op /\ d.ptr = c.ptr /\ d.size = c.size /\ d.idx = c.idx /\ d.ret = c.ret
      /\ d.blk = page /\ d.alloc_size = n /\ d \in Calls
  BY <1>2, <1>3, <1>4 DEF Calls
<1> HIDE DEF d
<1>7. LocalsAt("os_alloc", c, freelists, hdr)
  BY <1>2 DEF HeapInv, LocalsInv
<1>8. TypeOK'
  <2>1. SharedTypeOK'
    BY <1>1, <1>2, <1>4 DEF HeapInv, TypeOK, SharedTypeOK
  <2> QED
    BY <1>5, <1>6, <2>1, TypeAfter DEF HeapInv, Labels
<1>9. LocalsInv'
  <2>1. LocalsAt("add_allocated", d, freelists', hdr')
    BY <1>4, <1>6, <1>7 DEF LocalsAt, Asking, SlabWay, FreeWay
  <2> QED
    BY <1>2, <1>5, <2>1, LocalsAfter
<1>10. HeadersInv'
  BY <1>2 DEF HeapInv, HeadersInv
<1>11. OwnersInv'
  <2>1. /\ GivenBlock("add_allocated", d) = GivenBlock("os_alloc", c)
        /\ NewBlock("add_allocated", d) = NewBlock("os_alloc", c)
    BY <1>6 DEF GivenBlock, NewBlock, Asking, SlabWay
  <2>2. HeldBlocks' = HeldBlocks
    BY <1>2 DEF HeldBlocks
  <2>3. /\ GivenBlock("os_alloc", c) \cap NewBlock("os_alloc", c) = {}
        /\ CallBlocks(t) = GivenBlock("os_alloc", c) \cup NewBlock("os_alloc", c)
    BY <1>2 DEF HeapInv, OwnersInv, CallBlocks
  <2> QED
    BY <1>2, <1>5, <2>1, <2>2, <2>3, OwnersAfter DEF HeapInv, OwnersInv
<1>12. ChunksInv'
  <2>1. InHand(t)' = n
    BY <1>5, <1>6, HandAfter DEF HeapInv, HandAt
  <2>2. call'[t].blk = page /\ \A u \in Threads \ {t} : call'[u] = call[u]
    BY <1>5, <1>6, AfterStep DEF HeapInv
  <2> QED
    BY <1>1, <1>2, <1>3, <2>1, <2>2, ChunkFromOS DEF HeapInv, ControlInv
<1> QED
  BY <1>8, <1>9, <1>10, <1>11, <1>12 DEF HeapInv

LEMMA ClaimPageHeap ==
  ASSUME HeapInv, ControlInv, NEW t \in Threads, ClaimPage(t)
  PROVE  HeapInv'
<1> DEFINE c == call[t]
<1>1. PICK page \in Room(PAGE_BYTES) :
        /\ mapped' = mapped \cup {page}
        /\ call' = [call EXCEPT ![t].blk = page]
  BY DEF ClaimPage
<1>2. /\ pc[t] = "check" /\ pc' = [pc EXCEPT ![t] = "carve"] /\ c \in Calls
      /\ freelists[c.idx] = <<>>
      /\ UNCHANGED <<init_state, freelists, lock, allocated, totmem, hdr, live>>
  BY DEF ClaimPage, Move, Goto, HeapInv, TypeOK
<1>3. page \in HeapPages /\ page \in BlockAddrs
  BY PageIsBlock DEF Room
<1>4. PagesOf(page, PAGE_BYTES) = {page}
  BY <1>3, HeapNumbers DEF PagesOf
<1> DEFINE d == [c EXCEPT !.blk = page]
<1>5. StepTo(t, "carve", d)
  BY <1>1, <1>2 DEF StepTo, HeapInv, TypeOK
<1>6. /\ d.op = c.op /\ d.ptr = c.ptr /\ d.size = c.size /\ d.idx = c.idx /\ d.ret = c.ret
      /\ d.blk = page /\ d \in Calls
  BY <1>2, <1>3, BlkSet
<1> HIDE DEF d
<1>7. LocalsAt("check", c, freelists, hdr)
  BY <1>2 DEF HeapInv, LocalsInv
<1>8. TypeOK'
  <2>1. SharedTypeOK'
    BY <1>1, <1>2, <1>3 DEF HeapInv, TypeOK, SharedTypeOK
  <2> QED
    BY <1>5, <1>6, <2>1, TypeAfter DEF HeapInv, Labels
<1>9. LocalsInv'
  <2>1. LocalsAt("carve", d, freelists', hdr')
    BY <1>2, <1>3, <1>6, <1>7 DEF LocalsAt, Asking, SlabWay, FreeWay
  <2> QED
    BY <1>2, <1>5, <2>1, LocalsAfter
<1>10. HeadersInv'
  BY <1>2 DEF HeapInv, HeadersInv
<1>11. OwnersInv'
  <2>1. /\ GivenBlock("carve", d) = GivenBlock("check", c)
        /\ NewBlock("carve", d) = NewBlock("check", c)
    BY <1>6 DEF GivenBlock, NewBlock, Asking, SlabWay
  <2>2. HeldBlocks' = HeldBlocks
    BY <1>2 DEF HeldBlocks
  <2>3. /\ GivenBlock("check", c) \cap NewBlock("check", c) = {}
        /\ CallBlocks(t) = GivenBlock("check", c) \cup NewBlock("check", c)
    BY <1>2 DEF HeapInv, OwnersInv, CallBlocks
  <2> QED
    BY <1>2, <1>5, <2>1, <2>2, <2>3, OwnersAfter DEF HeapInv, OwnersInv
<1>12. ChunksInv'
  <2>1. InHand(t)' = PAGE_BYTES /\ PAGE_BYTES \in Nat
    BY <1>5, HandAfter DEF HeapInv, HandAt, PAGE_BYTES
  <2>2. call'[t].blk = page /\ \A u \in Threads \ {t} : call'[u] = call[u]
    BY <1>5, <1>6, AfterStep DEF HeapInv
  <2> QED
    BY <1>1, <1>2, <1>4, <2>1, <2>2, ChunkFromOS DEF HeapInv, ControlInv
<1> QED
  BY <1>8, <1>9, <1>10, <1>11, <1>12 DEF HeapInv

\* A block in hand gets a true header.
LEMMA HeaderWritten ==
  ASSUME HeapInv, NEW t \in Threads, NEW b, b \in BlockAddrs, b \notin DOMAIN hdr,
         NEW h \in Headers, HeaderTrue(b, h), hdr' = WithHeader(b, h)
  PROVE  /\ DOMAIN hdr' = DOMAIN hdr \cup {b}
         /\ DOMAIN hdr' \subseteq BlockAddrs
         /\ \A x \in DOMAIN hdr' : hdr'[x] \in Headers
         /\ \A u \in Threads \ {t} : \A x \in CallBlocks(u) : hdr'[x] = hdr[x]
         /\ HeadersInv'
<1>1. DOMAIN hdr' = DOMAIN hdr \cup {b}
  BY DEF WithHeader
<1>2. hdr'[b] = h /\ \A x \in DOMAIN hdr : hdr'[x] = hdr[x]
  BY DEF WithHeader
<1>3. \A u \in Threads \ {t} : CallBlocks(u) \subseteq DOMAIN hdr
  BY DEF HeapInv, OwnersInv
<1>4. HeadersInv'
  BY <1>1, <1>2 DEF HeapInv, HeadersInv
<1> QED
  BY <1>1, <1>2, <1>3, <1>4 DEF HeapInv, TypeOK

\* A header of a block that t answers for is gone.
LEMMA HeaderGone ==
  ASSUME HeapInv, NEW t \in Threads, NEW b \in CallBlocks(t), hdr' = WithoutHeader(b)
  PROVE  /\ DOMAIN hdr' = DOMAIN hdr \ {b}
         /\ DOMAIN hdr' \subseteq BlockAddrs
         /\ \A x \in DOMAIN hdr' : hdr'[x] \in Headers
         /\ \A u \in Threads \ {t} : \A x \in CallBlocks(u) : hdr'[x] = hdr[x]
         /\ HeadersInv'
<1>1. DOMAIN hdr' = DOMAIN hdr \ {b} /\ \A x \in DOMAIN hdr' : hdr'[x] = hdr[x]
  BY DEF WithoutHeader
<1>2. \A u \in Threads \ {t} : CallBlocks(u) \subseteq DOMAIN hdr'
  BY <1>1, OthersHeaders DEF HeapInv
<1>3. HeadersInv'
  BY <1>1 DEF HeapInv, HeadersInv
<1> QED
  BY <1>1, <1>2, <1>3 DEF HeapInv, TypeOK

LEMMA LargeAddAllocatedHeap ==
  ASSUME HeapInv, ControlInv, NEW t \in Threads, LargeAddAllocated(t)
  PROVE  HeapInv'
<1> DEFINE c == call[t]
           b == c.blk
           h == [size |-> c.size, alloc_size |-> c.alloc_size]
<1>1. /\ pc[t] = "add_allocated" /\ c \in Calls
      /\ StepTo(t, "add_totmem", c)
      /\ hdr' = WithHeader(b, h)
      /\ allocated' = Wrap(allocated + c.size)
      /\ UNCHANGED <<init_state, freelists, lock, totmem, mapped, live>>
  BY SameCall DEF LargeAddAllocated, Move, HeapInv
<1>2. LocalsAt("add_allocated", c, freelists, hdr)
  BY <1>1 DEF HeapInv, LocalsInv
<1>3. /\ b \in HeapPages /\ WholePages(b, c.alloc_size) /\ c.alloc_size # 0 /\ c.ret = NULL
      /\ HandAt("add_allocated", c) = c.alloc_size
  BY <1>2 DEF LocalsAt, WholePages, Asking, HandAt
<1>4. /\ h \in Headers /\ HeaderTrue(b, h) /\ BlockBytes(h) = c.alloc_size
  BY <1>1, <1>3 DEF Calls, Headers, HeaderTrue, IS_LARGE, BlockBytes
<1>5. InHand(t) = c.alloc_size /\ InHand(t)' = 0
  BY <1>1, <1>3, HandAfter DEF HeapInv, HandAt
<1>6. b \in BlockAddrs /\ b \notin DOMAIN hdr
  BY <1>3, <1>5, InHandAlone DEF HeapInv
<1> HIDE DEF h
<1>7. /\ DOMAIN hdr' = DOMAIN hdr \cup {b}
      /\ DOMAIN hdr' \subseteq BlockAddrs
      /\ \A x \in DOMAIN hdr' : hdr'[x] \in Headers
      /\ \A u \in Threads \ {t} : \A x \in CallBlocks(u) : hdr'[x] = hdr[x]
      /\ HeadersInv'
  BY <1>1, <1>4, <1>6, HeaderWritten
<1>8. TypeOK'
  <2>1. allocated' \in SizeT
    BY <1>1, WrapType DEF HeapInv, TypeOK, SizeT, Calls
  <2>2. SharedTypeOK'
    BY <1>1, <1>7, <2>1 DEF HeapInv, TypeOK, SharedTypeOK
  <2> QED
    BY <1>1, <2>2, TypeAfter DEF HeapInv, Labels
<1>9. LocalsInv'
  <2>1. LocalsAt("add_totmem", c, freelists', hdr')
    BY <1>2, <1>6 DEF LocalsAt, Asking, SlabWay, FreeWay
  <2> QED
    BY <1>1, <1>7, <2>1, LocalsAfter
<1>10. OwnersInv'
  <2>1. /\ GivenBlock("add_totmem", c) = GivenBlock("add_allocated", c)
        /\ NewBlock("add_totmem", c) = {b}
    BY <1>3 DEF GivenBlock, NewBlock, Asking, SlabWay
  <2>2. HeldBlocks' = HeldBlocks
    BY <1>1 DEF HeldBlocks
  <2>3. GivenBlock("add_allocated", c) \subseteq CallBlocks(t)
    BY <1>1 DEF CallBlocks
  <2>4. /\ CallBlocks(t) \subseteq DOMAIN hdr /\ CallBlocks(t) \cap HeldBlocks = {}
        /\ HeldBlocks \subseteq DOMAIN hdr
    BY DEF HeapInv, OwnersInv
  <2> QED
    BY <1>1, <1>6, <1>7, <2>1, <2>2, <2>3, <2>4, OwnersAfter DEF HeapInv
<1>11. ChunksInv'
  <2>1. \A u \in Threads \ {t} : call'[u] = call[u]
    BY <1>1, AfterStep DEF HeapInv
  <2> QED
    BY <1>1, <1>3, <1>4, <1>5, <2>1, ChunkGetsHeader DEF HeapInv, ControlInv, StepTo
<1> QED
  BY <1>7, <1>8, <1>9, <1>10, <1>11 DEF HeapInv

LEMMA WriteHeaderHeap ==
  ASSUME HeapInv, ControlInv, NEW t \in Threads, WriteHeader(t)
  PROVE  HeapInv'
<1> DEFINE c == call[t]
           b == c.blk
           h == [size |-> c.size, alloc_size |-> 0]
           p == PtrOf(b)
           d == [c EXCEPT !.ret = p]
           l == AfterMalloc(c, p)
<1>1. /\ pc[t] = "write_header" /\ c \in Calls
      /\ hdr' = WithHeader(b, h)
      /\ allocated' = Wrap(allocated + c.size)
      /\ UNCHANGED <<init_state, freelists, lock, totmem, mapped, live>>
  BY DEF WriteHeader, HeapInv, TypeOK
<1>2. StepTo(t, l, d)
  BY DEF WriteHeader, Resume, Goto, StepTo
<1>3. LocalsAt("write_header", c, freelists, hdr)
  BY <1>1 DEF HeapInv, LocalsInv
<1>4. /\ b \in BlockAddrs /\ c.ret = NULL
      /\ c.idx = get_freelist_idx(c.size) /\ c.idx \in Freelists
      /\ HandAt("write_header", c) = pow2(c.idx)
  BY <1>3 DEF LocalsAt, Asking, SlabWay, HandAt
<1>5. h \in Headers /\ HeaderTrue(b, h) /\ BlockBytes(h) = pow2(c.idx)
  BY <1>1, <1>4, PlatformAssumption
     DEF Calls, Headers, HeaderTrue, IS_LARGE, BlockBytes, SizeT, PlatformAssumption
<1>6. pow2(c.idx) \in Nat \ {0}
  BY <1>4, BlockSizes, FreelistNumbers
<1>7. p \in Pointers /\ p # NULL /\ HdrOf(p) = b
  BY <1>4, PointerOfBlock
<1>8. /\ d.op = c.op /\ d.ptr = c.ptr /\ d.size = c.size /\ d.ret = p /\ d \in Calls
  BY <1>1, <1>7, RetSet
<1>9. /\ l \in {"zero_payload", "copy_payload", "done"}
      /\ l = "zero_payload" => c.op = "calloc"
      /\ l = "copy_payload" => c.op = "realloc" /\ c.ptr # NULL
      /\ l = "done" => ~(c.op = "realloc" /\ c.ptr # NULL)
  BY <1>7 DEF AfterMalloc
<1> HIDE DEF d, l, p, h
<1>10. InHand(t) = pow2(c.idx) /\ InHand(t)' = 0
  BY <1>1, <1>2, <1>4, <1>9, HandAfter DEF HeapInv, HandAt
<1>11. b \notin DOMAIN hdr
  BY <1>6, <1>10, InHandAlone DEF HeapInv
<1>12. /\ DOMAIN hdr' = DOMAIN hdr \cup {b}
       /\ DOMAIN hdr' \subseteq BlockAddrs
       /\ \A x \in DOMAIN hdr' : hdr'[x] \in Headers
       /\ \A u \in Threads \ {t} : \A x \in CallBlocks(u) : hdr'[x] = hdr[x]
       /\ HeadersInv'
  BY <1>1, <1>4, <1>5, <1>11, HeaderWritten
<1>13. TypeOK'
  <2>1. allocated' \in SizeT
    BY <1>1, WrapType DEF HeapInv, TypeOK, SizeT, Calls
  <2>2. SharedTypeOK'
    BY <1>1, <1>12, <2>1 DEF HeapInv, TypeOK, SharedTypeOK
  <2> QED
    BY <1>2, <1>8, <1>9, <2>2, TypeAfter DEF HeapInv, Labels
<1>14. LocalsInv'
  <2>1. LocalsAt(l, d, freelists', hdr')
    BY <1>7, <1>8, <1>9 DEF LocalsAt, Asking, SlabWay, FreeWay
  <2> QED
    BY <1>1, <1>2, <1>12, <2>1, LocalsAfter
<1>15. OwnersInv'
  <2>1. /\ GivenBlock(l, d) \subseteq GivenBlock("write_header", c)
        /\ NewBlock(l, d) = {b}
    BY <1>7, <1>8, <1>9 DEF GivenBlock, NewBlock, Asking, SlabWay
  <2>2. HeldBlocks' = HeldBlocks
    BY <1>1 DEF HeldBlocks
  <2>3. GivenBlock("write_header", c) \subseteq CallBlocks(t)
    BY <1>1 DEF CallBlocks
  <2>4. /\ CallBlocks(t) \subseteq DOMAIN hdr /\ CallBlocks(t) \cap HeldBlocks = {}
        /\ HeldBlocks \subseteq DOMAIN hdr
    BY DEF HeapInv, OwnersInv
  <2> QED
    BY <1>2, <1>11, <1>12, <2>1, <2>2, <2>3, <2>4, OwnersAfter DEF HeapInv
<1>16. ChunksInv'
  <2>1. \A u \in Threads \ {t} : call'[u] = call[u]
    BY <1>2, AfterStep DEF HeapInv
  <2> QED
    BY <1>1, <1>2, <1>5, <1>6, <1>10, <2>1, ChunkGetsHeader DEF HeapInv, ControlInv, StepTo
<1> QED
  BY <1>12, <1>13, <1>14, <1>15, <1>16 DEF HeapInv

LEMMA FreeLargeHeap ==
  ASSUME HeapInv, ControlInv, NEW t \in Threads, FreeLarge(t)
  PROVE  HeapInv'
<1> DEFINE c == call[t]
           b == c.blk
           n == hdr[b].alloc_size
           d == [c EXCEPT !.alloc_size = n]
<1>1. /\ pc[t] = "free" /\ c \in Calls
      /\ IS_LARGE(hdr[b])
      /\ hdr' = WithoutHeader(b)
      /\ allocated' = Wrap(allocated - hdr[b].size)
      /\ UNCHANGED <<init_state, freelists, lock, totmem, mapped, live>>
  BY DEF FreeLarge, Move, HeapInv, TypeOK
<1>2. StepTo(t, "free_totmem", d)
  BY DEF FreeLarge, Move, Goto, StepTo
<1>3. GivenBlock("free", c) = {b} /\ b \in CallBlocks(t) /\ b \in DOMAIN hdr
  BY <1>1 DEF GivenBlock, CallBlocks, HeapInv, OwnersInv
<1>4. /\ b \in BlockAddrs /\ hdr[b] \in Headers /\ hdr[b].size \in Int /\ n \in SizeT
      /\ HeaderTrue(b, hdr[b])
  BY <1>3 DEF HeapInv, TypeOK, Headers, SizeT, HeadersInv
<1>5. b \in HeapPages /\ WholePages(b, n) /\ n # 0 /\ BlockBytes(hdr[b]) = n
  BY <1>1, <1>4 DEF HeaderTrue, WholePages, IS_LARGE, BlockBytes
<1>6. /\ d.op = c.op /\ d.ptr = c.ptr /\ d.size = c.size /\ d.ret = c.ret /\ d.blk = b
      /\ d.alloc_size = n /\ d \in Calls
  BY <1>1, <1>4, AllocSizeSet
<1>7. LocalsAt("free", c, freelists, hdr)
  BY <1>1 DEF HeapInv, LocalsInv
<1> HIDE DEF d
<1>8. /\ DOMAIN hdr' = DOMAIN hdr \ {b}
      /\ DOMAIN hdr' \subseteq BlockAddrs
      /\ \A x \in DOMAIN hdr' : hdr'[x] \in Headers
      /\ \A u \in Threads \ {t} : \A x \in CallBlocks(u) : hdr'[x] = hdr[x]
      /\ HeadersInv'
  BY <1>1, <1>3, HeaderGone
<1>9. TypeOK'
  <2>1. allocated' \in SizeT
    BY <1>1, <1>4, WrapType DEF HeapInv, TypeOK, SizeT
  <2>2. SharedTypeOK'
    BY <1>1, <1>8, <2>1 DEF HeapInv, TypeOK, SharedTypeOK
  <2> QED
    BY <1>2, <1>6, <2>2, TypeAfter DEF HeapInv, Labels
<1>10. LocalsInv'
  <2>1. LocalsAt("free_totmem", d, freelists', hdr')
    BY <1>5, <1>6, <1>7 DEF LocalsAt, Asking, SlabWay, FreeWay
  <2> QED
    BY <1>1, <1>2, <1>8, <2>1, LocalsAfter
<1>11. OwnersInv'
  <2>1. /\ GivenBlock("free_totmem", d) \subseteq {} /\ b \notin NewBlock("free_totmem", d)
        /\ NewBlock("free_totmem", d) \subseteq CallBlocks(t)
    <3>1. GivenBlock("free_totmem", d) = {}
      BY DEF GivenBlock, Asking, SlabWay
    <3>2. NewBlock("free_totmem", d) = NewBlock("free", c)
      BY <1>6 DEF NewBlock
    <3>3. GivenBlock("free", c) \cap NewBlock("free", c) = {}
      BY <1>1 DEF HeapInv, OwnersInv
    <3> QED
      BY <1>1, <1>3, <3>1, <3>2, <3>3 DEF CallBlocks
  <2>2. HeldBlocks' = HeldBlocks
    BY <1>1 DEF HeldBlocks
  <2>3. /\ CallBlocks(t) \subseteq DOMAIN hdr /\ CallBlocks(t) \cap HeldBlocks = {}
        /\ HeldBlocks \subseteq DOMAIN hdr
    BY DEF HeapInv, OwnersInv
  <2> QED
    BY <1>2, <1>3, <1>8, <2>1, <2>2, <2>3, OwnersAfter DEF HeapInv
<1>12. ChunksInv'
  <2>1. call'[t].blk = b /\ \A u \in Threads \ {t} : call'[u] = call[u]
    BY <1>2, <1>6, AfterStep DEF HeapInv
  <2>2. InHand(t)' = BlockBytes(hdr[b])
    BY <1>2, <1>5, <1>6, HandAfter DEF HeapInv, HandAt
  <2> QED
    BY <1>1, <1>2, <1>3, <2>1, <2>2, ChunkLosesHeader DEF HeapInv, ControlInv, StepTo
<1> QED
  BY <1>8, <1>9, <1>10, <1>11, <1>12 DEF HeapInv

LEMMA FreeSlabHeap ==
  ASSUME HeapInv, ControlInv, NEW t \in Threads, FreeSlab(t)
  PROVE  HeapInv'
<1> DEFINE c == call[t]
           b == c.blk
           i == get_freelist_idx(hdr[b].size)
           d == [c EXCEPT !.idx = i]
<1>1. /\ pc[t] = "free" /\ c \in Calls
      /\ ~IS_LARGE(hdr[b])
      /\ hdr' = WithoutHeader(b)
      /\ allocated' = Wrap(allocated - hdr[b].size)
      /\ UNCHANGED <<init_state, freelists, lock, totmem, mapped, live>>
  BY DEF FreeSlab, HeapInv, TypeOK
<1>2. GivenBlock("free", c) = {b} /\ b \in CallBlocks(t) /\ b \in DOMAIN hdr
  BY <1>1 DEF GivenBlock, CallBlocks, HeapInv, OwnersInv
<1>3. b \in BlockAddrs /\ hdr[b].size \in Int /\ HeaderTrue(b, hdr[b])
  BY <1>2 DEF HeapInv, TypeOK, Headers, SizeT, HeadersInv
<1>4. i \in Freelists /\ BlockBytes(hdr[b]) = pow2(i)
  BY <1>1, <1>3 DEF HeaderTrue, BlockBytes
<1>5. StepTo(t, "free_lock", d)
  BY <1>4 DEF FreeSlab, Goto, StepTo
<1>6. /\ d.op = c.op /\ d.ptr = c.ptr /\ d.size = c.size /\ d.ret = c.ret /\ d.blk = b
      /\ d.idx = i /\ d \in Calls
  BY <1>1, <1>4, IdxSet
<1>7. LocalsAt("free", c, freelists, hdr)
  BY <1>1 DEF HeapInv, LocalsInv
<1> HIDE DEF d, i
<1>8. /\ DOMAIN hdr' = DOMAIN hdr \ {b}
      /\ DOMAIN hdr' \subseteq BlockAddrs
      /\ \A x \in DOMAIN hdr' : hdr'[x] \in Headers
      /\ \A u \in Threads \ {t} : \A x \in CallBlocks(u) : hdr'[x] = hdr[x]
      /\ HeadersInv'
  BY <1>1, <1>2, HeaderGone
<1>9. TypeOK'
  <2>1. allocated' \in SizeT
    BY <1>1, <1>3, WrapType DEF HeapInv, TypeOK, SizeT
  <2>2. SharedTypeOK'
    BY <1>1, <1>8, <2>1 DEF HeapInv, TypeOK, SharedTypeOK
  <2> QED
    BY <1>5, <1>6, <2>2, TypeAfter DEF HeapInv, Labels
<1>10. LocalsInv'
  <2>1. LocalsAt("free_lock", d, freelists', hdr')
    BY <1>3, <1>4, <1>6, <1>7 DEF LocalsAt, Asking, SlabWay, FreeWay
  <2> QED
    BY <1>1, <1>5, <1>8, <2>1, LocalsAfter
<1>11. OwnersInv'
  <2>1. /\ GivenBlock("free_lock", d) \subseteq {} /\ b \notin NewBlock("free_lock", d)
        /\ NewBlock("free_lock", d) \subseteq CallBlocks(t)
    <3>1. GivenBlock("free_lock", d) = {}
      BY DEF GivenBlock, Asking, SlabWay
    <3>2. NewBlock("free_lock", d) = NewBlock("free", c)
      BY <1>6 DEF NewBlock
    <3>3. GivenBlock("free", c) \cap NewBlock("free", c) = {}
      BY <1>1 DEF HeapInv, OwnersInv
    <3> QED
      BY <1>1, <1>2, <3>1, <3>2, <3>3 DEF CallBlocks
  <2>2. HeldBlocks' = HeldBlocks
    BY <1>1 DEF HeldBlocks
  <2>3. /\ CallBlocks(t) \subseteq DOMAIN hdr /\ CallBlocks(t) \cap HeldBlocks = {}
        /\ HeldBlocks \subseteq DOMAIN hdr
    BY DEF HeapInv, OwnersInv
  <2> QED
    BY <1>2, <1>5, <1>8, <2>1, <2>2, <2>3, OwnersAfter DEF HeapInv
<1>12. ChunksInv'
  <2>1. call'[t].blk = b /\ \A u \in Threads \ {t} : call'[u] = call[u]
    BY <1>5, <1>6, AfterStep DEF HeapInv
  <2>2. InHand(t)' = BlockBytes(hdr[b])
    BY <1>4, <1>5, <1>6, HandAfter DEF HeapInv, HandAt
  <2> QED
    BY <1>1, <1>2, <1>5, <2>1, <2>2, ChunkLosesHeader DEF HeapInv, ControlInv, StepTo
<1> QED
  BY <1>8, <1>9, <1>10, <1>11, <1>12 DEF HeapInv

LEMMA UnmapHeap ==
  ASSUME HeapInv, ControlInv, NEW t \in Threads, Unmap(t)
  PROVE  HeapInv'
<1> DEFINE c == call[t]
<1>1. /\ pc[t] = "free_unmap" /\ StepTo(t, "done", c) /\ c \in Calls
      /\ mapped' = mapped \ PagesOf(c.blk, c.alloc_size)
      /\ UNCHANGED <<init_state, freelists, lock, allocated, totmem, hdr, live>>
  BY SameCall DEF Unmap, Move, HeapInv
<1>2. LocalsAt("free_unmap", c, freelists, hdr)
  BY <1>1 DEF HeapInv, LocalsInv
<1>3. /\ c.blk \in HeapPages /\ WholePages(c.blk, c.alloc_size) /\ c.alloc_size # 0
      /\ InHand(t) = c.alloc_size /\ InHand(t)' = 0
  BY <1>1, <1>2, HandAfter DEF LocalsAt, WholePages, HandAt, HeapInv
<1>4. TypeOK'
  <2>1. SharedTypeOK'
    BY <1>1 DEF HeapInv, TypeOK, SharedTypeOK
  <2> QED
    BY <1>1, <2>1, TypeAfter DEF HeapInv, Labels
<1>5. LocalsInv'
  <2>1. LocalsAt("done", c, freelists', hdr')
    BY DEF LocalsAt, Asking, SlabWay, FreeWay
  <2> QED
    BY <1>1, <2>1, LocalsAfter
<1>6. HeadersInv'
  BY <1>1 DEF HeapInv, HeadersInv
<1>7. OwnersInv'
  <2>1. GivenBlock("done", c) = {} /\ NewBlock("done", c) = NewBlock("free_unmap", c)
    BY <1>2 DEF LocalsAt, GivenBlock, NewBlock, FreeWay, Asking, SlabWay
  <2>2. HeldBlocks' = HeldBlocks
    BY <1>1 DEF HeldBlocks
  <2>3. NewBlock("free_unmap", c) \subseteq CallBlocks(t)
    BY <1>1 DEF CallBlocks
  <2> QED
    BY <1>1, <2>1, <2>2, <2>3, OwnersAfter DEF HeapInv, OwnersInv
<1>8. ChunksInv'
  <2>1. \A u \in Threads \ {t} : call'[u] = call[u]
    BY <1>1, AfterStep DEF HeapInv
  <2> QED
    BY <1>1, <1>3, <2>1, ChunkToOS DEF HeapInv, ControlInv, StepTo
<1> QED
  BY <1>4, <1>5, <1>6, <1>7, <1>8 DEF HeapInv

LEMMA ResizeAddHeap ==
  ASSUME HeapInv, ControlInv, NEW t \in Threads, ResizeAdd(t)
  PROVE  HeapInv'
<1> DEFINE c == call[t]
           b == HdrOf(c.ptr)
<1>1. /\ pc[t] = "realloc_add" /\ StepTo(t, "done", c) /\ c \in Calls
      /\ allocated' = Wrap(allocated + c.size)
      /\ hdr' = [hdr EXCEPT ![b].size = c.size]
      /\ UNCHANGED <<init_state, freelists, lock, totmem, mapped, live>>
  BY SameCall DEF ResizeAdd, Move, HeapInv
<1>2. LocalsAt("realloc_add", c, freelists, hdr)
  BY <1>1 DEF HeapInv, LocalsInv
<1>3. /\ c.ret # NULL /\ c.ret = c.ptr /\ ~IS_LARGE(hdr[b])
      /\ get_freelist_idx(c.size) = get_freelist_idx(hdr[b].size)
  BY <1>2 DEF LocalsAt, StaysInPlace
<1>4. NewBlock("realloc_add", c) = {b} /\ b \in CallBlocks(t) /\ b \in DOMAIN hdr
  BY <1>1, <1>3 DEF NewBlock, CallBlocks, HeapInv, OwnersInv
<1>5. hdr[b] \in Headers
  BY <1>4 DEF HeapInv, TypeOK
<1>6. /\ DOMAIN hdr' = DOMAIN hdr
      /\ \A x \in DOMAIN hdr : x # b => hdr'[x] = hdr[x]
      /\ hdr'[b].alloc_size = hdr[b].alloc_size /\ hdr'[b].size = c.size
      /\ hdr'[b] \in Headers
  BY <1>1, <1>4, <1>5 DEF Headers, Calls
<1>7. \A x \in DOMAIN hdr : BlockBytes(hdr'[x]) = BlockBytes(hdr[x])
  BY <1>3, <1>6 DEF BlockBytes, IS_LARGE
<1>8. TypeOK'
  <2>1. allocated' \in SizeT
    BY <1>1, WrapType DEF HeapInv, TypeOK, SizeT, Calls
  <2>2. SharedTypeOK'
    BY <1>1, <1>6, <2>1 DEF HeapInv, TypeOK, SharedTypeOK
  <2> QED
    BY <1>1, <2>2, TypeAfter DEF HeapInv, Labels
<1>9. LocalsInv'
  <2>1. LocalsAt("done", c, freelists', hdr')
    BY DEF LocalsAt, Asking, SlabWay, FreeWay
  <2>2. \A u \in Threads \ {t} : \A x \in CallBlocks(u) : hdr'[x] = hdr[x]
    BY <1>4, <1>6, OthersHeaders DEF HeapInv
  <2> QED
    BY <1>1, <2>1, <2>2, LocalsAfter
<1>10. HeadersInv'
  <2> SUFFICES ASSUME NEW x \in DOMAIN hdr PROVE HeaderTrue(x, hdr'[x])
    BY <1>6 DEF HeadersInv
  <2>1. HeaderTrue(x, hdr[x])
    BY DEF HeapInv, HeadersInv
  <2> QED
    BY <1>3, <1>6, <2>1 DEF HeaderTrue, IS_LARGE
<1>11. OwnersInv'
  <2>1. GivenBlock("done", c) = {} /\ NewBlock("done", c) = {b}
    BY <1>3 DEF GivenBlock, NewBlock, Asking, SlabWay
  <2>2. HeldBlocks' = HeldBlocks
    BY <1>1 DEF HeldBlocks
  <2> QED
    BY <1>1, <1>4, <1>6, <2>1, <2>2, OwnersAfter DEF HeapInv, OwnersInv
<1>12. ChunksInv'
  <2>1. InHand(t)' = 0
    BY <1>1, HandAfter DEF HeapInv, HandAt
  <2>2. \A u \in Threads \ {t} : call'[u] = call[u]
    BY <1>1, AfterStep DEF HeapInv
  <2>3. HandChunks' \subseteq HandChunks
    BY <1>1, <2>1, <2>2, HandsAfter DEF ControlInv, StepTo
  <2>4. FreeChunks' = FreeChunks
    BY <1>1 DEF FreeChunks
  <2>5. UsedChunks' = UsedChunks
    BY <1>6, <1>7 DEF UsedChunks
  <2> QED
    BY <1>1, <2>3, <2>4, <2>5, ChunksStay DEF HeapInv, ChunksInv, Chunks
<1> QED
  BY <1>8, <1>9, <1>10, <1>11, <1>12 DEF HeapInv

--------------------------------------------------------------------------------
(***************************************************************************)
(* The steps under a list's lock.                                          *)
(***************************************************************************)

\* A new list for the bucket whose lock t holds.
LEMMA ListChanges ==
  ASSUME HeapInv, ControlInv, NEW t \in Threads, pc[t] \in Section,
         NEW list \in Seq(BlockAddrs), IsInjective(list),
         freelists' = [freelists EXCEPT ![call[t].idx] = list]
  PROVE  /\ call[t].idx \in Freelists /\ freelists'[call[t].idx] = list
         /\ \A j \in Freelists \ {call[t].idx} : freelists'[j] = freelists[j]
         /\ freelists' \in [Freelists -> Seq(BlockAddrs)]
         /\ \A j \in Freelists : IsInjective(freelists'[j])
         /\ \A u \in Threads \ {t} :
              pc[u] \in {"carve", "pop"} => freelists'[call[u].idx] = freelists[call[u].idx]
<1>1. call[t].idx \in Freelists
  BY DEF ControlInv, HoldsLock
<1>2. freelists \in [Freelists -> Seq(BlockAddrs)]
  BY DEF HeapInv, TypeOK
<1>3. \A j \in Freelists : IsInjective(freelists[j])
  BY DEF HeapInv, ChunksInv
<1>4. /\ freelists'[call[t].idx] = list
      /\ \A j \in Freelists \ {call[t].idx} : freelists'[j] = freelists[j]
  BY <1>1, <1>2
<1>5. freelists' \in [Freelists -> Seq(BlockAddrs)]
  BY <1>1, <1>2
<1>6. \A j \in Freelists : IsInjective(freelists'[j])
  BY <1>3, <1>4
<1>7. \A u \in Threads \ {t} :
        pc[u] \in {"carve", "pop"} => freelists'[call[u].idx] = freelists[call[u].idx]
  BY <1>4, OthersLists
<1> QED
  BY <1>1, <1>4, <1>5, <1>6, <1>7

LEMMA CarvePageHeap ==
  ASSUME HeapInv, ControlInv, NEW t \in Threads, CarvePage(t)
  PROVE  HeapInv'
<1> DEFINE c     == call[t]
           i     == c.idx
           page  == c.blk
           bytes == pow2(i)
           list  == CarvedPage(page, PAGE_BYTES, bytes)
<1>1. /\ pc[t] = "carve" /\ StepTo(t, "pop", c) /\ c \in Calls
      /\ totmem' = Wrap(totmem + PAGE_BYTES)
      /\ freelists' = [freelists EXCEPT ![i] = list \o @]
      /\ UNCHANGED <<init_state, lock, allocated, mapped, hdr, live>>
  BY SameCall DEF CarvePage, Move, HeapInv
<1>2. LocalsAt("carve", c, freelists, hdr)
  BY <1>1 DEF HeapInv, LocalsInv
<1>3. i \in Freelists /\ page \in HeapPages /\ freelists[i] = <<>>
  BY <1>2 DEF LocalsAt, SlabWay
<1>4. bytes \in BlockLengths /\ bytes \in Nat \ {0}
  BY <1>3, BlockSizes, FreelistNumbers DEF BlockLengths
<1>5. page \in Nat /\ page % 4096 = 0 /\ page >= 4096 /\ page + 4096 <= HeapEnd
  BY <1>3, HeapNumbers
<1>6. /\ list \in Seq(Int) /\ list # <<>> /\ IsInjective(list)
      /\ \A a \in Range(list) : /\ a \in Nat /\ (page % 32 = 0 => a % 32 = 0)
                               /\ page <= a /\ a + bytes <= page + 4096
      /\ \A a, b \in Range(list) : a = b \/ a + bytes <= b \/ b + bytes <= a
  <2>1. PAGE_BYTES = 4096
    BY HeapNumbers
  <2>2. BlocksOfPage(list, page, bytes)
    BY <1>4, <1>5, <2>1, CarvedPageBlocks
  <2> QED
    BY <2>2 DEF BlocksOfPage
<1> HIDE DEF list
<1>7. \A a \in Range(list) : a \in BlockAddrs
  <2> SUFFICES ASSUME NEW a \in Range(list) PROVE a \in BlockAddrs
    OBVIOUS
  <2>1. page % 32 = 0 /\ bytes \in Nat /\ bytes > 0
    BY <1>4, <1>5
  <2>2. a \in Nat /\ a % 32 = 0 /\ page <= a /\ a + bytes <= page + 4096
    BY <1>6, <2>1
  <2>3. a >= 4096 /\ a < HeapEnd /\ HeapEnd \in Nat
    BY <1>5, <2>1, <2>2, HeapNumbers
  <2> QED
    BY <2>2, <2>3, HeapNumbers, BlockSizes DEF BlockAddrs
<1>8. list \in Seq(BlockAddrs)
  <2>1. /\ Len(list) \in Nat /\ DOMAIN list = 1..Len(list)
        /\ list = [k \in 1..Len(list) |-> list[k]]
    BY <1>6
  <2>2. \A k \in 1..Len(list) : list[k] \in BlockAddrs
    BY <1>7, <2>1 DEF Range
  <2> QED
    BY <2>1, <2>2
<1>9. freelists' = [freelists EXCEPT ![i] = list]
  <2>1. list \o <<>> = list
    BY <1>6
  <2> QED
    BY <1>1, <1>3, <2>1 DEF HeapInv, TypeOK
<1>10. /\ freelists'[i] = list
       /\ \A j \in Freelists \ {i} : freelists'[j] = freelists[j]
       /\ freelists' \in [Freelists -> Seq(BlockAddrs)]
       /\ \A j \in Freelists : IsInjective(freelists'[j])
       /\ \A u \in Threads \ {t} :
            pc[u] \in {"carve", "pop"} => freelists'[call[u].idx] = freelists[call[u].idx]
  <2>1. IsInjective(list)
    BY <1>6
  <2> QED
    BY <1>1, <1>8, <1>9, <2>1, ListChanges DEF Section
<1>11. TypeOK'
  <2>1. totmem' \in SizeT
    BY <1>1, WrapType, HeapNumbers DEF HeapInv, TypeOK, SizeT
  <2>2. SharedTypeOK'
    BY <1>1, <1>10, <2>1 DEF HeapInv, TypeOK, SharedTypeOK
  <2> QED
    BY <1>1, <2>2, TypeAfter DEF HeapInv, Labels
<1>12. LocalsInv'
  <2>1. LocalsAt("pop", c, freelists', hdr')
    BY <1>2, <1>6, <1>10 DEF LocalsAt, Asking, SlabWay, FreeWay
  <2> QED
    BY <1>1, <1>10, <2>1, LocalsAfter
<1>13. HeadersInv'
  BY <1>1 DEF HeapInv, HeadersInv
<1>14. OwnersInv'
  <2>1. /\ GivenBlock("pop", c) = GivenBlock("carve", c)
        /\ NewBlock("pop", c) = NewBlock("carve", c)
    BY DEF GivenBlock, NewBlock, Asking, SlabWay
  <2>2. HeldBlocks' = HeldBlocks
    BY <1>1 DEF HeldBlocks
  <2>3. /\ GivenBlock("carve", c) \cap NewBlock("carve", c) = {}
        /\ CallBlocks(t) = GivenBlock("carve", c) \cup NewBlock("carve", c)
    BY <1>1 DEF HeapInv, OwnersInv, CallBlocks
  <2> QED
    BY <1>1, <2>1, <2>2, <2>3, OwnersAfter DEF HeapInv, OwnersInv
<1>15. ChunksInv'
  <2> DEFINE p == Chunk("thread", t, page, PAGE_BYTES)
             D == {Chunk("list", i, a, bytes) : a \in Range(list)}
  <2>1. InHand(t) = PAGE_BYTES /\ InHand(t)' = 0 /\ PAGE_BYTES # 0
    BY <1>1, HandAfter DEF HeapInv, HandAt, PAGE_BYTES
  <2>2. p \in Chunks
    BY <2>1 DEF Chunks, HandChunks
  <2>3. ASSUME NEW x \in Chunks' PROVE x \in (Chunks \ {p}) \cup D
    <3>1. CASE x \in FreeChunks'
      <4>1. PICK j \in Freelists : \E a \in Range(freelists'[j]) : x = Chunk("list", j, a, pow2(j))
        BY <3>1 DEF FreeChunks
      <4>2. PICK a \in Range(freelists'[j]) : x = Chunk("list", j, a, pow2(j))
        BY <4>1
      <4>3. CASE j = i
        BY <1>10, <4>2, <4>3
      <4>4. CASE j # i
        <5>1. x \in FreeChunks
          BY <1>10, <4>2, <4>4 DEF FreeChunks
        <5> QED
          BY <4>2, <5>1 DEF Chunks, Chunk
      <4> QED
        BY <4>3, <4>4
    <3>2. CASE x \in UsedChunks'
      BY <1>1, <3>2 DEF Chunks, UsedChunks, Chunk
    <3>3. CASE x \in HandChunks'
      <4>1. \A u \in Threads \ {t} : call'[u] = call[u]
        BY <1>1, AfterStep DEF HeapInv
      <4>2. x \in HandChunks /\ x.of # t
        BY <1>1, <2>1, <3>3, <4>1, HandsAfter DEF ControlInv, StepTo
      <4> QED
        BY <4>2 DEF Chunks, Chunk
    <3> QED
      BY <3>1, <3>2, <3>3 DEF Chunks
  <2>4. Apart(D)
    <3> SUFFICES ASSUME NEW a \in Range(list), NEW b \in Range(list)
                 PROVE  \/ Chunk("list", i, a, bytes) = Chunk("list", i, b, bytes)
                        \/ Disjoint(Chunk("list", i, a, bytes), Chunk("list", i, b, bytes))
      BY DEF Apart
    <3>1. a = b \/ a + bytes <= b \/ b + bytes <= a
      BY <1>6
    <3> QED
      BY <3>1 DEF Disjoint, Chunk
  <2>5. \A e \in D : /\ e.base \in BlockAddrs /\ e.bytes \in Nat \ {0}
                     /\ p.base <= e.base /\ e.base + e.bytes <= p.base + p.bytes
    <3> SUFFICES ASSUME NEW a \in Range(list)
                 PROVE  /\ a \in BlockAddrs /\ bytes \in Nat \ {0}
                        /\ page <= a /\ a + bytes <= page + PAGE_BYTES
      BY DEF Chunk
    <3> QED
      BY <1>4, <1>6, <1>7, HeapNumbers
  <2> HIDE DEF p, D
  <2> QED
    BY <1>1, <1>10, <2>2, <2>3, <2>4, <2>5, ChunkMoves DEF HeapInv
<1> QED
  BY <1>11, <1>12, <1>13, <1>14, <1>15 DEF HeapInv

LEMMA TakeFirstHeap ==
  ASSUME HeapInv, ControlInv, NEW t \in Threads, TakeFirst(t)
  PROVE  HeapInv'
<1> DEFINE c    == call[t]
           i    == c.idx
           list == freelists[i]
           d    == [c EXCEPT !.blk = Head(list)]
<1>1. /\ pc[t] = "pop" /\ StepTo(t, "write_header", d) /\ c \in Calls
      /\ freelists' = [freelists EXCEPT ![i] = Tail(list)]
      /\ lock' = [lock EXCEPT ![i] = NoThread]
      /\ UNCHANGED <<init_state, allocated, totmem, mapped, hdr, live>>
  BY DEF TakeFirst, Move, Goto, StepTo, Unlock, HeapInv, TypeOK
<1>2. LocalsAt("pop", c, freelists, hdr)
  BY <1>1 DEF HeapInv, LocalsInv
<1>3. i \in Freelists /\ list # <<>> /\ list \in Seq(BlockAddrs) /\ IsInjective(list)
  BY <1>2 DEF LocalsAt, SlabWay, HeapInv, TypeOK, ChunksInv
<1>4. Tail(list) \in Seq(BlockAddrs) /\ IsInjective(Tail(list)) /\ Head(list) \in BlockAddrs
  BY <1>3, TailNodes
<1>5. /\ freelists' \in [Freelists -> Seq(BlockAddrs)]
      /\ \A u \in Threads \ {t} :
           pc[u] \in {"carve", "pop"} => freelists'[call[u].idx] = freelists[call[u].idx]
  BY <1>1, <1>4, ListChanges DEF Section
<1>6. /\ d.op = c.op /\ d.ptr = c.ptr /\ d.size = c.size /\ d.idx = i /\ d.ret = c.ret
      /\ d.blk = Head(list) /\ d \in Calls
  BY <1>1, <1>4, BlkSet
<1> HIDE DEF d
<1>7. TypeOK'
  <2>1. SharedTypeOK'
    BY <1>1, <1>5 DEF HeapInv, TypeOK, SharedTypeOK
  <2> QED
    BY <1>1, <1>6, <2>1, TypeAfter DEF HeapInv, Labels
<1>8. LocalsInv'
  <2>1. LocalsAt("write_header", d, freelists', hdr')
    BY <1>2, <1>4, <1>6 DEF LocalsAt, Asking, SlabWay, FreeWay
  <2> QED
    BY <1>1, <1>5, <2>1, LocalsAfter
<1>9. HeadersInv'
  BY <1>1 DEF HeapInv, HeadersInv
<1>10. OwnersInv'
  <2>1. /\ GivenBlock("write_header", d) = GivenBlock("pop", c)
        /\ NewBlock("write_header", d) = NewBlock("pop", c)
    BY <1>6 DEF GivenBlock, NewBlock, Asking, SlabWay
  <2>2. HeldBlocks' = HeldBlocks
    BY <1>1 DEF HeldBlocks
  <2>3. /\ GivenBlock("pop", c) \cap NewBlock("pop", c) = {}
        /\ CallBlocks(t) = GivenBlock("pop", c) \cup NewBlock("pop", c)
    BY <1>1 DEF HeapInv, OwnersInv, CallBlocks
  <2> QED
    BY <1>1, <2>1, <2>2, <2>3, OwnersAfter DEF HeapInv, OwnersInv
<1> QED
  BY <1>7, <1>8, <1>9, <1>10, TakeFirstChunks DEF HeapInv

LEMMA FreeInsertHeap ==
  ASSUME HeapInv, ControlInv, NEW t \in Threads, FreeInsert(t)
  PROVE  HeapInv'
<1> DEFINE c == call[t]
           i == c.idx
           b == c.blk
           list == freelists[i]
<1>1. PICK k \in 0..Len(list) :
        freelists' = [freelists EXCEPT ![i] = OrderedInsert(@, b, k)]
  BY DEF FreeInsert
<1>2. /\ pc[t] = "free_insert" /\ StepTo(t, "done", c) /\ c \in Calls
      /\ lock' = [lock EXCEPT ![i] = NoThread]
      /\ UNCHANGED <<init_state, allocated, totmem, mapped, hdr, live>>
  BY SameCall DEF FreeInsert, Move, Unlock, HeapInv
<1>3. LocalsAt("free_insert", c, freelists, hdr)
  BY <1>2 DEF HeapInv, LocalsInv
<1>4. i \in Freelists /\ b \in BlockAddrs
  BY <1>3 DEF LocalsAt
<1>5. list \in Seq(BlockAddrs) /\ IsInjective(list)
  BY <1>4 DEF HeapInv, TypeOK, ChunksInv
<1>6. pow2(i) \in Nat \ {0} /\ InHand(t) = pow2(i) /\ InHand(t)' = 0
  <2>1. pow2(i) \in Nat \ {0}
    BY <1>4, BlockSizes, FreelistNumbers
  <2> QED
    BY <1>2, <2>1, HandAfter DEF HeapInv, HandAt
<1>7. b \notin Range(list)
  BY <1>4, <1>6, InHandAlone DEF HeapInv
<1> DEFINE new == OrderedInsert(list, b, k)
<1>8. new \in Seq(BlockAddrs) /\ Range(new) = Range(list) \cup {b} /\ IsInjective(new)
  BY <1>4, <1>5, <1>7, InsertNodes
<1> HIDE DEF new
<1>9. freelists' = [freelists EXCEPT ![i] = new]
  BY <1>1 DEF new
<1>10. /\ freelists'[i] = new
       /\ \A j \in Freelists \ {i} : freelists'[j] = freelists[j]
       /\ freelists' \in [Freelists -> Seq(BlockAddrs)]
       /\ \A j \in Freelists : IsInjective(freelists'[j])
       /\ \A u \in Threads \ {t} :
            pc[u] \in {"carve", "pop"} => freelists'[call[u].idx] = freelists[call[u].idx]
  BY <1>2, <1>8, <1>9, ListChanges DEF Section
<1>11. TypeOK'
  <2>1. SharedTypeOK'
    BY <1>2, <1>10 DEF HeapInv, TypeOK, SharedTypeOK
  <2> QED
    BY <1>2, <2>1, TypeAfter DEF HeapInv, Labels
<1>12. LocalsInv'
  <2>1. LocalsAt("done", c, freelists', hdr')
    BY DEF LocalsAt, Asking, SlabWay, FreeWay
  <2> QED
    BY <1>2, <1>10, <2>1, LocalsAfter
<1>13. HeadersInv'
  BY <1>2 DEF HeapInv, HeadersInv
<1>14. OwnersInv'
  <2>1. GivenBlock("done", c) = {} /\ NewBlock("done", c) = NewBlock("free_insert", c)
    BY <1>3 DEF LocalsAt, GivenBlock, NewBlock, FreeWay, Asking, SlabWay
  <2>2. HeldBlocks' = HeldBlocks
    BY <1>2 DEF HeldBlocks
  <2>3. NewBlock("free_insert", c) \subseteq CallBlocks(t)
    BY <1>2 DEF CallBlocks
  <2> QED
    BY <1>2, <2>1, <2>2, <2>3, OwnersAfter DEF HeapInv, OwnersInv
<1>15. ChunksInv'
  <2> DEFINE p == Chunk("thread", t, b, pow2(i))
             e == Chunk("list", i, b, pow2(i))
  <2>1. p \in Chunks
    BY <1>6 DEF Chunks, HandChunks
  <2>2. ASSUME NEW x \in Chunks' PROVE x \in (Chunks \ {p}) \cup {e}
    <3>1. CASE x \in FreeChunks'
      <4>1. PICK j \in Freelists : \E a \in Range(freelists'[j]) : x = Chunk("list", j, a, pow2(j))
        BY <3>1 DEF FreeChunks
      <4>2. PICK a \in Range(freelists'[j]) : x = Chunk("list", j, a, pow2(j))
        BY <4>1
      <4>3. CASE a = b /\ j = i
        BY <4>2, <4>3
      <4>4. CASE ~(a = b /\ j = i)
        <5>1. a \in Range(freelists[j])
          BY <1>8, <1>10, <4>2, <4>4
        <5>2. x \in FreeChunks
          BY <4>2, <5>1 DEF FreeChunks
        <5> QED
          BY <4>2, <5>2 DEF Chunks, Chunk
      <4> QED
        BY <4>3, <4>4
    <3>2. CASE x \in UsedChunks'
      BY <1>2, <3>2 DEF Chunks, UsedChunks, Chunk
    <3>3. CASE x \in HandChunks'
      <4>1. \A u \in Threads \ {t} : call'[u] = call[u]
        BY <1>2, AfterStep DEF HeapInv
      <4>2. x \in HandChunks /\ x.of # t
        BY <1>2, <1>6, <3>3, <4>1, HandsAfter DEF ControlInv, StepTo
      <4> QED
        BY <4>2 DEF Chunks, Chunk
    <3> QED
      BY <3>1, <3>2, <3>3 DEF Chunks
  <2>3. Apart({e})
    BY DEF Apart
  <2>4. \A x \in {e} : /\ x.base \in BlockAddrs /\ x.bytes \in Nat \ {0}
                       /\ p.base <= x.base /\ x.base + x.bytes <= p.base + p.bytes
    BY <1>4, <1>6, AddressRange DEF Chunk
  <2> HIDE DEF p, e
  <2> QED
    BY <1>2, <1>10, <2>1, <2>2, <2>3, <2>4, ChunkMoves DEF HeapInv
<1> QED
  BY <1>11, <1>12, <1>13, <1>14, <1>15 DEF HeapInv

--------------------------------------------------------------------------------
LEMMA HeapInit == Init => HeapInv
<1> SUFFICES ASSUME Init PROVE HeapInv
  OBVIOUS
<1>1. NoCall \in Calls /\ NoCall.ret = NULL /\ NoCall.op = "none"
  BY FreelistNumbers, PlatformAssumption DEF NoCall, NewCall, Calls, NULL, SizeT, PlatformAssumption
<1>2. TypeOK
  <2>1. 0 \in SizeT
    BY PlatformAssumption DEF SizeT, PlatformAssumption
  <2>2. freelists \in [Freelists -> Seq(BlockAddrs)]
    BY DEF Init
  <2> QED
    BY <1>1, <2>1, <2>2 DEF Init, TypeOK, Labels
<1>3. LocalsInv
  BY DEF Init, LocalsInv, LocalsAt, Asking, SlabWay, FreeWay
<1>4. HeadersInv
  BY DEF Init, HeadersInv
<1>5. OwnersInv
  BY <1>1 DEF Init, OwnersInv, HeldBlocks, CallBlocks, GivenBlock, NewBlock
<1>6. ChunksInv
  <2>1. \A i \in Freelists : freelists[i] = <<>> /\ Range(freelists[i]) = {}
    BY DEF Init, Range
  <2>2. FreeChunks = {}
    BY <2>1 DEF FreeChunks
  <2>3. UsedChunks = {}
    BY DEF Init, UsedChunks
  <2>4. HandChunks = {}
    BY DEF Init, HandChunks, InHand
  <2>5. \A i \in Freelists : IsInjective(freelists[i])
    BY <2>1 DEF IsInjective
  <2> QED
    BY <2>2, <2>3, <2>4, <2>5 DEF ChunksInv, Chunks, Apart
<1> QED
  BY <1>2, <1>3, <1>4, <1>5, <1>6 DEF HeapInv

LEMMA HeapCall ==
  ASSUME HeapInv, ControlInv, NEW t \in Threads, Call(t)
  PROVE  HeapInv'
<1>1. /\ MallocSizes \subseteq SizeT
      /\ CallocArgs \subseteq SizeT \X SizeT
      /\ ReallocSizes \subseteq SizeT
  BY ClientAssumption DEF ClientAssumption
<1>2. CASE \E size \in MallocSizes : p2malloc(t, size)
  BY <1>1, <1>2, p2mallocHeap
<1>3. CASE \E args \in CallocArgs : p2calloc(t, args[1], args[2])
  BY <1>1, <1>3, p2callocHeap
<1>4. CASE \E ptr \in live : p2free(t, ptr)
  BY <1>4, p2freeHeap
<1>5. CASE \E ptr \in live \cup {NULL}, size \in ReallocSizes : p2realloc(t, ptr, size)
  BY <1>1, <1>5, p2reallocHeap
<1> QED
  BY <1>2, <1>3, <1>4, <1>5 DEF Call

LEMMA HeapStutter ==
  ASSUME HeapInv, UNCHANGED vars
  PROVE  HeapInv'
<1> USE DEF HeapInv, vars
<1>1. TypeOK' /\ LocalsInv' /\ HeadersInv'
  BY DEF TypeOK, LocalsInv, HeadersInv
<1>2. OwnersInv'
  BY DEF OwnersInv, HeldBlocks, CallBlocks
<1>3. Chunks' = Chunks
  BY DEF Chunks, FreeChunks, UsedChunks, HandChunks, InHand
<1>4. ChunksInv'
  BY <1>3 DEF ChunksInv, Placed
<1> QED
  BY <1>1, <1>2, <1>4

LEMMA HeapStep ==
  ASSUME HeapInv, ControlInv, NEW t \in Threads, Step(t)
  PROVE  HeapInv'
<1>1. CASE CompareAndSwap(t) \/ freelists_init(t) \/ InitReady(t) \/ SpinEnds(t)
  BY <1>1, CompareAndSwapHeap, freelists_initHeap, InitReadyHeap, SpinEndsHeap
<1>2. CASE Spin(t)
  BY <1>2, HeapStutter DEF Spin
<1>3. CASE LargeAlloc(t) \/ LargeAllocFails(t) \/ LargeAddAllocated(t) \/ LargeAddTotmem(t)
  BY <1>3, LargeAllocHeap, LargeAllocFailsHeap, LargeAddAllocatedHeap, LargeAddTotmemHeap
<1>4. CASE SlabLock(t) \/ FreeLock(t)
  BY <1>4, SlabLockHeap, FreeLockHeap
<1>5. CASE ListHasBlock(t) \/ ClaimPage(t) \/ ClaimPageFails(t) \/ CarvePage(t)
           \/ TakeFirst(t) \/ WriteHeader(t)
  BY <1>5, ListHasBlockHeap, ClaimPageHeap, ClaimPageFailsHeap, CarvePageHeap,
     TakeFirstHeap, WriteHeaderHeap
<1>6. CASE FreeLarge(t) \/ SubTotmem(t) \/ Unmap(t) \/ FreeSlab(t) \/ FreeInsert(t)
  BY <1>6, FreeLargeHeap, SubTotmemHeap, UnmapHeap, FreeSlabHeap, FreeInsertHeap
<1>7. CASE ZeroPayload(t) \/ CopyPayload(t) \/ ResizeSub(t) \/ ResizeAdd(t) \/ Return(t)
  BY <1>7, ZeroPayloadHeap, CopyPayloadHeap, ResizeSubHeap, ResizeAddHeap, ReturnHeap
<1> QED
  BY <1>1, <1>2, <1>3, <1>4, <1>5, <1>6, <1>7 DEF Step

\* The heap keeps its owners, its types and its boundaries: what every step of
\* p2malloc, p2calloc, p2realloc and p2free relies on and restores
\* (p2malloc.c:200-310).
THEOREM HeapTheorem == Spec => []HeapInv
<1>1. Init => HeapInv
  BY HeapInit
<1>2. HeapInv /\ ControlInv /\ [Next]_vars => HeapInv'
  BY HeapCall, HeapStep, HeapStutter DEF Next
<1> QED
  BY <1>1, <1>2, ControlTheorem, PTL DEF Spec

\* Every variable keeps its type; every node, block and pointer stays at a block
\* boundary inside the heap (p2malloc.c:122-125, 166-194, 200-310).
THEOREM TypeOKTheorem == Spec => []TypeOK
<1>1. HeapInv => TypeOK
  BY DEF HeapInv
<1> QED
  BY <1>1, HeapTheorem, PTL

\* No byte of the heap ever has two owners, and every chunk is mapped, for any
\* number of threads, pages and sizes and whatever the OS refuses
\* (p2malloc.c:200-310).
THEOREM NoOverlapTheorem == Spec => []NoOverlap
<1>1. HeapInv => NoOverlap
  BY DEF HeapInv, ChunksInv, Apart, Placed, NoOverlap
<1> QED
  BY <1>1, HeapTheorem, PTL

\* The assertion of p2free never fails: a block whose header says that it came
\* from a bucket has one (p2malloc.c:269-270).
THEOREM FreeFindsBucketTheorem == Spec => []FreeFindsBucket
<1>1. HeapInv => FreeFindsBucket
  BY DEF HeapInv, LocalsInv, LocalsAt, FreeFindsBucket
<1> QED
  BY <1>1, HeapTheorem, PTL

--------------------------------------------------------------------------------
(***************************************************************************)
(* What is out of order on a list is the rest of a carved page.            *)
(***************************************************************************)

\* Only these actions touch a list.
LEMMA ListsKept ==
  ASSUME NEW t \in Threads, Call(t) \/ Step(t)
  PROVE  \/ UNCHANGED freelists
         \/ freelists_init(t) \/ CarvePage(t) \/ TakeFirst(t) \/ FreeInsert(t)
<1>1. CASE Call(t)
  BY <1>1 DEF Call, p2malloc, p2calloc, p2free, p2realloc, shared
<1>2. CASE CompareAndSwap(t) \/ InitReady(t) \/ Spin(t) \/ SpinEnds(t)
  BY <1>2 DEF CompareAndSwap, InitReady, Spin, SpinEnds, shared, vars
<1>3. CASE LargeAlloc(t) \/ LargeAllocFails(t) \/ LargeAddAllocated(t) \/ LargeAddTotmem(t)
  BY <1>3 DEF LargeAlloc, LargeAllocFails, LargeAddAllocated, LargeAddTotmem, shared
<1>4. CASE \/ SlabLock(t) \/ ListHasBlock(t) \/ ClaimPage(t) \/ ClaimPageFails(t)
           \/ WriteHeader(t) \/ FreeLock(t)
  BY <1>4 DEF SlabLock, FreeLock, Acquire, ListHasBlock, ClaimPage, ClaimPageFails,
     WriteHeader, shared
<1>5. CASE FreeLarge(t) \/ SubTotmem(t) \/ Unmap(t) \/ FreeSlab(t)
  BY <1>5 DEF FreeLarge, SubTotmem, Unmap, FreeSlab
<1>6. CASE ZeroPayload(t) \/ CopyPayload(t) \/ ResizeSub(t) \/ ResizeAdd(t) \/ Return(t)
  BY <1>6 DEF ZeroPayload, CopyPayload, ResizeSub, ResizeAdd, Return, shared
<1> QED
  BY <1>1, <1>2, <1>3, <1>4, <1>5, <1>6 DEF Step

\* A step that changes one list leaves the runs of the others alone.
LEMMA OneListChanges ==
  ASSUME HeapInv, ListsInRuns, NEW i \in Freelists, NEW list,
         freelists' = [freelists EXCEPT ![i] = list], DescentsAreRuns(list, pow2(i))
  PROVE  ListsInRuns'
<1> SUFFICES ASSUME NEW j \in Freelists PROVE DescentsAreRuns(freelists'[j], pow2(j))
  BY DEF ListsInRuns
<1>1. freelists \in [Freelists -> Seq(BlockAddrs)]
  BY DEF HeapInv, TypeOK
<1>2. freelists'[j] = IF j = i THEN list ELSE freelists[j]
  BY <1>1
<1> QED
  BY <1>2 DEF ListsInRuns

LEMMA freelists_initRuns ==
  ASSUME NEW t \in Threads, freelists_init(t)
  PROVE  ListsInRuns'
<1>1. \A i \in Freelists : freelists'[i] = <<>>
  BY DEF freelists_init
<1>2. DOMAIN <<>> = {}
  OBVIOUS
<1> QED
  BY <1>1, <1>2, Zenon DEF ListsInRuns, DescentsAreRuns

LEMMA CarvePageRuns ==
  ASSUME HeapInv, ListsInRuns, NEW t \in Threads, CarvePage(t)
  PROVE  ListsInRuns'
<1> DEFINE i    == call[t].idx
           page == call[t].blk
           list == CarvedPage(page, PAGE_BYTES, pow2(i))
<1>1. i \in Freelists /\ page \in HeapPages /\ freelists[i] = <<>>
  BY DEF CarvePage, Move, HeapInv, LocalsInv, LocalsAt, SlabWay
<1>2. freelists' = [freelists EXCEPT ![i] = list \o @]
  BY DEF CarvePage
<1>3. page \in Nat /\ PAGE_BYTES \in Nat /\ pow2(i) \in Nat \ {0}
  <2>1. page \in Nat /\ PAGE_BYTES \in Nat
    BY <1>1, HeapNumbers
  <2>2. pow2(i) \in Nat \ {0}
    BY <1>1, BlockSizes, FreelistNumbers
  <2> QED
    BY <2>1, <2>2
<1>4. DescentsAreRuns(list, pow2(i))
  BY <1>3, CarvedIsRun, Zenon
<1>5. list \in Seq(Int)
  <2>1. pow2(i) \in BlockLengths
    BY <1>1, BlockSizes, FreelistNumbers DEF BlockLengths
  <2>2. BlocksOfPage(list, page, pow2(i))
    BY <1>3, <2>1, CarvedPageBlocks DEF PAGE_BYTES
  <2> QED
    BY <2>2 DEF BlocksOfPage
<1> HIDE DEF list
<1>6. freelists' = [freelists EXCEPT ![i] = list]
  <2>1. list \o <<>> = list
    BY <1>5
  <2> QED
    BY <1>1, <1>2, <2>1 DEF HeapInv, TypeOK
<1> QED
  BY <1>1, <1>4, <1>6, OneListChanges

LEMMA TakeFirstRuns ==
  ASSUME HeapInv, ListsInRuns, NEW t \in Threads, TakeFirst(t)
  PROVE  ListsInRuns'
<1> DEFINE i    == call[t].idx
           list == Tail(freelists[i])
<1>1. i \in Freelists /\ freelists[i] # <<>>
  BY DEF TakeFirst, Move, HeapInv, LocalsInv, LocalsAt, SlabWay
<1>2. freelists[i] \in Seq(BlockAddrs) /\ DescentsAreRuns(freelists[i], pow2(i))
  BY <1>1 DEF HeapInv, TypeOK, ListsInRuns
<1>3. DescentsAreRuns(list, pow2(i))
  BY <1>1, <1>2, TailKeepsRuns, Zenon
<1>4. freelists' = [freelists EXCEPT ![i] = list]
  BY DEF TakeFirst
<1> HIDE DEF list
<1> QED
  BY <1>1, <1>3, <1>4, OneListChanges

\* The block that is freed overlaps no node of its list.
LEMMA FreedBlockApart ==
  ASSUME HeapInv, NEW t \in Threads, pc[t] = "free_insert"
  PROVE  LET b == call[t].blk
             n == pow2(call[t].idx)
         IN  \A x \in Range(freelists[call[t].idx]) : b + n <= x \/ x + n <= b
<1> DEFINE i == call[t].idx
           b == call[t].blk
           p == Chunk("thread", t, b, pow2(i))
<1> SUFFICES ASSUME NEW x \in Range(freelists[i]) PROVE b + pow2(i) <= x \/ x + pow2(i) <= b
  OBVIOUS
<1> DEFINE d == Chunk("list", i, x, pow2(i))
<1>1. i \in Freelists
  BY DEF HeapInv, LocalsInv, LocalsAt
<1>2. InHand(t) = pow2(i) /\ pow2(i) # 0
  BY <1>1, BlockSizes, FreelistNumbers DEF InHand
<1>3. p \in Chunks
  BY <1>2 DEF Chunks, HandChunks
<1>4. d \in Chunks
  BY <1>1 DEF Chunks, FreeChunks
<1>5. p # d
  BY DEF Chunk
<1>6. Disjoint(p, d)
  BY <1>3, <1>4, <1>5 DEF HeapInv, ChunksInv, Apart
<1> QED
  BY <1>6 DEF Disjoint, Chunk

LEMMA FreeInsertRuns ==
  ASSUME HeapInv, ListsInRuns, NEW t \in Threads, FreeInsert(t)
  PROVE  ListsInRuns'
<1> DEFINE i    == call[t].idx
           b    == call[t].blk
           list == freelists[i]
<1>1. PICK k : /\ ScanStopsAt(list, b, k)
               /\ freelists' = [freelists EXCEPT ![i] = OrderedInsert(@, b, k)]
  BY DEF FreeInsert
<1>2. pc[t] = "free_insert"
  BY DEF FreeInsert, Move
<1>3. i \in Freelists /\ b \in BlockAddrs
  BY <1>2 DEF HeapInv, LocalsInv, LocalsAt
<1>4. list \in Seq(Int) /\ DescentsAreRuns(list, pow2(i))
  <2>1. list \in Seq(BlockAddrs) /\ DescentsAreRuns(list, pow2(i))
    BY <1>3 DEF HeapInv, TypeOK, ListsInRuns
  <2>2. /\ Len(list) \in Nat /\ list = [j \in 1..Len(list) |-> list[j]]
        /\ \A j \in 1..Len(list) : list[j] \in BlockAddrs
    BY <2>1
  <2>3. \A j \in 1..Len(list) : list[j] \in Int
    BY <2>2, AddressRange
  <2> HIDE DEF list
  <2>4. list \in Seq(Int)
    BY <2>2, <2>3
  <2> QED
    BY <2>1, <2>4
<1>5. b \in Int /\ pow2(i) \in Nat \ {0}
  BY <1>3, AddressRange, BlockSizes, FreelistNumbers
<1>6. \A x \in Range(list) : b + pow2(i) <= x \/ x + pow2(i) <= b
  BY <1>2, FreedBlockApart
<1>7. DescentsAreRuns(OrderedInsert(list, b, k), pow2(i))
  BY <1>1, <1>4, <1>5, <1>6, InsertKeepsRuns, Zenon
<1> DEFINE new == OrderedInsert(list, b, k)
<1>8. freelists' = [freelists EXCEPT ![i] = new]
  BY <1>1
<1> HIDE DEF new
<1> QED
  BY <1>3, <1>7, <1>8, OneListChanges DEF new

\* Whatever the order of frees, two nodes of a list that are out of address order
\* belong to one descending run of neighbouring blocks, the rest of a carved page
\* (p2malloc.c:166-194, 228-232); this, and not the ascending order that the
\* comment on p2orderedinsert claims, is what every list keeps.
THEOREM ListsInRunsTheorem == Spec => []ListsInRuns
<1>1. Init => ListsInRuns
  <2> SUFFICES ASSUME Init, NEW i \in Freelists PROVE DescentsAreRuns(freelists[i], pow2(i))
    BY DEF ListsInRuns
  <2>1. freelists[i] = <<>> /\ DOMAIN <<>> = {}
    BY DEF Init
  <2> QED
    BY <2>1, Zenon DEF DescentsAreRuns
<1>2. HeapInv /\ ListsInRuns /\ [Next]_vars => ListsInRuns'
  <2> SUFFICES ASSUME HeapInv, ListsInRuns, [Next]_vars PROVE ListsInRuns'
    OBVIOUS
  <2>1. UNCHANGED freelists => ListsInRuns'
    BY DEF ListsInRuns
  <2>2. ASSUME NEW t \in Threads, Call(t) \/ Step(t) PROVE ListsInRuns'
    BY <2>1, <2>2, ListsKept, freelists_initRuns, CarvePageRuns, TakeFirstRuns, FreeInsertRuns
  <2> QED
    BY <2>1, <2>2 DEF Next, vars
<1> QED
  BY <1>1, <1>2, HeapTheorem, PTL DEF Spec

--------------------------------------------------------------------------------
(***************************************************************************)
(* Sizes: a block in use has room for the request that its header records, *)
(* so what the clients own is apart, and P2Malloc implements Heap.         *)
(***************************************************************************)
\* p2realloc passes its size to get_freelist_idx before p2malloc's guard has seen
\* it, so a size within a header of SIZE_MAX wraps to a small bucket; the theorems
\* from here on are about clients that pass no such size.
ReallocsFit == \A size \in ReallocSizes : size <= SIZE_MAX - P2_HEADER_SIZE

\* The block has room for the header and a request that is not empty.
Holds(h) == h.size > 0 /\ h.size + P2_HEADER_SIZE <= BlockBytes(h)

\* What is known of the size in the locals c of a call at label l.
SizeAt(l, c) ==
  /\ l \in Asking \cup {"realloc_sub", "realloc_add"} => Admitted(c.size)
  /\ l = "add_allocated" => c.size + P2_HEADER_SIZE <= c.alloc_size

SizesInv ==
  /\ \A b \in DOMAIN hdr : Holds(hdr[b])
  /\ \A t \in Threads : SizeAt(pc[t], call[t])

--------------------------------------------------------------------------------
(***************************************************************************)
(* SizesInv, step by step.                                                 *)
(***************************************************************************)
LEMMA SizesAfter ==
  ASSUME HeapInv, SizesInv, NEW t \in Threads, NEW l, NEW c, StepTo(t, l, c), SizeAt(l, c),
         \A b \in DOMAIN hdr' : Holds(hdr'[b]) \/ (b \in DOMAIN hdr /\ hdr'[b] = hdr[b])
  PROVE  SizesInv'
<1>1. \A b \in DOMAIN hdr' : Holds(hdr'[b])
  BY DEF SizesInv
<1>2. ASSUME NEW u \in Threads PROVE SizeAt(pc'[u], call'[u])
  BY AfterStep DEF SizesInv, HeapInv
<1> QED
  BY <1>1, <1>2 DEF SizesInv

\* Nothing is known of the size at these labels, and nothing need be.
LEMMA SizesLeave ==
  ASSUME HeapInv, SizesInv, NEW t \in Threads, NEW l, NEW c, StepTo(t, l, c),
         l \notin Asking \cup {"realloc_sub", "realloc_add"},
         \A b \in DOMAIN hdr' : Holds(hdr'[b]) \/ (b \in DOMAIN hdr /\ hdr'[b] = hdr[b])
  PROVE  SizesInv'
<1>1. SizeAt(l, c)
  BY DEF SizeAt, Asking
<1> QED
  BY <1>1, SizesAfter

\* On the way through p2malloc, and between the two steps of a resize.
LEMMA SizesGoOn ==
  ASSUME HeapInv, SizesInv, NEW t \in Threads, NEW l, NEW c, StepTo(t, l, c),
         pc[t] \in Asking \cup {"realloc_sub"}, l # "add_allocated", c.size = call[t].size,
         \A b \in DOMAIN hdr' : Holds(hdr'[b]) \/ (b \in DOMAIN hdr /\ hdr'[b] = hdr[b])
  PROVE  SizesInv'
<1>1. SizeAt(l, c)
  BY DEF SizesInv, SizeAt
<1> QED
  BY <1>1, SizesAfter

LEMMA SizesInit == Init => SizesInv
  BY DEF Init, SizesInv, SizeAt, Asking, SlabWay

\* p2malloc's guard.
LEMMA SizesEnter ==
  ASSUME HeapInv, SizesInv, NEW t \in Threads, NEW c, c.size \in SizeT, EnterMalloc(t, c),
         hdr' = hdr
  PROVE  SizesInv'
<1>1. CASE c.size = 0 \/ c.size > SIZE_MAX - P2_HEADER_SIZE
  <2>1. StepTo(t, "done", c)
    BY <1>1 DEF EnterMalloc, StepTo, Goto
  <2> QED
    BY <2>1, SizesLeave DEF Asking, SlabWay
<1>2. CASE ~(c.size = 0 \/ c.size > SIZE_MAX - P2_HEADER_SIZE)
  <2>1. StepTo(t, "ensure_init", c)
    BY <1>2 DEF EnterMalloc, StepTo, Goto
  <2>2. Admitted(c.size)
    BY <1>2, HeaderSize, PlatformAssumption DEF Admitted, SizeT, PlatformAssumption
  <2>3. SizeAt("ensure_init", c)
    BY <2>2 DEF SizeAt
  <2> QED
    BY <2>1, <2>3, SizesAfter
<1> QED
  BY <1>1, <1>2

LEMMA SizesCall ==
  ASSUME ReallocsFit, HeapInv, SizesInv, NEW t \in Threads, Call(t)
  PROVE  SizesInv'
<1>1. /\ MallocSizes \subseteq SizeT
      /\ CallocArgs \subseteq SizeT \X SizeT
      /\ ReallocSizes \subseteq SizeT
  BY ClientAssumption DEF ClientAssumption
<1>2. ASSUME NEW size \in MallocSizes, p2malloc(t, size) PROVE SizesInv'
  <2>1. NewCall("malloc", NULL, size).size \in SizeT
    BY <1>1 DEF NewCall
  <2> QED
    BY <1>2, <2>1, SizesEnter DEF p2malloc, shared
<1>3. ASSUME NEW args \in CallocArgs, p2calloc(t, args[1], args[2]) PROVE SizesInv'
  <2> DEFINE product == Wrap(args[1] * args[2])
  <2>1. product \in SizeT
    <3>1. args[1] \in Int /\ args[2] \in Int
      BY <1>1 DEF SizeT
    <3>2. args[1] * args[2] \in Int
      BY <3>1
    <3> QED
      BY <3>2, WrapType
  <2>2. hdr' = hdr
    BY <1>3 DEF p2calloc, shared
  <2>3. \/ StepTo(t, "done", NewCall("calloc", NULL, 0))
        \/ EnterMalloc(t, NewCall("calloc", NULL, product))
    BY <1>3 DEF p2calloc, StepTo, Goto
  <2> HIDE DEF product
  <2>4. NewCall("calloc", NULL, product).size \in SizeT
    BY <2>1 DEF NewCall
  <2> QED
    BY <2>2, <2>3, <2>4, SizesLeave, SizesEnter DEF Asking, SlabWay
<1>4. ASSUME NEW ptr \in live, p2free(t, ptr) PROVE SizesInv'
  <2>1. PICK c : StepTo(t, "free", c)
    BY <1>4 DEF p2free, StepTo, Goto
  <2> QED
    BY <1>4, <2>1, SizesLeave DEF p2free, Asking, SlabWay
<1>5. ASSUME NEW ptr \in live \cup {NULL}, NEW size \in ReallocSizes, p2realloc(t, ptr, size)
      PROVE  SizesInv'
  <2> DEFINE c == NewCall("realloc", ptr, size)
             r == [c EXCEPT !.ret = ptr]
  <2>1. hdr' = hdr /\ size \in SizeT /\ c.size = size
    BY <1>1, <1>5 DEF p2realloc, NewCall
  <2>2. \/ EnterMalloc(t, c)
        \/ \E f : StepTo(t, "free", f)
        \/ size # 0 /\ StepTo(t, "realloc_sub", r)
    BY <1>5 DEF p2realloc, StepTo, Goto
  <2>3. r.size = size
    BY DEF NewCall
  <2> HIDE DEF c, r
  <2>4. ASSUME size # 0, StepTo(t, "realloc_sub", r) PROVE SizesInv'
    <3>1. Admitted(size)
      BY <2>1, <2>4, HeaderSize, PlatformAssumption
         DEF ReallocsFit, Admitted, SizeT, PlatformAssumption
    <3>2. SizeAt("realloc_sub", r)
      BY <2>3, <3>1 DEF SizeAt
    <3> QED
      BY <2>1, <2>4, <3>2, SizesAfter
  <2> QED
    BY <2>1, <2>2, <2>4, SizesLeave, SizesEnter DEF Asking, SlabWay
<1> QED
  BY <1>2, <1>3, <1>4, <1>5 DEF Call

\* The block that WriteHeader or LargeAddAllocated has in hand gets a header that
\* it has room for.
LEMMA NewHeaderHolds ==
  ASSUME HeapInv, NEW b \in BlockAddrs, NEW h \in Headers, Holds(h), hdr' = WithHeader(b, h)
  PROVE  \A x \in DOMAIN hdr' : Holds(hdr'[x]) \/ (x \in DOMAIN hdr /\ hdr'[x] = hdr[x])
  BY DEF WithHeader

LEMMA LargeAllocSizes ==
  ASSUME HeapInv, SizesInv, NEW t \in Threads, LargeAlloc(t)
  PROVE  SizesInv'
<1> DEFINE c == call[t]
           n == page_align(Wrap(P2_HEADER_SIZE + c.size))
<1>1. /\ pc[t] = "os_alloc" /\ hdr' = hdr /\ c \in Calls
      /\ pc' = [pc EXCEPT ![t] = "add_allocated"]
  BY DEF LargeAlloc, Move, Goto, HeapInv, TypeOK
<1>2. PICK page \in Room(n) : call' = [call EXCEPT ![t].blk = page, ![t].alloc_size = n]
  BY DEF LargeAlloc
<1>3. Admitted(c.size) /\ c.size \in SizeT
  BY <1>1 DEF SizesInv, SizeAt, Asking, Calls
<1>4. c.size + P2_HEADER_SIZE <= n
  <2>1. n > 0
    BY <1>2 DEF Room
  <2>2. Wrap(P2_HEADER_SIZE + c.size) = P2_HEADER_SIZE + c.size
    BY <1>3, HeaderSize, WrapType, PlatformAssumption DEF Admitted, SizeT, PlatformAssumption
  <2>3. n = page_align(P2_HEADER_SIZE + c.size)
    BY <2>2
  <2> HIDE DEF n
  <2>4. P2_HEADER_SIZE + c.size <= n
    BY <1>3, <2>1, <2>3, EveryPageIsEnough DEF PagesHoldRequest
  <2> QED
    BY <1>3, <2>4, HeaderSize DEF SizeT
<1> HIDE DEF n
<1> DEFINE d == [c EXCEPT !.blk = page, !.alloc_size = n]
<1>5. StepTo(t, "add_allocated", d)
  BY <1>1, <1>2 DEF StepTo, HeapInv, TypeOK
<1>6. d.size = c.size /\ d.alloc_size = n
  BY <1>1 DEF Calls
<1> HIDE DEF d
<1>7. SizeAt("add_allocated", d)
  BY <1>3, <1>4, <1>6 DEF SizeAt
<1> QED
  BY <1>1, <1>5, <1>7, SizesAfter

LEMMA LargeAddAllocatedSizes ==
  ASSUME HeapInv, SizesInv, NEW t \in Threads, LargeAddAllocated(t)
  PROVE  /\ SizesInv'
         /\ \E b \in BlockAddrs \ DOMAIN hdr : \E h \in Headers : hdr' = WithHeader(b, h)
<1> DEFINE c == call[t]
           h == [size |-> c.size, alloc_size |-> c.alloc_size]
<1>1. /\ pc[t] = "add_allocated" /\ c \in Calls
      /\ StepTo(t, "add_totmem", c)
      /\ hdr' = WithHeader(c.blk, h)
  BY SameCall DEF LargeAddAllocated, Move, HeapInv
<1>2. Admitted(c.size) /\ c.size + P2_HEADER_SIZE <= c.alloc_size
  BY <1>1 DEF SizesInv, SizeAt, Asking
<1>3. c.alloc_size # 0 /\ InHand(t) = c.alloc_size
  BY <1>1, <1>2, HeaderSize DEF Admitted, InHand
<1>4. c.blk \in BlockAddrs \ DOMAIN hdr
  BY <1>3, InHandAlone DEF HeapInv
<1>5. h \in Headers /\ h.size = c.size /\ IS_LARGE(h) /\ BlockBytes(h) = c.alloc_size
  BY <1>1, <1>3 DEF Calls, Headers, IS_LARGE, BlockBytes
<1> HIDE DEF h
<1>6. Holds(h)
  BY <1>2, <1>5 DEF Holds, Admitted
<1>7. \A x \in DOMAIN hdr' : Holds(hdr'[x]) \/ (x \in DOMAIN hdr /\ hdr'[x] = hdr[x])
  BY <1>1, <1>4, <1>5, <1>6, NewHeaderHolds
<1>8. SizesInv'
  BY <1>1, <1>7, SizesGoOn DEF Asking
<1> QED
  BY <1>1, <1>4, <1>5, <1>8

LEMMA WriteHeaderSizes ==
  ASSUME HeapInv, SizesInv, NEW t \in Threads, WriteHeader(t)
  PROVE  /\ SizesInv'
         /\ \E b \in BlockAddrs \ DOMAIN hdr : \E h \in Headers : hdr' = WithHeader(b, h)
<1> DEFINE c == call[t]
           h == [size |-> c.size, alloc_size |-> 0]
           p == PtrOf(c.blk)
           d == [c EXCEPT !.ret = p]
           l == AfterMalloc(c, p)
<1>1. /\ pc[t] = "write_header" /\ c \in Calls
      /\ StepTo(t, l, d)
      /\ hdr' = WithHeader(c.blk, h)
  BY DEF WriteHeader, Resume, Goto, StepTo, HeapInv, TypeOK
<1>2. Admitted(c.size) /\ c.idx = get_freelist_idx(c.size) /\ c.idx \in Freelists
  BY <1>1 DEF SizesInv, SizeAt, Asking, SlabWay, HeapInv, LocalsInv, LocalsAt
<1>3. InHand(t) = pow2(c.idx) /\ pow2(c.idx) \in Nat \ {0}
  BY <1>1, <1>2, BlockSizes, FreelistNumbers DEF InHand
<1>4. c.blk \in BlockAddrs \ DOMAIN hdr
  BY <1>3, InHandAlone DEF HeapInv
<1>5. h \in Headers /\ h.size = c.size /\ ~IS_LARGE(h) /\ BlockBytes(h) = pow2(c.idx)
  BY <1>1, <1>2, PlatformAssumption
     DEF Calls, Headers, IS_LARGE, BlockBytes, SizeT, PlatformAssumption
<1>6. l \notin Asking \cup {"realloc_sub", "realloc_add"}
  BY DEF AfterMalloc, Asking, SlabWay
<1> HIDE DEF h, d, l
<1>7. Holds(h)
  <2>1. c.size + P2_HEADER_SIZE <= pow2(c.idx)
    BY <1>1, <1>2, EveryBucketIsLeast DEF LeastFit, Calls, Freelists
  <2> QED
    BY <1>2, <1>5, <2>1 DEF Holds, Admitted
<1>8. \A x \in DOMAIN hdr' : Holds(hdr'[x]) \/ (x \in DOMAIN hdr /\ hdr'[x] = hdr[x])
  BY <1>1, <1>4, <1>5, <1>7, NewHeaderHolds
<1>9. SizesInv'
  BY <1>1, <1>6, <1>8, SizesLeave
<1> QED
  BY <1>1, <1>4, <1>5, <1>9

\* A block that stays in place has room for its new size.
LEMMA ResizeAddSizes ==
  ASSUME HeapInv, SizesInv, NEW t \in Threads, ResizeAdd(t)
  PROVE  /\ SizesInv'
         /\ \E b \in DOMAIN hdr : \E size \in SizeT : hdr' = [hdr EXCEPT ![b].size = size]
<1> DEFINE c == call[t]
           b == HdrOf(c.ptr)
<1>1. /\ pc[t] = "realloc_add" /\ StepTo(t, "done", c) /\ c \in Calls
      /\ hdr' = [hdr EXCEPT ![b].size = c.size]
  BY SameCall DEF ResizeAdd, Move, HeapInv
<1>2. /\ c.ret # NULL /\ c.ret = c.ptr /\ ~IS_LARGE(hdr[b])
      /\ get_freelist_idx(c.size) = get_freelist_idx(hdr[b].size)
  BY <1>1 DEF HeapInv, LocalsInv, LocalsAt, StaysInPlace
<1>3. b \in DOMAIN hdr
  BY <1>1, <1>2 DEF NewBlock, CallBlocks, HeapInv, OwnersInv
<1>4. hdr[b] \in Headers /\ HeaderTrue(b, hdr[b]) /\ c.size \in SizeT
  BY <1>1, <1>3 DEF HeapInv, TypeOK, HeadersInv, Calls
<1>5. Admitted(c.size)
  BY <1>1 DEF SizesInv, SizeAt
<1>6. /\ DOMAIN hdr' = DOMAIN hdr
      /\ \A x \in DOMAIN hdr : x # b => hdr'[x] = hdr[x]
      /\ hdr'[b].alloc_size = hdr[b].alloc_size /\ hdr'[b].size = c.size
  BY <1>1, <1>3, <1>4 DEF Headers
<1>7. get_freelist_idx(c.size) \in Freelists
  BY <1>2, <1>4 DEF HeaderTrue
<1>8. c.size + P2_HEADER_SIZE <= pow2(get_freelist_idx(c.size))
  BY <1>4, <1>5, <1>7, EveryBucketIsLeast DEF LeastFit, Freelists
<1>9. BlockBytes(hdr'[b]) = pow2(get_freelist_idx(c.size))
  BY <1>2, <1>6 DEF BlockBytes, IS_LARGE
<1>10. Holds(hdr'[b])
  BY <1>5, <1>6, <1>8, <1>9 DEF Holds, Admitted
<1>11. SizesInv'
  BY <1>1, <1>6, <1>10, SizesLeave DEF Asking, SlabWay
<1> QED
  BY <1>1, <1>3, <1>4, <1>11

LEMMA FreeSizes ==
  ASSUME HeapInv, SizesInv, NEW t \in Threads, FreeLarge(t) \/ FreeSlab(t)
  PROVE  SizesInv' /\ \E b \in DOMAIN hdr : hdr' = WithoutHeader(b)
<1>1. PICK l \in {"free_totmem", "free_lock", "aborted"} : \E c : StepTo(t, l, c)
  BY DEF FreeLarge, FreeSlab, Move, Goto, StepTo
<1>2. PICK c : StepTo(t, l, c)
  BY <1>1
<1>3. pc[t] = "free" /\ hdr' = WithoutHeader(call[t].blk)
  BY DEF FreeLarge, FreeSlab, Move
<1>4. call[t].blk \in DOMAIN hdr
  BY <1>3 DEF HeapInv, OwnersInv, CallBlocks, GivenBlock
<1>5. \A x \in DOMAIN hdr' : x \in DOMAIN hdr /\ hdr'[x] = hdr[x]
  BY <1>3 DEF WithoutHeader
<1>6. SizesInv'
  BY <1>2, <1>5, SizesLeave DEF Asking, SlabWay
<1> QED
  BY <1>3, <1>4, <1>6

\* The steps of p2malloc that take no header along.
LEMMA AskingSizes ==
  ASSUME HeapInv, SizesInv, NEW t \in Threads,
         \/ CompareAndSwap(t) \/ freelists_init(t) \/ InitReady(t) \/ SpinEnds(t)
         \/ SlabLock(t) \/ ListHasBlock(t) \/ ClaimPage(t) \/ CarvePage(t) \/ TakeFirst(t)
  PROVE  SizesInv' /\ hdr' = hdr
<1> DEFINE c == call[t]
<1>1. c \in Calls /\ hdr' = hdr
  BY DEF HeapInv, TypeOK, CompareAndSwap, freelists_init, InitReady, SpinEnds, SlabLock,
         Acquire, ListHasBlock, ClaimPage, CarvePage, TakeFirst, shared
<1>2. \A x, d : d = [c EXCEPT !.idx = x] \/ d = [c EXCEPT !.blk = x] => d.size = c.size
  BY <1>1, IdxSet, BlkSet
<1>3. CASE CompareAndSwap(t)
  <2>1. PICK l \in {"freelists_init", "init_spin"} : StepTo(t, l, c)
    BY <1>3, SameCall DEF CompareAndSwap, HeapInv
  <2> QED
    BY <1>1, <1>3, <2>1, SizesGoOn DEF CompareAndSwap, Asking
<1>4. CASE freelists_init(t)
  <2>1. StepTo(t, "init_ready", c)
    BY <1>4, SameCall DEF freelists_init, Move, HeapInv
  <2> QED
    BY <1>1, <1>4, <2>1, SizesGoOn DEF freelists_init, Move, Asking
<1>5. CASE InitReady(t) \/ SpinEnds(t)
  <2>1. \/ StepTo(t, "os_alloc", c)
        \/ \E d : d = [c EXCEPT !.idx = get_freelist_idx(c.size)] /\ StepTo(t, "lock", d)
    BY <1>5, SameCall DEF InitReady, SpinEnds, Dispatch, StepTo, Goto, HeapInv
  <2>2. pc[t] \in {"init_ready", "init_spin"}
    BY <1>5 DEF InitReady, SpinEnds
  <2> QED
    BY <1>1, <1>2, <2>1, <2>2, SizesGoOn DEF Asking
<1>6. CASE SlabLock(t)
  <2>1. StepTo(t, "check", c) /\ pc[t] = "lock"
    BY <1>6, SameCall DEF SlabLock, Acquire, Move, HeapInv
  <2> QED
    BY <1>1, <2>1, SizesGoOn DEF Asking, SlabWay
<1>7. CASE ListHasBlock(t) \/ CarvePage(t)
  <2>1. StepTo(t, "pop", c) /\ pc[t] \in {"check", "carve"}
    BY <1>7, SameCall DEF ListHasBlock, CarvePage, Move, HeapInv
  <2> QED
    BY <1>1, <2>1, SizesGoOn DEF Asking, SlabWay
<1>8. CASE ClaimPage(t)
  <2>1. pc[t] = "check" /\ \E page : StepTo(t, "carve", [c EXCEPT !.blk = page])
    BY <1>8 DEF ClaimPage, Move, Goto, StepTo
  <2> QED
    BY <1>1, <1>2, <2>1, SizesGoOn DEF Asking, SlabWay
<1>9. CASE TakeFirst(t)
  <2>1. pc[t] = "pop" /\ \E b : StepTo(t, "write_header", [c EXCEPT !.blk = b])
    BY <1>9 DEF TakeFirst, Move, Goto, StepTo
  <2> QED
    BY <1>1, <1>2, <2>1, SizesGoOn DEF Asking, SlabWay
<1> QED
  BY <1>1, <1>3, <1>4, <1>5, <1>6, <1>7, <1>8, <1>9

\* The steps after which nothing is asked for any more.
LEMMA LeavingSizes ==
  ASSUME HeapInv, SizesInv, NEW t \in Threads,
         \/ LargeAllocFails(t) \/ ClaimPageFails(t) \/ LargeAddTotmem(t)
         \/ SubTotmem(t) \/ Unmap(t) \/ FreeLock(t) \/ FreeInsert(t)
         \/ ZeroPayload(t) \/ CopyPayload(t) \/ Return(t)
  PROVE  SizesInv' /\ hdr' = hdr
<1> DEFINE quiet == {"done", "idle", "zero_payload", "copy_payload", "free", "free_unmap",
                     "free_insert"}
<1>1. hdr' = hdr
  BY DEF LargeAllocFails, ClaimPageFails, LargeAddTotmem, SubTotmem, Unmap, FreeLock, Acquire,
         FreeInsert, ZeroPayload, CopyPayload, Return, shared
<1>2. CASE LargeAllocFails(t) \/ ClaimPageFails(t) \/ LargeAddTotmem(t)
  <2>1. PICK ptr : Resume(t, ptr)
    BY <1>2 DEF LargeAllocFails, ClaimPageFails, LargeAddTotmem
  <2>2. AfterMalloc(call[t], ptr) \in quiet
    BY DEF AfterMalloc
  <2>3. \E l \in quiet : \E c : StepTo(t, l, c)
    BY <2>1, <2>2 DEF Resume, Goto, StepTo
  <2> QED
    BY <1>1, <2>3, SizesLeave DEF Asking, SlabWay
<1>3. CASE ~(LargeAllocFails(t) \/ ClaimPageFails(t) \/ LargeAddTotmem(t))
  <2>1. \/ \E l \in quiet : Goto(t, l) /\ call' = call
        \/ \E l \in quiet : \E c : StepTo(t, l, c)
    BY <1>3 DEF SubTotmem, Unmap, FreeLock, Acquire, FreeInsert, ZeroPayload, CopyPayload,
               Return, Move, Goto, StepTo
  <2>2. \E l \in quiet : \E c : StepTo(t, l, c)
    BY <2>1, SameCall DEF HeapInv
  <2> QED
    BY <1>1, <2>2, SizesLeave DEF Asking, SlabWay
<1> QED
  BY <1>1, <1>2, <1>3

LEMMA ResizeSubSizes ==
  ASSUME HeapInv, SizesInv, NEW t \in Threads, ResizeSub(t)
  PROVE  SizesInv' /\ hdr' = hdr
<1>1. StepTo(t, "realloc_add", call[t]) /\ pc[t] = "realloc_sub" /\ hdr' = hdr
  BY SameCall DEF ResizeSub, Move, HeapInv
<1> QED
  BY <1>1, SizesGoOn

\* What a step does to the headers: it leaves them, or it writes, changes or
\* drops one.
HeaderStep ==
  \/ hdr' = hdr
  \/ \E b \in BlockAddrs \ DOMAIN hdr : \E h \in Headers : hdr' = WithHeader(b, h)
  \/ \E b \in DOMAIN hdr : \E size \in SizeT : hdr' = [hdr EXCEPT ![b].size = size]
  \/ \E b \in DOMAIN hdr : hdr' = WithoutHeader(b)

LEMMA SizesStep ==
  ASSUME HeapInv, SizesInv, NEW t \in Threads, Step(t)
  PROVE  SizesInv' /\ HeaderStep
<1>1. CASE \/ CompareAndSwap(t) \/ freelists_init(t) \/ InitReady(t) \/ SpinEnds(t)
           \/ SlabLock(t) \/ ListHasBlock(t) \/ ClaimPage(t) \/ CarvePage(t) \/ TakeFirst(t)
  BY <1>1, AskingSizes DEF HeaderStep
<1>2. CASE \/ LargeAllocFails(t) \/ ClaimPageFails(t) \/ LargeAddTotmem(t)
           \/ SubTotmem(t) \/ Unmap(t) \/ FreeLock(t) \/ FreeInsert(t)
           \/ ZeroPayload(t) \/ CopyPayload(t) \/ Return(t)
  BY <1>2, LeavingSizes DEF HeaderStep
<1>3. CASE Spin(t)
  BY <1>3 DEF Spin, vars, SizesInv, SizeAt, Holds, HeaderStep
<1>4. CASE LargeAlloc(t)
  BY <1>4, LargeAllocSizes DEF LargeAlloc, HeaderStep
<1>5. CASE LargeAddAllocated(t) \/ WriteHeader(t)
  BY <1>5, LargeAddAllocatedSizes, WriteHeaderSizes DEF HeaderStep
<1>6. CASE FreeLarge(t) \/ FreeSlab(t)
  BY <1>6, FreeSizes DEF HeaderStep
<1>7. CASE ResizeSub(t) \/ ResizeAdd(t)
  BY <1>7, ResizeSubSizes, ResizeAddSizes DEF HeaderStep
<1> QED
  BY <1>1, <1>2, <1>3, <1>4, <1>5, <1>6, <1>7 DEF Step

LEMMA SizesNext ==
  ASSUME ReallocsFit, HeapInv, SizesInv, [Next]_vars
  PROVE  SizesInv' /\ HeaderStep
<1>1. CASE UNCHANGED vars
  BY <1>1 DEF vars, SizesInv, SizeAt, Holds, HeaderStep
<1>2. ASSUME NEW t \in Threads, Call(t) PROVE SizesInv' /\ HeaderStep
  <2>1. hdr' = hdr
    BY <1>2 DEF Call, p2malloc, p2calloc, p2free, p2realloc, shared
  <2> QED
    BY <1>2, <2>1, SizesCall DEF HeaderStep
<1> QED
  BY <1>1, <1>2, SizesStep DEF Next

LEMMA SizesTheorem ==
  ASSUME ReallocsFit
  PROVE  Spec => []SizesInv
<1>1. Init => SizesInv
  BY SizesInit
<1>2. HeapInv /\ SizesInv /\ [Next]_vars => SizesInv'
  BY SizesNext
<1> QED
  BY <1>1, <1>2, HeapTheorem, PTL DEF Spec

\* As long as no client passes p2realloc a size within a header of SIZE_MAX, every
\* block that a client holds has a header, room for its request and a bucket that
\* p2free will find, or its own pages; for any number of threads, pages and sizes
\* and whatever the OS refuses (p2malloc.c:148-164, 240-244, 269-271, 305-306).
THEOREM HeldBlocksFitTheorem ==
  ASSUME ReallocsFit
  PROVE  Spec => []HeldBlocksFit
<1>1. HeapInv /\ SizesInv => HeldBlocksFit
  BY DEF HeapInv, OwnersInv, HeldBlocks, HeadersInv, HeaderTrue, SizesInv, Holds, HeldBlocksFit
<1> QED
  BY <1>1, HeapTheorem, SizesTheorem, PTL

\* The comment of get_freelist_idx, "Returns -1 when size + header exceeds one
\* page", is true of every header in use as long as no client passes p2realloc a
\* size within a header of SIZE_MAX: a sum that wraps is the only way in which a
\* block of a bucket can record more than a page (p2malloc.c:148-164, 298-303).
THEOREM OversizeTheorem ==
  ASSUME ReallocsFit
  PROVE  Spec => []OversizeHasNoBucket
<1>1. HeapInv /\ SizesInv => OversizeHasNoBucket
  <2> SUFFICES ASSUME HeapInv, SizesInv, NEW b \in DOMAIN hdr, ~IS_LARGE(hdr[b])
               PROVE  ~(hdr[b].size + P2_HEADER_SIZE > PAGE_BYTES)
    BY DEF OversizeHasNoBucket
  <2>1. HeaderTrue(b, hdr[b]) /\ hdr[b].size \in SizeT
    BY DEF HeapInv, HeadersInv, TypeOK, Headers
  <2>2. pow2(get_freelist_idx(hdr[b].size)) <= 4096
    BY <2>1, BlockSizes, FreelistNumbers DEF HeaderTrue
  <2>3. hdr[b].size + P2_HEADER_SIZE <= pow2(get_freelist_idx(hdr[b].size))
    BY DEF SizesInv, Holds, BlockBytes
  <2>4. pow2(get_freelist_idx(hdr[b].size)) \in Nat
    BY <2>1, BlockSizes, FreelistNumbers DEF HeaderTrue
  <2> QED
    BY <2>1, <2>2, <2>3, <2>4, HeaderSize, HeapNumbers DEF SizeT
<1> QED
  BY <1>1, HeapTheorem, SizesTheorem, PTL

--------------------------------------------------------------------------------
(***************************************************************************)
(* Every step is a step of Heap or none.                                   *)
(***************************************************************************)

\* The refinement mapping: what the clients own, read off the headers.
Owned == [ptr \in {PtrOf(b) : b \in DOMAIN hdr} |-> hdr[HdrOf(ptr)].size]

\* The payloads lie apart, headers included.
PiecesApart ==
  \A b, c \in DOMAIN hdr :
    b # c => \/ PtrOf(b) + hdr[b].size <= PtrOf(c) - P2_HEADER_SIZE
             \/ PtrOf(c) + hdr[c].size <= PtrOf(b) - P2_HEADER_SIZE

OwnedPieces ==
  /\ DOMAIN Owned = {PtrOf(b) : b \in DOMAIN hdr}
  /\ \A b \in DOMAIN hdr : /\ PtrOf(b) \in DOMAIN Owned
                           /\ Owned[PtrOf(b)] = hdr[b].size
                           /\ HdrOf(PtrOf(b)) = b
                           /\ hdr[b].size > 0
                           /\ PtrOf(b) % ALIGNOF_MAX_ALIGN_T = 0
  /\ PiecesApart

LEMMA PiecesOwned == HeapInv /\ SizesInv => OwnedPieces
<1> SUFFICES ASSUME HeapInv, SizesInv PROVE OwnedPieces
  OBVIOUS
<1>1. ASSUME NEW b \in DOMAIN hdr
      PROVE  /\ b \in BlockAddrs /\ HdrOf(PtrOf(b)) = b
             /\ PtrOf(b) % ALIGNOF_MAX_ALIGN_T = 0
             /\ hdr[b].size \in Nat /\ Holds(hdr[b])
  <2>1. b \in BlockAddrs /\ hdr[b].size \in Nat
    BY PlatformAssumption DEF HeapInv, TypeOK, Headers, SizeT, PlatformAssumption
  <2>2. b \in Nat /\ b % 32 = 0
    BY <2>1, AddressRange
  <2>3. PtrOf(b) % ALIGNOF_MAX_ALIGN_T = 0
    BY <2>2, HeaderSize, PlatformAssumption DEF PtrOf, PlatformAssumption
  <2> QED
    BY <2>1, <2>3, PointerOfBlock DEF SizesInv
<1>2. PiecesApart
  <2> SUFFICES ASSUME NEW b \in DOMAIN hdr, NEW c \in DOMAIN hdr, b # c
               PROVE  \/ PtrOf(b) + hdr[b].size <= PtrOf(c) - P2_HEADER_SIZE
                      \/ PtrOf(c) + hdr[c].size <= PtrOf(b) - P2_HEADER_SIZE
    BY DEF PiecesApart
  <2> DEFINE x == Chunk("header", NoThread, b, BlockBytes(hdr[b]))
             y == Chunk("header", NoThread, c, BlockBytes(hdr[c]))
  <2>1. x \in Chunks /\ y \in Chunks
    BY DEF Chunks, UsedChunks
  <2>2. x # y
    BY DEF Chunk
  <2>3. Disjoint(x, y) /\ x.bytes \in Nat /\ y.bytes \in Nat
    BY <2>1, <2>2 DEF HeapInv, ChunksInv, Apart, Placed
  <2>4. /\ BlockBytes(hdr[b]) \in Nat /\ BlockBytes(hdr[c]) \in Nat
        /\ b + BlockBytes(hdr[b]) <= c \/ c + BlockBytes(hdr[c]) <= b
    BY <2>3 DEF Disjoint, Chunk
  <2>5. b \in Nat /\ c \in Nat
    BY <1>1, AddressRange
  <2> QED
    BY <1>1, <2>4, <2>5, HeaderSize DEF Holds, PtrOf
<1> QED
  BY <1>1, <1>2 DEF OwnedPieces, Owned, Holds

LEMMA PiecesOwnedNext == HeapInv' /\ SizesInv' => OwnedPieces'
  BY PiecesOwned, PTL

LEMMA RefinesInit == Init => AbstractHeap!Init
  BY DEF Init, AbstractHeap!Init

\* A block that gets a header becomes the client's.
LEMMA RefinesAllocate ==
  ASSUME OwnedPieces, OwnedPieces', NEW b \in BlockAddrs \ DOMAIN hdr, NEW h,
         hdr' = WithHeader(b, h)
  PROVE  AbstractHeap!Next
<1> DEFINE p == PtrOf(b)
<1>1. /\ DOMAIN hdr' = DOMAIN hdr \cup {b} /\ hdr'[b] = h
      /\ \A c \in DOMAIN hdr : c # b /\ hdr'[c] = hdr[c]
  BY DEF WithHeader
<1>2. DOMAIN Owned' = DOMAIN Owned \cup {p}
  BY <1>1 DEF OwnedPieces
<1>3. p \notin DOMAIN Owned
  BY <1>1, PointerOfBlock DEF OwnedPieces
<1>4. Owned'[p] > 0 /\ p % ALIGNOF_MAX_ALIGN_T = 0 /\ Owned'[p] = h.size
  BY <1>1 DEF OwnedPieces
<1>5. \A q \in DOMAIN Owned : Owned'[q] = Owned[q]
  BY <1>1 DEF OwnedPieces
<1>6. ASSUME NEW q \in DOMAIN Owned
      PROVE  \/ p + Owned'[p] <= q - P2_HEADER_SIZE
             \/ q + Owned[q] <= p - P2_HEADER_SIZE
  <2>1. PICK c \in DOMAIN hdr : q = PtrOf(c)
    BY DEF OwnedPieces
  <2>2. \/ PtrOf(b) + hdr'[b].size <= PtrOf(c) - P2_HEADER_SIZE
        \/ PtrOf(c) + hdr'[c].size <= PtrOf(b) - P2_HEADER_SIZE
    BY <1>1 DEF OwnedPieces, PiecesApart, PtrOf
  <2> QED
    BY <1>1, <1>4, <2>1, <2>2 DEF OwnedPieces
<1>7. Owned' = [q \in DOMAIN Owned \cup {p} |-> IF q = p THEN Owned'[p] ELSE Owned[q]]
  <2>1. Owned' = [q \in DOMAIN Owned' |-> Owned'[q]]
    BY DEF Owned
  <2> QED
    BY <1>2, <1>3, <1>5, <2>1
<1>8. AbstractHeap!Allocate(p, Owned'[p])
  BY <1>3, <1>4, <1>6, <1>7
     DEF AbstractHeap!Allocate, AbstractHeap!Fits, AbstractHeap!Apart, AbstractHeap!With, Owned
<1> QED
  BY <1>2, <1>8 DEF AbstractHeap!Next, Owned

\* A block that keeps its place gets another size.
LEMMA RefinesResize ==
  ASSUME HeapInv, OwnedPieces, OwnedPieces', NEW b \in DOMAIN hdr, NEW size \in SizeT,
         hdr' = [hdr EXCEPT ![b].size = size]
  PROVE  AbstractHeap!Next
<1> DEFINE p == PtrOf(b)
<1>1. hdr[b] \in Headers
  BY DEF HeapInv, TypeOK
<1>2. /\ DOMAIN hdr' = DOMAIN hdr /\ hdr'[b].size = size
      /\ \A c \in DOMAIN hdr : c # b => hdr'[c] = hdr[c]
  BY <1>1 DEF Headers
<1>3. DOMAIN Owned' = DOMAIN Owned /\ p \in DOMAIN Owned
  BY <1>2 DEF OwnedPieces
<1>4. Owned'[p] > 0 /\ p % ALIGNOF_MAX_ALIGN_T = 0 /\ Owned'[p] = size
  BY <1>2 DEF OwnedPieces
<1>5. \A q \in DOMAIN Owned : q # p => Owned'[q] = Owned[q]
  BY <1>2 DEF OwnedPieces
<1>6. ASSUME NEW q \in DOMAIN Owned \ {p}
      PROVE  \/ p + Owned'[p] <= q - P2_HEADER_SIZE
             \/ q + Owned[q] <= p - P2_HEADER_SIZE
  <2>1. PICK c \in DOMAIN hdr : q = PtrOf(c) /\ c # b
    BY DEF OwnedPieces
  <2>2. \/ PtrOf(b) + hdr'[b].size <= PtrOf(c) - P2_HEADER_SIZE
        \/ PtrOf(c) + hdr'[c].size <= PtrOf(b) - P2_HEADER_SIZE
    BY <1>2, <2>1 DEF OwnedPieces, PiecesApart, PtrOf
  <2> QED
    BY <1>2, <1>4, <2>1, <2>2 DEF OwnedPieces
<1>7. Owned' = [q \in DOMAIN Owned \cup {p} |-> IF q = p THEN Owned'[p] ELSE Owned[q]]
  <2>1. Owned' = [q \in DOMAIN Owned' |-> Owned'[q]]
    BY DEF Owned
  <2> QED
    BY <1>3, <1>5, <2>1
<1>8. AbstractHeap!Resize(p, Owned'[p])
  BY <1>3, <1>4, <1>6, <1>7
     DEF AbstractHeap!Resize, AbstractHeap!Fits, AbstractHeap!Apart, AbstractHeap!With, Owned
<1> QED
  BY <1>3, <1>8 DEF AbstractHeap!Next, Owned

\* A block that loses its header is the client's no longer.
LEMMA RefinesRelease ==
  ASSUME OwnedPieces, OwnedPieces', NEW b \in DOMAIN hdr, hdr' = WithoutHeader(b)
  PROVE  AbstractHeap!Next
<1> DEFINE p == PtrOf(b)
<1>1. DOMAIN hdr' = DOMAIN hdr \ {b} /\ \A c \in DOMAIN hdr' : hdr'[c] = hdr[c]
  BY DEF WithoutHeader
<1>2. p \in DOMAIN Owned
  BY DEF OwnedPieces
<1>3. DOMAIN Owned' = DOMAIN Owned \ {p}
  BY <1>1 DEF OwnedPieces
<1>4. \A q \in DOMAIN Owned' : Owned'[q] = Owned[q]
  BY <1>1 DEF OwnedPieces
<1>5. Owned' = [q \in DOMAIN Owned \ {p} |-> Owned[q]]
  <2>1. Owned' = [q \in DOMAIN Owned' |-> Owned'[q]]
    BY DEF Owned
  <2> QED
    BY <1>3, <1>4, <2>1
<1>6. AbstractHeap!Release(p)
  BY <1>2, <1>5 DEF AbstractHeap!Release, Owned
<1> QED
  BY <1>2, <1>6 DEF AbstractHeap!Next, Owned

LEMMA RefinesStep ==
  ASSUME HeapInv, OwnedPieces, OwnedPieces', HeaderStep
  PROVE  AbstractHeap!Next \/ Owned' = Owned
<1>1. CASE hdr' = hdr
  BY <1>1 DEF Owned
<1>2. CASE \E b \in BlockAddrs \ DOMAIN hdr : \E h \in Headers : hdr' = WithHeader(b, h)
  BY <1>2, RefinesAllocate
<1>3. CASE \E b \in DOMAIN hdr : \E size \in SizeT : hdr' = [hdr EXCEPT ![b].size = size]
  BY <1>3, RefinesResize
<1>4. CASE \E b \in DOMAIN hdr : hdr' = WithoutHeader(b)
  BY <1>4, RefinesRelease
<1> QED
  BY <1>1, <1>2, <1>3, <1>4 DEF HeaderStep

\* As long as no client passes p2realloc a size within a header of SIZE_MAX,
\* p2malloc, p2calloc, p2realloc and p2free, run by any number of threads on any
\* number of pages and whatever the OS refuses, implement the heap: each step gives
\* out one aligned block apart from all others, resizes one within its own space,
\* takes one back, or changes none (p2malloc.c:200-310).
THEOREM ImplementsHeapTheorem ==
  ASSUME ReallocsFit
  PROVE  Spec => ImplementsHeap
<1>1. Init => AbstractHeap!Init
  BY RefinesInit
<1>2. HeapInv /\ SizesInv /\ HeapInv' /\ SizesInv' /\ [Next]_vars
      => [AbstractHeap!Next]_Owned
  BY PiecesOwned, PiecesOwnedNext, SizesNext, RefinesStep
<1> QED
  BY <1>1, <1>2, HeapTheorem, SizesTheorem, PTL
     DEF Spec, ImplementsHeap, AbstractHeap!Spec, Owned
================================================================================
